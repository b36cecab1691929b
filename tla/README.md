# A verification of the Undaunted servers

Undaunted revives the 1.12 servers of a game: a **metagame** server (accounts, inventory, parties,
matchmaking, chat), a **deploy server** that starts and watches the game worlds, a **runtime** DLL
loaded into those worlds and into the client, and a **launcher**. This directory holds TLA+ modules for
the parts whose correctness depends on the order in which things happen, TLC configurations that check
them on small instances, and TLAPS proofs of their central invariants for every instance.

Paths below are those of the repository (`UndauntedDeployServer/src/controllers/...` is shortened to
`controllers/...`, `UndauntedMetagame/src/...` to `metagame/...`).

## 1. The system

| component | state | operations | talks to |
|---|---|---|---|
| island worlds (`controllers/gameservers.ts`, `portPool.ts`, `watchdog.ts`) | `Gameservers`, free and held ports, launch queue, child processes | start a world, wait for its port, notice an exit, watchdog pass | spawns world processes; called by the matchmaker |
| always-on worlds (`onDemandWorld.ts`, `trainingLease.ts`, `gameservers.ts`) | `Current`, `Pending`, the lease file on disk | `get`, reserve, forget, restart | lease file shared with the world's `TrainingLifecycle.cpp` |
| hunt selection (`matchmaker.ts`, `joinWorld.ts`, `huntTables.ts`) | none of its own | choose map and behemoth, join a running hunt, fall back to Ramsgate | reads `Gameservers`; called over HTTP by the metagame |
| shared hunting grounds (`metagame/features/party/huntingGrounds.ts`) | `Worlds`, `PlayerWorld`, a chain of promises per hunt | take a turn, find, record, release, forget | called by matchmaking and by presence |
| parties (`metagame/features/party/party.ts`) | parties, membership, invites | create, invite, accept, leave, kick, promote | tells matchmaking when a party changes |
| matchmaking (`metagame/features/party/matchmaking.ts`, `routes/`) | queue per hunt, candidate per player | join, poll, pop, cancel | parties, deploy server (HTTP, may fail) |
| realtime (`metagame/realtime/`) | connections per account and resource, offline timers, rooms | bind, unbind, announce, join, leave, speak | friends table; releases hunting-ground slots |
| inventory, wallet, middleman (`metagame/features/inventory`, `wallet`, `middleman`) | stacks, instanced items, replay ledger, balances | one transaction per request; save of one item; exchange of fused cells | store, hunt pass, slayer links |
| store and entitlements (`metagame/features/store`, `entitlements`) | purchase tokens, entitlement terms | ask for a token, redeem it | inventory and wallet |
| progression and hunt pass (`metagame/features/progression`, `huntpass`) | points, objectives, confirmed ranks, claims | award, confirm a rank, reset a track | inventory, wallet, entitlements |
| challenges (`metagame/features/challenges`) | the bounty board, retired generations, the week's selection | post, abandon, read | |
| escalation (`metagame/features/escalation`) | a season's snapshot and the versions used | post a snapshot, read | native game server |
| slayer links (`metagame/features/slayerLinks`) | invitations, links, reward pools, credited XP | invite, answer, store, collect, release | friends, inventory, progression |
| characters and loadouts | saves with versions, slots, cooldowns | create, save, unlock | |
| accounts, authentication | accounts, keys, tokens | sign in | everything |
| runtime (`UndauntedRuntime-1.12`) | hooks in a closed binary | idle shutdown of the Training Grounds; patches | lease file |
| launcher (`UndauntedLauncher`) | installed files | update, start the game | metagame |

Both servers are single-threaded Node processes: a handler runs alone until it awaits. What makes them
hard is what happens **between two awaits**, in another process or on the other server: a world dies
while its launch waits for it; two requests that both await the deploy server record their answers in
the opposite order; a timer or an exit event is delivered late and acts on a port, an address or a
candidate that belongs to someone else by then. `PROJECT.json` lists these hazards at their lines.

What makes each component correct:

- island worlds: a port belongs to one world; no process is lost on any failure path, and a port on one only (section 4);
  every launch is answered, so the serial queue never blocks;
- always-on worlds: one live world at a time; a traveller is never sent to a dying world and has the
  whole reservation to arrive; a crash is repaired and a sleep is not undone;
- hunting grounds: the two maps agree; allocation is mutually exclusive per hunt; no world is
  over-promised; the counts are the players who are there; private hunts stay private;
- parties: nobody is in two parties; a party has a leader, who is in it; four places; no invitation to a
  party that is gone;
- matchmaking: a player who is told to wait is queued, with the party they are in, and gets an answer;
  a world that was promised stays promised;
- realtime: the registry lists open connections only; a late close takes nobody else offline; friends who
  are online see one another, and nobody is announced offline who is back; a closed connection is in no room;
- friends: the two rows of a pair agree; accounts that block one another share none;
- inventory, wallet and everything paid from them: an order (a transaction id, a purchase token, a rank of a
  generation) is settled at most once, whole, and never with more than is held; a cell is paid once
  for each fusion token; an item is never overwritten by an older save;
- store: a limited offer pays once per window; nobody pays for nothing; no term that was bought is lost;
- progression and hunt pass: a mastery counts its evidence once; exactly the confirmed ranks are paid;
- challenges: what was finished, replaced or abandoned does not come back; the week's selection is shown;
- escalation: a season the native server can reach is accepted, and no progress is undone by a late snapshot;
- slayer links: one link per slot; an invitation's notices are honest; each side collects exactly what it earned;
- saves: a late or repeated save undoes nothing that carries a newer version.

## 2. The modules

| module | models | composed of |
|---|---|---|
| `IslandWorlds` | `StartServer` and `CleanupServer` for islands, `PortPool`, `WaitForGamePort`, exit events, `RunWatchdog` | |
| `IslandWorldsProofs` | ports, held and free, and the worlds on record | `IslandWorlds` |
| `OnDemandWorld` | `OnDemandWorld.get/acquire/forget`, `StartServer`/`CleanupServer` for Ramsgate and the Training Grounds, the lease file, the world's sleep decision | |
| `OnDemandWorldProofs` | one world, its reservations, its sleep | `OnDemandWorld` |
| `HuntingGrounds` | `huntingGrounds.ts`, `MatchHuntingGround`, and the deploy server's answer (`joinWorld.ts`, `matchmaker.ts`) | |
| `HuntingGroundsProofs` | theorems about `HuntingGrounds` | `HuntingGrounds` |
| `Parties` | `party.ts` | |
| `Matchmaking` | `matchmaking.ts`, `routes/matchmaking.ts`, the party routes that cancel | extends `Parties` |
| `MatchmakingProofs` | theorems about `Parties`, that `Matchmaking` implements it, and who waits | `Matchmaking` |
| `Friends` | the transactions of `routes/friends.ts` on friends and blocks | |
| `Presence` | both XMPP connection classes, `SessionRegistry`, `PresenceService` | `F == INSTANCE Friends` |
| `Rooms` | `RoomService`: who is in a chat room and who is shown there | extends `Presence` |
| `PresenceProofs` | the tables of `Friends`; that `Presence` implements them, and its safety; that `Rooms` implements `Presence`, and its safety | `Rooms` |
| `SlayerLinks` | `slayerLinks.ts`, its routes, and the removals of `routes/friends.ts` that part a pair | |
| `SlayerLinksProofs` | slots, notices, the friend chooser, XP, rewards earned and collected | `SlayerLinks` |
| `Settlement` | abstract: every order is settled once, whole, within what is held | |
| `Inventory` | `transactions.ts`, `items.ts`, `inventory.ts`, `wallet.ts`, `currency.ts`, `fusion.ts` | |
| `Store` | `store.ts`, `pricing.ts`, `entitlements.ts`, `offers.ts`, `timeWindows.ts` | extends `Inventory` |
| `Progression` | `writes.ts`, `tracks.ts`, the hunt pass's ranks and `rewards.ts` | extends `Store`; implements `Settlement` |
| `Bounties` | `bounties.ts`, `weekly.ts`, the expiry of `daily.ts` | |
| `Escalation` | `escalation/progress.ts` and `config.ts`, and the native season behind them | |
| `CharacterSaves` | `character.ts`, `loadout.ts`, `cooldowns.ts`, `playerJourney.ts`, `progression/state.ts` | |
| `AccountData` | one account's requests to the last six | extends `Progression`, `Bounties`, `Escalation`, `CharacterSaves` |
| `AccountDataProofs` | saves, items, exchanges, purchases, terms, escalation, ranks, bounties, masteries, and that value implements `Settlement` | `AccountData` |
| `InductionLemmas` | no code: induction over numbers and finite sets, and what folds and sums of functions are | used by the proofs of `IslandWorlds`, `Matchmaking`, `SlayerLinks`, `AccountData` |
| `MC*` | the instances for TLC: the requests that are sent, the symmetries, the constraints | the module they extend |

### How state and actions correspond to the code

An action is the code a handler runs between two awaits; a variable is a module-level variable of the
code, a process, a file or, where the comment says *history*, something only a property needs.

**IslandWorlds.** A launch and its world share an identifier. `pc` is the program counter of
`StartServer` (queued behind `ServerLaunchQueue`, waiting for the port, inside a `netstat` call, about
to return). `pool` is the free list (last in, first out, as `take` pops it) and the held set. World
processes change `proc` when they like; an exit becomes an event that `ExitHandler` receives later.
`RunWatchdog` is one pass over the array, every dead world in order. The 60-second deadline of
`WaitForGamePort` is an action that may happen at any turn of the loop. `SpawnThrows` is the launch whose `spawn()` throws
at once (line 192): it has its port and no record yet, and the `try` of `StartServer` begins only later.

**OnDemandWorld.** `acq` is the one pending `acquire()`. The process and the file system are concurrent
even with code that does not await, so the check-reserve-check sequence of `acquire` is three steps
during which only the world moves (`JsFree`). The lease file is `absent`, `valid` with an expiry, `garbled` or
`sleeping`; the world holds it exclusively while `native` is `locked` or `marked`. A world that fails to write its marker goes on
living and puts nothing back (`TrainingLifecycle.cpp:54-69`): `NativeGivesUp` leaves the file as it was, truncated or half
written (`garbled`), or with the whole marker in it, which only the flush did not confirm (`mismarked`). A start whose `spawn()`
throws rejects every request that shares it (`SpawnThrows`). `CleanupServer` takes a set so
that the watchdog's pass is one step. `kind` says which of the two worlds a behaviour is about, the
Training Grounds or Ramsgate, which the code implements with the same class and different options; it is
chosen from `Kinds` at the start and never changes. The clock moves for the Training Grounds only: Ramsgate has
no reservation and nothing else that expires.

**HuntingGrounds.** `slots` is the pair of maps, changed by operators named for the functions of
`huntingGrounds.ts`. `turns` is the chain of promises per hunt. The metagame's request crosses to the
deploy server (`asked`), which joins a running world, starts one, or falls back to Ramsgate, and the
answer is read later (`replied`). `WorldEnds` frees a port without telling the metagame, as in the code.
An answer may be read after the world it names has ended and its port has a new one: nothing in the code prevents it.
`loc` and `sentFor` are history: the world a player was last sent to, and the hunt of the request a slot was recorded for.

**Parties.** One record `reg` of three maps and one operator per function, each giving the state after
the call. Join order is kept by the code only to pick a successor; the module lets any member succeed,
which includes the code's choice.

**Matchmaking.** `queue`, `result` and `direct` are `MatchmakingQueueMap`, `MatchmakingResultMap` and
the launches in flight. Cancelling follows the party routes: a change cancels the candidates of the old
and of the new party's members, in any order.

**Friends.** One action per request, each a single transaction on two tables of ordered pairs.

**Presence.** A stanza handler awaits only promises that are settled already, so each handler is one action;
the interleaving is that of connections, timers and HTTP requests. `conn` is what a connection knows of itself,
`registry` is `byAccount`, `pendingOffline` the running timers. `view` is what each connected client has been
told is online: the presence frames sent to it, added and removed. A replaced connection is asked to close and
its `Teardown` comes whenever it comes. The timer's second effect, giving up the place in a hunting ground, is the
action `Leave` of `HuntingGrounds`.

**Rooms.** `occupants` are the connections in a room, as in the code; `listed` is what each occupant's client was
told, by nick, as it sees it. A client's nick is its name, account and resource (`test/xmpp-rooms.test.js`), so a
connection and the one that replaced it share one. Rooms share nothing but connections: one room stands for all.

**SlayerLinks.** Invitations are a sequence in the order of their rows; `expired` is how many of them, the oldest
first, are past their term. A link carries the index of the invitation it came from. Requests name a link by account
and slot and are resolved as `ResolveSide` does; `grants` are the reward transactions the game server has composed,
which it may send late, twice or never, and `stash` is what they put into the account. The rows of the hunt
pass's ledger that make a credit idempotent are `xp`.

**Inventory, Store, Progression.** The database driver is synchronous, and the awaits inside a request wait for
promises that are settled already: a request is one transaction and one action, a refused one is no step. What is
concurrent is the senders: requests are drawn from a constant set at any time, so each is sent late, twice, or
never. A request that a sender composes only after another was answered names it in `after` (a game server speeds up
a fusion that was begun). `ledger` is the table of transaction ids. `revived` is history: the saves of a fusion token that found
no such token and put it there. The hazard of a transaction is
what it shares with others: an item's version, a fusion token, an offer's window, a currency's old name. A
removal of a stateless item held at version 0 is refused (409), as in the code. `HasPremiumForTrack` looks for an
entitlement and not at its term, as the code does. An award's points on a mastery track arrive with the objectives
that prove them; awards without any are added as they come.

**Bounties.** The board is kept as a set of entries with draft time (their generation), version and claim; reading it
applies the week's selection and the day's expiry, and writing starts from what is read. Season challenges carry
the same stamp in every week, so that one selected again is a new entry of the old generation.

**Escalation.** `native` is the season in the game server that the account plays on: external, grown by the rules of the
talent trees, posted with its version. `posted` are the snapshots under way, `season` and `events` the two tables.

**CharacterSaves.** One action per save. Versions and contents of snapshots are drawn from small sets in every
combination, so that saves of two worlds arrive in every order.

**AccountData.** The five features share no table with one another, except rank rewards with store and inventory:
a behaviour exercises one of them (`feature`), and the rewards' behaviours include the purchase that opens a premium
lane.

## 3. The runs

| run | instance | shows |
|---|---|---|
| `island_worlds` | 3 launches, 2 ports, watchdog | ports are partitioned, every held port has a world unless `spawn()` threw for it, and every live world is tracked (`Bookkeeping`), every launch is answered (`LaunchAnswered`), every exited world is forgotten without help of the watchdog (`ExitedIsForgotten`) |
| `island_shared_port` | the same | **fails**: `PortExclusive` |
| `always_on` | Training Grounds and Ramsgate, 3 worlds, 2 travellers, watchdog, clock of one unit | one live world, and sleep is not undone (`WorldsSound`); the reservation is kept, a dying world is never handed out, a crashed world that served is replaced unless its file says it sleeps, travel is answered |
| `hunting_grounds` | 3 requests, public and private, 2 hunts, 2 ports, 3 players (a pair and singles), 2 places | the two maps agree and turns are in order (`GroundsSound`); no world has more players of its own hunt than fit (`Capacity`) |
| `hunting_live` | public requests only: 3 requests for one hunt | the counts are the players who are there (`CountsWhoIsThere`), every request is answered (`AskAnswered`) |
| `hunting_private` | 3 requests, private ones too | **fails**: `PrivateNeverJoined` |
| `matchmaking` | 3 players, parties of 2, 2 hunts, queues of 3, 2 joins | the party maps agree, leaders are members, two places, invitations fresh (`PartiesSound`); who is told to wait is queued with their party (`WaitingHonest`) and gets an answer (`WaitingAnswered`) |
| `matchmaking_ready` | 2 players, queues of 2 | **fails**: `ReadyKept` |
| `presence` | 2 accounts, 2 resources, 4 connections, one bind per connection; a chat room of up to 3 connections | `RegistryExact`, a late close unbinds nobody else (`NoLateUnbind`), friends see one another (`FriendsShown`), nobody online is announced offline (`OfflineOnlyIfGone`), the friends tables (`TablesSound`), nobody who is gone is in a room or shown there (`RoomsSound`) |
| `presence_ghost` | the same with 3 connections | **fails**: `OfflineSeen` |
| `slayer_links` | 3 players, 2 slots, 4 invitations that may be asked for, 2 of them sent, 2 grants, one parting | `SlotsExclusive`; the friend chooser offers exactly whom an invitation would reach (`AvailabilityHonest`); `NoticeShown`; a side collects exactly what it earned, once (`GrantedIsEarned`), and is not released before (`NothingForfeited`); `XpCountedOnce` |
| `accounts` | one account and character: 9 transactions and 5 offers, 2 tracks and 4 awards, 10 posts on 5 bounties, a season of 3 levels and 3 talents, saves of 2 versions and 2 contents | value moves as `Settlement` says (`Settles`, a refinement), `CellPaidOnce`, `NothingStale`, `OncePerWindow`, `ChargedForSomething`, `NothingShortened`, `MasteryNotInflated`, `RewardsHonest`, `BoardSound`, `GenerationsFinal`, `NativeAccepted`, `SeasonKept`, `SavesKept` |

### Bounds

Two ports and three launches are the least with which a port is freed, taken again and freed by its
former holder while another launch waits. Three worlds of one kind allow a world to serve, die, be
replaced and die again with a traveller on the way; a clock that moves once separates "reservation not
yet over" from "over" because a reservation is one unit. Two places in a world and a party of two make a
world full by one request, and a third player is the stranger who does not fit. A queue of three is
filled by a pair and a stranger, or overfilled by two pairs; two hunts let one player wait in two
queues. `MAX_JOINS` bounds the joins of a run of `Matchmaking`, `MaxWorlds` and `MaxTime` the worlds
and the clock of `OnDemandWorld`: when worlds run out a start fails, which is also an outcome of the
code. `Matchmaking` has two party ids, so at most two of its players have parties at once.
Its run checks liveness and may not use TLC's symmetry. `AlikeOnce` leaves out what symmetry would:
the first free party id is taken, and the first join is for the first hunt. `FewInvites` bounds open
and expired invitations to two before the first join (a party with one place left that asked two players)
and to one open one afterwards; no fair action makes an invitation, so the bound cuts no behaviour
that owes an answer.

Four connections let both accounts be connected twice, or one reconnect twice before its first connection has
closed while the other watches; two resources tell a replaced connection from a second one. A third account adds
nothing that a pair does not have, since every rule of `Presence` and `Friends` is about pairs; the proofs cover
any number. `RoomsOrFriends` keeps a room in use only while nobody is a friend, blocked or announced, and with at most
three connections open: `Rooms` reads none of those tables, and three are a connection, the one that replaces it and a
witness.

In `SlayerLinks` the bounds are two invitations that are sent, from either slot and in both directions, two
composed grants (`MAX_GRANTS`: one, and the one that is repeated or belongs to the second link), one parting, and two
points (`MAX_POINTS`): one rank is reached and passed. Both links of `p1` may earn the same, the case in which a
grant cannot be told from another's. In `AccountData` a day is two ticks and a week four, so that the clock of four
crosses the end of a purchase token's term, two daily resets of the store and a weekly one; `MAX_TOKENS` is two, the least with
which a limit is passed. The requests include the old name of a currency, a debit of the whole
balance, an id used again with other contents, and two exchanges of one slot, with a speed-up of the first and reveals under two ids
that arrive before or after anything else. `INT32_MAX` is where a track's
points end; two is passed by the awards. `MAX_GENERATION` lets a track be reset once; `LAST_TICK` lets the board see
one weekly reset and four daily ones, `MAX_POSTS` and `MAX_VERSION` bound the snapshots of a season, `MAX_XP` its experience at the last level.

Symmetry is used for invariants and action properties only, never in a run with a liveness property.

Deadlock is not reported for `IslandWorlds` and `HuntingGrounds`, where a run ends once every launch or
request has been made, for `OnDemandWorld`, which ends when its worlds and its clock do, and for `SlayerLinks` and
`AccountData`, whose behaviours end when their bounded requests and clocks have been used up.

### Fairness

- Node delivers what is due: a handler whose timer, promise or I/O completed runs (weak fairness).
- A deadline that a loop reads on every turn is eventually seen to have passed (strong fairness of
  `DeadlinePasses` and `GiveUp`: the action is enabled again and again, not continuously).
- A killed process exits.
- The deploy server answers or is found unreachable: the metagame's fetch always settles.
- A waiting client polls. The metagame has no timer of its own for a queue that waits: if no client
  polls, the queue waits, which is why `WaitingAnswered` needs this.

Players, parties, worlds that are not killed, and the watchdog owe nothing.

## 4. What does not hold

Statements of the repository that the code does not keep, with a run that shows it:

- **A port has one world** (`portPool.ts:1-3`, `gameservers.ts:260`). A world dies while `StartServer`
  waits for it. The exit handler frees the port; another launch takes it at once; the catch block of the
  first then frees it a second time, while it is held by the other. The next launch gets the port of a
  running world. The pool stays a partition (`PoolPartition`): the second release is idempotent only as
  long as nobody took the port in between.
- **Private hunts are never joined** (`huntingGrounds.ts`). The deploy server joins by port and hunt. A
  public world ends unnoticed, a private hunt of the same kind starts on its port, and the next
  public request, sent to the old address, joins it.
- **A ready candidate is kept** (`matchmaking.ts:200-201`). A player can stay in the queue of an earlier
  hunt; when that queue pops, its outcome overwrites the ready candidate of the later one.

- **Who goes offline disappears from the friends list** (`PresenceService.ts:29-31`). A player seen on two resources,
  at once or one after the other within the grace period, is announced offline from one of them; the other
  full JID stays online in the friends' lists.

Stated in the modules, found violated by TLC, and not in a run of their own:

- `OnDemandWorld!CrashReplaced` (README of the repository, line 116): only a world that had begun to
  listen is restarted, and none whose file says `sleeping`. A Training world that wrote the whole marker but could not flush
  it (`TrainingLifecycle.cpp:65`) lives on with that file: no traveller is let in, since the file cannot be renewed over the
  marker, and when it crashes it is taken for asleep (`gameservers.ts:146`). `ServedCrashReplaced`, which is checked, is the
  part that holds.
- `OnDemandWorld!WatchdogHarmless`: a restart that fails in a cleanup started by the watchdog is a promise
  nobody handles.
- A capacity of everybody on a world, in place of `Capacity`: the answer that a world was joined is read after the world has ended and
  its port has gone to a world of another hunt. The party is recorded there (`matchmaking.ts:253`), on top of the players who fill
  it. `Capacity` counts the players of the world's own hunt.
- `IslandWorlds!HeldIsTracked` without its exception: `spawn()` that throws (`gameservers.ts:192`) leaves the port held for ever.
- `Inventory!CellPaidOnce` without `Revived`: a speed-up that arrives after the fusion was completed finds no token, and puts it
  back (`transactions.ts:157-161`) at its version, due at once; a second completion is paid. A late repeat of the speed-up
  under its own id is answered from the ledger, so it takes one that was late in the first place.
- Saves without a version: of two saves of a loadout slot or of a cooldown, and of two of a character at one version, the last
  to arrive stays, even if it was composed first. `SavesKept` claims nothing of them.
- `HuntingGrounds!CountsWhoIsThere` with two hunts, or with private ones: `ForgetHuntingGround` after the await removes whatever is
  recorded at the old address, which another hunt may hold by then.
- `Matchmaking!PartyChangeAbandons`: a launch in flight still gives its world to players whose party changed.
- `Rooms!EveryoneListed`: when a replaced connection closes after its successor joined the room, the leave is shown
  under the nick both have, and the successor is missing from the others' lists while it is in the room.

- `Presence!RegistryExact` with `BindOnce = FALSE`: a second bind on one connection leaves the first
  resource registered after the connection has closed.

`CountsWhoIsThere` and the liveness of a request are checked with public requests only. Private ones take no turn: when
two answers name one port, one after the other, the later new world forgets who was recorded there by the earlier answer.

## 5. What is proved

TLAPS proves the following for any sets of players, hunts, requests, ports, offers and so on, finite or infinite,
under the named assumptions of the modules. Most name null values apart and give numbers their type. Those that say more
say what the code refuses otherwise or what its tables are like:

| assumption | why the code justifies it |
|---|---|
| `PartyAssumption`, `SizeAssumption` of `HuntingGrounds` | parties are not empty and fit a world (`party.ts` caps them at four) |
| `PlayerAssumption` of `Parties` | finitely many players |
| `LinkAssumption` | ranks cost points; `NormalisePool` refuses a pool with other levels or prizes |
| `InventoryAssumption` | a character has one owner; stackable ids are no currencies; a request is finite, its quantities are positive (`AssertValidStackedQuantity`, `CreditWallet`), versions are numbers, and of a fusion token only its end may differ |
| `StoreAssumption` | prices and terms are numbers (`store.ts`, validation of the catalogue); an entitlement is sold for a term or for good, by every offer alike; only bundles have a window |
| `ProgressionAssumption` | costs, awards and counters are non-negative (`UpsertObjective`, `ApplyProgressAndObjectives`) |
| `BountyAssumption` | the draw of a week names each challenge once; season challenges are not abandoned |
| `EscalationAssumption` | levels cost experience; finitely many talents |
| `SavesAssumption` | versions are integers; at least one loadout slot |

Some theorems are proved under a hypothesis of their own, which is part of their statement. Those about `AccountData` are
defined at its end, and `TablesAsAsked` in `MCAccountData` has TLC evaluate them on the instance that is checked, all
but `OwnIds` and `MintedAsNamed`, which quantify over everything (there, ids of game servers are model values, and so no
pairs).

| hypothesis | of | why |
|---|---|---|
| `BindOnce` | `PresenceProofs` | without it the statements fail (section 4) |
| `PrivateHunts = FALSE` | `CountIsWhoIsThere` | with private hunts it fails (section 4) |
| `OneHunt` | `CountIsWhoIsThere` | with two hunts it fails (section 4) |
| `TakenForGood` | `ItemsNeverGoStale` | one transaction that takes an item and puts it again starts its versions afresh; game servers do one or the other |
| `OwnIds` | `ValueIsSettled`, `NobodyPaysForNothing`, `ExchangesPayOnce` | the transaction ids of game servers are not tokens or claims: they are of different tables |
| `InstancedOrStacked` | `ValueIsSettled`, `NobodyPaysForNothing` | the catalogue holds an id in stacks or in instances |
| `SellsSomething` | `NobodyPaysForNothing` | a priced offer grants stacks or other currencies than it costs, and something |
| `MintedAsNamed` | the same | an instance minted by the store comes back under the catalog id it was minted for |
| `GoodForGood` | the same | no rank grants for a term what an offer grants for good (`library.ts` grants passes with duration 0) |
| `GrantsCarryEvidence` | `MasteryStaysProven` | a mastery grant is one point and comes with a snapshot of an objective that has two steps |
| `UpdatesAtZero` | `ExchangesPayOnce` | a fusion token that `POST /inventory/instanceditem` carries is at version zero, as the game leaves it (`transactions.ts:119` speaks of completion at the current version, including zero, and the tokens of `test/middleman.test.js` are all at zero); the model's `UpdateInstancedItem` takes such a token over the one held, or refuses it, and adds none |
| `StampedChallenges` | `GenerationsStayFinal` | the native component stamps every season challenge with the same week (`weekly.ts:12-16`) |
| `UndatedFirst` | the same | drafting posts one bounty per call; an undated one after others would displace what it cannot be compared with |

`IslandWorldsProofs`: `Spec => []Bookkeeping` for any number of ports and launches, with the watchdog or without, and wherever `spawn()`
throws. It is not
inductive: a freed port goes to the end of a list, so `SoundPool` adds that the list names each port once and divides the
range with the held ones, which is what makes the second release of a port harmless to the count; `Launching` adds
that a call in the queue is there once and has started nothing. The watchdog's pass is a fold over a sequence of dead
worlds; the proof is by induction over its prefixes.

`OnDemandWorldProofs`: `Spec => []WorldsSound` (one live world, sleep not undone), `ReservationKept` and `DyingNeverAnswered`
for any number of worlds, any length of a reservation, with the watchdog or without. None of them is inductive. `Live` adds
that the current world is dead while another is being started, so that the two cannot both run; `Marks`, that a tracked world that
decided to sleep shows it in its file, which is what the cleanup reads; `Promises`, that a file covers
what travellers were promised, that a world holds its file only after that, and that between the reservation and the second check
of `acquire` a live world has not begun to decide. `Counted` and `Untouched` say that the next world to be spawned is new.
`CleanupServer` has one lemma (`Cleans`) for the exit handler and the watchdog alike.

`HuntingGroundsProofs`: `Spec => []TypeOK`, `[]SlotConsistency`, `[]TurnOrder` (together `[]GroundsSound`),
`[]TurnExclusive` and `[]Capacity`, private hunts and late answers included.
Lemmas show that `Forget`, `Release` and `RecordHuntingGround` each keep the two maps in agreement,
whatever they are applied to; the induction then needs only that a recorded party is not
empty. `TurnExclusive` is not inductive: it follows from `TurnOrder` (who is allocating is
the head of the queue, and nobody is in it twice) together with `TurnsOK` (the queue is exactly the
unfinished public requests of the hunt), which are.
`NeverOverfull` (`[]Capacity`) looks further: the room is counted before the question and the players after the answer. `RoomInv`
adds that the world a request found room in, as long as it is recorded for that request's hunt, still has it (`RoomFound`): nobody
else allocates for the hunt, and who is recorded on it late came for another one (`PrivateAlone`, `JoinedThere`).
`CountIsWhoIsThere` (`[]CountsWhoIsThere`) rests on `PlaceInv`: a request that was not joined to its candidate forgets it rightly,
since no other request's world can run on that port by then (`StaleEnded`), and what it records is its own (`NewIsOwn`).

`MatchmakingProofs`, of parties: `PartySpec => []PartyTypeOK`, `[]MembershipConsistent`, `[]LeaderIsMember`, `[]SizeBounded`,
`[]InvitesFresh`, together `[]PartiesSound`. The inductive invariant is their conjunction: that a leader who leaves can be succeeded
needs the maps to agree, and the invitations' freshness needs that a party exists exactly as long as
it has members. Lemmas show it of `Created`, `Left` and `Entered`; accept is `Entered` after `Left`,
where the party that is entered survives the departure because it is not the one left.
Of matchmaking: `Spec => PartySpec` (a step of matchmaking is an operation of `party.ts` or leaves the parties
alone), hence `[]PartiesSound` of `Matchmaking`; `[]TypeOK`; and `[]WaitingHonest`. The last rests on `WaitInv`: a queue lists
each player with the group it came with, and a waiting player's mates are its party. A change of a party cancels the
candidates of everybody in it, one after the other in an order the code does not fix: a fold over a sequence of players. The
lemma on cancelling is therefore stated of one cancellation and carried through the fold by induction.

`PresenceProofs`: of the tables, `[](TypeOK /\ Mirrored /\ BlockedApart)`, where the inductive invariant adds `NoSelf`: nobody has a
row about themselves. Of the connections, for clients that bind once per connection: `Spec => FP!Spec` (every step is a request of `Friends`
or leaves the tables alone), hence `[]TablesSound` (rows are mirrored and blocked accounts apart); `[](TypeOK /\ RegistryExact)`,
`[]FriendsShown`, and the action properties `NoLateUnbind` and `OfflineOnlyIfGone`. `TypeOK` is not
inductive by itself: that what a client is shown is a resource needs `RegistryExact`, and that a registered
connection has bound only what it is registered for needs `BindOnce`. `ViewOfOpen` (only an
authenticated connection was told anything) completes the invariant of the connections. `FriendsShown` is proved in the
form `ShownPairs`, one pair of registry entries at a time, so that a step which leaves an entry alone leaves its pairs
alone; `BindKeeps` and `TeardownKeeps` say which ones those are.
Of the rooms: `RoomSpec => Spec` (a step of the rooms is a step of the connections or leaves them alone) and, with
`RegistryExact` carried over by it, `RoomSpec => []RoomsSound` for any number of connections. The lemma
`NickKept` is what it rests on: a connection keeps its account and resource until it closes, and when
it closes it leaves the room, in the same step.

`SlayerLinksProofs`, all six invariants of the run for any accounts, slots, ranks and bounds. `SlotsExclusive` with
`TypeOK` is inductive: most steps only remove from the sets that must be exclusive (`Shrinking`); an invitation
and an acceptance add to them and have lemmas of their own. `AvailabilityHonest` follows from it in every state.
`NoticeShown` needs that of two invitations of a pair the earlier one is over and, if it became a link, has no side left (`NoticeInv`).
`XpCountedOnce` counts the events on record of a link and is inductive once these are finitely many (`XpInv`).
`NothingForfeited` rests on `Lasting`: what a link that ended has earned stays what it is, and a pool that is known stays
known. `GrantedIsEarned` says that a stash is the sum over the claimed links of what each earned; `GrantInv` adds that
a transaction on record paid a claim and every claim has one, so that a repeated grant adds no summand and a new one exactly one.

`AccountDataProofs`, all properties of the run `accounts`:

- `ValueIsSettled`: `Spec => Abstract!Spec`, that `Progression` implements `Settlement`. `Abstract!Init` is immediate; a
  step settles one order or changes nothing that the mapping sees. Each kind of order has its lemma (`TransactionSettles`, `PurchaseSettles`, and
  the one of rank rewards), which compares what the handlers write into wallet and stacks with what the order says at each
  slot of value, sums of lines by sums of lines. The invariant `ValueInv` says that tokens name a character of their user, that
  no instance is of a stackable id, that what the ledger holds under a claim's key was paid, and what `RewardsInv` says.
- `RewardsStayHonest`: `RewardsInv` adds to `RewardsHonest` that no claim is of a generation that has not come. More points earn no
  fewer ranks, which is a fact about sums of costs.
- `SoldOncePerWindow`: a token that has been redeemed was redeemed at a time not later than now; a window that began
  since is another one, since division is monotone.
- `NobodyPaysForNothing`: of an offer that is charged for, either a line was not held or an entitlement not for good, and
  that line arrives, the cosmetic is a new instance, or the entitlement lasts longer. It needs that an instance is held under
  the catalog id it is named after (`ItemsNamed`) and that what is sold for good is held for good (`HeldForGood`).
- `ExchangesPayOnce` (`[]CellPaidOnce`), for transactions in any order. `ExchangesInv` says that for each cell the receipts that
  pay it and the tokens still held are together no more than the tokens begun and put back. A completion turns a token held
  into a receipt. Any other transaction brings only tokens that one of its own writes accounts for, since a save
  that finds the token of its exchange adds none (`TokensOfTransaction`); an update at version zero adds none either (`UpdatesAtZero`); that a transaction runs once makes these writes new
  ones, and the rest is counting (`GrowthCovered`).
- `TermsNeverShortened`, `ItemsNeverGoStale`, `SavesStayKept`: action properties that follow from types, in the last two after the
  writes of one request, taken one after the other, are seen to advance what is held in steps that compose.
- `MasteryStaysProven`: the points of a mastery are at most the steps its objectives prove, which is a sum over the
  objectives; an award adds a point only together with evidence that raises the sum.
- `BoardStaysSound`: `BoardInv` is about what is stored: no two entries displace one another (`Lone`), none is of a generation
  recorded as over (`Fresh`). Both are kept by the merge of one entry, and through the fold over a post by induction; that the
  weekly draw and the daily expiry then show what `BoardSound` says is a lemma about one state.
- `GenerationsStayFinal`: one merge keeps or advances an entry or records its draft (`Follows`); the relation is carried through the fold.
- `SeasonsStayKept`, `NativeAlwaysAccepted`: what native seasons can reach is `Grown`. The native rule counts
  points spent anywhere, the metagame only those of earlier tiers; in a season that respects the latter, enough of the former
  are enough of the latter (`TiersOpenInOrder`, by the least gate at or beyond it that was passed).

`InductionLemmas` holds what these inductions need. The prover cannot instantiate the library's induction theorems, which
take an operator; the module states them with a set in the operator's place, and proves that functions
defined by recursion exist and that the folds of the community modules are such functions. With that, `FoldLeft` and
`FoldFunction` of the models can be reasoned about without a definition of the models written for the proof.

Only model-checked: every liveness property (the prover handles neither fairness nor ENABLED). No module with
a theorem declares or reaches a RECURSIVE operator.

## 6. What is not modelled

- One life of each server: the deploy server's tables do not survive a restart while its worlds do. The metagame's
  database does survive one; every request is one transaction of it, so a restart of the metagame between two
  requests changes nothing but the tables in memory (parties, queues, connections), which start empty.
- HTTP, authentication and the shared key; the vendor tables of hunts; logs; window and registry
  handling; hooks into the game binary other than the idle shutdown.
- Accounts, sign-in and launcher tickets: cryptography, and rows that are looked up or added once.
- Frames and stanzas as text; chat messages, which leave no state.
- Progression: the XP that an award credits through slayer links is in `SlayerLinks`, not in the award; draft
  metadata, tracked objectives and the operator's selection of the season's pass are left out.
- Bounties: only drafted and daily bounties are abandoned. Event schedules are data.
- Saves: an account has one character; what a returning player is given and the persistent loadout are left out
  (a persistent loadout that is posted before its row exists is answered with success and not stored).
- The schema and the start-up repairs, which run alone before the first request.
- The launcher, whose staged update rests on what the file system makes atomic; the repository does not say what that is.

## 7. What comes next

1. Abstract specifications for the deploy server: a lease of ports (implemented by `IslandWorlds` as far as the
   findings allow), a service of one world (implemented by `OnDemandWorld`).
2. The launcher's staged update under crashes, the operator's hunt pass selection, further characters.

Runs are kept few: an instance that answers several questions at once is preferred to one run per
question.
