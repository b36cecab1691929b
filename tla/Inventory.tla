------------------------------ MODULE Inventory ------------------------------
(***************************************************************************)
(* Inventories and wallets of the metagame: stacks and instanced items per *)
(* character, balances per account, and the ledger of transactions applied *)
(* (features/inventory, features/wallet, the fusions of features/middleman).*)
(*                                                                         *)
(* Every request runs in one synchronous database transaction, so each is  *)
(* one action; an error rolls all of it back and is no step.  Requests are *)
(* drawn from a constant set at any time and any number of times: game     *)
(* servers repeat them when an answer is lost and deliver them late.       *)
(***************************************************************************)
EXTENDS Naturals, FiniteSets, Functions

CONSTANTS
    Users, Characters,
    OwnerOf,            \* the user of each character
    Currencies,         \* account balances, by canonical id
    Stackables,         \* catalog ids a character holds in stacks
    Canonical,          \* CanonicaliseCurrency, on every catalog id and alias that is sent
    Units,              \* canonical units a credit of each id is worth (Ace Chips: 4)
    StartBalance,       \* what an account's balances hold at first
    Transactions,       \* POST /inventory bodies game servers send: records [tx, user, ch, add,
                        \* remove, put, save, drop, after], the last the ids whose answers
                        \* the server had when it composed this one
    ItemUpdates,        \* POST /inventory/instanceditem bodies
    MAX_TIME            \* bound on the clock

VARIABLES now, wallet, stacks, items, ledger,
          revived             \* history: the saves of fusion tokens whose token was gone

inventoryVars == <<wallet, stacks, items, ledger, revived>>

\* What is sent: stackable ids, currencies and their aliases.
CatalogIds == DOMAIN Canonical
IsCurrency(c) == Canonical[c] \in Currencies
Empty == [x \in {} |-> x]
Total(f) == FoldFunction(+, 0, f)

InventoryInit ==
    /\ now = 1
    /\ wallet = [u \in Users |-> StartBalance]
    /\ stacks = [ch \in Characters |-> [c \in Stackables |-> 0]]
    /\ items = [ch \in Characters |-> Empty]
    /\ ledger = Empty
    /\ revived = {}

---------------------------------------------------------------------------
(* Wallet *)

\* Debits name a currency by any alias, one unit each; credits convert the old chips.
SpelledAs(lines, c) == {id \in DOMAIN lines : Canonical[id] = c}
Debit(lines, c)  == Total([id \in SpelledAs(lines, c) |-> lines[id]])

\* Slip that breaks Settles: an old chip is credited as one unit.
CreditPlain(lines, c) == Debit(lines, c)

Credit(lines, c) == Total([id \in SpelledAs(lines, c) |-> lines[id] * Units[id]])

\* DebitWallet refuses what the balance does not cover before anything is credited.
Affordable(u, lines) == \A c \in Currencies : Debit(lines, c) <= wallet[u][c]
WalletAfter(u, taken, given) ==
    [wallet EXCEPT ![u] = [c \in Currencies |-> @[c] - Debit(taken, c) + Credit(given, c)]]

---------------------------------------------------------------------------
(* Stacks: removing what is not held is ignored, removing more than is held refused. *)

Lines(lines, c) == IF c \in DOMAIN lines THEN lines[c] ELSE 0
StackTaken(ch, lines, c) == IF stacks[ch][c] = 0 THEN 0 ELSE Lines(lines, c)
StacksCover(ch, lines) == \A c \in Stackables : StackTaken(ch, lines, c) <= stacks[ch][c]
StacksAfter(ch, taken, given) ==
    [stacks EXCEPT ![ch] = [c \in Stackables |-> @[c] - StackTaken(ch, taken, c) + Lines(given, c)]]

---------------------------------------------------------------------------
(* Instanced items: [id, catalog, kind, version], a fusion token also [exchange, cell, end]. *)

IsStateless(x) == x.kind = "stateless"
IsFusion(x)    == x.kind = "fusion"
Tokens(xs)     == {x \in xs : IsFusion(x)}

\* What game servers send of an item; all of a fusion token that may change is its end.
WellFormed(x) ==
    /\ x.version \in Nat
    /\ IsFusion(x) => x \in [id : {x.id}, catalog : {"fusion"}, kind : {"fusion"}, version : Nat,
                            exchange : {x.exchange}, cell : {x.cell}, end : Nat]

\* Stacked lines that are let through: of each catalog id they name, at least one.
Quantities(lines) ==
    IsFiniteSet(DOMAIN lines) /\ \A c \in DOMAIN lines : c \in CatalogIds /\ lines[c] \in Nat \ {0}

ASSUME InventoryAssumption ==
    /\ Users \cap Characters = {} /\ OwnerOf \in [Characters -> Users]
    /\ IsFiniteSet(CatalogIds) /\ \A c \in CatalogIds : Units[c] \in Nat
    /\ \A c \in Stackables : c \in CatalogIds /\ ~IsCurrency(c)
    /\ \A c \in Currencies : c \in CatalogIds /\ Canonical[c] = c
    /\ StartBalance \in [Currencies -> Nat] /\ MAX_TIME \in Nat \ {0}
    /\ \A t \in Transactions :
        /\ t.ch \in Characters /\ IsFiniteSet(t.put \cup t.save) /\ \A x \in t.put \cup t.save : WellFormed(x)
        /\ Quantities(t.add) /\ Quantities(t.remove)
    /\ \A w \in ItemUpdates : w.ch \in Characters /\ WellFormed(w.item)

IsValidIncoming(x) == IsStateless(x) => x.version = 0

\* A stateless item held at version 0 keeps what it is: the write is skipped.
IsSkipped(current, x) == IsStateless(current) /\ IsStateless(x) /\ current.version = 0

\* A speed-up saves a fusion token again at its version, with an earlier end.
IsValidFusionSave(current, x) ==
    /\ IsFusion(current) /\ IsFusion(x)
    /\ x.version = current.version
    /\ x.exchange = current.exchange /\ x.cell = current.cell
    /\ x.end <= current.end

\* Slip that breaks NothingStale: a write at the version held is taken for newer.
MayWriteOver(current, x, saving) == x.version >= current.version

MayWrite(current, x, saving) ==
    \/ x.version > current.version
    \/ saving /\ IsValidFusionSave(current, x)

Puttable(held, xs, saving) ==
    \A x \in xs :
        /\ IsValidIncoming(x)
        /\ x.id \in DOMAIN held => IsSkipped(held[x.id], x) \/ MayWrite(held[x.id], x, saving)

\* Slip that breaks CellPaidOnce: a completed fusion is not looked for among the items held.
CompletesAnyFusion(ch, x, t) == x.id \in DOMAIN items[ch] => items[ch][x.id].end <= now

\* Completing a fusion consumes its token at its version, once its time is up, for its cell.
CompletesFusion(ch, x, t) ==
    /\ x.id \in DOMAIN items[ch] /\ IsFusion(items[ch][x.id])
    /\ items[ch][x.id].version = x.version
    /\ items[ch][x.id].end <= now
    /\ t.add = [c \in {items[ch][x.id].cell} |-> 1]
    /\ t.put = {} /\ t.save = {} /\ t.drop = {x}

Droppable(ch, t) ==
    \A x \in t.drop :
        IF IsFusion(x) THEN CompletesFusion(ch, x, t)
        ELSE x.id \in DOMAIN items[ch] => MayWrite(items[ch][x.id], x, FALSE)

Without(held, xs) == Restrict(held, DOMAIN held \ {x.id : x \in xs})
With(held, xs) ==
    LET written == {x \in xs : x.id \in DOMAIN held => ~IsSkipped(held[x.id], x)}
    IN  [id \in DOMAIN held \cup {x.id : x \in written} |->
            IF \E x \in written : x.id = id THEN CHOOSE x \in written : x.id = id ELSE held[id]]

\* A transaction takes, saves and gives, in this order, each on what the one before left.
Kept(ch, t)  == Without(items[ch], t.drop)
Saved(ch, t) == With(Kept(ch, t), t.save)
ItemsAfter(ch, t) == [items EXCEPT ![ch] = With(Saved(ch, t), t.put)]

---------------------------------------------------------------------------
\* Slip that breaks Settles: the ledger is consulted by content instead of by id.
IsNewContent(t) == \A tx \in DOMAIN ledger : ledger[tx] # t

\* A transaction id is applied once; sent again it is answered from the ledger, or refused.
IsNew(t) == t.tx \notin DOMAIN ledger
Recorded(tx, content) == [x \in DOMAIN ledger \cup {tx} |-> IF x = tx THEN content ELSE ledger[x]]

\* A save over a fusion token finds the token of its exchange; where none is held it puts one.
HoldsToken(held, x) ==
    x.id \in DOMAIN held /\ IsFusion(held[x.id]) /\ held[x.id].exchange = x.exchange /\ held[x.id].cell = x.cell
Revives(t) == {<<t, x>> : x \in {y \in Tokens(t.save) : ~HoldsToken(Kept(t.ch, t), y)}}

RunInventoryTransaction(t) ==
    /\ OwnerOf[t.ch] = t.user
    /\ t.after \subseteq DOMAIN ledger
    /\ IsNew(t)
    /\ Affordable(t.user, t.remove)
    /\ StacksCover(t.ch, t.remove)
    /\ Droppable(t.ch, t)
    /\ Puttable(Kept(t.ch, t), t.save, TRUE) /\ Puttable(Saved(t.ch, t), t.put, FALSE)
    /\ wallet' = WalletAfter(t.user, t.remove, t.add)
    /\ stacks' = StacksAfter(t.ch, t.remove, t.add)
    /\ items' = ItemsAfter(t.ch, t)
    /\ ledger' = Recorded(t.tx, t)
    /\ revived' = revived \cup Revives(t)
    /\ UNCHANGED now

UpdateInstancedItem(w) ==
    /\ OwnerOf[w.ch] = w.user
    /\ w.item.id \in DOMAIN items[w.ch]
    /\ Puttable(items[w.ch], {w.item}, TRUE)
    /\ items' = [items EXCEPT ![w.ch] = With(@, {w.item})]
    /\ UNCHANGED <<now, wallet, stacks, ledger, revived>>

Tick == now < MAX_TIME /\ now' = now + 1 /\ UNCHANGED inventoryVars

InventoryNext ==
    \/ \E t \in Transactions : RunInventoryTransaction(t)
    \/ \E w \in ItemUpdates : UpdateInstancedItem(w)

---------------------------------------------------------------------------
(* Properties *)

\* A save of a world that fell behind never overwrites a newer one: an instanced item that
\* stays changes only to a higher version, or, a fusion, at its version to an earlier end
\* (AssertExistingInstancedItemWrite, reached by add, save and update).
NothingStale ==
    [][\A ch \in Characters : \A id \in DOMAIN items[ch] \cap DOMAIN items'[ch] :
        LET x == items[ch][id]
            y == items'[ch][id]
        IN  \/ x = y
            \/ y.version > x.version
            \/ IsFusion(x) /\ y.version = x.version /\ y.exchange = x.exchange /\ y.end < x.end]_items

\* The transactions a character's ledger holds a receipt of (transactions.ts 49-65).
Receipts(ch) == {t \in Transactions : t.ch = ch /\ t.tx \in DOMAIN ledger /\ ledger[t.tx] = t}

\* An exchange of cells pays once, whichever completions under other transaction ids, repeats and
\* later exchanges of its slot arrive, and once more only for a speed-up that found its token gone
\* and put it back: in each cell, the receipts that pay it for a token never outnumber the tokens
\* begun and put back (transactions.ts 115-162, which do not order speed-ups and completions).
FusedCells == UNION {{x.cell : x \in Tokens(t.put)} : t \in Transactions}
Revealed(ch, c) == {t \in Receipts(ch) : Tokens(t.drop) # {} /\ c \in DOMAIN t.add}
Begun(ch, c) == UNION {{<<t, x>> : x \in {y \in Tokens(t.put) : y.cell = c}} : t \in Receipts(ch)}
Revived(ch, c) == {l \in revived : l[1].ch = ch /\ l[2].cell = c}
CellPaidOnce ==
    \A ch \in Characters, c \in FusedCells :
        Cardinality(Revealed(ch, c)) <= Cardinality(Begun(ch, c)) + Cardinality(Revived(ch, c))
=============================================================================
