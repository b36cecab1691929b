--------------------------- MODULE MCAccountData ---------------------------
(***************************************************************************)
(* One account with one character.  Game servers pay Aetherdust under its  *)
(* old name, start a fusion and the next in its slot, speed the first up   *)
(* and reveal them (under two ids, and with another cell under a used      *)
(* id), in any order, save a weapon of two versions, and take stacks back. *)
(* The store sells a daily gift, an unlock, a term of membership and a     *)
(* rotating cell.                                                          *)
(***************************************************************************)
EXTENDS AccountData
CONSTANTS u1, c1, dust, chips, plat, cell, rare, key, emote, skin, sword, slot1, ex1, ex2, club,
          pass, mastery, o1, o2, r1, none,
          b1, b2, d1, w1, w2, tA, tB, tC, egg, x1, x2,
          tSeed, tStart, tNext, tSpeed, tReveal, tAgain, tOld, tNew
Money == {dust, plat}
Goods == {cell, rare, key, emote}
Canon == [x \in {dust, chips, plat} \cup Goods |-> IF x = chips THEN dust ELSE x]
UnitsOf == [x \in {dust, chips, plat} \cup Goods |-> IF x = chips THEN 2 ELSE 1]
Purse == [x \in Money |-> IF x = plat THEN 2 ELSE 0]
Owner == [x \in {c1} |-> u1]
One(x) == [y \in {x} |-> 1]

Order(tx, add, remove, put, save, drop, after) ==
    [tx |-> tx, user |-> u1, ch |-> c1, add |-> add, remove |-> remove,
     put |-> put, save |-> save, drop |-> drop, after |-> after]
Token(exchange, end) == [id |-> slot1, catalog |-> "fusion", kind |-> "fusion", version |-> 0,
                         exchange |-> exchange, cell |-> cell, end |-> end]
Used == [id |-> slot1, catalog |-> "fusion", kind |-> "fusion", version |-> 0]
Weapon(v, data) == [id |-> sword, catalog |-> "sword", kind |-> "stateful", version |-> v, data |-> data]
None == [x \in {} |-> x]
Sent == {
    Order(tSeed, [x \in {chips, key, dust} |-> 1], None, {}, {}, {}, {}),
    Order(tStart, None, One(chips), {Token(ex1, 3)}, {}, {}, {}),
    Order(tNext, None, None, {Token(ex2, 3)}, {}, {}, {tStart}),
    Order(tSpeed, None, None, {}, {Token(ex1, 2)}, {}, {tStart}),
    Order(tReveal, One(cell), None, {}, {}, {Used}, {}),
    Order(tAgain, One(cell), None, {}, {}, {Used}, {}),
    Order(tReveal, One(key), None, {}, {}, {}, {tReveal}),
    Order(tOld, None, None, {}, {Weapon(1, "x")}, {}, {}),
    Order(tNew, None, One(key), {Weapon(2, "x")}, {}, {}, {})}
Updates == {[user |-> u1, ch |-> c1, item |-> Weapon(1, "y")]}

Offer(kind, currency, price, goods, cosmetics, grants, term, family, open) ==
    [kind |-> kind, currency |-> currency, price |-> price, items |-> goods, cosmetics |-> cosmetics,
     grants |-> grants, window |-> term, family |-> family, open |-> open]
OfferTable ==
    [gift |-> Offer("bundle", plat, 0, [x \in {plat, key} |-> 1], {}, None, DAY, {}, 1 .. MAX_TIME),
     lantern |-> Offer("unlock", plat, 1, One(emote), {skin}, None, 0, {}, 1 .. MAX_TIME),
     dance |-> Offer("unlock", plat, 1, One(emote), {}, None, 0, {}, 1 .. 2),
     membership |-> Offer("unlock", plat, 1, None, {}, [x \in {club} |-> 2], 0, {}, 1 .. MAX_TIME),
     cells |-> Offer("repeatable", dust, 1, One(rare), {}, None, 0, {[family |-> "b", rank |-> 1]}, 1 .. MAX_TIME)]
CellFamilies == <<"a", "b", "c", "d", "e", "f">>

\* Two tracks: a pass whose premium lane the membership opens, and a mastery.
Reward(goods, cosmetics, grants) == [lines |-> goods, cosmetics |-> cosmetics, grants |-> grants]
TrackTable == [t \in {pass, mastery} |->
    IF t = pass
    THEN [costs |-> <<1>>, gate |-> club,
          free |-> [r \in {1} |-> Reward([x \in {chips, key} |-> 1], {skin}, None)],
          premium |-> [r \in {1} |-> Reward([x \in {dust, key} |-> 1], {}, None)]]
    ELSE [costs |-> <<1>>, gate |-> none,
          free |-> [r \in {1} |-> Reward(None, {}, [x \in {club} |-> 0])], premium |-> None]]
Award(request, points, snapshot) == [request |-> request, user |-> u1, tracks |-> points, objectives |-> snapshot]
At(completed, value) == [completed |-> completed, value |-> value]
AwardSet == {
    Award(none, [x \in {pass} |-> 1], None),
    Award(r1, [x \in {pass} |-> 2], None),
    Award(none, [x \in {mastery} |-> 1], [x \in {o1} |-> At(0, 1)]),
    Award(none, [x \in {mastery, pass} |-> 1], [x \in {o1, o2} |-> IF x = o1 THEN At(1, 0) ELSE At(0, 1)])}
PointsCount == [t \in {pass, mastery} |-> 1]

\* Updates of two drafted bounties, the day's challenge and the two weeks' season challenges.
BoardKinds == [x \in {b1, b2, d1, w1, w2} |-> IF x \in {b1, b2} THEN "drafted" ELSE IF x = d1 THEN "daily" ELSE "challenge"]
Bounty(id, slot, drafted, version, claimed) ==
    [id |-> id, slot |-> slot, drafted |-> drafted, version |-> version, claimed |-> claimed]
Update(entries) == [entries |-> entries, reset |-> FALSE]
PostSet == {
    Update(<<Bounty(b1, 0, 3, 0, FALSE)>>),
    Update(<<Bounty(b1, 0, 3, 2, FALSE), Bounty(w1, 1, 1, 1, FALSE)>>),
    Update(<<Bounty(b1, 0, 3, 1, TRUE)>>),
    Update(<<Bounty(b1, 1, 5, 0, FALSE)>>),
    Update(<<Bounty(b2, 0, 4, 0, FALSE), Bounty(b1, 1, 4, 0, FALSE)>>),
    Update(<<Bounty(b2, 0, 0, -1, TRUE)>>),
    Update(<<Bounty(d1, 0, 3, 0, FALSE)>>),
    Update(<<Bounty(d1, 0, 5, 0, TRUE), Bounty(b2, 1, 4, 1, FALSE)>>),
    Update(<<Bounty(w1, 1, 1, 1, TRUE), Bounty(w2, 1, 1, 2, FALSE)>>),
    [entries |-> << >>, reset |-> TRUE]}
Drawn == [week \in 0 .. 9 |-> IF week % 2 = 1 THEN <<w1>> ELSE <<w2>>]

\* Three levels, and three talents, each behind the points of those before it.
LevelTable == <<2, 1, 1>>
TalentTable == [t \in {tA, tB, tC} |->
    CASE t = tA -> [gate |-> 0, costs |-> <<1>>]
      [] t = tB -> [gate |-> 1, costs |-> <<1>>]
      [] OTHER -> [gate |-> 2, costs |-> <<1>>]]
Rewards == [u \in {egg} |-> 3]

\* Every pair of versions and contents.
Snapshots == [version : 0 .. 1, content : {x1, x2}]
Seen == [category : {1, 2}, content : {x1}]
Blobs == {[version |-> 0, facts |-> {"tutorial over"}], [version |-> 1, facts |-> {}], [version |-> 1, facts |-> {"look"}]}
Timers == [id : {x1, x2}, started : {1}]

\* The tables and the requests of this instance are such as the theorems speak of.
ASSUME TablesAsAsked ==
    /\ TakenForGood /\ InstancedOrStacked /\ SellsSomething /\ GoodForGood
    /\ GrantsCarryEvidence /\ StampedChallenges /\ UndatedFirst /\ UpdatesAtZero
=============================================================================
