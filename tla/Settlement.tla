---------------------------- MODULE Settlement ----------------------------
(***************************************************************************)
(* What the metagame promises about value: every order (a game server's    *)
(* inventory transaction, a purchase, the rewards of some ranks) is        *)
(* settled at most once, as a whole, and never with more than its payer    *)
(* holds.  Inventory, Store and Progression implement this specification.  *)
(***************************************************************************)
EXTENDS Naturals

CONSTANTS
    Slots,      \* places that hold value: an account's currency, a character's stack
    Strict,     \* slots that refuse to give what they do not hold; others give nothing when empty
    Orders      \* records [ids, take, give, once]: what it settles, what is due and yielded at each
                \* slot, and the slots (unlocks) that are given only to those who hold none

VARIABLES holdings, settled

Init ==
    /\ holdings \in [Slots -> Nat]
    /\ settled = {}

Due(o, s)   == IF s \notin Strict /\ holdings[s] = 0 THEN 0 ELSE o.take[s]
Yield(o, s) == IF s \in o.once /\ holdings[s] > 0 THEN 0 ELSE o.give[s]

Settle(o) ==
    /\ o.ids \cap settled = {}
    /\ \A s \in Slots : Due(o, s) <= holdings[s]
    /\ holdings' = [s \in Slots |-> holdings[s] - Due(o, s) + Yield(o, s)]
    /\ settled' = settled \cup o.ids

\* What a step newly settles is one order, whole.
Next ==
    LET new == settled' \ settled
    IN  new # {} /\ \E o \in Orders : o.ids = new /\ Settle(o)

Spec == Init /\ [][Next]_<<holdings, settled>>
=============================================================================
