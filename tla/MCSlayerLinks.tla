---------------------------- MODULE MCSlayerLinks ----------------------------
(***************************************************************************)
(* Three accounts: p1 invites both others, into either slot, and p2 invites *)
(* back; prizes are collected for p1, whose two links may earn the same.   *)
(***************************************************************************)
EXTENDS SlayerLinks
CONSTANTS p1, p2, p3, s1, s2
Costs == <<1>>
PrizePools == {[r \in {1} |-> "rams"]}
Asked == {<<p1, p2, s1>>, <<p1, p3, s2>>, <<p2, p1, s2>>, <<p1, p3, s1>>}
=============================================================================
