-------------------------- MODULE MCOnDemandWorld --------------------------
(* Two travellers over three worlds: a world can serve one of them and die *)
(* or fall asleep while the other is on its way.                           *)
EXTENDS OnDemandWorld
=============================================================================
