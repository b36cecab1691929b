-------------------------- MODULE MCHuntingGrounds --------------------------
(* Three players, alone or two together; worlds of two players, so that    *)
(* one party fills a world.                                                *)
EXTENDS HuntingGrounds, TLC

CONSTANTS a, b, c
Symmetry == Permutations(Request) \cup Permutations(IslandPort)
PairAndSingles == {{a, b}, {a}, {c}}
PairAndStranger == {{a, b}, {c}}
Singles == {{a}, {b}, {c}}
=============================================================================
