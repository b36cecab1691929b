--------------------------- MODULE MCIslandWorlds ---------------------------
(* Three launches over two ports: enough for a port to be taken, released, *)
(* taken again and released by its former holder.                          *)
EXTENDS IslandWorlds, TLC

LaunchSymmetry == Permutations(Launch)
=============================================================================
