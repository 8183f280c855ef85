--------------------------- MODULE MCQgaCollector ---------------------------
(* QgaCollector for TLC.  Containers and volumes are interchangeable.      *)
EXTENDS QgaCollector, TLC

Interchange == Permutations(Containers) \cup Permutations(Volumes)
=============================================================================
