--------------------------- MODULE MCQmpCollector ---------------------------
(* QmpCollector for TLC: a pod whose container can be replaced and whose   *)
(* VM has a disk, and a second pod whose VM has none.                      *)
EXTENDS QmpCollector, TLC

CONSTANTS p1, p2, a1, a2, b1, d1

TwoPods == (a1 :> p1) @@ (a2 :> p1) @@ (b1 :> p2)

OneDisk == (p1 :> {d1}) @@ (p2 :> {})
=============================================================================
