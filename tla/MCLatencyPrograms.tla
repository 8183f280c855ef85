------------------------- MODULE MCLatencyPrograms --------------------------
(* LatencyPrograms for TLC.  Block: two reads and an operation that is not *)
(* counted, all on one sector.  NFS: a read and a second one for what the  *)
(* first, cut short, asks for again.  Kprobes: two threads of one process, *)
(* one of which makes two calls.  There are two elements for start times:  *)
(* enough for two requests, and too few once a start has been left behind, *)
(* so that it or a live one is evicted; and one histogram fewer than keys. *)
(* The differences of the clock readings lie in the first slot, between    *)
(* the boundaries 10 and 16 and beyond the last slot: 15 instead of the 26 *)
(* of common.h.                                                            *)
EXTENDS LatencyPrograms, TLC

CONSTANTS b1, b2, b3, n1, n2, k1, k2, k3

Request(by, op, pos, rest, thread) ==
    [prog |-> by, dev |-> "d", op |-> op, pos |-> pos, rest |-> rest,
     process |-> "p", thread |-> thread]

Some == (b1 :> Request("block", "R", "x", Nil, Nil))
     @@ (b2 :> Request("block", "R", "x", Nil, Nil))
     @@ (b3 :> Request("block", "N", "x", Nil, Nil))
     @@ (n1 :> Request("nfs", "read", "x", "y", Nil))
     @@ (n2 :> Request("nfs", "read", "y", Nil, Nil))
     @@ (k1 :> Request("kprobe", "read", Nil, Nil, "t1"))
     @@ (k2 :> Request("kprobe", "write", Nil, Nil, "t1"))
     @@ (k3 :> Request("kprobe", "open", Nil, Nil, "t2"))

SomeTimes == {0, 15000, 40000000}
SmallBoundaries == {0, 10, 2^4}

\* A request of slightly more than 10 ms, with the default boundaries.
SlowTimes == {0, 10001000}
DefaultBoundaries == {10000, 100000, 1000000}

Interchange ==
    Permutations(Cpus) \cup Permutations(StartElems) \cup Permutations(HistElems)
=============================================================================
