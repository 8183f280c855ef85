--------------------------- MODULE MCEbpfPrograms ---------------------------
(* EbpfPrograms for TLC: two tracepoints of each kind, a kprobe that is    *)
(* needed and one that is optional.                                        *)
EXTENDS EbpfPrograms

SomePoints == [block |-> <<"issue", "complete">>, nfs |-> <<"initiate", "done">>,
               kprobe |-> <<"open4", "read">>]
SomeOptional == {"open4"}
All == {"block", "nfs", "kprobe"}
=============================================================================
