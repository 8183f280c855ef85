-------------------------- MODULE LatencyHistogram --------------------------
(***************************************************************************)
(* From a latency to what is exported: the slot the BPF programs put it in *)
(* (bits.bpf.h and the ends of block_latency.c and of the NFS programs)    *)
(* and the buckets SlotsToConstHistogram of histogram.go makes of slots.   *)
(*                                                                         *)
(* Latencies come in nanoseconds, boundaries are counted in microseconds.  *)
(* The sum, a floating-point estimate, is left out.                        *)
(***************************************************************************)
EXTENDS Integers, FiniteSets, FiniteSetsExt, Functions

CONSTANTS MaxSlots,    \* MAX_SLOTS, MaxSlots
          Boundaries   \* --boundaries

ASSUME HistogramAssumption ==
    /\ MaxSlots \in 1..32
    /\ Boundaries \subseteq Nat

Slots == 0..(MaxSlots - 1)

\* One step of the binary search of log2: is v beyond the lower half of its bits?
Half(v, bits) == IF v > 2^bits - 1 THEN bits ELSE 0

log2(v) ==
    LET r16 == Half(v, 16)
        r8  == r16 + Half(v \div 2^r16, 8)
        r4  == r8 + Half(v \div 2^r8, 4)
        r2  == r4 + Half(v \div 2^r4, 2)
    IN r2 + Half(v \div 2^r2, 1)

\* The high word, in two steps of 16 bits.
log2l(v) ==
    LET hi == (v \div 2^16) \div 2^16
    IN IF hi # 0 THEN log2(hi) + 32 ELSE log2(v)

\* Whole microseconds, at least one.
Micros(ns) == Max({ns \div 1000, 1})

\* Mutant: the cap is one slot too high.
SlotOfOneMore(ns) == Min({log2l(Micros(ns)), MaxSlots})

SlotOf(ns) == Min({log2l(Micros(ns)), MaxSlots - 1})

zero_hist == [i \in Slots |-> 0]

slotCeiling(i) == 2^i

runningTotal(slots, i) == SumFunctionOnSet(slots, 0..i)

\* Mutant: the count of the last slot instead of the running total.
BucketOfSlotOnly(slots, b) ==
    LET below == {i \in Slots : slotCeiling(i) <= b}
    IN IF below = {} THEN 0 ELSE slots[Max(below)]

\* The running total at the last slot whose ceiling is within the boundary.
BucketOf(slots, b) ==
    LET below == {i \in Slots : slotCeiling(i) <= b}
    IN IF below = {} THEN 0 ELSE runningTotal(slots, Max(below))

\* A latency belongs to slot i when it takes 2^i up to 2^(i+1) microseconds; what is
\* shorter belongs to the first slot, what is longer to the last.
Belongs(l, i) == /\ i = 0 \/ 2^i <= l \div 1000
                 /\ i = MaxSlots - 1 \/ l \div 1000 < 2^(i + 1)
=============================================================================
