----------------------- MODULE LatencyHistogramProofs -----------------------
(***************************************************************************)
(* What the histograms of LatencyPrograms hold, and what the exported      *)
(* buckets make of it.  First the operators of LatencyHistogram, for all   *)
(* latencies: the binary search of bits.bpf.h finds the slot a latency     *)
(* belongs to, and a bucket of histogram.go counts the slots up to its     *)
(* boundary.  Then the steps of the programs.                              *)
(*                                                                         *)
(* Sums are defined by recursion over finite sets.  Induction over numbers *)
(* is had from the least counterexample, with a set for the predicate.     *)
(* The provers know powers of two as literals only, so that the one fact   *)
(* that all others rest on, 2^(i + 1) = 2 * 2^i, goes by cases.            *)
(***************************************************************************)
EXTENDS LatencyProgramsProofs, FiniteSetTheorems

-----------------------------------------------------------------------------
(* Induction, and the extremes of sets of numbers.                         *)

\* Induction over the natural numbers.
LEMMA Induction ==
    ASSUME NEW S \in SUBSET Nat, 0 \in S, \A n \in S : n + 1 \in S
    PROVE  S = Nat
  <1>1. SUFFICES ASSUME Nat \ S # {} PROVE FALSE
    BY Zenon
  <1>2. PICK x \in Nat \ S : \A y \in Nat \ S : x <= y
    BY <1>1, MinFacts, Zenon
  <1>3. x # 0 /\ x - 1 \in Nat /\ x = (x - 1) + 1 /\ ~(x <= x - 1)
    BY <1>2
  <1>4. x - 1 \in S
    BY <1>2, <1>3
  <1> QED
    BY <1>2, <1>3, <1>4

\* A bounded set of numbers has a largest one: its distance to the bound is least.
LEMMA MaxFacts ==
    ASSUME NEW n \in Nat, NEW S \in SUBSET (0..n), S # {}
    PROVE  Max(S) \in S /\ \A x \in S : x <= Max(S)
  <1> DEFINE D == {n - x : x \in S}
  <1>0. \A x \in S : x \in 0..n /\ n - x \in Nat
    OBVIOUS
  <1>1. D \in SUBSET Nat /\ D # {}
    BY <1>0, Zenon
  <1>2. PICK d \in D : \A e \in D : d <= e
    <2> HIDE DEF D
    <2> QED BY <1>1, MinFacts, Zenon
  <1>3. PICK x \in S : d = n - x
    BY <1>2
  <1>4. \A y \in S : y <= x
    <2> TAKE y \in S
    <2>1. n - y \in D /\ y \in 0..n /\ x \in 0..n
      OBVIOUS
    <2> QED BY <1>2, <1>3, <2>1
  <1>5. \A y \in S : x >= y
    BY <1>4
  <1>6. Max(S) \in S /\ \A y \in S : Max(S) >= y
    BY <1>5, Zenon DEF Max
  <1> QED
    BY <1>6
-----------------------------------------------------------------------------
(* Powers of two.                                                          *)

\* The power is hidden from the provers, which would try to calculate it.
Power(i) == 2^i

LEMMA Doubling ==
    ASSUME NEW i \in 0..31
    PROVE  Power(i) \in Nat \ {0} /\ Power(i + 1) = 2 * Power(i)
  <1>0. CASE i = 0  BY <1>0, SMT DEF Power
  <1>1. CASE i = 1  BY <1>1, SMT DEF Power
  <1>2. CASE i = 2  BY <1>2, SMT DEF Power
  <1>3. CASE i = 3  BY <1>3, SMT DEF Power
  <1>4. CASE i = 4  BY <1>4, SMT DEF Power
  <1>5. CASE i = 5  BY <1>5, SMT DEF Power
  <1>6. CASE i = 6  BY <1>6, SMT DEF Power
  <1>7. CASE i = 7  BY <1>7, SMT DEF Power
  <1>8. CASE i = 8  BY <1>8, SMT DEF Power
  <1>9. CASE i = 9  BY <1>9, SMT DEF Power
  <1>10. CASE i = 10  BY <1>10, SMT DEF Power
  <1>11. CASE i = 11  BY <1>11, SMT DEF Power
  <1>12. CASE i = 12  BY <1>12, SMT DEF Power
  <1>13. CASE i = 13  BY <1>13, SMT DEF Power
  <1>14. CASE i = 14  BY <1>14, SMT DEF Power
  <1>15. CASE i = 15  BY <1>15, SMT DEF Power
  <1>16. CASE i = 16  BY <1>16, SMT DEF Power
  <1>17. CASE i = 17  BY <1>17, SMT DEF Power
  <1>18. CASE i = 18  BY <1>18, SMT DEF Power
  <1>19. CASE i = 19  BY <1>19, SMT DEF Power
  <1>20. CASE i = 20  BY <1>20, SMT DEF Power
  <1>21. CASE i = 21  BY <1>21, SMT DEF Power
  <1>22. CASE i = 22  BY <1>22, SMT DEF Power
  <1>23. CASE i = 23  BY <1>23, SMT DEF Power
  <1>24. CASE i = 24  BY <1>24, SMT DEF Power
  <1>25. CASE i = 25  BY <1>25, SMT DEF Power
  <1>26. CASE i = 26  BY <1>26, SMT DEF Power
  <1>27. CASE i = 27  BY <1>27, SMT DEF Power
  <1>28. CASE i = 28  BY <1>28, SMT DEF Power
  <1>29. CASE i = 29  BY <1>29, SMT DEF Power
  <1>30. CASE i = 30  BY <1>30, SMT DEF Power
  <1>31. CASE i = 31  BY <1>31, SMT DEF Power
  <1>a. i \in {0, 1, 2, 3, 4, 5, 6, 7, 8, 9, 10, 11, 12, 13, 14, 15,
              16, 17, 18, 19, 20, 21, 22, 23, 24, 25, 26, 27, 28, 29, 30, 31}
    BY SMT
  <1> QED
    BY <1>a, <1>0, <1>1, <1>2, <1>3, <1>4, <1>5, <1>6, <1>7, <1>8, <1>9, <1>10,
       <1>11, <1>12, <1>13, <1>14, <1>15, <1>16, <1>17, <1>18, <1>19, <1>20,
       <1>21, <1>22, <1>23, <1>24, <1>25, <1>26, <1>27, <1>28, <1>29, <1>30,
       <1>31, Zenon

LEMMA PowerType == \A i \in 0..32 : Power(i) \in Nat \ {0}
  <1> SUFFICES ASSUME NEW i \in 0..32 PROVE Power(i) \in Nat \ {0}
    OBVIOUS
  <1>1. CASE i = 32
    BY <1>1, SMT DEF Power
  <1>2. CASE i # 32
    BY <1>2, Doubling
  <1> QED
    BY <1>1, <1>2

LEMMA PowerAdd ==
    ASSUME NEW i \in 0..32, NEW n \in Nat, i + n <= 32
    PROVE  Power(i + n) = Power(i) * Power(n)
  <1> DEFINE N == {k \in Nat : i + k <= 32 => Power(i + k) = Power(i) * Power(k)}
  <1>1. 0 \in N
    <2>1. Power(0) = 1
      BY SMT DEF Power
    <2>2. i + 0 = i /\ Power(i) \in Nat
      BY PowerType
    <2> QED BY <2>1, <2>2
  <1>2. ASSUME NEW k \in N PROVE k + 1 \in N
    <2>1. SUFFICES ASSUME i + (k + 1) <= 32 PROVE Power(i + (k + 1)) = Power(i) * Power(k + 1)
      OBVIOUS
    <2>2. k \in 0..31 /\ i + k \in 0..31 /\ i + (k + 1) = (i + k) + 1
      BY <2>1
    <2>3. Power((i + k) + 1) = 2 * Power(i + k) /\ Power(k + 1) = 2 * Power(k)
      BY <2>2, Doubling
    <2>4. Power(i) \in Nat /\ Power(k) \in Nat
      BY <2>2, PowerType
    <2>5. Power(i + k) = Power(i) * Power(k)
      BY <2>2
    <2>6. \A a, b \in Nat : 2 * (a * b) = a * (2 * b)
      BY SMT
    <2> QED
      BY <2>2, <2>3, <2>4, <2>5, <2>6
  <1>3. N = Nat
    <2>1. N \in SUBSET Nat
      OBVIOUS
    <2> HIDE DEF N
    <2> QED BY <1>1, <1>2, <2>1, Induction
  <1> QED
    BY <1>3

LEMMA PowerLe ==
    ASSUME NEW i \in 0..32, NEW j \in 0..32, i <= j
    PROVE  Power(i) <= Power(j)
  <1>1. j - i \in 0..32 /\ i + (j - i) = j
    OBVIOUS
  <1>2. Power(j) = Power(i) * Power(j - i)
    BY <1>1, PowerAdd
  <1>3. \A a, b \in Nat \ {0} : a <= a * b
    BY SMT
  <1> QED
    BY <1>1, <1>2, <1>3, PowerType
-----------------------------------------------------------------------------
(* The binary search for the highest bit.                                  *)

LEMMA DivLe ==
    ASSUME NEW v \in Nat, NEW d \in Nat \ {0}, NEW e \in Nat
    PROVE  v \div d \in Nat /\ (e <= v \div d <=> e * d <= v)
  <1> DEFINE q == v \div d
             m == v % d
  <1>1. q \in Nat /\ m \in 0..(d - 1) /\ v = d * q + m
    BY SMT
  <1> HIDE DEF q, m
  <1>2. ASSUME e <= q PROVE e * d <= v
    <2>1. e * d <= q * d
      BY <1>1, <1>2, SMT
    <2> QED BY <1>1, <2>1, SMT
  <1>3. ASSUME q + 1 <= e PROVE v < e * d
    <2>1. (q + 1) * d <= e * d
      BY <1>1, <1>3, SMT
    <2>2. v < (q + 1) * d
      BY <1>1, SMT
    <2>3. v \in Int /\ (q + 1) * d \in Int /\ e * d \in Int
      BY <1>1
    <2> QED BY <2>1, <2>2, <2>3
  <1>4. e * d \in Int
    OBVIOUS
  <1> QED
    BY <1>1, <1>2, <1>3, <1>4 DEF q

\* The highest bit of v is one of the n bits from bit r on.
Within(v, r, n) == r \in Nat /\ r + n <= 32 /\ Power(r) <= v /\ v < Power(r + n)

\* A step of log2 halves the range in which the highest bit is.
LEMMA HalfStep ==
    ASSUME NEW v \in Nat, NEW n \in {1, 2, 4, 8, 16}, NEW m, m = 2 * n,
           NEW r, Within(v, r, m)
    PROVE  Within(v, r + Half(v \div 2^r, n), n)
  <1> DEFINE q == r + Half(v \div 2^r, n)
  <1>0. r \in Nat /\ r + m <= 32 /\ Power(r) <= v /\ v < Power(r + m)
    BY DEF Within
  <1>1. 2^r = Power(r) /\ 2^n = Power(n)
    BY Zenon DEF Power
  <1>2. Power(r) \in Nat \ {0} /\ Power(n) \in Nat \ {0} /\ Power(r + n) = Power(n) * Power(r)
    <2>1. Power(r + n) = Power(r) * Power(n)
      BY <1>0, PowerAdd
    <2> QED BY <1>0, <2>1, PowerType
  <1>3. v \div Power(r) \in Nat /\ (Power(n) <= v \div Power(r) <=> Power(r + n) <= v)
    BY <1>2, DivLe
  <1>4. q = r + (IF v \div Power(r) > Power(n) - 1 THEN n ELSE 0)
    BY <1>1 DEF Half
  <1> HIDE DEF q
  <1>5. CASE Power(n) <= v \div Power(r)
    <2>1. q = r + n
      BY <1>2, <1>3, <1>4, <1>5
    <2>2. q + n = r + m
      BY <1>0, <2>1
    <2>3. q \in Nat /\ q + n <= 32 /\ Power(q) <= v /\ v < Power(q + n)
      BY <1>0, <1>3, <1>5, <2>1, <2>2
    <2> QED BY <2>3 DEF Within, q
  <1>6. CASE ~(Power(n) <= v \div Power(r))
    <2>1. q = r
      BY <1>0, <1>2, <1>3, <1>4, <1>6
    <2>2. q \in Nat /\ q + n <= 32 /\ Power(q) <= v /\ v < Power(q + n)
      BY <1>0, <1>2, <1>3, <1>6, <2>1
    <2> QED BY <2>2 DEF Within, q
  <1> QED
    BY <1>5, <1>6

\* log2 of bits.bpf.h finds the highest bit of a word of 32 bits.
LEMMA Log2Right ==
    ASSUME NEW v \in Nat, 1 <= v, v < Power(32)
    PROVE  Within(v, log2(v), 1)
  <1> DEFINE r16 == Half(v, 16)
             r8  == r16 + Half(v \div 2^r16, 8)
             r4  == r8 + Half(v \div 2^r8, 4)
             r2  == r4 + Half(v \div 2^r4, 2)
             r1  == r2 + Half(v \div 2^r2, 1)
  <1>1. log2(v) = r1
    BY Zenon DEF log2
  <1>2. r16 = 0 + Half(v \div 2^0, 16) /\ Power(0) = 1
    <2>1. 2^0 = 1 /\ v \div 1 = v
      BY SMT
    <2>2. Half(v, 16) \in Nat
      BY DEF Half
    <2> QED BY <2>1, <2>2 DEF Power
  <1> HIDE DEF r16
  <1>3. Within(v, 0, 32)
    BY <1>2 DEF Within
  <1>4. Within(v, r16, 16)
    BY <1>2, <1>3, HalfStep, 32 = 2 * 16, Zenon
  <1>5. Within(v, r8, 8)
    BY <1>4, HalfStep, 16 = 2 * 8
  <1> HIDE DEF r8
  <1>6. Within(v, r4, 4)
    BY <1>5, HalfStep, 8 = 2 * 4
  <1> HIDE DEF r4
  <1>7. Within(v, r2, 2)
    BY <1>6, HalfStep, 4 = 2 * 2
  <1> HIDE DEF r2
  <1>8. Within(v, r1, 1)
    BY <1>7, HalfStep, 2 = 2 * 1
  <1> HIDE DEF r1
  <1> QED
    BY <1>1, <1>8

\* There is only one place for the highest bit.
LEMMA WithinUnique ==
    ASSUME NEW v \in Nat, NEW r, NEW q, Within(v, r, 1), Within(v, q, 1)
    PROVE  r = q
  <1>1. /\ r \in Nat /\ r + 1 <= 32 /\ Power(r) <= v /\ v < Power(r + 1)
        /\ q \in Nat /\ q + 1 <= 32 /\ Power(q) <= v /\ v < Power(q + 1)
    BY Zenon DEF Within
  <1>2. r \in 0..31 /\ q \in 0..31 /\ r + 1 \in 0..32 /\ q + 1 \in 0..32
    BY <1>1
  <1>3. /\ Power(r) \in Nat /\ Power(r + 1) \in Nat /\ Power(q) \in Nat /\ Power(q + 1) \in Nat
    BY <1>2, PowerType
  <1>4. ~(r + 1 <= q)
    BY <1>1, <1>2, <1>3, PowerLe
  <1>5. ~(q + 1 <= r)
    BY <1>1, <1>2, <1>3, PowerLe
  <1> QED
    BY <1>2, <1>4, <1>5

\* log2l goes on to the upper word if there is anything in it.
LEMMA Log2lRight ==
    ASSUME NEW v \in Nat, 1 <= v
    PROVE  /\ v < Power(32) => Within(v, log2l(v), 1)
           /\ Power(32) <= v => log2l(v) \in Nat /\ 32 <= log2l(v)
  <1> DEFINE hi == (v \div 2^16) \div 2^16
  <1>1. Power(32) \in Nat /\ (hi # 0 <=> Power(32) <= v)
    BY SMT DEF Power
  <1>2. log2l(v) = IF hi # 0 THEN log2(hi) + 32 ELSE log2(v)
    BY Zenon DEF log2l
  <1> HIDE DEF hi
  <1>3. log2(hi) \in Nat
    <2>1. \A x : \A n \in Nat : Half(x, n) \in Nat
      BY DEF Half
    <2> DEFINE r16 == Half(hi, 16)
               r8  == r16 + Half(hi \div 2^r16, 8)
               r4  == r8 + Half(hi \div 2^r8, 4)
               r2  == r4 + Half(hi \div 2^r4, 2)
    <2>2. r16 \in Nat
      BY <2>1
    <2> HIDE DEF r16
    <2>3. r8 \in Nat
      BY <2>1, <2>2
    <2> HIDE DEF r8
    <2>4. r4 \in Nat
      BY <2>1, <2>3
    <2> HIDE DEF r4
    <2>5. r2 \in Nat
      BY <2>1, <2>4
    <2>6. Half(hi \div 2^r2, 1) \in Nat
      BY <2>1
    <2> HIDE DEF r2
    <2>7. r2 + Half(hi \div 2^r2, 1) \in Nat
      BY <2>5, <2>6
    <2>8. log2(hi) = r2 + Half(hi \div 2^r2, 1)
      BY Zenon DEF log2, r2, r4, r8, r16
    <2> QED BY <2>7, <2>8
  <1>4. ASSUME v < Power(32) PROVE Within(v, log2l(v), 1)
    BY <1>1, <1>2, <1>4, Log2Right
  <1> QED
    BY <1>1, <1>2, <1>3, <1>4
-----------------------------------------------------------------------------
(* The slot of a latency.                                                  *)

\* Slots is 0..Last.
Last == MaxSlots - 1

LEMMA LastFacts == Last \in 0..31 /\ Last = MaxSlots - 1 /\ Slots = 0..Last
BY HistogramAssumption DEF Last, Slots

LEMMA MicrosFacts ==
    ASSUME NEW l \in Nat
    PROVE  /\ l \div 1000 \in Nat /\ Micros(l) \in Nat /\ 1 <= Micros(l)
           /\ Micros(l) = IF l \div 1000 = 0 THEN 1 ELSE l \div 1000
  <1>1. l \div 1000 \in Nat
    BY SMT
  <1> DEFINE u == l \div 1000
  <1> HIDE DEF u
  <1>2. \A w \in Nat : Max({w, 1}) = IF w = 0 THEN 1 ELSE w
    <2> TAKE w \in Nat
    <2> DEFINE x == IF w = 0 THEN 1 ELSE w
    <2>1. x \in {w, 1} /\ \A y \in {w, 1} : x >= y
      OBVIOUS
    <2>2. \A z \in {w, 1} : (\A y \in {w, 1} : z >= y) => z = x
      OBVIOUS
    <2> HIDE DEF x
    <2>3. Max({w, 1}) \in {w, 1} /\ \A y \in {w, 1} : Max({w, 1}) >= y
      BY <2>1, Zenon DEF Max
    <2>4. Max({w, 1}) = x
      BY <2>2, <2>3, Zenon
    <2> QED BY <2>4 DEF x
  <1> QED
    BY <1>1, <1>2 DEF Micros

\* The slot is the highest bit of the microseconds, or the last slot.
LEMMA SlotIs ==
    ASSUME NEW l \in Nat
    PROVE  /\ SlotOf(l) \in Slots
           /\ Power(SlotOf(l)) <= Micros(l)
           /\ SlotOf(l) = Last \/ Micros(l) < Power(SlotOf(l) + 1)
  <1> DEFINE m == Micros(l)
             g == log2l(m)
  <1>1. m \in Nat /\ 1 <= m
    BY MicrosFacts
  <1> HIDE DEF m
  <1>2. /\ m < Power(32) => Within(m, g, 1)
        /\ Power(32) <= m => g \in Nat /\ 32 <= g
    BY <1>1, Log2lRight
  <1>3. SlotOf(l) = Min({g, Last})
    BY Zenon DEF SlotOf, Last, m
  <1> HIDE DEF g
  <1>4. Last \in 0..31 /\ Slots = 0..Last /\ Power(32) \in Nat
    BY LastFacts, PowerType
  <1>5. g \in Nat
    BY <1>1, <1>2, <1>4 DEF Within
  <1>6. Min({g, Last}) = IF g <= Last THEN g ELSE Last
    <2>1. {g, Last} \in SUBSET Nat /\ {g, Last} # {}
      BY <1>4, <1>5
    <2>2. Min({g, Last}) \in {g, Last} /\ \A x \in {g, Last} : Min({g, Last}) <= x
      BY <2>1, MinFacts
    <2> QED BY <1>4, <1>5, <2>2
  <1>7. CASE g <= Last
    <2>1. m < Power(32)
      BY <1>1, <1>2, <1>4, <1>7
    <2>2. Power(g) <= m /\ m < Power(g + 1)
      BY <1>2, <2>1 DEF Within
    <2> QED BY <1>3, <1>4, <1>5, <1>6, <1>7, <2>2 DEF m
  <1>8. CASE ~(g <= Last)
    <2>1. SlotOf(l) = Last
      BY <1>3, <1>6, <1>8
    <2>2. Power(Last) <= m
      <3>1. CASE m < Power(32)
        <4>1. g \in 0..32 /\ Power(g) <= m /\ Last <= g
          BY <1>2, <1>4, <1>5, <1>8, <3>1 DEF Within
        <4>2. Last \in 0..32
          BY <1>4
        <4>3. Power(Last) <= Power(g) /\ Power(Last) \in Nat /\ Power(g) \in Nat
          BY <4>1, <4>2, PowerLe, PowerType
        <4> QED BY <1>1, <4>1, <4>3
      <3>2. CASE Power(32) <= m
        <4>0. Last \in 0..32 /\ 32 \in 0..32 /\ Last <= 32
          BY <1>4
        <4>1. Power(Last) <= Power(32) /\ Power(Last) \in Nat
          BY <4>0, PowerLe, PowerType
        <4> QED BY <1>1, <1>4, <3>2, <4>1
      <3> QED BY <1>1, <1>4, <3>1, <3>2
    <2> QED BY <1>4, <2>1, <2>2 DEF m
  <1> QED
    BY <1>7, <1>8

\* block_latency.c 84-105: a latency is put into the slot it belongs to, and belongs to
\* no other.
LEMMA SlotBelongs ==
    ASSUME NEW l \in Nat, NEW i \in Slots
    PROVE  Belongs(l, i) <=> i = SlotOf(l)
  <1> DEFINE u == l \div 1000
             s == SlotOf(l)
             m == Micros(l)
  <1>1. u \in Nat /\ m = IF u = 0 THEN 1 ELSE u
    BY MicrosFacts
  <1>2. s \in Slots /\ Power(s) <= m /\ (s = Last \/ m < Power(s + 1))
    BY SlotIs
  <1>3. Belongs(l, i) <=> /\ i = 0 \/ Power(i) <= u
                          /\ i = Last \/ u < Power(i + 1)
    BY Zenon DEF Belongs, Power, Last
  <1> HIDE DEF u, s, m
  <1>4. s \in 0..31 /\ i \in 0..31 /\ i <= Last /\ s <= Last /\ Last \in 0..31
    <2>1. Last \in 0..31 /\ s \in 0..Last /\ i \in 0..Last
      BY <1>2, LastFacts, Zenon
    <2> QED BY <2>1
  <1>5. /\ Power(i) \in Nat \ {0} /\ Power(i + 1) = 2 * Power(i)
        /\ Power(s) \in Nat \ {0} /\ Power(s + 1) = 2 * Power(s)
    BY <1>4, Doubling
  <1>6. Power(0) = 1
    BY SMT DEF Power
  <1>7. CASE i = s
    <2>1. ASSUME s # 0 PROVE 2 <= Power(s)
      <3>1. 0 \in 0..31 /\ 0 + 1 = 1 /\ 1 \in 0..32 /\ s \in 0..32 /\ 1 <= s
        BY <1>4, <2>1
      <3>2. Power(1) = 2
        BY <1>6, <3>1, Doubling
      <3> QED BY <3>1, <3>2, PowerLe
    <2>2. i = 0 \/ Power(i) <= u
      BY <1>1, <1>2, <1>5, <1>7, <2>1
    <2>3. i = Last \/ u < Power(i + 1)
      BY <1>1, <1>2, <1>5, <1>7
    <2> QED BY <1>3, <1>7, <2>2, <2>3 DEF s
  <1>8. CASE i < s
    <2>1. i + 1 \in 0..32 /\ i + 1 <= s /\ s \in 0..32
      BY <1>4, <1>8
    <2>2. Power(i + 1) <= Power(s)
      BY <2>1, PowerLe
    <2> QED BY <1>1, <1>2, <1>3, <1>4, <1>5, <1>8, <2>2 DEF s
  <1>9. CASE s < i
    <2>1. s + 1 \in 0..32 /\ s + 1 <= i /\ i \in 0..32
      BY <1>4, <1>9
    <2>2. Power(s + 1) <= Power(i)
      BY <2>1, PowerLe
    <2> QED BY <1>1, <1>2, <1>3, <1>4, <1>5, <1>9, <2>2 DEF s
  <1> QED
    BY <1>4, <1>7, <1>8, <1>9 DEF s
-----------------------------------------------------------------------------
(* Sums over finite sets.                                                  *)

Chosen(s) == CHOOSE x \in s : TRUE

\* The recursion behind SumFunctionOnSet.
Term(f, it, s) == IF s = {} THEN 0 ELSE f[Chosen(s)] + it[s \ {Chosen(s)}]

IsSum(it, f, D) == it = [s \in D |-> Term(f, it, s)]

LEMMA ChosenFacts ==
    ASSUME NEW S, IsFiniteSet(S), NEW s \in SUBSET S, s # {}
    PROVE  /\ Chosen(s) \in s /\ Chosen(s) \in S /\ s \ {Chosen(s)} \in SUBSET S
           /\ Cardinality(s) \in Nat
           /\ Cardinality(s \ {Chosen(s)}) = Cardinality(s) - 1
  <1>1. Chosen(s) \in s
    BY DEF Chosen
  <1> QED
    BY <1>1, FS_Subset, FS_CardinalityType, FS_RemoveElement

UpTo(S, n) == {s \in SUBSET S : Cardinality(s) <= n}

\* The recursion has a solution: by induction over the size of the sets it is for.
LEMMA SumExists ==
    ASSUME NEW S, IsFiniteSet(S), NEW f, \A x \in S : f[x] \in Nat
    PROVE  \E it \in [SUBSET S -> Nat] : IsSum(it, f, SUBSET S)
  <1> DEFINE N == {n \in Nat : \E it \in [UpTo(S, n) -> Nat] : IsSum(it, f, UpTo(S, n))}
  <1>0. \A s \in SUBSET S : Cardinality(s) \in Nat /\ (Cardinality(s) = 0 <=> s = {})
    BY FS_Subset, FS_CardinalityType, FS_EmptySet
  <1>1. 0 \in N
    <2> DEFINE it == [s \in UpTo(S, 0) |-> 0]
    <2>1. \A s \in UpTo(S, 0) : s = {}
      BY <1>0 DEF UpTo
    <2>2. it \in [UpTo(S, 0) -> Nat] /\ IsSum(it, f, UpTo(S, 0))
      BY <2>1 DEF IsSum, Term
    <2> QED
      BY <2>2
  <1>2. ASSUME NEW n \in N PROVE n + 1 \in N
    <2>1. PICK it \in [UpTo(S, n) -> Nat] : IsSum(it, f, UpTo(S, n))
      OBVIOUS
    <2> DEFINE D == UpTo(S, n + 1)
               jt == [s \in D |-> Term(f, it, s)]
    <2>2. ASSUME NEW s \in D, s # {}
          PROVE  Chosen(s) \in S /\ s \ {Chosen(s)} \in UpTo(S, n) /\ s \ {Chosen(s)} \in D
      <3>1. s \in SUBSET S /\ Cardinality(s) <= n + 1
        BY DEF UpTo
      <3>2. /\ Chosen(s) \in S /\ s \ {Chosen(s)} \in SUBSET S
            /\ Cardinality(s) \in Nat
            /\ Cardinality(s \ {Chosen(s)}) = Cardinality(s) - 1
        BY <2>2, <3>1, ChosenFacts, Zenon
      <3> QED
        BY <3>1, <3>2 DEF UpTo
    <2>3. \A s \in UpTo(S, n) : s \in D /\ jt[s] = it[s]
      <3>1. \A s \in UpTo(S, n) : s \in D
        BY <1>0 DEF UpTo
      <3> QED
        BY <2>1, <3>1 DEF IsSum
    <2>4. jt \in [D -> Nat]
      BY <2>1, <2>2 DEF Term
    <2>5. \A s \in D : Term(f, it, s) = Term(f, jt, s)
      BY <2>2, <2>3, Zenon DEF Term
    <2>6. IsSum(jt, f, D)
      BY <2>5 DEF IsSum
    <2> QED
      BY <2>4, <2>6
  <1>3. N = Nat
    <2>1. N \in SUBSET Nat
      OBVIOUS
    <2> HIDE DEF N
    <2> QED BY <1>1, <1>2, <2>1, Induction
  <1>4. Cardinality(S) \in N
    <2> HIDE DEF N
    <2> QED BY <1>3, FS_CardinalityType
  <1>5. UpTo(S, Cardinality(S)) = SUBSET S
    BY FS_Subset DEF UpTo
  <1> QED
    BY <1>4, <1>5, Zenon

Solves(it, f, S) == /\ SumFunctionOnSet(f, S) = it[S]
                    /\ \A s \in SUBSET S : it[s] = Term(f, it, s)

\* A solution is what SumFunctionOnSet takes its value from.
LEMMA SumEquations ==
    ASSUME NEW S, IsFiniteSet(S), NEW f, \A x \in S : f[x] \in Nat
    PROVE  \E it : Solves(it, f, S)
  <1> DEFINE it == CHOOSE i : IsSum(i, f, SUBSET S)
  <1>1. SumFunctionOnSet(f, S) = it[S]
    BY DEF SumFunctionOnSet, FoldFunctionOnSet, MapThenFoldSet, IsSum, Chosen, Term
  <1>2. IsSum(it, f, SUBSET S)
    BY SumExists, Zenon
  <1> HIDE DEF it
  <1>3. \A s \in SUBSET S : it[s] = Term(f, it, s)
    BY <1>2 DEF IsSum
  <1>4. Solves(it, f, S)
    BY <1>1, <1>3, Zenon DEF Solves
  <1> QED
    BY <1>4, Zenon

\* Two functions that differ by one at one place.
Raised(f, g, a, S) == \A x \in S : f[x] \in Nat /\ g[x] = IF x = a THEN f[x] + 1 ELSE f[x]

\* Their sums differ by one if the place is in the set.
LEMMA SumRaised ==
    ASSUME NEW S, IsFiniteSet(S), NEW f, NEW g, NEW a, Raised(f, g, a, S)
    PROVE  /\ SumFunctionOnSet(f, S) \in Nat
           /\ SumFunctionOnSet(g, S) = SumFunctionOnSet(f, S) + (IF a \in S THEN 1 ELSE 0)
  <1>0. \A x \in S : f[x] \in Nat
    BY DEF Raised
  <1>1. \A x \in S : g[x] \in Nat
    BY DEF Raised
  <1>2. PICK it : Solves(it, f, S)
    BY <1>0, SumEquations, Zenon
  <1>3. PICK jt : Solves(jt, g, S)
    BY <1>1, SumEquations, Zenon
  <1> DEFINE OK(s) == it[s] \in Nat /\ jt[s] = it[s] + (IF a \in s THEN 1 ELSE 0)
             N == {n \in Nat : \A s \in SUBSET S : Cardinality(s) <= n => OK(s)}
  <1>4. \A s \in SUBSET S : Cardinality(s) \in Nat /\ (Cardinality(s) = 0 <=> s = {})
    BY FS_Subset, FS_CardinalityType, FS_EmptySet
  <1>5. OK({})
    <2>1. it[{}] = 0 /\ jt[{}] = 0
      BY <1>2, <1>3, Zenon DEF Term, Solves
    <2> QED BY <2>1
  <1>6. 0 \in N
    BY <1>4, <1>5
  <1>7. ASSUME NEW n \in N PROVE n + 1 \in N
    <2>0. SUFFICES ASSUME NEW s \in SUBSET S, Cardinality(s) <= n + 1 PROVE OK(s)
      OBVIOUS
    <2>1. SUFFICES ASSUME s # {} PROVE OK(s)
      BY <1>5, Zenon
    <2> DEFINE x == Chosen(s)
               t == s \ {x}
    <2>2. x \in s /\ x \in S /\ t \in SUBSET S /\ Cardinality(t) <= n
      <3>1. /\ x \in s /\ x \in S /\ t \in SUBSET S
            /\ Cardinality(s) \in Nat /\ Cardinality(t) = Cardinality(s) - 1
        BY <2>1, ChosenFacts
      <3> QED BY <2>0, <3>1
    <2>3. OK(t)
      BY <2>2
    <2>4. it[s] = f[x] + it[t] /\ jt[s] = g[x] + jt[t]
      BY <1>2, <1>3, <2>1, Zenon DEF Term, Solves
    <2>5. f[x] \in Nat /\ g[x] = IF x = a THEN f[x] + 1 ELSE f[x]
      BY <2>2 DEF Raised
    <2>6. a \in s <=> a \in t \/ a = x
      BY <2>2
    <2>7. x = a => a \notin t
      OBVIOUS
    <2> HIDE DEF x, t
    <2> QED BY <2>3, <2>4, <2>5, <2>6, <2>7
  <1>8. N = Nat
    <2>1. N \in SUBSET Nat
      OBVIOUS
    <2> HIDE DEF N
    <2> QED BY <1>6, <1>7, <2>1, Induction
  <1>9. S \in SUBSET S /\ Cardinality(S) \in Nat /\ Cardinality(S) <= Cardinality(S)
    BY <1>4
  <1> QED
    BY <1>2, <1>3, <1>8, <1>9 DEF Solves

LEMMA SumZero ==
    ASSUME NEW S, IsFiniteSet(S), NEW f, \A x \in S : f[x] = 0
    PROVE  SumFunctionOnSet(f, S) = 0
  <1>1. \A x \in S : f[x] \in Nat
    OBVIOUS
  <1>2. PICK it : Solves(it, f, S)
    BY <1>1, SumEquations, Zenon
  <1> DEFINE N == {n \in Nat : \A s \in SUBSET S : Cardinality(s) <= n => it[s] = 0}
  <1>3. \A s \in SUBSET S : Cardinality(s) \in Nat /\ (Cardinality(s) = 0 <=> s = {})
    BY FS_Subset, FS_CardinalityType, FS_EmptySet
  <1>4. it[{}] = 0
    BY <1>2, Zenon DEF Term, Solves
  <1>5. 0 \in N
    BY <1>3, <1>4
  <1>6. ASSUME NEW n \in N PROVE n + 1 \in N
    <2>1. SUFFICES ASSUME NEW s \in SUBSET S, Cardinality(s) <= n + 1 PROVE it[s] = 0
      OBVIOUS
    <2>2. SUFFICES ASSUME s # {} PROVE it[s] = 0
      BY <1>4, Zenon
    <2> DEFINE x == Chosen(s)
               t == s \ {x}
    <2>3. /\ x \in S /\ t \in SUBSET S
          /\ Cardinality(s) \in Nat /\ Cardinality(t) = Cardinality(s) - 1
      BY <2>2, ChosenFacts
    <2>4. it[t] = 0
      BY <2>1, <2>3
    <2>5. it[s] = f[x] + it[t]
      BY <1>2, <2>2 DEF Term, Solves
    <2> QED BY <2>3, <2>4, <2>5
  <1>7. N = Nat
    <2>1. N \in SUBSET Nat
      OBVIOUS
    <2> HIDE DEF N
    <2> QED BY <1>5, <1>6, <2>1, Induction
  <1>8. S \in SUBSET S /\ Cardinality(S) \in Nat /\ Cardinality(S) <= Cardinality(S)
    BY <1>3
  <1> QED
    BY <1>2, <1>7, <1>8 DEF Solves
-----------------------------------------------------------------------------
(* Buckets.                                                                *)

\* Slot a is counted in the bucket of boundary b.
Counted(a, b) == \E i \in Slots : slotCeiling(i) <= b /\ a <= i

LEMMA CeilingIs == ASSUME NEW i PROVE slotCeiling(i) = Power(i)
BY Zenon DEF slotCeiling, Power

\* A bucket is the sum of the slots it counts.
LEMMA BucketIs ==
    ASSUME NEW b \in Nat
    PROVE  \E C \in SUBSET Slots :
              /\ IsFiniteSet(C) /\ \A a \in Slots : a \in C <=> Counted(a, b)
              /\ \A slots : BucketOf(slots, b) = IF C = {} THEN 0 ELSE SumFunctionOnSet(slots, C)
  <1> DEFINE below == {i \in Slots : slotCeiling(i) <= b}
             top == Max(below)
  <1>1. Slots = 0..Last /\ Last \in Nat
    <2>1. \A n \in 0..31 : n \in Nat
      OBVIOUS
    <2> QED BY <2>1, LastFacts, Zenon
  <1>2. CASE below = {}
    <2>1. \A a \in Slots : ~Counted(a, b)
      BY <1>2 DEF Counted
    <2>2. \A slots : BucketOf(slots, b) = 0
      BY <1>2, Zenon DEF BucketOf
    <2> WITNESS {} \in SUBSET Slots
    <2> QED BY <2>1, <2>2, FS_EmptySet
  <1>3. CASE below # {}
    <2>1. top \in below /\ \A x \in below : x <= top
      <3>1. below \in SUBSET (0..Last)
        BY <1>1
      <3> HIDE DEF below
      <3> QED BY <1>1, <1>3, <3>1, MaxFacts, Zenon
    <2>2. \A slots : BucketOf(slots, b) = SumFunctionOnSet(slots, 0..top)
      BY <1>3, Zenon DEF BucketOf, runningTotal
    <2>3. top \in 0..Last /\ slotCeiling(top) <= b
      BY <1>1, <2>1
    <2>4. \A a \in Slots : a \in 0..top <=> Counted(a, b)
      <3> TAKE a \in Slots
      <3>1. ASSUME a \in 0..top PROVE Counted(a, b)
        BY <1>1, <2>3, <3>1 DEF Counted
      <3>2. ASSUME Counted(a, b) PROVE a \in 0..top
        <4>1. PICK i \in Slots : slotCeiling(i) <= b /\ a <= i
          BY <3>2 DEF Counted
        <4>2. i <= top
          BY <2>1, <4>1
        <4> QED BY <1>1, <2>3, <4>1, <4>2
      <3> QED BY <3>1, <3>2
    <2> HIDE DEF top
    <2>5. 0..top \in SUBSET (0..Last) /\ 0 \in 0..top
      BY <1>1, <2>3
    <2>6. IsFiniteSet(0..top)
      BY <2>3, FS_Interval
    <2> DEFINE C == 0..top
    <2>7. C \in SUBSET Slots /\ C # {}
      BY <1>1, <2>5
    <2> HIDE DEF C
    <2>8. IsFiniteSet(C) /\ \A a \in Slots : a \in C <=> Counted(a, b)
      BY <2>4, <2>6 DEF C
    <2>9. \A slots : BucketOf(slots, b) = IF C = {} THEN 0 ELSE SumFunctionOnSet(slots, C)
      BY <2>2, <2>7 DEF C
    <2> QED BY <2>7, <2>8, <2>9
  <1> QED
    BY <1>2, <1>3

LEMMA BucketRaised ==
    ASSUME NEW b \in Nat, NEW f, NEW g, NEW a \in Slots, Raised(f, g, a, Slots)
    PROVE  /\ BucketOf(f, b) \in Nat
           /\ BucketOf(g, b) = BucketOf(f, b) + (IF Counted(a, b) THEN 1 ELSE 0)
  <1>1. PICK C \in SUBSET Slots :
              /\ IsFiniteSet(C) /\ \A i \in Slots : i \in C <=> Counted(i, b)
              /\ \A slots : BucketOf(slots, b) = IF C = {} THEN 0 ELSE SumFunctionOnSet(slots, C)
    BY BucketIs
  <1>2. Raised(f, g, a, C)
    BY DEF Raised
  <1>3. /\ SumFunctionOnSet(f, C) \in Nat
        /\ SumFunctionOnSet(g, C) = SumFunctionOnSet(f, C) + (IF a \in C THEN 1 ELSE 0)
    BY <1>1, <1>2, SumRaised
  <1>4. a \in C <=> Counted(a, b)
    BY <1>1
  <1>5. /\ BucketOf(f, b) = IF C = {} THEN 0 ELSE SumFunctionOnSet(f, C)
        /\ BucketOf(g, b) = IF C = {} THEN 0 ELSE SumFunctionOnSet(g, C)
    BY <1>1
  <1> QED
    BY <1>3, <1>4, <1>5

LEMMA BucketZero ==
    ASSUME NEW b \in Nat
    PROVE  BucketOf(zero_hist, b) = 0
  <1>1. PICK C \in SUBSET Slots :
              /\ IsFiniteSet(C) /\ \A i \in Slots : i \in C <=> Counted(i, b)
              /\ \A slots : BucketOf(slots, b) = IF C = {} THEN 0 ELSE SumFunctionOnSet(slots, C)
    BY BucketIs
  <1>2. \A i \in C : zero_hist[i] = 0
    BY DEF zero_hist
  <1>3. SumFunctionOnSet(zero_hist, C) = 0
    BY <1>1, <1>2, SumZero
  <1> QED
    BY <1>1, <1>3

\* histogram.go 36-49: a request that took no longer than the boundary is counted.
LEMMA WithinIsCounted ==
    ASSUME NEW b \in Nat, NEW l \in Nat, Micros(l) <= b
    PROVE  Counted(SlotOf(l), b)
  <1>1. SlotOf(l) \in Slots /\ Power(SlotOf(l)) <= Micros(l) /\ Micros(l) \in Nat
    BY SlotIs, MicrosFacts
  <1>2. SlotOf(l) \in 0..31
    <2>1. Last \in 0..31 /\ SlotOf(l) \in 0..Last
      BY <1>1, LastFacts, Zenon
    <2> QED BY <2>1
  <1>3. Power(SlotOf(l)) \in Nat
    BY <1>2, Doubling
  <1>4. slotCeiling(SlotOf(l)) <= b
    BY <1>1, <1>3, CeilingIs
  <1> QED
    BY <1>1, <1>2, <1>4 DEF Counted

\* A request that took twice the boundary or more is not.
LEMMA CountedIsBelow ==
    ASSUME NEW b \in Nat, NEW l \in Nat, b < slotCeiling(Last), Counted(SlotOf(l), b)
    PROVE  Micros(l) < 2 * b
  <1> DEFINE s == SlotOf(l)
  <1>1. PICK i \in Slots : slotCeiling(i) <= b /\ s <= i
    BY DEF Counted
  <1>2. s \in Slots /\ (s = Last \/ Micros(l) < Power(s + 1))
    BY SlotIs
  <1> HIDE DEF s
  <1>3. Last \in 0..31 /\ i \in 0..Last /\ s \in 0..Last
    BY <1>1, <1>2, LastFacts, Zenon
  <1>4. Power(i) <= b /\ b < Power(Last)
    BY <1>1, CeilingIs
  <1>5. i # Last
    <2>1. Power(Last) \in Nat
      BY <1>3, Doubling
    <2> QED BY <1>4, <2>1
  <1>6. i \in 0..31 /\ s + 1 \in 0..32 /\ i + 1 \in 0..32 /\ s + 1 <= i + 1 /\ s # Last
    BY <1>1, <1>3, <1>5
  <1>7. Power(s + 1) <= Power(i + 1) /\ Power(i + 1) = 2 * Power(i) /\ Power(i) \in Nat
        /\ Power(s + 1) \in Nat
    BY <1>6, PowerLe, Doubling, PowerType, Zenon
  <1> QED
    BY <1>2, <1>4, <1>6, <1>7, MicrosFacts
-----------------------------------------------------------------------------
(* What the histograms hold.                                               *)

USE ProgramsAssumption

InSlot(i) == {l \in Latencies : Belongs(l, i)}
UpToBound(b) == {l \in Latencies : Micros(l) <= b}
BelowTwice(b) == {l \in Latencies : Micros(l) < 2 * b}

\* A histogram h holds the latencies that were counted n times each: SlotsExact and
\* BucketsBracket for one key.
Holds(h, n) ==
    /\ \A i \in Slots : h[i] = SumFunctionOnSet(n, InSlot(i))
    /\ \A b \in Boundaries :
           /\ slotCeiling(0) <= b => SumFunctionOnSet(n, UpToBound(b)) <= BucketOf(h, b)
           /\ b < slotCeiling(Last) => BucketOf(h, b) <= SumFunctionOnSet(n, BelowTwice(b))

\* The inductive invariant of the histograms.  While none was evicted or replaced, a
\* probe that is about to add holds the element that its key has.
HistogramInv ==
    "hists" \notin lost =>
        /\ \A c \in Cpus : cpu[c].at = "add" => cpu[c].ptr = hists.at[cpu[c].key]
        /\ \A k \in HistKeys : Holds(Histogram(k), measured[k])

LEMMA LatenciesFinite == Latencies \subseteq Nat /\ IsFiniteSet(Latencies)
  <1> DEFINE P == Times \X Times
             D == {p[1] - p[2] : p \in P}
             d == [p \in P |-> p[1] - p[2]]
  <1>1. IsFiniteSet(P)
    BY FS_Product
  <1>2. d \in Surjection(P, D)
    BY Zenon DEF Surjection
  <1>3. IsFiniteSet(D)
    BY <1>1, <1>2, FS_Surjection, Zenon
  <1>4. Latencies \subseteq D
    <2>1. ASSUME NEW l \in Latencies PROVE l \in D
      <3>1. PICK t \in Times, u \in Times : l = t - u
        BY DEF Latencies
      <3>2. <<t, u>> \in P /\ l = <<t, u>>[1] - <<t, u>>[2]
        BY <3>1
      <3> QED
        BY <3>2, Zenon
    <2> QED
      BY <2>1
  <1>5. Latencies \subseteq Nat
    BY DEF Latencies
  <1> QED
    BY <1>3, <1>4, <1>5, FS_Subset, Zenon

LEMMA SetsFinite ==
    /\ \A i : IsFiniteSet(InSlot(i)) /\ InSlot(i) \subseteq Latencies
    /\ \A b : IsFiniteSet(UpToBound(b)) /\ UpToBound(b) \subseteq Latencies
    /\ \A b : IsFiniteSet(BelowTwice(b)) /\ BelowTwice(b) \subseteq Latencies
  <1>1. \A S : S \subseteq Latencies => IsFiniteSet(S)
    BY LatenciesFinite, FS_Subset, Zenon
  <1> QED
    BY <1>1, Zenon DEF InSlot, UpToBound, BelowTwice

LEMMA BoundaryNat == \A b \in Boundaries : b \in Nat
  BY HistogramAssumption

LEMMA NothingHeld ==
    ASSUME NEW n, \A l \in Latencies : n[l] = 0
    PROVE  Holds(zero_hist, n)
  <1>1. ASSUME NEW S, S \subseteq Latencies PROVE SumFunctionOnSet(n, S) = 0
    <2>1. IsFiniteSet(S) /\ \A x \in S : n[x] = 0
      BY <1>1, LatenciesFinite, FS_Subset, Zenon
    <2> QED
      BY <2>1, SumZero
  <1>2. \A i \in Slots : zero_hist[i] = SumFunctionOnSet(n, InSlot(i))
    BY <1>1, SetsFinite DEF zero_hist
  <1>3. ASSUME NEW b \in Boundaries
        PROVE  /\ SumFunctionOnSet(n, UpToBound(b)) <= BucketOf(zero_hist, b)
               /\ BucketOf(zero_hist, b) <= SumFunctionOnSet(n, BelowTwice(b))
    <2>1. BucketOf(zero_hist, b) = 0
      BY BoundaryNat, BucketZero
    <2>2. SumFunctionOnSet(n, UpToBound(b)) = 0 /\ SumFunctionOnSet(n, BelowTwice(b)) = 0
      BY <1>1, SetsFinite, Zenon
    <2> QED
      BY <2>1, <2>2
  <1> QED
    BY <1>2, <1>3 DEF Holds

\* One more latency l in its slot.
LEMMA OneMoreHeld ==
    ASSUME NEW h, NEW g, NEW n, NEW m, NEW l \in Latencies, Holds(h, n),
           Raised(h, g, SlotOf(l), Slots), Raised(n, m, l, Latencies)
    PROVE  Holds(g, m)
  <1>0. l \in Nat /\ SlotOf(l) \in Slots
    BY LatenciesFinite, SlotIs, Zenon
  <1>1. ASSUME NEW S, S \subseteq Latencies
        PROVE  /\ SumFunctionOnSet(n, S) \in Nat
               /\ SumFunctionOnSet(m, S) = SumFunctionOnSet(n, S) + (IF l \in S THEN 1 ELSE 0)
    <2>1. IsFiniteSet(S)
      BY <1>1, LatenciesFinite, FS_Subset, Zenon
    <2>2. Raised(n, m, l, S)
      BY <1>1, Zenon DEF Raised
    <2> QED
      BY <2>1, <2>2, SumRaised
  <1>2. ASSUME NEW i \in Slots PROVE g[i] = SumFunctionOnSet(m, InSlot(i))
    <2>1. l \in InSlot(i) <=> i = SlotOf(l)
      BY <1>0, SlotBelongs DEF InSlot
    <2>2. h[i] = SumFunctionOnSet(n, InSlot(i)) /\ InSlot(i) \subseteq Latencies
      BY SetsFinite, Zenon DEF Holds
    <2>3. g[i] = IF i = SlotOf(l) THEN h[i] + 1 ELSE h[i]
      BY Zenon DEF Raised
    <2>4. /\ SumFunctionOnSet(n, InSlot(i)) \in Nat
          /\ SumFunctionOnSet(m, InSlot(i)) =
                SumFunctionOnSet(n, InSlot(i)) + (IF l \in InSlot(i) THEN 1 ELSE 0)
      BY <1>1, <2>2, Zenon
    <2> QED
      BY <2>1, <2>2, <2>3, <2>4
  <1>3. ASSUME NEW b \in Boundaries
        PROVE  /\ slotCeiling(0) <= b => SumFunctionOnSet(m, UpToBound(b)) <= BucketOf(g, b)
               /\ b < slotCeiling(Last) => BucketOf(g, b) <= SumFunctionOnSet(m, BelowTwice(b))
    <2> DEFINE U == UpToBound(b)
               B == BelowTwice(b)
    <2>0. b \in Nat
      BY BoundaryNat
    <2>1. /\ BucketOf(h, b) \in Nat
          /\ BucketOf(g, b) = BucketOf(h, b) + (IF Counted(SlotOf(l), b) THEN 1 ELSE 0)
      BY <1>0, <2>0, BucketRaised
    <2>2. /\ SumFunctionOnSet(n, U) \in Nat /\ SumFunctionOnSet(n, B) \in Nat
          /\ SumFunctionOnSet(m, U) = SumFunctionOnSet(n, U) + (IF l \in U THEN 1 ELSE 0)
          /\ SumFunctionOnSet(m, B) = SumFunctionOnSet(n, B) + (IF l \in B THEN 1 ELSE 0)
      BY <1>1, SetsFinite, Zenon
    <2>3. /\ slotCeiling(0) <= b => SumFunctionOnSet(n, U) <= BucketOf(h, b)
          /\ b < slotCeiling(Last) => BucketOf(h, b) <= SumFunctionOnSet(n, B)
      BY Zenon DEF Holds
    <2>4. l \in U => Counted(SlotOf(l), b)
      BY <1>0, <2>0, WithinIsCounted, Zenon DEF UpToBound
    <2>5. b < slotCeiling(Last) /\ Counted(SlotOf(l), b) => l \in B
      BY <1>0, <2>0, CountedIsBelow, Zenon DEF BelowTwice
    <2> HIDE DEF U, B
    <2>6. ASSUME slotCeiling(0) <= b PROVE SumFunctionOnSet(m, U) <= BucketOf(g, b)
      BY <2>1, <2>2, <2>3, <2>4, <2>6, SMTT(30)
    <2>7. ASSUME b < slotCeiling(Last) PROVE BucketOf(g, b) <= SumFunctionOnSet(m, B)
      BY <2>1, <2>2, <2>3, <2>5, <2>7, SMTT(30)
    <2> QED
      BY <2>6, <2>7, Zenon DEF U, B
  <1> QED
    BY <1>2, <1>3, Zenon DEF Holds

LEMMA InitHistogramInv == Init => HistogramInv
  <1> SUFFICES ASSUME Init PROVE HistogramInv
    OBVIOUS
  <1>1. \A c \in Cpus : cpu[c].at # "add"
    BY DEF Init, Idle
  <1>2. ASSUME NEW k \in HistKeys PROVE Holds(Histogram(k), measured[k])
    <2>1. Histogram(k) = zero_hist
      BY DEF Init, EmptyMap, Histogram
    <2>2. \A l \in Latencies : measured[k][l] = 0
      BY DEF Init
    <2> QED
      BY <2>1, <2>2, NothingHeld, Zenon
  <1> QED
    BY <1>1, <1>2 DEF HistogramInv

\* A step that leaves the histograms alone.
LEMMA HistogramsKept ==
    ASSUME HistogramInv, UNCHANGED <<prog, hists, measured>>,
           "hists" \in lost => "hists" \in lost',
           \A c \in Cpus : cpu'[c].at = "add" =>
               cpu'[c] = cpu[c] \/ cpu'[c].ptr = hists.at[cpu'[c].key]
    PROVE  HistogramInv'
  <1>1. HistKeys' = HistKeys
    BY SameProg
  <1>2. \A k : Histogram(k)' = Histogram(k)
    BY DEF Histogram
  <1>3. ASSUME "hists" \notin lost, NEW c \in Cpus, cpu'[c].at = "add"
        PROVE  cpu'[c].ptr = hists'.at[cpu'[c].key]
    BY <1>3, Zenon DEF HistogramInv
  <1>4. ASSUME "hists" \notin lost, NEW k \in HistKeys PROVE Holds(Histogram(k), measured[k])'
    BY <1>2, <1>4, ZenonT(30) DEF HistogramInv, Holds
  <1> QED
    BY <1>1, <1>3, <1>4, Zenon DEF HistogramInv

\* A step of CPU c on which it does not come to add.
LEMMA OtherCpusKeep ==
    ASSUME TypeOK, NEW c \in Cpus, NEW p, p.at # "add", cpu' = [cpu EXCEPT ![c] = p]
    PROVE  \A d \in Cpus : cpu'[d].at = "add" => cpu'[d] = cpu[d]
  BY Zenon DEF TypeOK

LEMMA AddHolds ==
    ASSUME IInv, HistogramInv, NEW c \in Cpus, Add(c) PROVE HistogramInv'
  <1> DEFINE e == cpu[c].ptr
             k == cpu[c].key
             l == cpu[c].lat
             s == SlotOf(l)
  <1>1. /\ UNCHANGED <<prog, lost>>
        /\ cpu[c].at = "add" /\ cpu' = [cpu EXCEPT ![c] = Idle]
        /\ hists' = [hists EXCEPT !.val[e][s] = @ + 1]
        /\ measured' = [measured EXCEPT ![k][l] = @ + 1]
    BY Zenon DEF Add, Finish
  <1>2. TypeOK /\ e \in HistElems /\ k \in HistKeys /\ l \in Latencies /\ Linked(hists)
    BY <1>1, PointerFacts, Zenon DEF IInv, LocalInv, Local, Counting, TypeOK, Probes, HistsInv
  <1>3. HistKeys' = HistKeys
    BY <1>1, SameProg, Zenon
  <1>4. /\ hists.val \in [HistElems -> [Slots -> Nat]] /\ hists.at \in [HistKeys -> HistElems \cup {Nil}]
        /\ measured \in [HistKeys -> [Latencies -> Nat]]
    BY <1>2, Zenon DEF TypeOK
  <1>5. s \in Slots
    BY <1>2, LatenciesFinite, SlotIs, Zenon
  <1> HIDE DEF e, k, l, s
  <1>6. /\ hists'.at = hists.at
        /\ \A x \in HistElems : x # e => hists'.val[x] = hists.val[x]
        /\ hists'.val[e] = [hists.val[e] EXCEPT ![s] = hists.val[e][s] + 1]
    BY <1>1, <1>2, <1>4 DEF TypeOK
  <1>7. /\ \A j \in HistKeys : j # k => measured'[j] = measured[j]
        /\ measured'[k] = [measured[k] EXCEPT ![l] = measured[k][l] + 1]
    BY <1>1, <1>2, <1>4
  <1>8. SUFFICES ASSUME "hists" \notin lost PROVE HistogramInv'
    BY <1>1 DEF HistogramInv
  <1>9. hists.at[k] = e
    BY <1>1, <1>8, ZenonT(30) DEF HistogramInv, e, k
  <1>10. ASSUME NEW d \in Cpus, cpu'[d].at = "add" PROVE cpu'[d].ptr = hists'.at[cpu'[d].key]
    <2>1. cpu'[d] = cpu[d]
      BY <1>1, <1>2, <1>10, OtherCpusKeep, IdleFacts, Zenon
    <2> QED
      BY <1>6, <1>8, <1>10, <2>1 DEF HistogramInv
  <1>11. Nil \notin HistElems
    BY SMTT(30)
  <1>12. ASSUME NEW j \in HistKeys, j # k PROVE Holds(Histogram(j)', measured'[j])
    <2>1. hists.at[j] # Nil => hists.at[j] \in HistElems /\ hists.at[j] # e
      BY <1>2, <1>4, <1>9, <1>12 DEF Linked
    <2>2. Histogram(j)' = Histogram(j)
      BY <1>6, <2>1, Zenon DEF Histogram
    <2>3. Holds(Histogram(j), measured[j])
      BY <1>8, Zenon DEF HistogramInv
    <2> QED
      BY <1>7, <1>12, <2>2, <2>3, Zenon
  <1>13. ASSUME NEW j \in HistKeys, j = k PROVE Holds(Histogram(j)', measured'[j])
    <2>1. Histogram(j) = hists.val[e] /\ Histogram(j)' = hists'.val[e]
      BY <1>2, <1>6, <1>9, <1>11, <1>13, ZenonT(30) DEF Histogram
    <2>2. Holds(hists.val[e], measured[j])
      BY <1>8, <2>1, Zenon DEF HistogramInv
    <2>3. hists.val[e] \in [Slots -> Nat] /\ measured[j] \in [Latencies -> Nat]
      BY <1>2, <1>4, Zenon
    <2>4. Raised(hists.val[e], hists'.val[e], s, Slots)
      BY <1>6, <2>3 DEF Raised
    <2>5. Raised(measured[j], measured'[j], l, Latencies)
      BY <1>7, <1>13, <2>3 DEF Raised
    <2> QED
      BY <1>2, <2>1, <2>2, <2>4, <2>5, OneMoreHeld, Zenon DEF s
  <1>14. \A j \in HistKeys : Holds(Histogram(j)', measured'[j])
    BY <1>12, <1>13, Zenon
  <1> QED
    BY <1>3, <1>10, <1>14, Zenon DEF HistogramInv, Holds

LEMMA CreateHistHolds ==
    ASSUME IInv, HistogramInv, NEW c \in Cpus, CreateHist(c) PROVE HistogramInv'
  <1> DEFINE k == cpu[c].key
             p == [cpu[c] EXCEPT !.at = "again"]
  <1>1. /\ UNCHANGED <<prog, measured>>
        /\ cpu[c].at = "create" /\ cpu' = [cpu EXCEPT ![c] = p]
    BY DEF CreateHist
  <1>2. PICK u \in Updates(hists, k, zero_hist) :
            /\ hists' = u.map
            /\ lost' = IF u.evicted = {} /\ Lookup(hists, k) = Nil THEN lost ELSE lost \cup {"hists"}
    BY DEF CreateHist
  <1>3. TypeOK /\ k \in HistKeys /\ cpu[c] \in Probes
    BY <1>1 DEF IInv, LocalInv, Local, Counting, TypeOK
  <1>4. p.at # "add"
    BY <1>3 DEF Probes
  <1> HIDE DEF p
  <1>5. HistKeys' = HistKeys
    BY <1>1, SameProg, Zenon
  <1>6. SUFFICES ASSUME "hists" \notin lost' PROVE HistogramInv'
    BY Zenon DEF HistogramInv
  <1>7. "hists" \notin lost /\ u.evicted = {} /\ hists.at[k] = Nil
    BY <1>2, <1>6 DEF Lookup
  <1>8. /\ hists'.val[hists'.at[k]] = zero_hist
        /\ \A i \in HistKeys \ {k} : /\ hists'.at[i] = hists.at[i]
                                     /\ hists.at[i] # Nil =>
                                           hists'.val[hists.at[i]] = hists.val[hists.at[i]]
    <2> DEFINE V == [Slots -> Nat]
               z == zero_hist
    <2>1. /\ Nil \notin HistElems /\ hists \in Maps(HistKeys, HistElems, V) /\ Linked(hists)
          /\ k \in HistKeys /\ z \in V /\ u \in Updates(hists, k, z)
      BY <1>2, <1>3, Zenon DEF IInv, TypeOK, HistsInv, Maps, zero_hist
    <2> HIDE DEF k, V, z
    <2>2. /\ u.map.val[u.map.at[k]] = z
          /\ \A i \in HistKeys \ ({k} \cup u.evicted) :
                /\ u.map.at[i] = hists.at[i]
                /\ hists.at[i] # Nil => u.map.val[hists.at[i]] = hists.val[hists.at[i]]
      BY ONLY <2>1, UpdateFacts, SMTT(30)
    <2> QED
      BY ONLY <1>2, <1>7, <2>2, ZenonT(30) DEF z
  <1>9. ASSUME NEW d \in Cpus, cpu'[d].at = "add" PROVE cpu'[d].ptr = hists'.at[cpu'[d].key]
    <2>1. cpu'[d] = cpu[d]
      BY <1>1, <1>3, <1>4, <1>9, OtherCpusKeep, Zenon
    <2>2. cpu[d].ptr = hists.at[cpu[d].key]
      BY <1>7, <1>9, <2>1, Zenon DEF HistogramInv
    <2>3. cpu[d].ptr \in HistElems /\ cpu[d].key \in HistKeys
      BY <1>9, <2>1, PointerFacts, Zenon DEF IInv, LocalInv, Local, Counting
    <2>4. cpu[d].key # k
      BY <1>7, <2>2, <2>3, Zenon
    <2> QED
      BY <1>8, <2>1, <2>2, <2>3, <2>4, Zenon
  <1>10. ASSUME NEW j \in HistKeys PROVE Holds(Histogram(j)', measured'[j])
    <2>1. Histogram(j)' = Histogram(j)
      BY <1>7, <1>8, ZenonT(30) DEF Histogram
    <2>2. Holds(Histogram(j), measured[j])
      BY <1>7, Zenon DEF HistogramInv
    <2> QED
      BY <1>1, <2>1, <2>2
  <1> QED
    BY <1>5, <1>9, <1>10 DEF HistogramInv, Holds

LEMMA ProbeHolds ==
    ASSUME IInv, HistogramInv, NEW c \in Cpus, Probe(c) PROVE HistogramInv'
  <1>0. TypeOK /\ cpu[c] \in Probes
    BY Zenon DEF IInv, TypeOK
  <1>1. ASSUME NEW r \in Mine, ReadClock(c, r) \/ FindStart(c, r) PROVE HistogramInv'
    <2>1. UNCHANGED <<prog, hists, measured, lost>>
      BY <1>1 DEF ReadClock, FindStart
    <2>2. UNCHANGED cpu \/ \E p : p.at # "add" /\ cpu' = [cpu EXCEPT ![c] = p]
      BY <1>1, Zenon DEF ReadClock, FindStart, Idle
    <2> QED
      BY <1>0, <2>1, <2>2, OtherCpusKeep, HistogramsKept, Zenon
  <1>2. ASSUME PutStart(c) PROVE HistogramInv'
    <2>1. UNCHANGED <<prog, hists, measured>> /\ cpu' = [cpu EXCEPT ![c] = Idle]
      BY <1>2, Zenon DEF PutStart
    <2>2. "hists" \in lost => "hists" \in lost'
      BY <1>2 DEF PutStart
    <2> QED
      BY <1>0, <2>1, <2>2, IdleFacts, OtherCpusKeep, HistogramsKept, Zenon
  <1>3. ASSUME Measured(c) PROVE HistogramInv'
    <2>1. UNCHANGED <<prog, hists, measured, lost>>
      BY <1>3, MeasureFacts, Zenon
    <2>2. CASE Finish(c)
      BY <1>0, <2>1, <2>2, IdleFacts, OtherCpusKeep, HistogramsKept, Zenon DEF Finish
    <2>3. CASE ~Finish(c)
      <3> DEFINE lat == cpu[c].clock - starts.val[cpu[c].ptr].ts
      <3>1. PICK key \in HistKeys : cpu' = [cpu EXCEPT ![c] =
                [@ EXCEPT !.at = "hist", !.ptr = Nil, !.key = key, !.clock = 0, !.lat = lat]]
        BY <1>3, <2>3, MeasureFacts, Zenon
      <3> DEFINE p == [cpu[c] EXCEPT !.at = "hist", !.ptr = Nil, !.key = key, !.clock = 0,
                                     !.lat = lat]
      <3>2. p.at # "add" /\ cpu' = [cpu EXCEPT ![c] = p]
        BY <1>0, <3>1 DEF Probes
      <3> HIDE DEF p
      <3> QED
        BY <1>0, <2>1, <3>2, OtherCpusKeep, HistogramsKept
    <2> QED
      BY <2>2, <2>3, SMTT(30)
  <1>4. ASSUME FindHist(c) PROVE HistogramInv'
    <2>1. UNCHANGED <<prog, hists, measured, lost>>
      BY <1>4 DEF FindHist
    <2>2. cpu'[c].ptr = hists.at[cpu'[c].key] /\ \A d \in Cpus \ {c} : cpu'[d] = cpu[d]
      BY <1>0, <1>4 DEF FindHist, Lookup, TypeOK, Probes
    <2> QED
      BY <2>1, <2>2, HistogramsKept, Zenon
  <1>5. ASSUME FindCreated(c) PROVE HistogramInv'
    <2>1. UNCHANGED <<prog, hists, measured, lost>>
      BY <1>5, Zenon DEF FindCreated
    <2>2. CASE Finish(c)
      BY <1>0, <2>1, <2>2, IdleFacts, OtherCpusKeep, HistogramsKept DEF Finish
    <2>3. CASE ~Finish(c)
      <3> DEFINE e == hists.at[cpu[c].key]
                 p == [cpu[c] EXCEPT !.at = "add", !.ptr = e]
      <3>1. cpu' = [cpu EXCEPT ![c] = p]
        BY <1>5, <2>3, Zenon DEF FindCreated, Lookup
      <3>2. p.ptr = e /\ p.key = cpu[c].key
        BY <1>0, Zenon DEF Probes
      <3> HIDE DEF p
      <3>3. cpu'[c] = p /\ \A d \in Cpus \ {c} : cpu'[d] = cpu[d]
        BY <1>0, <3>1, Zenon DEF TypeOK
      <3> QED
        BY <2>1, <3>2, <3>3, HistogramsKept, Zenon
    <2> QED
      BY <2>2, <2>3, Zenon
  <1> QED
    BY <1>1, <1>2, <1>3, <1>4, <1>5, ProbeSteps, AddHolds, CreateHistHolds, ZenonT(30)

LEMMA NextHolds == IInv /\ HistogramInv /\ [Next]_vars => HistogramInv'
  <1> SUFFICES ASSUME IInv, HistogramInv, [Next]_vars PROVE HistogramInv'
    OBVIOUS
  <1>1. ASSUME NEW c \in Cpus, Probe(c) PROVE HistogramInv'
    BY <1>1, ProbeHolds, Zenon
  <1>2. ASSUME UNCHANGED <<prog, hists, measured, cpu, lost>> PROVE HistogramInv'
    BY <1>2, HistogramsKept
  <1> QED
    BY <1>1, <1>2, Zenon DEF Next, StartUnseen, EndUnseen, Retry, Attach, Tick, Quiet, vars

LEMMA HistogramInvariance == Spec => []HistogramInv
  BY InitHistogramInv, NextHolds, Invariance, PTL DEF Spec

LEMMA HistogramInvExact ==
    ASSUME HistogramInv, "hists" \notin lost, NEW k \in HistKeys, NEW i \in Slots
    PROVE  Histogram(k)[i] = Seen(k, LAMBDA l : Belongs(l, i))
  <1>1. Holds(Histogram(k), measured[k])
    BY DEF HistogramInv
  <1> QED
    BY <1>1, Zenon DEF Holds, Seen, InSlot

LEMMA SearchExact ==
    ASSUME NEW i \in 0..29, NEW us \in {2^i, 2^i + 2^i \div 2, 2^i + 2^i - 1}
    PROVE  log2l(us) = i
  <1> DEFINE p == Power(i)
  <1>1. us \in {p, p + p \div 2, p + p - 1}
    BY Zenon DEF Power
  <1>2. p \in Nat /\ 1 <= p /\ Power(i + 1) = p + p
    BY Doubling, PowerType
  <1> HIDE DEF p
  <1>3. us \in Nat /\ p <= us /\ us < p + p
    BY <1>1, <1>2
  <1>4. i + 1 <= 32 /\ i \in Nat
    OBVIOUS
  <1>5. Within(us, i, 1)
    BY <1>2, <1>3, <1>4, Zenon DEF Within, p
  <1>6. Power(i + 1) <= Power(32)
    BY PowerLe
  <1>7. us < Power(32)
    BY <1>2, <1>3, <1>6, PowerType, SMTT(30)
  <1>8. Within(us, log2l(us), 1)
    BY <1>2, <1>3, <1>7, Log2lRight
  <1> QED
    BY <1>3, <1>5, <1>8, WithinUnique
-----------------------------------------------------------------------------
\* While no histogram was evicted or replaced, every slot of every histogram holds
\* exactly the latencies that belong to it, on any number of CPUs
\* (block_latency.c:84-105, bits.bpf.h:5-26).
THEOREM SlotsAreExact == Spec => []SlotsExact
  <1>1. HistogramInv => SlotsExact
    BY HistogramInvExact, SearchExact, Zenon DEF SlotsExact
  <1> QED
    BY <1>1, HistogramInvariance, PTL

\* A bucket counts every request within its boundary and none that took twice as
\* long, for any boundaries (block_latency.c:84-105, histogram.go:36-49).
THEOREM BucketsAreBracketed == Spec => []BucketsBracket
  <1>1. HistogramInv => BucketsBracket
    <2> SUFFICES ASSUME HistogramInv, "hists" \notin lost, NEW k \in HistKeys, NEW b \in Boundaries
                 PROVE  /\ slotCeiling(0) <= b =>
                              SumFunctionOnSet(measured[k], UpToBound(b)) <= BucketOf(Histogram(k), b)
                        /\ b < slotCeiling(MaxSlots - 1) =>
                              BucketOf(Histogram(k), b) <= SumFunctionOnSet(measured[k], BelowTwice(b))
      BY Zenon DEF BucketsBracket, Seen, UpToBound, BelowTwice
    <2> QED
      BY Zenon DEF HistogramInv, Holds, Last
  <1> QED
    BY <1>1, HistogramInvariance, PTL
=============================================================================
