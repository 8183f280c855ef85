--------------------------- MODULE LatencyPrograms --------------------------
(***************************************************************************)
(* The three BPF programs that measure latencies: block_latency.c (prog =  *)
(* "block"), nfs_latency.c ("nfs") and nfs_kprobe_latency.c ("kprobe").    *)
(* They share one scheme and no state.  A probe at the start of a request  *)
(* puts the time into an LRU map; a probe at its end takes it out and      *)
(* counts the difference in a histogram of a second LRU map.  Probes run   *)
(* on several CPUs at once, and only a map operation or an atomic addition *)
(* is one step.                                                            *)
(*                                                                         *)
(* of[r] describes a request: prog, whose probes see it, dev, op (rwbs of  *)
(* a block request), pos (its sector, or the offset and count of its NFS   *)
(* arguments), rest (these arguments of a retry after a short reply, or    *)
(* Nil), process and thread.                                               *)
(***************************************************************************)
EXTENDS LatencyHistogram

CONSTANTS Programs,    \* the programs looked at
          Requests,
          of,          \* what each is
          Cpus,
          StartElems,  \* the preallocated elements of block_start, nfs_start, ...
          HistElems,   \* and of block_hists, nfs_hists, ...
          Times,       \* bound: readings of the clock, in nanoseconds
          Nil

ASSUME ProgramsAssumption ==
    /\ Programs \subseteq {"block", "nfs", "kprobe"}
    /\ Times \subseteq Nat /\ IsFiniteSet(Times) /\ 0 \in Times
    /\ Nil \notin StartElems \cup HistElems \cup Requests

VARIABLES
    prog,      \* the program whose probes these are
    attached,  \* "none", then "starts", then "both" kinds of its probes
    now,       \* bpf_ktime_get_ns()
    stage,     \* how far each request is
    retried,   \* requests under way again after a short reply
    starts,    \* the map of start times
    hists,     \* the map of histograms
    cpu,       \* the probe that runs on each CPU
    since,     \* history: the earliest start a request under way may be given
    measured,  \* history: the latencies counted under each key
    creators,  \* history: CPUs that created a histogram since it was last evicted
    lost       \* history: maps that have given away an element in use

vars == <<prog, attached, now, stage, retried, starts, hists, cpu,
          since, measured, creators, lost>>
-----------------------------------------------------------------------------
(* LRU hash maps of the kernel.  A key has an element of a fixed pool.  An *)
(* update writes a free element and links it to the key, in place of the   *)
(* one the key had.  With no free element it takes the one of some key.  A *)
(* program that looked an element up keeps its pointer, whatever happens   *)
(* to the key.                                                             *)

Lookup(m, k) == m.at[k]

Free(m) == DOMAIN m.val \ Range(m.at)

\* What an update may make of the map, and the keys that lose their element.
Updates(m, k, v) ==
    IF Free(m) # {}
    THEN {[map |-> [at |-> [m.at EXCEPT ![k] = e], val |-> [m.val EXCEPT ![e] = v]],
           evicted |-> {}] : e \in Free(m)}
    ELSE {[map |-> [at |-> [m.at EXCEPT ![j] = Nil, ![k] = m.at[j]],
                    val |-> [m.val EXCEPT ![m.at[j]] = v]],
           evicted |-> {j} \ {k}] : j \in {i \in DOMAIN m.at : m.at[i] # Nil}}

Delete(m, k) == [m EXCEPT !.at[k] = Nil]

EmptyMap(keys, elems, v) == [at |-> [k \in keys |-> Nil], val |-> [e \in elems |-> v]]
-----------------------------------------------------------------------------
(* Requests and keys.                                                      *)

RequestsOf == [p \in Programs |-> {r \in Requests : of[r].prog = p}]
Mine       == RequestsOf[prog]

Unknown == "unknown"

classify_op(rwbs) ==
    CASE rwbs = "R" -> "read" [] rwbs = "W" -> "write"
      [] rwbs = "D" -> "discard" [] rwbs = "F" -> "flush"
      [] OTHER -> Unknown

\* The key of a block request does not hold its operation.
req_key(r) == <<of[r].dev, of[r].pos>>

\* The arguments as they are when the probe runs.
nfs_fill_key(r) == <<of[r].dev, IF r \in retried THEN of[r].rest ELSE of[r].pos, of[r].op>>

\* Mutant: one start time for all threads of a process.
tgid(r) == <<of[r].process>>

pid_tgid(r) == <<of[r].process, of[r].thread>>

StartKey(r) == CASE prog = "block"  -> req_key(r)
                 [] prog = "nfs"    -> nfs_fill_key(r)
                 [] prog = "kprobe" -> pid_tgid(r)

HistKey(r) == <<of[r].dev, IF of[r].prog = "block" THEN classify_op(of[r].op)
                                                   ELSE of[r].op>>

\* All keys a request can have at its start or at its end.
KeysOf(r) == CASE of[r].prog = "block"  -> {req_key(r)}
               [] of[r].prog = "nfs"    -> {<<of[r].dev, of[r].pos, of[r].op>>,
                                            <<of[r].dev, of[r].rest, of[r].op>>}
               [] of[r].prog = "kprobe" -> {pid_tgid(r)}

StartKeysOf == [p \in Programs |-> UNION {KeysOf(r) : r \in RequestsOf[p]}]
HistKeysOf  == [p \in Programs |-> {HistKey(r) : r \in RequestsOf[p]}]
StartKeys   == StartKeysOf[prog]
HistKeys    == HistKeysOf[prog]
Latencies == {t - u : t, u \in Times} \cap Nat

Idle == [at |-> "idle", req |-> Nil, clock |-> 0, ptr |-> Nil, lat |-> 0, key |-> Nil]

Init ==
    /\ prog \in Programs
    /\ attached = "none"
    /\ now = 0
    /\ stage = [r \in Mine |-> "new"]
    /\ retried = {}
    /\ starts = EmptyMap(StartKeys, StartElems, Nil)
    /\ hists = EmptyMap(HistKeys, HistElems, zero_hist)
    /\ cpu = [c \in Cpus |-> Idle]
    /\ since = [r \in Mine |-> 0]
    /\ measured = [k \in HistKeys |-> [l \in Latencies |-> 0]]
    /\ creators = [k \in HistKeys |-> {}]
    /\ lost = {}
-----------------------------------------------------------------------------
(* The start of a request: read the clock, then put the time into the map. *)

Move(r, to) == stage' = [stage EXCEPT ![r] = to]

End(r) == /\ Move(r, "done")
          /\ since' = [since EXCEPT ![r] = 0]

\* The time is read before it is stored: a probe on another CPU that has read an
\* earlier time may store it later.
ReadClock(c, r) ==
    /\ attached # "none"
    /\ cpu[c].at = "idle"
    /\ stage[r] = "new"
    /\ cpu' = [cpu EXCEPT ![c] = [Idle EXCEPT !.at = "start", !.req = r, !.clock = now]]
    /\ Move(r, "starting")
    /\ since' = [since EXCEPT ![r] =
          Min({now} \cup {cpu[d].clock : d \in {d \in Cpus : cpu[d].at = "start"}})]
    /\ UNCHANGED <<prog, attached, now, retried, starts, hists, measured, creators, lost>>

tracepoint__block__block_rq_issue(c, r) ==
    prog = "block" /\ classify_op(of[r].op) # Unknown /\ ReadClock(c, r)

raw_tp_nfs_initiate(c, r) == prog = "nfs" /\ ReadClock(c, r)

\* A thread is in one traced function at a time.
ThreadFree(r) ==
    \A q \in Mine \ {r} :
        of[q].process = of[r].process /\ of[q].thread = of[r].thread =>
            stage[q] \in {"new", "done"}

record_start(c, r) == prog = "kprobe" /\ ThreadFree(r) /\ ReadClock(c, r)

\* A function whose return probe is not attached yet, or has no instance left, is
\* "bare": its return is not seen.
PutStart(c) ==
    LET r == cpu[c].req
    IN /\ cpu[c].at = "start"
       /\ \E u \in Updates(starts, StartKey(r), [ts |-> cpu[c].clock, req |-> r]) :
             /\ starts' = u.map
             /\ lost' = IF u.evicted = {} THEN lost ELSE lost \cup {"starts"}
       /\ cpu' = [cpu EXCEPT ![c] = Idle]
       /\ \/ /\ prog = "kprobe" => attached = "both"
             /\ Move(r, "flying")
          \/ /\ prog = "kprobe"
             /\ Move(r, "bare")
       /\ UNCHANGED <<prog, attached, now, retried, hists, since, measured, creators>>
-----------------------------------------------------------------------------
(* Its end: find the start, measure, count.                                *)

Finish(c) == /\ cpu' = [cpu EXCEPT ![c] = Idle]
             /\ End(cpu[c].req)

\* The clock is read between the lookup of the start time and its use.
FindStart(c, r) ==
    LET e == Lookup(starts, StartKey(r))
    IN /\ attached = "both"
       /\ cpu[c].at = "idle"
       /\ stage[r] = "flying"
       /\ \/ /\ e = Nil
             /\ End(r)
             /\ UNCHANGED cpu
          \/ /\ e # Nil
             /\ cpu' = [cpu EXCEPT ![c] =
                   [Idle EXCEPT !.at = "found", !.req = r, !.clock = now, !.ptr = e]]
             /\ Move(r, "ending")
             /\ UNCHANGED since
       /\ UNCHANGED <<prog, attached, now, retried, starts, hists, measured, creators, lost>>

\* Mutant: a negative difference is counted, as the huge number it is unsigned.
MeasureUnsigned(c, keep, key) ==
    LET delta == cpu[c].clock - starts.val[cpu[c].ptr].ts
    IN /\ cpu[c].at = "found"
       /\ starts' = Delete(starts, StartKey(cpu[c].req))
       /\ \/ ~keep /\ Finish(c)
          \/ /\ keep
             /\ cpu' = [cpu EXCEPT ![c] =
                   [@ EXCEPT !.at = "hist", !.ptr = Nil, !.key = key, !.clock = 0,
                             !.lat = IF delta < 0 THEN Max(Latencies) ELSE delta]]
             /\ UNCHANGED <<stage, since>>
       /\ UNCHANGED <<prog, attached, now, retried, hists, measured, creators, lost>>

\* The difference, from what the pointer shows now, and the removal of the start.
Measure(c, keep, key) ==
    LET delta == cpu[c].clock - starts.val[cpu[c].ptr].ts
    IN /\ cpu[c].at = "found"
       /\ starts' = Delete(starts, StartKey(cpu[c].req))
       /\ \/ (delta < 0 \/ ~keep) /\ Finish(c)
          \/ /\ delta >= 0 /\ keep
             /\ cpu' = [cpu EXCEPT ![c] =
                   [@ EXCEPT !.at = "hist", !.ptr = Nil, !.key = key, !.clock = 0, !.lat = delta]]
             /\ UNCHANGED <<stage, since>>
       /\ UNCHANGED <<prog, attached, now, retried, hists, measured, creators, lost>>

\* Mutant: a histogram is created for every latency.
FindHistNever(c) ==
    /\ cpu[c].at = "hist"
    /\ cpu' = [cpu EXCEPT ![c] = [@ EXCEPT !.at = "create"]]
    /\ UNCHANGED <<prog, attached, now, stage, retried, starts, hists, since, measured,
                   creators, lost>>

FindHist(c) ==
    LET e == Lookup(hists, cpu[c].key)
    IN /\ cpu[c].at = "hist"
       /\ cpu' = [cpu EXCEPT ![c] =
             [@ EXCEPT !.at = IF e = Nil THEN "create" ELSE "add", !.ptr = e]]
       /\ UNCHANGED <<prog, attached, now, stage, retried, starts, hists, since, measured,
                      creators, lost>>

\* BPF_ANY: another CPU may have created the histogram in the meantime, and this one
\* takes its place.
CreateHist(c) ==
    LET k == cpu[c].key
    IN /\ cpu[c].at = "create"
       /\ \E u \in Updates(hists, k, zero_hist) :
             /\ hists' = u.map
             /\ lost' = IF u.evicted = {} /\ Lookup(hists, k) = Nil
                        THEN lost ELSE lost \cup {"hists"}
             /\ creators' = [j \in HistKeys |-> IF j \in u.evicted THEN {}
                                                ELSE IF j = k THEN creators[j] \cup {c}
                                                ELSE creators[j]]
       /\ cpu' = [cpu EXCEPT ![c] = [@ EXCEPT !.at = "again"]]
       /\ UNCHANGED <<prog, attached, now, stage, retried, starts, since, measured>>

\* Mutant: the second lookup is not checked.
FindCreatedUnchecked(c) ==
    /\ cpu[c].at = "again"
    /\ cpu' = [cpu EXCEPT ![c] = [@ EXCEPT !.at = "add", !.ptr = Lookup(hists, cpu[c].key)]]
    /\ UNCHANGED <<prog, attached, now, stage, retried, starts, hists, since, measured,
                   creators, lost>>

\* The histogram may have been evicted again.
FindCreated(c) ==
    LET e == Lookup(hists, cpu[c].key)
    IN /\ cpu[c].at = "again"
       /\ \/ /\ e = Nil
             /\ Finish(c)
          \/ /\ e # Nil
             /\ cpu' = [cpu EXCEPT ![c] = [@ EXCEPT !.at = "add", !.ptr = e]]
             /\ UNCHANGED <<stage, since>>
       /\ UNCHANGED <<prog, attached, now, retried, starts, hists, measured, creators,
                      lost>>

\* An atomic addition where the pointer points.
Add(c) ==
    /\ cpu[c].at = "add"
    /\ hists' = [hists EXCEPT !.val[cpu[c].ptr][SlotOf(cpu[c].lat)] = @ + 1]
    /\ measured' = [measured EXCEPT ![cpu[c].key][cpu[c].lat] = @ + 1]
    /\ Finish(c)
    /\ UNCHANGED <<prog, attached, now, retried, starts, creators, lost>>

Count(c) == FindHist(c) \/ CreateHist(c) \/ FindCreated(c) \/ Add(c)

tracepoint__block__block_rq_complete(c) ==
    LET r == cpu[c].req
    IN /\ prog = "block"
       /\ \/ \E q \in Mine : FindStart(c, q)
          \/ cpu[c].at = "found" /\ Measure(c, classify_op(of[r].op) # Unknown, HistKey(r))
          \/ Count(c)

nfs_record_latency(c) ==
    /\ prog = "nfs"
    /\ \/ cpu[c].at = "found" /\ Measure(c, TRUE, HistKey(cpu[c].req))
       \/ Count(c)

raw_tp_nfs_done(c) ==
    \/ prog = "nfs" /\ \E r \in Mine : FindStart(c, r)
    \/ nfs_record_latency(c)

\* Device and operation are those of the start.
kretprobe_nfs_vfs(c) ==
    /\ prog = "kprobe"
    /\ \/ \E r \in Mine : FindStart(c, r)
       \/ cpu[c].at = "found" /\ Measure(c, TRUE, HistKey(starts.val[cpu[c].ptr].req))
       \/ Count(c)
-----------------------------------------------------------------------------
(* The kernel and the loader.                                              *)

\* loadBlock, loadNFS, loadNFSKprobe: every start probe before any end probe.
Attach ==
    /\ \/ attached = "none" /\ attached' = "starts"
       \/ attached = "starts" /\ attached' = "both"
    /\ UNCHANGED <<prog, now, stage, retried, starts, hists, cpu, since, measured,
                   creators, lost>>

\* A request whose start no probe sees, or passes over.
StartUnseen(r) ==
    /\ stage[r] = "new"
    /\ \/ attached = "none"
       \/ prog = "block" /\ classify_op(of[r].op) = Unknown
    /\ prog = "kprobe" => ThreadFree(r)
    /\ Move(r, IF prog = "kprobe" THEN "bare" ELSE "flying")
    /\ since' = [since EXCEPT ![r] = now]
    /\ UNCHANGED <<prog, attached, now, retried, starts, hists, cpu, measured, creators,
                   lost>>

\* A request whose end no probe sees.
EndUnseen(r) ==
    /\ \/ stage[r] = "bare"
       \/ stage[r] = "flying" /\ attached # "both"
    /\ End(r)
    /\ UNCHANGED <<prog, attached, now, retried, starts, hists, cpu, measured, creators,
                   lost>>

\* The NFS client sends the rest of a short read or write, with new arguments and
\* without nfs_initiate_read or nfs_initiate_write.
Retry(r) ==
    /\ prog = "nfs"
    /\ stage[r] = "done"
    /\ of[r].rest # Nil
    /\ r \notin retried
    /\ retried' = retried \cup {r}
    /\ Move(r, "flying")
    /\ UNCHANGED <<prog, attached, now, starts, hists, cpu, since, measured, creators,
                   lost>>

Tick ==
    /\ \E t \in Times : t > now /\ now' = t
    /\ UNCHANGED <<prog, attached, stage, retried, starts, hists, cpu, since, measured,
                   creators, lost>>

\* Nothing is under way.
Quiet == /\ \A r \in Mine : stage[r] \in {"new", "done"}
         /\ UNCHANGED vars

Probe(c) ==
    \/ \E r \in Mine : \/ tracepoint__block__block_rq_issue(c, r)
                       \/ raw_tp_nfs_initiate(c, r)
                       \/ record_start(c, r)
    \/ PutStart(c)
    \/ tracepoint__block__block_rq_complete(c)
    \/ raw_tp_nfs_done(c)
    \/ kretprobe_nfs_vfs(c)

Next ==
    \/ \E c \in Cpus : Probe(c)
    \/ \E r \in Mine : StartUnseen(r) \/ EndUnseen(r) \/ Retry(r)
    \/ Attach \/ Tick \/ Quiet

Spec == Init /\ [][Next]_vars
-----------------------------------------------------------------------------
(* Properties.                                                             *)

Stages == {"new", "starting", "flying", "bare", "ending", "done"}
Start  == [ts : Times, req : Requests]
Probes == [at : {"idle", "start", "found", "hist", "create", "again", "add"},
           req : Requests \cup {Nil}, clock : Times, lat : Latencies,
           ptr : StartElems \cup HistElems \cup {Nil}, key : HistKeys \cup {Nil}]

\* Every variable holds a value of its type: the maps of common.h and the locals of
\* the probes.  A pointer that is about to be used points somewhere.
TypeOK ==
    /\ prog \in Programs
    /\ attached \in {"none", "starts", "both"}
    /\ now \in Times
    /\ stage \in [Mine -> Stages]
    /\ retried \subseteq Mine
    /\ starts \in [at : [StartKeys -> StartElems \cup {Nil}],
                  val : [StartElems -> Start \cup {Nil}]]
    /\ hists \in [at : [HistKeys -> HistElems \cup {Nil}], val : [HistElems -> [Slots -> Nat]]]
    /\ cpu \in [Cpus -> Probes]
    /\ \A c \in Cpus : /\ cpu[c].at = "found" => cpu[c].ptr \in StartElems
                       /\ cpu[c].at = "add" => cpu[c].ptr \in HistElems
    /\ since \in [Mine -> Times]
    /\ measured \in [HistKeys -> [Latencies -> Nat]]
    /\ creators \in [HistKeys -> SUBSET Cpus]
    /\ lost \subseteq {"starts", "hists"}

Counting(c) == cpu[c].at \in {"hist", "create", "again", "add"}

\* A latency that is counted is never longer than the request took, give or take a
\* start on another CPU that read the clock just before: start times that were left
\* behind, overwritten, evicted or read through a pointer whose element now serves
\* another key only ever shorten it (block_latency.c:56-58 and 74-82,
\* nfs_kprobe_latency.c:44 and 93-104).  The retry of an NFS request, whose key is no
\* longer the one it was started with, is not covered.
NeverTooLong ==
    [][\A c \in Cpus :
          cpu[c].at = "found" /\ cpu'[c].at = "hist" /\ cpu[c].req \notin retried =>
              cpu'[c].lat <= cpu[c].clock - since[cpu[c].req]]_vars

\* A latency is counted for the device and the operation of the request that ended,
\* also by the kprobes, which take both from the start time of the thread, and also
\* after calls whose return was missed.  Only an eviction from a full map of start
\* times can break it (nfs_kprobe_latency.c:36-45 and 93-101).
AttributedRight ==
    "starts" \notin lost =>
        \A c \in Cpus : Counting(c) => cpu[c].key = HistKey(cpu[c].req)

\* Each CPU creates a histogram at most once until it is evicted: the race of first
\* completions, in which a creation throws away what others have counted, ends after
\* as many creations as there are CPUs (block_latency.c:93-96, nfs_latency.c:67-70,
\* nfs_kprobe_latency.c:110-113).
CreatesOnce ==
    \A c \in Cpus : cpu[c].at = "create" => c \notin creators[cpu[c].key]

\* How often a latency that meets a condition was measured under a key.
Seen(k, P(_)) == SumFunctionOnSet(measured[k], {l \in Latencies : P(l)})

Histogram(k) == IF hists.at[k] = Nil THEN zero_hist ELSE hists.val[hists.at[k]]

\* As long as no histogram was evicted or replaced, each slot holds exactly the
\* latencies measured for its device and operation that belong to it: none falls out
\* at either end, none goes to a neighbour or to another key, and no addition is lost
\* (block_latency.c:84-105).  The binary search of bits.bpf.h:5-26 is tried at both
\* ends of every range as well.
SlotsExact ==
    /\ \A i \in 0..29 : \A us \in {2^i, 2^i + 2^i \div 2, 2^i + 2^i - 1} : log2l(us) = i
    /\ "hists" \notin lost =>
           \A k \in HistKeys, i \in Slots :
               Histogram(k)[i] = Seen(k, LAMBDA l : Belongs(l, i))

\* How far an exported bucket can then be off: it counts every request that took no
\* longer than its boundary, and none that took twice as long or more (provided the
\* last slot, which has no upper end, lies beyond it) (block_latency.c:84-105,
\* histogram.go:36-49).
BucketsBracket ==
    "hists" \notin lost =>
        \A k \in HistKeys, b \in Boundaries :
            LET within(l) == Micros(l) <= b
                below(l)  == Micros(l) < 2 * b
            IN /\ slotCeiling(0) <= b => Seen(k, within) <= BucketOf(Histogram(k), b)
               /\ b < slotCeiling(MaxSlots - 1) =>
                      BucketOf(Histogram(k), b) <= Seen(k, below)

\* What docs/alerting.md:36 takes the 100 ms bucket for ("more than 1% of operations
\* above 100ms"), and histogram_test.go:39 asks in general: a request that took longer
\* than a boundary is not counted in its bucket.  The program puts latencies from
\* 2^i to 2^(i+1) into slot i, histogram.go:14 takes 2^i for the end of that slot.
SlowNotCounted ==
    "hists" \notin lost =>
        \A k \in HistKeys, b \in Boundaries :
            LET within(l) == Micros(l) <= b
            IN b < slotCeiling(MaxSlots - 1) =>
                   BucketOf(Histogram(k), b) <= Seen(k, within)
=============================================================================
