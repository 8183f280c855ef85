----------------------- MODULE LatencyProgramsProofs ------------------------
(***************************************************************************)
(* The inductive invariant of LatencyPrograms, the steps that preserve it, *)
(* and the theorems that follow from it.  Everything holds for any         *)
(* requests, any number of CPUs and any size of the maps.                  *)
(***************************************************************************)
EXTENDS LatencyPrograms, WellFoundedInduction, TLAPS

USE ProgramsAssumption

-----------------------------------------------------------------------------
(* Keys, and the maps.                                                     *)

LEMMA KeyFacts ==
    ASSUME prog \in Programs, NEW r \in Mine
    PROVE  StartKey(r) \in StartKeys /\ HistKey(r) \in HistKeys /\ r \in Requests
  <1>1. r \in Requests /\ of[r].prog = prog
    BY DEF Mine, RequestsOf
  <1>2. HistKey(r) \in HistKeys
    BY <1>1 DEF HistKeys, HistKeysOf, Mine
  <1>3. StartKey(r) \in KeysOf(r)
    <2>1. CASE prog = "block"
      BY <1>1, <2>1 DEF StartKey, KeysOf
    <2>2. CASE prog = "nfs"
      BY <1>1, <2>2 DEF StartKey, KeysOf, nfs_fill_key
    <2>3. CASE prog = "kprobe"
      BY <1>1, <2>3 DEF StartKey, KeysOf
    <2> QED
      BY <2>1, <2>2, <2>3
  <1> QED
    BY <1>1, <1>2, <1>3 DEF StartKeys, StartKeysOf, Mine

Maps(K, E, V) == [at : [K -> E \cup {Nil}], val : [E -> V]]

\* No element belongs to two keys.
Linked(m) == \A i, j \in DOMAIN m.at : m.at[i] = m.at[j] /\ m.at[i] # Nil => i = j

\* What an update does: its key has the new value; every other key keeps its element
\* and its value, unless it is evicted.
LEMMA UpdateFacts ==
    ASSUME NEW K, NEW E, NEW V, Nil \notin E, NEW m \in Maps(K, E, V), Linked(m),
           NEW k \in K, NEW v \in V, NEW u \in Updates(m, k, v)
    PROVE  /\ u.map \in Maps(K, E, V) /\ Linked(u.map)
           /\ k \notin u.evicted
           /\ u.map.at[k] \in E /\ u.map.val[u.map.at[k]] = v
           /\ \A i \in u.evicted : u.map.at[i] = Nil
           /\ \A i \in K \ ({k} \cup u.evicted) :
                  /\ u.map.at[i] = m.at[i]
                  /\ m.at[i] # Nil => u.map.val[m.at[i]] = m.val[m.at[i]]
           /\ \A e \in E : u.map.val[e] \in {m.val[e], v}
  <1>1. m.at \in [K -> E \cup {Nil}] /\ m.val \in [E -> V] /\ DOMAIN m.at = K /\ DOMAIN m.val = E
    BY DEF Maps
  <1>2. CASE Free(m) # {}
    <2>1. PICK e \in Free(m) :
              u = [map |-> [at |-> [m.at EXCEPT ![k] = e], val |-> [m.val EXCEPT ![e] = v]],
                   evicted |-> {}]
      BY <1>2 DEF Updates
    <2>2. e \in E /\ \A i \in K : m.at[i] # e
      BY <1>1 DEF Free, Range
    <2>3. /\ u.map.at = [m.at EXCEPT ![k] = e] /\ u.map.val = [m.val EXCEPT ![e] = v]
          /\ u.map = [at |-> u.map.at, val |-> u.map.val] /\ u.evicted = {}
      BY <2>1, Zenon
    <2> QED
      BY <1>1, <2>2, <2>3, SMTT(30) DEF Maps, Linked
  <1>3. CASE Free(m) = {}
    <2>1. PICK j \in {i \in DOMAIN m.at : m.at[i] # Nil} :
              u = [map |-> [at |-> [m.at EXCEPT ![j] = Nil, ![k] = m.at[j]],
                            val |-> [m.val EXCEPT ![m.at[j]] = v]],
                   evicted |-> {j} \ {k}]
      BY <1>3 DEF Updates
    <2>2. j \in K /\ m.at[j] \in E
      BY <1>1
    <2>3. /\ u.map.at = [m.at EXCEPT ![j] = Nil, ![k] = m.at[j]]
          /\ u.map.val = [m.val EXCEPT ![m.at[j]] = v]
          /\ u.map = [at |-> u.map.at, val |-> u.map.val] /\ u.evicted = {j} \ {k}
      BY <2>1
    <2>4. \A i \in K : u.map.at[i] = IF i = k THEN m.at[j] ELSE IF i = j THEN Nil ELSE m.at[i]
      BY <1>1, <2>2, <2>3
    <2>5. u.map.at \in [K -> E \cup {Nil}]
      BY <1>1, <2>2, <2>3
    <2>6. u.map.val \in [E -> V] /\ \A e \in E : u.map.val[e] = IF e = m.at[j] THEN v ELSE m.val[e]
      BY <1>1, <2>2, <2>3
    <2>7. \A i \in K \ {j} : m.at[i] # m.at[j]
      BY <1>1, <2>1, <2>2 DEF Linked
    <2>8. Linked(u.map)
      BY <1>1, <2>2, <2>4, <2>5, <2>7, Zenon DEF Linked
    <2>9. u.map \in Maps(K, E, V)
      BY <2>3, <2>5, <2>6 DEF Maps
    <2> QED
      BY <1>1, <2>2, <2>3, <2>4, <2>6, <2>7, <2>8, <2>9
  <1> QED
    BY <1>2, <1>3

LEMMA DeleteFacts ==
    ASSUME NEW K, NEW E, NEW V, NEW m \in Maps(K, E, V), Linked(m), NEW k \in K
    PROVE  /\ Delete(m, k) \in Maps(K, E, V) /\ Linked(Delete(m, k))
           /\ Delete(m, k).val = m.val
           /\ \A i \in K : Delete(m, k).at[i] = IF i = k THEN Nil ELSE m.at[i]
  <1>1. Delete(m, k) = [at |-> [m.at EXCEPT ![k] = Nil], val |-> m.val]
    BY DEF Delete, Maps
  <1> QED
    BY <1>1 DEF Maps, Linked

\* The least of a set of numbers.
LEMMA MinFacts ==
    ASSUME NEW S \in SUBSET Nat, S # {}
    PROVE  Min(S) \in S /\ \A x \in S : Min(S) <= x
  <1> DEFINE R == OpToRel(<, Nat)
  <1>1. IsWellFoundedOn(R, Nat)
    BY NatLessThanWellFounded, Zenon
  <1>2. \A x, y \in Nat : x < y => <<x, y>> \in R
    BY DEF OpToRel
  <1> HIDE DEF R
  <1>3. PICK x \in S : \A y \in S : ~(<<y, x>> \in R)
    BY <1>1, WFMin, Zenon
  <1>4. \A y \in S : x <= y
    <2> TAKE y \in S
    <2>1. x \in Nat /\ y \in Nat /\ ~(y < x)
      BY <1>2, <1>3, Zenon
    <2> QED
      BY <2>1
  <1> QED
    BY <1>4, Zenon DEF Min
-----------------------------------------------------------------------------
(* The inductive invariant.                                                *)

\* The request a probe works on is where the probe has brought it.
Local(c) ==
    /\ cpu[c].at # "idle" => cpu[c].req \in Mine
    /\ cpu[c].at = "start" => stage[cpu[c].req] = "starting"
    /\ cpu[c].at = "found" \/ Counting(c) => stage[cpu[c].req] = "ending"
    /\ Counting(c) => cpu[c].key \in HistKeys

\* Each CPU works on a request of its own.
LocalInv ==
    /\ \A c \in Cpus : Local(c)
    /\ \A c, d \in Cpus : c # d /\ cpu[c].at # "idle" /\ cpu[d].at # "idle" =>
                            cpu[c].req # cpu[d].req

\* An element that a key or a pointer leads to holds a start time.
StartsInv ==
    /\ Linked(starts)
    /\ attached = "none" => /\ \A k \in StartKeys : starts.at[k] = Nil
                            /\ \A c \in Cpus : cpu[c].at = "idle"
    /\ \A k \in StartKeys : starts.at[k] # Nil => starts.val[starts.at[k]] \in [ts : Times, req : Mine]
    /\ \A c \in Cpus : cpu[c].at = "found" => starts.val[cpu[c].ptr] \in [ts : Times, req : Mine]

\* A histogram that somebody created is there until it is evicted.
HistsInv ==
    /\ Linked(hists)
    /\ \A k \in HistKeys : hists.at[k] = Nil => creators[k] = {}

\* The requests NeverTooLong is about.
Timed(r) == r \notin retried /\ (prog = "block" => classify_op(of[r].op) # Unknown)

\* No start time a request under way can come across is earlier than since tells.
TimeInv ==
    /\ \A r \in Mine : since[r] <= now
    /\ \A r \in Mine : Timed(r) /\ stage[r] \in {"starting", "flying", "ending"} =>
           \A c \in Cpus : cpu[c].at = "start" => since[r] <= cpu[c].clock
    /\ \A r \in Mine : Timed(r) /\ stage[r] = "flying" /\ starts.at[StartKey(r)] # Nil =>
           since[r] <= starts.val[starts.at[StartKey(r)]].ts
    /\ \A c \in Cpus : cpu[c].at = "found" /\ Timed(cpu[c].req) =>
           since[cpu[c].req] <= starts.val[cpu[c].ptr].ts

\* A thread has one call under way, and until its return is measured the start time
\* of the thread is that of the call.
ThreadInv ==
    prog = "kprobe" =>
        /\ \A q, r \in Mine : q # r /\ pid_tgid(q) = pid_tgid(r) =>
               stage[q] \in {"new", "done"} \/ stage[r] \in {"new", "done"}
        /\ "starts" \notin lost =>
               /\ \A r \in Mine : stage[r] = "flying" =>
                      starts.at[pid_tgid(r)] # Nil /\ starts.val[starts.at[pid_tgid(r)]].req = r
               /\ \A c \in Cpus : cpu[c].at = "found" =>
                      /\ cpu[c].ptr = starts.at[pid_tgid(cpu[c].req)]
                      /\ starts.val[cpu[c].ptr].req = cpu[c].req

IInv == /\ TypeOK
        /\ LocalInv
        /\ StartsInv
        /\ HistsInv
        /\ TimeInv
        /\ ThreadInv
        /\ AttributedRight
        /\ CreatesOnce
-----------------------------------------------------------------------------
(* The start of a request.                                                 *)

LEMMA SameProg ==
    ASSUME prog' = prog
    PROVE  /\ Mine' = Mine /\ StartKeys' = StartKeys /\ HistKeys' = HistKeys
           /\ Probes' = Probes
           /\ \A r : (r \in retried' <=> r \in retried) => StartKey(r)' = StartKey(r)
           /\ \A r : (r \in retried' <=> r \in retried) => Timed(r)' = Timed(r)
  <1>1. Mine' = Mine /\ StartKeys' = StartKeys /\ HistKeys' = HistKeys
    BY DEF Mine, StartKeys, HistKeys
  <1>2. Probes' = Probes
    BY <1>1 DEF Probes
  <1>3. ASSUME NEW r, r \in retried' <=> r \in retried
        PROVE  StartKey(r)' = StartKey(r) /\ Timed(r)' = Timed(r)
    BY <1>3 DEF StartKey, nfs_fill_key, Timed
  <1> QED
    BY <1>1, <1>2, <1>3

LEMMA ZeroLatency == 0 \in Times /\ 0 \in Latencies
  BY DEF Latencies

LEMMA InitIInv == Init => IInv
  <1> SUFFICES ASSUME Init PROVE IInv
    OBVIOUS
  <1>1. /\ starts.at = [k \in StartKeys |-> Nil] /\ starts.val = [e \in StartElems |-> Nil]
        /\ hists.at = [k \in HistKeys |-> Nil] /\ hists.val = [e \in HistElems |-> zero_hist]
        /\ starts = [at |-> starts.at, val |-> starts.val]
        /\ hists = [at |-> hists.at, val |-> hists.val]
    BY DEF Init, EmptyMap
  <1>2. zero_hist \in [Slots -> Nat]
    BY DEF zero_hist
  <1>3. Idle \in Probes /\ Idle.at = "idle"
    BY ZeroLatency DEF Idle, Probes
  <1>4. cpu = [c \in Cpus |-> Idle] /\ \A c \in Cpus : cpu[c] = Idle
    BY DEF Init
  <1>5. TypeOK
    <2>1. \A c \in Cpus : cpu[c].at # "found" /\ cpu[c].at # "add"
      BY <1>3, <1>4
    <2>2. cpu \in [Cpus -> Probes]
      BY <1>3, <1>4
    <2>3. measured \in [HistKeys -> [Latencies -> Nat]] /\ creators \in [HistKeys -> SUBSET Cpus]
      BY DEF Init
    <2>4. stage \in [Mine -> Stages] /\ since \in [Mine -> Times]
      BY DEF Init, Stages
    <2> QED
      BY <1>1, <1>2, <2>1, <2>2, <2>3, <2>4 DEF TypeOK, Init
  <1>6. LocalInv /\ AttributedRight /\ CreatesOnce
    BY <1>3, <1>4 DEF LocalInv, Local, AttributedRight, CreatesOnce, Counting
  <1>7. StartsInv /\ HistsInv
    BY <1>1, <1>3, <1>4, SMTT(30) DEF StartsInv, HistsInv, Linked, Init
  <1>8. TimeInv
    BY <1>3, <1>4, SMTT(30) DEF TimeInv, Init
  <1>9. ThreadInv
    BY <1>3, <1>4 DEF ThreadInv, Init
  <1> QED
    BY <1>5, <1>6, <1>7, <1>8, <1>9 DEF IInv

\* A probe that runs has a request that is under way.
LEMMA BusyFacts ==
    ASSUME IInv, NEW c \in Cpus, cpu[c].at # "idle"
    PROVE  cpu[c].req \in Mine /\ stage[cpu[c].req] \in {"starting", "ending"}
  BY DEF IInv, TypeOK, Probes, LocalInv, Local, Counting

LEMMA PointerFacts ==
    ASSUME IInv
    PROVE  \A c \in Cpus : /\ cpu[c].at = "found" => cpu[c].ptr \in StartElems
                           /\ cpu[c].at = "add" => cpu[c].ptr \in HistElems
  BY Zenon DEF IInv, TypeOK

LEMMA LocalKept ==
    ASSUME NEW c, Local(c), cpu'[c] = cpu[c], Mine' = Mine, HistKeys' = HistKeys,
           cpu[c].at # "idle" => stage'[cpu[c].req] = stage[cpu[c].req]
    PROVE  Local(c)'
  BY DEF Local, Counting

\* So does a probe that counts a latency of a request that ends.
LEMMA CountsLocally ==
    ASSUME NEW c, NEW p, cpu'[c] = p, p.at \in {"hist", "create", "again", "add"},
           p.req \in Mine', stage'[p.req] = "ending", p.key \in HistKeys'
    PROVE  Local(c)'
  BY DEF Local, Counting

\* A probe that goes on with its request shares it with no other.
LEMMA RequestsApart ==
    ASSUME LocalInv, NEW c \in Cpus, cpu[c].at # "idle", cpu'[c].req = cpu[c].req,
           \A d \in Cpus \ {c} : cpu'[d] = cpu[d],
           \A d \in Cpus \ {c} : Local(d)', Local(c)'
    PROVE  LocalInv'
  <1> HIDE DEF Local
  <1>1. \A d \in Cpus : cpu'[d].req = cpu[d].req /\ (cpu'[d].at # "idle" => cpu[d].at # "idle")
    OBVIOUS
  <1>2. \A d \in Cpus : Local(d)'
    OBVIOUS
  <1> QED
    BY <1>1, <1>2 DEF LocalInv

\* The three probes at the start of a request differ in when they run.
LEMMA ReadClockPreserves ==
    ASSUME IInv, NEW c \in Cpus, NEW r \in Mine, ReadClock(c, r),
           prog = "kprobe" => ThreadFree(r)
    PROVE  IInv'
  <1> DEFINE clocks == {cpu[d].clock : d \in {d \in Cpus : cpu[d].at = "start"}}
             new == [Idle EXCEPT !.at = "start", !.req = r, !.clock = now]
  <1>1. /\ prog' = prog /\ attached' = attached /\ now' = now /\ retried' = retried
        /\ starts' = starts /\ hists' = hists /\ measured' = measured
        /\ creators' = creators /\ lost' = lost
        /\ attached # "none" /\ cpu[c].at = "idle" /\ stage[r] = "new"
        /\ cpu' = [cpu EXCEPT ![c] = new]
        /\ stage' = [stage EXCEPT ![r] = "starting"]
        /\ since' = [since EXCEPT ![r] = Min({now} \cup clocks)]
    BY Zenon DEF ReadClock, Move
  <1>2. TypeOK /\ r \in Requests /\ prog \in Programs
    BY KeyFacts, Zenon DEF IInv, TypeOK
  <1>3. {now} \cup clocks \subseteq Times
    BY <1>2 DEF TypeOK, Probes
  <1>4. Min({now} \cup clocks) \in Times /\ \A x \in {now} \cup clocks : Min({now} \cup clocks) <= x
    BY <1>3, MinFacts, ZenonT(30)
  <1> DEFINE m == Min({now} \cup clocks)
  <1>5. m \in Times /\ m <= now /\ \A d \in Cpus : cpu[d].at = "start" => m <= cpu[d].clock
    BY <1>4
  <1>6. new \in Probes /\ new.at = "start" /\ new.req = r /\ new.clock = now
    BY <1>2, ZeroLatency, Zenon DEF TypeOK, Probes, Idle
  <1> HIDE DEF m, new
  <1>7. cpu'[c] = new /\ \A d \in Cpus \ {c} : cpu'[d] = cpu[d]
    BY <1>1, <1>2, Zenon DEF TypeOK
  <1>8. stage'[r] = "starting" /\ \A q \in Mine \ {r} : stage'[q] = stage[q]
    BY <1>1, <1>2, Zenon DEF TypeOK
  <1>9. since'[r] = m /\ \A q \in Mine \ {r} : since'[q] = since[q]
    BY <1>1, <1>2, Zenon DEF TypeOK, m
  <1>10. /\ Mine' = Mine /\ StartKeys' = StartKeys /\ HistKeys' = HistKeys /\ Probes' = Probes
         /\ \A q : StartKey(q)' = StartKey(q) /\ Timed(q)' = Timed(q)
    BY <1>1, SameProg, Zenon
  <1>11. TypeOK'
    <2>1. cpu' \in [Cpus -> Probes] /\ since' \in [Mine -> Times] /\ stage' \in [Mine -> Stages]
      BY <1>1, <1>2, <1>5, <1>6, Zenon DEF TypeOK, Stages, m
    <2>2. \A d \in Cpus : /\ cpu'[d].at = "found" => cpu'[d].ptr \in StartElems
                          /\ cpu'[d].at = "add" => cpu'[d].ptr \in HistElems
      BY <1>2, <1>6, <1>7, Zenon DEF TypeOK
    <2> QED
      BY <1>1, <1>2, <1>10, <2>1, <2>2, Zenon DEF TypeOK
  <1>12. LocalInv'
    <2>1. \A d \in Cpus \ {c} : cpu[d].at # "idle" => cpu[d].req \in Mine \ {r}
      BY <1>1, BusyFacts, Zenon DEF IInv
    <2>2. \A d \in Cpus \ {c} : cpu[d].at # "idle" => stage'[cpu[d].req] = stage[cpu[d].req]
      BY <1>8, <2>1
    <2>3. \A d \in Cpus \ {c} : Local(d)'
      BY <1>7, <1>10, <2>2, LocalKept, Zenon DEF IInv, LocalInv
    <2>4. Local(c)'
      BY <1>6, <1>7, <1>8, <1>10, ZenonT(30) DEF Local, Counting
    <2> QED
      BY <1>6, <1>7, <2>1, <2>3, <2>4, SMTT(30) DEF IInv, LocalInv
  <1>13. StartsInv' /\ HistsInv'
    BY <1>1, <1>6, <1>7, <1>10, Zenon DEF IInv, StartsInv, HistsInv
  <1>14. TimeInv'
    <2>1. \A q \in Mine : since[q] \in Nat /\ now \in Nat
      BY <1>2, ZenonT(30) DEF TypeOK
    <2>2. \A q \in Mine : since'[q] <= now'
      BY <1>1, <1>5, <1>9, <2>1, Zenon DEF IInv, TimeInv
    <2>3. ASSUME NEW q \in Mine, Timed(q), stage'[q] \in {"starting", "flying", "ending"},
                 NEW d \in Cpus, cpu'[d].at = "start"
          PROVE  since'[q] <= cpu'[d].clock
      BY <2>1, <2>3, <1>5, <1>6, <1>7, <1>8, <1>9, Zenon DEF IInv, TimeInv
    <2>4. ASSUME NEW q \in Mine, Timed(q), stage'[q] = "flying", starts.at[StartKey(q)] # Nil
          PROVE  since'[q] <= starts.val[starts.at[StartKey(q)]].ts
      BY <2>4, <1>8, <1>9, Zenon DEF IInv, TimeInv
    <2>5. ASSUME NEW d \in Cpus, cpu'[d].at = "found", Timed(cpu'[d].req)
          PROVE  since'[cpu'[d].req] <= starts.val[cpu'[d].ptr].ts
      <3>1. d # c /\ cpu'[d] = cpu[d] /\ cpu[d].req \in Mine /\ cpu[d].req # r
        BY <2>5, <1>1, <1>6, <1>7, BusyFacts, Zenon
      <3> QED
        BY <2>5, <3>1, <1>9, Zenon DEF IInv, TimeInv
    <2> QED
      BY <1>1, <1>10, <2>2, <2>3, <2>4, <2>5, Zenon DEF TimeInv
  <1>15. ThreadInv'
    <2>1. ASSUME prog = "kprobe", NEW q \in Mine \ {r}, pid_tgid(q) = pid_tgid(r)
          PROVE  stage[q] \in {"new", "done"}
      BY <2>1, SMTT(30) DEF ThreadFree, pid_tgid
    <2> QED
      BY <1>1, <1>6, <1>7, <1>8, <1>10, <2>1, SMTT(30) DEF IInv, ThreadInv
  <1>16. AttributedRight' /\ CreatesOnce'
    BY <1>1, <1>6, <1>7, Zenon DEF IInv, AttributedRight, CreatesOnce, Counting
  <1> QED
    BY <1>11, <1>12, <1>13, <1>14, <1>15, <1>16 DEF IInv

LEMMA IdleFacts == Idle \in Probes /\ Idle.at = "idle" /\ ~(Idle.at \in {"found", "add"})
  BY ZeroLatency DEF Idle, Probes

LEMMA PutStartPreserves == ASSUME IInv, NEW c \in Cpus, PutStart(c) PROVE IInv'
  <1> DEFINE r == cpu[c].req
             k == StartKey(r)
             v == [ts |-> cpu[c].clock, req |-> r]
  <1>1. /\ prog' = prog /\ attached' = attached /\ now' = now /\ retried' = retried
        /\ hists' = hists /\ since' = since /\ measured' = measured /\ creators' = creators
        /\ cpu[c].at = "start"
        /\ cpu' = [cpu EXCEPT ![c] = Idle]
    BY Zenon DEF PutStart
  <1>2. PICK u \in Updates(starts, k, v) :
            /\ starts' = u.map
            /\ lost' = IF u.evicted = {} THEN lost ELSE lost \cup {"starts"}
    BY DEF PutStart
  <1>3. PICK to \in {"flying", "bare"} :
            /\ stage' = [stage EXCEPT ![r] = to]
            /\ to = "bare" => prog = "kprobe"
    BY ZenonT(30) DEF PutStart, Move
  <1>4. TypeOK /\ prog \in Programs /\ r \in Mine /\ stage[r] = "starting"
    BY <1>1, BusyFacts, Zenon DEF IInv, TypeOK, LocalInv, Local
  <1>5. k \in StartKeys /\ r \in Requests
    BY <1>4, KeyFacts, Zenon
  <1>6. /\ v \in [ts : Times, req : Mine] /\ v \in Start \cup {Nil}
        /\ v.ts = cpu[c].clock /\ v.req = r
    BY <1>4, <1>5, Zenon DEF TypeOK, Probes, Start
  <1>7. starts \in Maps(StartKeys, StartElems, Start \cup {Nil}) /\ Linked(starts)
    BY Zenon DEF IInv, TypeOK, StartsInv, Maps
  <1> HIDE DEF r, k, v
  <1>8. /\ starts' \in Maps(StartKeys, StartElems, Start \cup {Nil}) /\ Linked(starts')
        /\ k \notin u.evicted
        /\ starts'.at[k] \in StartElems /\ starts'.val[starts'.at[k]] = v
        /\ \A i \in u.evicted : starts'.at[i] = Nil
        /\ \A i \in StartKeys \ ({k} \cup u.evicted) :
               /\ starts'.at[i] = starts.at[i]
               /\ starts.at[i] # Nil => starts'.val[starts.at[i]] = starts.val[starts.at[i]]
        /\ \A e \in StartElems : starts'.val[e] \in {starts.val[e], v}
    <2> DEFINE V == Start \cup {Nil}
    <2>1. /\ Nil \notin StartElems /\ starts \in Maps(StartKeys, StartElems, V) /\ Linked(starts)
          /\ k \in StartKeys /\ v \in V /\ u \in Updates(starts, k, v)
      BY <1>2, <1>5, <1>6, <1>7, ZenonT(30)
    <2> HIDE DEF V
    <2>2. /\ u.map \in Maps(StartKeys, StartElems, V) /\ Linked(u.map)
          /\ k \notin u.evicted
          /\ u.map.at[k] \in StartElems /\ u.map.val[u.map.at[k]] = v
          /\ \A i \in u.evicted : u.map.at[i] = Nil
          /\ \A i \in StartKeys \ ({k} \cup u.evicted) :
                 /\ u.map.at[i] = starts.at[i]
                 /\ starts.at[i] # Nil => u.map.val[starts.at[i]] = starts.val[starts.at[i]]
          /\ \A e \in StartElems : u.map.val[e] \in {starts.val[e], v}
      BY ONLY <2>1, UpdateFacts, Zenon
    <2> QED
      BY ONLY <1>2, <2>2, Zenon DEF V
  <1>9. cpu'[c] = Idle /\ \A d \in Cpus \ {c} : cpu'[d] = cpu[d]
    BY <1>1, <1>4, Zenon DEF TypeOK
  <1>10. stage'[r] = to /\ \A q \in Mine \ {r} : stage'[q] = stage[q]
    BY <1>3, <1>4 DEF TypeOK
  <1>11. /\ Mine' = Mine /\ StartKeys' = StartKeys /\ HistKeys' = HistKeys /\ Probes' = Probes
         /\ \A q : StartKey(q)' = StartKey(q) /\ Timed(q)' = Timed(q)
    BY <1>1, SameProg, ZenonT(30)
  <1>12. \A d \in Cpus \ {c} : cpu[d].at # "idle" => cpu[d].req \in Mine \ {r}
    BY <1>1, BusyFacts, Zenon DEF IInv, LocalInv, r
  <1>13. \A d \in Cpus : cpu'[d].at = "found" =>
             /\ d # c /\ cpu[d].at = "found" /\ cpu'[d] = cpu[d]
             /\ cpu[d].ptr \in StartElems /\ cpu[d].req \in Mine \ {r}
    <2> SUFFICES ASSUME NEW d \in Cpus, cpu'[d].at = "found"
                 PROVE  /\ d # c /\ cpu[d].at = "found" /\ cpu'[d] = cpu[d]
                        /\ cpu[d].ptr \in StartElems /\ cpu[d].req \in Mine \ {r}
      OBVIOUS
    <2>1. d # c /\ cpu[d].at = "found" /\ cpu'[d] = cpu[d]
      BY <1>9, IdleFacts
    <2>2. cpu[d].ptr \in StartElems
      BY <2>1, PointerFacts, Zenon
    <2> QED
      BY <2>1, <2>2, <1>12
  <1>14. TypeOK'
    <2>1. cpu' \in [Cpus -> Probes] /\ stage' \in [Mine -> Stages]
      BY <1>1, <1>3, <1>4, IdleFacts, Zenon DEF TypeOK, Stages
    <2>2. \A d \in Cpus : /\ cpu'[d].at = "found" => cpu'[d].ptr \in StartElems
                          /\ cpu'[d].at = "add" => cpu'[d].ptr \in HistElems
      BY <1>4, <1>9, IdleFacts, Zenon DEF TypeOK
    <2>3. lost' \subseteq {"starts", "hists"}
      BY <1>2, <1>4, Zenon DEF TypeOK
    <2> QED
      BY <1>1, <1>4, <1>8, <1>11, <2>1, <2>2, <2>3, Zenon DEF TypeOK, Maps
  <1>15. LocalInv'
    <2>1. \A d \in Cpus \ {c} : Local(d)'
      BY <1>9, <1>10, <1>11, <1>12, LocalKept DEF IInv, LocalInv
    <2>2. Local(c)'
      BY <1>9, IdleFacts, ZenonT(30) DEF Local, Counting
    <2> QED
      BY <1>9, <2>1, <2>2, IdleFacts, Zenon DEF IInv, LocalInv
  <1>16. StartsInv'
    <2>1. attached # "none"
      BY <1>1, Zenon DEF IInv, StartsInv
    <2>2. \A i \in StartKeys : starts'.at[i] # Nil =>
              starts'.val[starts'.at[i]] \in [ts : Times, req : Mine]
      BY <1>6, <1>8, Zenon DEF IInv, StartsInv
    <2>3. \A d \in Cpus : cpu'[d].at = "found" =>
              starts'.val[cpu'[d].ptr] \in [ts : Times, req : Mine]
      <3> TAKE d \in Cpus
      <3> HAVE cpu'[d].at = "found"
      <3>1. /\ cpu[d].at = "found" /\ cpu'[d] = cpu[d]
            /\ starts'.val[cpu[d].ptr] \in {starts.val[cpu[d].ptr], v}
        BY <1>8, <1>13, Zenon
      <3>2. starts.val[cpu[d].ptr] \in [ts : Times, req : Mine]
        BY <3>1, Zenon DEF IInv, StartsInv
      <3> QED
        BY <1>6, <3>1, <3>2, Zenon
    <2> QED
      BY <1>1, <1>8, <1>11, <2>1, <2>2, <2>3 DEF StartsInv
  <1>17. HistsInv'
    BY <1>1, <1>11, Zenon DEF IInv, HistsInv
  <1>18. TimeInv'
    <2>0. ASSUME NEW q \in Mine, Timed(q), stage[q] \in {"starting", "flying", "ending"}
          PROVE  since[q] <= v.ts
      BY <2>0, <1>1, <1>6, Zenon DEF IInv, TimeInv
    <2>1. ASSUME NEW q \in Mine, Timed(q), stage'[q] \in {"starting", "flying", "ending"},
                 NEW d \in Cpus, cpu'[d].at = "start"
          PROVE  since[q] <= cpu'[d].clock
      <3>1. d # c /\ cpu'[d] = cpu[d]
        BY <2>1, <1>9, IdleFacts
      <3>2. stage[q] \in {"starting", "flying", "ending"}
        BY <2>1, <1>4, <1>10, Zenon
      <3> QED
        BY <2>1, <3>1, <3>2 DEF IInv, TimeInv
    <2>2. ASSUME NEW q \in Mine, Timed(q), stage'[q] = "flying", starts'.at[StartKey(q)] # Nil
          PROVE  since[q] <= starts'.val[starts'.at[StartKey(q)]].ts
      <3>1. StartKey(q) \in StartKeys
        BY <1>4, KeyFacts, Zenon
      <3>2. CASE StartKey(q) = k
        BY <2>2, <3>2, <2>0, <1>4, <1>8, <1>10, Zenon
      <3>3. CASE StartKey(q) # k
        <4>1. q # r /\ stage[q] = "flying"
          BY <2>2, <3>3, <1>10, Zenon DEF k
        <4> QED
          BY <2>2, <3>1, <3>3, <4>1, <1>8, ZenonT(30) DEF IInv, TimeInv
      <3> QED
        BY <3>2, <3>3
    <2>3. ASSUME NEW d \in Cpus, cpu'[d].at = "found", Timed(cpu'[d].req)
          PROVE  since[cpu'[d].req] <= starts'.val[cpu'[d].ptr].ts
      <3>1. stage[cpu[d].req] = "ending"
        BY <2>3, <1>13, Zenon DEF IInv, LocalInv, Local
      <3>2. since[cpu[d].req] <= v.ts
        BY <2>0, <2>3, <3>1, <1>13
      <3>3. since[cpu[d].req] <= starts.val[cpu[d].ptr].ts
        BY <2>3, <1>13, Zenon DEF IInv, TimeInv
      <3>4. starts'.val[cpu[d].ptr] = starts.val[cpu[d].ptr] \/ starts'.val[cpu[d].ptr] = v
        BY <2>3, <1>8, <1>13, ZenonT(30)
      <3> QED
        BY <3>2, <3>3, <3>4, <1>13, <2>3, Zenon
    <2>4. \A q \in Mine : since[q] <= now
      BY DEF IInv, TimeInv
    <2> QED
      BY <1>1, <1>11, <2>1, <2>2, <2>3, <2>4, Zenon DEF TimeInv
  <1>19. ThreadInv'
    <2> SUFFICES ASSUME prog = "kprobe"
                 PROVE  /\ \A p, q \in Mine : p # q /\ pid_tgid(p) = pid_tgid(q) =>
                               stage'[p] \in {"new", "done"} \/ stage'[q] \in {"new", "done"}
                        /\ "starts" \notin lost' =>
                               /\ \A q \in Mine : stage'[q] = "flying" =>
                                      /\ starts'.at[pid_tgid(q)] # Nil
                                      /\ starts'.val[starts'.at[pid_tgid(q)]].req = q
                               /\ \A d \in Cpus : cpu'[d].at = "found" =>
                                      /\ cpu'[d].ptr = starts'.at[pid_tgid(cpu'[d].req)]
                                      /\ starts'.val[cpu'[d].ptr].req = cpu'[d].req
      BY <1>1, <1>11, Zenon DEF ThreadInv
    <2>1. \A q \in Mine : StartKey(q) = pid_tgid(q) /\ StartKey(q) \in StartKeys
      BY <1>4, KeyFacts, Zenon DEF StartKey
    <2>2. \A p, q \in Mine : p # q /\ pid_tgid(p) = pid_tgid(q) =>
              stage[p] \in {"new", "done"} \/ stage[q] \in {"new", "done"}
      BY ZenonT(30) DEF IInv, ThreadInv
    <2>3. \A p, q \in Mine : p # q /\ pid_tgid(p) = pid_tgid(q) =>
              stage'[p] \in {"new", "done"} \/ stage'[q] \in {"new", "done"}
      BY <1>4, <1>10, <2>2, Zenon
    <2>4. \A q \in Mine \ {r} : stage[q] \notin {"new", "done"} => StartKey(q) # k
      BY <1>4, <2>1, <2>2, Zenon DEF k
    <2>5. ASSUME "starts" \notin lost', NEW q \in Mine, stage'[q] = "flying"
          PROVE  starts'.at[StartKey(q)] # Nil /\ starts'.val[starts'.at[StartKey(q)]].req = q
      <3>1. "starts" \notin lost /\ u.evicted = {}
        BY <2>5, <1>2
      <3>2. CASE q = r
        BY <3>2, <1>6, <1>8, Zenon DEF k
      <3>3. CASE q # r
        <4>1. stage[q] = "flying" /\ StartKey(q) # k
          BY <2>4, <2>5, <3>3, <1>10, Zenon
        <4>2. starts.at[pid_tgid(q)] # Nil /\ starts.val[starts.at[pid_tgid(q)]].req = q
          BY <3>1, <4>1, Zenon DEF IInv, ThreadInv
        <4>3. StartKey(q) = pid_tgid(q) /\ StartKey(q) \in StartKeys \ ({k} \cup u.evicted)
          BY <2>1, <3>1, <4>1, Zenon
        <4> QED
          BY ONLY <4>2, <4>3, <1>8
      <3> QED
        BY <3>2, <3>3, SMTT(30)
    <2>6. ASSUME "starts" \notin lost', NEW d \in Cpus, cpu'[d].at = "found"
          PROVE  /\ cpu'[d].ptr = starts'.at[StartKey(cpu'[d].req)]
                 /\ starts'.val[cpu'[d].ptr].req = cpu'[d].req
      <3>1. "starts" \notin lost /\ u.evicted = {}
        BY <2>6, <1>2, Zenon
      <3>2. stage[cpu[d].req] = "ending"
        BY <2>6, <1>13, Zenon DEF IInv, LocalInv, Local
      <3>3. StartKey(cpu[d].req) # k /\ StartKey(cpu[d].req) \in StartKeys
        BY <2>1, <2>4, <2>6, <3>2, <1>13, Zenon
      <3>4. /\ cpu[d].ptr = starts.at[StartKey(cpu[d].req)]
            /\ starts.val[cpu[d].ptr].req = cpu[d].req
        BY ONLY IInv, prog = "kprobe", <2>1, <2>6, <3>1, <1>13 DEF IInv, ThreadInv
      <3> QED
        BY <2>6, <3>1, <3>3, <3>4, <1>8, <1>13, SMTT(30)
    <2>7. ASSUME "starts" \notin lost', NEW q \in Mine, stage'[q] = "flying"
          PROVE  starts'.at[pid_tgid(q)] # Nil /\ starts'.val[starts'.at[pid_tgid(q)]].req = q
      BY <2>1, <2>5, <2>7, Zenon
    <2>8. ASSUME "starts" \notin lost', NEW d \in Cpus, cpu'[d].at = "found"
          PROVE  /\ cpu'[d].ptr = starts'.at[pid_tgid(cpu'[d].req)]
                 /\ starts'.val[cpu'[d].ptr].req = cpu'[d].req
      BY <2>1, <2>6, <2>8, <1>13, Zenon
    <2> QED
      BY <2>3, <2>7, <2>8, ZenonT(30)
  <1>20. AttributedRight' /\ CreatesOnce'
    BY <1>1, <1>2, <1>9, IdleFacts DEF IInv, AttributedRight, CreatesOnce, Counting
  <1> QED
    BY <1>14, <1>15, <1>16, <1>17, <1>18, <1>19, <1>20, Zenon DEF IInv
-----------------------------------------------------------------------------
(* Its end.                                                                *)

\* A request ends that no probe works on.
LEMMA EndPreserves ==
    ASSUME IInv, NEW r \in Mine, stage[r] \in {"flying", "bare"}, End(r),
           UNCHANGED <<prog, attached, now, retried, starts, hists, cpu, measured, creators, lost>>
    PROVE  IInv'
  <1>1. TypeOK /\ stage' = [stage EXCEPT ![r] = "done"] /\ since' = [since EXCEPT ![r] = 0]
    BY DEF IInv, End, Move
  <1>2. stage'[r] = "done" /\ \A q \in Mine \ {r} : stage'[q] = stage[q]
    BY <1>1 DEF TypeOK
  <1>3. since'[r] = 0 /\ \A q \in Mine \ {r} : since'[q] = since[q]
    BY <1>1 DEF TypeOK
  <1>4. /\ Mine' = Mine /\ StartKeys' = StartKeys /\ HistKeys' = HistKeys /\ Probes' = Probes
        /\ \A q : StartKey(q)' = StartKey(q) /\ Timed(q)' = Timed(q)
    BY SameProg
  <1>5. \A d \in Cpus : cpu[d].at # "idle" => cpu[d].req \in Mine \ {r}
    BY BusyFacts, Zenon
  <1>6. TypeOK'
    <2>1. since' \in [Mine -> Times] /\ stage' \in [Mine -> Stages]
      BY <1>1, ZeroLatency, Zenon DEF TypeOK, Stages
    <2> QED
      BY <1>1, <1>4, <2>1, Zenon DEF TypeOK
  <1>7. LocalInv'
    <2>1. \A d \in Cpus : Local(d)'
      BY <1>2, <1>4, <1>5, LocalKept, Zenon DEF IInv, LocalInv
    <2> QED
      BY <2>1, Zenon DEF IInv, LocalInv
  <1>8. StartsInv' /\ HistsInv' /\ AttributedRight' /\ CreatesOnce'
    BY <1>4, Zenon DEF IInv, StartsInv, HistsInv, AttributedRight, CreatesOnce, Counting
  <1>9. TimeInv'
    <2>1. now \in Nat
      BY <1>1, Zenon DEF TypeOK
    <2>2. \A q \in Mine : since'[q] <= now
      BY ONLY IInv, <1>3, <2>1 DEF IInv, TimeInv
    <2>3. \A q \in Mine : stage'[q] \in {"starting", "flying", "ending"} =>
              stage[q] = stage'[q] /\ since[q] = since'[q]
      BY <1>2, <1>3
    <2>4. \A d \in Cpus : cpu[d].at = "found" => since'[cpu[d].req] = since[cpu[d].req]
      BY <1>3, <1>5, Zenon
    <2> QED
      BY <1>4, <2>2, <2>3, <2>4 DEF IInv, TimeInv
  <1>10. ThreadInv'
    BY <1>2, <1>4 DEF IInv, ThreadInv
  <1> QED
    BY <1>6, <1>7, <1>8, <1>9, <1>10 DEF IInv

LEMMA FindStartPreserves ==
    ASSUME IInv, NEW c \in Cpus, NEW r \in Mine, FindStart(c, r)
    PROVE  IInv'
  <1> DEFINE e == starts.at[StartKey(r)]
             new == [Idle EXCEPT !.at = "found", !.req = r, !.clock = now, !.ptr = e]
  <1>1. /\ UNCHANGED <<prog, attached, now, retried, starts, hists, measured, creators, lost>>
        /\ attached = "both" /\ cpu[c].at = "idle" /\ stage[r] = "flying"
    BY DEF FindStart
  <1>2. CASE e = Nil
    BY <1>1, <1>2, EndPreserves DEF FindStart, Lookup
  <1>3. CASE e # Nil
    <2>1. /\ cpu' = [cpu EXCEPT ![c] = new]
          /\ stage' = [stage EXCEPT ![r] = "ending"]
          /\ since' = since
      BY <1>3, Zenon DEF FindStart, Lookup, Move
    <2>2. TypeOK /\ r \in Requests /\ prog \in Programs /\ StartKey(r) \in StartKeys
      BY KeyFacts, Zenon DEF IInv, TypeOK
    <2>3. e \in StartElems /\ starts.val[e] \in [ts : Times, req : Mine]
      BY <1>3, <2>2 DEF IInv, TypeOK, StartsInv
    <2>4. new \in Probes /\ new.at = "found" /\ new.req = r /\ new.clock = now /\ new.ptr = e
      BY <2>2, <2>3, ZeroLatency, Zenon DEF TypeOK, Probes, Idle
    <2> HIDE DEF new, e
    <2>5. cpu'[c] = new /\ \A d \in Cpus \ {c} : cpu'[d] = cpu[d]
      BY <2>1, <2>2, Zenon DEF TypeOK
    <2>6. stage'[r] = "ending" /\ \A q \in Mine \ {r} : stage'[q] = stage[q]
      BY <2>1, <2>2, Zenon DEF TypeOK
    <2>7. /\ Mine' = Mine /\ StartKeys' = StartKeys /\ HistKeys' = HistKeys /\ Probes' = Probes
          /\ \A q : StartKey(q)' = StartKey(q) /\ Timed(q)' = Timed(q)
      BY <1>1, SameProg, Zenon
    <2>8. \A d \in Cpus \ {c} : cpu[d].at # "idle" => cpu[d].req \in Mine \ {r}
      BY <1>1, BusyFacts, Zenon
    <2>9. TypeOK'
      <3>1. cpu' \in [Cpus -> Probes] /\ stage' \in [Mine -> Stages]
        BY <2>1, <2>2, <2>4, Zenon DEF TypeOK, Stages
      <3>2. \A d \in Cpus : /\ cpu'[d].at = "found" => cpu'[d].ptr \in StartElems
                            /\ cpu'[d].at = "add" => cpu'[d].ptr \in HistElems
        BY <2>3, <2>4, <2>5, PointerFacts
      <3> QED
        BY <1>1, <2>1, <2>2, <2>7, <3>1, <3>2, Zenon DEF TypeOK
    <2>10. LocalInv'
      <3>1. \A d \in Cpus \ {c} : Local(d)'
        BY <2>5, <2>6, <2>7, <2>8, LocalKept, Zenon DEF IInv, LocalInv
      <3>2. Local(c)'
        BY <2>4, <2>5, <2>6, <2>7 DEF Local, Counting
      <3> QED
        BY ONLY IInv, <2>4, <2>5, <2>8, <3>1, <3>2 DEF IInv, LocalInv
    <2>11. StartsInv' /\ HistsInv'
      BY <1>1, <2>3, <2>4, <2>5, <2>7, Zenon DEF IInv, StartsInv, HistsInv
    <2>12. TimeInv'
      <3>1. \A d \in Cpus : cpu'[d].at = "start" => cpu[d].at = "start" /\ cpu'[d] = cpu[d]
        BY <2>4, <2>5
      <3>2. \A q \in Mine : /\ stage'[q] \in {"starting", "flying", "ending"} =>
                                stage[q] \in {"starting", "flying", "ending"}
                            /\ stage'[q] = "flying" => stage[q] = "flying"
        BY <1>1, <2>6
      <3>3. Timed(r) => since[r] <= starts.val[e].ts
        BY <1>1, <1>3, Zenon DEF IInv, TimeInv, e
      <3>4. \A d \in Cpus : cpu'[d].at = "found" /\ Timed(cpu'[d].req) =>
                since[cpu'[d].req] <= starts.val[cpu'[d].ptr].ts
        BY <2>4, <2>5, <3>3, Zenon DEF IInv, TimeInv
      <3> QED
        BY <1>1, <2>1, <2>7, <3>1, <3>2, <3>4, Zenon DEF IInv, TimeInv
    <2>13. ThreadInv'
      <3>1. prog = "kprobe" => StartKey(r) = pid_tgid(r)
        BY Zenon DEF StartKey
      <3>2. prog = "kprobe" /\ "starts" \notin lost => e = starts.at[pid_tgid(r)] /\ starts.val[e].req = r
        BY <1>1, <3>1, Zenon DEF IInv, ThreadInv, e
      <3>3. prog = "kprobe" /\ "starts" \notin lost => \A d \in Cpus : cpu'[d].at = "found" =>
                /\ cpu'[d].ptr = starts.at[pid_tgid(cpu'[d].req)]
                /\ starts.val[cpu'[d].ptr].req = cpu'[d].req
        BY <2>4, <2>5, <3>2 DEF IInv, ThreadInv
      <3> QED
        BY ONLY IInv, <1>1, <2>6, <2>7, <3>3 DEF IInv, ThreadInv
    <2>14. AttributedRight' /\ CreatesOnce'
      BY <1>1, <2>4, <2>5 DEF IInv, AttributedRight, CreatesOnce, Counting
    <2> QED
      BY <2>9, <2>10, <2>11, <2>12, <2>13, <2>14 DEF IInv
  <1> QED
    BY <1>2, <1>3

\* What a probe leaves of the start times: all, or all but that of its request.
Remaining(c) ==
    \/ starts' = starts
    \/ cpu[c].at = "found" /\ starts' = Delete(starts, StartKey(cpu[c].req))

LEMMA RemainingFacts ==
    ASSUME IInv, NEW c \in Cpus, cpu[c].at # "idle", Remaining(c)
    PROVE  /\ starts' \in Maps(StartKeys, StartElems, Start \cup {Nil}) /\ Linked(starts')
           /\ starts'.val = starts.val
           /\ \A k \in StartKeys :
                  starts'.at[k] = starts.at[k] \/ (starts'.at[k] = Nil /\ k = StartKey(cpu[c].req))
  <1>1. starts \in Maps(StartKeys, StartElems, Start \cup {Nil}) /\ Linked(starts)
    BY DEF IInv, TypeOK, StartsInv, Maps
  <1>2. StartKey(cpu[c].req) \in StartKeys
    BY BusyFacts, KeyFacts, Zenon DEF IInv, TypeOK
  <1> QED
    BY ONLY Remaining(c), <1>1, <1>2, DeleteFacts DEF Remaining

\* When a probe has found its start, removing it touches no other call of the kprobes.
LEMMA OthersKeepStart ==
    ASSUME IInv, NEW c \in Cpus, cpu[c].at # "idle", Remaining(c), prog = "kprobe",
           NEW q \in Mine, q # cpu[c].req, stage[q] \notin {"new", "done"}
    PROVE  starts'.at[pid_tgid(q)] = starts.at[pid_tgid(q)]
  <1>1. cpu[c].req \in Mine /\ stage[cpu[c].req] \notin {"new", "done"} /\ prog \in Programs
    BY BusyFacts, Zenon DEF IInv, TypeOK
  <1>2. pid_tgid(q) # pid_tgid(cpu[c].req)
    BY <1>1 DEF IInv, ThreadInv
  <1>3. StartKey(q) = pid_tgid(q) /\ StartKey(cpu[c].req) = pid_tgid(cpu[c].req)
    BY DEF StartKey
  <1>4. StartKey(q) \in StartKeys
    BY <1>1, KeyFacts
  <1> QED
    BY <1>2, <1>3, <1>4, RemainingFacts, Zenon

\* The parts of the invariant about start times, when a probe goes on from found or
\* from a later step, or ends.
LEMMA StartsKept ==
    ASSUME IInv, NEW c \in Cpus, cpu[c].at # "idle", Remaining(c),
           UNCHANGED <<prog, attached, now, retried>>,
           "starts" \in lost' <=> "starts" \in lost,
           cpu'[c].at \notin {"start", "found"},
           \A d \in Cpus \ {c} : cpu'[d] = cpu[d],
           \A q \in Mine \ {cpu[c].req} : stage'[q] = stage[q] /\ since'[q] = since[q],
           LET r == cpu[c].req
           IN \/ stage'[r] = stage[r] /\ since'[r] = since[r] /\ stage[r] = "ending"
              \/ stage'[r] = "done" /\ since'[r] = 0
    PROVE  StartsInv' /\ TimeInv' /\ ThreadInv'
  <1> DEFINE r == cpu[c].req
  <1>1. /\ Mine' = Mine /\ StartKeys' = StartKeys
        /\ \A q : StartKey(q)' = StartKey(q) /\ Timed(q)' = Timed(q)
    BY SameProg, Zenon
  <1>2. /\ Linked(starts')
        /\ starts'.val = starts.val
        /\ \A k \in StartKeys : starts'.at[k] = starts.at[k] \/ starts'.at[k] = Nil
    BY RemainingFacts
  <1>3. \A d \in Cpus : cpu'[d].at = "found" =>
            d # c /\ cpu'[d] = cpu[d] /\ cpu[d].req \in Mine \ {r}
    BY BusyFacts, ZenonT(30) DEF IInv, LocalInv
  <1>4. r \in Mine /\ prog \in Programs
    BY BusyFacts, Zenon DEF IInv, TypeOK
  <1>5. StartsInv'
    <2>1. attached # "none"
      BY Zenon DEF IInv, StartsInv
    <2> QED
      BY <1>1, <1>2, <1>3, <2>1 DEF IInv, StartsInv
  <1>6. TimeInv'
    <2>0. now \in Nat /\ \A q \in Mine : StartKey(q) \in StartKeys
      BY <1>4, KeyFacts, Zenon DEF IInv, TypeOK
    <2>1. \A q \in Mine : since'[q] <= now
      <3>1. \A q \in Mine : since[q] <= now
        BY Zenon DEF IInv, TimeInv
      <3>2. \A q \in Mine : since'[q] = since[q] \/ since'[q] = 0
        BY <1>4, Zenon
      <3> QED
        BY ONLY <2>0, <3>1, <3>2
    <2>2. \A q \in Mine : stage'[q] \in {"starting", "flying", "ending"} =>
              stage'[q] = stage[q] /\ since'[q] = since[q]
      BY <1>4
    <2>3. \A d \in Cpus : cpu'[d].at = "start" => cpu'[d] = cpu[d]
      BY Zenon
    <2>4. ASSUME NEW q \in Mine, Timed(q), stage'[q] = "flying", starts'.at[StartKey(q)] # Nil
          PROVE  since'[q] <= starts'.val[starts'.at[StartKey(q)]].ts
      <3>1. stage[q] = "flying" /\ since'[q] = since[q] /\ starts'.at[StartKey(q)] = starts.at[StartKey(q)]
        BY <2>0, <2>2, <2>4, <1>2, Zenon
      <3> QED
        BY <2>4, <3>1, <1>2, Zenon DEF IInv, TimeInv
    <2>5. ASSUME NEW d \in Cpus, cpu'[d].at = "found", Timed(cpu'[d].req)
          PROVE  since'[cpu'[d].req] <= starts'.val[cpu'[d].ptr].ts
      <3>1. cpu'[d] = cpu[d] /\ cpu[d].req \in Mine \ {r}
        BY <2>5, <1>3, Zenon
      <3>2. since'[cpu[d].req] = since[cpu[d].req]
        BY <3>1, Zenon
      <3>3. cpu[d].at = "found" /\ Timed(cpu[d].req)
        BY <2>5, <3>1, Zenon
      <3>4. since[cpu[d].req] <= starts.val[cpu[d].ptr].ts
        BY <3>3, Zenon DEF IInv, TimeInv
      <3> QED
        BY ONLY <3>1, <3>2, <3>4, <1>2, Zenon
    <2>6. ASSUME NEW q \in Mine, Timed(q), stage'[q] \in {"starting", "flying", "ending"},
                 NEW d \in Cpus, cpu'[d].at = "start"
          PROVE  since'[q] <= cpu'[d].clock
      BY <2>2, <2>3, <2>6, Zenon DEF IInv, TimeInv
    <2> QED
      BY <1>1, <2>1, <2>4, <2>5, <2>6 DEF TimeInv
  <1>7. ThreadInv'
    <2>1. ASSUME prog = "kprobe", NEW p \in Mine, NEW q \in Mine, p # q, pid_tgid(p) = pid_tgid(q)
          PROVE  stage'[p] \in {"new", "done"} \/ stage'[q] \in {"new", "done"}
      BY <2>1, <1>4, Zenon DEF IInv, ThreadInv
    <2>2. ASSUME prog = "kprobe", "starts" \notin lost, NEW q \in Mine, stage'[q] = "flying"
          PROVE  starts'.at[pid_tgid(q)] # Nil /\ starts'.val[starts'.at[pid_tgid(q)]].req = q
      <3>1. q # r /\ stage[q] = "flying"
        BY <2>2, <1>4
      <3>2. starts'.at[pid_tgid(q)] = starts.at[pid_tgid(q)]
        BY <2>2, <3>1, OthersKeepStart, Zenon
      <3>3. starts.at[pid_tgid(q)] # Nil /\ starts.val[starts.at[pid_tgid(q)]].req = q
        BY <2>2, <3>1, Zenon DEF IInv, ThreadInv
      <3> QED
        BY ONLY <3>2, <3>3, <1>2, Zenon
    <2>3. ASSUME prog = "kprobe", "starts" \notin lost, NEW d \in Cpus, cpu'[d].at = "found"
          PROVE  /\ cpu'[d].ptr = starts'.at[pid_tgid(cpu'[d].req)]
                 /\ starts'.val[cpu'[d].ptr].req = cpu'[d].req
      <3>1. cpu'[d] = cpu[d] /\ cpu[d].req \in Mine \ {r} /\ stage[cpu[d].req] \in {"starting", "ending"}
        BY <2>3, <1>3, BusyFacts, Zenon
      <3>2. starts'.at[pid_tgid(cpu[d].req)] = starts.at[pid_tgid(cpu[d].req)]
        BY <2>3, <3>1, OthersKeepStart, Zenon
      <3>3. /\ cpu[d].ptr = starts.at[pid_tgid(cpu[d].req)]
            /\ starts.val[cpu[d].ptr].req = cpu[d].req
        <4>1. cpu[d].at = "found"
          BY <2>3, <3>1, Zenon
        <4> QED
          BY ONLY IInv, <2>3, <4>1, Zenon DEF IInv, ThreadInv
      <3> QED
        BY ONLY <3>1, <3>2, <3>3, <1>2, Zenon
    <2> QED
      BY <1>1, <2>1, <2>2, <2>3, Zenon DEF ThreadInv
  <1> QED
    BY <1>5, <1>6, <1>7, Zenon

\* The end of a probe: without a latency, without a histogram, or after the addition.
LEMMA FinishPreserves ==
    ASSUME IInv, NEW c \in Cpus, cpu[c].at # "idle", Finish(c), Remaining(c),
           UNCHANGED <<prog, attached, now, retried, creators, lost>>,
           hists' \in Maps(HistKeys, HistElems, [Slots -> Nat]), hists'.at = hists.at,
           measured' \in [HistKeys -> [Latencies -> Nat]]
    PROVE  IInv'
  <1> DEFINE r == cpu[c].req
  <1>1. /\ TypeOK /\ r \in Mine
        /\ cpu' = [cpu EXCEPT ![c] = Idle]
        /\ stage' = [stage EXCEPT ![r] = "done"] /\ since' = [since EXCEPT ![r] = 0]
    BY BusyFacts, Zenon DEF IInv, Finish, End, Move
  <1> HIDE DEF r
  <1>2. cpu'[c] = Idle /\ \A d \in Cpus \ {c} : cpu'[d] = cpu[d]
    BY <1>1, Zenon DEF TypeOK
  <1>3. stage'[r] = "done" /\ \A q \in Mine \ {r} : stage'[q] = stage[q]
    BY <1>1, Zenon DEF TypeOK
  <1>4. since'[r] = 0 /\ \A q \in Mine \ {r} : since'[q] = since[q]
    BY <1>1, Zenon DEF TypeOK
  <1>5. Mine' = Mine /\ StartKeys' = StartKeys /\ HistKeys' = HistKeys /\ Probes' = Probes
    BY SameProg
  <1>6. StartsInv' /\ TimeInv' /\ ThreadInv'
    BY <1>2, <1>3, <1>4, IdleFacts, StartsKept, Zenon DEF r
  <1>7. TypeOK'
    <2>1. cpu' \in [Cpus -> Probes] /\ stage' \in [Mine -> Stages] /\ since' \in [Mine -> Times]
      BY <1>1, IdleFacts, ZeroLatency, Zenon DEF TypeOK, Stages
    <2>2. \A d \in Cpus : (cpu'[d].at = "found" => cpu'[d].ptr \in StartElems)
                          /\ (cpu'[d].at = "add" => cpu'[d].ptr \in HistElems)
      BY <1>2, IdleFacts, PointerFacts
    <2>3. starts' \in Maps(StartKeys, StartElems, Start \cup {Nil})
      BY RemainingFacts, Zenon
    <2> QED
      BY <1>1, <1>5, <2>1, <2>2, <2>3, Zenon DEF TypeOK, Maps
  <1>8. LocalInv'
    <2>1. \A d \in Cpus \ {c} : cpu[d].at # "idle" => cpu[d].req \in Mine \ {r}
      BY BusyFacts, Zenon DEF IInv, LocalInv, r
    <2>2. \A d \in Cpus \ {c} : Local(d)'
      BY <1>2, <1>3, <1>5, <2>1, LocalKept, Zenon DEF IInv, LocalInv
    <2>3. Local(c)'
      BY <1>2, IdleFacts, Zenon DEF Local, Counting
    <2>4. \A d \in Cpus : cpu'[d].at # "idle" => cpu'[d] = cpu[d]
      BY <1>2, IdleFacts, Zenon
    <2>5. \A d \in Cpus : Local(d)'
      BY <2>2, <2>3, Zenon
    <2> QED
      BY <2>4, <2>5, Zenon DEF IInv, LocalInv
  <1>9. HistsInv'
    BY <1>5, Zenon DEF IInv, HistsInv, Linked
  <1>10. AttributedRight' /\ CreatesOnce'
    BY <1>2, IdleFacts, Zenon DEF IInv, AttributedRight, CreatesOnce, Counting
  <1> QED
    BY <1>6, <1>7, <1>8, <1>9, <1>10, Zenon DEF IInv

\* A probe goes on to count a latency.
LEMMA CountingPreserves ==
    ASSUME IInv, NEW c \in Cpus, cpu[c].at = "found" \/ Counting(c), Remaining(c),
           UNCHANGED <<prog, attached, now, retried, stage, since, hists, measured, creators, lost>>,
           NEW p \in Probes, cpu' = [cpu EXCEPT ![c] = p],
           p.at \in {"hist", "create", "again", "add"}, p.req = cpu[c].req, p.key \in HistKeys,
           p.at = "add" => p.ptr \in HistElems,
           p.at = "create" => hists.at[p.key] = Nil,
           "starts" \notin lost => p.key = HistKey(p.req)
    PROVE  IInv'
  <1>1. TypeOK /\ cpu[c].req \in Mine /\ cpu[c].at # "idle" /\ stage[cpu[c].req] = "ending"
    BY BusyFacts, Zenon DEF IInv, LocalInv, Local, Counting
  <1>2. cpu'[c] = p /\ \A d \in Cpus \ {c} : cpu'[d] = cpu[d]
    BY <1>1, Zenon DEF TypeOK
  <1>3. Mine' = Mine /\ StartKeys' = StartKeys /\ HistKeys' = HistKeys /\ Probes' = Probes
    BY SameProg, Zenon
  <1>4. StartsInv' /\ TimeInv' /\ ThreadInv'
    BY <1>1, <1>2, StartsKept, Zenon
  <1>5. TypeOK'
    <2>1. cpu' \in [Cpus -> Probes]
      BY <1>1, Zenon DEF TypeOK
    <2>2. \A d \in Cpus : (cpu'[d].at = "found" => cpu'[d].ptr \in StartElems)
                          /\ (cpu'[d].at = "add" => cpu'[d].ptr \in HistElems)
      BY <1>2, PointerFacts, Zenon
    <2>3. starts' \in Maps(StartKeys, StartElems, Start \cup {Nil})
      BY <1>1, RemainingFacts, Zenon
    <2> QED
      BY <1>1, <1>3, <2>1, <2>2, <2>3, Zenon DEF TypeOK, Maps
  <1>6. LocalInv'
    <2>1. \A d \in Cpus \ {c} : Local(d)'
      BY <1>2, <1>3, LocalKept, Zenon DEF IInv, LocalInv
    <2>2. Local(c)'
      <3>1. p.req \in Mine' /\ p.key \in HistKeys'
        BY <1>1, <1>3, Zenon
      <3>2. stage'[p.req] = "ending"
        BY <1>1, Zenon
      <3> QED
        BY <1>2, <3>1, <3>2, CountsLocally, Zenon
    <2> QED
      BY ONLY IInv, <1>1, <1>2, <2>1, <2>2, c \in Cpus, p.req = cpu[c].req, RequestsApart, Zenon DEF IInv
  <1>7. HistsInv'
    BY <1>3, Zenon DEF IInv, HistsInv
  <1>8. AttributedRight'
    BY <1>2 DEF IInv, AttributedRight, Counting
  <1>9. CreatesOnce'
    <2>1. p.at = "create" => c \notin creators[p.key]
      BY Zenon DEF IInv, HistsInv
    <2>2. \A d \in Cpus : cpu[d].at = "create" => d \notin creators[cpu[d].key]
      BY Zenon DEF IInv, CreatesOnce
    <2>3. creators' = creators
      OBVIOUS
    <2> QED
      BY ONLY <1>2, <2>1, <2>2, <2>3, Zenon DEF CreatesOnce
  <1> QED
    BY <1>4, <1>5, <1>6, <1>7, <1>8, <1>9, Zenon DEF IInv

\* Measure, with the key each of the three programs takes.
Measured(c) ==
    /\ cpu[c].at = "found"
    /\ \/ /\ prog = "block"
          /\ Measure(c, classify_op(of[cpu[c].req].op) # Unknown, HistKey(cpu[c].req))
       \/ prog = "nfs" /\ Measure(c, TRUE, HistKey(cpu[c].req))
       \/ prog = "kprobe" /\ Measure(c, TRUE, HistKey(starts.val[cpu[c].ptr].req))

LEMMA MeasureFacts ==
    ASSUME IInv, NEW c \in Cpus, Measured(c)
    PROVE  /\ cpu[c].at = "found" /\ Remaining(c)
           /\ UNCHANGED <<prog, attached, now, retried, hists, measured, creators, lost>>
           /\ \/ Finish(c)
              \/ \E key \in HistKeys :
                    LET delta == cpu[c].clock - starts.val[cpu[c].ptr].ts
                    IN /\ delta >= 0
                       /\ cpu' = [cpu EXCEPT ![c] =
                             [@ EXCEPT !.at = "hist", !.ptr = Nil, !.key = key, !.clock = 0,
                                       !.lat = delta]]
                       /\ "starts" \notin lost => key = HistKey(cpu[c].req)
                       /\ prog = "block" => classify_op(of[cpu[c].req].op) # Unknown
                       /\ UNCHANGED <<stage, since>>
  <1>1. /\ cpu[c].req \in Mine /\ prog \in Programs
        /\ starts.val[cpu[c].ptr] \in [ts : Times, req : Mine]
    BY BusyFacts, Zenon DEF IInv, TypeOK, StartsInv, Measured
  <1>2. HistKey(cpu[c].req) \in HistKeys /\ HistKey(starts.val[cpu[c].ptr].req) \in HistKeys
    BY <1>1, KeyFacts, Zenon
  <1>3. prog = "kprobe" /\ "starts" \notin lost => starts.val[cpu[c].ptr].req = cpu[c].req
    BY DEF Measured, IInv, ThreadInv
  <1>4. CASE prog = "block"
    BY <1>2, <1>4, Zenon DEF Measured, Measure, Remaining
  <1>5. CASE prog = "nfs"
    BY <1>2, <1>5, Zenon DEF Measured, Measure, Remaining
  <1>6. CASE prog = "kprobe"
    BY <1>2, <1>3, <1>6, Zenon DEF Measured, Measure, Remaining
  <1> QED
    BY <1>4, <1>5, <1>6, ZenonT(30) DEF Measured

LEMMA MeasurePreserves == ASSUME IInv, NEW c \in Cpus, Measured(c) PROVE IInv'
  <1>1. /\ cpu[c].at = "found" /\ Remaining(c)
        /\ UNCHANGED <<prog, attached, now, retried, hists, measured, creators, lost>>
        /\ TypeOK /\ cpu[c] \in Probes
    BY MeasureFacts, Zenon DEF IInv, TypeOK
  <1>2. CASE Finish(c)
    BY <1>1, <1>2, FinishPreserves DEF TypeOK, Maps
  <1>3. CASE ~Finish(c)
    <2> DEFINE delta == cpu[c].clock - starts.val[cpu[c].ptr].ts
    <2>1. PICK key \in HistKeys :
              /\ delta >= 0
              /\ cpu' = [cpu EXCEPT ![c] =
                    [@ EXCEPT !.at = "hist", !.ptr = Nil, !.key = key, !.clock = 0, !.lat = delta]]
              /\ "starts" \notin lost => key = HistKey(cpu[c].req)
              /\ UNCHANGED <<stage, since>>
      BY <1>3, MeasureFacts, Zenon
    <2> DEFINE p == [cpu[c] EXCEPT !.at = "hist", !.ptr = Nil, !.key = key, !.clock = 0, !.lat = delta]
    <2>2. delta \in Latencies
      <3>1. cpu[c].clock \in Times /\ starts.val[cpu[c].ptr].ts \in Times
        BY <1>1 DEF IInv, StartsInv, Probes
      <3> QED
        BY ONLY ProgramsAssumption, <2>1, <3>1 DEF Latencies, delta
    <2> HIDE DEF delta
    <2>3. p \in Probes /\ p.at = "hist" /\ p.req = cpu[c].req /\ p.key = key
      BY <1>1, <2>2, ZeroLatency, Zenon DEF Probes
    <2>4. cpu' = [cpu EXCEPT ![c] = p]
      BY <2>1
    <2> HIDE DEF p
    <2> QED
      BY <1>1, <2>1, <2>3, <2>4, CountingPreserves, Zenon
  <1> QED
    BY <1>2, <1>3

LEMMA FindHistPreserves == ASSUME IInv, NEW c \in Cpus, FindHist(c) PROVE IInv'
  <1> DEFINE e == hists.at[cpu[c].key]
             p == [cpu[c] EXCEPT !.at = IF e = Nil THEN "create" ELSE "add", !.ptr = e]
  <1>1. /\ UNCHANGED <<prog, attached, now, stage, retried, starts, hists, since, measured,
                       creators, lost>>
        /\ cpu[c].at = "hist"
        /\ cpu' = [cpu EXCEPT ![c] = p]
    BY DEF FindHist, Lookup
  <1>2. Counting(c) /\ Remaining(c) /\ cpu[c] \in Probes /\ cpu[c].key \in HistKeys
    BY <1>1, Zenon DEF Counting, Remaining, IInv, LocalInv, Local, TypeOK
  <1>3. e \in HistElems \cup {Nil}
    BY <1>2 DEF IInv, TypeOK
  <1>4. /\ p \in Probes /\ p.at = (IF e = Nil THEN "create" ELSE "add") /\ p.ptr = e
        /\ p.req = cpu[c].req /\ p.key = cpu[c].key
    BY <1>2, <1>3, Zenon DEF Probes
  <1>5. "starts" \notin lost => p.key = HistKey(p.req)
    BY <1>2, <1>4 DEF IInv, AttributedRight
  <1>6. p.at = "create" => hists.at[p.key] = Nil
    BY ONLY <1>4 DEF e
  <1> HIDE DEF p, e
  <1> QED
    BY <1>1, <1>2, <1>3, <1>4, <1>5, <1>6, CountingPreserves, Zenon

LEMMA FindCreatedPreserves == ASSUME IInv, NEW c \in Cpus, FindCreated(c) PROVE IInv'
  <1> DEFINE e == hists.at[cpu[c].key]
             p == [cpu[c] EXCEPT !.at = "add", !.ptr = e]
  <1>1. /\ UNCHANGED <<prog, attached, now, retried, starts, hists, measured, creators, lost>>
        /\ cpu[c].at = "again"
        /\ \/ e = Nil /\ Finish(c)
           \/ e # Nil /\ cpu' = [cpu EXCEPT ![c] = p] /\ UNCHANGED <<stage, since>>
    BY DEF FindCreated, Lookup
  <1>2. /\ Counting(c) /\ Remaining(c) /\ cpu[c] \in Probes /\ cpu[c].key \in HistKeys
        /\ TypeOK
    BY <1>1 DEF Counting, Remaining, IInv, LocalInv, Local, TypeOK
  <1>3. CASE e = Nil
    BY <1>1, <1>2, <1>3, FinishPreserves, Zenon DEF TypeOK, Maps
  <1>4. CASE e # Nil
    <2>1. e \in HistElems
      BY <1>2, <1>4 DEF TypeOK
    <2>2. p \in Probes /\ p.at = "add" /\ p.ptr = e /\ p.req = cpu[c].req /\ p.key = cpu[c].key
      BY <1>2, <2>1, Zenon DEF Probes
    <2>3. "starts" \notin lost => p.key = HistKey(p.req)
      BY <1>2, <2>2 DEF IInv, AttributedRight
    <2> HIDE DEF p, e
    <2> QED
      BY <1>1, <1>2, <1>4, <2>1, <2>2, <2>3, CountingPreserves, Zenon
  <1> QED
    BY <1>3, <1>4

LEMMA AddOne ==
    ASSUME NEW A, NEW B, NEW f \in [A -> [B -> Nat]], NEW a \in A, NEW b
    PROVE  [f EXCEPT ![a][b] = @ + 1] \in [A -> [B -> Nat]]
  <1> DEFINE g == [f[a] EXCEPT ![b] = f[a][b] + 1]
  <1>1. f[a] \in [B -> Nat]
    OBVIOUS
  <1>2. g \in [B -> Nat]
    <2> DEFINE h == f[a]
    <2>1. h \in [B -> Nat]
      BY <1>1
    <2> HIDE DEF h
    <2>2. \A x \in B : [h EXCEPT ![b] = h[b] + 1][x] \in Nat
      BY ONLY <2>1
    <2>3. [h EXCEPT ![b] = h[b] + 1] \in [B -> Nat]
      BY <2>1, <2>2, Zenon
    <2> QED
      BY <2>3 DEF h
  <1>3. [f EXCEPT ![a][b] = @ + 1] = [f EXCEPT ![a] = g]
    OBVIOUS
  <1> HIDE DEF g
  <1> QED
    BY <1>2, <1>3, Zenon

LEMMA AddPreserves == ASSUME IInv, NEW c \in Cpus, Add(c) PROVE IInv'
  <1>1. /\ UNCHANGED <<prog, attached, now, retried, starts, creators, lost>>
        /\ cpu[c].at = "add" /\ Finish(c)
        /\ hists' = [hists EXCEPT !.val[cpu[c].ptr][SlotOf(cpu[c].lat)] = @ + 1]
        /\ measured' = [measured EXCEPT ![cpu[c].key][cpu[c].lat] = @ + 1]
    BY Zenon DEF Add
  <1>2. cpu[c].ptr \in HistElems /\ cpu[c].key \in HistKeys /\ TypeOK
    BY <1>1, PointerFacts DEF IInv, LocalInv, Local, Counting
  <1>3. measured' \in [HistKeys -> [Latencies -> Nat]]
    <2>1. measured \in [HistKeys -> [Latencies -> Nat]]
      BY <1>2 DEF TypeOK
    <2> QED
      BY <1>1, <1>2, <2>1, AddOne, Zenon
  <1> DEFINE w == [hists.val EXCEPT ![cpu[c].ptr][SlotOf(cpu[c].lat)] = @ + 1]
  <1>4. w \in [HistElems -> [Slots -> Nat]]
    <2>1. hists.val \in [HistElems -> [Slots -> Nat]]
      BY <1>2, Zenon DEF TypeOK
    <2> QED
      BY <1>2, <2>1, AddOne, Zenon
  <1>5. hists' = [hists EXCEPT !.val = w]
    BY <1>1
  <1> HIDE DEF w
  <1>6. hists' \in Maps(HistKeys, HistElems, [Slots -> Nat]) /\ hists'.at = hists.at
    BY <1>2, <1>4, <1>5, Zenon DEF TypeOK, Maps
  <1> QED
    BY <1>1, <1>3, <1>6, FinishPreserves, Zenon DEF Remaining

LEMMA CreateHistPreserves == ASSUME IInv, NEW c \in Cpus, CreateHist(c) PROVE IInv'
  <1> DEFINE k == cpu[c].key
             p == [cpu[c] EXCEPT !.at = "again"]
  <1>1. /\ UNCHANGED <<prog, attached, now, stage, retried, starts, since, measured>>
        /\ cpu[c].at = "create" /\ cpu' = [cpu EXCEPT ![c] = p]
    BY DEF CreateHist
  <1>2. PICK u \in Updates(hists, k, zero_hist) :
            /\ hists' = u.map
            /\ lost' = IF u.evicted = {} /\ Lookup(hists, k) = Nil THEN lost ELSE lost \cup {"hists"}
            /\ creators' = [j \in HistKeys |-> IF j \in u.evicted THEN {}
                                               ELSE IF j = k THEN creators[j] \cup {c}
                                               ELSE creators[j]]
    BY DEF CreateHist
  <1>3. /\ Counting(c) /\ Remaining(c) /\ cpu[c] \in Probes /\ k \in HistKeys
        /\ TypeOK /\ cpu[c].req \in Mine /\ stage[cpu[c].req] = "ending"
    BY <1>1, BusyFacts DEF Counting, Remaining, IInv, LocalInv, Local, TypeOK
  <1>4. zero_hist \in [Slots -> Nat]
    BY Zenon DEF zero_hist
  <1>5. hists \in Maps(HistKeys, HistElems, [Slots -> Nat]) /\ Linked(hists)
    BY DEF IInv, TypeOK, HistsInv, Maps
  <1>6. /\ hists' \in Maps(HistKeys, HistElems, [Slots -> Nat]) /\ Linked(hists')
        /\ hists'.at[k] \in HistElems
        /\ \A i \in HistKeys \ ({k} \cup u.evicted) : hists'.at[i] = hists.at[i]
    <2> DEFINE V == [Slots -> Nat]
               z == zero_hist
    <2>1. /\ Nil \notin HistElems /\ hists \in Maps(HistKeys, HistElems, V) /\ Linked(hists)
          /\ k \in HistKeys /\ z \in V /\ u \in Updates(hists, k, z)
      BY <1>2, <1>3, <1>4, <1>5, Zenon
    <2> HIDE DEF k, V, z
    <2>2. /\ u.map \in Maps(HistKeys, HistElems, V) /\ Linked(u.map)
          /\ u.map.at[k] \in HistElems
          /\ \A i \in HistKeys \ ({k} \cup u.evicted) : u.map.at[i] = hists.at[i]
      BY ONLY <2>1, UpdateFacts
    <2> QED
      BY ONLY <1>2, <2>2, Zenon DEF V
  <1>7. p \in Probes /\ p.at = "again" /\ p.req = cpu[c].req /\ p.key = k
    BY <1>3, Zenon DEF Probes
  <1> HIDE DEF p
  <1>8. cpu'[c] = p /\ \A d \in Cpus \ {c} : cpu'[d] = cpu[d]
    BY <1>1, <1>3 DEF TypeOK
  <1>9. Mine' = Mine /\ StartKeys' = StartKeys /\ HistKeys' = HistKeys /\ Probes' = Probes
    BY <1>1, SameProg, Zenon
  <1>10. ("starts" \in lost' <=> "starts" \in lost) /\ lost' \subseteq {"starts", "hists"}
    BY <1>2, <1>3, Zenon DEF TypeOK
  <1>11. \A j \in HistKeys : creators'[j] \subseteq creators[j] \cup {c}
    BY <1>2, Zenon
  <1>12. StartsInv' /\ TimeInv' /\ ThreadInv'
    BY <1>1, <1>3, <1>7, <1>8, <1>10, StartsKept, Zenon
  <1>13. TypeOK'
    <2>1. cpu' \in [Cpus -> Probes]
      BY <1>1, <1>3, <1>7, Zenon DEF TypeOK
    <2>2. \A d \in Cpus : (cpu'[d].at = "found" => cpu'[d].ptr \in StartElems)
                          /\ (cpu'[d].at = "add" => cpu'[d].ptr \in HistElems)
      BY <1>7, <1>8, PointerFacts
    <2>3. creators' \in [HistKeys -> SUBSET Cpus]
      BY <1>2, <1>3, Zenon DEF TypeOK
    <2> QED
      BY <1>1, <1>3, <1>6, <1>9, <1>10, <2>1, <2>2, <2>3, Zenon DEF TypeOK, Maps
  <1>14. LocalInv'
    <2>1. \A d \in Cpus \ {c} : Local(d)'
      BY <1>1, <1>8, <1>9, LocalKept, Zenon DEF IInv, LocalInv
    <2>2. Local(c)'
      <3>1. p.req \in Mine' /\ p.key \in HistKeys' /\ stage'[p.req] = "ending"
        BY <1>1, <1>3, <1>7, <1>9, Zenon
      <3> QED
        BY <1>7, <1>8, <3>1, CountsLocally, Zenon
    <2> QED
      BY ONLY IInv, <1>1, <1>7, <1>8, <2>1, <2>2, c \in Cpus, RequestsApart, Zenon DEF IInv
  <1>15. HistsInv'
    <2>1. ASSUME NEW j \in HistKeys, hists'.at[j] = Nil PROVE creators'[j] = {}
      <3>1. j # k
        BY <2>1, <1>6, Zenon
      <3>2. CASE j \in u.evicted
        BY <3>2, <1>2
      <3>3. CASE j \notin u.evicted
        BY <2>1, <3>1, <3>3, <1>2, <1>6, Zenon DEF IInv, HistsInv
      <3> QED
        BY <3>2, <3>3, Zenon
    <2> QED
      BY <1>6, <1>9, <2>1 DEF HistsInv
  <1>16. AttributedRight'
    BY <1>3, <1>7, <1>8, <1>10 DEF IInv, AttributedRight, Counting
  <1>17. CreatesOnce'
    <2>1. ASSUME NEW d \in Cpus, cpu'[d].at = "create" PROVE d \notin creators'[cpu'[d].key]
      <3>1. d # c /\ cpu'[d] = cpu[d]
        BY <2>1, <1>7, <1>8, Zenon
      <3>2. d \notin creators[cpu[d].key] /\ cpu[d].key \in HistKeys
        BY <2>1, <3>1 DEF IInv, CreatesOnce, LocalInv, Local, Counting
      <3> QED
        BY ONLY <3>1, <3>2, <1>11
    <2> QED
      BY <2>1, Zenon DEF CreatesOnce
  <1> QED
    BY <1>12, <1>13, <1>14, <1>15, <1>16, <1>17 DEF IInv
-----------------------------------------------------------------------------
(* What happens outside the probes.                                        *)

LEMMA StartUnseenPreserves == ASSUME IInv, NEW r \in Mine, StartUnseen(r) PROVE IInv'
  <1>1. PICK to \in {"flying", "bare"} :
            /\ stage' = [stage EXCEPT ![r] = to]
            /\ prog = "kprobe" => to = "bare"
    BY Zenon DEF StartUnseen, Move
  <1>2. /\ UNCHANGED <<prog, attached, now, retried, starts, hists, cpu, measured, creators, lost>>
        /\ stage[r] = "new" /\ since' = [since EXCEPT ![r] = now] /\ TypeOK
        /\ attached = "none" \/ (prog = "block" /\ classify_op(of[r].op) = Unknown)
    BY Zenon DEF StartUnseen, IInv
  <1>3. stage'[r] = to /\ \A q \in Mine \ {r} : stage'[q] = stage[q]
    BY <1>1, <1>2, Zenon DEF TypeOK
  <1>4. since'[r] = now /\ \A q \in Mine \ {r} : since'[q] = since[q]
    BY <1>2, SMTT(30) DEF TypeOK
  <1>5. /\ Mine' = Mine /\ StartKeys' = StartKeys /\ HistKeys' = HistKeys /\ Probes' = Probes
        /\ \A q : StartKey(q)' = StartKey(q) /\ Timed(q)' = Timed(q)
    BY <1>2, SameProg, Zenon
  <1>6. \A d \in Cpus : cpu[d].at # "idle" => cpu[d].req \in Mine \ {r}
    BY <1>2, BusyFacts, Zenon
  <1>7. TypeOK'
    <2>1. since' \in [Mine -> Times] /\ stage' \in [Mine -> Stages]
      BY <1>1, <1>2, Zenon DEF TypeOK, Stages
    <2> QED
      BY <1>2, <1>5, <2>1, Zenon DEF TypeOK
  <1>8. LocalInv'
    <2>1. \A d \in Cpus : Local(d)'
      BY <1>2, <1>3, <1>5, <1>6, LocalKept, Zenon DEF IInv, LocalInv
    <2> QED
      BY <1>2, <2>1, Zenon DEF IInv, LocalInv
  <1>9. StartsInv' /\ HistsInv' /\ AttributedRight' /\ CreatesOnce'
    BY <1>2, <1>5, Zenon DEF IInv, StartsInv, HistsInv, AttributedRight, CreatesOnce, Counting
  <1>10. TimeInv'
    <2>1. now \in Nat /\ StartKey(r) \in StartKeys
      BY <1>2, KeyFacts, Zenon DEF TypeOK
    <2>2. \A q \in Mine : since'[q] <= now
      BY <1>4, <2>1, SMTT(30) DEF IInv, TimeInv
    <2>3. Timed(r) => starts.at[StartKey(r)] = Nil /\ \A d \in Cpus : cpu[d].at = "idle"
      BY <1>2, <2>1, Zenon DEF IInv, StartsInv, Timed
    <2>4. \A d \in Cpus : cpu[d].at = "found" => since'[cpu[d].req] = since[cpu[d].req]
      BY <1>4, <1>6, Zenon
    <2>5. ASSUME NEW q \in Mine, Timed(q), stage'[q] \in {"starting", "flying", "ending"},
                 NEW d \in Cpus, cpu[d].at = "start"
          PROVE  since'[q] <= cpu[d].clock
      <3>1. q # r
        BY <2>3, <2>5, Zenon
      <3> QED
        BY <1>3, <1>4, <2>5, <3>1, Zenon DEF IInv, TimeInv
    <2>6. ASSUME NEW q \in Mine, Timed(q), stage'[q] = "flying", starts.at[StartKey(q)] # Nil
          PROVE  since'[q] <= starts.val[starts.at[StartKey(q)]].ts
      <3>1. q # r
        BY <2>3, <2>6, Zenon
      <3> QED
        BY <1>3, <1>4, <2>6, <3>1, Zenon DEF IInv, TimeInv
    <2>7. ASSUME NEW d \in Cpus, cpu'[d].at = "found", Timed(cpu[d].req)'
          PROVE  since'[cpu[d].req] <= starts.val[cpu[d].ptr].ts
      <3>1. PICK q \in Mine \ {r} : q = cpu[d].req /\ q = cpu'[d].req
        BY <2>7, <1>2, <1>6, Zenon
      <3>2. Timed(q)
        BY <2>7, <3>1, <1>2, Zenon DEF Timed
      <3> QED
        BY <2>4, <2>7, <3>1, <3>2, <1>2, Zenon DEF IInv, TimeInv
    <2> QED
      BY <1>2, <1>5, <2>2, <2>5, <2>6, <2>7, Zenon DEF TimeInv
  <1>11. ThreadInv'
    <2>1. ASSUME prog = "kprobe", NEW q \in Mine \ {r}, pid_tgid(q) = pid_tgid(r)
          PROVE  stage[q] \in {"new", "done"}
      BY <2>1, Zenon DEF StartUnseen, ThreadFree, pid_tgid
    <2>2. ASSUME prog = "kprobe", NEW p \in Mine, NEW q \in Mine, p # q, pid_tgid(p) = pid_tgid(q)
          PROVE  stage'[p] \in {"new", "done"} \/ stage'[q] \in {"new", "done"}
      <3>1. CASE p = r
        BY <1>3, <2>1, <2>2, <3>1, Zenon
      <3>2. CASE q = r
        BY <1>3, <2>1, <2>2, <3>2, Zenon
      <3>3. CASE p # r /\ q # r
        BY <1>3, <2>2, <3>3, Zenon DEF IInv, ThreadInv
      <3> QED
        BY <3>1, <3>2, <3>3, Zenon
    <2>3. ASSUME prog = "kprobe", "starts" \notin lost, NEW q \in Mine, stage'[q] = "flying"
          PROVE  starts.at[pid_tgid(q)] # Nil /\ starts.val[starts.at[pid_tgid(q)]].req = q
      <3>1. q # r
        BY <1>1, <1>3, <2>3, Zenon
      <3> QED
        BY <1>3, <2>3, <3>1, Zenon DEF IInv, ThreadInv
    <2>4. prog = "kprobe" /\ "starts" \notin lost =>
              \A d \in Cpus : cpu[d].at = "found" =>
                  /\ cpu[d].ptr = starts.at[pid_tgid(cpu[d].req)]
                  /\ starts.val[cpu[d].ptr].req = cpu[d].req
      BY Zenon DEF IInv, ThreadInv
    <2> QED
      BY <1>2, <1>5, <2>2, <2>3, <2>4, Zenon DEF ThreadInv
  <1> QED
    BY <1>7, <1>8, <1>9, <1>10, <1>11 DEF IInv

LEMMA RetryPreserves == ASSUME IInv, NEW r \in Mine, Retry(r) PROVE IInv'
  <1>1. /\ UNCHANGED <<prog, attached, now, starts, hists, cpu, since, measured, creators, lost>>
        /\ stage[r] = "done" /\ stage' = [stage EXCEPT ![r] = "flying"]
        /\ prog = "nfs" /\ retried' = retried \cup {r} /\ TypeOK
    BY Zenon DEF Retry, Move, IInv
  <1>2. stage'[r] = "flying" /\ \A q \in Mine \ {r} : stage'[q] = stage[q]
    BY <1>1 DEF TypeOK
  <1>3. /\ Mine' = Mine /\ StartKeys' = StartKeys /\ HistKeys' = HistKeys /\ Probes' = Probes
        /\ \A q \in Mine \ {r} : StartKey(q)' = StartKey(q) /\ Timed(q)' = Timed(q)
        /\ ~Timed(r)'
    <2>1. ~Timed(r)'
      BY <1>1 DEF Timed
    <2> QED
      BY <1>1, <2>1, SameProg
  <1>4. \A d \in Cpus : cpu[d].at # "idle" => cpu[d].req \in Mine \ {r}
    BY <1>1, BusyFacts, Zenon
  <1>5. TypeOK'
    <2>1. stage' \in [Mine -> Stages] /\ retried' \subseteq Mine
      BY <1>1, Zenon DEF TypeOK, Stages
    <2> QED
      BY <1>1, <1>3, <2>1, Zenon DEF TypeOK
  <1>6. LocalInv'
    <2>1. \A d \in Cpus : Local(d)'
      BY <1>1, <1>2, <1>3, <1>4, LocalKept, Zenon DEF IInv, LocalInv
    <2> QED
      BY <1>1, <2>1, Zenon DEF IInv, LocalInv
  <1>7. StartsInv' /\ HistsInv' /\ AttributedRight' /\ CreatesOnce'
    BY <1>1, <1>3, Zenon DEF IInv, StartsInv, HistsInv, AttributedRight, CreatesOnce, Counting
  <1>8. TimeInv'
    <2>1. ASSUME NEW q \in Mine, Timed(q)'
          PROVE  q # r /\ Timed(q) /\ stage'[q] = stage[q] /\ StartKey(q)' = StartKey(q)
      BY <2>1, <1>2, <1>3, Zenon
    <2>3. \A q \in Mine : since'[q] <= now'
      BY <1>1, Zenon DEF IInv, TimeInv
    <2>4. ASSUME NEW q \in Mine, Timed(q)', stage'[q] \in {"starting", "flying", "ending"},
                 NEW d \in Cpus, cpu[d].at = "start"
          PROVE  since[q] <= cpu[d].clock
      BY <2>1, <2>4, Zenon DEF IInv, TimeInv
    <2>5. ASSUME NEW q \in Mine, Timed(q)', stage'[q] = "flying", starts.at[StartKey(q)'] # Nil
          PROVE  since[q] <= starts.val[starts.at[StartKey(q)']].ts
      <3>1. Timed(q) /\ stage[q] = "flying" /\ StartKey(q)' = StartKey(q)
        BY <2>1, <2>5, Zenon
      <3>2. starts.at[StartKey(q)] # Nil => since[q] <= starts.val[starts.at[StartKey(q)]].ts
        BY <3>1, Zenon DEF IInv, TimeInv
      <3> QED
        BY <2>5, <3>1, <3>2, Zenon
    <2>6. ASSUME NEW d \in Cpus, cpu'[d].at = "found", Timed(cpu[d].req)'
          PROVE  since[cpu[d].req] <= starts.val[cpu[d].ptr].ts
      <3>1. PICK q \in Mine \ {r} : q = cpu[d].req /\ q = cpu'[d].req
        BY <2>6, <1>1, <1>4, Zenon
      <3>2. Timed(q)'
        BY <2>6, <3>1, Zenon DEF Timed
      <3> QED
        BY <2>1, <2>6, <3>1, <3>2, <1>1, Zenon DEF IInv, TimeInv
    <2> QED
      BY <1>1, <1>3, <2>3, <2>4, <2>5, <2>6, Zenon DEF TimeInv
  <1>9. ThreadInv'
    BY <1>1 DEF ThreadInv
  <1> QED
    BY <1>5, <1>6, <1>7, <1>8, <1>9, Zenon DEF IInv

LEMMA AttachPreserves == IInv /\ Attach => IInv'
  <1> SUFFICES ASSUME IInv, Attach PROVE IInv'
    OBVIOUS
  <1>1. /\ UNCHANGED <<prog, now, stage, retried, starts, hists, cpu, since, measured, creators, lost>>
        /\ attached' \in {"starts", "both"} /\ TypeOK
    BY DEF Attach, IInv
  <1>2. /\ Mine' = Mine /\ StartKeys' = StartKeys /\ HistKeys' = HistKeys /\ Probes' = Probes
        /\ \A q : StartKey(q)' = StartKey(q) /\ Timed(q)' = Timed(q)
    BY <1>1, SameProg
  <1>3. TypeOK' /\ LocalInv'
    BY <1>1, <1>2, ZenonT(30) DEF IInv, TypeOK, LocalInv, Local, Counting
  <1>4. StartsInv' /\ HistsInv' /\ AttributedRight' /\ CreatesOnce'
    BY <1>1, <1>2, Zenon DEF IInv, StartsInv, HistsInv, AttributedRight, CreatesOnce, Counting
  <1>5. TimeInv' /\ ThreadInv'
    BY <1>1, <1>2 DEF IInv, TimeInv, ThreadInv
  <1> QED
    BY <1>3, <1>4, <1>5 DEF IInv

LEMMA TickPreserves == IInv /\ (Tick \/ UNCHANGED vars) => IInv'
  <1> SUFFICES ASSUME IInv, Tick \/ UNCHANGED vars PROVE IInv'
    OBVIOUS
  <1>1. /\ UNCHANGED <<prog, attached, stage, retried, starts, hists, cpu, since, measured,
                       creators, lost>>
        /\ now' \in Times /\ now <= now' /\ TypeOK
    <2>1. now \in Times /\ TypeOK
      BY DEF IInv, TypeOK
    <2>2. CASE Tick
      BY ONLY ProgramsAssumption, <2>1, <2>2 DEF Tick
    <2>3. CASE UNCHANGED vars
      BY ONLY ProgramsAssumption, <2>1, <2>3 DEF vars
    <2> QED
      BY <2>2, <2>3, Zenon
  <1>2. /\ Mine' = Mine /\ StartKeys' = StartKeys /\ HistKeys' = HistKeys /\ Probes' = Probes
        /\ \A q : StartKey(q)' = StartKey(q) /\ Timed(q)' = Timed(q)
    BY <1>1, SameProg
  <1>3. TypeOK' /\ LocalInv'
    BY <1>1, <1>2, Zenon DEF IInv, TypeOK, LocalInv, Local, Counting
  <1>4. StartsInv' /\ HistsInv' /\ AttributedRight' /\ CreatesOnce'
    BY <1>1, <1>2, ZenonT(30) DEF IInv, StartsInv, HistsInv, AttributedRight, CreatesOnce, Counting
  <1>5. TimeInv'
    <2>1. \A q \in Mine : since[q] \in Nat /\ now \in Nat /\ now' \in Nat
      BY <1>1, Zenon DEF TypeOK
    <2>2. \A q \in Mine : since[q] <= now'
      <3>1. now' >= now /\ \A q \in Mine : since[q] <= now
        BY <1>1, Zenon DEF IInv, TimeInv
      <3> QED
        BY ONLY <2>1, <3>1
    <2> QED
      BY <1>1, <1>2, <2>2 DEF IInv, TimeInv
  <1>6. ThreadInv'
    BY <1>1, <1>2 DEF IInv, ThreadInv
  <1> QED
    BY <1>3, <1>4, <1>5, <1>6 DEF IInv
-----------------------------------------------------------------------------
(* All steps.                                                              *)

\* The steps of a probe, whichever program it belongs to.
LEMMA ProbeSteps ==
    ASSUME NEW c \in Cpus, Probe(c)
    PROVE  \/ \E r \in Mine : ReadClock(c, r) /\ (prog = "kprobe" => ThreadFree(r))
           \/ PutStart(c)
           \/ \E r \in Mine : FindStart(c, r)
           \/ Measured(c)
           \/ FindHist(c) \/ CreateHist(c) \/ FindCreated(c) \/ Add(c)
  BY Zenon DEF Probe, tracepoint__block__block_rq_issue, raw_tp_nfs_initiate, record_start,
         tracepoint__block__block_rq_complete, raw_tp_nfs_done, nfs_record_latency,
         kretprobe_nfs_vfs, Count, Measured

LEMMA NextPreserves == IInv /\ [Next]_vars => IInv'
  <1> SUFFICES ASSUME IInv, [Next]_vars PROVE IInv'
    OBVIOUS
  <1>1. ASSUME NEW c \in Cpus, Probe(c) PROVE IInv'
    BY <1>1, ProbeSteps, ReadClockPreserves, PutStartPreserves, FindStartPreserves,
       MeasurePreserves, FindHistPreserves, CreateHistPreserves, FindCreatedPreserves,
       AddPreserves, Zenon
  <1>2. ASSUME NEW r \in Mine, EndUnseen(r) PROVE IInv'
    BY <1>2, EndPreserves DEF EndUnseen
  <1>3. ASSUME NEW r \in Mine, StartUnseen(r) \/ Retry(r) PROVE IInv'
    BY <1>3, StartUnseenPreserves, RetryPreserves
  <1> QED
    BY <1>1, <1>2, <1>3, AttachPreserves, TickPreserves DEF Next, Quiet

LEMMA Invariance == Spec => []IInv
  BY InitIInv, NextPreserves, PTL DEF Spec

\* A probe that has found a start goes on to count only by measuring.
LEMMA FoundToHist ==
    ASSUME IInv, [Next]_vars, NEW c \in Cpus, cpu[c].at = "found", cpu'[c].at = "hist"
    PROVE  Measured(c)
  <1>1. TypeOK
    BY DEF IInv
  <1>2. cpu' # cpu
    BY Zenon
  <1>3. PICK d \in Cpus : Probe(d)
    BY <1>2 DEF Next, vars, StartUnseen, EndUnseen, Retry, Attach, Tick, Quiet
  <1>4. CASE d # c
    <2>1. cpu'[c] = cpu[c]
      <3>1. ASSUME NEW r \in Mine, ReadClock(d, r) \/ FindStart(d, r) PROVE cpu'[c] = cpu[c]
        BY <1>1, <1>4, <3>1 DEF TypeOK, ReadClock, FindStart
      <3>2. ASSUME PutStart(d) \/ FindHist(d) \/ CreateHist(d) PROVE cpu'[c] = cpu[c]
        BY <1>1, <1>4, <3>2, Zenon DEF TypeOK, PutStart, FindHist, CreateHist
      <3>3. ASSUME FindCreated(d) \/ Add(d) PROVE cpu'[c] = cpu[c]
        BY <1>1, <1>4, <3>3, Zenon DEF TypeOK, FindCreated, Add, Finish
      <3>4. ASSUME Measured(d) PROVE cpu'[c] = cpu[c]
        <4>1. CASE Finish(d)
          BY <1>1, <1>4, <4>1, Zenon DEF TypeOK, Finish
        <4>2. CASE ~Finish(d)
          <5>1. \E p : cpu' = [cpu EXCEPT ![d] = p]
            BY <3>4, <4>2, MeasureFacts, Zenon
          <5> QED
            BY <1>1, <1>4, <5>1 DEF TypeOK
        <4> QED
          BY <4>1, <4>2, Zenon
      <3> QED
        BY <1>3, <3>1, <3>2, <3>3, <3>4, ProbeSteps, Zenon
    <2> QED
      BY <2>1, SMTT(30)
  <1>5. CASE d = c
    BY <1>3, <1>5, ProbeSteps, Zenon
       DEF ReadClock, PutStart, FindStart, FindHist, CreateHist, FindCreated, Add
  <1> QED
    BY <1>4, <1>5

LEMMA StepNotTooLong ==
    ASSUME IInv, [Next]_vars, NEW c \in Cpus, cpu[c].at = "found", cpu'[c].at = "hist",
           cpu[c].req \notin retried
    PROVE  cpu'[c].lat <= cpu[c].clock - since[cpu[c].req]
  <1> DEFINE delta == cpu[c].clock - starts.val[cpu[c].ptr].ts
  <1>1. Measured(c) /\ TypeOK /\ cpu[c].req \in Mine /\ cpu[c] \in Probes
    BY FoundToHist, BusyFacts, Zenon DEF IInv, TypeOK
  <1>2. ~Finish(c)
    BY <1>1, IdleFacts DEF Finish, TypeOK
  <1>3. PICK key \in HistKeys :
            /\ cpu' = [cpu EXCEPT ![c] =
                  [@ EXCEPT !.at = "hist", !.ptr = Nil, !.key = key, !.clock = 0, !.lat = delta]]
            /\ prog = "block" => classify_op(of[cpu[c].req].op) # Unknown
    BY <1>1, <1>2, MeasureFacts, Zenon
  <1>4. since[cpu[c].req] <= starts.val[cpu[c].ptr].ts
    BY <1>3 DEF IInv, TimeInv, Timed
  <1>5. cpu[c].clock \in Nat /\ since[cpu[c].req] \in Nat /\ starts.val[cpu[c].ptr].ts \in Nat
    BY <1>1, Zenon DEF IInv, StartsInv, TypeOK, Probes
  <1>6. cpu'[c].lat = delta
    BY <1>1, <1>3 DEF TypeOK, Probes
  <1> QED
    BY ONLY <1>4, <1>5, <1>6, SMTT(30)
-----------------------------------------------------------------------------
\* The maps of common.h and the locals of the probes have values of their types, and a
\* pointer that is used is not null, for any maps, requests and CPUs.
THEOREM TypeCorrect == Spec => []TypeOK
  BY Invariance, PTL DEF IInv

\* With start times by thread, the kprobes count a call under its own device and
\* operation, as long as no start time was evicted (nfs_kprobe_latency.c:36-45 and
\* 93-101); so do the other two programs, which do not rely on it.
THEOREM CountedUnderOwnKey == Spec => []AttributedRight
  BY Invariance, PTL DEF IInv

\* A CPU creates a histogram only once until it is evicted, so that the race of first
\* completions ends (block_latency.c:93-96, nfs_latency.c:67-70,
\* nfs_kprobe_latency.c:110-113).
THEOREM RaceOfCreationsEnds == Spec => []CreatesOnce
  BY Invariance, PTL DEF IInv

\* No start time that is left behind, overwritten, evicted or reused makes a latency
\* longer than the request took (block_latency.c:56-58 and 74-82,
\* nfs_latency.c:52-61, nfs_kprobe_latency.c:44 and 93-104).
THEOREM LatenciesNotTooLong == Spec => NeverTooLong
  <1>1. IInv /\ [Next]_vars =>
            [\A c \in Cpus :
                cpu[c].at = "found" /\ cpu'[c].at = "hist" /\ cpu[c].req \notin retried =>
                    cpu'[c].lat <= cpu[c].clock - since[cpu[c].req]]_vars
    BY StepNotTooLong
  <1> QED
    BY <1>1, Invariance, PTL DEF Spec, NeverTooLong
=============================================================================
