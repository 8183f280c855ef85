------------------------- MODULE QgaCollectorProofs -------------------------
(***************************************************************************)
(* Proofs about QgaCollector, for any set of containers and any settings.  *)
(***************************************************************************)
EXTENDS QgaCollector, TLAPS

\* Goroutines exist only while poll() waits for them, and only for VMs in the map;
\* targets are dialed only if they have no entry.
WorkerInv ==
    /\ phase # "scrape" => \A v \in Containers : worker[v] = "none"
    /\ \A v \in Containers : worker[v] # "none" => v \in vms
    /\ todo \cap vms = {}

\* There is a snapshot only in a vmState that is in the map.
AbsentInv == \A v \in Containers \ vms : prevSnapshot[v] = Nil

\* A client is closed under its entry only by the scrape of that entry, at a point
\* where nothing but the end of the scrape follows.
ClientInv ==
    /\ \A v \in Containers \ vms : client[v] \in {"none", "closed"}
    /\ \A v \in Containers :
          worker[v] \in {"queued", "exec", "map"} => client[v] # "closed"

\* A VM that is not passive has failed fewer than Threshold times in a row.
CountInv ==
    \A v \in Containers :
        /\ retryCount[v] <= fails[v]
        /\ v \notin passive => retryCount[v] < Threshold
        /\ v \in passive => fails[v] = Threshold /\ lastPassiveAt # Nil

\* The scrape of v by the poll under way, if there is one, is still to end.
Pending(v) == phase = "connect" \/ worker[v] # "none"

\* The age of a snapshot is the number of failures since it was taken.
SnapshotInv ==
    \A v \in Containers : prevSnapshot[v] # Nil =>
        /\ v \notin passive
        /\ prevSnapshot[v] = IF Pending(v) THEN retryCount[v] + 1 ELSE retryCount[v]

IInv == /\ TypeOK
        /\ WorkerInv
        /\ AbsentInv
        /\ ClientInv
        /\ CountInv
        /\ SnapshotInv
        /\ SpanBounded
-----------------------------------------------------------------------------
LEMMA ThresholdFacts ==
    /\ Threshold \in Nat
    /\ Threshold >= 1
    /\ Threshold >= MaxRetries
    /\ SpanCap = Threshold + 1
  BY ConfigAssumption DEF Threshold, SpanCap

LEMMA CountFacts ==
    ASSUME NEW n \in 0..Threshold
    PROVE  /\ Count(n) \in 0..Threshold
           /\ n < Threshold => Count(n) = n + 1
           /\ n <= Count(n)
           /\ \A m \in 0..Threshold : m <= n => Count(m) <= Count(n)
  BY ThresholdFacts DEF Count

LEMMA OlderFacts ==
    /\ Older(Nil) = Nil
    /\ \A s \in 0..SpanCap :
          /\ Older(s) \in 0..SpanCap
          /\ Older(s) # Nil
          /\ s # SpanCap => Older(s) = s + 1
  BY ThresholdFacts, ConfigAssumption DEF Older

LEMMA InitIInv == Init => IInv
  <1> SUFFICES ASSUME Init PROVE IInv
    OBVIOUS
  <1> USE ThresholdFacts, ConfigAssumption DEF Init
  <1>1. TypeOK
    <2>1. found \in SUBSET Result /\ results \in SUBSET Result
      OBVIOUS
    <2>2. lastPassiveAt \in 0..PassiveCycle \cup {Nil}
      OBVIOUS
    <2> QED
      BY <2>1, <2>2 DEF TypeOK
  <1>2. WorkerInv /\ AbsentInv /\ ClientInv /\ CountInv
    BY DEF WorkerInv, AbsentInv, ClientInv, CountInv
  <1>3. SnapshotInv /\ SpanBounded
    BY DEF SnapshotInv, SpanBounded
  <1> QED
    BY <1>1, <1>2, <1>3 DEF IInv
-----------------------------------------------------------------------------
(* The steps of Run() and poll().                                          *)

LEMMA StartPollPreserves == IInv /\ StartPoll => IInv'
  <1> SUFFICES ASSUME IInv, StartPoll PROVE IInv'
    OBVIOUS
  <1> USE ThresholdFacts, OlderFacts, ConfigAssumption
      DEF IInv, StartPoll, Drop, Forget, world
  <1>1. TypeOK'
    BY DEF TypeOK, Result
  <1>2. WorkerInv' /\ AbsentInv' /\ ClientInv'
    BY DEF TypeOK, WorkerInv, AbsentInv, ClientInv
  <1>3. CountInv'
    BY DEF TypeOK, CountInv
  <1>4. SnapshotInv'
    BY DEF TypeOK, WorkerInv, CountInv, SnapshotInv, Pending
  <1>5. SpanBounded'
    BY DEF SpanBounded
  <1> QED
    BY <1>1, <1>2, <1>3, <1>4, <1>5

LEMMA ConnectPreserves ==
    ASSUME IInv, NEW v \in Containers, Connect(v)
    PROVE  IInv'
  <1> USE DEF IInv, Connect, connectVM, run, conns, states, world
  <1>1. TypeOK'
    BY DEF TypeOK, Result
  <1>2. WorkerInv' /\ AbsentInv' /\ ClientInv'
    BY DEF TypeOK, WorkerInv, AbsentInv, ClientInv
  <1>3. CountInv' /\ SnapshotInv' /\ SpanBounded'
    BY DEF TypeOK, CountInv, SnapshotInv, Pending, SpanBounded
  <1> QED
    BY <1>1, <1>2, <1>3

LEMMA DispatchPreserves == IInv /\ Dispatch => IInv'
  <1> SUFFICES ASSUME IInv, Dispatch PROVE IInv'
    OBVIOUS
  <1> USE ThresholdFacts, ConfigAssumption DEF IInv, Dispatch, Drop, Forget, world
  <1>1. TypeOK'
    BY DEF TypeOK, Result
  <1>2. WorkerInv' /\ AbsentInv' /\ ClientInv'
    BY DEF TypeOK, WorkerInv, AbsentInv, ClientInv
  <1>3. CountInv' /\ SpanBounded'
    BY DEF TypeOK, CountInv, SpanBounded
  <1>4. SnapshotInv'
    <2> SUFFICES ASSUME NEW v \in Containers, prevSnapshot'[v] # Nil
                 PROVE  /\ v \notin passive'
                        /\ prevSnapshot'[v] = IF Pending(v)' THEN retryCount'[v] + 1
                                              ELSE retryCount'[v]
      BY DEF SnapshotInv
    <2>1. v \in vms /\ client[v] # "closed" /\ v \notin passive
      BY DEF TypeOK, SnapshotInv, AbsentInv
    <2>2. worker'[v] = "queued"
      BY <2>1
    <2>3. prevSnapshot'[v] = prevSnapshot[v] /\ retryCount'[v] = retryCount[v]
      BY <2>1
    <2> QED
      BY <2>1, <2>2, <2>3 DEF SnapshotInv, Pending
  <1> QED
    BY <1>1, <1>2, <1>3, <1>4

LEMMA PublishPreserves == IInv /\ Publish => IInv'
  <1> SUFFICES ASSUME IInv, Publish PROVE IInv'
    OBVIOUS
  <1> USE ThresholdFacts, ConfigAssumption
      DEF IInv, Publish, Idle, conns, states, world
  <1>1. TypeOK'
    <2>1. found' \in SUBSET Result /\ results' \in SUBSET Result
      BY DEF TypeOK
    <2>2. lastPassiveAt' \in 0..PassiveCycle \cup {Nil}
      BY DEF TypeOK
    <2> QED
      BY <2>1, <2>2, Zenon DEF TypeOK
  <1>2. WorkerInv' /\ AbsentInv' /\ ClientInv'
    BY DEF WorkerInv, AbsentInv, ClientInv
  <1>3. CountInv' /\ SpanBounded'
    BY DEF CountInv, SpanBounded
  <1>4. SnapshotInv'
    BY DEF WorkerInv, SnapshotInv, Pending
  <1> QED
    BY <1>1, <1>2, <1>3, <1>4

LEMMA CloseAllPreserves == IInv /\ CloseAll => IInv'
  <1> SUFFICES ASSUME IInv, CloseAll PROVE IInv'
    OBVIOUS
  <1> USE ThresholdFacts, ConfigAssumption DEF IInv, CloseAll, Drop, Forget, world
  <1>1. TypeOK'
    BY DEF TypeOK, Result
  <1>2. WorkerInv' /\ AbsentInv' /\ ClientInv'
    BY DEF TypeOK, WorkerInv, AbsentInv, ClientInv
  <1>3. CountInv' /\ SpanBounded'
    BY DEF TypeOK, CountInv, SpanBounded
  <1>4. SnapshotInv'
    BY DEF TypeOK, WorkerInv, SnapshotInv, Pending
  <1> QED
    BY <1>1, <1>2, <1>3, <1>4
-----------------------------------------------------------------------------
(* The steps of a scrape.                                                  *)

LEMMA AcquirePreserves ==
    ASSUME IInv, NEW v \in Containers, Acquire(v)
    PROVE  IInv'
  <1> USE ThresholdFacts, ConfigAssumption DEF IInv, Acquire, Goto, run, conns, states, world
  <1>1. TypeOK'
    BY DEF TypeOK, WorkerInv, Result
  <1>2. WorkerInv' /\ AbsentInv' /\ ClientInv'
    BY DEF TypeOK, WorkerInv, AbsentInv, ClientInv
  <1>3. CountInv'
    BY DEF TypeOK, WorkerInv, CountInv
  <1>4. SnapshotInv'
    BY DEF TypeOK, WorkerInv, CountInv, SnapshotInv, Pending
  <1>5. SpanBounded'
    BY DEF TypeOK, SpanBounded
  <1> QED
    BY <1>1, <1>2, <1>3, <1>4, <1>5

LEMMA ExecPreserves ==
    ASSUME IInv, NEW v \in Containers, Exec(v)
    PROVE  IInv'
  <1> USE ThresholdFacts, ConfigAssumption DEF IInv, Exec, Goto, CloseClient, run, states, world
  <1>1. TypeOK'
    BY DEF TypeOK, WorkerInv, Result
  <1>2. WorkerInv' /\ AbsentInv' /\ ClientInv'
    BY DEF TypeOK, WorkerInv, AbsentInv, ClientInv
  <1>3. CountInv'
    BY DEF TypeOK, WorkerInv, CountInv
  <1>4. SnapshotInv'
    BY DEF TypeOK, WorkerInv, CountInv, SnapshotInv, Pending
  <1>5. SpanBounded'
    BY DEF TypeOK, SpanBounded
  <1> QED
    BY <1>1, <1>2, <1>3, <1>4, <1>5

LEMMA BuildMapPreserves ==
    ASSUME IInv, NEW v \in Containers, BuildMap(v)
    PROVE  IInv'
  <1> USE ThresholdFacts, ConfigAssumption DEF IInv, BuildMap, Goto, CloseClient, run, world
  <1>1. TypeOK'
    BY DEF TypeOK, WorkerInv, Result
  <1>2. WorkerInv' /\ AbsentInv' /\ ClientInv'
    BY DEF TypeOK, WorkerInv, AbsentInv, ClientInv
  <1>3. CountInv'
    BY DEF TypeOK, WorkerInv, CountInv
  <1>4. SnapshotInv'
    BY DEF TypeOK, WorkerInv, CountInv, SnapshotInv, Pending
  <1>5. SpanBounded'
    BY DEF TypeOK, SpanBounded
  <1> QED
    BY <1>1, <1>2, <1>3, <1>4, <1>5

LEMMA CommitPreserves ==
    ASSUME IInv, NEW v \in Containers, Commit(v)
    PROVE  IInv'
  <1> USE ThresholdFacts, ConfigAssumption DEF IInv, Commit, Goto, run, conns, world
  <1>1. TypeOK'
    BY DEF TypeOK, WorkerInv, Result
  <1>2. WorkerInv' /\ AbsentInv' /\ ClientInv'
    BY DEF TypeOK, WorkerInv, AbsentInv, ClientInv
  <1>3. CountInv'
    BY DEF TypeOK, WorkerInv, CountInv
  <1>4. SnapshotInv'
    BY DEF TypeOK, WorkerInv, CountInv, SnapshotInv, Pending
  <1>5. SpanBounded'
    BY DEF TypeOK, WorkerInv, CountInv, SnapshotInv, SpanBounded, Pending
  <1> QED
    BY <1>1, <1>2, <1>3, <1>4, <1>5

LEMMA BlacklistedPreserves ==
    ASSUME IInv, NEW v \in Containers, Blacklisted(v)
    PROVE  IInv'
  <1> USE ThresholdFacts, ConfigAssumption DEF IInv, Blacklisted, Goto, MarkPassive, run, conns, world
  <1>1. TypeOK'
    BY DEF TypeOK, WorkerInv, Result
  <1>2. WorkerInv' /\ AbsentInv' /\ ClientInv'
    BY DEF TypeOK, WorkerInv, AbsentInv, ClientInv
  <1>3. CountInv'
    BY DEF TypeOK, WorkerInv, CountInv
  <1>4. SnapshotInv'
    BY DEF TypeOK, WorkerInv, CountInv, SnapshotInv, Pending
  <1>5. SpanBounded'
    BY DEF TypeOK, SpanBounded
  <1> QED
    BY <1>1, <1>2, <1>3, <1>4, <1>5

LEMMA DropDeadPreserves ==
    ASSUME IInv, NEW v \in Containers, DropDead(v)
    PROVE  IInv'
  <1> USE ThresholdFacts, ConfigAssumption DEF IInv, DropDead, Goto, Drop, Forget, run, world
  <1>1. TypeOK'
    BY CountFacts DEF TypeOK, WorkerInv, Result
  <1>2. WorkerInv' /\ AbsentInv' /\ ClientInv'
    BY DEF TypeOK, WorkerInv, AbsentInv, ClientInv
  <1>3. CountInv'
    BY CountFacts DEF TypeOK, WorkerInv, CountInv
  <1>4. SnapshotInv'
    BY CountFacts DEF TypeOK, WorkerInv, CountInv, SnapshotInv, Pending
  <1>5. SpanBounded'
    BY DEF TypeOK, SpanBounded
  <1> QED
    BY <1>1, <1>2, <1>3, <1>4, <1>5

LEMMA RetryPreserves ==
    ASSUME IInv, NEW v \in Containers, Retry(v)
    PROVE  IInv'
  <1> USE ThresholdFacts, ConfigAssumption DEF IInv, Retry, Goto, MarkPassive, run, conns, world
  <1>a. /\ Count(retryCount[v]) \in 0..Threshold
        /\ Count(fails[v]) \in 0..Threshold
        /\ Count(retryCount[v]) <= Count(fails[v])
    BY CountFacts DEF TypeOK, CountInv
  <1>b. \/ /\ UNCHANGED <<passive, prevSnapshot, diskMap, lastPassiveAt>>
           /\ retryCount[v] + 1 < Threshold
        \/ /\ MarkPassive(v)
           /\ retryCount[v] + 1 >= Threshold
    BY DEF TypeOK, Threshold
  <1>1. TypeOK'
    <2>1. lastPassiveAt' \in 0..PassiveCycle \cup {Nil}
      BY DEF TypeOK
    <2>2. passive' \subseteq vms'
      BY DEF TypeOK, WorkerInv
    <2>3. /\ prevSnapshot' \in [Containers -> 0..SpanCap \cup {Nil}]
          /\ diskMap' \in [Containers -> Volumes \cup {Nil}]
      BY DEF TypeOK
    <2>4. retryCount' \in [Containers -> 0..Threshold] /\ fails' \in [Containers -> 0..Threshold]
      BY <1>a DEF TypeOK
    <2> QED
      BY <2>1, <2>2, <2>3, <2>4 DEF TypeOK
  <1>2. WorkerInv' /\ AbsentInv' /\ ClientInv'
    BY DEF TypeOK, WorkerInv, AbsentInv, ClientInv
  <1>3. CountInv'
    <2> SUFFICES ASSUME NEW w \in Containers
                 PROVE  /\ retryCount'[w] <= fails'[w]
                        /\ w \notin passive' => retryCount'[w] < Threshold
                        /\ w \in passive' => fails'[w] = Threshold /\ lastPassiveAt' # Nil
      BY DEF CountInv
    <2>1. lastPassiveAt # Nil => lastPassiveAt' # Nil
      BY <1>b
    <2>2. CASE w # v
      BY <2>1, <2>2 DEF TypeOK, CountInv
    <2>3. CASE w = v /\ retryCount[v] + 1 < Threshold
      BY <1>a, <1>b, <2>1, <2>3 DEF TypeOK, CountInv, Count
    <2>4. CASE w = v /\ retryCount[v] + 1 >= Threshold
      <3>1. Count(fails[v]) = Threshold
        <4>1. /\ retryCount[v] \in 0..Threshold /\ fails[v] \in 0..Threshold
              /\ retryCount[v] <= fails[v]
          BY DEF TypeOK, CountInv
        <4> QED
          BY ONLY <2>4, <4>1, ThresholdFacts DEF Count
      <3>2. MarkPassive(v)
        BY <1>b, <2>4 DEF TypeOK
      <3> QED
        BY <1>a, <2>1, <2>4, <3>1, <3>2 DEF TypeOK, CountInv
    <2> QED
      BY <2>2, <2>3, <2>4 DEF TypeOK
  <1>4. SnapshotInv'
    BY CountFacts DEF TypeOK, WorkerInv, CountInv, SnapshotInv, Pending
  <1>5. SpanBounded'
    BY DEF TypeOK, SpanBounded
  <1> QED
    BY <1>1, <1>2, <1>3, <1>4, <1>5

LEMMA ScrapePreserves ==
    ASSUME IInv, NEW v \in Containers, Scrape(v)
    PROVE  IInv'
  BY AcquirePreserves, ExecPreserves, BuildMapPreserves, CommitPreserves,
     BlacklistedPreserves, DropDeadPreserves, RetryPreserves DEF Scrape

\* Cancellation, time, pods, hangups and hotplug.
LEMMA EnvironmentPreserves == IInv /\ Environment => IInv'
  <1> SUFFICES ASSUME IInv, Environment PROVE IInv'
    OBVIOUS
  <1> USE ConfigAssumption DEF IInv, run, conns, states, world
  <1>1. UNCHANGED <<phase, todo, vms, states, worker, found, results, fails>>
    BY DEF Environment, Cancel, Elapse, PodChanges, Hangup, Replug
  <1>2. lastPassiveAt' \in 0..PassiveCycle \cup {Nil}
        /\ (lastPassiveAt # Nil => lastPassiveAt' # Nil)
    BY DEF Environment, Cancel, Elapse, PodChanges, Hangup, Replug, TypeOK
  <1>3. /\ client' \in [Containers -> {"none", "open", "broken", "closed"}]
        /\ \A v \in Containers :
              \/ client'[v] = client[v]
              \/ /\ client[v] = "open"
                 /\ client'[v] = "broken"
    <2>1. CASE \E v \in Containers : Hangup(v)
      BY <2>1 DEF Hangup, TypeOK
    <2>2. CASE UNCHANGED client
      BY <2>2 DEF TypeOK
    <2> QED
      BY <2>1, <2>2 DEF Environment, Cancel, Elapse, PodChanges, Replug
  <1>4. live' \in BOOLEAN /\ probed' \in BOOLEAN
    BY Zenon DEF Environment, Cancel, Elapse, PodChanges, Hangup, Replug, TypeOK
  <1>5. pods' \subseteq Containers /\ volume' \in [Containers -> Volumes]
    BY DEF Environment, Cancel, Elapse, PodChanges, Hangup, Replug, TypeOK
  <1>6. TypeOK'
    BY <1>1, <1>2, <1>3, <1>4, <1>5 DEF TypeOK
  <1>7. WorkerInv' /\ AbsentInv' /\ ClientInv'
    BY <1>1, <1>3 DEF WorkerInv, AbsentInv, ClientInv
  <1>8. CountInv' /\ SnapshotInv' /\ SpanBounded'
    BY <1>1, <1>2 DEF CountInv, SnapshotInv, SpanBounded, Pending
  <1> QED
    BY <1>6, <1>7, <1>8

LEMMA StutterPreserves == IInv /\ UNCHANGED vars => IInv'
  BY DEF IInv, vars, run, conns, states, world, TypeOK, WorkerInv, AbsentInv, ClientInv,
         CountInv, SnapshotInv, SpanBounded, Pending

LEMMA NextIInv == IInv /\ [Next]_vars => IInv'
  BY StartPollPreserves, ConnectPreserves, DispatchPreserves, PublishPreserves,
     CloseAllPreserves, ScrapePreserves, EnvironmentPreserves, StutterPreserves
  DEF Next, Stopped

\* The inductive invariant holds in every state of the collector.
THEOREM Invariance == Spec => []IInv
  BY InitIInv, NextIInv, PTL DEF Spec
-----------------------------------------------------------------------------
\* The fields of Collector and vmState keep their types.
THEOREM TypeCorrect == Spec => []TypeOK
  BY Invariance, PTL DEF IInv

\* Whatever removes an entry from vms closes its client.
THEOREM NoClientLeaks == Spec => []NoLeak
  <1>1. IInv => NoLeak
    BY DEF IInv, ClientInv, NoLeak
  <1> QED
    BY <1>1, Invariance, PTL

\* poll() starts no scrape on a client that has been closed.
THEOREM OpenWhenScraped == Spec => []ScrapesOpenClient
  <1>1. IInv => ScrapesOpenClient
    BY DEF IInv, WorkerInv, ClientInv, ScrapesOpenClient
  <1> QED
    BY <1>1, Invariance, PTL

\* The slow cycle runs whenever a VM depends on it.
THEOREM SlowCycleRuns == Spec => []PassiveScheduled
  <1>1. IInv => PassiveScheduled
    BY DEF IInv, TypeOK, CountInv, PassiveScheduled
  <1> QED
    BY <1>1, Invariance, PTL

\* Only an unbroken run of failures, or a blacklisted command, makes a VM passive.
THEOREM PassiveIsEarned == Spec => []PassiveJustified
  <1>1. IInv => PassiveJustified
    BY DEF IInv, TypeOK, CountInv, PassiveJustified
  <1> QED
    BY <1>1, Invariance, PTL

\* No published rate spans more polls than a VM may fail in a row.
THEOREM RatesAreRecent == Spec => []SpanBounded
  BY Invariance, PTL DEF IInv
-----------------------------------------------------------------------------
(* Results.  They need the goroutines of WorkerInv, and nothing needs them. *)

\* Each result of the poll under way comes from a goroutine that is done.
ResultInv ==
    /\ phase # "scrape" => found = {}
    /\ \A r \in found : r.vm \in Containers /\ worker[r.vm] = "none"
    /\ \A r, s \in found : r.vm = s.vm => r = s
    /\ OneResult

LEMMA NextResultInv == IInv /\ ResultInv /\ [Next]_vars => ResultInv'
  <1> SUFFICES ASSUME IInv, ResultInv, [Next]_vars PROVE ResultInv'
    OBVIOUS
  <1> USE DEF ResultInv, OneResult
  <1>1. CASE StartPoll \/ CloseAll \/ Environment \/ Stopped \/ UNCHANGED vars
    <2>1. UNCHANGED <<worker, found, results>> /\ (phase' = phase \/ phase # "scrape")
      BY <1>1 DEF StartPoll, CloseAll, Environment, Cancel, Elapse, PodChanges, Hangup,
                  Replug, Stopped, vars, run
    <2> QED
      BY <2>1
  <1>2. CASE Dispatch
    BY <1>2 DEF Dispatch
  <1>3. CASE Publish
    BY <1>3 DEF Publish
  <1>4. CASE \E v \in Containers : Connect(v)
    BY <1>4 DEF Connect, run
  <1>5. ASSUME NEW v \in Containers, Scrape(v)
        PROVE  ResultInv'
    <2>1. /\ UNCHANGED <<phase, results>>
          /\ worker[v] # "none"
          /\ \A w \in Containers \ {v} : worker'[w] = worker[w]
      BY <1>5 DEF IInv, TypeOK, Scrape, Acquire, Exec, BuildMap, Commit, Blacklisted,
                  DropDead, Retry, Goto, run
    <2>2. CASE found' = found
      BY <2>1, <2>2
    <2>3. CASE Commit(v)
      <3>1. /\ worker'[v] = "none"
            /\ \/ found' = found
               \/ \E r : r.vm = v /\ found' = found \cup {r}
        BY <2>3, Zenon DEF IInv, TypeOK, Commit, Goto
      <3>2. phase = "scrape"
        BY <2>1 DEF IInv, WorkerInv
      <3> QED
        BY <2>1, <3>1, <3>2
    <2> QED
      BY <1>5, <2>2, <2>3 DEF Scrape, Acquire, Exec, BuildMap, Blacklisted, DropDead, Retry
  <1> QED
    BY <1>1, <1>2, <1>3, <1>4, <1>5 DEF Next

\* What a poll publishes holds each VM once.
THEOREM VmReportedOnce == Spec => []OneResult
  <1>1. Init => ResultInv
    BY DEF Init, ResultInv, OneResult
  <1>2. ResultInv => OneResult
    BY DEF ResultInv
  <1> QED
    BY <1>1, <1>2, NextResultInv, Invariance, PTL DEF Spec
-----------------------------------------------------------------------------
(* The collector implements ConnectionPool.                                *)

\* A goroutine goes on or ends: what of it the pool sees.
LEMMA LentStep ==
    ASSUME TypeOK, NEW v \in Containers, NEW from, NEW to, Goto(v, from, to), from # "none"
    PROVE  /\ v \in lent
           /\ to # "none" => lent' = lent
           /\ to = "none" => lent' = lent \ {v}
  BY DEF TypeOK, Goto, lent

LEMMA LentSame == ASSUME UNCHANGED worker PROVE UNCHANGED lent
  BY DEF lent

\* Outside of the scraping part of poll() no connection is lent.
LEMMA NothingLent == ASSUME IInv, phase # "scrape" PROVE lent = {}
  BY DEF IInv, WorkerInv, lent

\* The steps of a scrape are Close, GiveBack, GiveUp, or nothing the pool can see.
LEMMA ScrapeRefines ==
    ASSUME IInv, NEW v \in Containers, Scrape(v)
    PROVE  [Pool!Next]_(Pool!poolVars)
  <1> USE DEF IInv, conns
  <1>1. CASE Acquire(v)
    BY <1>1, LentStep DEF Acquire, Pool!poolVars
  <1>2. CASE Exec(v) \/ BuildMap(v)
    <2>1. v \in lent /\ lent' = lent /\ vms' = vms
      BY <1>2, LentStep DEF Exec, BuildMap
    <2>2. client' = client \/ CloseClient(v)
      BY <1>2 DEF Exec, BuildMap
    <2>3. CASE client' = client
      BY <2>1, <2>3 DEF Pool!poolVars
    <2>4. CASE CloseClient(v)
      <3>1. Pool!Close(v)
        BY <2>1, <2>4 DEF CloseClient, Pool!Close
      <3> QED
        BY <3>1 DEF Pool!Next
    <2> QED
      BY <2>2, <2>3, <2>4
  <1>3. CASE Commit(v) \/ Blacklisted(v) \/ Retry(v)
    <2>1. Pool!GiveBack(v)
      BY <1>3, LentStep DEF Commit, Blacklisted, Retry, Pool!GiveBack
    <2> QED
      BY <2>1 DEF Pool!Next
  <1>4. CASE DropDead(v)
    <2>1. v \in lent /\ lent' = lent \ {v} /\ Drop({v})
      BY <1>4, LentStep DEF DropDead
    <2>2. v \in vms
      BY <2>1 DEF lent, WorkerInv
    <2>3. Pool!GiveUp(v)
      BY <2>1, <2>2 DEF Drop, Pool!GiveUp, Pool!Remove
    <2> QED
      BY <2>3 DEF Pool!Next
  <1> QED
    BY <1>1, <1>2, <1>3, <1>4 DEF Scrape

\* The steps of poll() between the scrapes.
LEMMA PollRefines ==
    ASSUME IInv, StartPoll \/ Dispatch \/ Publish \/ CloseAll \/ \E v \in Containers : Connect(v)
    PROVE  [Pool!Next]_(Pool!poolVars)
  <1> USE DEF IInv, conns, run
  <1>1. CASE StartPoll
    <2>1. PICK gone \in SUBSET vms : Drop(gone)
      BY <1>1 DEF StartPoll
    <2>2. Pool!Prune(gone)
      BY <1>1, <2>1, NothingLent, LentSame DEF StartPoll, Drop, Pool!Prune, Pool!Remove
    <2>3. gone \in SUBSET Containers
      BY <2>1 DEF TypeOK
    <2> QED
      BY <2>2, <2>3 DEF Pool!Next
  <1>2. CASE Dispatch
    <2> DEFINE dead == {v \in vms : client[v] = "closed"}
               busy == {v \in vms \ dead : v \in passive => lastPassiveAt = PassiveCycle}
    <2>1. lent = {} /\ lent' = busy /\ Drop(dead)
      <3>1. worker' = [v \in Containers |-> IF v \in busy THEN "queued" ELSE "none"]
        BY <1>2 DEF Dispatch
      <3>2. busy \subseteq Containers
        BY DEF TypeOK
      <3>3. lent' = busy
        BY <3>1, <3>2 DEF lent
      <3> QED
        BY <1>2, <3>3, NothingLent DEF Dispatch
    <2>2. Pool!Lend(dead, busy)
      BY <2>1 DEF Drop, Pool!Lend, Pool!Remove
    <2>3. dead \in SUBSET Containers /\ busy \in SUBSET Containers
      BY DEF TypeOK
    <2> QED
      BY <2>2, <2>3 DEF Pool!Next
  <1>3. CASE Publish
    BY <1>3, LentSame DEF Publish, Pool!poolVars
  <1>4. CASE CloseAll
    <2>1. Pool!Prune(vms)
      BY <1>4, NothingLent, LentSame DEF CloseAll, Drop, Pool!Prune, Pool!Remove
    <2>2. vms \in SUBSET Containers
      BY DEF TypeOK
    <2> QED
      BY <2>1, <2>2 DEF Pool!Next
  <1>5. ASSUME NEW v \in Containers, Connect(v)
        PROVE  [Pool!Next]_(Pool!poolVars)
    <2>1. lent = {} /\ lent' = lent /\ v \notin vms
      BY <1>5, NothingLent, LentSame DEF Connect, WorkerInv
    <2>2. CASE UNCHANGED conns
      BY <2>1, <2>2 DEF Pool!poolVars
    <2>3. CASE ~UNCHANGED conns
      <3>1. Pool!Add(v)
        BY <1>5, <2>1, <2>3 DEF Connect, connectVM, Pool!Add
      <3> QED
        BY <3>1 DEF Pool!Next
    <2> QED
      BY <2>2, <2>3
  <1> QED
    BY <1>1, <1>2, <1>3, <1>4, <1>5

\* The environment breaks connections that are held, and does no more to them.
LEMMA EnvironmentRefines ==
    ASSUME IInv, Environment \/ Stopped \/ UNCHANGED vars
    PROVE  [Pool!Next]_(Pool!poolVars)
  <1>1. UNCHANGED lent /\ UNCHANGED vms
    BY LentSame DEF Environment, Cancel, Elapse, PodChanges, Hangup, Replug, Stopped, vars,
                    conns
  <1>2. CASE UNCHANGED client
    BY <1>1, <1>2 DEF Pool!poolVars
  <1>3. ASSUME NEW v \in Containers, Hangup(v) PROVE Pool!Next
    <2>1. v \in vms /\ client[v] = "open"
      BY <1>3 DEF Hangup, IInv, ClientInv
    <2>2. Pool!Break({v})
      BY <1>1, <1>3, <2>1, Zenon DEF Hangup, IInv, TypeOK, Pool!Break
    <2> QED
      BY <2>2 DEF Pool!Next
  <1>4. UNCHANGED client \/ \E v \in Containers : Hangup(v)
    BY DEF Environment, Cancel, Elapse, PodChanges, Replug, Stopped, vars, conns
  <1> QED
    BY <1>2, <1>3, <1>4

\* Every behaviour of the collector is one of the pool: a poll changes the map vms only
\* while no goroutine has a connection, and no goroutine touches that of another.
THEOREM Refinement == Spec => ImplementsPool
  <1>1. Init => Pool!Init
    BY DEF Init, Pool!Init, lent
  <1>2. IInv /\ [Next]_vars => [Pool!Next]_(Pool!poolVars)
    BY ScrapeRefines, PollRefines, EnvironmentRefines DEF Next
  <1> QED
    BY <1>1, <1>2, Invariance, PTL DEF Spec, ImplementsPool, Pool!Spec
=============================================================================
