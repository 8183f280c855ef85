------------------------- MODULE QmpCollectorProofs -------------------------
(***************************************************************************)
(* Proofs about QmpCollector, for any pods, containers, disks and number   *)
(* of slots.                                                               *)
(***************************************************************************)
EXTENDS QmpCollector, TLAPS

\* Goroutines exist only while poll() waits for them, and only for entries of the
\* map; targets are dialed only if they have no entry.
WorkerInv ==
    /\ phase # "scrape" => \A c \in Containers : worker[c] = "none"
    /\ \A c \in Containers : worker[c] # "none" => c \in connections
    /\ phase # "connect" => todo = {}
    /\ todo \cap connections = {}

\* The CRI knows a container under its own pod; so a poll has at most one target for
\* each pod, and with the connections of departed containers pruned, at most one
\* connection.  The socket of a connection belongs to the pod of its container.
PodInv ==
    /\ \A p \in Pods : running[p] # None => PodOf[running[p]] = p
    /\ \A c, k \in connections \cup todo : PodOf[c] = PodOf[k] => c = k
    /\ \A c \in connections : peer[c] # None /\ PodOf[peer[c]] = PodOf[c]

\* A client is closed under its entry only by a scrape that is about to fail.
ClientInv ==
    /\ \A c \in Containers \ connections : client[c] \in {"none", "closed"}
    /\ \A c \in connections : client[c] = "closed" => worker[c] = "error"

\* Each result of the poll under way comes from a connection whose scrape is over.
FoundInv ==
    /\ phase # "scrape" => found = {}
    /\ \A r \in found : /\ r.pod = PodOf[r.from]
                        /\ r.from \in connections
                        /\ worker[r.from] = "none"
    /\ \A r, s \in found : r.from = s.from => r = s
    /\ \A r, s \in results : r.pod = s.pod => r = s

\* What the response of QEMU shows without a histogram still has none while the
\* scrape gets round to it: nobody else arms disks of that VM.
HistInv ==
    \A c \in connections : worker[c] = "arm" =>
        \A d \in toArm[c] \ resp[c] : hist[peer[c]][d] = "off"

IInv == /\ TypeOK
        /\ WorkerInv
        /\ PodInv
        /\ ClientInv
        /\ FoundInv
        /\ HistInv
-----------------------------------------------------------------------------
Status == {"off", "empty", "data"}

LEMMA HistUpdate ==
    ASSUME NEW h \in [Containers -> [Disks -> Status]],
           NEW k \in Containers, NEW e \in Disks, NEW x \in Status
    PROVE  /\ [h EXCEPT ![k][e] = x] \in [Containers -> [Disks -> Status]]
           /\ \A c \in Containers, d \in Disks :
                 [h EXCEPT ![k][e] = x][c][d] = IF c = k /\ d = e THEN x ELSE h[c][d]
  <1> DEFINE row == [h[k] EXCEPT ![e] = x]
  <1>1. row \in [Disks -> Status] /\ \A d \in Disks : row[d] = IF d = e THEN x ELSE h[k][d]
    OBVIOUS
  <1>2. [h EXCEPT ![k][e] = x] = [h EXCEPT ![k] = row]
    OBVIOUS
  <1> HIDE DEF row
  <1> QED
    BY <1>1, <1>2

LEMMA HistUpdates ==
    ASSUME TypeOK, NEW k \in Containers, NEW e \in Disks, NEW x \in Status,
           hist' = [hist EXCEPT ![k][e] = x]
    PROVE  /\ hist' \in [Containers -> [Disks -> {"off", "empty", "data"}]]
           /\ \A c \in Containers, d \in Disks :
                 hist'[c][d] = IF c = k /\ d = e THEN x ELSE hist[c][d]
  <1>1. hist \in [Containers -> [Disks -> Status]]
    BY DEF TypeOK, Status
  <1>2. hist' \in [Containers -> [Disks -> Status]]
    BY <1>1, HistUpdate, Zenon
  <1>3. \A c \in Containers, d \in Disks :
            hist'[c][d] = IF c = k /\ d = e THEN x ELSE hist[c][d]
    <2>1. \A c \in Containers, d \in Disks :
              [hist EXCEPT ![k][e] = x][c][d] = IF c = k /\ d = e THEN x ELSE hist[c][d]
      BY <1>1, HistUpdate
    <2> QED
      BY <2>1
  <1> QED
    BY <1>2, <1>3 DEF Status

LEMMA RowUpdate ==
    ASSUME NEW f \in [Containers -> SUBSET Disks], NEW k \in Containers,
           NEW S \in SUBSET Disks
    PROVE  [f EXCEPT ![k] = S] \in [Containers -> SUBSET Disks]
  OBVIOUS

LEMMA InitIInv == Init => IInv
  <1> SUFFICES ASSUME Init PROVE IInv
    OBVIOUS
  <1> USE ConfigAssumption DEF Init
  <1>1. TypeOK
    BY DEF TypeOK
  <1>2. WorkerInv /\ PodInv /\ ClientInv
    BY DEF WorkerInv, PodInv, ClientInv
  <1>3. FoundInv /\ HistInv
    BY DEF FoundInv, HistInv
  <1> QED
    BY <1>1, <1>2, <1>3 DEF IInv
-----------------------------------------------------------------------------
(* The steps of Run() and poll().                                          *)

LEMMA StartPollPreserves == IInv /\ StartPoll => IInv'
  <1> SUFFICES ASSUME IInv, StartPoll PROVE IInv'
    OBVIOUS
  <1> USE ConfigAssumption DEF IInv, StartPoll, Drop, scrape, output, world
  <1> PICK targets \in SUBSET {running[p] : p \in Pods} :
          /\ targets \subseteq Containers
          /\ Drop(connections \ targets)
          /\ todo' = targets \ connections
    OBVIOUS
  <1>1. TypeOK'
    BY DEF TypeOK
  <1>2. \A c, k \in targets : PodOf[c] = PodOf[k] => c = k
    <2> TAKE c, k \in targets
    <2>1. PICK p \in Pods : c = running[p]
      OBVIOUS
    <2>2. PICK q \in Pods : k = running[q]
      OBVIOUS
    <2>3. c # None /\ k # None
      OBVIOUS
    <2> QED
      BY <2>1, <2>2, <2>3 DEF PodInv
  <1>3. connections' \cup todo' \subseteq targets
    OBVIOUS
  <1>4. WorkerInv'
    BY DEF TypeOK, WorkerInv
  <1>5. PodInv'
    BY <1>2, <1>3 DEF TypeOK, PodInv
  <1>6. ClientInv'
    BY DEF TypeOK, ClientInv
  <1>7. FoundInv' /\ HistInv'
    BY DEF TypeOK, WorkerInv, FoundInv, HistInv
  <1> QED
    BY <1>1, <1>4, <1>5, <1>6, <1>7

LEMMA ConnectPreserves ==
    ASSUME IInv, NEW c \in Containers, Connect(c)
    PROVE  IInv'
  <1> USE ConfigAssumption
      DEF IInv, Connect, connectVM, run, conns, scrape, output, world
  <1>1. TypeOK'
    <2>1. CASE UNCHANGED conns
      BY <2>1 DEF TypeOK
    <2>2. CASE running[PodOf[c]] # None /\ connectVM(c, running[PodOf[c]])
      <3>1. running[PodOf[c]] \in Containers
        BY <2>2 DEF TypeOK
      <3> QED
        BY <2>2, <3>1 DEF TypeOK
    <2> QED
      BY <2>1, <2>2
  <1>2. WorkerInv' /\ ClientInv'
    BY DEF TypeOK, WorkerInv, ClientInv
  <1>3. PodInv'
    BY DEF TypeOK, PodInv
  <1>4. FoundInv' /\ HistInv'
    BY DEF TypeOK, WorkerInv, FoundInv, HistInv
  <1> QED
    BY <1>1, <1>2, <1>3, <1>4

LEMMA DispatchPreserves == IInv /\ Dispatch => IInv'
  <1> SUFFICES ASSUME IInv, Dispatch PROVE IInv'
    OBVIOUS
  <1> USE DEF IInv, Dispatch, conns, output, world
  <1>1. TypeOK'
    BY DEF TypeOK
  <1>2. WorkerInv' /\ ClientInv' /\ PodInv'
    BY DEF TypeOK, WorkerInv, ClientInv, PodInv
  <1>3. FoundInv' /\ HistInv'
    BY DEF TypeOK, FoundInv, HistInv
  <1> QED
    BY <1>1, <1>2, <1>3

LEMMA PublishPreserves == IInv /\ Publish => IInv'
  <1> SUFFICES ASSUME IInv, Publish PROVE IInv'
    OBVIOUS
  <1> USE DEF IInv, Publish, conns, scrape, world
  <1>1. TypeOK'
    BY DEF TypeOK
  <1>2. WorkerInv' /\ ClientInv' /\ PodInv'
    BY DEF TypeOK, WorkerInv, ClientInv, PodInv
  <1>3. \A r, s \in found : r.pod = s.pod => r = s
    BY DEF TypeOK, PodInv, FoundInv
  <1>4. FoundInv' /\ HistInv'
    BY <1>3 DEF TypeOK, FoundInv, HistInv
  <1> QED
    BY <1>1, <1>2, <1>4

LEMMA CloseAllPreserves == IInv /\ CloseAll => IInv'
  <1> SUFFICES ASSUME IInv, CloseAll PROVE IInv'
    OBVIOUS
  <1> USE DEF IInv, CloseAll, Drop, scrape, output, world
  <1>1. TypeOK'
    BY DEF TypeOK
  <1>2. WorkerInv' /\ ClientInv' /\ PodInv'
    BY DEF TypeOK, WorkerInv, ClientInv, PodInv
  <1>3. FoundInv' /\ HistInv'
    BY DEF TypeOK, WorkerInv, FoundInv, HistInv
  <1> QED
    BY <1>1, <1>2, <1>3
-----------------------------------------------------------------------------
(* The steps of a scrape.                                                  *)

LEMMA AcquirePreserves ==
    ASSUME IInv, NEW c \in Containers, Acquire(c)
    PROVE  IInv'
  <1> USE DEF IInv, Acquire, Goto, run, conns, output, world
  <1>1. TypeOK'
    BY DEF TypeOK
  <1>2. WorkerInv' /\ ClientInv' /\ PodInv'
    BY DEF TypeOK, WorkerInv, ClientInv, PodInv
  <1>3. FoundInv' /\ HistInv'
    BY DEF TypeOK, FoundInv, HistInv
  <1> QED
    BY <1>1, <1>2, <1>3

LEMMA QueryPreserves ==
    ASSUME IInv, NEW c \in Containers, Query(c)
    PROVE  IInv'
  <1> USE DEF IInv, Query, Goto, CloseClient, run, output, world
  <1>0. resp' \in [Containers -> SUBSET Disks] /\ toArm' \in [Containers -> SUBSET Disks]
    <2>0. DisksOf[PodOf[c]] \in SUBSET Disks
      BY ConfigAssumption
    <2>1. /\ {d \in DisksOf[PodOf[c]] : hist[peer[c]][d] # "off"} \in SUBSET Disks
          /\ DisksOf[PodOf[c]] \ armed[c] \in SUBSET Disks
      BY <2>0, Zenon
    <2>2. /\ [resp EXCEPT ![c] = {d \in DisksOf[PodOf[c]] : hist[peer[c]][d] # "off"}]
                \in [Containers -> SUBSET Disks]
          /\ [toArm EXCEPT ![c] = DisksOf[PodOf[c]] \ armed[c]] \in [Containers -> SUBSET Disks]
      BY <2>1, RowUpdate, Zenon DEF TypeOK
    <2> QED
      BY <2>2, Zenon DEF TypeOK
  <1>1. TypeOK'
    BY <1>0, Zenon DEF TypeOK
  <1>2. WorkerInv' /\ ClientInv' /\ PodInv'
    BY DEF TypeOK, WorkerInv, ClientInv, PodInv
  <1>3. FoundInv'
    BY DEF TypeOK, FoundInv
  <1>4. HistInv'
    <2> SUFFICES ASSUME NEW k \in connections', worker'[k] = "arm",
                        NEW d \in toArm'[k] \ resp'[k]
                 PROVE  hist'[peer'[k]][d] = "off"
      BY DEF HistInv
    <2>1. CASE k = c
      BY <2>1 DEF TypeOK, PodInv
    <2>2. CASE k # c
      BY <2>2 DEF TypeOK, HistInv
    <2> QED
      BY <2>1, <2>2
  <1> QED
    BY <1>1, <1>2, <1>3, <1>4

\* No two connections have their socket in the same container.
LEMMA PeersDiffer ==
    ASSUME IInv, NEW c \in connections, NEW k \in connections, peer[c] = peer[k]
    PROVE  c = k
  BY DEF IInv, PodInv

LEMMA ArmDiskPreserves ==
    ASSUME IInv, NEW c \in Containers, NEW d \in Disks, ArmDisk(c, d)
    PROVE  IInv'
  <1> USE DEF IInv, ArmDisk, EnableHistogram, Goto, CloseClient, run, output, world
  <1>0. c \in connections /\ peer[c] \in Containers
    BY DEF TypeOK, WorkerInv, PodInv
  <1>a. hist' = hist \/ hist' = [hist EXCEPT ![peer[c]][d] = "empty"]
    OBVIOUS
  <1>b. worker' = worker \/ worker' = [worker EXCEPT ![c] = "error"]
    OBVIOUS
  <1>c. client' = client \/ (CloseClient(c) /\ worker' = [worker EXCEPT ![c] = "error"])
    OBVIOUS
  <1>d. armed' = armed \/ armed' = [armed EXCEPT ![c] = @ \cup {d}]
    OBVIOUS
  <1>e. toArm' = [toArm EXCEPT ![c] = @ \ {d}] /\ worker[c] = "arm"
    OBVIOUS
  <1>f. UNCHANGED <<live, phase, todo, connections, peer, resp, found, results, running,
                    exited>>
    OBVIOUS
  <1> HIDE DEF ArmDisk, EnableHistogram, Goto
  <1>1. TypeOK'
    <2>1. hist' \in [Containers -> [Disks -> {"off", "empty", "data"}]]
      BY <1>0, <1>a, HistUpdates DEF TypeOK, Status
    <2>2. /\ worker' \in [Containers -> {"none", "queued", "query", "arm", "done", "error"}]
          /\ client' \in [Containers -> {"none", "open", "broken", "closed"}]
      BY <1>b, <1>c, Zenon DEF TypeOK
    <2>3. armed' \in [Containers -> SUBSET Disks] /\ toArm' \in [Containers -> SUBSET Disks]
      <3>1. armed[c] \cup {d} \in SUBSET Disks /\ toArm[c] \ {d} \in SUBSET Disks
        BY DEF TypeOK
      <3>2. [armed EXCEPT ![c] = armed[c] \cup {d}] \in [Containers -> SUBSET Disks]
        BY <3>1, RowUpdate, Zenon DEF TypeOK
      <3>3. [toArm EXCEPT ![c] = toArm[c] \ {d}] \in [Containers -> SUBSET Disks]
        BY <3>1, RowUpdate, Zenon DEF TypeOK
      <3> QED
        BY <3>2, <3>3, <1>d, <1>e DEF TypeOK
    <2> QED
      BY <2>1, <2>2, <2>3, <1>f DEF TypeOK
  <1>2. WorkerInv' /\ PodInv'
    BY <1>0, <1>b, <1>e, <1>f DEF TypeOK, WorkerInv, PodInv
  <1>3. ClientInv'
    BY <1>0, <1>b, <1>c, <1>e, <1>f DEF TypeOK, ClientInv
  <1>4. FoundInv'
    BY <1>b, <1>e, <1>f DEF TypeOK, FoundInv
  <1>5. HistInv'
    <2> SUFFICES ASSUME NEW k \in connections', worker'[k] = "arm",
                        NEW e \in toArm'[k] \ resp'[k]
                 PROVE  hist'[peer'[k]][e] = "off"
      BY DEF HistInv
    <2>1. /\ k \in connections /\ worker[k] = "arm"
          /\ e \in toArm[k] \ resp[k] /\ e \in Disks
          /\ peer[k] \in Containers /\ peer'[k] = peer[k]
          /\ k = c => e # d
      BY <1>b, <1>e, <1>f DEF TypeOK, PodInv
    <2>2. hist[peer[k]][e] = "off"
      BY <2>1 DEF HistInv
    <2>3. CASE k = c
      BY <1>a, <2>1, <2>2, <2>3, HistUpdates DEF TypeOK, Status
    <2>4. CASE k # c
      <3>1. peer[k] # peer[c]
        BY <1>0, <2>1, <2>4, PeersDiffer
      <3> QED
        BY <3>1, <1>0, <1>a, <2>1, <2>2, HistUpdates DEF TypeOK, Status
    <2> QED
      BY <2>3, <2>4
  <1> QED
    BY <1>1, <1>2, <1>3, <1>4, <1>5

LEMMA VirtioPreserves ==
    ASSUME IInv, NEW c \in Containers, Virtio(c)
    PROVE  IInv'
  <1> USE DEF IInv, Virtio, Goto, CloseClient, run, output, world
  <1>1. TypeOK'
    BY DEF TypeOK
  <1>2. WorkerInv' /\ PodInv'
    BY DEF TypeOK, WorkerInv, PodInv
  <1>4. ClientInv'
    BY Zenon DEF TypeOK, ClientInv
  <1>3. worker[c] = "arm" /\ worker'[c] # "arm" /\ \A k \in Containers \ {c} : worker'[k] = worker[k]
    BY DEF TypeOK
  <1> HIDE DEF Virtio, Goto
  <1>5. UNCHANGED <<phase, connections, peer, hist, resp, toArm, found, results>>
    BY DEF Virtio
  <1>6. FoundInv'
    BY <1>3, <1>5 DEF TypeOK, FoundInv, Result
  <1>7. HistInv'
    BY <1>3, <1>5 DEF TypeOK, HistInv
  <1> QED
    BY <1>1, <1>2, <1>4, <1>6, <1>7

LEMMA AppendPreserves ==
    ASSUME IInv, NEW c \in Containers, Append(c)
    PROVE  IInv'
  <1> USE ConfigAssumption DEF IInv, Append, Goto, Forget, run, conns, world
  <1>0. found' \subseteq Result
    <2>1. [pod |-> PodOf[c], from |-> c, disks |-> resp[c]] \in Result
      BY Zenon DEF TypeOK, Result
    <2> QED
      BY <2>1 DEF TypeOK
  <1>1. TypeOK'
    BY <1>0 DEF TypeOK
  <1>2. WorkerInv' /\ ClientInv' /\ PodInv'
    BY DEF TypeOK, WorkerInv, ClientInv, PodInv
  <1>3. c \in connections /\ \A r \in found : r.from # c
    BY DEF TypeOK, WorkerInv, FoundInv
  <1>4. FoundInv'
    BY <1>3 DEF TypeOK, WorkerInv, FoundInv
  <1>5. HistInv'
    BY DEF TypeOK, HistInv
  <1> QED
    BY <1>1, <1>2, <1>4, <1>5

LEMMA FailPreserves ==
    ASSUME IInv, NEW c \in Containers, Fail(c)
    PROVE  IInv'
  <1> USE DEF IInv, Fail, Drop, Goto, Forget, run, output, world
  <1>1. TypeOK'
    BY DEF TypeOK
  <1>2. WorkerInv' /\ ClientInv' /\ PodInv'
    BY DEF TypeOK, WorkerInv, ClientInv, PodInv
  <1>3. FoundInv' /\ HistInv'
    BY SMTT(30) DEF TypeOK, FoundInv, HistInv
  <1> QED
    BY <1>1, <1>2, <1>3
-----------------------------------------------------------------------------
(* The environment.                                                        *)

LEMMA PodChangesPreserves ==
    ASSUME IInv, NEW p \in Pods, PodChanges(p)
    PROVE  IInv'
  <1> USE ConfigAssumption DEF IInv, PodChanges, run, scrape, output
  <1>0. /\ running' \in [Pods -> Containers \cup {None}]
        /\ exited' \subseteq Containers
        /\ client' \in [Containers -> {"none", "open", "broken", "closed"}]
    BY DEF TypeOK
  <1>a. hist' \in [Containers -> [Disks -> {"off", "empty", "data"}]]
    BY DEF TypeOK
  <1>1. TypeOK'
    BY <1>0, <1>a DEF TypeOK
  <1>2. WorkerInv' /\ ClientInv' /\ PodInv'
    BY DEF TypeOK, WorkerInv, ClientInv, PodInv
  <1>3. FoundInv' /\ HistInv'
    BY DEF TypeOK, FoundInv, HistInv, PodInv
  <1> QED
    BY <1>1, <1>2, <1>3

LEMMA GuestPreserves ==
    ASSUME IInv, NEW c \in Containers, NEW d \in Disks, Io(c, d) \/ Replug(c, d)
    PROVE  IInv'
  <1> USE DEF IInv, Io, Replug, run, conns, scrape, output, world
  <1>0. hist' \in [Containers -> [Disks -> {"off", "empty", "data"}]]
    BY HistUpdates, Zenon DEF TypeOK, Status
  <1>1. TypeOK'
    BY <1>0 DEF TypeOK
  <1>2. WorkerInv' /\ ClientInv' /\ PodInv'
    BY DEF TypeOK, WorkerInv, ClientInv, PodInv
  <1>3. FoundInv' /\ HistInv'
    BY DEF TypeOK, FoundInv, HistInv, PodInv
  <1> QED
    BY <1>1, <1>2, <1>3

LEMMA CancelHangupPreserves ==
    ASSUME IInv, Cancel \/ \E c \in Containers : Hangup(c)
    PROVE  IInv'
  <1> USE DEF IInv, Cancel, Hangup, run, conns, scrape, output, world
  <1>1. TypeOK'
    BY Zenon DEF TypeOK
  <1>2. WorkerInv' /\ ClientInv' /\ PodInv'
    BY DEF TypeOK, WorkerInv, ClientInv, PodInv
  <1>3. FoundInv' /\ HistInv'
    BY DEF TypeOK, FoundInv, HistInv
  <1> QED
    BY <1>1, <1>2, <1>3

LEMMA StutterPreserves == IInv /\ UNCHANGED vars => IInv'
  BY DEF IInv, TypeOK, WorkerInv, PodInv, ClientInv, FoundInv, HistInv, Result,
         vars, run, conns, scrape, output, world

LEMMA NextPreserves == IInv /\ [Next]_vars => IInv'
  <1> SUFFICES ASSUME IInv, [Next]_vars PROVE IInv'
    OBVIOUS
  <1>1. CASE StartPoll \/ Dispatch \/ Publish \/ CloseAll
    BY <1>1, StartPollPreserves, DispatchPreserves, PublishPreserves, CloseAllPreserves
  <1>2. CASE \E c \in Containers : Connect(c) \/ Scrape(c)
    <2> PICK c \in Containers : Connect(c) \/ Scrape(c)
      BY <1>2
    <2> QED
      BY ConnectPreserves, AcquirePreserves, QueryPreserves, ArmDiskPreserves,
         VirtioPreserves, AppendPreserves, FailPreserves
      DEF Scrape
  <1>3. CASE Environment
    BY <1>3, PodChangesPreserves, GuestPreserves, CancelHangupPreserves DEF Environment
  <1>4. CASE Stopped \/ UNCHANGED vars
    BY <1>4, StutterPreserves DEF Stopped
  <1> QED
    BY <1>1, <1>2, <1>3, <1>4 DEF Next

LEMMA Invariance == Spec => []IInv
  BY InitIInv, NextPreserves, PTL DEF Spec
-----------------------------------------------------------------------------
(* Results.                                                                *)

\* The state of the collector is well typed.
THEOREM TypeCorrect == Spec => []TypeOK
  BY Invariance, PTL DEF IInv

\* No connection is lost while its client is open, and none is kept between two polls
\* once it was closed (poll, scrapeVM, closeAll).
THEOREM ConnectionsOwned == Spec => []ClientsOwned
  <1>1. IInv => ClientsOwned
    BY DEF IInv, TypeOK, WorkerInv, ClientInv, ClientsOwned
  <1> QED
    BY <1>1, Invariance, PTL

\* A pod has one result, however its container is replaced between the two questions
\* to the CRI or while the poll runs (poll, 312-375).
THEOREM PodReportedOnce == Spec => []OneResultPerPod
  <1>1. IInv => OneResultPerPod
    BY DEF IInv, TypeOK, PodInv, FoundInv, OneResultPerPod
  <1> QED
    BY <1>1, Invariance, PTL

\* Arming never resets a histogram that has data (scrapeVM, 516-539).
THEOREM HistogramsKept == Spec => HistogramKept
  <1> DEFINE Kept == \A c \in Containers, d \in Disks :
                        hist[c][d] = "data" => hist'[c][d] # "empty"
  <1>1. ASSUME IInv, NEW k \in Containers, NEW e \in Disks, ArmDisk(k, e)
        PROVE  Kept
    <2>1. k \in connections /\ peer[k] \in Containers
      BY <1>1 DEF IInv, TypeOK, WorkerInv, PodInv, ArmDisk
    <2>2. e \notin resp[k] => hist[peer[k]][e] = "off"
      BY <1>1, <2>1 DEF IInv, HistInv, ArmDisk
    <2>3. hist' = hist \/ (e \notin resp[k] /\ hist' = [hist EXCEPT ![peer[k]][e] = "empty"])
      BY <1>1, Zenon DEF ArmDisk, EnableHistogram
    <2> QED
      BY <1>1, <2>1, <2>2, <2>3, HistUpdates, SMTT(30) DEF IInv, TypeOK, Status
  <1>2. ASSUME IInv, [Next]_vars, ~ \E k \in Containers, e \in Disks : ArmDisk(k, e)
        PROVE  Kept
    <2>1. CASE hist' = hist
      BY <2>1
    <2>2. CASE \E p \in Pods : PodChanges(p)
      BY <2>2, <1>2 DEF IInv, TypeOK, PodChanges
    <2>3. CASE \E k \in Containers, e \in Disks : Io(k, e) \/ Replug(k, e)
      <3>1. PICK k \in Containers, e \in Disks :
               \/ hist[k][e] = "empty" /\ hist' = [hist EXCEPT ![k][e] = "data"]
               \/ hist' = [hist EXCEPT ![k][e] = "off"]
        BY <2>3 DEF Io, Replug
      <3> QED
        <4>1. TypeOK
          BY <1>2 DEF IInv
        <4>2. \A c \in Containers, d \in Disks :
                  hist'[c][d] = hist[c][d] \/ hist'[c][d] \in {"data", "off"}
          BY <3>1, <4>1, HistUpdates DEF Status
        <4> QED
          BY <4>2
    <2> QED
      BY <1>2, <2>1, <2>2, <2>3, Zenon
      DEF Next, Environment, Scrape, Stopped, vars, StartPoll, Dispatch, Publish,
          CloseAll, Connect, Acquire, Query, Virtio, Append, Fail, Cancel, Hangup
  <1>3. IInv /\ [Next]_vars => [Kept]_vars
    BY <1>1, <1>2
  <1> QED
    BY <1>3, Invariance, PTL DEF Spec, HistogramKept
-----------------------------------------------------------------------------
(* The collector implements ConnectionPool.                                *)

\* A goroutine goes on or ends: what of it the pool sees.
LEMMA LentStep ==
    ASSUME TypeOK, NEW c \in Containers, NEW from, NEW to, Goto(c, from, to), from # "none"
    PROVE  /\ c \in lent
           /\ to # "none" => lent' = lent
           /\ to = "none" => lent' = lent \ {c}
  BY DEF TypeOK, Goto, lent

LEMMA LentSame == ASSUME UNCHANGED worker PROVE UNCHANGED lent
  BY DEF lent

\* Outside of the scraping part of poll() no connection is lent, nor is any closed
\* that the map holds.
LEMMA NothingLent ==
    ASSUME IInv, phase # "scrape"
    PROVE  lent = {} /\ \A c \in connections : client[c] # "closed"
  BY DEF IInv, TypeOK, WorkerInv, ClientInv, lent

\* One turn of the loop that arms disks: the client of the goroutine is closed, or
\* nothing the pool can see happens.
LEMMA ArmDiskRefines ==
    ASSUME IInv, NEW c \in Containers, NEW d \in Disks, ArmDisk(c, d)
    PROVE  [Pool!Next]_(Pool!poolVars)
  <1>1. worker[c] = "arm" /\ connections' = connections
    BY DEF ArmDisk
  <1>2. \/ UNCHANGED <<worker, client>>
        \/ CloseClient(c) /\ Goto(c, "arm", "error")
    BY DEF ArmDisk, EnableHistogram
  <1>3. CASE UNCHANGED <<worker, client>>
    BY <1>1, <1>3, LentSame DEF Pool!poolVars
  <1>4. CASE CloseClient(c) /\ Goto(c, "arm", "error")
    <2>1. Pool!Close(c)
      BY <1>1, <1>4, LentStep DEF IInv, CloseClient, Pool!Close
    <2> QED
      BY <2>1 DEF Pool!Next
  <1> QED
    BY <1>2, <1>3, <1>4

\* The steps of a scrape are Close, GiveBack, GiveUp, or nothing the pool can see.
LEMMA ScrapeRefines ==
    ASSUME IInv, NEW c \in Containers, Scrape(c)
    PROVE  [Pool!Next]_(Pool!poolVars)
  <1> USE DEF IInv, conns
  <1>1. CASE Acquire(c)
    BY <1>1, LentStep DEF Acquire, Pool!poolVars
  <1>2. CASE Query(c) \/ Virtio(c)
    <2>1. c \in lent /\ lent' = lent /\ connections' = connections
      BY <1>2, LentStep DEF Query, Virtio
    <2>2. client' = client \/ CloseClient(c)
      BY <1>2 DEF Query, Virtio
    <2>3. CASE client' = client
      BY <2>1, <2>3 DEF Pool!poolVars
    <2>4. CASE CloseClient(c)
      <3>1. Pool!Close(c)
        BY <2>1, <2>4 DEF CloseClient, Pool!Close
      <3> QED
        BY <3>1 DEF Pool!Next
    <2> QED
      BY <2>2, <2>3, <2>4
  <1>3. CASE Append(c)
    <2>1. Pool!GiveBack(c)
      BY <1>3, LentStep DEF Append, Pool!GiveBack
    <2> QED
      BY <2>1 DEF Pool!Next
  <1>4. CASE Fail(c)
    <2>1. c \in lent /\ lent' = lent \ {c} /\ Drop({c})
      BY <1>4, LentStep DEF Fail
    <2>2. c \in connections
      BY <2>1 DEF lent, WorkerInv
    <2>3. Pool!GiveUp(c)
      BY <2>1, <2>2 DEF Drop, Pool!GiveUp, Pool!Remove
    <2> QED
      BY <2>3 DEF Pool!Next
  <1> QED
    BY <1>1, <1>2, <1>3, <1>4, ArmDiskRefines DEF Scrape

\* The steps of poll() between the scrapes.
LEMMA PollRefines ==
    ASSUME IInv, StartPoll \/ Dispatch \/ Publish \/ CloseAll \/ \E c \in Containers : Connect(c)
    PROVE  [Pool!Next]_(Pool!poolVars)
  <1> USE DEF IInv, conns, run, scrape
  <1>1. CASE StartPoll
    <2>1. PICK gone \in SUBSET connections : Drop(gone)
      BY <1>1 DEF StartPoll
    <2>2. Pool!Prune(gone)
      BY <1>1, <2>1, NothingLent, LentSame DEF StartPoll, Drop, Pool!Prune, Pool!Remove
    <2>3. gone \in SUBSET Containers
      BY <2>1 DEF TypeOK
    <2> QED
      BY <2>2, <2>3 DEF Pool!Next
  <1>2. CASE Dispatch
    <2>1. lent' = connections
      <3>1. worker' = [c \in Containers |-> IF c \in connections THEN "queued" ELSE "none"]
        BY <1>2 DEF Dispatch
      <3> QED
        BY <3>1 DEF TypeOK, lent
    <2>2. client = [c \in Containers |-> IF c \in {} THEN "closed" ELSE client[c]]
      BY DEF TypeOK
    <2>3. Pool!Lend({}, connections)
      BY <1>2, <2>1, <2>2, NothingLent DEF Dispatch, Pool!Lend, Pool!Remove
    <2>4. {} \in SUBSET Containers /\ connections \in SUBSET Containers
      BY DEF TypeOK
    <2> QED
      BY <2>3, <2>4, Zenon DEF Pool!Next
  <1>3. CASE Publish
    BY <1>3, LentSame DEF Publish, Pool!poolVars
  <1>4. CASE CloseAll
    <2>1. Pool!Prune(connections)
      BY <1>4, NothingLent, LentSame DEF CloseAll, Drop, Pool!Prune, Pool!Remove
    <2>2. connections \in SUBSET Containers
      BY DEF TypeOK
    <2> QED
      BY <2>1, <2>2 DEF Pool!Next
  <1>5. ASSUME NEW c \in Containers, Connect(c)
        PROVE  [Pool!Next]_(Pool!poolVars)
    <2>1. lent = {} /\ lent' = lent /\ c \notin connections
      BY <1>5, NothingLent, LentSame DEF Connect, WorkerInv
    <2>2. CASE UNCHANGED conns
      BY <2>1, <2>2 DEF Pool!poolVars
    <2>3. CASE ~UNCHANGED conns
      <3>1. Pool!Add(c)
        BY <1>5, <2>1, <2>3 DEF Connect, connectVM, Pool!Add
      <3> QED
        BY <3>1 DEF Pool!Next
    <2> QED
      BY <2>2, <2>3
  <1> QED
    BY <1>1, <1>2, <1>3, <1>4, <1>5

\* The environment breaks connections that are held, and does no more to them.
LEMMA EnvironmentRefines ==
    ASSUME IInv, Environment \/ Stopped \/ UNCHANGED vars
    PROVE  [Pool!Next]_(Pool!poolVars)
  <1>1. UNCHANGED lent /\ UNCHANGED connections
    BY LentSame DEF Environment, Cancel, PodChanges, Hangup, Io, Replug, Stopped, vars, conns,
                    scrape
  <1>2. CASE UNCHANGED client
    BY <1>1, <1>2 DEF Pool!poolVars
  <1>3. \A c \in Containers : client[c] = "open" => c \in connections
    BY DEF IInv, ClientInv
  <1>4. ASSUME NEW c \in Containers, Hangup(c) PROVE Pool!Next
    <2>1. Pool!Break({c})
      BY <1>1, <1>3, <1>4, Zenon DEF Hangup, IInv, TypeOK, Pool!Break
    <2> QED
      BY <2>1 DEF Pool!Next
  <1>5. ASSUME NEW p \in Pods, PodChanges(p) PROVE Pool!Next
    <2> DEFINE gone == {c \in Containers : client[c] = "open" /\ peer[c] = running[p]}
    <2>1. client' = [c \in Containers |-> IF c \in gone THEN "broken" ELSE client[c]]
      BY <1>5 DEF PodChanges
    <2>2. Pool!Break(gone)
      BY <1>1, <1>3, <2>1 DEF Pool!Break
    <2> QED
      BY <2>2 DEF Pool!Next
  <1>6. \/ UNCHANGED client
        \/ \E c \in Containers : Hangup(c)
        \/ \E p \in Pods : PodChanges(p)
    BY DEF Environment, Cancel, Io, Replug, Stopped, vars, conns
  <1> QED
    BY <1>2, <1>4, <1>5, <1>6

\* Every behaviour of the collector is one of the pool: a poll changes the map
\* connections only while no goroutine has one, no goroutine touches that of another,
\* and after a poll no connection that was closed is left to lend.
THEOREM Refinement == Spec => ImplementsPool
  <1>1. Init => Pool!Init
    BY DEF Init, Pool!Init, lent
  <1>2. IInv /\ [Next]_vars => [Pool!Next]_(Pool!poolVars)
    BY ScrapeRefines, PollRefines, EnvironmentRefines DEF Next
  <1> QED
    BY <1>1, <1>2, Invariance, PTL DEF Spec, ImplementsPool, Pool!Spec
=============================================================================
