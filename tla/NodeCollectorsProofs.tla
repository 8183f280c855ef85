------------------------ MODULE NodeCollectorsProofs ------------------------
(***************************************************************************)
(* Proofs of the safety properties of NodeCollectors, for any pods, VMIs,  *)
(* file descriptors and bounds.  The inductive invariant says what poll()  *)
(* may rely on between its reads: that a QEMU which still runs had all its *)
(* directories when they were listed and has them when they are read, and  *)
(* that it is not the QEMU of a pod that the pod map could confuse it with. *)
(***************************************************************************)
EXTENDS NodeCollectors, TLAPS

Alive(p) == qemu[p] \in {"runs", "exits"}

\* What the life of pods and QEMUs keeps to.
PodsOK ==
    /\ \A p \in Pods, f \in Fds : <<p, f>> \in dirs => Alive(p)
    /\ \A p \in Pods, f \in Fds : qemu[p] = "runs" => <<p, f>> \in dirs
    /\ \A p \in Pods : store[p] = "finished" => ~Alive(p)
    /\ \A p, o \in Pods :
          p # o /\ VmiOf[p] = VmiOf[o] =>
             /\ store[p] = "running" => store[o] # "running"
             /\ Alive(p) => store[o] # "running" /\ ~Alive(o)

\* Where poll() of the KVM collector is, and what its variables hold then.
PollOK ==
    /\ kvm = "wait" => pids = {} /\ found = {} /\ pidMap = NoCounts
    /\ kvm # "scan" => entries = {}
    /\ \A p \in pids : qemu[p] # "none"
    /\ \A p \in pids : kvm = "lookup" /\ qemu[p] = "runs" =>
          domainToPod[VmiOf[p]] \in {p, NoPod}
    /\ \A p \in Pods, f \in Fds : <<p, f>> \in entries => pidMap[p][f] = 0

\* The results, of this poll and of the last one, in comparison.
SumsOK ==
    /\ \A r \in results, f \in Fds : r.exits[f] <= exits[r.pid][f]
    /\ \A p \in Pods, f \in Fds : pidMap[p][f] <= exits[p][f]
    /\ \A p \in pids, f \in Fds, r \in results :
          qemu[p] = "runs" /\ r.pid = p /\ <<p, f>> \notin entries
             => r.exits[f] <= pidMap[p][f]
    /\ \A s \in found, f \in Fds : s.exits[f] <= exits[s.pid][f]
    /\ \A s \in found, r \in results, f \in Fds :
          r.pid = s.pid => r.exits[f] <= s.exits[f]

\* Each QEMU has at most one result.
OnePerPid ==
    /\ \A s \in found : s.pid \notin pids
    /\ \A r, s \in found : r.pid = s.pid => r = s
    /\ \A r, s \in results : r.pid = s.pid => r = s

Read(k) == turn = "publish" \/ (k = "khugepaged" /\ turn = "ksmd")

\* What collectNodeStats knows of the threads it has been through.
ThreadsOK ==
    /\ turn \in {"wait", "publish"} => look = "first"
    /\ \A k \in steady : kthread[k] > 0
    /\ \A k \in steady : turn = k /\ look = "again" => threadPID[k] = kthread[k]
    /\ \A k \in steady : Read(k) /\ threadPID[k] > 0 => ns[k] = kthread[k]

Inv == TypeOK /\ PodsOK /\ PollOK /\ OwnPod /\ SumsOK /\ OnePerPid /\ ThreadsOK

-----------------------------------------------------------------------------
(* Type correctness.                                                       *)

USE DEF Threads

\* One counter of a table of counters is set.
LEMMA SetCounter ==
    ASSUME NEW m \in [Pods -> [Fds -> Nat]], NEW p \in Pods, NEW f \in Fds, NEW n \in Nat,
           NEW m1, m1 = [m EXCEPT ![p] = [m[p] EXCEPT ![f] = n]]
    PROVE  /\ m1 \in [Pods -> [Fds -> Nat]]
           /\ m1[p][f] = n
           /\ \A q \in Pods, g \in Fds : q # p \/ g # f => m1[q][g] = m[q][g]
<1> DEFINE row == [m[p] EXCEPT ![f] = n]
<1>1. row \in [Fds -> Nat] /\ row[f] = n /\ \A g \in Fds \ {f} : row[g] = m[p][g]
  OBVIOUS
<1> HIDE DEF row
<1>2. m1 = [m EXCEPT ![p] = row]
  BY DEF row
<1> QED BY <1>1, <1>2

LEMMA TypeInit == Init => TypeOK
BY NodeAssumption DEF Init, TypeOK, NoCounts, NoThread

LEMMA KvmTypes == TypeOK /\ Kvm /\ UNCHANGED collector => TypeOK'
<1> SUFFICES ASSUME TypeOK, Kvm, UNCHANGED collector PROVE TypeOK'
    OBVIOUS
<1> USE DEF TypeOK, pods, threads, cpu
<1>1. CASE ReadDir
  <2>1. pids' \subseteq Pods
    BY <1>1 DEF ReadDir
  <2> QED BY <1>1, <2>1 DEF ReadDir
<1>2. ASSUME NEW p \in Pods, NEW f \in Fds, scanDebugFS(p, f) PROVE TypeOK'
  <2>1. readUint64File(p, f) \in Nat
    BY DEF readUint64File
  <2>2. pidMap' = [pidMap EXCEPT ![p] = [pidMap[p] EXCEPT ![f] = pidMap[p][f] + readUint64File(p, f)]]
    BY <1>2 DEF scanDebugFS
  <2>3. pidMap' \in [Pods -> [Fds -> Nat]]
    BY <2>1, <2>2, SetCounter
  <2> QED BY <1>2, <2>3 DEF scanDebugFS
<1>3. CASE MapPods
  BY <1>3 DEF MapPods
<1>4. ASSUME NEW p \in Pods, Lookup(p) PROVE TypeOK'
  <2>1. found' \subseteq [pid : Pods, pod : Pods, exits : [Fds -> Nat]]
    BY <1>4, NodeAssumption DEF Lookup
  <2> QED BY <1>4, <2>1 DEF Lookup
<1>5. CASE PublishResults
  BY <1>5 DEF PublishResults, NoCounts
<1> QED BY <1>1, <1>2, <1>3, <1>4, <1>5 DEF Kvm

LEMMA CgroupTypes == TypeOK /\ Cgroup /\ UNCHANGED collector => TypeOK'
<1> SUFFICES ASSUME TypeOK, Cgroup, UNCHANGED collector PROVE TypeOK'
    OBVIOUS
<1> USE DEF TypeOK, pods, threads, scan
<1>1. CASE StartNodeStats
  BY <1>1 DEF StartNodeStats
<1>2. CASE PublishNode
  BY <1>2 DEF PublishNode, NoThread
<1>3. ASSUME NEW k \in Threads, ReadCPU(k) PROVE TypeOK'
  BY <1>3 DEF ReadCPU, GoOn
<1>4. ASSUME NEW k \in Threads, rediscover(k) PROVE TypeOK'
  BY <1>4 DEF rediscover
<1>5. ASSUME NEW k \in Threads, Unavailable(k) PROVE TypeOK'
  BY <1>5 DEF Unavailable, GoOn
<1> QED BY <1>1, <1>2, <1>3, <1>4, <1>5 DEF Cgroup

LEMMA VmTypes == TypeOK /\ VmsChange /\ UNCHANGED collector => TypeOK'
<1> SUFFICES ASSUME TypeOK, UNCHANGED collector, NEW p \in Pods,
                    \/ PodRuns(p) \/ PodFinishes(p) \/ QemuStarts(p) \/ QemuExits(p)
                    \/ \E f \in Fds : GuestExits(p, f) \/ CloseKvm(p, f)
             PROVE  TypeOK'
    BY DEF VmsChange
<1> USE DEF TypeOK, threads, scan, cpu
<1>1. CASE PodRuns(p) \/ PodFinishes(p)
  BY <1>1 DEF PodRuns, PodFinishes
<1>2. CASE QemuStarts(p) \/ QemuExits(p)
  BY <1>2 DEF QemuStarts, QemuExits
<1>3. ASSUME NEW f \in Fds, GuestExits(p, f) PROVE TypeOK'
  <2>1. exits' = [exits EXCEPT ![p] = [exits[p] EXCEPT ![f] = exits[p][f] + 1]]
    BY <1>3 DEF GuestExits
  <2>2. exits' \in [Pods -> [Fds -> Nat]]
    BY <2>1, SetCounter
  <2> QED BY <1>3, <2>2 DEF GuestExits
<1>4. ASSUME NEW f \in Fds, CloseKvm(p, f) PROVE TypeOK'
  BY <1>4 DEF CloseKvm
<1> QED BY <1>1, <1>2, <1>3, <1>4

LEMMA ThreadTypes == TypeOK /\ ThreadsChange /\ UNCHANGED collector => TypeOK'
<1> SUFFICES ASSUME TypeOK, UNCHANGED collector, NEW k \in Threads,
                    ThreadStops(k) \/ ThreadStarts(k)
             PROVE  TypeOK'
    BY DEF ThreadsChange
<1> USE DEF TypeOK, pods, scan, cpu
<1>1. CASE ThreadStops(k)
  BY <1>1 DEF ThreadStops
<1>2. CASE ThreadStarts(k)
  BY <1>2 DEF ThreadStarts
<1> QED BY <1>1, <1>2

\* Every variable keeps its type, whatever the pods and however many threads start:
\* the maps and slices of both poll() and the fields they end in.
THEOREM TypeCorrect == Spec => []TypeOK
<1>1. ASSUME TypeOK, [Next]_vars PROVE TypeOK'
  <2>1. CASE Next
    BY <1>1, <2>1, KvmTypes, CgroupTypes, VmTypes, ThreadTypes DEF Next
  <2>2. CASE UNCHANGED vars
    BY <1>1, <2>2 DEF TypeOK, vars, pods, threads, scan, cpu
  <2> QED BY <1>1, <2>1, <2>2
<1> QED BY TypeInit, <1>1, PTL DEF Spec
-----------------------------------------------------------------------------
(* The pods and their QEMUs.                                               *)

\* No action of a poll touches pods, QEMUs or directories.
LEMMA KvmKeepsPods == Kvm => UNCHANGED <<pods, threads, steady, cpu>>
BY DEF Kvm, ReadDir, scanDebugFS, MapPods, Lookup, PublishResults, pods, threads, cpu

LEMMA VmsKeepPoll == VmsChange => UNCHANGED <<scan, threads, steady, cpu>>
BY DEF VmsChange, PodRuns, PodFinishes, QemuStarts, QemuExits, GuestExits, CloseKvm,
       scan, threads, cpu

\* Pods of a VMI follow each other, and debugfs shows the KVMs of QEMUs that live.
LEMMA VmsKeepPodsOK == TypeOK /\ PodsOK /\ VmsChange => PodsOK'
<1> SUFFICES ASSUME TypeOK, PodsOK, NEW p \in Pods,
                    \/ PodRuns(p) \/ PodFinishes(p) \/ QemuStarts(p) \/ QemuExits(p)
                    \/ \E f \in Fds : GuestExits(p, f) \/ CloseKvm(p, f)
             PROVE  PodsOK'
    BY DEF VmsChange
<1>t. /\ store \in [Pods -> {"absent", "running", "finished"}]
      /\ qemu \in [Pods -> {"none", "runs", "exits", "gone"}]
      /\ dirs \subseteq Pods \X Fds
  BY DEF TypeOK
<1> USE DEF PodsOK, Alive
<1>1. CASE PodRuns(p)
  BY <1>1, <1>t DEF PodRuns, Rivals
<1>2. CASE PodFinishes(p)
  BY <1>2, <1>t DEF PodFinishes
<1>3. CASE QemuStarts(p)
  BY <1>3, <1>t DEF QemuStarts, Rivals
<1>4. CASE QemuExits(p)
  BY <1>4, <1>t DEF QemuExits
<1>5. ASSUME NEW f \in Fds, GuestExits(p, f) PROVE PodsOK'
  BY <1>5 DEF GuestExits
<1>6. ASSUME NEW f \in Fds, CloseKvm(p, f) PROVE PodsOK'
  BY <1>6, <1>t DEF CloseKvm
<1> QED BY <1>1, <1>2, <1>3, <1>4, <1>5, <1>6
-----------------------------------------------------------------------------
(* The poll of the KVM collector.                                          *)

\* What happens to the VMs disturbs no poll: a QEMU that starts in its midst is not
\* in its listing, and one that exits drops out of what is claimed.
LEMMA VmsKeepPollOK == TypeOK /\ PollOK /\ VmsChange => PollOK'
<1> SUFFICES ASSUME TypeOK, PollOK, NEW p \in Pods,
                    \/ PodRuns(p) \/ PodFinishes(p) \/ QemuStarts(p) \/ QemuExits(p)
                    \/ \E f \in Fds : GuestExits(p, f) \/ CloseKvm(p, f)
             PROVE  PollOK'
    BY DEF VmsChange
<1>1. /\ qemu' \in [Pods -> {"none", "runs", "exits", "gone"}]
      /\ \A q \in Pods : qemu[q] # "none" =>
            qemu'[q] # "none" /\ (qemu'[q] = "runs" => qemu[q] = "runs")
  BY DEF TypeOK, PodRuns, PodFinishes, QemuStarts, QemuExits, GuestExits, CloseKvm
<1>2. UNCHANGED scan
  BY VmsKeepPoll DEF VmsChange
<1> QED BY <1>1, <1>2 DEF PollOK, scan, TypeOK

\* A listing shows no QEMU that has not started, and the pod map knows a QEMU that
\* still runs when it is looked up under no pod but its own.
LEMMA KvmKeepsPollOK == TypeOK /\ PodsOK /\ PollOK /\ Kvm => PollOK'
<1> SUFFICES ASSUME TypeOK, PodsOK, PollOK, Kvm PROVE PollOK'
    OBVIOUS
<1>0. UNCHANGED <<store, qemu, dirs, exits>>
  BY KvmKeepsPods DEF pods
<1>1. CASE ReadDir
  <2>1. \A p \in pids' : qemu[p] # "none"
    BY <1>1 DEF ReadDir, PodsOK, Alive, TypeOK
  <2>2. \A p \in Pods, f \in Fds : pidMap[p][f] = 0
    BY <1>1 DEF ReadDir, PollOK, NoCounts
  <2> QED BY <1>0, <1>1, <2>1, <2>2 DEF ReadDir, PollOK
<1>2. ASSUME NEW p \in Pods, NEW f \in Fds, scanDebugFS(p, f) PROVE PollOK'
  <2>1. readUint64File(p, f) \in Nat
    BY DEF readUint64File, TypeOK
  <2>2. \A q \in Pods, g \in Fds : q # p \/ g # f => pidMap'[q][g] = pidMap[q][g]
    BY <1>2, <2>1, SetCounter DEF scanDebugFS, TypeOK
  <2>3. \A q \in Pods, g \in Fds :
           <<q, g>> \in entries' => <<q, g>> \in entries /\ (q # p \/ g # f)
    BY <1>2 DEF scanDebugFS
  <2> QED BY <1>0, <1>2, <2>2, <2>3 DEF scanDebugFS, PollOK
<1>3. CASE MapPods
  <2>1. ASSUME NEW p \in pids, qemu[p] = "runs"
        PROVE  domainToPod'[VmiOf[p]] \in {p, NoPod}
    <3>1. PICK map \in [Vmis -> Pods \cup {NoPod}] :
             BuildDomainToPodMap(map) /\ domainToPod' = map
      BY <1>3 DEF MapPods
    <3>2. p \in Pods /\ VmiOf[p] \in Vmis
      BY NodeAssumption DEF TypeOK
    <3>3. SUFFICES ASSUME map[VmiOf[p]] # NoPod, map[VmiOf[p]] # p PROVE FALSE
      BY <3>1
    <3> DEFINE o == map[VmiOf[p]]
    <3>4. o \in Pods /\ store[o] = "running" /\ VmiOf[o] = VmiOf[p]
      BY <3>1, <3>2, <3>3 DEF BuildDomainToPodMap, Running
    <3> QED BY <2>1, <3>2, <3>3, <3>4 DEF PodsOK, Alive
  <2> QED BY <1>0, <1>3, <2>1 DEF MapPods, PollOK
<1>4. ASSUME NEW p \in Pods, Lookup(p) PROVE PollOK'
  BY <1>0, <1>4 DEF Lookup, PollOK
<1>5. CASE PublishResults
  BY <1>0, <1>5 DEF PublishResults, PollOK, NoCounts
<1> QED BY <1>1, <1>2, <1>3, <1>4, <1>5 DEF Kvm

\* A QEMU is taken out of pids with its result.
LEMMA KvmKeepsOnePerPid == TypeOK /\ OnePerPid /\ PollOK /\ Kvm => OnePerPid'
<1> SUFFICES ASSUME TypeOK, OnePerPid, PollOK, Kvm PROVE OnePerPid'
    OBVIOUS
<1> USE DEF OnePerPid
<1>1. CASE ReadDir
  BY <1>1 DEF ReadDir, PollOK
<1>2. ASSUME NEW p \in Pods, NEW f \in Fds, scanDebugFS(p, f) PROVE OnePerPid'
  BY <1>2 DEF scanDebugFS
<1>3. CASE MapPods
  BY <1>3 DEF MapPods
<1>4. ASSUME NEW p \in Pods, Lookup(p) PROVE OnePerPid'
  BY <1>4 DEF Lookup
<1>5. CASE PublishResults
  BY <1>5 DEF PublishResults
<1> QED BY <1>1, <1>2, <1>3, <1>4, <1>5 DEF Kvm

LEMMA KvmKeepsOwnPod == TypeOK /\ OwnPod /\ PollOK /\ Kvm => OwnPod'
<1> SUFFICES ASSUME TypeOK, OwnPod, PollOK, Kvm PROVE OwnPod'
    OBVIOUS
<1> USE DEF OwnPod
<1>1. CASE ReadDir \/ MapPods
  BY <1>1 DEF ReadDir, MapPods
<1>2. ASSUME NEW p \in Pods, NEW f \in Fds, scanDebugFS(p, f) PROVE OwnPod'
  BY <1>2 DEF scanDebugFS
<1>3. ASSUME NEW p \in Pods, Lookup(p) PROVE OwnPod'
  BY <1>3 DEF Lookup, PollOK, ReadDomainName
<1>4. CASE PublishResults
  BY <1>4 DEF PublishResults
<1> QED BY <1>1, <1>2, <1>3, <1>4 DEF Kvm

\* Counters rise, so no sum comes to exceed them.
LEMMA VmsKeepSumsOK == TypeOK /\ PollOK /\ SumsOK /\ VmsChange => SumsOK'
<1> SUFFICES ASSUME TypeOK, PollOK, SumsOK, NEW p \in Pods,
                    \/ PodRuns(p) \/ PodFinishes(p) \/ QemuStarts(p) \/ QemuExits(p)
                    \/ \E f \in Fds : GuestExits(p, f) \/ CloseKvm(p, f)
             PROVE  SumsOK'
    BY DEF VmsChange
<1>1. \A q \in Pods : qemu[q] # "none" /\ qemu'[q] = "runs" => qemu[q] = "runs"
  BY DEF TypeOK, PodRuns, PodFinishes, QemuStarts, QemuExits, GuestExits, CloseKvm
<1>2. UNCHANGED <<entries, pidMap, pids, found, results>>
  BY VmsKeepPoll DEF VmsChange, scan
<1>3. \A q \in Pods, g \in Fds : exits[q][g] <= exits'[q][g] /\ exits'[q][g] \in Nat
  <2>1. ASSUME NEW f \in Fds, GuestExits(p, f)
        PROVE  \A q \in Pods, g \in Fds : exits[q][g] <= exits'[q][g] /\ exits'[q][g] \in Nat
    <3>1. exits[p][f] \in Nat /\ exits[p][f] + 1 \in Nat
      BY DEF TypeOK
    <3>2. /\ exits' \in [Pods -> [Fds -> Nat]]
          /\ exits'[p][f] = exits[p][f] + 1
          /\ \A q \in Pods, g \in Fds : q # p \/ g # f => exits'[q][g] = exits[q][g]
      BY <2>1, <3>1, SetCounter DEF GuestExits, TypeOK
    <3>3. \A q \in Pods, g \in Fds : exits[q][g] \in Nat /\ exits'[q][g] \in Nat
      BY <3>2 DEF TypeOK
    <3>4. exits[p][f] <= exits'[p][f]
      BY <3>1, <3>2
    <3>5. ASSUME NEW q \in Pods, NEW g \in Fds, q # p \/ g # f
          PROVE  exits[q][g] <= exits'[q][g]
      BY <3>2, <3>3, <3>5
    <3> QED BY <3>3, <3>4, <3>5
  <2>2. UNCHANGED exits \/ \E f \in Fds : GuestExits(p, f)
    BY DEF PodRuns, PodFinishes, QemuStarts, QemuExits, CloseKvm
  <2> QED BY <2>1, <2>2 DEF TypeOK
<1>4. /\ \A r \in results \cup found : r.pid \in Pods /\ \A f \in Fds : r.exits[f] \in Nat
      /\ \A q \in Pods, f \in Fds : exits[q][f] \in Nat /\ pidMap[q][f] \in Nat
  BY DEF TypeOK
<1>5. \A r \in results, f \in Fds : r.exits[f] <= exits'[r.pid][f]
  BY <1>3, <1>4 DEF SumsOK
<1>6. \A q \in Pods, f \in Fds : pidMap[q][f] <= exits'[q][f]
  BY <1>3, <1>4 DEF SumsOK
<1>7. \A r \in found, f \in Fds : r.exits[f] <= exits'[r.pid][f]
  BY <1>3, <1>4 DEF SumsOK
<1>8. \A q \in pids : qemu'[q] = "runs" => qemu[q] = "runs"
  BY <1>1 DEF PollOK, TypeOK
<1> QED BY <1>2, <1>5, <1>6, <1>7, <1>8 DEF SumsOK

\* A QEMU that still runs when it is looked up has had every counter read in this
\* poll, hence not below what the last one published.
LEMMA KvmKeepsSumsOK == TypeOK /\ PodsOK /\ PollOK /\ SumsOK /\ Kvm => SumsOK'
<1> SUFFICES ASSUME TypeOK, PodsOK, PollOK, SumsOK, Kvm PROVE SumsOK'
    OBVIOUS
<1>0. UNCHANGED <<store, qemu, dirs, exits>>
  BY KvmKeepsPods DEF pods
<1>1. CASE ReadDir
  <2>1. \A p \in pids', f \in Fds : qemu[p] = "runs" => <<p, f>> \in entries'
    BY <1>1 DEF ReadDir, PodsOK, TypeOK
  <2> QED BY <1>0, <1>1, <2>1 DEF ReadDir, SumsOK
<1>2. ASSUME NEW p \in Pods, NEW f \in Fds, scanDebugFS(p, f) PROVE SumsOK'
  <2>1. readUint64File(p, f) \in Nat /\ pidMap[p][f] = 0 /\ exits[p][f] \in Nat
    BY <1>2 DEF scanDebugFS, readUint64File, TypeOK, PollOK
  <2>2. pidMap[p][f] + readUint64File(p, f) = readUint64File(p, f)
    BY <2>1
  <2>3. /\ pidMap' \in [Pods -> [Fds -> Nat]]
        /\ pidMap'[p][f] = readUint64File(p, f)
        /\ \A q \in Pods, g \in Fds : q # p \/ g # f => pidMap'[q][g] = pidMap[q][g]
    BY <1>2, <2>1, <2>2, SetCounter DEF scanDebugFS, TypeOK
  <2>4. readUint64File(p, f) <= exits[p][f]
    BY <2>1 DEF readUint64File
  <2>5. qemu[p] = "runs" => readUint64File(p, f) = exits[p][f]
    BY DEF readUint64File, PodsOK
  <2>6. UNCHANGED <<pids, found, results>> /\ entries' = entries \ {<<p, f>>}
    BY <1>2 DEF scanDebugFS
  <2>7. \A q \in Pods, g \in Fds : pidMap'[q][g] <= exits[q][g]
    BY <2>3, <2>4 DEF SumsOK
  <2>8. ASSUME NEW q \in pids, NEW g \in Fds, NEW r \in results,
               qemu[q] = "runs", r.pid = q, <<q, g>> \notin entries'
        PROVE  r.exits[g] <= pidMap'[q][g]
    <3>1. CASE q = p /\ g = f
      BY <2>3, <2>5, <2>8, <3>1 DEF SumsOK
    <3>2. CASE q # p \/ g # f
      <4>1. q \in Pods /\ <<q, g>> \notin entries
        BY <2>6, <2>8, <3>2 DEF TypeOK
      <4> QED BY <2>3, <2>8, <3>2, <4>1 DEF SumsOK
    <3> QED BY <3>1, <3>2
  <2> QED BY <1>0, <2>6, <2>7, <2>8 DEF SumsOK
<1>3. CASE MapPods
  BY <1>0, <1>3 DEF MapPods, SumsOK
<1>4. ASSUME NEW p \in Pods, Lookup(p) PROVE SumsOK'
  <2>1. CASE UNCHANGED found
    BY <1>0, <1>4, <2>1 DEF Lookup, SumsOK
  <2>2. CASE found' # found
    <3>1. PICK s : /\ found' = found \cup {s}
                   /\ s.pid = p /\ s.exits = pidMap[p] /\ qemu[p] = "runs"
      BY <1>4, <2>2 DEF Lookup, ReadDomainName
    <3>2. entries = {} /\ p \in pids /\ pids' = pids \ {p}
          /\ UNCHANGED <<entries, pidMap, results>>
      BY <1>4 DEF Lookup, PollOK
    <3>3. \A f \in Fds : s.exits[f] <= exits[s.pid][f]
      BY <3>1 DEF SumsOK
    <3>4. \A r \in results, f \in Fds : r.pid = s.pid => r.exits[f] <= s.exits[f]
      BY <3>1, <3>2 DEF SumsOK
    <3> QED BY <1>0, <3>1, <3>2, <3>3, <3>4 DEF SumsOK
  <2> QED BY <2>1, <2>2
<1>5. CASE PublishResults
  <2>1. \A p \in Pods, f \in Fds : exits[p][f] \in Nat /\ pidMap'[p][f] = 0
    BY <1>5 DEF PublishResults, NoCounts, TypeOK
  <2>2. results' = found /\ found' = {} /\ pids' = {}
    BY <1>5 DEF PublishResults
  <2> QED BY <1>0, <2>1, <2>2 DEF SumsOK
<1> QED BY <1>1, <1>2, <1>3, <1>4, <1>5 DEF Kvm
-----------------------------------------------------------------------------
(* The kernel threads of the cgroup collector.                             *)

LEMMA CgroupKeepsPods == Cgroup \/ ThreadsChange => UNCHANGED <<pods, scan>>
BY DEF Cgroup, ThreadsChange, StartNodeStats, PublishNode, ReadCPU, rediscover,
       Unavailable, ThreadStops, ThreadStarts, pods, scan

\* A thread that has run since the poll began is the one whose PID was found.
LEMMA CgroupKeepsThreadsOK == TypeOK /\ ThreadsOK /\ Cgroup => ThreadsOK'
<1> SUFFICES ASSUME TypeOK, ThreadsOK, Cgroup PROVE ThreadsOK'
    OBVIOUS
<1> USE DEF ThreadsOK, Read
<1>1. CASE StartNodeStats
  BY <1>1 DEF StartNodeStats, threads, TypeOK
<1>2. CASE PublishNode
  BY <1>2 DEF PublishNode, threads
<1>3. ASSUME NEW k \in Threads, ReadCPU(k) PROVE ThreadsOK'
  BY <1>3 DEF ReadCPU, GoOn, threads, TypeOK
<1>4. ASSUME NEW k \in Threads, rediscover(k) PROVE ThreadsOK'
  BY <1>4 DEF rediscover, threads, TypeOK
<1>5. ASSUME NEW k \in Threads, Unavailable(k) PROVE ThreadsOK'
  BY <1>5 DEF Unavailable, GoOn, threads, TypeOK
<1> QED BY <1>1, <1>2, <1>3, <1>4, <1>5 DEF Cgroup

LEMMA ThreadsKeepThreadsOK == TypeOK /\ ThreadsOK /\ ThreadsChange => ThreadsOK'
<1> SUFFICES ASSUME TypeOK, ThreadsOK, NEW k \in Threads,
                    ThreadStops(k) \/ ThreadStarts(k)
             PROVE  ThreadsOK'
    BY DEF ThreadsChange
<1> USE DEF ThreadsOK, Read
<1>1. CASE ThreadStops(k)
  BY <1>1 DEF ThreadStops, cpu, TypeOK
<1>2. CASE ThreadStarts(k)
  BY <1>2 DEF ThreadStarts, cpu, TypeOK
<1> QED BY <1>1, <1>2
-----------------------------------------------------------------------------
(* The theorems.                                                           *)

LEMMA InvInit == Init => Inv
<1> SUFFICES ASSUME Init PROVE Inv
    OBVIOUS
<1>1. TypeOK
  BY TypeInit
<1>2. PodsOK /\ PollOK /\ OwnPod /\ SumsOK /\ OnePerPid /\ ThreadsOK
  BY DEF Init, PodsOK, Alive, PollOK, OwnPod, SumsOK, OnePerPid, ThreadsOK, NoCounts
<1> QED BY <1>1, <1>2 DEF Inv

LEMMA InvNext == Inv /\ [Next]_vars => Inv'
<1> SUFFICES ASSUME Inv, [Next]_vars PROVE Inv'
    OBVIOUS
<1> USE DEF Inv
<1>1. CASE Kvm /\ UNCHANGED collector
  <2>1. PodsOK' /\ ThreadsOK'
    BY <1>1, KvmKeepsPods DEF PodsOK, Alive, ThreadsOK, Read, pods, threads, cpu
  <2> QED BY <1>1, <2>1, KvmTypes, KvmKeepsPollOK, KvmKeepsOwnPod, KvmKeepsSumsOK,
             KvmKeepsOnePerPid
<1>2. CASE VmsChange /\ UNCHANGED collector
  <2>1. OwnPod' /\ OnePerPid' /\ ThreadsOK'
    BY <1>2, VmsKeepPoll DEF OwnPod, OnePerPid, ThreadsOK, Read, scan, threads, cpu
  <2> QED BY <1>2, <2>1, VmTypes, VmsKeepPodsOK, VmsKeepPollOK, VmsKeepSumsOK
<1>3. CASE (Cgroup \/ ThreadsChange) /\ UNCHANGED collector
  <2>1. PodsOK' /\ PollOK' /\ OwnPod' /\ SumsOK' /\ OnePerPid'
    BY <1>3, CgroupKeepsPods
       DEF PodsOK, Alive, PollOK, OwnPod, SumsOK, OnePerPid, pods, scan
  <2> QED BY <1>3, <2>1, CgroupTypes, ThreadTypes, CgroupKeepsThreadsOK,
             ThreadsKeepThreadsOK
<1>4. CASE UNCHANGED vars
  BY <1>4 DEF vars, pods, threads, scan, cpu, TypeOK, PodsOK, Alive, PollOK, OwnPod,
              SumsOK, OnePerPid, ThreadsOK, Read
<1> QED BY <1>1, <1>2, <1>3, <1>4 DEF Next

LEMMA Invariance == Spec => []Inv
BY InvInit, InvNext, PTL DEF Spec

\* However a restart of a VM falls into a poll, the counters of a QEMU are published
\* under the pod it runs in (kvm/collector.go 151-185, vmi.go 54-74).
THEOREM LabelledByOwnPod == Spec => []OwnPod
BY Invariance, PTL DEF Inv

\* A published counter of a QEMU never falls, although poll() counts files that it
\* cannot read as 0 (kvm/collector.go 142-162, 207-264).
THEOREM CountersNeverFall == Spec => CountersHold
<1>1. Inv /\ [Next]_vars =>
         [\A r \in results, s \in results' :
             r.pid = s.pid => \A f \in Fds : r.exits[f] <= s.exits[f]]_vars
  <2> SUFFICES ASSUME Inv, Next, NEW r \in results, NEW s \in results', r.pid = s.pid,
                      NEW f \in Fds
               PROVE  r.exits[f] <= s.exits[f]
      OBVIOUS
  <2>1. CASE UNCHANGED results
    <3>1. r = s /\ r.exits[f] \in Nat
      BY <2>1 DEF Inv, OnePerPid, TypeOK
    <3> QED BY <3>1
  <2>2. CASE results' = found
    BY <2>2 DEF Inv, SumsOK
  <2>3. UNCHANGED results \/ results' = found
    BY CgroupKeepsPods, VmsKeepPoll
       DEF Next, scan, Kvm, ReadDir, scanDebugFS, MapPods, Lookup, PublishResults
  <2> QED BY <2>1, <2>2, <2>3
<1> QED BY <1>1, Invariance, PTL DEF Spec, CountersHold

\* A kernel thread that runs all through a poll is reported by it under the PID it
\* has then, unless an earlier poll has found none (cgroup/collector.go 430-458).
THEOREM ThreadsAreFollowed == Spec => ThreadFollowed
<1>1. Inv /\ [Next]_vars =>
         [turn = "publish" /\ turn' = "wait" =>
            \A k \in steady : threadPID[k] > 0 => node'[k] = kthread[k]]_vars
  <2> SUFFICES ASSUME Inv, Next, turn = "publish", turn' = "wait"
               PROVE  \A k \in steady : threadPID[k] > 0 => node'[k] = kthread[k]
      OBVIOUS
  <2>1. node' = ns
    BY KvmKeepsPods, VmsKeepPoll
       DEF Next, cpu, Cgroup, ThreadsChange, StartNodeStats, PublishNode, ReadCPU,
           rediscover, Unavailable, ThreadStops, ThreadStarts, GoOn
  <2> QED BY <2>1 DEF Inv, ThreadsOK, Read
<1> QED BY <1>1, Invariance, PTL DEF Spec, ThreadFollowed
=============================================================================
