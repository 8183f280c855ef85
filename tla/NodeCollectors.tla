--------------------------- MODULE NodeCollectors ---------------------------
(***************************************************************************)
(* The collectors that find their subjects by PID.  The KVM collector      *)
(* (pkg/kvm/collector.go) adds up the debugfs counters of each PID, then   *)
(* asks /proc for its domain and the pod store for the pod of the domain   *)
(* (pkg/vmi/vmi.go).  The cgroup collector (pkg/cgroup/collector.go) reads *)
(* the CPU time of kernel threads whose PIDs it has cached.  Processes and *)
(* pods come and go while they do so.                                      *)
(*                                                                         *)
(* A pod runs one QEMU, and stands for its PID; a kernel thread has a new  *)
(* PID at every start.  The kernel hands out PIDs in turn, so that none    *)
(* comes back within the polls looked at.  The four counters of a KVM are  *)
(* read alike; one stands for them.  A sum of counters is kept as its      *)
(* summands: it cannot fall when none of them does.  The two collectors    *)
(* share no state, and each is looked at by itself.                        *)
(***************************************************************************)
EXTENDS Naturals

CONSTANTS Pods,        \* virt-launcher pods
          Vmis,
          VmiOf,       \* the VMI of each pod, which its QEMU's -name tells
          NoPod,       \* the empty pod name
          Fds,         \* the KVM file descriptors of a QEMU
          MaxExits,    \* bound on the exits counted by a KVM
          MaxStarts    \* bound on the starts of kernel threads

ASSUME NodeAssumption ==
    /\ VmiOf \in [Pods -> Vmis]
    /\ NoPod \notin Pods
    /\ MaxExits \in Nat
    /\ MaxStarts \in Nat

Threads == {"khugepaged", "ksmd"}

VARIABLES
    collector,    \* the collector that is enabled
    store,        \* the phase of each pod in the pod store
    qemu,         \* the QEMU of each pod
    dirs,         \* the <pid>-<fd> directories of debugfs
    exits,        \* the counters in them
    kthread,      \* the PID of each kernel thread, 0 if there is none
    lastPID,      \* the last PID given to a kernel thread
    steady,       \* history: threads that run since the cgroup poll began
    kvm,          \* where the poll of the KVM collector is
    entries,      \* directories of this scan that remain to be read
    pidMap,       \* the sums of scanDebugFS, by their summands
    domainToPod,
    pids,         \* PIDs of the scan that remain to be looked up
    found,        \* results of the poll under way
    results,      \* results published
    turn,         \* where the poll of the cgroup collector is
    look,         \* its first or second reading of a thread
    threadPID,    \* khugepagePID and ksmdPID
    ns,           \* the PID behind each CPU time it has read, 0 if unavailable
    node          \* the same, as published

pods    == <<store, qemu, dirs, exits>>
threads == <<kthread, lastPID>>
scan    == <<kvm, entries, pidMap, domainToPod, pids, found, results>>
cpu     == <<turn, look, threadPID, ns, node>>
vars    == <<collector, pods, threads, steady, scan, cpu>>

NoCounts == [p \in Pods |-> [f \in Fds |-> 0]]
NoThread == [k \in Threads |-> 0]

Init ==
    /\ collector \in {"kvm", "cgroup"}
    /\ store = [p \in Pods |-> "absent"]
    /\ qemu = [p \in Pods |-> "none"]
    /\ dirs = {}
    /\ exits = NoCounts
    /\ kthread \in [Threads -> {0, 1}]
    /\ lastPID = 1
    /\ steady = {}
    /\ kvm = "wait"
    /\ entries = {}
    /\ pidMap = NoCounts
    /\ domainToPod = [v \in Vmis |-> NoPod]
    /\ pids = {}
    /\ found = {}
    /\ results = {}
    /\ turn = "wait"
    /\ look = "first"
    /\ threadPID = kthread   \* discoverKernelThreads
    /\ ns = NoThread
    /\ node = NoThread
-----------------------------------------------------------------------------
(* The poll of the KVM collector.                                          *)

\* The listing of the directory.  If it fails, poll() leaves everything as it is.
ReadDir ==
    /\ kvm = "wait"
    /\ kvm' = "scan"
    /\ entries' = dirs
    /\ pids' = {e[1] : e \in dirs}
    /\ UNCHANGED <<pods, threads, steady, pidMap, domainToPod, found, results, cpu>>

\* A file that cannot be read counts as 0.
readUint64File(p, f) == IF <<p, f>> \in dirs THEN exits[p][f] ELSE 0

scanDebugFS(p, f) ==
    /\ kvm = "scan"
    /\ <<p, f>> \in entries
    /\ entries' = entries \ {<<p, f>>}
    /\ pidMap' = [pidMap EXCEPT ![p] = [@ EXCEPT ![f] = pidMap[p][f] + readUint64File(p, f)]]
    /\ UNCHANGED <<pods, threads, steady, kvm, domainToPod, pids, found, results, cpu>>

\* Mutant: the phase of a pod is not looked at.
RunningAnyPhase == {p \in Pods : store[p] # "absent"}

Running == {p \in Pods : store[p] = "running"}

\* Of several pods of a VMI, the one the store lists last is taken.
BuildDomainToPodMap(map) ==
    /\ map \in [Vmis -> Running \cup {NoPod}]
    /\ \A p \in Running : map[VmiOf[p]] # NoPod
    /\ \A v \in Vmis : map[v] # NoPod => VmiOf[map[v]] = v

MapPods ==
    /\ kvm = "scan"
    /\ entries = {}
    /\ kvm' = "lookup"
    /\ \E map \in [Vmis -> Pods \cup {NoPod}] :
          BuildDomainToPodMap(map) /\ domainToPod' = map
    /\ UNCHANGED <<pods, threads, steady, entries, pidMap, pids, found, results, cpu>>

\* Mutant: the name of a QEMU that is exiting can still be had, from a cache.
ReadDomainNameCached(p) == qemu[p] \in {"runs", "exits"}

\* The command line is empty from the moment a process gives up its memory.
ReadDomainName(p) == qemu[p] = "runs"

Lookup(p) ==
    LET pod == domainToPod[VmiOf[p]]
    IN /\ kvm = "lookup"
       /\ p \in pids
       /\ pids' = pids \ {p}
       /\ \/ /\ ReadDomainName(p) /\ pod # NoPod
             /\ found' = found \cup {[pid |-> p, pod |-> pod, exits |-> pidMap[p]]}
          \/ /\ ~ReadDomainName(p) \/ pod = NoPod
             /\ UNCHANGED found
       /\ UNCHANGED <<pods, threads, steady, kvm, entries, pidMap, domainToPod, results, cpu>>

PublishResults ==
    /\ kvm = "lookup"
    /\ pids = {}
    /\ kvm' = "wait"
    /\ results' = found
    /\ found' = {}
    /\ pidMap' = NoCounts
    /\ domainToPod' = [v \in Vmis |-> NoPod]
    /\ UNCHANGED <<pods, threads, steady, entries, pids, cpu>>
-----------------------------------------------------------------------------
(* collectNodeStats in the poll of the cgroup collector.                   *)

StartNodeStats ==
    /\ turn = "wait"
    /\ turn' = "khugepaged"
    /\ steady' = {k \in Threads : kthread[k] > 0}
    /\ UNCHANGED <<pods, threads, scan, look, threadPID, ns, node>>

GoOn(k) == /\ turn' = IF k = "khugepaged" THEN "ksmd" ELSE "publish"
           /\ look' = "first"

\* readProcessCPUSeconds succeeds, at once or after a new search.
ReadCPU(k) ==
    /\ turn = k
    /\ threadPID[k] > 0 /\ kthread[k] = threadPID[k]
    /\ ns' = [ns EXCEPT ![k] = threadPID[k]]
    /\ GoOn(k)
    /\ UNCHANGED <<pods, threads, steady, scan, threadPID, node>>

\* Mutant: a PID once found is kept.
rediscoverNothing(k) ==
    /\ turn = k /\ look = "first"
    /\ threadPID[k] > 0 /\ kthread[k] # threadPID[k]
    /\ look' = "again"
    /\ UNCHANGED <<pods, threads, steady, scan, turn, threadPID, ns, node>>

\* The cached PID is gone: rediscoverKhugepaged, rediscoverKsmd look for the thread.
rediscover(k) ==
    /\ turn = k /\ look = "first"
    /\ threadPID[k] > 0 /\ kthread[k] # threadPID[k]
    /\ look' = "again"
    /\ threadPID' = [threadPID EXCEPT ![k] = kthread[k]]
    /\ UNCHANGED <<pods, threads, steady, scan, turn, ns, node>>

\* No PID is cached, none was found, or the thread has gone again.
Unavailable(k) ==
    /\ turn = k
    /\ threadPID[k] = 0 \/ (look = "again" /\ kthread[k] # threadPID[k])
    /\ GoOn(k)
    /\ UNCHANGED <<pods, threads, steady, scan, threadPID, ns, node>>

PublishNode ==
    /\ turn = "publish"
    /\ turn' = "wait"
    /\ node' = ns
    /\ ns' = NoThread
    /\ steady' = {}
    /\ UNCHANGED <<pods, threads, scan, look, threadPID>>
-----------------------------------------------------------------------------
(* The environment.                                                        *)

Rivals(p) == {o \in Pods \ {p} : VmiOf[o] = VmiOf[p]}

\* The pods of a VMI follow each other, and so do their events in the pod store.
PodRuns(p) ==
    /\ store[p] = "absent"
    /\ \A o \in Rivals(p) :
          store[o] = "finished" \/ (store[o] = "absent" /\ qemu[o] = "none")
    /\ store' = [store EXCEPT ![p] = "running"]
    /\ UNCHANGED <<qemu, dirs, exits, threads, steady, scan, cpu>>

PodFinishes(p) ==
    /\ store[p] = "running"
    /\ qemu[p] \in {"none", "gone"}
    /\ store' = [store EXCEPT ![p] = "finished"]
    /\ UNCHANGED <<qemu, dirs, exits, threads, steady, scan, cpu>>

\* The QEMU of a pod may start before the pod store knows that the pod runs, but
\* not before it knows that the last pod of the VMI has finished.
QemuStarts(p) ==
    /\ qemu[p] = "none"
    /\ store[p] # "finished"
    /\ \A o \in Rivals(p) : qemu[o] \in {"none", "gone"} /\ store[o] # "running"
    /\ qemu' = [qemu EXCEPT ![p] = "runs"]
    /\ dirs' = dirs \cup ({p} \X Fds)
    /\ UNCHANGED <<store, exits, threads, steady, scan, cpu>>

GuestExits(p, f) ==
    /\ qemu[p] = "runs"
    /\ exits[p][f] < MaxExits
    /\ exits' = [exits EXCEPT ![p] = [@ EXCEPT ![f] = exits[p][f] + 1]]
    /\ UNCHANGED <<store, qemu, dirs, threads, steady, scan, cpu>>

\* A process that exits gives up its memory first and closes its files then.
QemuExits(p) ==
    /\ qemu[p] = "runs"
    /\ qemu' = [qemu EXCEPT ![p] = "exits"]
    /\ UNCHANGED <<store, dirs, exits, threads, steady, scan, cpu>>

CloseKvm(p, f) ==
    /\ qemu[p] = "exits"
    /\ <<p, f>> \in dirs
    /\ dirs' = dirs \ {<<p, f>>}
    /\ qemu' = [qemu EXCEPT ![p] =
          IF \E g \in Fds : <<p, g>> \in dirs' THEN "exits" ELSE "gone"]
    /\ UNCHANGED <<store, exits, threads, steady, scan, cpu>>

ThreadStops(k) ==
    /\ kthread[k] > 0
    /\ kthread' = [kthread EXCEPT ![k] = 0]
    /\ steady' = steady \ {k}
    /\ UNCHANGED <<pods, lastPID, scan, cpu>>

\* khugepaged is started anew when huge pages are turned on again.
ThreadStarts(k) ==
    /\ kthread[k] = 0
    /\ lastPID < MaxStarts
    /\ lastPID' = lastPID + 1
    /\ kthread' = [kthread EXCEPT ![k] = lastPID']
    /\ UNCHANGED <<pods, steady, scan, cpu>>

Kvm == \/ ReadDir \/ MapPods \/ PublishResults
       \/ \E p \in Pods : Lookup(p) \/ \E f \in Fds : scanDebugFS(p, f)

Cgroup == \/ StartNodeStats \/ PublishNode
          \/ \E k \in Threads : ReadCPU(k) \/ rediscover(k) \/ Unavailable(k)

VmsChange ==
    \E p \in Pods : \/ PodRuns(p) \/ PodFinishes(p) \/ QemuStarts(p) \/ QemuExits(p)
                    \/ \E f \in Fds : GuestExits(p, f) \/ CloseKvm(p, f)

ThreadsChange == \E k \in Threads : ThreadStops(k) \/ ThreadStarts(k)

Next == /\ \/ collector = "kvm" /\ (Kvm \/ VmsChange)
           \/ collector = "cgroup" /\ (Cgroup \/ ThreadsChange)
        /\ UNCHANGED collector

Spec == Init /\ [][Next]_vars
-----------------------------------------------------------------------------
(* Properties.                                                             *)

\* Every variable holds a value of its type: the maps and slices of both poll() and
\* the fields they end in.
TypeOK ==
    /\ collector \in {"kvm", "cgroup"}
    /\ store \in [Pods -> {"absent", "running", "finished"}]
    /\ qemu \in [Pods -> {"none", "runs", "exits", "gone"}]
    /\ dirs \subseteq Pods \X Fds
    /\ exits \in [Pods -> [Fds -> Nat]]
    /\ kthread \in [Threads -> Nat]
    /\ lastPID \in Nat
    /\ steady \subseteq Threads
    /\ kvm \in {"wait", "scan", "lookup"}
    /\ entries \subseteq Pods \X Fds
    /\ pidMap \in [Pods -> [Fds -> Nat]]
    /\ domainToPod \in [Vmis -> Pods \cup {NoPod}]
    /\ pids \subseteq Pods
    /\ found \subseteq [pid : Pods, pod : Pods, exits : [Fds -> Nat]]
    /\ results \subseteq [pid : Pods, pod : Pods, exits : [Fds -> Nat]]
    /\ turn \in Threads \cup {"wait", "publish"}
    /\ look \in {"first", "again"}
    /\ threadPID \in [Threads -> Nat]
    /\ ns \in [Threads -> Nat]
    /\ node \in [Threads -> Nat]

\* A published counter never falls while its QEMU lives, although the files of a KVM
\* that is being closed read as 0: the sums are formed before the command line is
\* read, and that is empty by then (kvm/collector.go 142-162, 207-264).
CountersHold ==
    [][\A r \in results, s \in results' :
          r.pid = s.pid => \A f \in Fds : r.exits[f] <= s.exits[f]]_vars

\* The counters of a QEMU carry the name of the pod it runs in, however a restart of
\* the VM falls into the poll (kvm/collector.go 151-185, vmi.go 54-74).
OwnPod == \A r \in found \cup results : r.pod = r.pid

\* A poll reports a kernel thread that runs all through it, although it was started
\* anew since the last poll, unless an earlier poll has found none at all
\* (cgroup/collector.go 430-458, 505-530).
ThreadFollowed ==
    [][turn = "publish" /\ turn' = "wait" =>
          \A k \in steady : threadPID[k] > 0 => node'[k] = kthread[k]]_vars
=============================================================================
