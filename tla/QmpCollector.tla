---------------------------- MODULE QmpCollector ----------------------------
(***************************************************************************)
(* The QMP collector of pkg/qmp/collector.go.  Polls run one after the     *)
(* other; each finds the compute container of every pod, prunes and dials  *)
(* connections, and scrapes every connection in a goroutine of its own.  A *)
(* scrape turns on the latency histograms of disks that have none.  Any    *)
(* error of a scrape costs the connection.                                 *)
(*                                                                         *)
(* A vmConnection is a column of client, peer and armed; its close() goes  *)
(* with its removal from the map.  Virtqueue data, disk and PVC names are  *)
(* abstracted; the calls that fetch them are not.                          *)
(***************************************************************************)
EXTENDS Naturals, FiniteSets

CONSTANTS Containers,   \* IDs of compute containers
          Pods,
          PodOf,        \* the pod of each container
          Disks,        \* names of disks
          DisksOf,      \* the disks of each pod's VM
          Concurrency,  \* --qmp-concurrency
          None

ASSUME ConfigAssumption ==
    /\ PodOf \in [Containers -> Pods]
    /\ DisksOf \in [Pods -> SUBSET Disks]
    /\ Concurrency \in Nat \ {0}
    /\ None \notin Containers

VARIABLES
    live,         \* the context of Run() is not cancelled
    phase,        \* where Run() is
    running,      \* the compute container of each pod, as the CRI knows it
    exited,       \* containers that have run and do so no more
    todo,         \* targets of this poll that remain to be dialed
    connections,  \* the keys of the map connections
    client,       \* the client of each vmConnection
    peer,         \* the container its socket belongs to
    armed,        \* the disks it takes to have histograms
    hist,         \* QEMU: the histogram of each disk, off, empty or with data
    worker,       \* the goroutine that scrapes each connection
    resp,         \* the disks its blockstats response shows with a histogram
    toArm,        \* disks of that response that remain to be looked at
    found,        \* results of the poll under way
    results       \* results published

run    == <<live, phase>>
conns  == <<connections, client, peer>>
world  == <<running, exited>>
scrape == <<worker, resp, toArm>>
output == <<found, results>>
vars   == <<run, todo, conns, armed, hist, scrape, output, world>>

Init ==
    /\ live = TRUE
    /\ phase = "wait"
    /\ running \in [Pods -> Containers \cup {None}]
    /\ \A p \in Pods : running[p] # None => PodOf[running[p]] = p
    /\ exited = {}
    /\ todo = {}
    /\ connections = {}
    /\ client = [c \in Containers |-> "none"]
    /\ peer = [c \in Containers |-> None]
    /\ armed = [c \in Containers |-> {}]
    /\ hist = [c \in Containers |-> [d \in Disks |-> "off"]]
    /\ worker = [c \in Containers |-> "none"]
    /\ resp = [c \in Containers |-> {}]
    /\ toArm = [c \in Containers |-> {}]
    /\ found = {}
    /\ results = {}
-----------------------------------------------------------------------------
(* Connections.                                                            *)

\* conn.close() and the removal from the map, of every connection in gone.
Drop(gone) ==
    /\ connections' = connections \ gone
    /\ client' = [c \in Containers |-> IF c \in gone THEN "closed" ELSE client[c]]
    /\ peer' = [c \in Containers |-> IF c \in gone THEN None ELSE peer[c]]
    /\ armed' = [c \in Containers |-> IF c \in gone THEN {} ELSE armed[c]]

\* Mutant: departed VMs are not pruned.
StartPollNoPrune ==
    /\ phase = "wait"
    /\ \E targets \in SUBSET {running[p] : p \in Pods} :
          /\ targets \subseteq Containers
          /\ ~live => targets = {}
          /\ todo' = targets \ connections
    /\ phase' = "connect"
    /\ UNCHANGED <<live, conns, armed, hist, scrape, output, world>>

\* The start of a poll: list, ask the CRI for every pod, prune.  A pod the CRI does
\* not answer for has no target; with a cancelled context no pod has one.
StartPoll ==
    /\ phase = "wait"
    /\ \E targets \in SUBSET {running[p] : p \in Pods} :
          /\ targets \subseteq Containers
          /\ ~live => targets = {}
          /\ Drop(connections \ targets)
          /\ todo' = targets \ connections
    /\ phase' = "connect"
    /\ UNCHANGED <<live, hist, scrape, output, world>>

\* The dial of the socket in container k.
connectVM(c, k) ==
    /\ live
    /\ connections' = connections \cup {c}
    /\ client' = [client EXCEPT ![c] = "open"]
    /\ peer' = [peer EXCEPT ![c] = k]

\* A second question to the CRI, whose answer may be another container by now; the
\* connection is kept under the ID of the first answer.
Connect(c) ==
    /\ phase = "connect"
    /\ c \in todo
    /\ todo' = todo \ {c}
    /\ \/ /\ running[PodOf[c]] # None
          /\ connectVM(c, running[PodOf[c]])
       \/ UNCHANGED conns
    /\ UNCHANGED <<run, armed, hist, scrape, output, world>>

\* A goroutine for every connection.
Dispatch ==
    /\ phase = "connect"
    /\ todo = {}
    /\ worker' = [c \in Containers |-> IF c \in connections THEN "queued" ELSE "none"]
    /\ phase' = "scrape"
    /\ UNCHANGED <<live, todo, conns, armed, hist, resp, toArm, output, world>>
-----------------------------------------------------------------------------
(* One scrape.                                                             *)

Goto(c, from, to) == /\ worker[c] = from
                     /\ worker' = [worker EXCEPT ![c] = to]

Acquire(c) ==
    /\ Goto(c, "queued", "query")
    /\ Cardinality({k \in Containers : worker[k] \notin {"none", "queued"}}) < Concurrency
    /\ UNCHANGED <<run, todo, conns, armed, hist, resp, toArm, output, world>>

CloseClient(c) == client' = [client EXCEPT ![c] = "closed"]

\* QueryBlockStats.  It fails on an error of QEMU, a broken transport, or a context
\* that is over; the last closes the client if it comes during the RPC.
Query(c) ==
    /\ \/ /\ live /\ client[c] = "open"
          /\ Goto(c, "query", "arm")
          /\ resp' = [resp EXCEPT ![c] = {d \in DisksOf[PodOf[c]] : hist[peer[c]][d] # "off"}]
          /\ toArm' = [toArm EXCEPT ![c] = DisksOf[PodOf[c]] \ armed[c]]
          /\ UNCHANGED client
       \/ /\ Goto(c, "query", "error")
          /\ UNCHANGED <<client, resp, toArm>>
       \/ /\ client[c] = "open"
          /\ Goto(c, "query", "error")
          /\ CloseClient(c)
          /\ UNCHANGED <<resp, toArm>>
    /\ UNCHANGED <<run, todo, connections, peer, armed, hist, output, world>>

\* EnableHistogram starts an empty histogram.  It may do so and fail all the same:
\* the reply can be lost.  The scrape is over only if the failure closed the client.
EnableHistogram(c, d) ==
    \/ /\ live /\ client[c] = "open"
       /\ hist' = [hist EXCEPT ![peer[c]][d] = "empty"]
       /\ armed' = [armed EXCEPT ![c] = @ \cup {d}]
       /\ UNCHANGED <<worker, client>>
    \/ /\ \/ UNCHANGED hist
          \/ client[c] = "open" /\ hist' = [hist EXCEPT ![peer[c]][d] = "empty"]
       /\ \/ UNCHANGED <<worker, client>>
          \/ client[c] = "open" /\ CloseClient(c) /\ Goto(c, "arm", "error")
       /\ UNCHANGED armed

\* Mutant: HasHistograms is not asked.
ArmDiskAlways(c, d) ==
    /\ worker[c] = "arm"
    /\ d \in toArm[c]
    /\ toArm' = [toArm EXCEPT ![c] = @ \ {d}]
    /\ EnableHistogram(c, d)
    /\ UNCHANGED <<run, todo, connections, peer, resp, output, world>>

\* One turn of the loop that arms disks.  A disk that could not be armed is tried
\* again by the next poll.
ArmDisk(c, d) ==
    /\ worker[c] = "arm"
    /\ d \in toArm[c]
    /\ toArm' = [toArm EXCEPT ![c] = @ \ {d}]
    /\ \/ /\ d \in resp[c]
          /\ armed' = [armed EXCEPT ![c] = @ \cup {d}]
          /\ UNCHANGED <<hist, worker, client>>
       \/ /\ d \notin resp[c]
          /\ EnableHistogram(c, d)
    /\ UNCHANGED <<run, todo, connections, peer, resp, output, world>>

\* Mutant: the scrape goes on with a client it has closed.
VirtioIgnoresClosed(c) ==
    /\ toArm[c] = {}
    /\ Goto(c, "arm", "done")
    /\ \/ UNCHANGED client
       \/ /\ client[c] = "open"
          /\ CloseClient(c)
    /\ UNCHANGED <<run, todo, connections, peer, armed, hist, resp, toArm, output, world>>

\* The rest of the scrape: x-query-virtio and the status of devices and queues.  An
\* error leaves data out, or ends the scrape if it closed the client.
Virtio(c) ==
    /\ toArm[c] = {}
    /\ \/ /\ Goto(c, "arm", "done")
          /\ UNCHANGED client
       \/ /\ client[c] = "open"
          /\ Goto(c, "arm", "error")
          /\ CloseClient(c)
    /\ UNCHANGED <<run, todo, connections, peer, armed, hist, resp, toArm, output, world>>

Forget(c) == /\ resp' = [resp EXCEPT ![c] = {}]
             /\ toArm' = [toArm EXCEPT ![c] = {}]

Append(c) ==
    /\ Goto(c, "done", "none")
    /\ found' = found \cup {[pod |-> PodOf[c], from |-> c, disks |-> resp[c]]}
    /\ Forget(c)
    /\ UNCHANGED <<run, todo, conns, armed, hist, results, world>>

\* Mutant: a failed scrape keeps its connection.
FailKeeps(c) ==
    /\ Goto(c, "error", "none")
    /\ Forget(c)
    /\ UNCHANGED <<run, todo, conns, armed, hist, output, world>>

Fail(c) ==
    /\ Goto(c, "error", "none")
    /\ Drop({c})
    /\ Forget(c)
    /\ UNCHANGED <<run, todo, hist, output, world>>
-----------------------------------------------------------------------------
\* wg.Wait() is over: publish.
Publish ==
    /\ phase = "scrape"
    /\ \A c \in Containers : worker[c] = "none"
    /\ phase' = "wait"
    /\ results' = found
    /\ found' = {}
    /\ UNCHANGED <<live, todo, conns, armed, hist, scrape, world>>

\* Mutant: Run() returns without closeAll.
CloseAllForgotten ==
    /\ phase = "wait"
    /\ ~live
    /\ phase' = "stopped"
    /\ UNCHANGED <<live, todo, conns, armed, hist, scrape, output, world>>

\* Run() sees ctx.Done: closeAll.
CloseAll ==
    /\ phase = "wait"
    /\ ~live
    /\ Drop(connections)
    /\ phase' = "stopped"
    /\ UNCHANGED <<live, todo, hist, scrape, output, world>>
-----------------------------------------------------------------------------
(* The environment.                                                        *)

Cancel == /\ live
          /\ live' = FALSE
          /\ UNCHANGED <<phase, todo, conns, armed, hist, scrape, output, world>>

\* The container of a pod goes, with its QEMU and virtqemud, and maybe another one
\* comes; no ID comes back.
PodChanges(p) ==
    LET old == running[p]
    IN /\ \E c \in {None} \cup ({k \in Containers : PodOf[k] = p} \ exited) :
             /\ c # old
             /\ running' = [running EXCEPT ![p] = c]
       /\ exited' = exited \cup ({old} \ {None})
       /\ client' = [c \in Containers |->
             IF client[c] = "open" /\ peer[c] = old THEN "broken" ELSE client[c]]
       /\ hist' = [c \in Containers |->
             IF c = old THEN [d \in Disks |-> "off"] ELSE hist[c]]
       /\ UNCHANGED <<run, todo, connections, peer, armed, scrape, output>>

\* virtqemud is restarted in its container.
Hangup(c) ==
    /\ client[c] = "open"
    /\ client' = [client EXCEPT ![c] = "broken"]
    /\ UNCHANGED <<run, todo, connections, peer, armed, hist, scrape, output, world>>

\* The guest does I/O.
Io(c, d) ==
    /\ hist[c][d] = "empty"
    /\ hist' = [hist EXCEPT ![c][d] = "data"]
    /\ UNCHANGED <<run, todo, conns, armed, scrape, output, world>>

\* A disk is unplugged and plugged in again under its name.
Replug(c, d) ==
    /\ hist[c][d] # "off"
    /\ hist' = [hist EXCEPT ![c][d] = "off"]
    /\ UNCHANGED <<run, todo, conns, armed, scrape, output, world>>

Stopped == phase = "stopped" /\ UNCHANGED vars

Scrape(c) == \/ Acquire(c) \/ Query(c) \/ Virtio(c) \/ Append(c) \/ Fail(c)
             \/ \E d \in Disks : ArmDisk(c, d)

Environment ==
    \/ Cancel
    \/ \E p \in Pods : PodChanges(p)
    \/ \E c \in Containers : \/ Hangup(c)
                             \/ \E d \in Disks : Io(c, d) \/ Replug(c, d)

Next == \/ StartPoll \/ Dispatch \/ Publish \/ CloseAll
        \/ \E c \in Containers : Connect(c) \/ Scrape(c)
        \/ Environment
        \/ Stopped

Spec == Init /\ [][Next]_vars

(***************************************************************************)
(* The ticker ticks, goroutines that can run do run, an RPC ends because   *)
(* its context does (QmpClient).  The select of Run() picks at random when *)
(* both the ticker and ctx.Done are ready: strong fairness for closeAll.   *)
(***************************************************************************)
Fairness ==
    /\ WF_vars(StartPoll)
    /\ WF_vars(Dispatch)
    /\ WF_vars(Publish)
    /\ SF_vars(CloseAll)
    /\ \A c \in Containers : WF_vars(Connect(c)) /\ WF_vars(Scrape(c))

FairSpec == Spec /\ Fairness
-----------------------------------------------------------------------------
(* Properties.                                                             *)

Result == [pod : Pods, from : Containers, disks : SUBSET Disks]

\* Every variable holds a value of its type: the fields of Collector and of
\* vmConnection and the steps of Run() and of the goroutines of poll().
TypeOK ==
    /\ live \in BOOLEAN
    /\ phase \in {"wait", "connect", "scrape", "stopped"}
    /\ running \in [Pods -> Containers \cup {None}]
    /\ exited \subseteq Containers
    /\ todo \subseteq Containers
    /\ connections \subseteq Containers
    /\ client \in [Containers -> {"none", "open", "broken", "closed"}]
    /\ peer \in [Containers -> Containers \cup {None}]
    /\ armed \in [Containers -> SUBSET Disks]
    /\ hist \in [Containers -> [Disks -> {"off", "empty", "data"}]]
    /\ worker \in [Containers -> {"none", "queued", "query", "arm", "done", "error"}]
    /\ resp \in [Containers -> SUBSET Disks]
    /\ toArm \in [Containers -> SUBSET Disks]
    /\ found \subseteq Result
    /\ results \subseteq Result

\* No connection is lost: a client that no entry of connections owns has been
\* closed, and the client of an entry between two polls has not (112-119, 167-174,
\* 337-345, 403-411; errors that close the client, 528-535 and 569-673).
ClientsOwned ==
    /\ \A c \in Containers \ connections : client[c] \in {"none", "closed"}
    /\ phase = "wait" => \A c \in connections : client[c] # "closed"

\* A pod has one result in what Collect() reads, even when its container is replaced
\* between the two questions to the CRI or while the poll runs: two would be the
\* same series twice, which fails the whole scrape of the exporter (312-375).
OneResultPerPod == \A batch \in {found, results} :
    \A r, s \in batch : r.pod = s.pod => r = s

\* Turning histograms on never throws away observations: a disk that has a histogram
\* is left alone, also after a reconnection, which forgets armed (516-539).
HistogramKept ==
    [][\A c \in Containers, d \in Disks :
          hist[c][d] = "data" => hist'[c][d] # "empty"]_vars

\* The VMs that have a goroutine of poll().
lent == {c \in Containers : worker[c] # "none"}

Pool == INSTANCE ConnectionPool WITH Keys <- Containers, held <- connections, conn <- client

\* The map connections is a pool: poll() lends connections to its goroutines and
\* touches the map again only when all are done; each goroutine closes or drops only
\* its own, and none is lent that is closed (337-425).
ImplementsPool == Pool!Spec

\* A transport the peer closed is dropped by the next scrape (403-411).
BrokenDropped ==
    \A c \in Containers :
        (c \in connections /\ client[c] = "broken") ~> client[c] # "broken"

\* A connection to a container that is gone, or that was kept under the ID of one
\* that is gone, does not stay (337-345, 351-375).
DepartedPruned ==
    \A c \in Containers : (c \in connections /\ c \in exited) ~> c \notin connections

\* After a cancellation Run() returns and every client is closed (152-174).
ShutdownReleases ==
    ~live ~> /\ phase = "stopped"
             /\ \A c \in Containers : client[c] \in {"none", "closed"}
=============================================================================
