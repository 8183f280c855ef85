---------------------------- MODULE QgaCollector ----------------------------
(***************************************************************************)
(* The guest-agent collector of pkg/qga/collector.go.  Polls run one after *)
(* the other in Run(); a poll lists the compute containers, prunes and     *)
(* dials connections, then scrapes every VM in a goroutine of its own, at  *)
(* most Concurrency of them at work.  A VM whose scrapes keep failing is   *)
(* marked passive and probed only every PassiveCycle poll intervals.       *)
(*                                                                         *)
(* A vmState is a column of the functions client .. diskMap; its close()   *)
(* always goes with its removal from the map, so the field closed is       *)
(* "not in vms".  The QMP client is what ClientContract says: open, broken *)
(* by its peer, or closed (Close() ran, maybe by a missed deadline).       *)
(***************************************************************************)
EXTENDS Integers, FiniteSets

CONSTANTS Containers,    \* IDs of compute containers
          MaxRetries,    \* --qga-retries
          Concurrency,   \* --qga-concurrency
          PassiveCycle,  \* passiveCycleFactor, in poll intervals
          Volumes,       \* volumes that can sit at the drive of a VM
          Nil            \* nil, the zero time, the empty label

ASSUME ConfigAssumption ==
    /\ MaxRetries \in Int
    /\ Concurrency \in Nat \ {0}
    /\ PassiveCycle \in Nat \ {0}
    /\ Nil \notin Int
    /\ Nil \notin Volumes
    /\ Volumes # {}

VARIABLES
    live,           \* the context of Run() is not cancelled
    phase,          \* where Run() is
    pods,           \* the containers the pod store and the CRI show
    todo,           \* targets of this poll that remain to be dialed
    vms,            \* the keys of the map vms
    client,         \* the client of each vmState
    retryCount,
    passive,        \* the VMs marked passive
    prevSnapshot,   \* Nil, or the number of polls since it was taken
    diskMap,        \* Nil, or the volume mapped to the drive
    worker,         \* the goroutine that scrapes each VM
    probed,         \* probedPassive
    found,          \* results of the poll under way
    results,        \* results published
    lastPassiveAt,  \* Nil, or its age in poll intervals
    volume,         \* the volume that is at the drive in the guest
    fails           \* history: consecutive failed scrapes of each container

run    == <<live, phase>>
conns  == <<vms, client>>
states == <<retryCount, passive, prevSnapshot, diskMap>>
world  == <<pods, volume>>
vars   == <<run, todo, conns, states, worker, probed, found, results, lastPassiveAt,
            world, fails>>

\* The number of failures in a row that makes a VM passive: handleScrapeError
\* counts before it compares, so at least one.
Threshold == IF MaxRetries < 1 THEN 1 ELSE MaxRetries

\* Bounds: beyond Threshold a count makes no difference to the code, and an age
\* of SpanCap is already one no snapshot may have.
Count(n) == IF n < Threshold THEN n + 1 ELSE n
SpanCap == Threshold + 1
Older(s) == IF s = Nil \/ s = SpanCap THEN s ELSE s + 1

Idle(f) == \A v \in Containers : f[v] = "none"

Init ==
    /\ live = TRUE
    /\ phase = "wait"
    /\ pods \in SUBSET Containers
    /\ todo = {}
    /\ vms = {}
    /\ client = [v \in Containers |-> "none"]
    /\ retryCount = [v \in Containers |-> 0]
    /\ passive = {}
    /\ prevSnapshot = [v \in Containers |-> Nil]
    /\ diskMap = [v \in Containers |-> Nil]
    /\ worker = [v \in Containers |-> "none"]
    /\ probed = FALSE
    /\ found = {}
    /\ results = {}
    /\ lastPassiveAt = Nil
    /\ volume \in [Containers -> Volumes]
    /\ fails = [v \in Containers |-> 0]
-----------------------------------------------------------------------------
(* Connections.                                                            *)

\* Mutant: the entry is deleted and its client left open.
DropNoClose(gone) ==
    /\ vms' = vms \ gone
    /\ UNCHANGED client

\* Mutant: the client is closed and the entry left in the map.
DropNoDelete(gone) ==
    /\ UNCHANGED vms
    /\ client' = [v \in Containers |-> IF v \in gone THEN "closed" ELSE client[v]]

\* vs.close() and the removal from the map, of every VM in gone.
Drop(gone) ==
    /\ vms' = vms \ gone
    /\ client' = [v \in Containers |-> IF v \in gone THEN "closed" ELSE client[v]]

\* What becomes of the fields of the vmStates in gone: nobody sees them again.
Forget(gone, keep) ==
    /\ retryCount' = [v \in Containers |-> IF v \in gone THEN 0 ELSE retryCount[v]]
    /\ passive' = passive \ gone
    /\ prevSnapshot' = [v \in Containers |-> IF v \in gone THEN Nil ELSE keep[v]]
    /\ diskMap' = [v \in Containers |-> IF v \in gone THEN Nil ELSE diskMap[v]]

\* The start of a poll: list, ask the CRI for every pod, prune.  A container the
\* CRI does not answer for is no target; with a cancelled context none is.
StartPoll ==
    /\ phase = "wait"
    /\ \E targets \in SUBSET pods :
          /\ ~live => targets = {}
          /\ Drop(vms \ targets)
          /\ Forget(vms \ targets, [v \in Containers |-> Older(prevSnapshot[v])])
          /\ todo' = targets \ vms
    /\ phase' = "connect"
    /\ UNCHANGED <<live, worker, probed, found, results, lastPassiveAt, world, fails>>

\* The dial, which fails with the context, its own deadline or the socket.
connectVM(v) ==
    \/ /\ live
       /\ vms' = vms \cup {v}
       /\ client' = [client EXCEPT ![v] = "open"]
    \/ UNCHANGED conns

Connect(v) ==
    /\ phase = "connect"
    /\ v \in todo
    /\ todo' = todo \ {v}
    /\ connectVM(v)
    /\ UNCHANGED <<run, states, worker, probed, found, results, lastPassiveAt, world,
                   fails>>

\* Mutant: the loop does not look at client.Closed().
DispatchDead ==
    LET due  == lastPassiveAt = PassiveCycle
        busy == {v \in vms : v \in passive => due}
    IN /\ phase = "connect"
       /\ todo = {}
       /\ worker' = [v \in Containers |-> IF v \in busy THEN "queued" ELSE "none"]
       /\ probed' = (busy \cap passive # {})
       /\ phase' = "scrape"
       /\ UNCHANGED <<live, todo, conns, states, found, results, lastPassiveAt, world,
                      fails>>

\* The loop over the snapshot of vms: dead clients go, passive VMs are left
\* alone unless the slow cycle is due, every other VM gets a goroutine.
Dispatch ==
    LET dead == {v \in vms : client[v] = "closed"}
        due  == lastPassiveAt = PassiveCycle
        busy == {v \in vms \ dead : v \in passive => due}
    IN /\ phase = "connect"
       /\ todo = {}
       /\ Drop(dead)
       /\ Forget(dead, prevSnapshot)
       /\ worker' = [v \in Containers |-> IF v \in busy THEN "queued" ELSE "none"]
       /\ probed' = (busy \cap passive # {})
       /\ phase' = "scrape"
       /\ UNCHANGED <<live, todo, found, results, lastPassiveAt, world, fails>>
-----------------------------------------------------------------------------
(* One scrape.                                                             *)

Working(v) == worker[v] \notin {"none", "queued"}

Goto(v, from, to) == /\ worker[v] = from
                     /\ worker' = [worker EXCEPT ![v] = to]

\* Mutant: one slot of the semaphore is lost.
AcquireOneLess(v) ==
    /\ Goto(v, "queued", "exec")
    /\ Cardinality({w \in Containers : Working(w)}) < Concurrency - 1
    /\ UNCHANGED <<run, todo, conns, states, probed, found, results, lastPassiveAt,
                   world, fails>>

Acquire(v) ==
    /\ Goto(v, "queued", "exec")
    /\ Cardinality({w \in Containers : Working(w)}) < Concurrency
    /\ UNCHANGED <<run, todo, conns, states, probed, found, results, lastPassiveAt,
                   world, fails>>

CloseClient(v) == client' = [client EXCEPT ![v] = "closed"]

\* CollectDiskCounters, by its outcome: counters, a blacklisted command, an error
\* of the agent or of a broken transport, or an error isDeadClient knows.  A missed
\* deadline closes the client if it falls in an RPC and not if it falls in a sleep.
Exec(v) ==
    /\ \/ /\ live /\ client[v] = "open"
          /\ Goto(v, "exec", IF diskMap[v] = Nil THEN "map" ELSE "commit")
          /\ UNCHANGED client
       \/ /\ live /\ client[v] = "open"
          /\ Goto(v, "exec", "blacklisted")
          /\ UNCHANGED client
       \/ /\ live /\ client[v] # "closed"
          /\ Goto(v, "exec", "failed")
          /\ UNCHANGED client
       \/ /\ live => client[v] # "broken"
          /\ Goto(v, "exec", "dead")
          /\ CloseClient(v) \/ UNCHANGED client
    /\ UNCHANGED <<run, todo, vms, states, probed, found, results, lastPassiveAt,
                   world, fails>>

\* tryBuildDiskMap, which swallows its errors: the scrape goes on even if a
\* missed deadline has just closed the client.
BuildMap(v) ==
    /\ Goto(v, "map", "commit")
    /\ \/ /\ live /\ client[v] = "open"
          /\ diskMap' = [diskMap EXCEPT ![v] = volume[v]]
          /\ UNCHANGED client
       \/ UNCHANGED <<diskMap, client>>
       \/ /\ client[v] = "open"
          /\ CloseClient(v)
          /\ UNCHANGED diskMap
    /\ UNCHANGED <<run, todo, vms, retryCount, passive, prevSnapshot, probed, found,
                   results, lastPassiveAt, world, fails>>

\* Mutant: a good scrape leaves the count of failures as it is.
CommitKeepsCount(v) ==
    /\ Goto(v, "commit", "none")
    /\ prevSnapshot' = [prevSnapshot EXCEPT ![v] = 0]
    /\ passive' = passive \ {v}
    /\ fails' = [fails EXCEPT ![v] = 0]
    /\ UNCHANGED <<run, todo, conns, retryCount, diskMap, probed, found, results,
                   lastPassiveAt, world>>

\* The end of a good scrape.  There is a result if there is a snapshot to diff
\* with, and no result if no drive has two different times.
Commit(v) ==
    /\ Goto(v, "commit", "none")
    /\ \/ /\ prevSnapshot[v] # Nil
          /\ found' = found \cup {[vm |-> v, span |-> prevSnapshot[v], disk |-> diskMap[v]]}
       \/ UNCHANGED found
    /\ prevSnapshot' = [prevSnapshot EXCEPT ![v] = 0]
    /\ retryCount' = [retryCount EXCEPT ![v] = 0]
    /\ passive' = passive \ {v}
    /\ fails' = [fails EXCEPT ![v] = 0]
    /\ UNCHANGED <<run, todo, conns, diskMap, probed, results, lastPassiveAt, world>>
-----------------------------------------------------------------------------
(* handleScrapeError, under resultsMu.                                     *)

\* Mutant: the snapshot survives the passive time.
MarkPassiveKeepsSnapshot(v) ==
    /\ passive' = passive \cup {v}
    /\ diskMap' = [diskMap EXCEPT ![v] = Nil]
    /\ lastPassiveAt' = IF v \notin passive /\ lastPassiveAt = Nil THEN 0 ELSE lastPassiveAt
    /\ UNCHANGED prevSnapshot

\* Mutant: only a probe starts the slow cycle.
MarkPassiveNoStart(v) ==
    /\ passive' = passive \cup {v}
    /\ prevSnapshot' = [prevSnapshot EXCEPT ![v] = Nil]
    /\ diskMap' = [diskMap EXCEPT ![v] = Nil]
    /\ UNCHANGED lastPassiveAt

MarkPassive(v) ==
    /\ passive' = passive \cup {v}
    /\ prevSnapshot' = [prevSnapshot EXCEPT ![v] = Nil]
    /\ diskMap' = [diskMap EXCEPT ![v] = Nil]
    /\ lastPassiveAt' = IF v \notin passive /\ lastPassiveAt = Nil THEN 0 ELSE lastPassiveAt

\* A blacklisted command is as good as Threshold failures.
Blacklisted(v) ==
    /\ Goto(v, "blacklisted", "none")
    /\ MarkPassive(v)
    /\ fails' = [fails EXCEPT ![v] = Threshold]
    /\ UNCHANGED <<run, todo, conns, retryCount, probed, found, results, world>>

DropDead(v) ==
    /\ worker[v] = "dead" \/ (worker[v] = "failed" /\ client[v] = "closed")
    /\ Goto(v, worker[v], "none")
    /\ Drop({v})
    /\ Forget({v}, prevSnapshot)
    /\ fails' = [fails EXCEPT ![v] = Count(fails[v])]
    /\ UNCHANGED <<run, todo, probed, found, results, lastPassiveAt, world>>

Retry(v) ==
    /\ client[v] # "closed"
    /\ Goto(v, "failed", "none")
    /\ retryCount' = [retryCount EXCEPT ![v] = Count(retryCount[v])]
    /\ \/ /\ retryCount[v] + 1 < MaxRetries
          /\ UNCHANGED <<passive, prevSnapshot, diskMap, lastPassiveAt>>
       \/ /\ retryCount[v] + 1 >= MaxRetries
          /\ MarkPassive(v)
    /\ fails' = [fails EXCEPT ![v] = Count(fails[v])]
    /\ UNCHANGED <<run, todo, conns, probed, found, results, world>>
-----------------------------------------------------------------------------
\* Mutant: the results of the poll are added to those of the poll before.
PublishAppends ==
    /\ phase = "scrape"
    /\ Idle(worker)
    /\ phase' = "wait"
    /\ results' = results \cup found
    /\ found' = {}
    /\ lastPassiveAt' = IF probed THEN 0 ELSE lastPassiveAt
    /\ probed' = FALSE
    /\ UNCHANGED <<live, todo, conns, states, worker, world, fails>>

\* Mutant: poll() does not wait for its goroutines.
PublishNoWait ==
    /\ phase = "scrape"
    /\ phase' = "wait"
    /\ results' = found
    /\ found' = {}
    /\ lastPassiveAt' = IF probed THEN 0 ELSE lastPassiveAt
    /\ probed' = FALSE
    /\ UNCHANGED <<live, todo, conns, states, worker, world, fails>>

\* wg.Wait() is over: publish.
Publish ==
    /\ phase = "scrape"
    /\ Idle(worker)
    /\ phase' = "wait"
    /\ results' = found
    /\ found' = {}
    /\ lastPassiveAt' = IF probed THEN 0 ELSE lastPassiveAt
    /\ probed' = FALSE
    /\ UNCHANGED <<live, todo, conns, states, worker, world, fails>>

\* Mutant: Run() returns without closeAll.
CloseAllForgotten ==
    /\ phase = "wait"
    /\ ~live
    /\ phase' = "stopped"
    /\ UNCHANGED <<live, todo, conns, states, worker, probed, found, results,
                   lastPassiveAt, world, fails>>

\* Run() sees ctx.Done: closeAll.
CloseAll ==
    /\ phase = "wait"
    /\ ~live
    /\ Drop(vms)
    /\ Forget(vms, prevSnapshot)
    /\ phase' = "stopped"
    /\ UNCHANGED <<live, todo, worker, probed, found, results, lastPassiveAt, world,
                   fails>>
-----------------------------------------------------------------------------
(* The environment.                                                        *)

Cancel == /\ live
          /\ live' = FALSE
          /\ UNCHANGED <<phase, todo, conns, states, worker, probed, found, results,
                         lastPassiveAt, world, fails>>

\* A poll interval goes by.
Elapse ==
    /\ lastPassiveAt \notin {Nil, PassiveCycle}
    /\ lastPassiveAt' = lastPassiveAt + 1
    /\ UNCHANGED <<run, todo, conns, states, worker, probed, found, results, world,
                   fails>>

PodChanges(v) ==
    /\ pods' = IF v \in pods THEN pods \ {v} ELSE pods \cup {v}
    /\ UNCHANGED <<run, todo, conns, states, worker, probed, found, results,
                   lastPassiveAt, volume, fails>>

\* virtqemud goes away, or is restarted in its container.
Hangup(v) ==
    /\ client[v] = "open"
    /\ client' = [client EXCEPT ![v] = "broken"]
    /\ UNCHANGED <<run, todo, vms, states, worker, probed, found, results,
                   lastPassiveAt, world, fails>>

\* The volume at the drive is unplugged and another one takes its place.
Replug(v) ==
    /\ \E d \in Volumes \ {volume[v]} : volume' = [volume EXCEPT ![v] = d]
    /\ UNCHANGED <<run, todo, conns, states, worker, probed, found, results,
                   lastPassiveAt, pods, fails>>

Stopped == phase = "stopped" /\ UNCHANGED vars

Scrape(v) == \/ Acquire(v) \/ Exec(v) \/ BuildMap(v) \/ Commit(v)
             \/ Blacklisted(v) \/ DropDead(v) \/ Retry(v)

Environment == \/ Cancel \/ Elapse
               \/ \E v \in Containers : PodChanges(v) \/ Hangup(v) \/ Replug(v)

Next == \/ StartPoll \/ Dispatch \/ Publish \/ CloseAll
        \/ \E v \in Containers : Connect(v) \/ Scrape(v)
        \/ Environment
        \/ Stopped

Spec == Init /\ [][Next]_vars

(***************************************************************************)
(* The ticker ticks, goroutines that can run do run, an RPC ends because   *)
(* its context does (QmpClient), and time passes.  When both the ticker    *)
(* and ctx.Done are ready the select of Run() picks one at random, so      *)
(* closeAll is not put off for ever: strong fairness.                      *)
(***************************************************************************)
Fairness ==
    /\ WF_vars(StartPoll)
    /\ WF_vars(Dispatch)
    /\ WF_vars(Publish)
    /\ WF_vars(Elapse)
    /\ SF_vars(CloseAll)
    /\ \A v \in Containers : WF_vars(Connect(v)) /\ WF_vars(Scrape(v))

FairSpec == Spec /\ Fairness
-----------------------------------------------------------------------------
(* Properties.                                                             *)

Result == [vm : Containers, span : 0..SpanCap, disk : Volumes \cup {Nil}]

\* Every variable holds a value of its type: the fields of Collector and vmState
\* and the steps of Run() and of the goroutines of poll().
TypeOK ==
    /\ live \in BOOLEAN
    /\ phase \in {"wait", "connect", "scrape", "stopped"}
    /\ pods \subseteq Containers
    /\ todo \subseteq Containers
    /\ vms \subseteq Containers
    /\ client \in [Containers -> {"none", "open", "broken", "closed"}]
    /\ retryCount \in [Containers -> 0..Threshold]
    /\ passive \subseteq vms
    /\ prevSnapshot \in [Containers -> 0..SpanCap \cup {Nil}]
    /\ diskMap \in [Containers -> Volumes \cup {Nil}]
    /\ worker \in [Containers -> {"none", "queued", "exec", "map", "commit",
                                  "blacklisted", "failed", "dead"}]
    /\ probed \in BOOLEAN
    /\ found \in SUBSET Result
    /\ results \in SUBSET Result
    /\ lastPassiveAt \in 0..PassiveCycle \cup {Nil}
    /\ volume \in [Containers -> Volumes]
    /\ fails \in [Containers -> 0..Threshold]

\* No connection is lost: a client that no entry of vms owns has been closed,
\* whichever way the entry went (dropVM 215-224, prune 288-300, closeAll 129-136).
NoLeak == \A v \in Containers \ vms : client[v] \in {"none", "closed"}

\* A scrape never starts on a closed client, although tryBuildDiskMap can close
\* one and report nothing (346-354, 559-592).
ScrapesOpenClient ==
    \A v \in Containers : worker[v] \in {"queued", "exec"} =>
        v \in vms /\ client[v] # "closed"

\* While some VM is passive the slow cycle is running; if it were not, passiveDue
\* would stay false and the VM would never be probed (332-334, 408-425).
PassiveScheduled == passive # {} => lastPassiveAt # Nil

\* A VM is passive only after Threshold failures with no success in between, or a
\* blacklisted command: no blip is held against it later (430-457, 542-544).
PassiveJustified == \A v \in passive : fails[v] = Threshold

\* Counters are diffed over at most Threshold polls, and over no passive time: a
\* rate is never an average over hours (408-416, 505-544).
SpanBounded == \A r \in found \cup results : r.span \in 1..Threshold

\* A VM has one result in what Collect() reads: two would be the same series
\* twice, which fails the whole scrape of the exporter (392-394).
OneResult == \A r, s \in results : r.vm = s.vm => r = s

\* The VMs that have a goroutine of poll().
lent == {v \in Containers : worker[v] # "none"}

Pool == INSTANCE ConnectionPool WITH Keys <- Containers, held <- vms, conn <- client

\* The map vms is a pool: poll() lends connections to its goroutines and touches the
\* map again only when all are done; each goroutine closes or drops only its own, and
\* none is lent that a goroutine of an earlier poll has closed (215-224, 288-406).
ImplementsPool == Pool!Spec

\* Every poll ends, with at least one slot (336, 368-390).
PollEnds == phase \notin {"wait", "stopped"} ~> phase = "wait"

\* A passive VM is probed again, unless its connection goes or the exporter stops
\* (332-334, 356-366, 392-399).
PassiveProbed ==
    \A v \in Containers :
        v \in passive ~> (worker[v] = "exec" \/ v \notin vms \/ ~live)

\* After a cancellation Run() returns and every client is closed, even one that a
\* poll was dialing at the time (114-136).
ShutdownReleases ==
    ~live ~> /\ phase = "stopped"
             /\ \A v \in Containers : client[v] \in {"none", "closed"}

\* A closed client is dropped, so that a later poll can dial again (346-354).
DeadDropped ==
    \A v \in Containers : (v \in vms /\ client[v] = "closed") ~> v \notin vms

\* What handleScrapeError says of a transport that cannot be reused (436): it is
\* dropped and dialed again.  Of a transport the peer closed this is not so.
BrokenDropped ==
    \A v \in Containers : (v \in vms /\ client[v] = "broken") ~> client[v] # "broken"

\* What docs/configuration.md:73 says of --qga-retries: that many failures in a row
\* and the VM is passive.  Failures by deadline do not count.
FallsBack ==
    phase = "wait" => \A v \in vms : fails[v] = Threshold => v \in passive

\* What docs/metrics.md:59 says of a volume plugged in after the mapping: its label
\* is empty.  If it took the place of another it has the label of that one.
LabelSettles ==
    \A v \in Containers, d \in Volumes :
        <>[](volume[v] = d) =>
            []<>(\A r \in results : r.vm = v => r.disk \in {Nil, d})
=============================================================================
