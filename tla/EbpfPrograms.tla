---------------------------- MODULE EbpfPrograms ----------------------------
(***************************************************************************)
(* Loading and unloading of the eBPF programs, pkg/ebpf/loader.go, with    *)
(* the goroutines that startEBPF starts: LoadAndAttach, then RetryFailed,  *)
(* Close on cancellation, and Collect.  A load creates the objects of a    *)
(* subsystem and attaches its links one by one; what a failed load has     *)
(* attached is taken down again.                                           *)
(*                                                                         *)
(* programs.mu is held by RetryFailed through a round of retries and by    *)
(* Collect for reading; Close does not take it.  The lock is not a         *)
(* variable: it is held while stage = "round" or reading.                  *)
(***************************************************************************)
EXTENDS Naturals, Sequences, Functions

CONSTANTS Points,     \* the attach points of each subsystem, in order
          Optional,   \* kprobes a load can do without
          Requested   \* the subsystems the flags ask for

Subsystems == {"block", "nfs", "kprobe"}
Retried    == {"nfs", "kprobe"}

ASSUME ConfigAssumption ==
    /\ DOMAIN Points = Subsystems
    /\ \A s \in Subsystems : Points[s] \in Seq(Range(Points[s])) /\ IsInjective(Points[s])
    /\ \A s, t \in Subsystems : s # t => Range(Points[s]) \cap Range(Points[t]) = {}
    /\ Optional \subseteq Range(Points["kprobe"])
    /\ Requested \subseteq Subsystems

\* A function with a kprobe gets a kretprobe too.
Entry(p) == <<"entry", p>>
Ret(p)   == <<"return", p>>
Entries(s) == {Entry(p) : p \in Range(Points[s])}
Returns(s) == IF s = "kprobe" THEN {Ret(p) : p \in Range(Points[s])} ELSE {}
Links(s) == Entries(s) \cup Returns(s)
Program(s) == <<"program", s>>
Needed(s) == {Entry(p) : p \in Range(Points[s]) \ Optional}

AllLinks == UNION {Links(s) : s \in Subsystems}
AllPrograms == {Program(s) : s \in Subsystems}
NoLoad == [sub |-> "none", todo |-> <<>>, got |-> {}]

VARIABLES
    live,     \* the context is not cancelled
    stage,    \* LoadAndAttach, then RetryFailed: main, disabled, idle, round, off
    cursor,   \* the subsystem LoadAndAttach or a round of retries is at
    load,     \* the load under way: subsystem, links to attach, links attached
    kernel,   \* the links and the programs the kernel would accept
    open,     \* the links that are attached
    objs,     \* the subsystems whose programs and maps are in the kernel
    links,    \* the field links
    known,    \* the subsystems whose fields Objs and Hists are set
    active,   \* the fields BlockActive, NFSActive and NFSKprobeActive
    retry,    \* the fields retryNFS and retryNFSKprobe
    closer,   \* the goroutine that calls Close on cancellation
    late,     \* history: the subsystems loaded once Close had begun
    reading,  \* Collect is under way
    gauge,    \* what it told of the subsystems
    read      \* the histogram maps it read

loading == <<stage, cursor, load>>
fields  == <<links, known, active, retry>>
collect == <<reading, gauge, read>>
vars == <<live, loading, kernel, open, objs, fields, closer, late, collect>>

Init ==
    /\ live = TRUE
    /\ stage = "main"
    /\ cursor = "block"
    /\ load = NoLoad
    /\ kernel \in SUBSET (AllLinks \cup AllPrograms)
    /\ open = {} /\ objs = {}
    /\ links = {} /\ known = {} /\ active = {} /\ retry = {}
    /\ closer = "wait"
    /\ late = {}
    /\ reading = FALSE /\ gauge = {} /\ read = {}
-----------------------------------------------------------------------------
(* One load.  LoadAndAttach loads what is requested, a round of retries    *)
(* what is to be retried.                                                  *)

Following(s) == CASE s = "block" -> "nfs" [] s = "nfs" -> "kprobe" [] s = "kprobe" -> "end"

Wanted == IF stage = "main" THEN Requested ELSE retry

Skip ==
    /\ stage \in {"main", "round"} /\ load = NoLoad
    /\ cursor \in Subsystems \ Wanted
    /\ cursor' = Following(cursor)
    /\ UNCHANGED <<live, stage, load, kernel, open, objs, fields, closer, late, collect>>

\* The load failed: LoadAndAttach notes what to try again.
Failed ==
    /\ retry' = IF stage = "main" THEN retry \cup ({cursor} \cap Retried) ELSE retry
    /\ cursor' = Following(cursor)
    /\ load' = NoLoad

\* LoadAndAssign.  loadBlock sets its fields at once, the others only at the end.
Create ==
    /\ stage \in {"main", "round"} /\ load = NoLoad
    /\ cursor \in Wanted
    /\ \/ /\ Program(cursor) \in kernel
          /\ objs' = objs \cup {cursor}
          /\ load' = [sub |-> cursor, todo |-> [i \in DOMAIN Points[cursor] |-> Entry(Points[cursor][i])],
                      got |-> {}]
          /\ known' = known \cup ({cursor} \cap {"block"})
          /\ UNCHANGED <<cursor, retry>>
       \/ /\ Program(cursor) \notin kernel
          /\ Failed
          /\ UNCHANGED <<objs, known>>
    /\ UNCHANGED <<live, stage, kernel, open, links, active, closer, late, collect>>

Upcoming == load.sub # "none" /\ load.todo # <<>>

Spare(l) == l \in {Entry(p) : p \in Optional}

\* A link is attached.  That of a kprobe is followed, when all kprobes are, by the
\* kretprobe of the function.
Attach ==
    LET l == Head(load.todo)
    IN /\ Upcoming
       /\ l \in kernel
       /\ open' = open \cup {l}
       /\ load' = [load EXCEPT
                      !.todo = Tail(@) \o (IF load.sub = "kprobe" /\ l[1] = "entry"
                                           THEN <<Ret(l[2])>> ELSE <<>>),
                      !.got = @ \cup {l}]
       /\ links' = IF load.sub = "block" THEN links \cup {l} ELSE links
       /\ UNCHANGED <<live, stage, cursor, kernel, objs, known, active, retry, closer, late,
                      collect>>

\* Mutant: the kretprobe of a function is attached whether or not its kprobe was.
PassOverRet ==
    LET l == Head(load.todo)
    IN /\ Upcoming
       /\ l \notin kernel
       /\ Spare(l)
       /\ load' = [load EXCEPT !.todo = Append(Tail(@), Ret(l[2]))]
       /\ UNCHANGED <<live, stage, cursor, kernel, open, objs, fields, closer, late, collect>>

\* An optional kprobe that the kernel does not have.
PassOver ==
    LET l == Head(load.todo)
    IN /\ Upcoming
       /\ l \notin kernel
       /\ Spare(l)
       /\ load' = [load EXCEPT !.todo = Tail(@)]
       /\ UNCHANGED <<live, stage, cursor, kernel, open, objs, fields, closer, late, collect>>

\* Mutant: the objects are closed, the links attached so far are not.
GiveUpKeepsLinks ==
    /\ Upcoming
    /\ Head(load.todo) \notin kernel
    /\ ~Spare(Head(load.todo))
    /\ objs' = objs \ {load.sub}
    /\ Failed
    /\ UNCHANGED <<live, stage, kernel, open, links, known, active, closer, late, collect>>

\* A link that is needed cannot be attached: close those of this load and its
\* objects.  For block the second failure is a call of Close, when nothing else is
\* loaded yet; links, BlockHists and blockObjs stay as they are.
GiveUp ==
    /\ Upcoming
    /\ Head(load.todo) \notin kernel
    /\ ~Spare(Head(load.todo))
    /\ open' = open \ load.got
    /\ objs' = objs \ {load.sub}
    /\ Failed
    /\ UNCHANGED <<live, stage, kernel, links, known, active, closer, late, collect>>

\* All is attached: the fields are set.
Finish ==
    /\ load.sub # "none" /\ load.todo = <<>>
    /\ known' = known \cup {load.sub}
    /\ links' = links \cup load.got
    /\ active' = active \cup {load.sub}
    /\ retry' = retry \ {load.sub}
    /\ late' = IF closer = "wait" THEN late ELSE late \cup {load.sub}
    /\ cursor' = Following(cursor)
    /\ load' = NoLoad
    /\ UNCHANGED <<live, stage, kernel, open, objs, closer, collect>>
-----------------------------------------------------------------------------
(* LoadAndAttach returns; RetryFailed.                                     *)

Return ==
    /\ stage = "main" /\ cursor = "end"
    /\ stage' = CASE retry # {} -> "idle"
                  [] Requested # {} /\ active = {} /\ retry = {} -> "disabled"
                  [] OTHER -> "off"
    /\ UNCHANGED <<live, cursor, load, kernel, open, objs, fields, closer, late, collect>>

\* Mutant: RetryFailed does not wait for Collect.
TickNoLock ==
    /\ stage = "idle"
    /\ stage' = "round" /\ cursor' = "nfs"
    /\ UNCHANGED <<live, load, kernel, open, objs, fields, closer, late, collect>>

\* The ticker, which select may take even after a cancellation.
Tick ==
    /\ stage = "idle" /\ ~reading
    /\ stage' = "round" /\ cursor' = "nfs"
    /\ UNCHANGED <<live, load, kernel, open, objs, fields, closer, late, collect>>

\* Mutant: the retries stop when one of the two subsystems is loaded.
EndRoundEither ==
    /\ stage = "round" /\ cursor = "end"
    /\ stage' = IF retry # Retried THEN "off" ELSE "idle"
    /\ UNCHANGED <<live, cursor, load, kernel, open, objs, fields, closer, late, collect>>

EndRound ==
    /\ stage = "round" /\ cursor = "end"
    /\ stage' = IF retry = {} THEN "off" ELSE "idle"
    /\ UNCHANGED <<live, cursor, load, kernel, open, objs, fields, closer, late, collect>>

StopRetry ==
    /\ stage = "idle" /\ ~live
    /\ stage' = "off"
    /\ UNCHANGED <<live, cursor, load, kernel, open, objs, fields, closer, late, collect>>
-----------------------------------------------------------------------------
(* Close, without the lock.                                                *)

\* The range over links.  A read of the slice while Finish writes it is a data race:
\* a torn slice header ends the process, and the kernel frees all it had.
CloseLinks ==
    /\ closer = "wait" /\ ~live
    /\ stage \in {"idle", "round", "off"}
    /\ \/ /\ open' = open \ links
          /\ closer' = "block"
          /\ UNCHANGED objs
       \/ /\ load.sub # "none" /\ load.todo = <<>>
          /\ open' = {} /\ objs' = {}
          /\ closer' = "panic"
    /\ UNCHANGED <<live, loading, kernel, fields, late, collect>>

\* Mutant: the objects of the kprobes are forgotten.
CloseObjsNotKprobe ==
    /\ closer \in Subsystems
    /\ objs' = IF closer \in known \ {"kprobe"} THEN objs \ {closer} ELSE objs
    /\ closer' = Following(closer)
    /\ UNCHANGED <<live, loading, kernel, open, fields, late, collect>>

CloseObjs ==
    /\ closer \in Subsystems
    /\ objs' = IF closer \in known THEN objs \ {closer} ELSE objs
    /\ closer' = Following(closer)
    /\ UNCHANGED <<live, loading, kernel, open, fields, late, collect>>
-----------------------------------------------------------------------------
(* Collect, with the lock held for reading.                                *)

CollectGauge ==
    /\ stage \in {"idle", "off"} /\ ~reading
    /\ reading' = TRUE
    /\ gauge' = active
    /\ UNCHANGED <<live, loading, kernel, open, objs, fields, closer, late, read>>

CollectMaps ==
    /\ reading
    /\ reading' = FALSE
    /\ read' = known
    /\ UNCHANGED <<live, loading, kernel, open, objs, fields, closer, late, gauge>>
-----------------------------------------------------------------------------
(* The environment.                                                        *)

Cancel == /\ live
          /\ live' = FALSE
          /\ UNCHANGED <<loading, kernel, open, objs, fields, closer, late, collect>>

\* A kernel module with all that a subsystem traces comes, or goes if nothing of it
\* is in use.
ModuleLoads(s) ==
    /\ kernel' = kernel \cup Links(s) \cup {Program(s)}
    /\ UNCHANGED <<live, loading, open, objs, fields, closer, late, collect>>

ModuleUnloads(s) ==
    /\ open \cap Links(s) = {}
    /\ kernel' = kernel \ (Links(s) \cup {Program(s)})
    /\ UNCHANGED <<live, loading, open, objs, fields, closer, late, collect>>

Ended == /\ closer \in {"end", "panic"} \/ stage = "disabled"
         /\ UNCHANGED vars

Loader == \/ Skip \/ Create \/ Attach \/ PassOver \/ GiveUp \/ Finish
          \/ Return \/ EndRound \/ StopRetry

Next ==
    \/ /\ closer # "panic"
       /\ \/ Loader \/ Tick \/ CloseLinks \/ CloseObjs \/ CollectGauge \/ CollectMaps
          \/ Cancel
          \/ \E s \in Retried : ModuleLoads(s) \/ ModuleUnloads(s)
    \/ Ended

Spec == Init /\ [][Next]_vars

(***************************************************************************)
(* Goroutines run, the ticker ticks.  A writer that waits for an RWMutex   *)
(* keeps new readers out, so Collect cannot starve a round of retries:     *)
(* strong fairness for Tick.                                               *)
(***************************************************************************)
Fairness == /\ WF_vars(Loader) /\ SF_vars(Tick) /\ WF_vars(CollectMaps)
            /\ WF_vars(CloseLinks) /\ WF_vars(CloseObjs)

FairSpec == Spec /\ Fairness
-----------------------------------------------------------------------------
(* Properties.                                                             *)

\* Every variable holds a value of its type: the fields of Programs, the load under
\* way and the steps of the goroutines of startEBPF.
TypeOK ==
    /\ live \in BOOLEAN
    /\ stage \in {"main", "disabled", "idle", "round", "off"}
    /\ cursor \in Subsystems \cup {"end"}
    /\ load \in [sub : Subsystems \cup {"none"}, todo : Seq(AllLinks), got : SUBSET AllLinks]
    /\ kernel \subseteq AllLinks \cup AllPrograms
    /\ open \subseteq AllLinks /\ links \subseteq AllLinks
    /\ objs \subseteq Subsystems /\ known \subseteq Subsystems
    /\ active \subseteq Subsystems
    /\ retry \subseteq Retried \ active
    /\ closer \in Subsystems \cup {"wait", "end", "panic"}
    /\ late \subseteq Subsystems
    /\ reading \in BOOLEAN
    /\ gauge \subseteq Subsystems /\ read \subseteq Subsystems

\* A load that fails half-way leaves nothing in the kernel, however far it got: no
\* link attached, no program or map (133-145, 183-189, 233-243, 251-257).
FailedLoadUndone ==
    load = NoLoad /\ closer = "wait" =>
        \A s \in Subsystems \ active : s \notin objs /\ open \cap Links(s) = {}

\* A subsystem that is reported active is traced in full: its maps are there, all it
\* needs is attached, and a function has a kretprobe exactly if it has a kprobe, or
\* its start times would never be read (44-67, 92-105, 231-260).
ActiveTraced ==
    closer = "wait" => \A s \in active :
        /\ s \in objs
        /\ Needed(s) \subseteq open
        /\ s = "kprobe" => \A p \in Range(Points[s]) : Entry(p) \in open <=> Ret(p) \in open

\* In one Collect a retried subsystem is said to be active if and only if its
\* histograms are read, even if a round of retries loads it at that moment (85-99
\* of collector.go, 91-106).
GaugeMatches == ~reading => gauge \cap Retried = read \cap Retried

\* Close leaves only what was loaded after it began, by a round of retries that a
\* cancellation does not stop (268-281, 86-91).
ClosedReleases ==
    closer = "end" /\ load = NoLoad =>
        \A s \in Subsystems \ late : s \notin objs /\ open \cap Links(s) = {}

\* A requested NFS subsystem that the kernel comes to support for good is active
\* sooner or later, whichever optional functions are missing (78-114).
RetryLoads ==
    \A s \in Requested \cap Retried :
        <>[]({Program(s)} \cup Needed(s) \cup Returns(s) \subseteq kernel)
            => <>(s \in active \/ ~live)
=============================================================================
