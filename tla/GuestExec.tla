----------------------------- MODULE GuestExec -----------------------------
(***************************************************************************)
(* The guest-agent calls of one scrape, pkg/qga/client.go and the part of  *)
(* scrapeVM that makes them, against the deadline scrapeBudget computes    *)
(* for them: guest-exec, then guest-exec-status between sleeps until the   *)
(* process has exited, then the calls of tryBuildDiskMap if needed.        *)
(*                                                                         *)
(* Time is counted in seconds.  libvirt answers an agent command within    *)
(* the timeout it is given, with the answer of the agent or an error; it   *)
(* hangs if virtqemud does.                                                *)
(***************************************************************************)
EXTENDS Naturals

CONSTANTS QGATimeout,  \* --qga-timeout
          ExecWait     \* --qga-exec-wait

ASSUME ConfigAssumption == QGATimeout \in Nat /\ ExecWait \in Nat

guestExecStatusAttempts == 6
defaultConnectTimeout == 5

VARIABLES
    pc,           \* the call or the sleep the scrape is at
    attempt,      \* guest-exec-status calls that have said "not exited"
    elapsed,      \* seconds since the deadline was set
    needDiskMap,
    client,       \* open, or closed by a deadline
    result,       \* counters, or the kind of error
    cause         \* history: why the context ended the scrape

vars == <<pc, attempt, elapsed, needDiskMap, client, result, cause>>

scrapeBudget ==
    LET calls == QGATimeout * (1 + guestExecStatusAttempts)
        waits == ExecWait * guestExecStatusAttempts
    IN calls + waits + 2 + (IF needDiskMap THEN QGATimeout ELSE 0)

Init ==
    /\ pc = "exec"
    /\ attempt = 0
    /\ elapsed = 0
    /\ needDiskMap \in BOOLEAN
    /\ client = "open"
    /\ result = "none"
    /\ cause = "none"
-----------------------------------------------------------------------------
\* An agent command that is answered, by the agent or by a timeout of libvirt,
\* before the deadline.
Answered(from) ==
    /\ pc = from
    /\ \E d \in 0..QGATimeout : /\ elapsed + d < scrapeBudget
                                /\ elapsed' = elapsed + d
    /\ UNCHANGED <<needDiskMap, client, cause>>

Finish(r) == pc' = "end" /\ result' = r

\* GuestExec: a PID, a blacklisted command, an error.
Exec ==
    /\ Answered("exec")
    /\ \/ pc' = "sleep" /\ UNCHANGED result
       \/ Finish("blacklisted")
       \/ Finish("failed")
    /\ UNCHANGED attempt

\* sleepCtx: the timer before the deadline.
Sleep ==
    /\ pc = "sleep"
    /\ elapsed + ExecWait < scrapeBudget
    /\ elapsed' = elapsed + ExecWait
    /\ pc' = "status"
    /\ UNCHANGED <<attempt, needDiskMap, client, result, cause>>

\* Mutant: one attempt more than the budget is made for.
StatusOneMore ==
    /\ Answered("status")
    /\ \/ /\ UNCHANGED attempt
          /\ \/ pc' = (IF needDiskMap THEN "disks" ELSE "end") /\ result' = "counters"
             \/ Finish("blacklisted")
             \/ Finish("failed")
       \/ /\ attempt' = attempt + 1
          /\ \/ /\ attempt' <= guestExecStatusAttempts
                /\ pc' = "sleep"
                /\ UNCHANGED result
             \/ /\ attempt' > guestExecStatusAttempts
                /\ Finish("failed")

\* GuestExecStatus: the process has exited well, or badly (truncated or no output,
\* an exit code, unreadable data); the command fails; or the process still runs.
Status ==
    /\ Answered("status")
    /\ \/ /\ UNCHANGED attempt
          /\ \/ pc' = (IF needDiskMap THEN "disks" ELSE "end") /\ result' = "counters"
             \/ Finish("blacklisted")
             \/ Finish("failed")
       \/ /\ attempt' = attempt + 1
          /\ \/ /\ attempt' < guestExecStatusAttempts
                /\ pc' = "sleep"
                /\ UNCHANGED result
             \/ /\ attempt' = guestExecStatusAttempts
                /\ Finish("failed")

\* tryBuildDiskMap: GuestGetDisks, with disks or without.
GetDisks ==
    /\ Answered("disks")
    /\ pc' \in {"xml", "end"}
    /\ UNCHANGED <<attempt, result>>

\* DomainGetXMLDesc has a deadline of its own and knows nothing of the scrape's.
GetXML ==
    /\ pc = "xml"
    /\ \E d \in 0..defaultConnectTimeout :
          /\ elapsed' = elapsed + d
          /\ client' = IF d = defaultConnectTimeout THEN "closed" ELSE client
    /\ pc' = "end"
    /\ UNCHANGED <<attempt, needDiskMap, result, cause>>
-----------------------------------------------------------------------------
Waiting == pc \in {"exec", "status", "disks", "sleep"}

\* Mutant: the error does not wrap the one of the context.
CutHidden(why) ==
    /\ Waiting
    /\ pc' = "end"
    /\ result' = IF pc = "disks" THEN result ELSE "failed"
    /\ client' = IF pc = "sleep" THEN client ELSE "closed"
    /\ cause' = why
    /\ UNCHANGED <<attempt, needDiskMap>>

\* Mutant: the command is sent again.
CutRetries(why) ==
    /\ Waiting
    /\ client' = IF pc = "sleep" THEN client ELSE "closed"
    /\ cause' = why
    /\ UNCHANGED <<pc, attempt, needDiskMap, result>>

\* The context ends during an agent command, which closes the client, or during a
\* sleep, which does not.  tryBuildDiskMap swallows the error.
Cut(why) ==
    /\ Waiting
    /\ pc' = "end"
    /\ result' = IF pc = "disks" THEN result ELSE "dead"
    /\ client' = IF pc = "sleep" THEN client ELSE "closed"
    /\ cause' = why
    /\ UNCHANGED <<attempt, needDiskMap>>

\* The deadline comes: virtqemud hangs, or it comes so early that the call or the
\* sleep may be none too long.
Expire ==
    LET late == elapsed + (IF pc = "sleep" THEN ExecWait ELSE QGATimeout) >= scrapeBudget
    IN /\ pc = "sleep" => late
       /\ Cut(IF late THEN "slow" ELSE "hang")
       /\ elapsed' = scrapeBudget

\* The context of Run() is cancelled.
Cancel == Cut("cancel") /\ UNCHANGED elapsed

Done == pc = "end" /\ UNCHANGED vars

Step == Exec \/ Sleep \/ Status \/ GetDisks \/ GetXML \/ Expire \/ Cancel

Next == Step \/ Done

Spec == Init /\ [][Next]_vars

\* Timers fire and the goroutine runs: a call is answered or cut.
FairSpec == Spec /\ WF_vars(Step)
-----------------------------------------------------------------------------
(* Properties.                                                             *)

\* Every variable holds a value of its type: the steps, the loop counter and the
\* outcome of scrapeVM's calls.
TypeOK ==
    /\ pc \in {"exec", "sleep", "status", "disks", "xml", "end"}
    /\ attempt \in 0..guestExecStatusAttempts
    /\ elapsed \in Nat
    /\ needDiskMap \in BOOLEAN
    /\ client \in {"open", "closed"}
    /\ result \in {"none", "counters", "blacklisted", "failed", "dead"}
    /\ cause \in {"none", "hang", "cancel", "slow"}

\* The budget is enough: a scrape whose calls are all answered within the timeout
\* is never cut off by its own deadline, however slow they are and however many
\* attempts it takes (scrapeBudget, 197-207 of collector.go; GuestExecWait).
BudgetSuffices == cause # "slow"

\* A scrape that leaves its client closed says so (an error isDeadClient knows), or
\* else has counters and was building the disk map: the collector that looks at
\* the error alone misses only that case (209-213, 559-592 of collector.go).
ClosedIsTold ==
    pc = "end" /\ client = "closed" =>
        result = "dead" \/ (result = "counters" /\ needDiskMap)

\* A scrape ends, whatever the guest does (159-204).
ScrapeEnds == <>(pc = "end")
=============================================================================
