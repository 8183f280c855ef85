-------------------------- MODULE GuestExecProofs --------------------------
(***************************************************************************)
(* The budget of a scrape is enough for every QGATimeout and ExecWait.     *)
(* The inductive invariant bounds the time spent by the calls and sleeps   *)
(* made so far; with at most guestExecStatusAttempts of each the bound     *)
(* stays below scrapeBudget.                                               *)
(***************************************************************************)
EXTENDS GuestExec, TLAPS

\* The time that a calls and b sleeps take at most.
Spent(a, b) == a * QGATimeout + b * ExecWait

Slack == scrapeBudget > Spent(7, 6) + (IF needDiskMap THEN QGATimeout ELSE 0)

\* Each step so far was a call of at most QGATimeout or a sleep of ExecWait.
TimeInv ==
    /\ pc = "exec" => attempt = 0 /\ elapsed = 0
    /\ pc = "sleep" => attempt < 6 /\ elapsed <= Spent(attempt + 1, attempt)
    /\ pc = "status" => attempt < 6 /\ elapsed <= Spent(attempt + 1, attempt + 1)
    /\ pc = "disks" => elapsed <= Spent(7, 6)

\* What the scrape knows while it builds the disk map, and when a client is closed.
OutcomeInv ==
    /\ pc \in {"disks", "xml"} => needDiskMap /\ result = "counters"
    /\ pc # "end" => client = "open"

IInv == TypeOK /\ TimeInv /\ OutcomeInv /\ BudgetSuffices /\ ClosedIsTold

USE ConfigAssumption DEF guestExecStatusAttempts, defaultConnectTimeout

\* A call or a sleep more costs that much more time.
LEMMA SpentStep ==
    ASSUME NEW a \in 0..6, NEW b \in 0..6
    PROVE  /\ Spent(a, b) \in Nat
           /\ Spent(a + 1, b) = Spent(a, b) + QGATimeout
           /\ Spent(a, b + 1) = Spent(a, b) + ExecWait
BY DEF Spent

\* Fewer calls and sleeps take less time.
LEMMA SpentMonotone ==
    ASSUME NEW a \in 0..7, NEW b \in 0..6
    PROVE  Spent(a, b) <= Spent(7, 6) /\ Spent(7, 6) \in Nat
<1>1. a * QGATimeout <= 7 * QGATimeout
  BY a \in {0, 1, 2, 3, 4, 5, 6, 7}
<1>2. b * ExecWait <= 6 * ExecWait
  BY b \in {0, 1, 2, 3, 4, 5, 6}
<1>3. a * QGATimeout \in Nat /\ b * ExecWait \in Nat
  OBVIOUS
<1>. QED
  BY <1>1, <1>2, <1>3 DEF Spent

\* scrapeBudget is two seconds more than seven calls and six sleeps.
LEMMA BudgetSlack == ASSUME TypeOK PROVE Slack /\ scrapeBudget \in Nat
BY DEF Slack, Spent, scrapeBudget, TypeOK

LEMMA InitIInv == Init => IInv
BY DEF Init, IInv, TypeOK, TimeInv, OutcomeInv, BudgetSuffices, ClosedIsTold

LEMMA ExecPreserves == IInv /\ Exec => IInv'
<1> SUFFICES ASSUME IInv, Exec PROVE IInv'
  OBVIOUS
<1>1. elapsed' \in Nat /\ elapsed' <= QGATimeout
  BY DEF Exec, Answered, IInv, TimeInv, TypeOK
<1>2. Spent(1, 0) = QGATimeout
  BY DEF Spent
<1>3. TypeOK' /\ OutcomeInv' /\ BudgetSuffices' /\ ClosedIsTold'
  BY <1>1 DEF Exec, Answered, Finish, IInv, TypeOK, TimeInv, OutcomeInv, BudgetSuffices,
              ClosedIsTold
<1>4. TimeInv'
  BY <1>1, <1>2 DEF Exec, Answered, Finish, IInv, TimeInv, TypeOK
<1>. QED
  BY <1>3, <1>4 DEF IInv

LEMMA SleepPreserves == IInv /\ Sleep => IInv'
<1> SUFFICES ASSUME IInv, Sleep PROVE IInv'
  OBVIOUS
<1>1. /\ attempt \in 0..5
      /\ elapsed <= Spent(attempt + 1, attempt)
  BY DEF Sleep, IInv, TypeOK, TimeInv
<1>2. /\ Spent(attempt + 1, attempt) \in Nat
      /\ Spent(attempt + 1, attempt + 1) = Spent(attempt + 1, attempt) + ExecWait
  BY <1>1, SpentStep
<1>3. TypeOK' /\ OutcomeInv' /\ BudgetSuffices' /\ ClosedIsTold'
  BY DEF Sleep, IInv, TypeOK, OutcomeInv, BudgetSuffices, ClosedIsTold
<1>4. TimeInv'
  BY <1>1, <1>2 DEF Sleep, IInv, TimeInv, TypeOK
<1>. QED
  BY <1>3, <1>4 DEF IInv

LEMMA StatusPreserves == IInv /\ Status => IInv'
<1> SUFFICES ASSUME IInv, Status PROVE IInv'
  OBVIOUS
<1>1. /\ attempt \in 0..5
      /\ elapsed <= Spent(attempt + 1, attempt + 1)
  BY DEF Status, Answered, IInv, TypeOK, TimeInv
<1>2. /\ Spent(attempt + 1, attempt + 1) \in Nat
      /\ Spent(attempt + 2, attempt + 1) = Spent(attempt + 1, attempt + 1) + QGATimeout
  BY <1>1, SpentStep, (attempt + 1) + 1 = attempt + 2
<1>3. elapsed' \in Nat /\ elapsed' <= Spent(attempt + 2, attempt + 1)
  BY <1>1, <1>2 DEF Status, Answered, IInv, TypeOK
<1>4. Spent(attempt + 2, attempt + 1) <= Spent(7, 6) /\ Spent(7, 6) \in Nat
      /\ Spent(attempt + 2, attempt + 1) \in Nat
  BY <1>1, <1>2, SpentMonotone
<1>5. TypeOK' /\ OutcomeInv' /\ BudgetSuffices' /\ ClosedIsTold'
  BY <1>1, <1>3 DEF Status, Answered, Finish, IInv, TypeOK, OutcomeInv, BudgetSuffices,
                    ClosedIsTold
<1>6. TimeInv'
  <2>1. CASE pc' = "sleep"
    BY <1>1, <1>3, <2>1, (attempt + 1) + 1 = attempt + 2
       DEF Status, Answered, Finish, TimeInv, IInv, TypeOK
  <2>2. CASE pc' = "disks"
    BY <1>3, <1>4, <2>2 DEF TimeInv
  <2>3. CASE pc' = "end"
    BY <2>3 DEF TimeInv
  <2>. QED
    BY <2>1, <2>2, <2>3 DEF Status, Finish
<1>. QED
  BY <1>5, <1>6 DEF IInv

LEMMA MapPreserves == IInv /\ (GetDisks \/ GetXML) => IInv'
BY DEF GetDisks, GetXML, Answered, IInv, TypeOK, TimeInv, OutcomeInv, BudgetSuffices,
       ClosedIsTold

\* The deadline is further away than any call or sleep may take.
LEMMA NotLate ==
    ASSUME IInv, Waiting
    PROVE  elapsed + (IF pc = "sleep" THEN ExecWait ELSE QGATimeout) < scrapeBudget
<1>0. TypeOK /\ Slack /\ scrapeBudget \in Nat /\ Spent(7, 6) \in Nat
  BY BudgetSlack, SpentMonotone DEF IInv
<1>1. CASE pc = "exec"
  <2>1. QGATimeout <= Spent(7, 6)
    BY SpentMonotone, Spent(1, 0) = QGATimeout DEF Spent
  <2>. QED
    BY <1>0, <1>1, <2>1 DEF IInv, TimeInv, Slack
<1>2. CASE pc = "sleep"
  <2>1. attempt \in 0..5 /\ elapsed <= Spent(attempt + 1, attempt)
    BY <1>2 DEF IInv, TimeInv, TypeOK
  <2>2. /\ Spent(attempt + 1, attempt + 1) = Spent(attempt + 1, attempt) + ExecWait
        /\ Spent(attempt + 1, attempt) \in Nat
    BY <2>1, SpentStep
  <2>3. Spent(attempt + 1, attempt + 1) <= Spent(7, 6)
    BY <2>1, SpentMonotone
  <2>. QED
    BY <1>0, <1>2, <2>1, <2>2, <2>3 DEF Slack, TypeOK
<1>3. CASE pc = "status"
  <2>1. attempt \in 0..5 /\ elapsed <= Spent(attempt + 1, attempt + 1)
    BY <1>3 DEF IInv, TimeInv, TypeOK
  <2>2. /\ Spent(attempt + 2, attempt + 1) = Spent(attempt + 1, attempt + 1) + QGATimeout
        /\ Spent(attempt + 1, attempt + 1) \in Nat
    BY <2>1, SpentStep, (attempt + 1) + 1 = attempt + 2
  <2>3. Spent(attempt + 2, attempt + 1) <= Spent(7, 6)
    BY <2>1, SpentMonotone
  <2>. QED
    BY <1>0, <1>3, <2>1, <2>2, <2>3 DEF Slack, TypeOK
<1>4. CASE pc = "disks"
  BY <1>0, <1>4 DEF IInv, TimeInv, OutcomeInv, Slack, TypeOK
<1>. QED
  BY <1>1, <1>2, <1>3, <1>4 DEF Waiting

LEMMA CutPreserves == IInv /\ (Expire \/ Cancel) => IInv'
<1> SUFFICES ASSUME IInv, Expire \/ Cancel PROVE IInv'
  OBVIOUS
<1>1. Waiting /\ elapsed + (IF pc = "sleep" THEN ExecWait ELSE QGATimeout) < scrapeBudget
  BY NotLate DEF Expire, Cancel, Cut
<1>2. scrapeBudget \in Nat
  BY BudgetSlack DEF IInv
<1>3. cause' \in {"hang", "cancel"} /\ elapsed' \in Nat
  BY <1>1, <1>2 DEF Expire, Cancel, Cut, IInv, TypeOK
<1>. QED
  BY <1>1, <1>3 DEF Expire, Cancel, Cut, Waiting, IInv, TypeOK, TimeInv, OutcomeInv,
                    BudgetSuffices, ClosedIsTold

LEMMA NextIInv == IInv /\ [Next]_vars => IInv'
<1> SUFFICES ASSUME IInv, [Next]_vars PROVE IInv'
  OBVIOUS
<1>1. CASE Step
  BY <1>1, ExecPreserves, SleepPreserves, StatusPreserves, MapPreserves, CutPreserves
     DEF Step
<1>2. CASE Done \/ UNCHANGED vars
  BY <1>2 DEF Done, vars, IInv, TypeOK, TimeInv, OutcomeInv, BudgetSuffices, ClosedIsTold
<1>. QED
  BY <1>1, <1>2 DEF Next

\* The time bound and what goes with it hold in every reachable state.
THEOREM Invariance == Spec => []IInv
BY InitIInv, NextIInv, PTL DEF Spec

\* The state of a scrape is well typed, the clock of the scrape included.
THEOREM TypeCorrect == Spec => []TypeOK
<1>1. IInv => TypeOK
  BY DEF IInv
<1>. QED
  BY <1>1, Invariance, PTL

\* For every QGATimeout and ExecWait, scrapeBudget never cuts off a scrape whose
\* agent commands are all answered within the timeout.
THEOREM BudgetIsEnough == Spec => []BudgetSuffices
<1>1. IInv => BudgetSuffices
  BY DEF IInv
<1>. QED
  BY <1>1, Invariance, PTL

\* A scrape that leaves its client closed reports it, except from tryBuildDiskMap.
THEOREM ClosedTold == Spec => []ClosedIsTold
<1>1. IInv => ClosedIsTold
  BY DEF IInv
<1>. QED
  BY <1>1, Invariance, PTL
=============================================================================
