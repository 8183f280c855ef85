--------------------------- MODULE QmpClientProofs ---------------------------
(***************************************************************************)
(* Proofs about QmpClient, for any set of callers.                         *)
(***************************************************************************)
EXTENDS QmpClient, TLAPS

\* The program points at which a caller holds the mutex.
Inside == {"checkctx", "checkclosed", "arm", "rpc", "stop", "wait", "unlock"}

\* The mutex is held by the one caller that is inside call().
MutexInv == \A c \in Callers : mu = c <=> pc[c] \in Inside

\* Where the callback of a caller can be, given where the caller is.
CallbackInv ==
    \A c \in Callers :
        /\ pc[c] \in {"lock", "checkctx", "checkclosed", "arm"} => cb[c] = "none"
        /\ pc[c] \in {"rpc", "stop"} => cb[c] \in PendingCallback \cup {"done"}
        /\ pc[c] = "wait" => cb[c] \in (PendingCallback \cup {"done"}) \ {"armed"}
        /\ pc[c] \in {"unlock", "idle"} => cb[c] \in {"none", "stopped", "done"}

\* What is known of the result of a call before and after its RPC.
ResultInv ==
    \A c \in Callers :
        /\ pc[c] \in {"stop", "wait"} => res[c] \in {"ok", "rpcerror", "aborted"}
        /\ pc[c] = "unlock" =>
              \/ res[c] \in {"ctx", "closed"} /\ cb[c] = "none"
              \/ res[c] = "deadline" /\ cb[c] = "done"
              \/ res[c] \in {"ok", "rpcerror", "aborted"} /\ cb[c] = "stopped"

\* Who can have closed the client, and how far the closing is.
CloseInv ==
    /\ conn = "closed" => closer # None
    /\ owner = "closing" => closer = Owner
    /\ \A c \in Callers :
          /\ cb[c] = "closing" => closer = c
          /\ cb[c] \in {"closed", "done"} => conn = "closed"
          /\ (Served(c) /\ closer = c) => cb[c] \in {"closing", "closed", "done"}

\* Until newClient returns, only its own call can touch the client.
SetupInv ==
    phase = "new" =>
        /\ owner = "idle"
        /\ closer \in {None, Dialer}
        /\ pc[Dialer] # "idle"
        /\ \A c \in Callers \ {Dialer} : pc[c] = "idle" /\ cb[c] = "none"

IInv == /\ TypeOK
        /\ MutexInv
        /\ CallbackInv
        /\ ResultInv
        /\ CloseInv
        /\ SetupInv
-----------------------------------------------------------------------------
LEMMA InitIInv == Init => IInv
  <1> SUFFICES ASSUME Init PROVE IInv
    OBVIOUS
  <1> USE CallersAssumption DEF Init
  <1>1. TypeOK
    BY DEF TypeOK, PendingCallback
  <1>2. MutexInv /\ CallbackInv /\ ResultInv
    BY DEF MutexInv, CallbackInv, ResultInv, Inside, PendingCallback
  <1>3. CloseInv /\ SetupInv
    BY DEF CloseInv, SetupInv, Served
  <1> QED
    BY <1>1, <1>2, <1>3 DEF IInv

\* Steps of the calls, one by one.
LEMMA CallPreserves ==
    ASSUME IInv, NEW c \in Callers, Call(c)
    PROVE  IInv'
  <1> USE CallersAssumption DEF Goto, Return, CbStopped, PendingCallback, Inside,
          IInv, TypeOK, MutexInv, CallbackInv, ResultInv, CloseInv, SetupInv,
          Served, Closed
  <1>1. CASE Begin(c)
    BY <1>1 DEF Begin
  <1>2. CASE Lock(c)
    BY <1>2 DEF Lock
  <1>3. CASE CheckCtx(c)
    BY <1>3 DEF CheckCtx
  <1>4. CASE CheckClosed(c)
    BY <1>4 DEF CheckClosed
  <1>5. CASE Arm(c)
    BY <1>5 DEF Arm
  <1>6. CASE Answer(c)
    BY <1>6 DEF Answer
  <1>7. CASE Abort(c)
    BY <1>7 DEF Abort
  <1>8. CASE Stop(c)
    BY <1>8 DEF Stop
  <1>9. CASE WaitDone(c)
    BY <1>9 DEF WaitDone
  <1>10. CASE Unlock(c)
    BY <1>10 DEF Unlock
  <1> QED
    BY <1>1, <1>2, <1>3, <1>4, <1>5, <1>6, <1>7, <1>8, <1>9, <1>10 DEF Call

\* Steps of the callbacks, which do what they do while their call waits.
LEMMA CallbackPreserves ==
    ASSUME IInv, NEW c \in Callers, Callback(c)
    PROVE  IInv'
  <1> USE CallersAssumption DEF CbGoto, CloseFirst, CloseConn, CloseAgain,
          PendingCallback, Inside, IInv, TypeOK, MutexInv, CallbackInv, ResultInv,
          CloseInv, SetupInv, Served
  <1>1. CASE Fire(c)
    BY <1>1 DEF Fire
  <1>2. CASE CbClose(c)
    BY <1>2 DEF CbClose
  <1>3. CASE CbDone(c)
    BY <1>3 DEF CbDone
  <1> QED
    BY <1>1, <1>2, <1>3 DEF Callback

\* Steps of the owner and of the environment.
LEMMA OtherPreserves ==
    ASSUME IInv,
           \/ \E c \in Callers : EndContext(c)
           \/ OwnerCall \/ OwnerClose \/ OwnerReturn \/ Hangup
           \/ UNCHANGED vars
    PROVE  IInv'
  <1> USE CallersAssumption DEF OwnerGoto, CloseFirst, CloseConn, CloseAgain,
          PendingCallback, Inside, IInv, TypeOK, MutexInv, CallbackInv, ResultInv,
          CloseInv, SetupInv, Served
  <1>1. CASE \E c \in Callers : EndContext(c)
    BY <1>1 DEF EndContext
  <1>2. CASE OwnerCall
    BY <1>2 DEF OwnerCall
  <1>3. CASE OwnerClose
    BY <1>3 DEF OwnerClose
  <1>4. CASE OwnerReturn
    BY <1>4 DEF OwnerReturn
  <1>5. CASE Hangup
    BY <1>5 DEF Hangup
  <1>6. CASE UNCHANGED vars
    BY <1>6 DEF vars
  <1> QED
    BY <1>1, <1>2, <1>3, <1>4, <1>5, <1>6

LEMMA NextIInv == IInv /\ [Next]_vars => IInv'
  BY CallPreserves, CallbackPreserves, OtherPreserves DEF Next, Gone

\* The inductive invariant holds of every behaviour of call(), its callbacks and
\* Close().
THEOREM Invariance == Spec => []IInv
  BY InitIInv, NextIInv, PTL DEF Spec
-----------------------------------------------------------------------------
\* The fields of Client and the program points keep their types.
THEOREM TypeCorrect == Spec => []TypeOK
  BY Invariance, PTL DEF IInv

\* The deadline of a request never closes the client under a later request:
\* call() keeps the mutex until its callback is stopped or done.
THEOREM CallbackSafety == Spec => []CallbackWithinCall
  <1>1. IInv => CallbackWithinCall
    BY DEF IInv, TypeOK, MutexInv, CallbackInv, CallbackWithinCall, Inside,
           PendingCallback
  <1> QED
    BY <1>1, Invariance, PTL

\* What call() returns tells whether the client can be used again.
THEOREM OutcomeCorrect == Spec => []OutcomeTellsClient
  <1>1. IInv => OutcomeTellsClient
    <2> SUFFICES ASSUME IInv, NEW c \in Callers, pc[c] = "unlock"
                 PROVE  /\ res[c] = "deadline" => Closed /\ conn = "closed"
                        /\ res[c] \in {"ok", "rpcerror", "aborted"} =>
                              cb[c] = "stopped" /\ closer # c
      BY DEF OutcomeTellsClient
    <2>1. res[c] = "deadline" => Closed /\ conn = "closed"
      BY DEF IInv, ResultInv, CloseInv, Closed
    <2>2. res[c] \in {"ok", "rpcerror", "aborted"} => cb[c] = "stopped" /\ closer # c
      BY DEF IInv, ResultInv, CloseInv, Served
    <2> QED
      BY <2>1, <2>2
  <1> QED
    BY <1>1, Invariance, PTL

\* newClient never hands out a client that has been closed, whatever the race
\* between its last reply and its deadline.
THEOREM HandedOut == Spec => HandedOutOpen
  <1>1. IInv /\ [Next]_vars => [(phase = "new" /\ phase' = "ready") => closer' = None]_vars
    <2> SUFFICES ASSUME IInv, [Next]_vars, phase = "new", phase' = "ready"
                 PROVE  closer' = None
      OBVIOUS
    <2>1. PICK c \in Callers : Unlock(c)
      BY DEF Next, vars, Call, Callback, Begin, Lock, CheckCtx, CheckClosed, Arm,
             Answer, Abort, Stop, WaitDone, Unlock, Fire, CbClose, CbDone, EndContext,
             OwnerCall, OwnerClose, OwnerReturn, Hangup, Gone
    <2>2. c = Dialer /\ res[c] = "ok" /\ pc[c] = "unlock" /\ closer' = closer
      BY <2>1 DEF Unlock, Goto, IInv, SetupInv
    <2>3. closer # Dialer
      BY <2>2 DEF IInv, ResultInv, CloseInv, Served
    <2> QED
      BY <2>2, <2>3 DEF IInv, SetupInv
  <1> QED
    BY <1>1, Invariance, PTL DEF Spec, HandedOutOpen
-----------------------------------------------------------------------------
(* The client implements ClientContract.                                   *)

\* Told of a result that changes, and of one that does not.
LEMMA OutcomeStep ==
    ASSUME TypeOK, NEW c \in Callers, NEW r, Return(c, r)
    PROVE  outcome' = [outcome EXCEPT ![c] = Told(r)]
  BY DEF TypeOK, Return, outcome

LEMMA OutcomeSame ==
    ASSUME UNCHANGED res
    PROVE  UNCHANGED outcome
  BY DEF outcome

LEMMA ToldValues ==
    /\ Told("none") = "none"
    /\ \A r \in {"ok", "rpcerror"} : Told(r) = "answered"
    /\ \A r \in {"ctx", "closed"} : Told(r) = "refused"
    /\ \A r \in {"aborted", "deadline"} : Told(r) = r
  BY DEF Told

\* The steps by which a request is asked for, refused, taken up, answered and
\* finished.
LEMMA CallRefines ==
    ASSUME IInv, NEW c \in Callers, Call(c)
    PROVE  [Contract!Next]_(Contract!contractVars)
  <1> USE CallersAssumption, ToldValues, OutcomeStep, OutcomeSame
      DEF IInv, Goto, Contract!contractVars
  <1> USE DEF Contract!Tell
  <1>1. CASE Begin(c)
    <2>1. serving # c /\ serving' = serving
      BY <1>1 DEF Begin, TypeOK, MutexInv, Inside, serving, Served, Return
    <2>2. Contract!Ask(c)
      BY <1>1, <2>1 DEF Begin, Contract!Ask
    <2> QED
      BY <2>2 DEF Contract!Next
  <1>2. CASE Lock(c)
    <2>1. serving' = serving
      BY <1>2 DEF Lock, TypeOK, serving, Served
    <2> QED
      BY <1>2, <2>1 DEF Lock
  <1>3. CASE CheckCtx(c) /\ pc'[c] = "unlock"
    <2>1. serving = None /\ serving' = None
      BY <1>3 DEF CheckCtx, TypeOK, MutexInv, Inside, serving, Served, Return
    <2>2. Contract!Refuse(c)
      BY <1>3, <2>1 DEF CheckCtx, TypeOK, Contract!Refuse
    <2> QED
      BY <2>2 DEF Contract!Next
  <1>4. CASE CheckCtx(c) /\ pc'[c] # "unlock"
    <2>1. serving' = serving
      BY <1>4 DEF CheckCtx, TypeOK, MutexInv, Inside, serving, Served
    <2> QED
      BY <1>4, <2>1 DEF CheckCtx, TypeOK
  <1>5. CASE CheckClosed(c) /\ pc'[c] = "unlock"
    <2>1. serving = None /\ serving' = None
      BY <1>5 DEF CheckClosed, TypeOK, MutexInv, Inside, serving, Served, Return
    <2>2. Contract!Refuse(c)
      BY <1>5, <2>1 DEF CheckClosed, TypeOK, Contract!Refuse
    <2> QED
      BY <2>2 DEF Contract!Next
  <1>6. CASE CheckClosed(c) /\ pc'[c] # "unlock"
    <2>1. serving = None /\ serving' = c
      BY <1>6 DEF CheckClosed, TypeOK, MutexInv, Inside, serving, Served
    <2>2. Contract!Accept(c)
      BY <1>6, <2>1 DEF CheckClosed, Closed, TypeOK, Contract!Accept
    <2> QED
      BY <2>2 DEF Contract!Next
  <1>7. CASE Arm(c)
    <2>1. serving' = serving
      BY <1>7 DEF Arm, TypeOK, MutexInv, Inside, serving, Served
    <2> QED
      BY <1>7, <2>1 DEF Arm
  <1>8. CASE Answer(c)
    <2>1. serving = c /\ serving' = c
      BY <1>8 DEF Answer, TypeOK, MutexInv, Inside, serving, Served
    <2>2. Contract!Reply(c, "answered")
      BY <1>8, <2>1 DEF Answer, Contract!Reply
    <2> QED
      BY <2>2 DEF Contract!Next
  <1>9. CASE Abort(c)
    <2>1. serving = c /\ serving' = c
      BY <1>9 DEF Abort, TypeOK, MutexInv, Inside, serving, Served
    <2>2. Contract!Reply(c, "aborted")
      BY <1>9, <2>1 DEF Abort, Contract!Reply
    <2> QED
      BY <2>2 DEF Contract!Next
  <1>10. CASE Stop(c)
    <2>1. serving' = serving
      BY <1>10 DEF Stop, TypeOK, MutexInv, ResultInv, Inside, serving, Served
    <2> QED
      BY <1>10, <2>1 DEF Stop
  <1>11. CASE WaitDone(c)
    <2>1. serving = c /\ serving' = c
      BY <1>11 DEF WaitDone, TypeOK, MutexInv, Inside, serving, Served, Return
    <2>2. Contract!Reply(c, "deadline")
      BY <1>11, <2>1 DEF WaitDone, Contract!Reply
    <2> QED
      BY <2>2 DEF Contract!Next
  <1>12. CASE Unlock(c) /\ ~Served(c)
    <2>1. serving = None /\ serving' = None
      BY <1>12 DEF Unlock, TypeOK, MutexInv, Inside, serving
    <2> QED
      BY <1>12, <2>1 DEF Unlock
  <1>13. CASE Unlock(c) /\ Served(c)
    <2>1. serving = c /\ serving' = None
      BY <1>13 DEF Unlock, TypeOK, MutexInv, Inside, serving
    <2>2. /\ outcome[c] \in {"answered", "aborted", "deadline"}
          /\ outcome[c] = "deadline" => res[c] = "deadline"
          /\ outcome[c] # "deadline" => res[c] \in {"ok", "rpcerror", "aborted"}
      BY <1>13 DEF Unlock, ResultInv, Served, outcome
    <2>3. outcome[c] = "deadline" => closer # None
      BY <1>13, <2>2 DEF Unlock, ResultInv, CloseInv
    <2>4. outcome[c] # "deadline" => closer # c
      BY <1>13, <2>2 DEF Unlock, ResultInv, CloseInv
    <2>5. Contract!Finish(c)
      BY <1>13, <2>1, <2>2, <2>3, <2>4 DEF Unlock, Contract!Finish
    <2> QED
      BY <2>5 DEF Contract!Next
  <1> QED
    BY <1>1, <1>2, <1>3, <1>4, <1>5, <1>6, <1>7, <1>8, <1>9, <1>10, <1>11, <1>12,
       <1>13 DEF Call

\* The steps that can kill the client, and those the contract does not see.
LEMMA OtherRefines ==
    ASSUME IInv,
           \/ \E c \in Callers : Callback(c) \/ EndContext(c)
           \/ OwnerCall \/ OwnerClose \/ OwnerReturn \/ Hangup
           \/ UNCHANGED vars
    PROVE  [Contract!Next]_(Contract!contractVars)
  <1>1. UNCHANGED <<mu, pc, res>>
    BY DEF Callback, Fire, CbClose, CbDone, EndContext, OwnerCall, OwnerClose,
           OwnerReturn, Hangup, vars
  <1>2. UNCHANGED <<serving, outcome>>
    BY <1>1 DEF serving, outcome, Served
  <1>3. CASE closer' = closer
    BY <1>2, <1>3 DEF Contract!contractVars
  <1>4. ASSUME NEW c \in Callers, CbClose(c), closer' # closer
        PROVE  Contract!Next
    <2>1. cb[c] = "fired" /\ closer = None /\ closer' = c
      BY <1>4 DEF CbClose, CbGoto, CloseFirst, CloseConn, CloseAgain
    <2>2. mu = c /\ c # None /\ pc[c] \in {"rpc", "stop", "wait"}
      BY <2>1, CallersAssumption
      DEF IInv, TypeOK, MutexInv, CallbackInv, Inside, PendingCallback
    <2>3. serving = c
      BY <2>2 DEF serving, Served
    <2>4. Contract!MissDeadline(c)
      BY <1>2, <2>1, <2>3 DEF Contract!MissDeadline
    <2> QED
      BY <2>4 DEF Contract!Next
  <1>5. ASSUME OwnerClose, closer' # closer
        PROVE  Contract!Next
    <2>1. closer = None /\ closer' = Owner
      BY <1>5 DEF OwnerClose, CloseFirst, CloseConn, CloseAgain
    <2>2. Contract!Close
      BY <1>2, <2>1 DEF Contract!Close
    <2> QED
      BY <2>2 DEF Contract!Next
  <1> QED
    BY <1>3, <1>4, <1>5 DEF Callback, Fire, CbDone, EndContext, OwnerCall,
       OwnerReturn, Hangup, vars

\* Every behaviour of call(), its callbacks and Close() is one the contract
\* allows.
THEOREM Refinement == Spec => ImplementsContract
  <1>1. Init => Contract!Init
    BY CallersAssumption, ToldValues DEF Init, Contract!Init, serving, outcome
  <1>2. IInv /\ [Next]_vars => [Contract!Next]_(Contract!contractVars)
    BY CallRefines, OtherRefines DEF Next, Gone
  <1> QED
    BY <1>1, <1>2, Invariance, PTL DEF Spec, ImplementsContract, Contract!Spec
=============================================================================
