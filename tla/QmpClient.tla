------------------------------ MODULE QmpClient ------------------------------
(***************************************************************************)
(* The QMP client of pkg/qmp/client.go: one libvirt transport shared by    *)
(* several goroutines.  A request runs in call(): it takes the mutex,      *)
(* registers a context.AfterFunc callback that closes the transport when   *)
(* the request's context ends, and blocks in the RPC.  Close() can come    *)
(* from such a callback or from the owner of the client, and takes no      *)
(* mutex but the closeOnce.                                                *)
(*                                                                         *)
(* External: context.AfterFunc and sync.Once of the Go library, and        *)
(* go-libvirt, whose RPC returns when the peer answers or the transport is *)
(* lost and not before.                                                    *)
(***************************************************************************)
CONSTANTS Callers,  \* the goroutines that issue requests
          Dialer,   \* the one that runs newClient
          Owner,    \* the holder of the client, which may Close() it
          None      \* "nobody"

ASSUME CallersAssumption ==
    /\ Dialer \in Callers
    /\ Owner \notin Callers
    /\ None \notin Callers \cup {Owner}

VARIABLES
    phase,   \* "new": in newClient; "ready": handed out; "failed", "abandoned"
    mu,      \* who holds Client.mu
    pc,      \* where each caller is in call()
    ctx,     \* each caller's context: "live" or "ended"
    cb,      \* the AfterFunc callback of each caller's request
    res,     \* what each caller's last call() returns
    closer,  \* the goroutine that won closeOnce
    conn,    \* the transport: "open", "hungup" by the peer, "closed"
    owner    \* where the owner is in Close()

vars == <<phase, mu, pc, ctx, cb, res, closer, conn, owner>>

\* The flag closed is stored by the winner of closeOnce before anything else.
Closed == closer # None

PendingCallback == {"armed", "fired", "closing", "closed"}

Init ==
    /\ phase = "new"
    /\ mu = None
    /\ pc = [c \in Callers |-> IF c = Dialer THEN "lock" ELSE "idle"]
    /\ ctx = [c \in Callers |-> "live"]
    /\ cb = [c \in Callers |-> "none"]
    /\ res = [c \in Callers |-> "none"]
    /\ closer = None
    /\ conn = "open"
    /\ owner = "idle"

-----------------------------------------------------------------------------
(* Close().  Whoever loses closeOnce waits for the winner to return.       *)

CloseFirst(p) == /\ closer = None
                 /\ closer' = p
                 /\ UNCHANGED conn

CloseConn == /\ conn' = "closed"
             /\ UNCHANGED closer

CloseAgain == /\ conn = "closed"
              /\ UNCHANGED <<closer, conn>>

-----------------------------------------------------------------------------
(* call().                                                                 *)

Goto(c, from, to) == /\ pc[c] = from
                     /\ pc' = [pc EXCEPT ![c] = to]

Return(c, r) == res' = [res EXCEPT ![c] = r]

\* A request of any kind on a client that was handed out, with a context of its
\* own (DomainGetXMLDesc) or the one its caller already has (the others).
Begin(c) ==
    /\ phase = "ready"
    /\ Goto(c, "idle", "lock")
    /\ \E x \in {"live", ctx[c]} : ctx' = [ctx EXCEPT ![c] = x]
    /\ cb' = [cb EXCEPT ![c] = "none"]
    /\ Return(c, "none")
    /\ UNCHANGED <<phase, mu, closer, conn, owner>>

Lock(c) ==
    /\ Goto(c, "lock", "checkctx")
    /\ mu = None
    /\ mu' = c
    /\ UNCHANGED <<phase, ctx, cb, res, closer, conn, owner>>

CheckCtx(c) ==
    /\ \/ /\ ctx[c] = "live"
          /\ Goto(c, "checkctx", "checkclosed")
          /\ UNCHANGED res
       \/ /\ ctx[c] = "ended"
          /\ Goto(c, "checkctx", "unlock")
          /\ Return(c, "ctx")
    /\ UNCHANGED <<phase, mu, ctx, cb, closer, conn, owner>>

CheckClosed(c) ==
    /\ \/ /\ ~Closed
          /\ Goto(c, "checkclosed", "arm")
          /\ UNCHANGED res
       \/ /\ Closed
          /\ Goto(c, "checkclosed", "unlock")
          /\ Return(c, "closed")
    /\ UNCHANGED <<phase, mu, ctx, cb, closer, conn, owner>>

Arm(c) ==
    /\ Goto(c, "arm", "rpc")
    /\ cb' = [cb EXCEPT ![c] = "armed"]
    /\ UNCHANGED <<phase, mu, ctx, res, closer, conn, owner>>

CbStopped(c) == /\ cb[c] = "armed"
                /\ cb' = [cb EXCEPT ![c] = "stopped"]

\* fn() returns: the peer answered, or the transport is gone.
Answer(c) ==
    /\ conn = "open"
    /\ Goto(c, "rpc", "stop")
    /\ \E r \in {"ok", "rpcerror"} : Return(c, r)
    /\ UNCHANGED <<phase, mu, ctx, cb, closer, conn, owner>>

Abort(c) ==
    /\ conn # "open"
    /\ Goto(c, "rpc", "stop")
    /\ Return(c, "aborted")
    /\ UNCHANGED <<phase, mu, ctx, cb, closer, conn, owner>>

\* Mutant: call() does not wait for a callback that has started.
StopNoWait(c) ==
    /\ Goto(c, "stop", "unlock")
    /\ \/ CbStopped(c) /\ UNCHANGED res
       \/ cb[c] # "armed" /\ Return(c, "deadline") /\ UNCHANGED cb
    /\ UNCHANGED <<phase, mu, ctx, closer, conn, owner>>

\* stop() is true if and only if it keeps the callback from starting.
Stop(c) ==
    /\ \/ /\ CbStopped(c)
          /\ Goto(c, "stop", "unlock")
       \/ /\ cb[c] # "armed"
          /\ Goto(c, "stop", "wait")
          /\ UNCHANGED cb
    /\ UNCHANGED <<phase, mu, ctx, res, closer, conn, owner>>

\* Mutant: the reply is returned although the callback has started.
WaitDoneKeepsReply(c) ==
    /\ cb[c] = "done"
    /\ Goto(c, "wait", "unlock")
    /\ UNCHANGED <<phase, mu, ctx, cb, res, closer, conn, owner>>

WaitDone(c) ==
    /\ cb[c] = "done"
    /\ Goto(c, "wait", "unlock")
    /\ Return(c, "deadline")
    /\ UNCHANGED <<phase, mu, ctx, cb, closer, conn, owner>>

\* Mutant: newClient forgets to close what it could not set up.
UnlockNoClose(c) ==
    /\ Goto(c, "unlock", "idle")
    /\ mu' = None
    /\ phase' = IF phase # "new" THEN phase
                ELSE IF res[c] = "ok" THEN "ready" ELSE "abandoned"
    /\ UNCHANGED <<ctx, cb, res, closer, conn, owner>>

\* The deferred Unlock.  The first call is newClient's, which hands the
\* client out or gives it up.
Unlock(c) ==
    /\ Goto(c, "unlock", "idle")
    /\ mu' = None
    /\ phase' = IF phase # "new" THEN phase
                ELSE IF res[c] = "ok" THEN "ready" ELSE "failed"
    /\ UNCHANGED <<ctx, cb, res, closer, conn, owner>>

Call(c) == \/ Begin(c) \/ Lock(c) \/ CheckCtx(c) \/ CheckClosed(c) \/ Arm(c)
           \/ Answer(c) \/ Abort(c) \/ Stop(c) \/ WaitDone(c) \/ Unlock(c)
-----------------------------------------------------------------------------
(* The callback of AfterFunc, in a goroutine of its own.                   *)

CbGoto(c, from, to) == /\ cb[c] = from
                       /\ cb' = [cb EXCEPT ![c] = to]

\* Mutant: the end of the context is noticed only once the RPC has returned.
FireAfterRPC(c) == /\ ctx[c] = "ended"
                   /\ pc[c] # "rpc"
                   /\ CbGoto(c, "armed", "fired")
                   /\ UNCHANGED <<phase, mu, pc, ctx, res, closer, conn, owner>>

Fire(c) == /\ ctx[c] = "ended"
           /\ CbGoto(c, "armed", "fired")
           /\ UNCHANGED <<phase, mu, pc, ctx, res, closer, conn, owner>>

CbClose(c) ==
    /\ \/ CbGoto(c, "fired", "closing") /\ CloseFirst(c)
       \/ CbGoto(c, "closing", "closed") /\ CloseConn
       \/ CbGoto(c, "fired", "closed") /\ CloseAgain
    /\ UNCHANGED <<phase, mu, pc, ctx, res, owner>>

CbDone(c) == /\ CbGoto(c, "closed", "done")
             /\ UNCHANGED <<phase, mu, pc, ctx, res, closer, conn, owner>>

Callback(c) == Fire(c) \/ CbClose(c) \/ CbDone(c)
-----------------------------------------------------------------------------
(* The owner: newClient after a failed call, or the collector's close().   *)

OwnerGoto(from, to) == owner = from /\ owner' = to

OwnerCall ==
    /\ phase \in {"failed", "ready"}
    /\ OwnerGoto("idle", "called")
    /\ UNCHANGED <<phase, mu, pc, ctx, cb, res, closer, conn>>

OwnerClose ==
    /\ \/ OwnerGoto("called", "closing") /\ CloseFirst(Owner)
       \/ OwnerGoto("closing", "returning") /\ CloseConn
       \/ OwnerGoto("called", "returning") /\ CloseAgain
    /\ UNCHANGED <<phase, mu, pc, ctx, cb, res>>

OwnerReturn ==
    /\ OwnerGoto("returning", "idle")
    /\ phase' = IF phase = "failed" THEN "abandoned" ELSE phase
    /\ UNCHANGED <<mu, pc, ctx, cb, res, closer, conn>>
-----------------------------------------------------------------------------
(* The environment: a deadline or a cancellation, and a peer that goes.    *)

EndContext(c) ==
    /\ ctx[c] = "live"
    /\ ctx' = [ctx EXCEPT ![c] = "ended"]
    /\ UNCHANGED <<phase, mu, pc, cb, res, closer, conn, owner>>

Hangup == /\ conn = "open"
          /\ conn' = "hungup"
          /\ UNCHANGED <<phase, mu, pc, ctx, cb, res, closer, owner>>

\* newClient returned an error: nobody has a reference to the client.
Gone == phase = "abandoned" /\ UNCHANGED vars

Next == \/ \E c \in Callers : Call(c) \/ Callback(c) \/ EndContext(c)
        \/ OwnerCall \/ OwnerClose \/ OwnerReturn
        \/ Hangup
        \/ Gone

Spec == Init /\ [][Next]_vars

(***************************************************************************)
(* Goroutines that can run do run.  A Go mutex hands itself to a waiter    *)
(* that starves, hence strong fairness for Lock.  Every context given to   *)
(* call() comes from context.WithTimeout, so it ends.  newClient does      *)
(* close what it fails to set up.  Nothing makes the peer answer, a caller *)
(* issue a request, or the owner of a working client close it.             *)
(***************************************************************************)
Fairness ==
    /\ \A c \in Callers :
          /\ SF_vars(Lock(c))
          /\ WF_vars(CheckCtx(c) \/ CheckClosed(c) \/ Arm(c) \/ Abort(c)
                     \/ Stop(c) \/ WaitDone(c) \/ Unlock(c))
          /\ WF_vars(Callback(c))
          /\ WF_vars(EndContext(c))
    /\ WF_vars(OwnerCall /\ phase = "failed")
    /\ WF_vars(OwnerClose \/ OwnerReturn)

FairSpec == Spec /\ Fairness
-----------------------------------------------------------------------------
(* Properties.                                                             *)

\* Every variable holds a value of its type: the fields of Client and the
\* program points of call(), its callback and Close().
TypeOK ==
    /\ phase \in {"new", "ready", "failed", "abandoned"}
    /\ mu \in Callers \cup {None}
    /\ pc \in [Callers -> {"idle", "lock", "checkctx", "checkclosed", "arm",
                           "rpc", "stop", "wait", "unlock"}]
    /\ ctx \in [Callers -> {"live", "ended"}]
    /\ cb \in [Callers -> {"none", "stopped", "done"} \cup PendingCallback]
    /\ res \in [Callers -> {"none", "ok", "rpcerror", "aborted", "ctx", "closed",
                            "deadline"}]
    /\ closer \in Callers \cup {None, Owner}
    /\ conn \in {"open", "hungup", "closed"}
    /\ owner \in {"idle", "called", "closing", "returning"}

\* A callback that can still start, close the transport or report that it did
\* belongs to the call that holds the mutex: the deadline of one request never
\* closes the client under a later one (call() waits for done, lines 132-136).
CallbackWithinCall ==
    \A c \in Callers : cb[c] \in PendingCallback => mu = c

\* What call() returns tells the state of the client: a missed deadline means
\* the transport is already closed, and any other end of an RPC means that the
\* callback of this call never ran and never will (lines 131-137).
OutcomeTellsClient ==
    \A c \in Callers : pc[c] = "unlock" =>
        /\ res[c] = "deadline" => Closed /\ conn = "closed"
        /\ res[c] \in {"ok", "rpcerror", "aborted"} =>
              cb[c] = "stopped" /\ closer # c

\* newClient hands out a client only if nobody has closed it, however close its
\* deadline was (lines 80-95).
HandedOutOpen ==
    [][(phase = "new" /\ phase' = "ready") => closer' = None]_vars

\* Every request returns although the peer may never answer: the end of its
\* context closes the transport without the mutex (lines 98-138).
CallReturns == \A c \in Callers : pc[c] # "idle" ~> pc[c] = "idle"

\* newClient comes to an end: it hands a client out, or it has closed the
\* transport it was given (lines 80-95).
SetupSettles ==
    phase = "new" ~> \/ phase = "ready"
                     \/ phase = "abandoned" /\ conn = "closed"

(* The refinement mapping to ClientContract.                               *)
Served(c) == \/ pc[c] \in {"arm", "rpc", "stop", "wait"}
             \/ /\ pc[c] = "unlock"
                /\ res[c] \notin {"ctx", "closed"}

Told(r) == CASE r \in {"ok", "rpcerror"}  -> "answered"
             [] r \in {"ctx", "closed"}   -> "refused"
             [] OTHER                     -> r

serving == IF mu # None /\ Served(mu) THEN mu ELSE None

outcome == [c \in Callers |-> Told(res[c])]

Contract == INSTANCE ClientContract WITH killer <- closer

\* The client implements the contract its users rely on: one request at a time,
\* killed by its owner or by the request it is serving, never by an earlier one.
ImplementsContract == Contract!Spec
=============================================================================
