---------------------------- MODULE ClientContract ----------------------------
(***************************************************************************)
(* What the collectors rely on when they share a QMP client: requests are  *)
(* served one at a time; only the request being served, by missing its     *)
(* deadline, or the owner can kill the client; a request that reports a    *)
(* missed deadline leaves a dead client behind, and one that reports       *)
(* anything else did not kill it.                                          *)
(***************************************************************************)
CONSTANTS Callers, Owner, None

VARIABLES serving,  \* the caller whose request is being served
          killer,   \* who ended the life of the client
          outcome   \* what each caller was last told

contractVars == <<serving, killer, outcome>>

Outcomes == {"none", "answered", "aborted", "deadline", "refused"}

Init == /\ serving = None
        /\ killer = None
        /\ outcome = [c \in Callers |-> "none"]

Tell(c, o) == outcome' = [outcome EXCEPT ![c] = o]

Ask(c) == /\ serving # c
          /\ Tell(c, "none")
          /\ UNCHANGED <<serving, killer>>

Accept(c) == /\ serving = None
             /\ killer = None
             /\ serving' = c
             /\ UNCHANGED <<killer, outcome>>

Refuse(c) == /\ serving = None
             /\ Tell(c, "refused")
             /\ UNCHANGED <<serving, killer>>

\* The reply is known; the request is still the one being served until the
\* client has made sure that its deadline can do no more harm.
Reply(c, o) == /\ serving = c
               /\ Tell(c, o)
               /\ UNCHANGED <<serving, killer>>

MissDeadline(c) == /\ serving = c
                   /\ killer = None
                   /\ killer' = c
                   /\ UNCHANGED <<serving, outcome>>

Close == /\ killer = None
         /\ killer' = Owner
         /\ UNCHANGED <<serving, outcome>>

Finish(c) == /\ serving = c
             /\ outcome[c] \in {"answered", "aborted", "deadline"}
             /\ (outcome[c] = "deadline") => killer # None
             /\ (outcome[c] # "deadline") => killer # c
             /\ serving' = None
             /\ UNCHANGED <<killer, outcome>>

Next == \/ \E c \in Callers :
              \/ Ask(c) \/ Accept(c) \/ Refuse(c) \/ MissDeadline(c) \/ Finish(c)
              \/ \E o \in {"answered", "aborted", "deadline"} : Reply(c, o)
        \/ Close

Spec == Init /\ [][Next]_contractVars
=============================================================================
