--------------------------- MODULE ConnectionPool ---------------------------
(***************************************************************************)
(* What the QMP and the QGA collector make of their map of connections: a  *)
(* pool that a poll lends out to its goroutines.  While any connection is  *)
(* lent the poll neither adds nor removes one; it lends none that has been *)
(* closed; whoever was lent a connection, and nobody else, may close it,   *)
(* give it back or give it up.  A connection leaves the pool closed.       *)
(***************************************************************************)
CONSTANT Keys   \* IDs of compute containers

VARIABLES held,   \* the keys in the pool
          conn,   \* the connection of each key
          lent    \* the keys whose connections are lent to goroutines

poolVars == <<held, conn, lent>>

Init == /\ held = {}
        /\ conn = [k \in Keys |-> "none"]
        /\ lent = {}

\* Connections leave the pool, and are closed.
Remove(gone) ==
    /\ gone \subseteq held
    /\ held' = held \ gone
    /\ conn' = [k \in Keys |-> IF k \in gone THEN "closed" ELSE conn[k]]

Add(k) == /\ lent = {}
          /\ k \notin held
          /\ held' = held \cup {k}
          /\ conn' = [conn EXCEPT ![k] = "open"]
          /\ UNCHANGED lent

Prune(gone) == /\ lent = {}
               /\ Remove(gone)
               /\ UNCHANGED lent

\* A poll sorts out connections and lends others to its goroutines.
Lend(gone, to) == /\ lent = {}
                  /\ Remove(gone)
                  /\ to \subseteq held \ gone
                  /\ \A k \in to : conn[k] # "closed"
                  /\ lent' = to

\* A request of the goroutine misses its deadline.
Close(k) == /\ k \in lent
            /\ conn' = [conn EXCEPT ![k] = "closed"]
            /\ UNCHANGED <<held, lent>>

GiveBack(k) == /\ k \in lent
               /\ lent' = lent \ {k}
               /\ UNCHANGED <<held, conn>>

GiveUp(k) == /\ k \in lent
             /\ lent' = lent \ {k}
             /\ Remove({k})

\* Peers may go at any time.
Break(gone) == /\ gone \subseteq {k \in held : conn[k] = "open"}
               /\ conn' = [k \in Keys |-> IF k \in gone THEN "broken" ELSE conn[k]]
               /\ UNCHANGED <<held, lent>>

Next == \/ \E k \in Keys : Add(k) \/ Close(k) \/ GiveBack(k) \/ GiveUp(k)
        \/ \E gone \in SUBSET Keys :
              Prune(gone) \/ Break(gone) \/ \E to \in SUBSET Keys : Lend(gone, to)

Spec == Init /\ [][Next]_poolVars
=============================================================================
