--------------------------- MODULE GrowingReplicas -----------------------------
(***************************************************************************)
(* What a contract with a merge promises whoever keeps a replica of it: a  *)
(* replica holds nothing, or a valid state that only climbs the merge's    *)
(* order, one replica at a time.  No host, no message and no race appears  *)
(* here; RepoReplicas implements it.                                       *)
(***************************************************************************)
CONSTANTS Node,      \* nodes
          Origin,    \* the node where the contract was created
          Valid(_),  \* the contract accepts a state
          Leq(_, _), \* a state is one that merges made of another
          Empty,     \* the state of a node that holds nothing
          Initial    \* the state the contract was created with

VARIABLE replica

Init == replica = [n \in Node |-> IF n = Origin THEN Initial ELSE Empty]

\* A replica takes in more, and what it has then is valid.
Grow(n) ==
    /\ Leq(replica[n], replica'[n])
    /\ Valid(replica'[n])
    /\ replica' = [replica EXCEPT ![n] = replica'[n]]

Next == \E n \in Node : Grow(n)

Spec == Init /\ [][Next]_replica
===============================================================================
