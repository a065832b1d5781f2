----------------------------- MODULE RepoReplicas -----------------------------
(***************************************************************************)
(* Hosts that keep replicas of one repo contract, and the helpers          *)
(* (git-remote-freenet) of the repo's owner that push to it.  A helper     *)
(* reads the replica of the node it is connected to, signs a delta from    *)
(* what it read, and submits it later; in between anything may happen.     *)
(* Hosts exchange summaries, deltas and full states over a network that    *)
(* loses, delays, repeats and reorders messages.                           *)
(***************************************************************************)
EXTENDS GitPush

CONSTANTS Node,           \* Freenet nodes
          Origin,         \* the node `freenet-git create` published through
          Helper,         \* helper processes holding the owner's repo key
          Home,           \* Home[h]: the node helper h talks to
          Clone,          \* Clone[h]: the commits in h's local repository
          Impatient,      \* helpers that may give up on the answer to an UPDATE
          MaxInFlight     \* bound on messages in flight

ASSUME ReplicasAssumption ==
    /\ Origin \in Node
    /\ Home \in [Helper -> Node]
    /\ Clone \in [Helper -> SUBSET Commit]
    /\ \A h \in Helper : WholeClone(Clone[h])
    /\ Impatient \subseteq Helper
    /\ MaxInFlight \in Nat

VARIABLES replica,  \* replica[n]: the contract state node n holds; EmptyState: none
          push,     \* push[h]: the signed delta h is about to submit, or None
          net       \* messages in flight

vars == <<replica, push, net>>

Summary == [seqs : [Key -> Seq0 \cup {None}], ids : SUBSET Bundle]

Message == [kind : {"delta", "state"}, from : Node, to : Node, body : State]
             \cup [kind : {"summary"}, from : Node, to : Node, body : Summary]

Hosting(n) == replica[n].owner # NoOwner

\* At most one message of a kind per ordered pair of nodes, MaxInFlight in all.
Room(kind, from, to) ==
    /\ Cardinality(net) < MaxInFlight
    /\ \A m \in net : <<m.kind, m.from, m.to>> # <<kind, from, to>>

Send(kind, from, to, body) ==
    /\ Room(kind, from, to)
    /\ net' = net \cup {[kind |-> kind, from |-> from, to |-> to, body |-> body]}

Init ==
    /\ replica = [n \in Node |-> IF n = Origin THEN InitialState ELSE EmptyState]
    /\ push = [h \in Helper |-> None]
    /\ net = {}

-------------------------------------------------------------------------------
(***************************************************************************)
(* Helpers.                                                                *)
(***************************************************************************)

\* Read the state, build the packs and sign the delta.
HandlePush(h) ==
    LET s == replica[Home[h]]
    IN  /\ push[h] = None
        /\ Hosting(Home[h])
        /\ \E specs \in Specs(Clone[h]), force \in SUBSET RefName,
              last \in RefName, mode \in Modes :
             LET rs == Pushed(Clone[h], s, specs, force)
                 d  == PushDelta(Clone[h], s, specs, rs, last, mode)
             IN  Submittable(s, d) /\ push' = [push EXCEPT ![h] = d]
        /\ UNCHANGED <<replica, net>>

\* The home node applies the update, relays it to some peers, and answers.
SubmitUpdate(h) ==
    /\ push[h] # None
    /\ replica' = [replica EXCEPT ![Home[h]] = UpdateState(@, push[h])]
    /\ push' = [push EXCEPT ![h] = None]
    /\ \E peers \in SUBSET (Node \ {Home[h]}) :
         /\ Cardinality(net) + Cardinality(peers) <= MaxInFlight
         /\ \A n \in peers : Room("delta", Home[h], n)
         /\ net' = net \cup {[kind |-> "delta", from |-> Home[h], to |-> n,
                              body |-> push[h]] : n \in peers}

\* The helper gives up on the answer; its update is still on its way.
TimeoutPush(h) ==
    /\ h \in Impatient
    /\ push[h] # None
    /\ Send("delta", Home[h], Home[h], push[h])
    /\ push' = [push EXCEPT ![h] = None]
    /\ UNCHANGED replica

\* The helper stops before its update leaves it.
AbortPush(h) ==
    /\ push[h] # None
    /\ push' = [push EXCEPT ![h] = None]
    /\ UNCHANGED <<replica, net>>

-------------------------------------------------------------------------------
(***************************************************************************)
(* What hosts do with each other.                                          *)
(***************************************************************************)
RequestSync(m, n) ==
    /\ m # n /\ Hosting(m)
    /\ Send("summary", m, n, SummarizeState(replica[m]))
    /\ UNCHANGED <<replica, push>>

\* n answers m's summary; an empty delta means "you are caught up".
AnswerSync(n, m) ==
    \E q \in net :
      /\ q.kind = "summary" /\ q.from = m /\ q.to = n
      /\ LET d == GetStateDelta(replica[n], q.body)
         IN  IF IsEmptyDelta(d)
             THEN net' = net \ {q}
             ELSE /\ \A x \in net : <<x.kind, x.from, x.to>> # <<"delta", n, m>>
                  /\ net' = (net \ {q}) \cup
                       {[kind |-> "delta", from |-> n, to |-> m, body |-> d]}
      /\ UNCHANGED <<replica, push>>

\* A GET or PUT carries the whole state to another node.
SendState(n, m) ==
    /\ m # n /\ Hosting(n)
    /\ Send("state", n, m, replica[n])
    /\ UNCHANGED <<replica, push>>

\* A contributor without the owner's key publishes a ref update.
SubmitForeign(m) ==
    /\ \E r \in RefName, c \in Commit, by \in Signer \ {Owner}, n \in Node :
         Send("delta", m, n,
              [EmptyState EXCEPT
                 !.entry[RefKey(r)] = [value |-> c, seq |-> MaxSeq, by |-> by]])
    /\ UNCHANGED <<replica, push>>

\* A node that holds nothing stores a full state if it validates.
Received(n, q) ==
    IF q.kind = "state" /\ ~Hosting(n)
    THEN IF ValidateState(q.body) THEN q.body ELSE replica[n]
    ELSE UpdateState(replica[n], q.body)

\* The update reaches its node; the network may repeat it later.
Deliver(n, m) ==
    \E q \in net :
      /\ q.kind \in {"delta", "state"} /\ q.from = n /\ q.to = m
      /\ replica' = [replica EXCEPT ![m] = Received(m, q)]
      /\ net' \in {net, net \ {q}}
      /\ UNCHANGED push

\* Two updates reach the contract in one call.
DeliverBatch(m) ==
    \E p, q \in net :
      /\ p # q
      /\ {p.kind, q.kind} \subseteq {"delta", "state"} /\ p.to = m /\ q.to = m
      /\ Hosting(m)
      /\ replica' = [replica EXCEPT ![m] = UpdateBatch(@, p.body, q.body)]
      /\ net' = net \ {p, q}
      /\ UNCHANGED push

Lose ==
    /\ \E q \in net : net' = net \ {q}
    /\ UNCHANGED <<replica, push>>

Next ==
    \/ \E h \in Helper : \/ HandlePush(h) \/ SubmitUpdate(h)
                         \/ TimeoutPush(h) \/ AbortPush(h)
    \/ \E n, m \in Node : \/ RequestSync(m, n) \/ AnswerSync(n, m)
                          \/ SendState(n, m) \/ Deliver(n, m)
    \/ \E m \in Node : SubmitForeign(m) \/ DeliverBatch(m)
    \/ Lose

Spec == Init /\ [][Next]_vars

(***************************************************************************)
(* Peers keep asking for deltas, a node without the repo keeps asking for  *)
(* its state, and a message that is sent again and again gets through.     *)
(* Nothing is assumed of helpers, nor of full states between hosts.        *)
(***************************************************************************)
Consume(n, m, kind) ==
    /\ Deliver(n, m)
    /\ \E q \in net : q.kind = kind /\ q.from = n /\ q.to = m /\ q \notin net'

SyncFairness ==
    /\ \A n, m \in Node : SF_vars(Consume(n, m, "delta"))
    /\ \A n \in Node : \A m \in Node \ {n} :
         /\ SF_vars(RequestSync(m, n))
         /\ SF_vars(AnswerSync(n, m))
         /\ SF_vars(Consume(n, m, "state"))
    /\ \A m \in Node \ {Origin} : SF_vars(SendState(Origin, m) /\ ~Hosting(m))

FairSpec == Spec /\ SyncFairness

-------------------------------------------------------------------------------
TypeOK ==
    /\ replica \in [Node -> State]
    /\ push \in [Helper -> State \cup {None}]
    /\ net \subseteq Message

(***************************************************************************)
(* A replica is empty or valid: whatever updates arrive, alone or batched, *)
(* in whatever order, nothing signed by another key enters it.             *)
(***************************************************************************)
ReplicasValid ==
    \A n \in Node : replica[n] = EmptyState \/ ValidateState(replica[n])

(***************************************************************************)
(* On every replica, the bundles with a tip extension are the bundles with *)
(* a record, although summaries list the two separately and deltas are     *)
(* applied late, twice or out of order.  handle_fetch expects a record     *)
(* for every tip, and downloads a bundle without a tip as dead weight.     *)
(***************************************************************************)
TipsMatchRecords ==
    \A n \in Node, b \in Bundle :
        replica[n].entry[TipKey(b)] # None <=> replica[n].objects[b] # None

(***************************************************************************)
(* No pushed history is lost: whatever a ref of any replica points at, the *)
(* bundles known to some replica contain its whole history.  A push packs  *)
(* only what its base lacks, and the update that carried the base's packs  *)
(* may have reached other replicas in another order.                       *)
(***************************************************************************)
Known == UNION {Bundles(replica[n]) : n \in Node}

HistoryCovered ==
    \A n \in Node, r \in RefName :
        Target(replica[n], r) # None => Covers(Known, Target(replica[n], r))

\* A step takes nothing from a replica.
Advance ==
    \A n \in Node : /\ StateLeq(replica[n], replica'[n])
                    /\ Hosting(n) => replica'[n].owner = replica[n].owner

(***************************************************************************)
(* Replicas implement the specification of a contract that grows: whatever *)
(* arrives late, twice, batched or forged, a step changes one replica at   *)
(* most, leaves it valid, and replaces no entry by one that loses to it    *)
(* and forgets no bundle (merge_state: "never overwrites with strictly-    *)
(* older info").                                                           *)
(***************************************************************************)
Growing == INSTANCE GrowingReplicas WITH
    Valid <- ValidateState, Leq <- StateLeq, Empty <- EmptyState, Initial <- InitialState

ImplementsGrowing == Growing!Spec

(***************************************************************************)
(* A ref that moves moves to a greater update_seq (update_state: the rule  *)
(* "is already enforced by pick_ref_entry").                               *)
(***************************************************************************)
RefMovesRaiseSeq ==
    [][\A n \in Node, r \in RefName :
          /\ Target(replica[n], r) # None
          /\ Target(replica[n], r) # Target(replica'[n], r)
          => SeqAt(replica'[n], RefKey(r)) > SeqAt(replica[n], RefKey(r))]_vars

(***************************************************************************)
(* When the helper prints "ok <dst>", the node it pushed through has moved *)
(* every ref of the push to the pushed target (update_state in wsclient.rs *)
(* returns once "the update was applied").                                 *)
(***************************************************************************)
OkMeansMoved ==
    [][\A h \in Helper : SubmitUpdate(h) =>
          \A r \in RefName : push[h].entry[RefKey(r)] # None =>
             Target(replica'[Home[h]], r) = Target(push[h], r)]_vars

(***************************************************************************)
(* Hosts that exchange summaries and deltas end up with equal summaries,   *)
(* although a summary is answered from a later state than it was taken     *)
(* from: nobody is left wanting a delta that never comes.                  *)
(***************************************************************************)
SummariesConverge ==
    <>[](\A n, m \in Node : SummarizeState(replica[n]) = SummarizeState(replica[m]))

(***************************************************************************)
(* Hosts that exchange summaries and deltas end up with the same state     *)
(* (get_state_delta: "the delta a peer needs"; the convergence test of     *)
(* sign_validate_round_trip.rs).                                           *)
(***************************************************************************)
Convergence == <>[](\A n, m \in Node : replica[n] = replica[m])

(***************************************************************************)
(* Every host ends up, for good, with the bundles that hold the whole      *)
(* history of every ref it advertises, even where racing pushes left hosts *)
(* with different refs.                                                    *)
(***************************************************************************)
Servable(n) ==
    /\ Hosting(n)
    /\ \A r \in RefName : Target(replica[n], r) # None =>
                              Covers(Bundles(replica[n]), Target(replica[n], r))

EventuallyServable == <>[](\A n \in Node : Servable(n))
===============================================================================
