--------------------------- MODULE RepoReplicasProofs -------------------------
(***************************************************************************)
(* The replicas of a repo contract, for any nodes, helpers, refs, commits  *)
(* and bounds: types, validity and monotonicity.                           *)
(***************************************************************************)
EXTENDS RepoReplicas, RepoStateProofs

UpdateMessage == [kind : {"delta", "state"}, from : Node, to : Node, body : State]

\* The two kinds of messages by their kind field.
LEMMA MessageKinds ==
    ASSUME NEW q \in Message
    PROVE  /\ q.from \in Node /\ q.to \in Node
           /\ q.kind \in {"delta", "state", "summary"}
           /\ q.kind \in {"delta", "state"} <=> q \in UpdateMessage
           /\ q.kind \in {"delta", "state"} => q.body \in State
           /\ q.kind = "summary" => q.body \in Summary
BY DEF Message, UpdateMessage

\* summarize_state makes a summary.
LEMMA SummaryType ==
    ASSUME NEW s \in State
    PROVE  SummarizeState(s) \in Summary
BY StateFields, EntryFields DEF SummarizeState, Summary, Bundles, Seq0

\* get_state_delta makes a (partial) state.
LEMMA DeltaType ==
    ASSUME NEW s \in State, NEW y \in Summary
    PROVE  GetStateDelta(s, y) \in State
BY StateFields DEF GetStateDelta, State, MaybeEntry

\* A new repo has the right types.
LEMMA TypeInit == Init => TypeOK
BY InitialTypes DEF Init, TypeOK

\* A node that does not host the repo holds the empty state.
LEMMA HostingFacts ==
    ASSUME ReplicasValid, NEW n \in Node
    PROVE  /\ ~Hosting(n) => replica[n] = EmptyState
           /\ Hosting(n) => ValidateState(replica[n]) /\ replica[n].owner = Owner
BY RepoStateAssumption DEF ReplicasValid, Hosting, ValidateState, EmptyState

\* What a node makes of a received update.
LEMMA ReceivedFacts ==
    ASSUME TypeOK, ReplicasValid, NEW n \in Node, NEW q \in UpdateMessage
    PROVE  /\ Received(n, q) \in State
           /\ StateLeq(replica[n], Received(n, q))
           /\ Hosting(n) => Received(n, q).owner = replica[n].owner
           /\ Received(n, q) = replica[n] \/ ValidateState(Received(n, q))
           /\ \/ Received(n, q) = replica[n]
              \/ Hosting(n) /\ Received(n, q) = MergeState(replica[n], q.body)
              \/ q.kind = "state" /\ ~Hosting(n) /\ Received(n, q) = q.body
<1>1. replica[n] \in State /\ q.body \in State
  BY DEF TypeOK, UpdateMessage
<1>2. CASE q.kind = "state" /\ ~Hosting(n)
  <2>1. StateLeq(replica[n], q.body)
    BY <1>2, HostingFacts DEF StateLeq, EntryLeq, EmptyState, Bundles
  <2>. QED  BY <1>1, <1>2, <2>1, StateOrder DEF Received
<1>3. CASE q.kind # "state" /\ ~Hosting(n)
  <2>1. MergeState(replica[n], q.body).owner = NoOwner
    BY <1>3, HostingFacts, MergeAt DEF EmptyState
  <2>2. Received(n, q) = replica[n]
    BY <1>3, <2>1, RepoStateAssumption
       DEF Received, UpdateState, UpdateAccepted, ValidateState
  <2>. QED  BY <1>1, <2>2, StateOrder
<1>4. CASE Hosting(n)
  <2>1. Received(n, q) = UpdateState(replica[n], q.body)
    BY <1>4 DEF Received
  <2>. QED  BY <1>1, <1>4, <2>1, UpdateFacts
<1>. QED  BY <1>2, <1>3, <1>4

(***************************************************************************)
(* Every step keeps the types and the validity of every replica.           *)
(***************************************************************************)
TypeAndValid == TypeOK /\ ReplicasValid

\* Steps that leave the replicas alone need only keep the types.
LEMMA ValidUnchanged ==
    ASSUME ReplicasValid, UNCHANGED replica
    PROVE  ReplicasValid'
BY DEF ReplicasValid

\* A sent message is a message.
LEMMA SendType ==
    ASSUME TypeOK, NEW kind, NEW from \in Node, NEW to \in Node, NEW body,
           \/ kind \in {"delta", "state"} /\ body \in State
           \/ kind = "summary" /\ body \in Summary,
           Send(kind, from, to, body)
    PROVE  net' \subseteq Message
BY DEF Send, TypeOK, Message

\* One replica at a time changes, to a state that is valid or as before.
LEMMA ReplicaStep ==
    ASSUME TypeAndValid, NEW n \in Node, NEW s \in State,
           s = replica[n] \/ ValidateState(s),
           replica' = [replica EXCEPT ![n] = s]
    PROVE  replica' \in [Node -> State] /\ ReplicasValid'
BY DEF TypeAndValid, TypeOK, ReplicasValid

\* Every step keeps the types and the validity of the replicas.
LEMMA TypeAndValidStep == TypeAndValid /\ [Next]_vars => TypeAndValid'
<1>. SUFFICES ASSUME TypeAndValid, [Next]_vars PROVE TypeAndValid'
  OBVIOUS
<1>. USE DEF TypeAndValid
<1>1. ASSUME NEW h \in Helper, HandlePush(h) PROVE TypeAndValid'
  <2>1. replica[Home[h]] \in State
    BY ReplicasAssumption DEF TypeOK
  <2>. DEFINE s == replica[Home[h]]
  <2>2. PICK specs \in Specs(Clone[h]), force \in SUBSET RefName,
            last \in RefName, mode \in Modes :
          LET rs == Pushed(Clone[h], s, specs, force)
              d  == PushDelta(Clone[h], s, specs, rs, last, mode)
          IN  Submittable(s, d) /\ push' = [push EXCEPT ![h] = d]
    BY <1>1, Zenon DEF HandlePush
  <2>3. PushDelta(Clone[h], s, specs, Pushed(Clone[h], s, specs, force), last, mode) \in State
    BY <2>1, <2>2, PushDeltaType, ReplicasAssumption
  <2>4. push' \in [Helper -> State \cup {None}]
    BY <2>2, <2>3 DEF TypeOK
  <2>. QED  BY <1>1, <2>4, ValidUnchanged DEF HandlePush, TypeOK
<1>2. ASSUME NEW h \in Helper, SubmitUpdate(h) PROVE TypeAndValid'
  <2>1. Home[h] \in Node /\ replica[Home[h]] \in State /\ push[h] \in State
    BY <1>2, ReplicasAssumption DEF TypeOK, SubmitUpdate
  <2>2. replica' \in [Node -> State] /\ ReplicasValid'
    BY <1>2, <2>1, UpdateFacts, ReplicaStep DEF SubmitUpdate
  <2>3. net' \subseteq Message
    BY <1>2, <2>1 DEF SubmitUpdate, TypeOK, Message
  <2>4. push' \in [Helper -> State \cup {None}]
    BY <1>2 DEF SubmitUpdate, TypeOK
  <2>. QED  BY <2>2, <2>3, <2>4 DEF TypeOK
<1>3. ASSUME NEW h \in Helper, TimeoutPush(h) PROVE TypeAndValid'
  <2>1. Home[h] \in Node /\ push[h] \in State
    BY <1>3, ReplicasAssumption DEF TypeOK, TimeoutPush
  <2>2. net' \subseteq Message
    BY <1>3, <2>1, SendType DEF TimeoutPush
  <2>. QED  BY <1>3, <2>2, ValidUnchanged DEF TimeoutPush, TypeOK
<1>4. ASSUME NEW h \in Helper, AbortPush(h) PROVE TypeAndValid'
  BY <1>4, ValidUnchanged DEF AbortPush, TypeOK
<1>5. ASSUME NEW n \in Node, NEW m \in Node, RequestSync(m, n) PROVE TypeAndValid'
  <2>1. SummarizeState(replica[m]) \in Summary
    BY SummaryType DEF TypeOK
  <2>2. net' \subseteq Message
    BY <1>5, <2>1, SendType DEF RequestSync
  <2>. QED  BY <1>5, <2>2, ValidUnchanged DEF RequestSync, TypeOK
<1>6. ASSUME NEW n \in Node, NEW m \in Node, AnswerSync(n, m) PROVE TypeAndValid'
  <2>1. PICK q \in net :
          /\ q.kind = "summary"
          /\ LET d == GetStateDelta(replica[n], q.body)
             IN  \/ net' = net \ {q}
                 \/ net' = (net \ {q}) \cup
                       {[kind |-> "delta", from |-> n, to |-> m, body |-> d]}
    BY <1>6 DEF AnswerSync
  <2>2. GetStateDelta(replica[n], q.body) \in State
    BY <2>1, MessageKinds, DeltaType DEF TypeOK
  <2>3. net' \subseteq Message
    BY <2>1, <2>2 DEF TypeOK, Message
  <2>. QED  BY <1>6, <2>3, ValidUnchanged DEF AnswerSync, TypeOK
<1>7. ASSUME NEW n \in Node, NEW m \in Node, SendState(n, m) PROVE TypeAndValid'
  <2>1. net' \subseteq Message
    BY <1>7, SendType DEF SendState, TypeOK
  <2>. QED  BY <1>7, <2>1, ValidUnchanged DEF SendState, TypeOK
<1>8. ASSUME NEW n \in Node, NEW m \in Node, Deliver(n, m) PROVE TypeAndValid'
  <2>1. PICK q \in net :
          /\ q.kind \in {"delta", "state"}
          /\ replica' = [replica EXCEPT ![m] = Received(m, q)]
          /\ net' \in {net, net \ {q}}
    BY <1>8 DEF Deliver
  <2>2. q \in UpdateMessage
    BY <2>1, MessageKinds DEF TypeOK
  <2>3. replica' \in [Node -> State] /\ ReplicasValid'
    BY <2>1, <2>2, ReceivedFacts, ReplicaStep
  <2>4. net' \subseteq Message
    BY <2>1 DEF TypeOK
  <2>. QED  BY <1>8, <2>3, <2>4 DEF Deliver, TypeOK
<1>9. ASSUME NEW m \in Node, SubmitForeign(m) PROVE TypeAndValid'
  <2>1. PICK r \in RefName, c \in Commit, by \in Signer \ {Owner}, n \in Node :
          Send("delta", m, n,
              [EmptyState EXCEPT
                 !.entry[RefKey(r)] = [value |-> c, seq |-> MaxSeq, by |-> by]])
    BY <1>9 DEF SubmitForeign
  <2>2. [value |-> c, seq |-> MaxSeq, by |-> by] \in Entry
    BY RepoStateAssumption DEF Entry, Value, Seq0
  <2>3. [EmptyState EXCEPT
           !.entry[RefKey(r)] = [value |-> c, seq |-> MaxSeq, by |-> by]] \in State
    BY <2>2, InitialTypes, KeyParts DEF State
  <2>4. net' \subseteq Message
    BY <2>1, <2>3, SendType
  <2>. QED  BY <1>9, <2>4, ValidUnchanged DEF SubmitForeign, TypeOK
<1>10. ASSUME NEW m \in Node, DeliverBatch(m) PROVE TypeAndValid'
  <2>1. PICK p \in net, q \in net :
          /\ {p.kind, q.kind} \subseteq {"delta", "state"}
          /\ replica' = [replica EXCEPT ![m] = UpdateBatch(@, p.body, q.body)]
          /\ net' = net \ {p, q}
    BY <1>10 DEF DeliverBatch
  <2>2. replica[m] \in State /\ p.body \in State /\ q.body \in State
    BY <2>1, MessageKinds DEF TypeOK
  <2>3. replica' \in [Node -> State] /\ ReplicasValid'
    BY <2>1, <2>2, BatchFacts, ReplicaStep
  <2>4. net' \subseteq Message
    BY <2>1 DEF TypeOK
  <2>. QED  BY <1>10, <2>3, <2>4 DEF DeliverBatch, TypeOK
<1>11. CASE Lose
  BY <1>11, ValidUnchanged DEF Lose, TypeOK
<1>12. CASE UNCHANGED vars
  BY <1>12, ValidUnchanged DEF vars, TypeOK
<1>. QED
  BY <1>1, <1>2, <1>3, <1>4, <1>5, <1>6, <1>7, <1>8, <1>9, <1>10, <1>11, <1>12 DEF Next

\* A new repo is valid where it is hosted.
LEMMA TypeAndValidInit == Init => TypeAndValid
<1>1. ValidateState(InitialState)
  BY KeyParts, RepoStateAssumption DEF ValidateState, InitialState, EmptyState, Key
<1>. QED  BY <1>1, TypeInit DEF Init, TypeAndValid, ReplicasValid

(***************************************************************************)
(* Replicas, pending deltas and messages are always well formed.           *)
(***************************************************************************)
THEOREM TypeCorrect == Spec => []TypeOK
<1>1. TypeAndValid => TypeOK
  BY DEF TypeAndValid
<1>. QED  BY <1>1, TypeAndValidInit, TypeAndValidStep, PTL DEF Spec

(***************************************************************************)
(* Every replica is always empty or valid: validate_state run on the merge *)
(* keeps out everything the owner did not sign, one update or two at once, *)
(* and the state a node stores first is validated too.                     *)
(***************************************************************************)
THEOREM ReplicasStayValid == Spec => []ReplicasValid
<1>1. TypeAndValid => ReplicasValid
  BY DEF TypeAndValid
<1>. QED  BY <1>1, TypeAndValidInit, TypeAndValidStep, PTL DEF Spec

-------------------------------------------------------------------------------
(***************************************************************************)
(* Replicas only climb.                                                    *)
(***************************************************************************)

\* Every replica that is left alone is at least as high as it was.
LEMMA AdvanceUnchanged ==
    ASSUME TypeOK, UNCHANGED replica
    PROVE  Advance
<1>1. \A n \in Node : replica[n] \in State
  BY DEF TypeOK
<1>. QED  BY <1>1, StateOrder DEF Advance

\* One replica climbs, the others are left alone.
LEMMA AdvanceOne ==
    ASSUME TypeOK, NEW n \in Node, NEW s \in State,
           StateLeq(replica[n], s),
           Hosting(n) => s.owner = replica[n].owner,
           replica' = [replica EXCEPT ![n] = s]
    PROVE  Advance
<1>. SUFFICES ASSUME NEW x \in Node
              PROVE  /\ StateLeq(replica[x], replica'[x])
                     /\ Hosting(x) => replica'[x].owner = replica[x].owner
  BY DEF Advance
<1>1. replica[x] \in State /\ replica'[x] = IF x = n THEN s ELSE replica[x]
  BY DEF TypeOK
<1>. QED  BY <1>1, StateOrder

\* No step takes a replica back.
LEMMA AdvanceStep == TypeAndValid /\ [Next]_vars => Advance
<1>. SUFFICES ASSUME TypeOK, ReplicasValid, [Next]_vars PROVE Advance
  BY DEF TypeAndValid
<1>1. ASSUME NEW h \in Helper, SubmitUpdate(h) PROVE Advance
  <2>1. Home[h] \in Node /\ replica[Home[h]] \in State /\ push[h] \in State
    BY <1>1, ReplicasAssumption DEF TypeOK, SubmitUpdate
  <2>. QED  BY <1>1, <2>1, UpdateFacts, AdvanceOne DEF SubmitUpdate
<1>2. ASSUME NEW n \in Node, NEW m \in Node, Deliver(n, m) PROVE Advance
  <2>1. PICK q \in net : /\ q.kind \in {"delta", "state"}
                         /\ replica' = [replica EXCEPT ![m] = Received(m, q)]
    BY <1>2 DEF Deliver
  <2>2. q \in UpdateMessage
    BY <2>1, MessageKinds DEF TypeOK
  <2>. QED  BY <2>1, <2>2, ReceivedFacts, AdvanceOne
<1>3. ASSUME NEW m \in Node, DeliverBatch(m) PROVE Advance
  <2>1. PICK p \in net, q \in net :
          /\ {p.kind, q.kind} \subseteq {"delta", "state"}
          /\ replica' = [replica EXCEPT ![m] = UpdateBatch(@, p.body, q.body)]
    BY <1>3 DEF DeliverBatch
  <2>2. replica[m] \in State /\ p.body \in State /\ q.body \in State
    BY <2>1, MessageKinds DEF TypeOK
  <2>. QED  BY <2>1, <2>2, BatchFacts, AdvanceOne
<1>4. CASE UNCHANGED replica
  BY <1>4, AdvanceUnchanged
<1>. QED
  BY <1>1, <1>2, <1>3, <1>4
     DEF Next, vars, HandlePush, TimeoutPush, AbortPush, RequestSync, AnswerSync,
         SendState, SubmitForeign, Lose

\* A step that changes a replica changes one only.
LEMMA OneReplica ==
    ASSUME TypeOK, [Next]_vars
    PROVE  \/ UNCHANGED replica
           \/ \E n \in Node : replica' = [replica EXCEPT ![n] = replica'[n]]
<1>1. ASSUME NEW n \in Node, NEW s, replica' = [replica EXCEPT ![n] = s]
      PROVE  replica' = [replica EXCEPT ![n] = replica'[n]]
  BY <1>1 DEF TypeOK
<1>2. ASSUME NEW h \in Helper, SubmitUpdate(h)
      PROVE  \E n \in Node : replica' = [replica EXCEPT ![n] = replica'[n]]
  <2>1. Home[h] \in Node
    BY ReplicasAssumption
  <2>2. replica' = [replica EXCEPT ![Home[h]] = UpdateState(replica[Home[h]], push[h])]
    BY <1>2 DEF SubmitUpdate
  <2>. QED  BY <1>1, <2>1, <2>2
<1>3. ASSUME NEW n \in Node, NEW m \in Node, Deliver(n, m)
      PROVE  \E x \in Node : replica' = [replica EXCEPT ![x] = replica'[x]]
  BY <1>1, <1>3 DEF Deliver
<1>4. ASSUME NEW m \in Node, DeliverBatch(m)
      PROVE  \E x \in Node : replica' = [replica EXCEPT ![x] = replica'[x]]
  <2>1. PICK p \in net, q \in net :
          replica' = [replica EXCEPT ![m] = UpdateBatch(replica[m], p.body, q.body)]
    BY <1>4 DEF DeliverBatch
  <2>. QED  BY <1>1, <2>1
<1>. QED
  BY <1>2, <1>3, <1>4
     DEF Next, vars, HandlePush, TimeoutPush, AbortPush, RequestSync, AnswerSync,
         SendState, SubmitForeign, Lose

\* A replica that changes is valid afterwards: nothing empties one.
LEMMA ChangedIsValid ==
    ASSUME TypeAndValid, TypeAndValid', Advance, NEW n \in Node,
           replica'[n] # replica[n]
    PROVE  ValidateState(replica'[n])
<1>1. replica'[n] = EmptyState \/ ValidateState(replica'[n])
  BY DEF TypeAndValid, ReplicasValid
<1>2. replica[n] = EmptyState \/ ValidateState(replica[n])
  BY DEF TypeAndValid, ReplicasValid
<1>3. CASE replica'[n] = EmptyState
  <2>1. ValidateState(replica[n])
    BY <1>2, <1>3
  <2>2. Hosting(n)
    BY <2>1, RepoStateAssumption DEF ValidateState, Hosting
  <2>3. replica'[n].owner = replica[n].owner
    BY <2>2 DEF Advance
  <2>. QED  BY <1>3, <2>1, <2>3, RepoStateAssumption DEF EmptyState, ValidateState
<1>. QED  BY <1>1, <1>3

LEMMA GrowStep ==
    TypeAndValid /\ TypeAndValid' /\ [Next]_vars => [Growing!Next]_replica
<1>. SUFFICES ASSUME TypeAndValid, TypeAndValid', [Next]_vars, replica' # replica
              PROVE  Growing!Next
  OBVIOUS
<1>1. Advance /\ TypeOK
  BY AdvanceStep DEF TypeAndValid
<1>2. PICK n \in Node : replica' = [replica EXCEPT ![n] = replica'[n]]
  BY <1>1, OneReplica
<1>3. replica'[n] # replica[n]
  BY <1>1, <1>2 DEF TypeOK
<1>4. ValidateState(replica'[n]) /\ StateLeq(replica[n], replica'[n])
  BY <1>1, <1>3, ChangedIsValid DEF Advance
<1>. QED  BY <1>2, <1>4 DEF Growing!Next, Growing!Grow

(***************************************************************************)
(* Replicas implement a contract that only grows: in any order of any      *)
(* updates, and with any of them forged, a step changes one replica at     *)
(* most and leaves it valid and greater in the order of the merge.         *)
(***************************************************************************)
THEOREM ReplicasGrow == Spec => ImplementsGrowing
<1>1. Init => Growing!Init
  BY DEF Init, Growing!Init
<1>. QED
  BY <1>1, TypeAndValidInit, TypeAndValidStep, GrowStep, PTL
     DEF Spec, Growing!Spec, ImplementsGrowing

-------------------------------------------------------------------------------
(***************************************************************************)
(* One writer.  A repo with a single helper that waits for its answers has *)
(* one version of a ref per update_seq, the newest at the helper's node.   *)
(* That is what an update_seq is for, and what racing helpers, or one that *)
(* gives up on an UPDATE that still arrives, lose.                         *)
(***************************************************************************)
\* The entries for k at hosts and in flight, and those of them the owner signed.
Around(k) ==
    {replica[n].entry[k] : n \in Node}
      \cup {q.body.entry[k] : q \in {p \in net : p.kind \in {"delta", "state"}}}

Owned(k) == {x \in Around(k) : x # None /\ x.by = Owner}

OneVersion == \A r \in RefName : \A x, y \in Owned(RefKey(r)) : x.seq = y.seq => x = y

HomeAhead(h) ==
    \A r \in RefName : \A x \in Owned(RefKey(r)) :
        x.seq <= SeqAt(replica[Home[h]], RefKey(r))

\* What the helper is about to submit is its own and newer than what its node has.
OwnerSigned(d) ==
    /\ \A k \in Key : d.entry[k] # None => d.entry[k].by = Owner
    /\ \A b \in Bundle : d.objects[b] \in {None, Owner}

Signing(h) ==
    push[h] # None =>
        /\ Hosting(Home[h]) /\ OwnerSigned(push[h])
        /\ \A r \in RefName : push[h].entry[RefKey(r)] # None =>
              push[h].entry[RefKey(r)].seq > SeqAt(replica[Home[h]], RefKey(r))

WriterInv(h) == TypeAndValid /\ OneVersion /\ HomeAhead(h) /\ Signing(h)

\* What is around is an entry or none.
LEMMA AroundTypes ==
    ASSUME TypeOK, NEW k \in Key
    PROVE  /\ Around(k) \subseteq MaybeEntry
           /\ \A x \in Owned(k) : x.seq \in Int
           /\ \A n \in Node : replica[n].entry[k] \in Around(k)
<1>1. \A n \in Node : replica[n].entry[k] \in MaybeEntry
  BY StateFields DEF TypeOK
<1>2. \A q \in net : q.kind \in {"delta", "state"} => q.body.entry[k] \in MaybeEntry
  BY StateFields, MessageKinds DEF TypeOK
<1>3. Around(k) \subseteq MaybeEntry
  BY <1>1, <1>2 DEF Around
<1>. QED  BY <1>3, EntryFields DEF Owned, Around

\* Merges and updates make up no entries.
LEMMA NoNewEntries ==
    ASSUME NEW s \in State, NEW d \in State, NEW e \in State, NEW k \in Key
    PROVE  /\ UpdateState(s, d).entry[k] \in {s.entry[k], d.entry[k]}
           /\ UpdateBatch(s, d, e).entry[k] \in {s.entry[k], d.entry[k], e.entry[k]}
<1>1. MergeState(s, d) \in State
  BY MergeType
<1>2. MergeState(s, d).entry[k] \in {s.entry[k], d.entry[k]}
  BY MergeAt, StateFields, PickWins
<1>3. MergeState(MergeState(s, d), e).entry[k] \in {MergeState(s, d).entry[k], e.entry[k]}
  BY <1>1, MergeAt, StateFields, PickWins
<1>. QED  BY <1>2, <1>3 DEF UpdateState, UpdateBatch

\* What is around after a step that only passes on what was around, or forges.
LEMMA AroundFrom ==
    ASSUME NEW k, NEW news,
           \A n \in Node : replica'[n].entry[k] \in Around(k) \cup news,
           \A q \in net' : q.kind \in {"delta", "state"} =>
               \/ q.body.entry[k] \in Around(k) \cup news \cup {None}
               \/ q.body.entry[k].by # Owner
    PROVE  Owned(k)' \subseteq Owned(k) \cup {x \in news : x # None /\ x.by = Owner}
BY DEF Owned, Around

\* Only a helper brings new entries of the owner into the world.
LEMMA OnlyPushes ==
    ASSUME TypeAndValid, [Next]_vars, Impatient = {}, NEW r \in RefName
    PROVE  LET k == RefKey(r)
           IN  \/ Owned(k)' \subseteq Owned(k)
               \/ \E h \in Helper : SubmitUpdate(h) /\ Owned(k)' \subseteq
                     Owned(k) \cup {x \in {push[h].entry[k]} : x # None /\ x.by = Owner}
<1>. DEFINE k == RefKey(r)
<1>0. TypeOK /\ ReplicasValid /\ k \in Key
  BY KeyParts DEF TypeAndValid
<1>. HIDE DEF k
<1>1. /\ \A n \in Node : replica[n].entry[k] \in Around(k) /\ replica[n] \in State
      /\ \A q \in net : q.kind \in {"delta", "state"} =>
            q.body.entry[k] \in Around(k) /\ q.body \in State
  BY <1>0, MessageKinds DEF Around, TypeOK
<1>2. ASSUME UNCHANGED replica,
             \A q \in net' : q.kind \in {"delta", "state"} =>
                 \/ q \in net \/ q.body.entry[k] \in Around(k) \cup {None}
                 \/ q.body.entry[k].by # Owner
      PROVE  Owned(k)' \subseteq Owned(k)
  <2>1. \A n \in Node : replica'[n].entry[k] \in Around(k) \cup {}
    BY <1>1, <1>2
  <2>2. \A q \in net' : q.kind \in {"delta", "state"} =>
           \/ q.body.entry[k] \in Around(k) \cup {} \cup {None}
           \/ q.body.entry[k].by # Owner
    BY <1>1, <1>2
  <2>. QED  BY <2>1, <2>2, AroundFrom
<1>3. ASSUME NEW m \in Node, NEW s, replica' = [replica EXCEPT ![m] = s],
             s.entry[k] \in Around(k), net' \subseteq net
      PROVE  Owned(k)' \subseteq Owned(k)
  <2>1. \A n \in Node : replica'[n].entry[k] \in Around(k) \cup {}
    BY <1>0, <1>1, <1>3 DEF TypeOK
  <2>2. \A q \in net' : q.kind \in {"delta", "state"} =>
           \/ q.body.entry[k] \in Around(k) \cup {} \cup {None}
           \/ q.body.entry[k].by # Owner
    BY <1>1, <1>3
  <2>. QED  BY <2>1, <2>2, AroundFrom
<1>4. ASSUME NEW h \in Helper, SubmitUpdate(h)
      PROVE  Owned(k)' \subseteq Owned(k)
                \cup {x \in {push[h].entry[k]} : x # None /\ x.by = Owner}
  <2>1. Home[h] \in Node /\ push[h] \in State
    BY <1>0, <1>4, ReplicasAssumption DEF SubmitUpdate, TypeOK
  <2>2. UpdateState(replica[Home[h]], push[h]).entry[k]
          \in {replica[Home[h]].entry[k], push[h].entry[k]}
    BY <1>0, <1>1, <2>1, NoNewEntries
  <2>3. \A n \in Node : replica'[n].entry[k] \in Around(k) \cup {push[h].entry[k]}
    BY <1>0, <1>1, <1>4, <2>1, <2>2 DEF SubmitUpdate, TypeOK
  <2>4. \A q \in net' : q.kind \in {"delta", "state"} =>
           \/ q.body.entry[k] \in Around(k) \cup {push[h].entry[k]} \cup {None}
           \/ q.body.entry[k].by # Owner
    BY <1>1, <1>4 DEF SubmitUpdate
  <2>. QED  BY <2>3, <2>4, AroundFrom
<1>5. ASSUME NEW n \in Node, NEW m \in Node, RequestSync(m, n) PROVE Owned(k)' \subseteq Owned(k)
  BY <1>2, <1>5 DEF RequestSync, Send
<1>6. ASSUME NEW n \in Node, NEW m \in Node, AnswerSync(n, m) PROVE Owned(k)' \subseteq Owned(k)
  <2>1. PICK y : LET d == GetStateDelta(replica[n], y)
                 IN  \A q \in net' : \/ q \in net
                                     \/ q = [kind |-> "delta", from |-> n,
                                             to |-> m, body |-> d]
    BY <1>6, Zenon DEF AnswerSync
  <2>2. GetStateDelta(replica[n], y).entry[k] \in {None, replica[n].entry[k]}
    BY <1>0 DEF GetStateDelta
  <2>3. UNCHANGED replica
    BY <1>6 DEF AnswerSync
  <2>. QED  BY <1>1, <1>2, <2>1, <2>2, <2>3
<1>7. ASSUME NEW n \in Node, NEW m \in Node, SendState(n, m) PROVE Owned(k)' \subseteq Owned(k)
  BY <1>1, <1>2, <1>7 DEF SendState, Send
<1>8. ASSUME NEW n \in Node, NEW m \in Node, Deliver(n, m) PROVE Owned(k)' \subseteq Owned(k)
  <2>1. PICK q \in net :
          /\ q.kind \in {"delta", "state"}
          /\ replica' = [replica EXCEPT ![m] = Received(m, q)]
          /\ net' \in {net, net \ {q}}
    BY <1>8 DEF Deliver
  <2>2. q.body \in State /\ q.body.entry[k] \in Around(k)
    BY <1>1, <2>1
  <2>3. Received(m, q) \in {replica[m], q.body, UpdateState(replica[m], q.body)}
    BY DEF Received
  <2>4. UpdateState(replica[m], q.body).entry[k] \in {replica[m].entry[k], q.body.entry[k]}
    BY <1>0, <1>1, <2>2, NoNewEntries
  <2>. QED  BY <1>1, <1>3, <2>1, <2>2, <2>3, <2>4
<1>9. ASSUME NEW m \in Node, DeliverBatch(m) PROVE Owned(k)' \subseteq Owned(k)
  <2>1. PICK p \in net, q \in net :
          /\ {p.kind, q.kind} \subseteq {"delta", "state"}
          /\ replica' = [replica EXCEPT ![m] = UpdateBatch(replica[m], p.body, q.body)]
          /\ net' = net \ {p, q}
    BY <1>9 DEF DeliverBatch
  <2>2. UpdateBatch(replica[m], p.body, q.body).entry[k]
          \in {replica[m].entry[k], p.body.entry[k], q.body.entry[k]}
    BY <1>0, <1>1, <2>1, NoNewEntries
  <2>3. UpdateBatch(replica[m], p.body, q.body).entry[k] \in Around(k)
    BY <1>1, <2>1, <2>2
  <2>4. net' \subseteq net
    BY <2>1
  <2>. QED  BY <1>3, <2>1, <2>3, <2>4
<1>10. ASSUME NEW m \in Node, SubmitForeign(m) PROVE Owned(k)' \subseteq Owned(k)
  <2>1. PICK t \in RefName, c \in Commit, by \in Signer \ {Owner}, n \in Node :
          Send("delta", m, n,
              [EmptyState EXCEPT
                 !.entry[RefKey(t)] = [value |-> c, seq |-> MaxSeq, by |-> by]])
    BY <1>10 DEF SubmitForeign
  <2>. DEFINE e == [value |-> c, seq |-> MaxSeq, by |-> by]
              d == [EmptyState EXCEPT !.entry[RefKey(t)] = e]
  <2>2. d.entry[k] = IF k = RefKey(t) THEN e ELSE None
    BY <1>0, KeyParts DEF EmptyState
  <2>3. e.by # Owner
    OBVIOUS
  <2>4. \A q \in net' : q \in net \/ q.body = d
    BY <2>1 DEF Send
  <2>5. UNCHANGED replica
    BY <1>10 DEF SubmitForeign
  <2>. HIDE DEF d, e
  <2>. QED  BY <1>2, <2>2, <2>3, <2>4, <2>5
<1>11. ASSUME UNCHANGED replica, net' \subseteq net PROVE Owned(k)' \subseteq Owned(k)
  BY <1>2, <1>11
<1>. QED
  BY <1>4, <1>5, <1>6, <1>7, <1>8, <1>9, <1>10, <1>11
     DEF Next, vars, HandlePush, TimeoutPush, AbortPush, Lose, k
\* A helper signs for each ref it moves a greater seq than its node has.
LEMMA SigningNew ==
    ASSUME TypeAndValid, NEW h \in Helper, HandlePush(h)
    PROVE  Signing(h)'
<1>. DEFINE s == replica[Home[h]]
<1>1. s \in State /\ Hosting(Home[h]) /\ UNCHANGED replica /\ Clone[h] \in SUBSET Commit
  BY ReplicasAssumption DEF TypeAndValid, TypeOK, HandlePush
<1>2. PICK specs \in Specs(Clone[h]), force \in SUBSET RefName,
           last \in RefName, mode \in Modes :
        LET rs == Pushed(Clone[h], s, specs, force)
            d  == PushDelta(Clone[h], s, specs, rs, last, mode)
        IN  Submittable(s, d) /\ push' = [push EXCEPT ![h] = d]
  BY Zenon DEF HandlePush
<1>. DEFINE rs    == Pushed(Clone[h], s, specs, force)
            d     == PushDelta(Clone[h], s, specs, rs, last, mode)
            built == {PackFor(Clone[h], s, specs, r) : r \in rs}
<1>3. Signs(d, Clone[h], s, specs, rs, built, last, mode)
  BY <1>1, DeltaAt
<1>4. push'[h] = d
  BY <1>2 DEF TypeAndValid, TypeOK
<1>5. \A r \in rs : specs[r] \in Value
  BY <1>1, SpecTypes DEF Value
<1>. HIDE DEF s, d, rs, built
<1>6. OwnerSigned(d)
  BY <1>3 DEF Signs, OwnerSigned
<1>7. \A r \in RefName : d.entry[RefKey(r)] # None => d.entry[RefKey(r)].seq > SeqAt(s, RefKey(r))
  BY <1>1, <1>3, <1>5, SignedEntry, KeyParts DEF Signs
<1>8. \A r \in RefName : SeqAt(replica'[Home[h]], RefKey(r)) = SeqAt(s, RefKey(r))
  BY <1>1 DEF s
<1>. QED  BY <1>1, <1>4, <1>6, <1>7, <1>8 DEF Signing, Hosting

\* What the owner signed from a valid base goes in, and its refs move.
LEMMA SubmittedMoves ==
    ASSUME TypeAndValid, NEW h \in Helper, Signing(h), SubmitUpdate(h),
           NEW r \in RefName, push[h].entry[RefKey(r)] # None
    PROVE  replica'[Home[h]].entry[RefKey(r)] = push[h].entry[RefKey(r)]
<1>. DEFINE s == replica[Home[h]]
            d == push[h]
            k == RefKey(r)
<1>1. /\ Home[h] \in Node /\ s \in State /\ d \in State /\ k \in Key
      /\ ValidateState(s) /\ OwnerSigned(d) /\ d.entry[k].seq > SeqAt(s, k)
  BY HostingFacts, ReplicasAssumption, KeyParts
     DEF Signing, SubmitUpdate, TypeAndValid, TypeOK
<1>2. replica'[Home[h]] = UpdateState(s, d)
  BY <1>1 DEF SubmitUpdate, TypeAndValid, TypeOK
<1>. HIDE DEF s, d, k
<1>3. UpdateAccepted(s, d)
  <2>1. \A x \in Key : MergeState(s, d).entry[x] \in {s.entry[x], d.entry[x]}
    BY <1>1, MergeAt, StateFields, PickWins
  <2>2. \A b \in Bundle : MergeState(s, d).objects[b] \in {s.objects[b], d.objects[b]}
    BY MergeAt
  <2>3. MergeState(s, d).owner = Owner
    BY <1>1, MergeAt DEF ValidateState
  <2>. QED  BY <1>1, <2>1, <2>2, <2>3 DEF UpdateAccepted, ValidateState, OwnerSigned
<1>4. UpdateState(s, d).entry[k] = Pick(k, s.entry[k], d.entry[k])
  BY <1>1, <1>3, MergeAt DEF UpdateState
<1>5. s.entry[k] \in MaybeEntry /\ d.entry[k] \in MaybeEntry /\ d.entry[k] # None
  BY <1>1, StateFields DEF d, k
<1>. QED
  BY <1>1, <1>2, <1>4, <1>5, EntryFields DEF Pick, PickHigherSeq, SeqAt, d, k

\* What a node has for a ref was signed by the owner; before a step, and after it.
LEMMA RefsOwned ==
    ASSUME NEW n \in Node, NEW r \in RefName
    PROVE  /\ TypeAndValid /\ replica[n].entry[RefKey(r)] # None
                => replica[n].entry[RefKey(r)] \in Owned(RefKey(r))
           /\ TypeAndValid' /\ replica'[n].entry[RefKey(r)] # None
                => replica'[n].entry[RefKey(r)] \in Owned(RefKey(r))'
BY KeyParts DEF TypeAndValid, ReplicasValid, ValidateState, EmptyState, Owned, Around

\* A replica's update_seq of a ref never falls.
LEMMA SeqClimbs ==
    ASSUME TypeOK, TypeOK', Advance, NEW n \in Node, NEW k \in Key
    PROVE  /\ SeqAt(replica[n], k) \in Int /\ SeqAt(replica'[n], k) \in Int
           /\ SeqAt(replica[n], k) <= SeqAt(replica'[n], k)
<1>1. replica[n].entry[k] \in MaybeEntry /\ replica'[n].entry[k] \in MaybeEntry
  BY StateFields DEF TypeOK
<1>2. EntryLeq(k, replica[n].entry[k], replica'[n].entry[k])
  BY DEF Advance, StateLeq
<1>. QED  BY <1>1, <1>2, EntryFields DEF EntryLeq, PickHigherSeq, SeqAt

(***************************************************************************)
(* The step of a single writer: what is new is newer than all there was.   *)
(***************************************************************************)
LEMMA WriterStep ==
    ASSUME NEW h \in Helper, Helper = {h}, Impatient = {}, WriterInv(h), [Next]_vars
    PROVE  /\ WriterInv(h)'
           /\ \A r \in RefName : \A x \in Owned(RefKey(r))' :
                 \/ x \in Owned(RefKey(r))
                 \/ \A y \in Owned(RefKey(r)) : y.seq < x.seq
<1>1. TypeAndValid /\ TypeAndValid' /\ Advance /\ TypeOK /\ TypeOK'
  BY TypeAndValidStep, AdvanceStep DEF WriterInv, TypeAndValid
<1>2. Home[h] \in Node
  BY ReplicasAssumption
<1>3. ASSUME SubmitUpdate(h), NEW r \in RefName
      PROVE  LET k == RefKey(r)
             IN  /\ k \in Key
                 /\ Owned(k)' \subseteq Owned(k)
                       \cup {x \in {push[h].entry[k]} : x # None /\ x.by = Owner}
  BY <1>1, <1>3, OnlyPushes, KeyParts DEF WriterInv
<1>4. ASSUME ~SubmitUpdate(h), NEW r \in RefName
      PROVE  Owned(RefKey(r))' \subseteq Owned(RefKey(r))
  BY <1>1, <1>4, OnlyPushes DEF WriterInv
<1>5. ASSUME NEW r \in RefName
      PROVE  /\ \A x \in Owned(RefKey(r))' :
                   x.seq \in Int /\ x.seq <= SeqAt(replica'[Home[h]], RefKey(r))
             /\ \A x \in Owned(RefKey(r))' :
                   \/ x \in Owned(RefKey(r))
                   \/ /\ SubmitUpdate(h) /\ x = push[h].entry[RefKey(r)]
                      /\ \A y \in Owned(RefKey(r)) : y.seq < x.seq
  <2>. DEFINE k == RefKey(r)
  <2>1. k \in Key
    BY KeyParts
  <2>2. \A x \in Owned(k) : x.seq \in Int /\ x.seq <= SeqAt(replica[Home[h]], k)
    BY <1>1, <2>1, AroundTypes DEF WriterInv, HomeAhead
  <2>3. /\ SeqAt(replica[Home[h]], k) \in Int /\ SeqAt(replica'[Home[h]], k) \in Int
        /\ SeqAt(replica[Home[h]], k) <= SeqAt(replica'[Home[h]], k)
    BY <1>1, <1>2, <2>1, SeqClimbs
  <2>4. ASSUME SubmitUpdate(h), push[h].entry[k] # None
        PROVE  /\ push[h].entry[k].seq \in Int
               /\ push[h].entry[k].seq > SeqAt(replica[Home[h]], k)
               /\ push[h].entry[k].seq = SeqAt(replica'[Home[h]], k)
    <3>1. push[h] # None /\ push[h].entry[k] \in MaybeEntry
      BY <1>1, <2>1, <2>4, StateFields DEF SubmitUpdate, TypeOK
    <3>2. replica'[Home[h]].entry[k] = push[h].entry[k]
      BY <1>1, <2>4, SubmittedMoves DEF WriterInv
    <3>. QED  BY <2>4, <3>1, <3>2, EntryFields DEF WriterInv, Signing, SeqAt
  <2>. HIDE DEF k
  <2>5. CASE SubmitUpdate(h)
    <3>1. \A x \in Owned(k)' : x \in Owned(k) \/ (x = push[h].entry[k] /\ x # None)
      BY <1>3, <2>5 DEF k
    <3>. QED  BY <2>2, <2>3, <2>4, <2>5, <3>1 DEF k
  <2>6. CASE ~SubmitUpdate(h)
    BY <1>4, <2>2, <2>3, <2>6 DEF k
  <2>. QED  BY <2>5, <2>6
<1>6. OneVersion'
  <2>. SUFFICES ASSUME NEW r \in RefName, NEW x \in Owned(RefKey(r))', NEW y \in Owned(RefKey(r))',
                       x.seq = y.seq
                PROVE  x = y
    BY DEF OneVersion
  <2>. QED  BY <1>5 DEF WriterInv, OneVersion
<1>7. HomeAhead(h)'
  BY <1>5 DEF HomeAhead
<1>8. Signing(h)'
  <2>1. CASE HandlePush(h)
    BY <1>1, <2>1, SigningNew
  <2>2. CASE SubmitUpdate(h) \/ AbortPush(h)
    <3>1. push'[h] = None
      BY <1>1, <2>2 DEF SubmitUpdate, AbortPush, TypeOK
    <3>. QED  BY <3>1 DEF Signing
  <2>3. CASE ~SubmitUpdate(h) /\ UNCHANGED push
    <3>1. \A r \in RefName : SeqAt(replica'[Home[h]], RefKey(r)) <= SeqAt(replica[Home[h]], RefKey(r))
      <4>. SUFFICES ASSUME NEW r \in RefName
                    PROVE  SeqAt(replica'[Home[h]], RefKey(r)) <= SeqAt(replica[Home[h]], RefKey(r))
        OBVIOUS
      <4>1. CASE replica'[Home[h]].entry[RefKey(r)] = None
        <5>1. RefKey(r) \in Key
          BY KeyParts
        <5>2. SeqAt(replica'[Home[h]], RefKey(r)) = 0
          BY <4>1 DEF SeqAt
        <5>3. replica[Home[h]].entry[RefKey(r)] \in MaybeEntry
          BY <1>1, <1>2, <5>1, StateFields DEF TypeOK
        <5>. QED  BY <5>2, <5>3, EntryFields DEF SeqAt
      <4>2. CASE replica'[Home[h]].entry[RefKey(r)] # None
        <5>1. replica'[Home[h]].entry[RefKey(r)] \in Owned(RefKey(r))'
          BY <1>1, <1>2, <4>2, RefsOwned
        <5>2. replica'[Home[h]].entry[RefKey(r)] \in Owned(RefKey(r))
          BY <1>4, <2>3, <5>1
        <5>. QED  BY <4>2, <5>2 DEF WriterInv, HomeAhead, SeqAt
      <4>. QED  BY <4>1, <4>2
    <3>2. Hosting(Home[h]) => Hosting(Home[h])'
      BY <1>1, <1>2 DEF Advance, Hosting
    <3>3. \A r \in RefName : /\ SeqAt(replica[Home[h]], RefKey(r)) \in Int
                            /\ SeqAt(replica'[Home[h]], RefKey(r)) \in Int
      BY <1>1, <1>2, SeqClimbs, KeyParts
    <3>4. \A r \in RefName : push[h] # None /\ push[h].entry[RefKey(r)] # None
                               => push[h].entry[RefKey(r)].seq \in Int
      BY <1>1, StateFields, EntryFields, KeyParts DEF TypeOK
    <3>. QED  BY <2>3, <3>1, <3>2, <3>3, <3>4 DEF WriterInv, Signing
  <2>4. CASE UNCHANGED vars
    BY <2>3, <2>4, <2>2 DEF vars
  <2>. QED
    BY <2>1, <2>2, <2>3, <2>4
       DEF Next, TimeoutPush, RequestSync, AnswerSync, SendState, Deliver, DeliverBatch,
           SubmitForeign, Lose
<1>. QED  BY <1>1, <1>5, <1>6, <1>7, <1>8 DEF WriterInv

\* A new repo has no refs and no push under way.
LEMMA WriterInit ==
    ASSUME NEW h \in Helper, Init
    PROVE  WriterInv(h)
<1>1. \A r \in RefName : RefKey(r) \in Key /\ RefKey(r) \notin {FieldKey(f) : f \in FieldName}
  BY KeyParts DEF RefKey, FieldKey
<1>2. \A r \in RefName : InitialState.entry[RefKey(r)] = None
                       /\ EmptyState.entry[RefKey(r)] = None
  BY <1>1, Zenon DEF InitialState, EmptyState
<1>3. \A n \in Node : replica[n] \in {InitialState, EmptyState}
  BY DEF Init
<1>4. \A r \in RefName : Owned(RefKey(r)) = {}
  BY <1>2, <1>3 DEF Owned, Around, Init
<1>. QED
  BY <1>4, TypeAndValidInit DEF WriterInv, OneVersion, HomeAhead, Signing, Init

(***************************************************************************)
(* With one helper that waits for its answers, a ref that moves moves to a *)
(* greater update_seq on every node, however late, repeated, batched or    *)
(* forged the updates are that reach it (update_state).                    *)
(***************************************************************************)
THEOREM RefsMoveUp ==
    ASSUME NEW h \in Helper, Helper = {h}, Impatient = {}
    PROVE  Spec => RefMovesRaiseSeq
<1>. DEFINE Moves == \A n \in Node, r \in RefName :
                        /\ Target(replica[n], r) # None
                        /\ Target(replica[n], r) # Target(replica'[n], r)
                        => SeqAt(replica'[n], RefKey(r)) > SeqAt(replica[n], RefKey(r))
<1>1. ASSUME WriterInv(h), [Next]_vars PROVE Moves /\ WriterInv(h)'
  <2>. SUFFICES ASSUME NEW n \in Node, NEW r \in RefName,
                       Target(replica[n], r) # None,
                       Target(replica[n], r) # Target(replica'[n], r)
                PROVE  SeqAt(replica'[n], RefKey(r)) > SeqAt(replica[n], RefKey(r))
    BY <1>1, WriterStep
  <2>. DEFINE k == RefKey(r)
              x == replica[n].entry[k]
              z == replica'[n].entry[k]
  <2>1. TypeAndValid /\ TypeAndValid' /\ Advance /\ TypeOK /\ TypeOK' /\ k \in Key
    BY <1>1, TypeAndValidStep, AdvanceStep, KeyParts DEF WriterInv, TypeAndValid
  <2>2. x # None /\ x \in Owned(k)
    BY <2>1, RefsOwned DEF Target
  <2>3. /\ SeqAt(replica[n], k) \in Int /\ SeqAt(replica'[n], k) \in Int
        /\ SeqAt(replica[n], k) <= SeqAt(replica'[n], k)
    BY <2>1, SeqClimbs
  <2>4. z # None
    BY <2>1, <2>2 DEF Advance, StateLeq, EntryLeq
  <2>5. z \in Owned(k)'
    BY <2>1, <2>4, RefsOwned
  <2>6. z \in Owned(k) \/ \A y \in Owned(k) : y.seq < z.seq
    BY <1>1, <2>5, WriterStep
  <2>7. z.seq = x.seq => z = x
    BY <1>1, <2>1, <2>2, <2>6, AroundTypes DEF WriterInv, OneVersion
  <2>8. z # x
    BY DEF Target
  <2>. QED  BY <2>2, <2>3, <2>4, <2>7, <2>8 DEF SeqAt
<1>2. Init => WriterInv(h)
  BY WriterInit
<1>. QED  BY <1>1, <1>2, PTL DEF Spec, RefMovesRaiseSeq

(***************************************************************************)
(* With one helper that waits for its answers, "ok" is true: the node has  *)
(* moved every ref of the push to the pushed target (update_state in       *)
(* wsclient.rs), whatever reached the node since the helper read it.       *)
(***************************************************************************)
THEOREM OkIsTrue ==
    ASSUME NEW w \in Helper, Helper = {w}, Impatient = {}
    PROVE  Spec => OkMeansMoved
<1>1. WriterInv(w) /\ [Next]_vars => WriterInv(w)'
  BY WriterStep
<1>2. WriterInv(w) /\ [Next]_vars =>
        [\A h \in Helper : SubmitUpdate(h) =>
            \A r \in RefName : push[h].entry[RefKey(r)] # None =>
                Target(replica'[Home[h]], r) = Target(push[h], r)]_vars
  BY SubmittedMoves DEF WriterInv, Target
<1>3. Init => WriterInv(w)
  BY WriterInit
<1>. QED  BY <1>1, <1>2, <1>3, PTL DEF Spec, OkMeansMoved
===============================================================================
