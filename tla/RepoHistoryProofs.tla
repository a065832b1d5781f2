--------------------------- MODULE RepoHistoryProofs --------------------------
(***************************************************************************)
(* The two invariants that a clone relies on, for any nodes, helpers, refs *)
(* and commits: every bundle with a record has its tip extension, and no   *)
(* pushed history is lost.  Neither is inductive; each is strengthened     *)
(* with what the deltas, states and summaries in flight must satisfy.      *)
(***************************************************************************)
EXTENDS RepoReplicasProofs

-------------------------------------------------------------------------------
(***************************************************************************)
(* HistoryCovered.  Every replica, pending push and message points into    *)
(* history that what is known and its own bundles contain.                 *)
(***************************************************************************)
HistoryInv ==
    /\ \A n \in Node : Covered(replica[n], Known)
    /\ \A h \in Helper : push[h] # None => Covered(push[h], Known)
    /\ \A q \in net : q.kind \in {"delta", "state"} => Covered(q.body, Known)

\* What is sent out of a covered state is covered by what is known.
LEMMA CoveredDelta ==
    ASSUME NEW s \in State, NEW y, NEW bs, Bundles(s) \subseteq bs, Covered(s, bs)
    PROVE  Covered(GetStateDelta(s, y), bs)
<1>. DEFINE d == GetStateDelta(s, y)
<1>1. UNION (bs \cup Bundles(s)) \subseteq UNION (bs \cup Bundles(d))
  OBVIOUS
<1>2. \A r \in RefName : d.entry[RefKey(r)] \in {None, s.entry[RefKey(r)]}
  BY KeyParts DEF GetStateDelta
<1>. QED  BY <1>1, <1>2 DEF Covered, Covers

\* What some replica knows is never forgotten.
LEMMA KnownGrows ==
    ASSUME Advance
    PROVE  Known \subseteq Known'
BY DEF Advance, StateLeq, Known

\* The invariant after a step, when what the step made is covered by what was
\* known before it.
LEMMA HistoryKept ==
    ASSUME Advance,
           \A n \in Node : Covered(replica'[n], Known),
           \A h \in Helper : push'[h] # None => Covered(push'[h], Known),
           \A q \in net' : q.kind \in {"delta", "state"} => Covered(q.body, Known)
    PROVE  HistoryInv'
BY KnownGrows, CoveredMore DEF HistoryInv

\* Every step keeps the invariant: a push packs what its base lacks, and the base
\* is covered; merges pick one of two covered targets; bundles are never dropped.
LEMMA HistoryStep == TypeAndValid /\ HistoryInv /\ [Next]_vars => HistoryInv'
<1>. SUFFICES ASSUME TypeOK, ReplicasValid, HistoryInv, [Next]_vars PROVE HistoryInv'
  BY DEF TypeAndValid
<1>1. Advance
  BY AdvanceStep DEF TypeAndValid
<1>2. ASSUME NEW n \in Node
      PROVE  replica[n] \in State /\ Bundles(replica[n]) \subseteq Known
  BY <1>2 DEF TypeOK, Known
<1>3. ASSUME NEW h \in Helper, HandlePush(h) PROVE HistoryInv'
  <2>. DEFINE s == replica[Home[h]]
  <2>1. Home[h] \in Node /\ ValidateState(s)
    BY <1>3, HostingFacts, ReplicasAssumption DEF HandlePush
  <2>2. PICK specs \in Specs(Clone[h]), force \in SUBSET RefName,
            last \in RefName, mode \in Modes :
          LET rs == Pushed(Clone[h], s, specs, force)
              d  == PushDelta(Clone[h], s, specs, rs, last, mode)
          IN  Submittable(s, d) /\ push' = [push EXCEPT ![h] = d]
    BY <1>3, Zenon DEF HandlePush
  <2>. DEFINE d == PushDelta(Clone[h], s, specs, Pushed(Clone[h], s, specs, force), last, mode)
  <2>3. Covered(d, Known)
    BY <1>2, <2>1, CoveredPush, ReplicasAssumption DEF HistoryInv
  <2>4. push' = [push EXCEPT ![h] = d] /\ UNCHANGED <<replica, net>>
    BY <1>3, <2>2 DEF HandlePush
  <2>. HIDE DEF d
  <2>. QED  BY <1>1, <2>3, <2>4, HistoryKept DEF HistoryInv, TypeOK
<1>4. ASSUME NEW h \in Helper, SubmitUpdate(h) PROVE HistoryInv'
  <2>1. Home[h] \in Node /\ push[h] \in State /\ Covered(push[h], Known)
    BY <1>4, ReplicasAssumption DEF SubmitUpdate, TypeOK, HistoryInv
  <2>2. Covered(UpdateState(replica[Home[h]], push[h]), Known)
    BY <1>2, <2>1, CoveredUpdate DEF HistoryInv
  <2>3. \A n \in Node : Covered(replica'[n], Known)
    BY <1>4, <2>2 DEF SubmitUpdate, HistoryInv, TypeOK
  <2>4. \A x \in Helper : push'[x] # None => Covered(push'[x], Known)
    BY <1>4 DEF SubmitUpdate, HistoryInv, TypeOK
  <2>5. \A q \in net' : q.kind \in {"delta", "state"} => Covered(q.body, Known)
    BY <1>4, <2>1 DEF SubmitUpdate, HistoryInv
  <2>. QED  BY <1>1, <2>3, <2>4, <2>5, HistoryKept
<1>5. ASSUME NEW h \in Helper, TimeoutPush(h) PROVE HistoryInv'
  <2>1. \A q \in net' : q.kind \in {"delta", "state"} => Covered(q.body, Known)
    BY <1>5 DEF TimeoutPush, Send, HistoryInv
  <2>2. \A x \in Helper : push'[x] # None => Covered(push'[x], Known)
    BY <1>5 DEF TimeoutPush, HistoryInv, TypeOK
  <2>. QED  BY <1>1, <1>5, <2>1, <2>2, HistoryKept DEF TimeoutPush, HistoryInv
<1>6. ASSUME NEW h \in Helper, AbortPush(h) PROVE HistoryInv'
  <2>1. \A x \in Helper : push'[x] # None => Covered(push'[x], Known)
    BY <1>6 DEF AbortPush, HistoryInv, TypeOK
  <2>. QED  BY <1>1, <1>6, <2>1, HistoryKept DEF AbortPush, HistoryInv
<1>7. ASSUME NEW n \in Node, NEW m \in Node, RequestSync(m, n) PROVE HistoryInv'
  <2>1. \A q \in net' : q.kind \in {"delta", "state"} => Covered(q.body, Known)
    BY <1>7 DEF RequestSync, Send, HistoryInv
  <2>. QED  BY <1>1, <1>7, <2>1, HistoryKept DEF RequestSync, HistoryInv
<1>8. ASSUME NEW n \in Node, NEW m \in Node, AnswerSync(n, m) PROVE HistoryInv'
  <2>1. PICK y : LET d == GetStateDelta(replica[n], y)
                 IN  \A q \in net' : \/ q \in net
                                     \/ q = [kind |-> "delta", from |-> n,
                                             to |-> m, body |-> d]
    BY <1>8, Zenon DEF AnswerSync
  <2>2. Covered(GetStateDelta(replica[n], y), Known)
    BY <1>2, CoveredDelta DEF HistoryInv
  <2>3. \A q \in net' : q.kind \in {"delta", "state"} => Covered(q.body, Known)
    BY <2>1, <2>2 DEF HistoryInv
  <2>. QED  BY <1>1, <1>8, <2>3, HistoryKept DEF AnswerSync, HistoryInv
<1>9. ASSUME NEW n \in Node, NEW m \in Node, SendState(n, m) PROVE HistoryInv'
  <2>1. \A q \in net' : q.kind \in {"delta", "state"} => Covered(q.body, Known)
    BY <1>9 DEF SendState, Send, HistoryInv
  <2>. QED  BY <1>1, <1>9, <2>1, HistoryKept DEF SendState, HistoryInv
<1>10. ASSUME NEW n \in Node, NEW m \in Node, Deliver(n, m) PROVE HistoryInv'
  <2>1. PICK q \in net :
          /\ q.kind \in {"delta", "state"}
          /\ replica' = [replica EXCEPT ![m] = Received(m, q)]
          /\ net' \in {net, net \ {q}}
    BY <1>10 DEF Deliver
  <2>2. q \in UpdateMessage /\ q.body \in State /\ Covered(q.body, Known)
    BY <2>1, MessageKinds DEF TypeOK, HistoryInv
  <2>3. Covered(Received(m, q), Known)
    BY <1>2, <2>2, ReceivedFacts, CoveredMerge DEF HistoryInv
  <2>4. \A n_1 \in Node : Covered(replica'[n_1], Known)
    BY <2>1, <2>3 DEF HistoryInv, TypeOK
  <2>. QED  BY <1>1, <1>10, <2>1, <2>4, HistoryKept DEF Deliver, HistoryInv
<1>11. ASSUME NEW m \in Node, SubmitForeign(m) PROVE HistoryInv'
  <2>1. PICK r \in RefName, c \in Commit, by \in Signer \ {Owner}, n \in Node :
          Send("delta", m, n,
              [EmptyState EXCEPT
                 !.entry[RefKey(r)] = [value |-> c, seq |-> MaxSeq, by |-> by]])
    BY <1>11 DEF SubmitForeign
  <2>. DEFINE e == [value |-> c, seq |-> MaxSeq, by |-> by]
              d == [EmptyState EXCEPT !.entry[RefKey(r)] = e]
  <2>2. \A k \in Key : d.entry[k] = IF k = RefKey(r) THEN e ELSE None
    BY KeyParts DEF EmptyState
  <2>3. Covered(d, Known)
    <3>1. e.by # Owner
      OBVIOUS
    <3>. HIDE DEF d, e
    <3>. QED  BY <2>2, <3>1, KeyParts DEF Covered
  <2>4. \A q \in net' : q.kind \in {"delta", "state"} => Covered(q.body, Known)
    BY <2>1, <2>3 DEF Send, HistoryInv
  <2>. QED  BY <1>1, <1>11, <2>4, HistoryKept DEF SubmitForeign, HistoryInv
<1>12. ASSUME NEW m \in Node, DeliverBatch(m) PROVE HistoryInv'
  <2>1. PICK p \in net, q \in net :
          /\ {p.kind, q.kind} \subseteq {"delta", "state"}
          /\ replica' = [replica EXCEPT ![m] = UpdateBatch(@, p.body, q.body)]
          /\ net' = net \ {p, q}
    BY <1>12 DEF DeliverBatch
  <2>2. /\ p.body \in State /\ Covered(p.body, Known)
        /\ q.body \in State /\ Covered(q.body, Known)
    BY <2>1, MessageKinds DEF TypeOK, HistoryInv
  <2>3. Covered(UpdateBatch(replica[m], p.body, q.body), Known)
    BY <1>2, <2>2, CoveredUpdate DEF HistoryInv
  <2>4. \A n \in Node : Covered(replica'[n], Known)
    BY <2>1, <2>3 DEF HistoryInv, TypeOK
  <2>. QED  BY <1>1, <1>12, <2>1, <2>4, HistoryKept DEF DeliverBatch, HistoryInv
<1>13. CASE Lose
  BY <1>1, <1>13, HistoryKept DEF Lose, HistoryInv
<1>14. CASE UNCHANGED vars
  BY <1>1, <1>14, HistoryKept DEF vars, HistoryInv
<1>. QED
  BY <1>3, <1>4, <1>5, <1>6, <1>7, <1>8, <1>9, <1>10, <1>11, <1>12, <1>13, <1>14 DEF Next

\* A new repo has no refs yet.
LEMMA HistoryInit == Init => HistoryInv
<1>1. \A r \in RefName : RefKey(r) \in Key /\ RefKey(r) \notin {FieldKey(f) : f \in FieldName}
  BY KeyParts DEF RefKey, FieldKey
<1>2. \A r \in RefName : InitialState.entry[RefKey(r)] = None
                       /\ EmptyState.entry[RefKey(r)] = None
  BY <1>1, Zenon DEF InitialState, EmptyState
<1>3. Covered(InitialState, Known) /\ Covered(EmptyState, Known)
  BY <1>2 DEF Covered
<1>. QED  BY <1>3 DEF Init, HistoryInv

(***************************************************************************)
(* Whatever a ref of any replica points at, its whole history is in the    *)
(* bundles known to some replica: build_pack subtracts only a base that an *)
(* earlier push covered, and no update forgets a bundle.                   *)
(***************************************************************************)
THEOREM HistoryStaysCovered == Spec => []HistoryCovered
<1>1. TypeAndValid /\ HistoryInv => HistoryCovered
  <2>. SUFFICES ASSUME TypeAndValid, HistoryInv, NEW n \in Node, NEW r \in RefName,
                       Target(replica[n], r) # None
                PROVE  Covers(Known, Target(replica[n], r))
    BY DEF HistoryCovered
  <2>1. /\ replica[n].entry[RefKey(r)] # None
        /\ replica[n].entry[RefKey(r)].value = Target(replica[n], r)
    BY DEF Target
  <2>2. replica[n].entry[RefKey(r)].by = Owner
    BY <2>1, KeyParts DEF TypeAndValid, ReplicasValid, ValidateState, EmptyState
  <2>3. Covers(Known \cup Bundles(replica[n]), Target(replica[n], r))
    BY <2>1, <2>2 DEF HistoryInv, Covered
  <2>4. Known \cup Bundles(replica[n]) = Known
    BY DEF Known
  <2>. QED  BY <2>3, <2>4
<1>. QED
  BY <1>1, TypeAndValidInit, TypeAndValidStep, HistoryInit, HistoryStep, PTL DEF Spec

-------------------------------------------------------------------------------
(***************************************************************************)
(* TipsMatchRecords: the list of bundles and the list of bundle tips never *)
(* come apart on a replica.  The invariant is strengthened with what the   *)
(* updates and the summaries in flight are, relative to the replica they   *)
(* are on their way to.                                                    *)
(***************************************************************************)
Tip(s, b) == s.entry[TipKey(b)] # None
Rec(s, b) == s.objects[b] # None

\* s has both lists alike, and the deployed delta rule sends every tip of s.
Paired(s) ==
    \A b \in Bundle : /\ Tip(s, b) <=> Rec(s, b)
                      /\ Tip(s, b) /\ DeployedRule => s.entry[TipKey(b)].seq > 0

\* Merging d into s brings no tip without its record, nor the other way.
Fits(d, s) ==
    \A b \in Bundle :
        /\ Tip(d, b) => Rec(d, b) \/ Rec(s, b)
        /\ Rec(d, b) => Tip(d, b) \/ Tip(s, b)
        /\ Tip(d, b) /\ DeployedRule => d.entry[TipKey(b)].seq > 0

\* A summary of a replica that has grown since.
Behind(y, s) ==
    \A b \in Bundle : /\ b \in y.ids <=> y.seqs[TipKey(b)] # None
                      /\ b \in y.ids => Rec(s, b)

TipsInv ==
    /\ \A n \in Node : Paired(replica[n])
    /\ \A h \in Helper : push[h] # None => Paired(push[h])
    /\ \A q \in net : /\ q.kind = "state" => Paired(q.body)
                      /\ q.kind = "delta" => Fits(q.body, replica[q.to])
                      /\ q.kind = "summary" => Behind(q.body, replica[q.from])

-------------------------------------------------------------------------------
\* A paired state fits anything.
LEMMA PairedFits ==
    ASSUME NEW d, NEW s, Paired(d)
    PROVE  Fits(d, s)
BY DEF Paired, Fits

\* What fits a state fits a higher one; a summary stays behind.
LEMMA FitsHigher ==
    ASSUME NEW s \in State, NEW t \in State, StateLeq(s, t)
    PROVE  /\ \A d : Fits(d, s) => Fits(d, t)
           /\ \A y : Behind(y, s) => Behind(y, t)
<1>1. \A b \in Bundle : (Tip(s, b) => Tip(t, b)) /\ (Rec(s, b) => Rec(t, b))
  BY KeyParts DEF StateLeq, EntryLeq, Bundles, Tip, Rec
<1>. QED  BY <1>1 DEF Fits, Behind

\* Merging what fits keeps a state paired.
LEMMA PairedMerge ==
    ASSUME NEW s \in State, NEW d \in State, Paired(s), Fits(d, s)
    PROVE  Paired(MergeState(s, d))
<1>. DEFINE m == MergeState(s, d)
<1>. SUFFICES ASSUME NEW b \in Bundle
              PROVE  /\ Tip(m, b) <=> Rec(m, b)
                     /\ Tip(m, b) /\ DeployedRule => m.entry[TipKey(b)].seq > 0
  BY DEF Paired
<1>1. TipKey(b) \in Key
  BY KeyParts
<1>2. /\ m.entry[TipKey(b)] \in {s.entry[TipKey(b)], d.entry[TipKey(b)]}
      /\ Tip(s, b) \/ Tip(d, b) => Tip(m, b)
  BY <1>1, MergeAt, StateFields, PickWins DEF Tip
<1>3. Rec(m, b) <=> Rec(s, b) \/ Rec(d, b)
  BY MergeAt DEF Rec
<1>. HIDE DEF m
<1>4. Tip(m, b) => Tip(s, b) \/ Tip(d, b)
  BY <1>2 DEF Tip
<1>. QED  BY <1>2, <1>3, <1>4 DEF Paired, Fits, Tip

\* An update, or a batch of two, keeps tips and records together.
LEMMA PairedUpdate ==
    ASSUME NEW s \in State, NEW d \in State, NEW e \in State,
           Paired(s), Fits(d, s), Fits(e, s)
    PROVE  Paired(UpdateState(s, d)) /\ Paired(UpdateBatch(s, d, e))
<1>1. MergeState(s, d) \in State /\ Paired(MergeState(s, d))
  BY MergeType, PairedMerge
<1>2. Fits(e, MergeState(s, d))
  BY <1>1, MergeIsUpperBound, FitsHigher
<1>3. Paired(MergeState(MergeState(s, d), e))
  BY <1>1, <1>2, PairedMerge
<1>. QED  BY <1>1, <1>3, UpdateFacts, BatchFacts

\* A summary of a paired state is behind it.
LEMMA SummaryBehind ==
    ASSUME NEW s \in State, Paired(s)
    PROVE  Behind(SummarizeState(s), s)
<1>. DEFINE y == SummarizeState(s)
<1>. SUFFICES ASSUME NEW b \in Bundle
              PROVE  /\ b \in y.ids <=> y.seqs[TipKey(b)] # None
                     /\ b \in y.ids => Rec(s, b)
  BY DEF Behind
<1>1. y.seqs[TipKey(b)] # None <=> Tip(s, b)
  BY KeyParts, StateFields, EntryFields, RepoStateAssumption
     DEF SummarizeState, Tip, Entry
<1>2. b \in y.ids <=> Rec(s, b)
  BY DEF SummarizeState, Bundles, Rec
<1>. QED  BY <1>1, <1>2 DEF Paired

(***************************************************************************)
(* The delta for a summary fits the state that was summarised: a bundle    *)
(* the peer lists it also has the tip of, and a bundle it does not list is *)
(* sent with its tip, even by the rule that reads "never seen" as seq 0.   *)
(***************************************************************************)
LEMMA DeltaFits ==
    ASSUME NEW s \in State, NEW y, NEW t, Paired(s), Behind(y, t), Paired(t)
    PROVE  Fits(GetStateDelta(s, y), t)
<1>. DEFINE d == GetStateDelta(s, y)
<1>. SUFFICES ASSUME NEW b \in Bundle
              PROVE  /\ Tip(d, b) => Rec(d, b) \/ Rec(t, b)
                     /\ Rec(d, b) => Tip(d, b) \/ Tip(t, b)
                     /\ Tip(d, b) /\ DeployedRule => d.entry[TipKey(b)].seq > 0
  BY DEF Fits
<1>1. /\ d.entry[TipKey(b)] \in {None, s.entry[TipKey(b)]}
      /\ Tip(d, b) <=> Tip(s, b) /\ PeerNeeds(y.seqs[TipKey(b)], TipKey(b), s.entry[TipKey(b)])
  BY KeyParts DEF GetStateDelta, Tip
<1>2. Rec(d, b) <=> Rec(s, b) /\ b \notin y.ids
  BY DEF GetStateDelta, Rec
<1>. HIDE DEF d
<1>3. CASE b \in y.ids
  <2>1. Rec(t, b) /\ Tip(t, b)
    BY <1>3 DEF Behind, Paired
  <2>. QED  BY <1>1, <2>1 DEF Paired, Tip
<1>4. CASE b \notin y.ids
  <2>1. y.seqs[TipKey(b)] = None
    BY <1>4 DEF Behind
  <2>2. Tip(s, b) => PeerNeeds(y.seqs[TipKey(b)], TipKey(b), s.entry[TipKey(b)])
    BY <2>1 DEF PeerNeeds, Paired
  <2>. QED  BY <1>1, <1>2, <1>4, <2>2 DEF Paired, Tip
<1>. QED  BY <1>3, <1>4

\* A push advertises a tip for each of its bundles, and for nothing else.
LEMMA PushPaired ==
    ASSUME NEW clone \in SUBSET Commit, NEW s, NEW force, NEW mode, NEW last,
           NEW specs \in Specs(clone),
           NEW rs, rs = Pushed(clone, s, specs, force)
    PROVE  Paired(PushDelta(clone, s, specs, rs, last, mode))
<1>. DEFINE d     == PushDelta(clone, s, specs, rs, last, mode)
            built == {PackFor(clone, s, specs, r) : r \in rs}
<1>. SUFFICES ASSUME NEW b \in Bundle
              PROVE  /\ Tip(d, b) <=> Rec(d, b)
                     /\ Tip(d, b) /\ DeployedRule => d.entry[TipKey(b)].seq > 0
  BY DEF Paired
<1>1. TipKey(b) \in Key /\ TipKey(b)[2] = b /\ TipKey(b) # MirrorKey
  BY KeyParts
<1>2. TipKey(b) \notin {RefKey(r) : r \in rs}
  BY DEF TipKey, RefKey
<1>3. TipKey(b) \in {TipKey(c) : c \in built} <=> b \in built
  BY DEF TipKey
<1>4. d.entry[TipKey(b)] = IF b \in built
                           THEN TipEntry(Advertised(clone, s, specs, rs, last, b))
                           ELSE None
  BY <1>1, <1>2, <1>3 DEF PushDelta
<1>5. d.objects[b] = IF b \in built THEN Owner ELSE None
  BY DEF PushDelta
<1>6. b \in built => Advertised(clone, s, specs, rs, last, b) \in Commit
  BY SpecTypes DEF Advertised
<1>7. \A c \in Commit : /\ TipEntry(c) \in Entry
                       /\ TipEntry(c).seq = BundleTipSeq
  BY RepoStateAssumption, PushAssumption DEF TipEntry, Signed, Entry, Value
<1>. HIDE DEF d, built
<1>. QED  BY <1>4, <1>5, <1>6, <1>7, RepoStateAssumption, PushAssumption DEF Tip, Rec

-------------------------------------------------------------------------------
\* Messages that were in flight before the step stay as the invariant has them.
LEMMA FlightKept ==
    ASSUME TypeOK, TipsInv, Advance, TypeOK', NEW q \in net
    PROVE  /\ q.kind = "state" => Paired(q.body)
           /\ q.kind = "delta" => Fits(q.body, replica'[q.to])
           /\ q.kind = "summary" => Behind(q.body, replica'[q.from])
<1>1. q.to \in Node /\ q.from \in Node
  BY MessageKinds DEF TypeOK
<1>2. \A n \in Node : /\ replica[n] \in State /\ replica'[n] \in State
                     /\ StateLeq(replica[n], replica'[n])
  BY DEF TypeOK, Advance
<1>. QED  BY <1>1, <1>2, FitsHigher DEF TipsInv

\* Steps that only send: every new message is as the invariant has it.
LEMMA TipsSend ==
    ASSUME TypeOK, TipsInv, Advance, TypeOK', UNCHANGED replica,
           \A h \in Helper : push'[h] # None => Paired(push'[h]),
           \A q \in net' : \/ q \in net
                           \/ q.kind = "state" /\ Paired(q.body)
                           \/ q.kind = "delta" /\ Fits(q.body, replica[q.to])
                           \/ q.kind = "summary" /\ Behind(q.body, replica[q.from])
    PROVE  TipsInv'
BY FlightKept DEF TipsInv

\* Every step keeps tips and records together, on replicas and in flight.
LEMMA TipsStep == TypeAndValid /\ TipsInv /\ [Next]_vars => TipsInv'
<1>. SUFFICES ASSUME TypeOK, ReplicasValid, TipsInv, [Next]_vars PROVE TipsInv'
  BY DEF TypeAndValid
<1>1. Advance /\ TypeOK'
  BY AdvanceStep, TypeAndValidStep DEF TypeAndValid
<1>2. \A n \in Node : replica[n] \in State /\ Paired(replica[n])
  BY DEF TypeOK, TipsInv
<1>3. ASSUME NEW h \in Helper, HandlePush(h) PROVE TipsInv'
  <2>. DEFINE s == replica[Home[h]]
  <2>1. PICK specs \in Specs(Clone[h]), force \in SUBSET RefName,
            last \in RefName, mode \in Modes :
          LET rs == Pushed(Clone[h], s, specs, force)
              d  == PushDelta(Clone[h], s, specs, rs, last, mode)
          IN  Submittable(s, d) /\ push' = [push EXCEPT ![h] = d]
    BY <1>3, Zenon DEF HandlePush
  <2>. DEFINE d == PushDelta(Clone[h], s, specs, Pushed(Clone[h], s, specs, force), last, mode)
  <2>2. Paired(d)
    BY PushPaired, ReplicasAssumption
  <2>3. push' = [push EXCEPT ![h] = d] /\ UNCHANGED <<replica, net>>
    BY <1>3, <2>1 DEF HandlePush
  <2>. HIDE DEF d
  <2>4. \A x \in Helper : push'[x] # None => Paired(push'[x])
    BY <2>2, <2>3 DEF TipsInv, TypeOK
  <2>. QED  BY <1>1, <2>3, <2>4, TipsSend
<1>4. ASSUME NEW h \in Helper, SubmitUpdate(h) PROVE TipsInv'
  <2>1. Home[h] \in Node /\ push[h] \in State /\ Paired(push[h])
    BY <1>4, ReplicasAssumption DEF SubmitUpdate, TypeOK, TipsInv
  <2>2. Paired(UpdateState(replica[Home[h]], push[h]))
    BY <1>2, <2>1, PairedFits, PairedUpdate
  <2>3. \A n \in Node : Paired(replica'[n])
    BY <1>2, <1>4, <2>2 DEF SubmitUpdate, TypeOK
  <2>4. \A x \in Helper : push'[x] # None => Paired(push'[x])
    BY <1>4 DEF SubmitUpdate, TipsInv, TypeOK
  <2>5. \A q \in net' : q \in net \/ (q.kind = "delta" /\ Fits(q.body, replica'[q.to]))
    <3>1. \A q \in net' : q \in net \/ (q.kind = "delta" /\ q.body = push[h])
      BY <1>4 DEF SubmitUpdate
    <3>. QED  BY <2>1, <3>1, PairedFits
  <2>. QED  BY <1>1, <2>3, <2>4, <2>5, FlightKept DEF TipsInv
<1>5. ASSUME NEW h \in Helper, TimeoutPush(h) PROVE TipsInv'
  <2>1. \A q \in net' : q \in net \/ (q.kind = "delta" /\ Fits(q.body, replica[q.to]))
    <3>1. \A q \in net' : q \in net \/ (q.kind = "delta" /\ q.body = push[h])
      BY <1>5 DEF TimeoutPush, Send
    <3>. QED  BY <1>5, <3>1, PairedFits DEF TimeoutPush, TipsInv
  <2>2. \A x \in Helper : push'[x] # None => Paired(push'[x])
    BY <1>5 DEF TimeoutPush, TipsInv, TypeOK
  <2>. QED  BY <1>1, <1>5, <2>1, <2>2, TipsSend DEF TimeoutPush
<1>6. ASSUME NEW h \in Helper, AbortPush(h) PROVE TipsInv'
  <2>1. \A x \in Helper : push'[x] # None => Paired(push'[x])
    BY <1>6 DEF AbortPush, TipsInv, TypeOK
  <2>. QED  BY <1>1, <1>6, <2>1, TipsSend DEF AbortPush
<1>7. ASSUME NEW n \in Node, NEW m \in Node, RequestSync(m, n) PROVE TipsInv'
  <2>1. Behind(SummarizeState(replica[m]), replica[m])
    BY <1>2, SummaryBehind
  <2>2. \A q \in net' : q \in net \/ (q.kind = "summary" /\ Behind(q.body, replica[q.from]))
    <3>1. \A q \in net' : \/ q \in net
                         \/ /\ q.kind = "summary" /\ q.from = m
                            /\ q.body = SummarizeState(replica[m])
      BY <1>7 DEF RequestSync, Send
    <3>. QED  BY <2>1, <3>1
  <2>. QED  BY <1>1, <1>7, <2>2, TipsSend DEF RequestSync, TipsInv
<1>8. ASSUME NEW n \in Node, NEW m \in Node, AnswerSync(n, m) PROVE TipsInv'
  <2>1. PICK p \in net :
          /\ p.kind = "summary" /\ p.from = m
          /\ LET d == GetStateDelta(replica[n], p.body)
             IN  \A q \in net' : \/ q \in net
                                 \/ q = [kind |-> "delta", from |-> n,
                                         to |-> m, body |-> d]
    BY <1>8, Zenon DEF AnswerSync
  <2>2. Behind(p.body, replica[m])
    BY <2>1 DEF TipsInv
  <2>3. Fits(GetStateDelta(replica[n], p.body), replica[m])
    BY <1>2, <2>2, DeltaFits
  <2>4. \A q \in net' : q \in net \/ (q.kind = "delta" /\ Fits(q.body, replica[q.to]))
    <3>1. \A q \in net' : \/ q \in net
                         \/ /\ q.kind = "delta" /\ q.to = m
                            /\ q.body = GetStateDelta(replica[n], p.body)
      BY <2>1
    <3>. QED  BY <2>3, <3>1
  <2>. QED  BY <1>1, <1>8, <2>4, TipsSend DEF AnswerSync, TipsInv
<1>9. ASSUME NEW n \in Node, NEW m \in Node, SendState(n, m) PROVE TipsInv'
  <2>1. \A q \in net' : q \in net \/ (q.kind = "state" /\ Paired(q.body))
    <3>1. \A q \in net' : q \in net \/ (q.kind = "state" /\ q.body = replica[n])
      BY <1>9 DEF SendState, Send
    <3>. QED  BY <1>2, <3>1
  <2>. QED  BY <1>1, <1>9, <2>1, TipsSend DEF SendState, TipsInv
<1>10. ASSUME NEW n \in Node, NEW m \in Node, Deliver(n, m) PROVE TipsInv'
  <2>1. PICK q \in net :
          /\ q.kind \in {"delta", "state"} /\ q.to = m
          /\ replica' = [replica EXCEPT ![m] = Received(m, q)]
          /\ net' \in {net, net \ {q}}
    BY <1>10 DEF Deliver
  <2>2. q \in UpdateMessage /\ q.body \in State /\ Fits(q.body, replica[m])
    BY <2>1, MessageKinds, PairedFits DEF TypeOK, TipsInv
  <2>3. q.kind = "state" => Paired(q.body)
    BY <2>1 DEF TipsInv
  <2>4. Paired(Received(m, q))
    BY <1>2, <2>2, <2>3, ReceivedFacts, PairedMerge
  <2>5. \A x \in Node : Paired(replica'[x])
    BY <1>2, <2>1, <2>4 DEF TypeOK
  <2>6. net' \subseteq net /\ UNCHANGED push
    BY <1>10, <2>1 DEF Deliver
  <2>. QED  BY <1>1, <2>5, <2>6, FlightKept DEF TipsInv
<1>11. ASSUME NEW m \in Node, SubmitForeign(m) PROVE TipsInv'
  <2>1. PICK r \in RefName, c \in Commit, by \in Signer \ {Owner}, n \in Node :
          Send("delta", m, n,
              [EmptyState EXCEPT
                 !.entry[RefKey(r)] = [value |-> c, seq |-> MaxSeq, by |-> by]])
    BY <1>11 DEF SubmitForeign
  <2>. DEFINE d == [EmptyState EXCEPT
                      !.entry[RefKey(r)] = [value |-> c, seq |-> MaxSeq, by |-> by]]
  <2>2. \A b \in Bundle : d.entry[TipKey(b)] = None /\ d.objects[b] = None
    BY KeyParts DEF EmptyState
  <2>. HIDE DEF d
  <2>3. Fits(d, replica[n])
    BY <2>2 DEF Fits, Tip, Rec
  <2>4. \A q \in net' : q \in net \/ (q.kind = "delta" /\ Fits(q.body, replica[q.to]))
    <3>1. \A q \in net' : q \in net \/ (q.kind = "delta" /\ q.to = n /\ q.body = d)
      BY <2>1 DEF Send, d
    <3>. QED  BY <2>3, <3>1
  <2>. QED  BY <1>1, <1>11, <2>4, TipsSend DEF SubmitForeign, TipsInv
<1>12. ASSUME NEW m \in Node, DeliverBatch(m) PROVE TipsInv'
  <2>1. PICK p \in net, q \in net :
          /\ {p.kind, q.kind} \subseteq {"delta", "state"} /\ p.to = m /\ q.to = m
          /\ replica' = [replica EXCEPT ![m] = UpdateBatch(@, p.body, q.body)]
          /\ net' = net \ {p, q}
    BY <1>12 DEF DeliverBatch
  <2>2. /\ p.body \in State /\ Fits(p.body, replica[m])
        /\ q.body \in State /\ Fits(q.body, replica[m])
    BY <2>1, MessageKinds, PairedFits DEF TypeOK, TipsInv
  <2>3. Paired(UpdateBatch(replica[m], p.body, q.body))
    BY <1>2, <2>2, PairedUpdate
  <2>4. \A n \in Node : Paired(replica'[n])
    BY <1>2, <2>1, <2>3 DEF TypeOK
  <2>5. net' \subseteq net /\ UNCHANGED push
    BY <1>12, <2>1 DEF DeliverBatch
  <2>. QED  BY <1>1, <2>4, <2>5, FlightKept DEF TipsInv
<1>13. CASE Lose
  <2>1. net' \subseteq net
    BY <1>13 DEF Lose
  <2>. QED  BY <1>1, <1>13, <2>1, TipsSend DEF Lose, TipsInv
<1>14. CASE UNCHANGED vars
  BY <1>1, <1>14, TipsSend DEF vars, TipsInv
<1>. QED
  BY <1>3, <1>4, <1>5, <1>6, <1>7, <1>8, <1>9, <1>10, <1>11, <1>12, <1>13, <1>14 DEF Next

\* A new repo has neither tips nor records.
LEMMA TipsInit == Init => TipsInv
<1>1. \A b \in Bundle : TipKey(b) \in Key /\ TipKey(b) \notin {FieldKey(f) : f \in FieldName}
  BY KeyParts DEF TipKey, FieldKey
<1>2. \A b \in Bundle : /\ InitialState.entry[TipKey(b)] = None
                       /\ EmptyState.entry[TipKey(b)] = None
  BY <1>1, Zenon DEF InitialState, EmptyState
<1>3. \A b \in Bundle : InitialState.objects[b] = None /\ EmptyState.objects[b] = None
  BY DEF InitialState, EmptyState
<1>4. Paired(InitialState) /\ Paired(EmptyState)
  BY <1>2, <1>3 DEF Paired, Tip, Rec
<1>. QED  BY <1>4 DEF Init, TipsInv

(***************************************************************************)
(* On every replica the bundles with a tip extension are the bundles with  *)
(* a record, whatever order, repetition or loss of updates led there.      *)
(***************************************************************************)
THEOREM TipsStayMatched == Spec => []TipsMatchRecords
<1>1. TipsInv => TipsMatchRecords
  BY DEF TipsInv, TipsMatchRecords, Paired, Tip, Rec
<1>. QED
  BY <1>1, TypeAndValidInit, TypeAndValidStep, TipsInit, TipsStep, PTL DEF Spec

===============================================================================
