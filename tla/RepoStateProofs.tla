---------------------------- MODULE RepoStateProofs ---------------------------
(***************************************************************************)
(* What the merge, the update and the delta of a repo contract guarantee   *)
(* for every set of commits, refs and signatures; and the types of pushes. *)
(***************************************************************************)
EXTENDS GitPush, TLAPS

MaybeEntry == Entry \cup {None}

(***************************************************************************)
(* The rule that picks one of two entries (pick_higher_seq).               *)
(***************************************************************************)

\* Fields of an entry are of their types, and None is no entry.
LEMMA EntryFields ==
    ASSUME NEW e \in MaybeEntry
    PROVE  /\ e # None <=> e \in Entry
           /\ e # None => e.value \in Value /\ e.seq \in Int /\ e.seq >= 0 /\ e.seq <= MaxSeq /\ e.by \in Signer
BY RepoStateAssumption DEF MaybeEntry, Entry, Seq0

\* Signature ranks are integers and, at one seq, tell entries apart.
LEMMA SigFacts ==
    ASSUME NEW k \in Key, NEW d \in Entry, NEW e \in Entry
    PROVE  /\ SigOf(k, d) \in Int
           /\ d.seq = e.seq /\ SigOf(k, d) = SigOf(k, e) => d = e
BY RepoStateAssumption

\* The winner is one of the two, and at least as high as both.
LEMMA PickWins ==
    ASSUME NEW k \in Key, NEW a \in MaybeEntry, NEW b \in MaybeEntry
    PROVE  /\ Pick(k, a, b) \in {a, b}
           /\ Pick(k, a, b) \in MaybeEntry
           /\ EntryLeq(k, a, Pick(k, a, b))
           /\ EntryLeq(k, b, Pick(k, a, b))
           /\ a # None \/ b # None => Pick(k, a, b) # None
BY EntryFields, SigFacts DEF Pick, PickHigherSeq, EntryLeq

\* Which of two replicas merges which does not matter for an entry.
LEMMA PickCommutes ==
    ASSUME NEW k \in Key, NEW a \in MaybeEntry, NEW b \in MaybeEntry
    PROVE  Pick(k, a, b) = Pick(k, b, a)
BY EntryFields, SigFacts DEF Pick, PickHigherSeq

\* Nor does the order in which three entries meet.
LEMMA PickAssociates ==
    ASSUME NEW k \in Key, NEW a \in MaybeEntry, NEW b \in MaybeEntry, NEW c \in MaybeEntry
    PROVE  Pick(k, Pick(k, a, b), c) = Pick(k, a, Pick(k, b, c))
BY EntryFields, SigFacts DEF Pick, PickHigherSeq

\* The order on entries is reflexive, transitive and antisymmetric.
LEMMA EntryOrder ==
    ASSUME NEW k \in Key, NEW a \in MaybeEntry, NEW b \in MaybeEntry, NEW c \in MaybeEntry
    PROVE  /\ EntryLeq(k, a, a)
           /\ EntryLeq(k, a, b) /\ EntryLeq(k, b, c) => EntryLeq(k, a, c)
           /\ EntryLeq(k, a, b) /\ EntryLeq(k, b, a) => a = b
           /\ EntryLeq(k, a, b) => Pick(k, b, a) = b
BY EntryFields, SigFacts DEF Pick, PickHigherSeq, EntryLeq

-------------------------------------------------------------------------------
(***************************************************************************)
(* merge_state, key by key.                                                *)
(***************************************************************************)

\* The record fields of a state are of their types.
LEMMA StateFields ==
    ASSUME NEW s \in State
    PROVE  /\ s.owner \in Signer \cup {NoOwner}
           /\ s.entry \in [Key -> MaybeEntry]
           /\ s.objects \in [Bundle -> Signer \cup {None}]
           /\ \A k \in Key : s.entry[k] \in MaybeEntry
           /\ \A b \in Bundle : s.objects[b] \in Signer \cup {None}
BY DEF State, MaybeEntry

\* Merging yields a state.
LEMMA MergeType ==
    ASSUME NEW s \in State, NEW t \in State
    PROVE  MergeState(s, t) \in State
<1>1. \A k \in Key : Pick(k, s.entry[k], t.entry[k]) \in MaybeEntry
  BY StateFields, PickWins
<1>2. [k \in Key |-> Pick(k, s.entry[k], t.entry[k])] \in [Key -> MaybeEntry]
  BY <1>1
<1>3. [b \in Bundle |-> IF s.objects[b] # None THEN s.objects[b] ELSE t.objects[b]]
        \in [Bundle -> Signer \cup {None}]
  BY StateFields
<1>4. s.owner \in Signer \cup {NoOwner}
  BY StateFields
<1>. QED  BY <1>2, <1>3, <1>4 DEF MergeState, State, MaybeEntry

\* The merge at one key and one bundle.
LEMMA MergeAt ==
    ASSUME NEW s, NEW t
    PROVE  /\ MergeState(s, t).owner = s.owner
           /\ \A k \in Key : MergeState(s, t).entry[k] = Pick(k, s.entry[k], t.entry[k])
           /\ \A b \in Bundle : MergeState(s, t).objects[b] =
                 IF s.objects[b] # None THEN s.objects[b] ELSE t.objects[b]
BY DEF MergeState

\* The bundles of a merge are the bundles of both sides.
LEMMA MergeBundles ==
    ASSUME NEW s \in State, NEW t \in State
    PROVE  Bundles(MergeState(s, t)) = Bundles(s) \cup Bundles(t)
BY MergeAt DEF Bundles

(***************************************************************************)
(* A merge holds everything either side held, entry for entry at least as  *)
(* high: merge_state "never overwrites with strictly-older info".          *)
(***************************************************************************)
THEOREM MergeIsUpperBound ==
    ASSUME NEW s \in State, NEW t \in State
    PROVE  StateLeq(s, MergeState(s, t)) /\ StateLeq(t, MergeState(s, t))
<1>1. ASSUME NEW k \in Key
      PROVE  /\ EntryLeq(k, s.entry[k], MergeState(s, t).entry[k])
             /\ EntryLeq(k, t.entry[k], MergeState(s, t).entry[k])
  BY MergeAt, StateFields, PickWins
<1>. QED  BY <1>1, MergeBundles DEF StateLeq

(***************************************************************************)
(* Replicas of one owner's repo merge to the same state whichever of them  *)
(* does the merging, and however many updates meet in whatever order: the  *)
(* convergence sign_validate_round_trip.rs samples with one racing pair.   *)
(* A record present on both sides is the same record, as signing is        *)
(* deterministic; here, a record signed by the owner.                      *)
(***************************************************************************)
SameRecords(s, t) ==
    \A b \in Bundle : s.objects[b] # None /\ t.objects[b] # None
                        => s.objects[b] = t.objects[b]

\* merge_state commutes on states of one repo: two updates of the owner lead to
\* the same state in either order.
THEOREM MergeCommutes ==
    ASSUME NEW s \in State, NEW t \in State, s.owner = t.owner, SameRecords(s, t)
    PROVE  MergeState(s, t) = MergeState(t, s)
<1>1. \A k \in Key : Pick(k, s.entry[k], t.entry[k]) = Pick(k, t.entry[k], s.entry[k])
  BY StateFields, PickCommutes
<1>2. \A b \in Bundle :
         (IF s.objects[b] # None THEN s.objects[b] ELSE t.objects[b])
           = (IF t.objects[b] # None THEN t.objects[b] ELSE s.objects[b])
  BY DEF SameRecords
<1>. QED  BY <1>1, <1>2 DEF MergeState

\* merge_state associates: updates may be grouped in any way.
THEOREM MergeAssociates ==
    ASSUME NEW s \in State, NEW t \in State, NEW u \in State
    PROVE  MergeState(MergeState(s, t), u) = MergeState(s, MergeState(t, u))
<1>1. \A k \in Key : Pick(k, Pick(k, s.entry[k], t.entry[k]), u.entry[k])
                        = Pick(k, s.entry[k], Pick(k, t.entry[k], u.entry[k]))
  BY StateFields, PickAssociates
<1>. QED  BY <1>1, MergeAt DEF MergeState

\* Applying what a replica already holds changes nothing: a repeated update.
THEOREM MergeAbsorbs ==
    ASSUME NEW s \in State, NEW t \in State, StateLeq(t, s)
    PROVE  MergeState(s, t) = s
<1>1. \A k \in Key : Pick(k, s.entry[k], t.entry[k]) = s.entry[k]
  BY StateFields, EntryOrder DEF StateLeq
<1>2. \A b \in Bundle :
         (IF s.objects[b] # None THEN s.objects[b] ELSE t.objects[b]) = s.objects[b]
  BY DEF StateLeq, Bundles
<1>. QED  BY <1>1, <1>2, StateFields DEF MergeState, State

-------------------------------------------------------------------------------
(***************************************************************************)
(* update_state and the two-update batch.                                  *)
(***************************************************************************)

\* The order on states is reflexive and transitive.
LEMMA StateOrder ==
    ASSUME NEW s \in State, NEW t \in State, NEW u \in State
    PROVE  /\ StateLeq(s, s)
           /\ StateLeq(s, t) /\ StateLeq(t, u) => StateLeq(s, u)
BY StateFields, EntryOrder DEF StateLeq

\* An update yields a state, at least as high, with the same owner; if it
\* changes anything the result is valid.
LEMMA UpdateFacts ==
    ASSUME NEW s \in State, NEW d \in State
    PROVE  /\ UpdateState(s, d) \in State
           /\ UpdateState(s, d).owner = s.owner
           /\ StateLeq(s, UpdateState(s, d))
           /\ UpdateState(s, d) = s \/ ValidateState(UpdateState(s, d))
           /\ UpdateState(s, d) = s \/ UpdateState(s, d) = MergeState(s, d)
BY MergeType, MergeAt, MergeIsUpperBound, StateOrder DEF UpdateState, UpdateAccepted

\* Two updates in one call are all or nothing, and only ever climb.
LEMMA BatchFacts ==
    ASSUME NEW s \in State, NEW d \in State, NEW e \in State
    PROVE  /\ UpdateBatch(s, d, e) \in State
           /\ UpdateBatch(s, d, e).owner = s.owner
           /\ StateLeq(s, UpdateBatch(s, d, e))
           /\ UpdateBatch(s, d, e) = s \/ ValidateState(UpdateBatch(s, d, e))
           /\ \/ UpdateBatch(s, d, e) = s
              \/ UpdateBatch(s, d, e) = MergeState(MergeState(s, d), e)
<1>. DEFINE m == MergeState(s, d)
            n == MergeState(m, e)
<1>1. m \in State /\ n \in State
  BY MergeType
<1>2. m.owner = s.owner /\ n.owner = s.owner
  BY MergeAt
<1>3. StateLeq(s, s) /\ StateLeq(s, n)
  BY <1>1, MergeIsUpperBound, StateOrder
<1>. HIDE DEF m, n
<1>4. UpdateBatch(s, d, e) = IF BatchAccepted(s, d, e) THEN n ELSE s
  BY DEF UpdateBatch, m, n
<1>5. BatchAccepted(s, d, e) => ValidateState(n)
  BY DEF BatchAccepted, UpdateAccepted, m, n
<1>. QED  BY <1>1, <1>2, <1>3, <1>4, <1>5 DEF m, n

-------------------------------------------------------------------------------
(***************************************************************************)
(* What create publishes and what a push submits are states.               *)
(***************************************************************************)

\* The states a repo starts from are states.
LEMMA InitialTypes == EmptyState \in State /\ InitialState \in State
<1>1. [value |-> "initial", seq |-> 1, by |-> Owner] \in Entry
  BY RepoStateAssumption DEF Entry, Value, Seq0
<1>2. EmptyState \in State
  BY DEF EmptyState, State
<1>. QED  BY <1>1, <1>2, RepoStateAssumption DEF InitialState, EmptyState, State

\* The keys of a push, by the names of what they hold.
LEMMA KeyParts ==
    /\ \A r \in RefName : RefKey(r) \in Key /\ RefKey(r)[2] = r
    /\ \A b \in Bundle : TipKey(b) \in Key /\ TipKey(b)[2] = b
    /\ MirrorKey \in Key
    /\ \A r \in RefName, b \in Bundle : RefKey(r) # TipKey(b)
    /\ \A r \in RefName : RefKey(r) # MirrorKey
    /\ \A b \in Bundle : TipKey(b) # MirrorKey
BY DEF Key, RefKey, TipKey, MirrorKey

\* What is pushed is a commit, and its pack a bundle.
LEMMA SpecTypes ==
    ASSUME NEW clone \in SUBSET Commit, NEW s, NEW force, NEW specs \in Specs(clone),
           NEW r \in Pushed(clone, s, specs, force)
    PROVE  /\ r \in RefName
           /\ specs[r] \in clone /\ specs[r] \in Commit
           /\ Have(clone, s, r) \in Commit \cup {None}
           /\ PackFor(clone, s, specs, r) \in Bundle
<1>1. r \in RefName /\ specs[r] \in clone /\ specs[r] \in Commit
  BY DEF Pushed, Pushable, Specs
<1>2. Have(clone, s, r) \in Commit \cup {None}
  BY DEF Have
<1>. QED  BY <1>1, <1>2 DEF PackFor, Bundle

\* The delta of a push is a state, provided its sequence numbers are in bounds.
LEMMA PushDeltaType ==
    ASSUME NEW clone \in SUBSET Commit, NEW s \in State, NEW force, NEW mode \in Modes, NEW last,
           NEW specs \in Specs(clone),
           NEW rs, rs = Pushed(clone, s, specs, force),
           NEW d, d = PushDelta(clone, s, specs, rs, last, mode), Submittable(s, d)
    PROVE  d \in State
<1>. DEFINE built == {PackFor(clone, s, specs, r) : r \in rs}
            refs  == {RefKey(r) : r \in rs}
            tips  == {TipKey(b) : b \in built}
            MirrorMoves == mode # None /\ (s.entry[MirrorKey] = None
                                           \/ s.entry[MirrorKey].value # mode)
<1>1. \A r \in rs : r \in RefName /\ specs[r] \in Commit /\ PackFor(clone, s, specs, r) \in Bundle
  BY SpecTypes
<1>2. \A k \in Key : SeqAt(s, k) \in Int /\ SeqAt(s, k) >= 0
  BY StateFields, EntryFields DEF SeqAt
<1>3. \A value \in Value, seq \in Seq0 : Signed(value, seq) \in Entry /\ Signed(value, seq).seq = seq
  BY RepoStateAssumption DEF Signed, Entry
<1>4. \A k \in Key : d.entry[k] \in MaybeEntry
  <2>. SUFFICES ASSUME NEW k \in Key PROVE d.entry[k] \in MaybeEntry
    OBVIOUS
  <2>1. CASE k \in refs
    <3>1. PICK r \in rs : k = RefKey(r)
      BY <2>1
    <3>2. d.entry[k] = Signed(specs[r], SeqAt(s, k) + 1)
      BY <2>1, <3>1, <1>1, KeyParts DEF PushDelta
    <3>3. d.entry[k] # None => SeqAt(s, k) + 1 \in Seq0
      BY <3>2, <1>2, RepoStateAssumption DEF Submittable, Signed, Seq0
    <3>. QED  BY <3>1, <3>2, <3>3, <1>1, <1>3 DEF Value, MaybeEntry
  <2>2. CASE k \notin refs /\ k \in tips
    <3>1. PICK b \in built : k = TipKey(b)
      BY <2>2
    <3>2. b \in Bundle /\ k[2] = b
      BY <3>1, <1>1, KeyParts
    <3>3. Advertised(clone, s, specs, rs, last, b) \in Commit
      BY <3>1, <1>1 DEF Advertised
    <3>4. d.entry[k] = TipEntry(Advertised(clone, s, specs, rs, last, b))
      BY <2>2, <3>2 DEF PushDelta
    <3>. QED  BY <3>3, <3>4, <1>3, PushAssumption DEF TipEntry, Value, MaybeEntry
  <2>3. CASE k \notin refs /\ k \notin tips /\ k = MirrorKey /\ MirrorMoves
    <3>1. d.entry[k] = Signed(mode, SeqAt(s, k) + 1)
      BY <2>3 DEF PushDelta
    <3>2. d.entry[k] # None => SeqAt(s, k) + 1 \in Seq0
      BY <3>1, <1>2, RepoStateAssumption DEF Submittable, Signed, Seq0
    <3>3. mode \in Value
      BY <2>3, PushAssumption DEF Value
    <3>. QED  BY <3>1, <3>2, <3>3, <1>3 DEF MaybeEntry
  <2>4. CASE k \notin refs /\ k \notin tips /\ ~(k = MirrorKey /\ MirrorMoves)
    <3>1. d.entry[k] = None
      BY <2>4 DEF PushDelta
    <3>. QED  BY <3>1 DEF MaybeEntry
  <2>. QED  BY <2>1, <2>2, <2>3, <2>4
<1>5. d.entry \in [Key -> MaybeEntry]
  BY <1>4 DEF PushDelta
<1>6. d.objects \in [Bundle -> Signer \cup {None}] /\ d.owner = NoOwner
  BY RepoStateAssumption DEF PushDelta
<1>. QED  BY <1>5, <1>6 DEF State, MaybeEntry, PushDelta
\* What a push signs for a ref, a tip and the mode; every signature is the owner's.
Signs(d, clone, s, specs, rs, built, last, mode) ==
    /\ rs \subseteq RefName /\ built \subseteq Bundle
    /\ \A r \in rs : d.entry[RefKey(r)] = Signed(specs[r], SeqAt(s, RefKey(r)) + 1)
    /\ \A r \in RefName \ rs : d.entry[RefKey(r)] = None
    /\ \A b \in built : d.entry[TipKey(b)] = TipEntry(Advertised(clone, s, specs, rs, last, b))
    /\ \A b \in Bundle \ built : d.entry[TipKey(b)] = None
    /\ d.entry[MirrorKey] =
          IF mode # None /\ (s.entry[MirrorKey] = None \/ s.entry[MirrorKey].value # mode)
          THEN Signed(mode, SeqAt(s, MirrorKey) + 1) ELSE None
    /\ \A k \in Key : d.entry[k] # None => d.entry[k].by = Owner
    /\ d.objects = [b \in Bundle |-> IF b \in built THEN Owner ELSE None]

\* The delta of a push, key by key.
LEMMA DeltaAt ==
    ASSUME NEW clone \in SUBSET Commit, NEW s \in State, NEW force, NEW mode \in Modes, NEW last,
           NEW specs \in Specs(clone)
    PROVE  LET rs == Pushed(clone, s, specs, force)
           IN  Signs(PushDelta(clone, s, specs, rs, last, mode), clone, s, specs, rs,
                     {PackFor(clone, s, specs, r) : r \in rs}, last, mode)
<1>. DEFINE rs == Pushed(clone, s, specs, force)
            built == {PackFor(clone, s, specs, r) : r \in rs}
            d == PushDelta(clone, s, specs, rs, last, mode)
<1>. DEFINE refs == {RefKey(r) : r \in rs}
            tips == {TipKey(b) : b \in built}
<1>1. rs \subseteq RefName /\ built \subseteq Bundle
  BY SpecTypes
<1>2. \A r \in RefName : RefKey(r) \in refs <=> r \in rs
  BY <1>1 DEF RefKey
<1>3. \A b \in Bundle : /\ TipKey(b) \notin refs
                        /\ TipKey(b) \in tips <=> b \in built
  BY <1>1, KeyParts DEF TipKey, RefKey
<1>4. MirrorKey \notin refs /\ MirrorKey \notin tips
  BY <1>1, KeyParts
<1>5. \A r \in RefName : RefKey(r) \notin tips /\ RefKey(r) # MirrorKey
  BY <1>1, KeyParts
<1>6. /\ d.objects = [b \in Bundle |-> IF b \in built THEN Owner ELSE None]
      /\ \A k \in Key : d.entry[k] =
            IF k \in refs THEN Signed(specs[k[2]], SeqAt(s, k) + 1)
            ELSE IF k \in tips THEN TipEntry(Advertised(clone, s, specs, rs, last, k[2]))
            ELSE IF k = MirrorKey /\ mode # None
                    /\ (s.entry[k] = None \/ s.entry[k].value # mode)
                 THEN Signed(mode, SeqAt(s, k) + 1)
            ELSE None
  BY DEF PushDelta
<1>. HIDE DEF refs, tips, rs, built, d
<1>7. \A k \in Key : d.entry[k] # None => d.entry[k].by = Owner
  <2>1. \A v, n : Signed(v, n).by = Owner
    BY DEF Signed
  <2>2. \A v : TipEntry(v).by = Owner
    BY <2>1 DEF TipEntry
  <2>. SUFFICES ASSUME NEW k \in Key, d.entry[k] # None PROVE d.entry[k].by = Owner
    OBVIOUS
  <2>3. \/ \E v, n : d.entry[k] = Signed(v, n)
        \/ \E v : d.entry[k] = TipEntry(v)
    BY <1>6
  <2>. QED  BY <2>1, <2>2, <2>3
<1>8. \A r \in RefName : d.entry[RefKey(r)] =
         IF r \in rs THEN Signed(specs[r], SeqAt(s, RefKey(r)) + 1) ELSE None
  BY <1>2, <1>5, <1>6, KeyParts
<1>9. \A b \in Bundle : d.entry[TipKey(b)] =
         IF b \in built THEN TipEntry(Advertised(clone, s, specs, rs, last, b)) ELSE None
  BY <1>3, <1>6, KeyParts
<1>10. d.entry[MirrorKey] =
         IF mode # None /\ (s.entry[MirrorKey] = None \/ s.entry[MirrorKey].value # mode)
         THEN Signed(mode, SeqAt(s, MirrorKey) + 1) ELSE None
  BY <1>4, <1>6, KeyParts
<1>. QED  BY <1>1, <1>6, <1>7, <1>8, <1>9, <1>10 DEF Signs, rs, built, d

\* What a push signs is never mistaken for no entry.
LEMMA SignedEntry ==
    ASSUME NEW s \in State, NEW k \in Key, NEW value \in Value
    PROVE  /\ Signed(value, SeqAt(s, k) + 1) # None
           /\ Signed(value, SeqAt(s, k) + 1).value = value
           /\ Signed(value, SeqAt(s, k) + 1).seq = SeqAt(s, k) + 1
           /\ SeqAt(s, k) \in Int
<1>1. SeqAt(s, k) \in Int /\ SeqAt(s, k) >= 0 /\ SeqAt(s, k) <= MaxSeq
  BY StateFields, EntryFields, RepoStateAssumption DEF SeqAt
<1>2. SeqAt(s, k) + 1 \in Seq0 \cup {MaxSeq + 1}
  BY <1>1, RepoStateAssumption DEF Seq0
<1>3. Signed(value, SeqAt(s, k) + 1) \in Entry
        \cup [value : Value, seq : {MaxSeq + 1}, by : Signer]
  BY <1>2, RepoStateAssumption DEF Signed, Entry
<1>. QED  BY <1>1, <1>3, RepoStateAssumption DEF Signed

-------------------------------------------------------------------------------
(***************************************************************************)
(* The update of a push, and what the contract makes of it.                *)
(***************************************************************************)

\* What the state has under a key.
ValueAt(s, k) == IF s.entry[k] = None THEN None ELSE s.entry[k].value

\* The update of an older helper: the same without tips.
LEMMA UntipAt ==
    ASSUME NEW d \in State
    PROVE  /\ Untip(d) \in State
           /\ Untip(d).objects = d.objects
           /\ \A r \in RefName : Untip(d).entry[RefKey(r)] = d.entry[RefKey(r)]
           /\ \A b \in Bundle : Untip(d).entry[TipKey(b)] = None
           /\ Untip(d).entry[MirrorKey] = d.entry[MirrorKey]
           /\ \A k \in Key : Untip(d).entry[k] \in {None, d.entry[k]}
<1>. DEFINE tips == {TipKey(b) : b \in Bundle}
            f    == [k \in Key |-> IF k \in tips THEN None ELSE d.entry[k]]
<1>1. /\ d.entry \in [Key -> MaybeEntry]
      /\ d = [owner |-> d.owner, entry |-> d.entry, objects |-> d.objects]
      /\ d.owner \in Signer \cup {NoOwner} /\ d.objects \in [Bundle -> Signer \cup {None}]
  BY DEF State, MaybeEntry
<1>2. Untip(d) = [owner |-> d.owner, entry |-> f, objects |-> d.objects]
  BY <1>1 DEF Untip
<1>3. f \in [Key -> MaybeEntry]
  BY <1>1 DEF MaybeEntry
<1>4. \A k \in Key : f[k] = IF k \in tips THEN None ELSE d.entry[k]
  OBVIOUS
<1>5. /\ \A r \in RefName : RefKey(r) \in Key /\ RefKey(r) \notin tips
      /\ \A b \in Bundle : TipKey(b) \in Key /\ TipKey(b) \in tips
      /\ MirrorKey \in Key /\ MirrorKey \notin tips
  BY KeyParts
<1>. HIDE DEF f, tips
<1>. QED  BY <1>1, <1>2, <1>3, <1>4, <1>5 DEF State, MaybeEntry
(***************************************************************************)
(* What merging a push into the state it was made from does: the refs of   *)
(* the push move, the mode is what the push says, a bundle's tip stays or  *)
(* becomes the push's, and the packs are listed.  e is the delta d of a    *)
(* helper that records tips, or of one that does not.                      *)
(***************************************************************************)
Merges(d, e, clone, s, t, specs, rs, built, last, mode) ==
    /\ t \in State /\ ValidateState(t)
    /\ rs \subseteq RefName /\ built \subseteq Bundle
    /\ Bundles(e) = built /\ Bundles(t) = Bundles(s) \cup built
    /\ \A r \in RefName : Target(t, r) = IF r \in rs THEN specs[r] ELSE Target(s, r)
    /\ ValueAt(t, MirrorKey) = IF mode = None THEN ValueAt(s, MirrorKey) ELSE mode
    /\ \A b \in Bundle :
          \/ ValueAt(t, TipKey(b)) = ValueAt(s, TipKey(b))
          \/ b \in built /\ ValueAt(t, TipKey(b)) = Advertised(clone, s, specs, rs, last, b)
    /\ e = d => \A b \in built : ValueAt(t, TipKey(b)) # None

LEMMA PushMerged ==
    ASSUME NEW clone \in SUBSET Commit, NEW s \in State, ValidateState(s),
           NEW force, NEW mode \in Modes, NEW last, NEW specs \in Specs(clone),
           NEW rs, rs = Pushed(clone, s, specs, force),
           NEW built, built = {PackFor(clone, s, specs, r) : r \in rs},
           NEW d, d = PushDelta(clone, s, specs, rs, last, mode), Submittable(s, d),
           NEW e, e = d \/ e = Untip(d),
           NEW t, t = UpdateState(s, e)
    PROVE  Merges(d, e, clone, s, t, specs, rs, built, last, mode)
<1>1. d \in State
  BY PushDeltaType
<1>. DEFINE tip(b) == Advertised(clone, s, specs, rs, last, b)
<1>0. Signs(d, clone, s, specs, rs, built, last, mode)
  BY DeltaAt
<1>2. e \in State /\ e.objects = d.objects
  BY <1>1, UntipAt
<1>3. \A k \in Key : e.entry[k] \in {None, d.entry[k]}
  BY UntipAt, <1>1
<1>4. \A k \in Key : e.entry[k] # None => e.entry[k].by = Owner
  BY <1>3, <1>0 DEF Signs
<1>5. /\ rs \subseteq RefName /\ built \subseteq Bundle
      /\ e.objects = [b \in Bundle |-> IF b \in built THEN Owner ELSE None]
  BY <1>2, <1>0 DEF Signs
<1>6. Bundles(e) = built
  BY <1>5, RepoStateAssumption DEF Bundles
<1>7. s.owner = Owner
  BY DEF ValidateState
<1>8. ValidateState(MergeState(s, e))
  <2>1. \A k \in Key : MergeState(s, e).entry[k] \in {s.entry[k], e.entry[k]}
    BY <1>2, MergeAt, StateFields, PickWins
  <2>2. \A b \in Bundle : MergeState(s, e).objects[b] \in {s.objects[b], Owner, None}
    BY <1>5, MergeAt
  <2>3. MergeState(s, e).owner = Owner
    BY <1>7, MergeAt
  <2>. QED  BY <2>1, <2>2, <2>3, <1>4 DEF ValidateState
<1>9. t = MergeState(s, e) /\ t \in State /\ ValidateState(t)
  BY <1>2, <1>8, MergeType DEF UpdateState, UpdateAccepted
<1>10. Bundles(t) = Bundles(s) \cup built
  BY <1>2, <1>6, <1>9, MergeBundles
<1>11. \A k \in Key : t.entry[k] = Pick(k, s.entry[k], e.entry[k])
  BY <1>9, MergeAt
<1>12. \A k \in Key : /\ e.entry[k] = None => t.entry[k] = s.entry[k]
                      /\ e.entry[k] # None /\ e.entry[k].seq > SeqAt(s, k)
                           => t.entry[k] = e.entry[k]
  <2>. SUFFICES ASSUME NEW k \in Key
                PROVE  /\ e.entry[k] = None => t.entry[k] = s.entry[k]
                       /\ e.entry[k] # None /\ e.entry[k].seq > SeqAt(s, k)
                            => t.entry[k] = e.entry[k]
    OBVIOUS
  <2>1. s.entry[k] \in MaybeEntry /\ e.entry[k] \in MaybeEntry
    BY <1>2, StateFields
  <2>2. t.entry[k] = Pick(k, s.entry[k], e.entry[k])
    BY <1>11
  <2>. QED  BY <2>1, <2>2, EntryFields DEF Pick, PickHigherSeq, SeqAt
<1>13. \A r \in RefName : Target(t, r) = IF r \in rs THEN specs[r] ELSE Target(s, r)
  <2>1. ASSUME NEW r \in rs PROVE Target(t, r) = specs[r]
    <3>1. r \in RefName /\ RefKey(r) \in Key
      BY <1>5, KeyParts
    <3>2. e.entry[RefKey(r)] = d.entry[RefKey(r)]
      BY <3>1, <1>1, UntipAt
    <3>3. d.entry[RefKey(r)] = Signed(specs[r], SeqAt(s, RefKey(r)) + 1)
      BY <1>0 DEF Signs
    <3>4. specs[r] \in Value
      BY SpecTypes DEF Value
    <3>5. /\ d.entry[RefKey(r)] # None
          /\ d.entry[RefKey(r)].value = specs[r]
          /\ d.entry[RefKey(r)].seq > SeqAt(s, RefKey(r))
      BY <3>1, <3>3, <3>4, SignedEntry
    <3>6. t.entry[RefKey(r)] = d.entry[RefKey(r)]
      BY <3>1, <3>2, <3>5, <1>12
    <3>. QED  BY <3>5, <3>6 DEF Target
  <2>2. ASSUME NEW r \in RefName \ rs PROVE Target(t, r) = Target(s, r)
    <3>1. d.entry[RefKey(r)] = None
      BY <1>0 DEF Signs
    <3>2. e.entry[RefKey(r)] = None /\ RefKey(r) \in Key
      BY <3>1, <1>3, KeyParts
    <3>. QED  BY <3>2, <1>12 DEF Target
  <2>. QED  BY <2>1, <2>2
<1>14. ValueAt(t, MirrorKey) = IF mode = None THEN ValueAt(s, MirrorKey) ELSE mode
  <2>1. MirrorKey \in Key /\ e.entry[MirrorKey] = d.entry[MirrorKey]
    BY <1>1, KeyParts, UntipAt
  <2>2. d.entry[MirrorKey] =
          IF mode # None /\ (s.entry[MirrorKey] = None \/ s.entry[MirrorKey].value # mode)
          THEN Signed(mode, SeqAt(s, MirrorKey) + 1) ELSE None
    BY <1>0 DEF Signs
  <2>3. CASE mode # None /\ (s.entry[MirrorKey] = None \/ s.entry[MirrorKey].value # mode)
    <3>1. mode \in Value
      BY <2>3, PushAssumption DEF Value
    <3>2. e.entry[MirrorKey] = Signed(mode, SeqAt(s, MirrorKey) + 1)
      BY <2>1, <2>2, <2>3
    <3>3. t.entry[MirrorKey] = Signed(mode, SeqAt(s, MirrorKey) + 1)
      BY <2>1, <3>1, <3>2, <1>12, SignedEntry
    <3>. QED  BY <2>1, <2>3, <3>1, <3>3, SignedEntry DEF ValueAt
  <2>4. CASE ~(mode # None /\ (s.entry[MirrorKey] = None \/ s.entry[MirrorKey].value # mode))
    <3>1. t.entry[MirrorKey] = s.entry[MirrorKey]
      BY <2>1, <2>2, <2>4, <1>12
    <3>. QED  BY <2>4, <3>1 DEF ValueAt
  <2>. QED  BY <2>3, <2>4
<1>15. \A b \in built : /\ d.entry[TipKey(b)] # None
                        /\ d.entry[TipKey(b)].value = tip(b)
  <2>. SUFFICES ASSUME NEW b \in built
                PROVE  /\ d.entry[TipKey(b)] # None
                       /\ d.entry[TipKey(b)].value = tip(b)
    OBVIOUS
  <2>1. d.entry[TipKey(b)] = TipEntry(tip(b))
    BY <1>0 DEF Signs
  <2>2. tip(b) \in Commit
    BY SpecTypes DEF Advertised
  <2>3. Signed(tip(b), BundleTipSeq) \in Entry
    BY <2>2, RepoStateAssumption, PushAssumption DEF Signed, Entry, Value
  <2>. QED  BY <2>1, <2>3, RepoStateAssumption DEF TipEntry, Signed
<1>16. \A b \in Bundle :
         \/ t.entry[TipKey(b)] = s.entry[TipKey(b)]
         \/ b \in built /\ t.entry[TipKey(b)] = d.entry[TipKey(b)]
  <2>. SUFFICES ASSUME NEW b \in Bundle, t.entry[TipKey(b)] # s.entry[TipKey(b)]
                PROVE  b \in built /\ t.entry[TipKey(b)] = d.entry[TipKey(b)]
    OBVIOUS
  <2>1. TipKey(b) \in Key
    BY KeyParts
  <2>2. t.entry[TipKey(b)] = e.entry[TipKey(b)] /\ e.entry[TipKey(b)] # None
    BY <2>1, <1>2, <1>11, <1>12, StateFields, PickWins
  <2>3. e.entry[TipKey(b)] = d.entry[TipKey(b)] /\ d.entry[TipKey(b)] # None
    BY <2>1, <2>2, <1>3
  <2>. QED  BY <2>2, <2>3, <1>0 DEF Signs
<1>17. \A b \in Bundle :
         \/ ValueAt(t, TipKey(b)) = ValueAt(s, TipKey(b))
         \/ b \in built /\ ValueAt(t, TipKey(b)) = tip(b)
  BY <1>15, <1>16 DEF ValueAt
<1>18. e = d => \A b \in built : ValueAt(t, TipKey(b)) # None
  <2>. SUFFICES ASSUME e = d, NEW b \in built PROVE ValueAt(t, TipKey(b)) # None
    OBVIOUS
  <2>1. b \in Bundle /\ TipKey(b) \in Key
    BY <1>5, KeyParts
  <2>2. t.entry[TipKey(b)] # None /\ t.entry[TipKey(b)] \in MaybeEntry
    BY <2>1, <1>2, <1>9, <1>11, <1>15, StateFields, PickWins
  <2>. QED  BY <2>2, EntryFields, RepoStateAssumption DEF ValueAt
<1>. QED
  BY <1>5, <1>6, <1>9, <1>10, <1>13, <1>14, <1>17, <1>18 DEF Merges

-------------------------------------------------------------------------------
(***************************************************************************)
(* The commit graph.                                                       *)
(***************************************************************************)

\* No commit has another's history.
LEMMA AncUnique ==
    ASSUME NEW c \in Commit, NEW t \in Commit, Anc[c] = Anc[t]
    PROVE  c = t
<1>. SUFFICES ASSUME c # t PROVE FALSE
  OBVIOUS
<1>. DEFINE cs == {t} \cup UNION {Anc[p] : p \in Parents[t]}
<1>1. Parents[t] \in SUBSET Commit /\ \A p \in Parents[t] : Anc[p] \in SUBSET Commit
  BY HistoryAssumption
<1>2. \A p \in Parents[t] : p \in Anc[p] /\ Closed(Anc[p]) /\ t \notin Anc[p]
  BY <1>1, HistoryAssumption
<1>3. Closed(cs)
  BY <1>1, <1>2 DEF Closed
<1>4. cs \in SUBSET Commit /\ t \in cs
  BY <1>1
<1>5. Anc[t] \subseteq cs
  BY <1>3, <1>4, HistoryAssumption
<1>6. c \in Anc[t] /\ t \in Anc[c]
  BY HistoryAssumption
<1>7. PICK p \in Parents[t] : c \in Anc[p]
  BY <1>5, <1>6
<1>8. Anc[c] \subseteq Anc[p]
  BY <1>1, <1>2, <1>7, HistoryAssumption
<1>. QED  BY <1>2, <1>6, <1>7, <1>8
-------------------------------------------------------------------------------
(***************************************************************************)
(* Covered.  What the owner signed in s points into history that the       *)
(* bundles bs and those of s contain.                                      *)
(***************************************************************************)
Covered(s, bs) ==
    \A r \in RefName :
        s.entry[RefKey(r)] # None /\ s.entry[RefKey(r)].by = Owner
          => Covers(bs \cup Bundles(s), s.entry[RefKey(r)].value)

\* More bundles cover more.
LEMMA CoveredMore ==
    ASSUME NEW s, NEW bs, NEW cs, bs \subseteq cs, Covered(s, bs)
    PROVE  Covered(s, cs)
<1>1. UNION (bs \cup Bundles(s)) \subseteq UNION (cs \cup Bundles(s))
  OBVIOUS
<1>. QED  BY <1>1 DEF Covered, Covers

\* A merge of covered states is covered.
LEMMA CoveredMerge ==
    ASSUME NEW s \in State, NEW d \in State, NEW bs, Covered(s, bs), Covered(d, bs)
    PROVE  Covered(MergeState(s, d), bs)
<1>. DEFINE m == MergeState(s, d)
<1>. SUFFICES ASSUME NEW r \in RefName, m.entry[RefKey(r)] # None,
                     m.entry[RefKey(r)].by = Owner
              PROVE  Covers(bs \cup Bundles(m), m.entry[RefKey(r)].value)
  BY DEF Covered
<1>1. RefKey(r) \in Key
  BY KeyParts
<1>2. m.entry[RefKey(r)] \in {s.entry[RefKey(r)], d.entry[RefKey(r)]}
  BY <1>1, MergeAt, StateFields, PickWins
<1>3. Bundles(m) = Bundles(s) \cup Bundles(d)
  BY MergeBundles
<1>4. /\ UNION (bs \cup Bundles(s)) \subseteq UNION (bs \cup Bundles(m))
      /\ UNION (bs \cup Bundles(d)) \subseteq UNION (bs \cup Bundles(m))
  BY <1>3
<1>5. CASE m.entry[RefKey(r)] = s.entry[RefKey(r)]
  <2>1. Covers(bs \cup Bundles(s), m.entry[RefKey(r)].value)
    BY <1>5 DEF Covered
  <2>. QED  BY <2>1, <1>4 DEF Covers
<1>6. CASE m.entry[RefKey(r)] = d.entry[RefKey(r)]
  <2>1. Covers(bs \cup Bundles(d), m.entry[RefKey(r)].value)
    BY <1>6 DEF Covered
  <2>. QED  BY <2>1, <1>4 DEF Covers
<1>. QED  BY <1>2, <1>5, <1>6

(***************************************************************************)
(* A push covers what it points at: what its pack leaves out is history of *)
(* the base, and the base was covered already.                             *)
(***************************************************************************)
LEMMA CoveredPush ==
    ASSUME NEW clone \in SUBSET Commit, NEW s \in State, NEW force, NEW mode, NEW last, NEW bs,
           NEW specs \in Specs(clone),
           NEW rs, rs = Pushed(clone, s, specs, force),
           Bundles(s) \subseteq bs, Covered(s, bs), ValidateState(s)
    PROVE  Covered(PushDelta(clone, s, specs, rs, last, mode), bs)
<1>. DEFINE d == PushDelta(clone, s, specs, rs, last, mode)
<1>. SUFFICES ASSUME NEW r \in RefName, d.entry[RefKey(r)] # None
              PROVE  Covers(bs \cup Bundles(d), d.entry[RefKey(r)].value)
  BY DEF Covered
<1>1. \A t \in RefName : RefKey(t) = RefKey(r) => t = r
  BY DEF RefKey
<1>2. r \in rs
  BY <1>1, KeyParts, SpecTypes DEF PushDelta
<1>3. d.entry[RefKey(r)].value = specs[r]
  BY <1>2, KeyParts DEF PushDelta, Signed
<1>4. PackFor(clone, s, specs, r) \in Bundles(d)
  BY <1>2, SpecTypes, RepoStateAssumption DEF PushDelta, Bundles
<1>5. Anc[specs[r]] \subseteq PackFor(clone, s, specs, r) \cup UNION bs
  <2>1. CASE Have(clone, s, r) = None
    BY <2>1 DEF PackFor, BuildPack
  <2>2. CASE Have(clone, s, r) # None
    <3>1. Have(clone, s, r) = Target(s, r) /\ Target(s, r) # None
      BY <2>2 DEF Have
    <3>2. s.entry[RefKey(r)] # None /\ s.entry[RefKey(r)].value = Target(s, r)
      BY <3>1 DEF Target
    <3>3. s.entry[RefKey(r)].by = Owner
      BY <3>2, KeyParts DEF ValidateState
    <3>4. Covers(bs \cup Bundles(s), Target(s, r))
      BY <3>2, <3>3 DEF Covered
    <3>5. UNION (bs \cup Bundles(s)) \subseteq UNION bs
      OBVIOUS
    <3>. QED  BY <2>2, <3>1, <3>4, <3>5 DEF PackFor, BuildPack, Covers
  <2>. QED  BY <2>1, <2>2
<1>6. PackFor(clone, s, specs, r) \cup UNION bs \subseteq UNION (bs \cup Bundles(d))
  BY <1>4
<1>. QED  BY <1>3, <1>5, <1>6 DEF Covers

\* Updates cover what they merge.
LEMMA CoveredUpdate ==
    ASSUME NEW s \in State, NEW d \in State, NEW e \in State, NEW bs,
           Covered(s, bs), Covered(d, bs), Covered(e, bs)
    PROVE  Covered(UpdateState(s, d), bs) /\ Covered(UpdateBatch(s, d, e), bs)
<1>1. MergeState(s, d) \in State
  BY MergeType
<1>2. Covered(MergeState(s, d), bs) /\ Covered(MergeState(MergeState(s, d), e), bs)
  BY <1>1, CoveredMerge
<1>. QED  BY <1>2, UpdateFacts, BatchFacts
===============================================================================
