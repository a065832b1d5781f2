------------------------------ MODULE RescueProofs -----------------------------
(***************************************************************************)
(* That a rescue which reports success has kept a clone's bundles alive,   *)
(* and that a failure costs a run its own bundle only, for any commits,    *)
(* refs, pieces and losses.  Neither is inductive.  The invariant adds     *)
(* what a publisher who pushes snapshots has on record, and what a run in  *)
(* progress still means to PUT.                                            *)
(***************************************************************************)
EXTENDS Rescue, RepoStateProofs

RescueRun == [status : {"none", "running", "ok", "failed", "bailed"},
              chosen : SUBSET Bundle, todo : SUBSET Bundle, packs : SUBSET Bundle,
              manifests : SUBSET Bundle, failed : SUBSET Bundle]

\* The packs of pushes contain the history of every ref.
Listed ==
    \A r \in RefName : Target(contract, r) # None =>
        /\ Target(contract, r) \in Commit
        /\ Covers(Bundles(contract), Target(contract, r))

\* A publisher of snapshots has one ref, and every bundle with a tip is the whole
\* history of its tip.
Snapshots ==
    snapshotting =>
        /\ \A q, r \in RefName : Target(contract, q) # None /\ Target(contract, r) # None
                                    => q = r
        /\ \A b \in Bundle : TipOf(contract, b) # None =>
              TipOf(contract, b) \in Commit /\ b = Anc[TipOf(contract, b)]

\* The mode on record is snapshot only while the publisher pushes snapshots.
RecordedSnapshot == Recorded = "snapshot" => snapshotting

\* The bundles that are fresh, or that the run has not passed over in silence.
Attended ==
    {b \in Bundles(contract) : Pieces(b) \subseteq fresh \/ b \in rescue.todo \cup rescue.failed}

Attending ==
    rescue.status \in {"running", "ok"} =>
        /\ \A r \in RefName : Target(contract, r) # None => Covers(Attended, Target(contract, r))
        /\ rescue.status = "ok" => rescue.failed = {}

\* Whatever a run took on is fresh, still to do, or failed.
Accounted ==
    rescue.status = "running" =>
        \A b \in rescue.chosen : Pieces(b) \subseteq fresh \/ b \in rescue.todo \cup rescue.failed

RescueInv ==
    /\ TypeOK /\ rescue \in RescueRun /\ ValidateState(contract)
    /\ Listed /\ Snapshots /\ RecordedSnapshot /\ Attending /\ Accounted

-------------------------------------------------------------------------------
(***************************************************************************)
(* A push as a step of the system.                                         *)
(***************************************************************************)

\* What a push does to the contract, the pieces held and the run of rescue.
Pushes(specs, rs, built, mode) ==
    /\ contract' \in State /\ ValidateState(contract')
    /\ rs \subseteq RefName /\ built \subseteq Bundle
    /\ Bundles(contract') = Bundles(contract) \cup built
    /\ \A r \in RefName :
          Target(contract', r) = IF r \in rs THEN specs[r] ELSE Target(contract, r)
    /\ DetectMirrorMode(contract') = IF mode = None THEN DetectMirrorMode(contract) ELSE mode
    /\ held' = held \cup UNION {Pieces(b) : b \in built}
    /\ fresh' = fresh \cup UNION {Pieces(b) : b \in built}
    /\ UNCHANGED <<rescue, losses>>

\* Tips come from the push, and a helper that knows of modes gives every pack one.
Tips(clone, specs, rs, built, mode) ==
    /\ \A b \in Bundle :
          \/ TipOf(contract', b) = TipOf(contract, b)
          \/ \E last \in RefName :
                b \in built /\ TipOf(contract', b) = Advertised(clone, contract, specs, rs, last, b)
    /\ mode # None \/ Recorded # None => \A b \in built : TipOf(contract', b) # None

LEMMA PushEffect ==
    ASSUME contract \in State, ValidateState(contract),
           NEW clone \in SUBSET Commit, NEW specs \in Specs(clone), NEW force, NEW mode \in Modes,
           Push(clone, specs, force, mode),
           NEW rs, rs = Pushed(clone, contract, specs, force),
           NEW built, built = {PackFor(clone, contract, specs, r) : r \in rs}
    PROVE  Pushes(specs, rs, built, mode) /\ Tips(clone, specs, rs, built, mode)
<1>1. PICK last \in RefName :
        LET d == PushDelta(clone, contract, specs, rs, last, mode)
        IN  /\ Submittable(contract, d)
            /\ \/ Update(d)
               \/ OldHelpers /\ mode = None /\ Recorded = None /\ Update(Untip(d))
  BY Zenon DEF Push
<1>. DEFINE d == PushDelta(clone, contract, specs, rs, last, mode)
<1>2. PICK e : /\ e = d \/ (e = Untip(d) /\ mode = None /\ Recorded = None)
               /\ Update(e)
  BY <1>1
<1>3. Submittable(contract, d)
  BY <1>1
<1>. HIDE DEF d
<1>4. /\ contract' = UpdateState(contract, e)
      /\ held' = held \cup UNION {Pieces(b) : b \in Bundles(e)}
      /\ fresh' = fresh \cup UNION {Pieces(b) : b \in Bundles(e)}
      /\ UNCHANGED <<rescue, losses>>
  BY <1>2 DEF Update
<1>5. Merges(d, e, clone, contract, contract', specs, rs, built, last, mode)
  <2>1. d = PushDelta(clone, contract, specs, rs, last, mode)
    BY DEF d
  <2>2. e = d \/ e = Untip(d)
    BY <1>2
  <2>. QED  BY <2>1, <2>2, <1>3, <1>4, PushMerged
<1>6. Pushes(specs, rs, built, mode)
  BY <1>4, <1>5 DEF Merges, Pushes, ValueAt, DetectMirrorMode
<1>7. Tips(clone, specs, rs, built, mode)
  BY <1>2, <1>5 DEF Merges, Tips, ValueAt, TipOf
<1>. QED  BY <1>3, <1>6, <1>7

(***************************************************************************)
(* What every push keeps: the packs added hold what the old target's       *)
(* history lacks, and they are fresh.                                      *)
(***************************************************************************)
LEMMA PushKeeps ==
    ASSUME RescueInv, snapshotting' \in BOOLEAN,
           NEW clone \in SUBSET Commit, NEW specs \in Specs(clone), NEW force,
           NEW rs, rs = Pushed(clone, contract, specs, force),
           NEW built, built = {PackFor(clone, contract, specs, r) : r \in rs}, NEW mode,
           Pushes(specs, rs, built, mode)
    PROVE  TypeOK' /\ (rescue \in RescueRun)' /\ Listed' /\ Attending' /\ Accounted'
<1>1. /\ contract' \in State /\ ValidateState(contract')
      /\ rs \subseteq RefName /\ built \subseteq Bundle
      /\ Bundles(contract') = Bundles(contract) \cup built
      /\ \A r \in RefName :
            Target(contract', r) = IF r \in rs THEN specs[r] ELSE Target(contract, r)
      /\ held' = held \cup UNION {Pieces(b) : b \in built}
      /\ fresh' = fresh \cup UNION {Pieces(b) : b \in built}
      /\ rescue' = rescue /\ losses' = losses
  BY DEF Pushes
<1>2. TypeOK' /\ (rescue \in RescueRun)'
  BY <1>1 DEF TypeOK, RescueInv
<1>3. ASSUME NEW ks, NEW ms, ks \cup built \subseteq ms,
             \A r \in RefName : Target(contract, r) # None => Covers(ks, Target(contract, r))
      PROVE  \A r \in RefName : Target(contract', r) # None => Covers(ms, Target(contract', r))
  <2>. SUFFICES ASSUME NEW r \in RefName, Target(contract', r) # None
                PROVE  Covers(ms, Target(contract', r))
    OBVIOUS
  <2>1. UNION ks \subseteq UNION ms /\ \A b \in built : b \subseteq UNION ms
    BY <1>3
  <2>2. CASE r \notin rs
    BY <1>1, <1>3, <2>1, <2>2 DEF Covers
  <2>3. CASE r \in rs
    <3>1. Target(contract', r) = specs[r] /\ PackFor(clone, contract, specs, r) \in built
      BY <1>1, <2>3
    <3>2. PackFor(clone, contract, specs, r) \subseteq UNION ms
      BY <2>1, <3>1
    <3>3. CASE Have(clone, contract, r) = None
      BY <3>1, <3>2, <3>3 DEF PackFor, BuildPack, Covers
    <3>4. CASE Have(clone, contract, r) # None
      <4>1. Have(clone, contract, r) = Target(contract, r) /\ Target(contract, r) # None
        BY <3>4 DEF Have
      <4>2. Covers(ks, Target(contract, r))
        BY <1>3, <4>1
      <4>. QED  BY <2>1, <3>1, <3>2, <3>4, <4>1, <4>2 DEF PackFor, BuildPack, Covers
    <3>. QED  BY <3>3, <3>4
  <2>. QED  BY <2>2, <2>3
<1>4. Listed'
  <2>1. \A r \in RefName : Target(contract', r) # None =>
           Covers(Bundles(contract'), Target(contract', r))
    BY <1>1, <1>3 DEF Listed, RescueInv
  <2>2. \A r \in RefName : Target(contract', r) # None => Target(contract', r) \in Commit
    BY <1>1, SpecTypes DEF Listed, RescueInv
  <2>. QED  BY <2>1, <2>2 DEF Listed
<1>5. Attending'
  <2>1. Attended \cup built \subseteq Attended'
    <3>1. \A b \in built : Pieces(b) \subseteq fresh'
      BY <1>1
    <3>2. fresh \subseteq fresh'
      BY <1>1
    <3>. QED  BY <1>1, <3>1, <3>2 DEF Attended, Pieces
  <2>. SUFFICES ASSUME rescue'.status \in {"running", "ok"}
                PROVE  /\ \A r \in RefName : Target(contract', r) # None
                                              => Covers(Attended', Target(contract', r))
                       /\ rescue'.status = "ok" => rescue'.failed = {}
    BY DEF Attending
  <2>2. /\ \A r \in RefName : Target(contract, r) # None => Covers(Attended, Target(contract, r))
        /\ rescue.status = "ok" => rescue.failed = {}
    BY <1>1 DEF Attending, RescueInv
  <2>3. \A r \in RefName : Target(contract', r) # None => Covers(Attended', Target(contract', r))
    BY <1>3, <2>1, <2>2
  <2>. QED  BY <1>1, <2>2, <2>3
<1>6. Accounted'
  <2>1. fresh \subseteq fresh'
    BY <1>1
  <2>. QED  BY <1>1, <2>1 DEF Accounted, RescueInv, Pieces
<1>. QED  BY <1>2, <1>4, <1>5, <1>6

\* A push of a snapshot packs the fresh orphan commit whole, under its own tip, on the
\* one ref; one that skips its ref changes the mode at most.
LEMMA PushSnapshotStep == RescueInv /\ PushSnapshot => RescueInv'
<1>. SUFFICES ASSUME RescueInv, PushSnapshot PROVE RescueInv'
  OBVIOUS
<1>1. PICK c \in {d \in Commit : Parents[d] = {}} \cup {None},
           r \in RefName \ Tag, mode \in {"snapshot", None} \cap Modes :
        /\ \A q \in RefName \ {r} : Target(contract, q) = None
        /\ Push({c} \ {None}, [q \in RefName |-> IF q = r THEN c ELSE None], {r}, mode)
  BY DEF PushSnapshot
<1>. DEFINE clone == {c} \ {None}
            specs == [q \in RefName |-> IF q = r THEN c ELSE None]
            rs    == Pushed(clone, contract, specs, {r})
            built == {PackFor(clone, contract, specs, q) : q \in rs}
<1>2. clone \in SUBSET Commit /\ specs \in Specs(clone) /\ mode \in Modes
  BY DEF Specs
<1>3. contract \in State /\ ValidateState(contract) /\ snapshotting
  BY DEF RescueInv, TypeOK, PushSnapshot
<1>4. Pushes(specs, rs, built, mode) /\ Tips(clone, specs, rs, built, mode)
  BY <1>1, <1>2, <1>3, PushEffect
<1>5. snapshotting' = snapshotting /\ snapshotting' \in BOOLEAN
  BY DEF PushSnapshot, RescueInv, TypeOK
<1>6. TypeOK' /\ (rescue \in RescueRun)' /\ Listed' /\ Attending' /\ Accounted'
  <2>1. \E x : x = rs
    OBVIOUS
  <2>. QED  BY <1>2, <1>4, <1>5, PushKeeps
<1>7. \A q \in RefName : specs[q] = IF q = r THEN c ELSE None
  OBVIOUS
<1>8. rs \subseteq {r} /\ (rs # {} => c # None /\ c \in Commit /\ Target(contract, r) # c)
  BY <1>7 DEF Pushed, Pushable
<1>. HIDE DEF specs
<1>9. ASSUME rs # {}
      PROVE  /\ rs = {r} /\ clone = {c}
             /\ PackFor(clone, contract, specs, r) = Anc[c]
             /\ \A last : Advertised(clone, contract, specs, rs, last, Anc[c]) = c
  <2>1. rs = {r} /\ clone = {c} /\ specs[r] = c /\ c # None
    BY <1>7, <1>8, <1>9
  <2>. HIDE DEF rs, clone
  <2>2. Have(clone, contract, r) = None
    BY <1>8, <1>9, <2>1 DEF Have
  <2>3. PackFor(clone, contract, specs, r) = Anc[c]
    BY <2>1, <2>2 DEF PackFor, BuildPack
  <2>4. {q \in rs : PackFor(clone, contract, specs, q) = Anc[c]} = {r}
    BY <2>1, <2>3
  <2>5. (CHOOSE q \in {r} : TRUE) = r
    OBVIOUS
  <2>. QED  BY <2>1, <2>3, <2>4, <2>5 DEF Advertised
<1>10. /\ rs = {} => built = {}
       /\ rs # {} => built = {Anc[c]} /\ Anc[c] \in Bundle
  <2>1. rs = {} => built = {}
    OBVIOUS
  <2>2. ASSUME rs # {} PROVE built = {Anc[c]}
    <3>1. rs = {r} /\ PackFor(clone, contract, specs, r) = Anc[c]
      BY <1>9, <2>2
    <3>. HIDE DEF rs, clone
    <3>2. \A b : b \in built <=> b = Anc[c]
      BY <3>1
    <3>. QED  BY <3>2
  <2>3. built \subseteq Bundle
    BY <1>4 DEF Pushes
  <2>. QED  BY <2>1, <2>2, <2>3
<1>11. \A b \in Bundle :
          \/ TipOf(contract', b) = TipOf(contract, b)
          \/ rs # {} /\ b = Anc[c] /\ TipOf(contract', b) = c
  <2>. SUFFICES ASSUME NEW b \in Bundle, TipOf(contract', b) # TipOf(contract, b)
                PROVE  rs # {} /\ b = Anc[c] /\ TipOf(contract', b) = c
    OBVIOUS
  <2>. HIDE DEF rs, clone, built
  <2>1. PICK last \in RefName :
          b \in built /\ TipOf(contract', b) = Advertised(clone, contract, specs, rs, last, b)
    BY <1>4 DEF Tips
  <2>2. rs # {} /\ b = Anc[c]
    BY <1>10, <2>1
  <2>. QED  BY <1>9, <2>1, <2>2
<1>12. /\ contract' \in State /\ ValidateState(contract')
       /\ \A q \in RefName :
             Target(contract', q) = IF q \in rs THEN specs[q] ELSE Target(contract, q)
  BY <1>4 DEF Pushes
<1>. HIDE DEF rs, built, clone
<1>13. \A q \in RefName \ {r} : Target(contract', q) = None
  BY <1>1, <1>8, <1>12
<1>14. \A b \in Bundle : TipOf(contract', b) # None =>
          TipOf(contract', b) \in Commit /\ b = Anc[TipOf(contract', b)]
  BY <1>3, <1>8, <1>11 DEF Snapshots, RescueInv
<1>15. Snapshots'
  BY <1>13, <1>14 DEF Snapshots
<1>16. RecordedSnapshot'
  BY <1>3, <1>5 DEF RecordedSnapshot
<1>. QED  BY <1>6, <1>12, <1>15, <1>16 DEF RescueInv

\* A push of history ends the snapshots, and says so when they are on record.
LEMMA PushHistoryStep == RescueInv /\ PushHistory => RescueInv'
<1>. SUFFICES ASSUME RescueInv, PushHistory PROVE RescueInv'
  OBVIOUS
<1>1. PICK specs \in [RefName -> Commit \cup {None}], mode \in {"history", None} \cap Modes :
        /\ mode = None => Recorded # "snapshot"
        /\ Push(UNION {Anc[specs[r]] : r \in {q \in RefName : specs[q] # None}}, specs, {}, mode)
  BY DEF PushHistory
<1>. DEFINE set   == {q \in RefName : specs[q] # None}
            clone == UNION {Anc[specs[r]] : r \in set}
            rs    == Pushed(clone, contract, specs, {})
            built == {PackFor(clone, contract, specs, q) : q \in rs}
<1>2. clone \in SUBSET Commit /\ specs \in Specs(clone) /\ mode \in Modes
  <2>1. \A r \in set : specs[r] \in Commit /\ specs[r] \in Anc[specs[r]]
                        /\ Anc[specs[r]] \in SUBSET Commit
    BY HistoryAssumption
  <2>2. \A r \in RefName : specs[r] \in clone \cup {None}
    BY <2>1
  <2>. QED  BY <2>1, <2>2 DEF Specs
<1>. HIDE DEF clone
<1>3. contract \in State /\ ValidateState(contract)
  BY DEF RescueInv, TypeOK
<1>4. Pushes(specs, rs, built, mode)
  <2>1. Push(clone, specs, {}, mode)
    BY <1>1 DEF clone
  <2>. QED  BY <2>1, <1>2, <1>3, PushEffect
<1>5. snapshotting' = FALSE
  BY DEF PushHistory
<1>6. TypeOK' /\ (rescue \in RescueRun)' /\ Listed' /\ Attending' /\ Accounted'
  BY <1>2, <1>4, <1>5, PushKeeps
<1>. HIDE DEF rs, built
<1>7. Snapshots' /\ ValidateState(contract')
  BY <1>4, <1>5 DEF Snapshots, Pushes
<1>8. RecordedSnapshot'
  <2>1. DetectMirrorMode(contract') = IF mode = None THEN DetectMirrorMode(contract) ELSE mode
    BY <1>4 DEF Pushes
  <2>2. /\ Recorded' = DetectMirrorMode(contract')
        /\ Recorded = DetectMirrorMode(contract)
    BY DEF Recorded, DetectMirrorMode
  <2>. QED  BY <1>1, <2>1, <2>2 DEF RecordedSnapshot
<1>. QED  BY <1>6, <1>7, <1>8 DEF RescueInv

\* What the contract alone determines.
LEMMA ContractKept ==
    ASSUME RescueInv, UNCHANGED <<contract, snapshotting>>
    PROVE  (ValidateState(contract) /\ Listed /\ Snapshots /\ RecordedSnapshot)'
BY DEF RescueInv, Listed, Snapshots, RecordedSnapshot, Recorded

(***************************************************************************)
(* When a run begins, the bundles it keeps contain the history of every    *)
(* ref: a filtered run meets snapshots, whose one ref is a whole bundle,   *)
(* and the one left to find out the mode has it from the contract.         *)
(***************************************************************************)
LEMMA KeptCover ==
    ASSUME RescueInv, NEW flag \in Flag, flag = "--only-current-tips" => snapshotting,
           NEW kept, kept = PartitionForRescue(contract, OnlyCurrentTips(contract, flag)),
           OnlyCurrentTips(contract, flag) /\ Bundles(contract) # {} => kept # {},
           NEW r \in RefName, Target(contract, r) # None
    PROVE  Covers(kept, Target(contract, r))
<1>1. Target(contract, r) \in Commit /\ Covers(Bundles(contract), Target(contract, r))
  BY DEF RescueInv, Listed
<1>2. CASE ~OnlyCurrentTips(contract, flag)
  BY <1>1, <1>2 DEF PartitionForRescue
<1>3. CASE OnlyCurrentTips(contract, flag)
  <2>1. kept = ReachableBundles(contract)
    BY <1>3 DEF PartitionForRescue
  <2>2. snapshotting
    <3>1. CASE flag = "--only-current-tips"
      BY <3>1
    <3>2. CASE flag = "auto" /\ DetectMirrorMode(contract) = "snapshot"
      BY <3>2 DEF RescueInv, RecordedSnapshot, Recorded, DetectMirrorMode
    <3>. QED  BY <1>3, <3>1, <3>2 DEF OnlyCurrentTips
  <2>3. Bundles(contract) # {}
    BY <1>1, HistoryAssumption DEF Covers
  <2>4. PICK b \in Bundles(contract) : b \in kept /\ TipOf(contract, b) \in CurrentTips(contract)
    BY <1>3, <2>1, <2>3 DEF ReachableBundles
  <2>5. b \in Bundle /\ TipOf(contract, b) # None
    BY <2>4 DEF Bundles, CurrentTips
  <2>6. PICK q \in RefName : TipOf(contract, b) = Target(contract, q)
    BY <2>4 DEF CurrentTips
  <2>7. q = r /\ b = Anc[TipOf(contract, b)]
    BY <2>2, <2>5, <2>6 DEF RescueInv, Snapshots
  <2>. QED  BY <2>4, <2>6, <2>7 DEF Covers
<1>. QED  BY <1>2, <1>3
\* The packs of a clone are bundles.
LEMMA LocalPacksType ==
    ASSUME NEW s, NEW clone \in RescueClone
    PROVE  LocalPacks(s, clone) \in SUBSET Bundle
<1>1. LocalTips(s, clone) \subseteq Commit
  BY RescueAssumption DEF LocalTips, WholeClone
<1>2. \A h \in Commit \cup {None}, w \in Commit : BuildPack(h, w) \in Bundle
  BY DEF Bundle
<1>. DEFINE tips == LocalTips(s, clone)
            ps   == {u \in tips \X tips : Consecutive(tips, u[1], u[2])}
            us   == {u \in tips : \E b, c \in Bundles(s) :
                                     b # c /\ TipOf(s, b) = u /\ TipOf(s, c) = u}
<1>3. \A t \in tips : BuildPack(None, t) \in Bundle /\ BuildPack(t, t) \in Bundle
  BY <1>1, <1>2
<1>4. \A t \in ps : BuildPack(t[1], t[2]) \in Bundle
  BY <1>1, <1>2
<1>5. LocalPacks(s, clone) = {BuildPack(None, t) : t \in tips}
          \cup {BuildPack(t[1], t[2]) : t \in ps} \cup {BuildPack(t, t) : t \in us}
  BY DEF LocalPacks
<1>6. us \subseteq tips
  OBVIOUS
<1>. HIDE DEF tips, ps, us
<1>. QED  BY <1>3, <1>4, <1>5, <1>6

\* A run that begins takes on all that a clone needs, or keeps nothing and bails.
LEMMA BeginStep == RescueInv /\ Begin => RescueInv'
<1>. SUFFICES ASSUME RescueInv, Begin PROVE RescueInv'
  OBVIOUS
<1>1. PICK flag \in Flag, clone \in RescueClone :
        LET filtered == OnlyCurrentTips(contract, flag)
            kept     == PartitionForRescue(contract, filtered)
        IN  /\ flag = "--only-current-tips" => snapshotting
            /\ rescue' = IF filtered /\ Bundles(contract) # {} /\ kept = {}
                         THEN Run("bailed", {}, {})
                         ELSE Run("running", kept, LocalPacks(contract, clone))
  BY DEF Begin
<1>. DEFINE filtered == OnlyCurrentTips(contract, flag)
            kept     == PartitionForRescue(contract, filtered)
            packs    == LocalPacks(contract, clone)
<1>2. fresh' = {} /\ UNCHANGED <<contract, snapshotting, held, losses>>
  BY DEF Begin
<1>3. kept \subseteq Bundles(contract) /\ Bundles(contract) \subseteq Bundle
  BY DEF PartitionForRescue, ReachableBundles, Bundles
<1>4. packs \in SUBSET Bundle
  BY LocalPacksType
<1>5. flag = "--only-current-tips" => snapshotting
  BY <1>1
<1>6. \/ rescue' = Run("bailed", {}, {})
      \/ /\ ~(filtered /\ Bundles(contract) # {} /\ kept = {})
         /\ rescue' = Run("running", kept, packs)
  BY <1>1
<1>7. ~(filtered /\ Bundles(contract) # {} /\ kept = {}) =>
         \A r \in RefName : Target(contract, r) # None => Covers(kept, Target(contract, r))
  BY <1>5, KeptCover
<1>. HIDE DEF kept, packs, filtered
<1>8. TypeOK' /\ (rescue \in RescueRun)'
  BY <1>2, <1>3, <1>4, <1>6 DEF RescueInv, TypeOK, RescueRun, Run
<1>9. Attending'
  <2>1. CASE rescue' = Run("bailed", {}, {})
    BY <2>1 DEF Run, Attending
  <2>2. CASE /\ ~(filtered /\ Bundles(contract) # {} /\ kept = {})
             /\ rescue' = Run("running", kept, packs)
    <3>1. rescue'.status = "running" /\ rescue'.todo = kept
      BY <2>2 DEF Run
    <3>2. UNION kept \subseteq UNION Attended'
      BY <1>2, <1>3, <3>1 DEF Attended
    <3>. QED  BY <1>2, <1>7, <2>2, <3>1, <3>2 DEF Attending, Covers
  <2>. QED  BY <1>6, <2>1, <2>2
<1>10. Accounted'
  BY <1>6 DEF Accounted, Run
<1>. QED  BY <1>2, <1>8, <1>9, <1>10, ContractKept DEF RescueInv

(***************************************************************************)
(* A bundle leaves the list either PUT whole or among the failed ones; the *)
(* run reports success only when the list is empty and none has failed.    *)
(***************************************************************************)
LEMMA AttendingKept ==
    ASSUME RescueInv, contract' = contract,
           rescue'.status = "running" => rescue.status = "running",
           rescue'.status = "ok" => rescue'.failed = {} /\ rescue.status \in {"running", "ok"},
           \A b \in Bundles(contract) :
               \/ Pieces(b) \subseteq fresh
               \/ b \in rescue.todo \cup rescue.failed
               => \/ rescue'.status \notin {"running", "ok"}
                  \/ Pieces(b) \subseteq fresh'
                  \/ b \in rescue'.todo \cup rescue'.failed
    PROVE  Attending'
<1>. SUFFICES ASSUME rescue'.status \in {"running", "ok"}
              PROVE  \A r \in RefName : Target(contract, r) # None
                                             => Covers(Attended', Target(contract, r))
  BY DEF Attending
<1>1. UNION Attended \subseteq UNION Attended'
  BY DEF Attended
<1>. QED  BY <1>1 DEF RescueInv, Attending, Covers

\* The same for what a run took on.
LEMMA AccountedKept ==
    ASSUME RescueInv, contract' = contract, rescue'.chosen = rescue.chosen,
           rescue'.status = "running" => rescue.status = "running",
           \A b \in rescue.chosen :
               Pieces(b) \subseteq fresh \/ b \in rescue.todo \cup rescue.failed
               => Pieces(b) \subseteq fresh' \/ b \in rescue'.todo \cup rescue'.failed
    PROVE  Accounted'
BY DEF RescueInv, Accounted, Pieces

\* The pieces of a bundle.
LEMMA PiecesOf ==
    ASSUME NEW b
    PROVE  /\ b \notin Chunked => Pieces(b) = {<<b, "pack">>}
           /\ b \in Chunked => Pieces(b) = Chunks(b) \cup {<<b, "manifest">>}
BY DEF Pieces, Chunks

\* What a step on a bundle does to the record of the run.
LEMMA RunFields ==
    ASSUME rescue \in RescueRun, NEW b
    PROVE  /\ Finished(b) =>
                /\ rescue' \in RescueRun /\ rescue'.status = rescue.status
                /\ rescue'.chosen = rescue.chosen
                /\ rescue'.todo = rescue.todo \ {b} /\ rescue'.failed = rescue.failed
                /\ rescue'.manifests = rescue.manifests \ {b}
           /\ Fails(b) /\ b \in Bundle =>
                /\ rescue' \in RescueRun /\ rescue'.status = rescue.status
                /\ rescue'.chosen = rescue.chosen
                /\ rescue'.todo = rescue.todo \ {b}
                /\ rescue'.failed = rescue.failed \cup {b}
                /\ rescue'.manifests = rescue.manifests \ {b}
<1>1. rescue.manifests \in SUBSET Bundle /\ rescue.todo \in SUBSET Bundle
      /\ rescue.failed \in SUBSET Bundle /\ rescue.chosen \in SUBSET Bundle
  BY DEF RescueRun
<1>2. ASSUME Finished(b)
      PROVE  /\ rescue' \in RescueRun /\ rescue'.status = rescue.status
             /\ rescue'.chosen = rescue.chosen
             /\ rescue'.todo = rescue.todo \ {b} /\ rescue'.failed = rescue.failed
             /\ rescue'.manifests = rescue.manifests \ {b}
  BY <1>2 DEF RescueRun, Finished
<1>3. ASSUME Fails(b), b \in Bundle
      PROVE  /\ rescue' \in RescueRun /\ rescue'.status = rescue.status
             /\ rescue'.chosen = rescue.chosen
             /\ rescue'.todo = rescue.todo \ {b}
             /\ rescue'.failed = rescue.failed \cup {b}
             /\ rescue'.manifests = rescue.manifests \ {b}
  BY <1>3 DEF RescueRun, Fails
<1>. QED  BY <1>2, <1>3

\* Every step on a bundle keeps the invariant.
LEMMA BundleStep ==
    ASSUME RescueInv, NEW b \in Bundle, RescueBundle(b)
    PROVE  RescueInv'
<1>1. UNCHANGED <<contract, snapshotting>>
  BY DEF RescueBundle, RescuePack, GetManifest, RescueChunk, PutManifest, RescueFails,
         RequestFails
<1>2. /\ rescue \in RescueRun /\ TypeOK
      /\ rescue.todo \subseteq Bundles(contract) \ rescue.failed
      /\ b \in rescue.todo => rescue.status = "running"
  BY DEF RescueInv, TypeOK
<1>3. CASE RescuePack(b)
  <2>1. /\ b \in rescue.todo \ Chunked /\ Finished(b) /\ losses' = losses
        /\ held' = held \cup {<<b, "pack">>} /\ fresh' = fresh \cup {<<b, "pack">>}
    BY <1>3 DEF RescuePack, Put
  <2>2. Pieces(b) \subseteq fresh' /\ <<b, "pack">> \in UNION {Pieces(a) : a \in Bundles(contract)}
    BY <1>2, <2>1, PiecesOf
  <2>3. TypeOK' /\ (rescue \in RescueRun)'
    BY <1>1, <1>2, <2>1, <2>2, RunFields DEF TypeOK
  <2>4. Attending'
    BY <1>1, <1>2, <2>1, <2>2, RunFields, AttendingKept
  <2>5. Accounted'
    BY <1>1, <1>2, <2>1, <2>2, RunFields, AccountedKept
  <2>. QED  BY <1>1, <2>3, <2>4, <2>5, ContractKept DEF RescueInv
<1>4. CASE GetManifest(b)
  <2>1. /\ b \in rescue.todo \cap Chunked /\ UNCHANGED <<held, fresh, losses>>
        /\ rescue' = [rescue EXCEPT !.manifests = @ \cup {b}]
    BY <1>4 DEF GetManifest
  <2>2. /\ rescue' \in RescueRun /\ rescue'.status = rescue.status
        /\ rescue'.chosen = rescue.chosen
        /\ rescue'.todo = rescue.todo /\ rescue'.failed = rescue.failed
        /\ rescue'.manifests = rescue.manifests \cup {b}
    BY <1>2, <2>1 DEF RescueRun
  <2>3. TypeOK'
    BY <1>1, <1>2, <2>1, <2>2 DEF TypeOK
  <2>4. Attending'
    BY <1>1, <1>2, <2>1, <2>2, AttendingKept
  <2>5. Accounted'
    BY <1>1, <1>2, <2>1, <2>2, AccountedKept
  <2>. QED  BY <1>1, <2>2, <2>3, <2>4, <2>5, ContractKept DEF RescueInv
<1>5. CASE RescueChunk(b)
  <2>1. PICK p \in held : /\ held' = held \cup {p} /\ fresh' = fresh \cup {p}
                          /\ UNCHANGED <<rescue, losses>>
    BY <1>5 DEF RescueChunk, Put
  <2>2. TypeOK'
    BY <1>1, <1>2, <2>1 DEF TypeOK
  <2>3. Attending'
    BY <1>1, <1>2, <2>1, AttendingKept DEF RescueInv, Attending
  <2>4. Accounted'
    BY <1>1, <1>2, <2>1, AccountedKept
  <2>. QED  BY <1>1, <1>2, <2>1, <2>2, <2>3, <2>4, ContractKept DEF RescueInv
<1>6. CASE PutManifest(b)
  <2>1. /\ b \in rescue.todo \cap rescue.manifests /\ Finished(b) /\ losses' = losses
        /\ Chunks(b) \subseteq fresh
        /\ held' = held \cup {<<b, "manifest">>} /\ fresh' = fresh \cup {<<b, "manifest">>}
    BY <1>6 DEF PutManifest, ChunksDone, Put
  <2>2. /\ Pieces(b) \subseteq fresh'
        /\ <<b, "manifest">> \in UNION {Pieces(a) : a \in Bundles(contract)}
    BY <1>2, <2>1, PiecesOf DEF TypeOK
  <2>3. TypeOK' /\ (rescue \in RescueRun)'
    BY <1>1, <1>2, <2>1, <2>2, RunFields DEF TypeOK
  <2>4. Attending'
    BY <1>1, <1>2, <2>1, <2>2, RunFields, AttendingKept
  <2>5. Accounted'
    BY <1>1, <1>2, <2>1, <2>2, RunFields, AccountedKept
  <2>. QED  BY <1>1, <2>3, <2>4, <2>5, ContractKept DEF RescueInv
<1>7. CASE RescueFails(b) \/ RequestFails(b)
  <2>1. /\ b \in rescue.todo /\ Fails(b) /\ UNCHANGED <<held, fresh>>
        /\ losses' \in 0 .. MaxLosses
    BY <1>2, <1>7, RescueAssumption DEF RescueFails, RequestFails, TypeOK
  <2>2. TypeOK' /\ (rescue \in RescueRun)'
    BY <1>1, <1>2, <2>1, RunFields DEF TypeOK
  <2>3. Attending'
    BY <1>1, <1>2, <2>1, RunFields, AttendingKept
  <2>4. Accounted'
    BY <1>1, <1>2, <2>1, RunFields, AccountedKept
  <2>. QED  BY <1>1, <2>2, <2>3, <2>4, ContractKept DEF RescueInv
<1>. QED  BY <1>3, <1>4, <1>5, <1>6, <1>7 DEF RescueBundle

\* The invariant holds at first and at every step.
LEMMA RescueInvInit == Init => RescueInv
<1>. SUFFICES ASSUME Init PROVE RescueInv
  OBVIOUS
<1>1. contract = InitialState /\ contract \in State
  BY InitialTypes DEF Init
<1>2. ValidateState(contract) /\ Bundles(contract) = {}
  BY <1>1, RepoStateAssumption DEF InitialState, EmptyState, ValidateState, Bundles
<1>3. /\ \A r \in RefName : contract.entry[RefKey(r)] = None
      /\ \A b \in Bundle : contract.entry[TipKey(b)] = None
      /\ contract.entry[MirrorKey] = None
  BY <1>1, KeyParts DEF InitialState, EmptyState, FieldKey, RefKey, TipKey, MirrorKey
<1>4. TypeOK /\ rescue \in RescueRun
  <2>1. PICK m \in Modes : snapshotting = (m = "snapshot")
    BY DEF Init
  <2>2. snapshotting \in BOOLEAN
    BY <2>1
  <2>3. rescue = [status |-> "none", chosen |-> {}, todo |-> {}, packs |-> {},
                  manifests |-> {}, failed |-> {}]
    BY DEF Init, Run
  <2>4. held = {} /\ fresh = {} /\ losses = 0
    BY DEF Init
  <2>. QED  BY <1>1, <1>2, <2>2, <2>3, <2>4, RescueAssumption DEF TypeOK, RescueRun
<1>5. Listed /\ Snapshots /\ Attending /\ Accounted
  BY <1>3 DEF Init, Listed, Snapshots, Attending, Accounted, Target, TipOf, Run
<1>6. RecordedSnapshot
  BY <1>3, RepoStateAssumption DEF RecordedSnapshot, Recorded, Value, MirrorMode
<1>. QED  BY <1>2, <1>4, <1>5, <1>6 DEF RescueInv

LEMMA RescueInvStep == RescueInv /\ [Next]_vars => RescueInv'
<1>. SUFFICES ASSUME RescueInv, [Next]_vars PROVE RescueInv'
  OBVIOUS
<1>1. CASE PushSnapshot
  BY <1>1, PushSnapshotStep
<1>2. CASE PushHistory
  BY <1>2, PushHistoryStep
<1>3. CASE Evict
  <2>1. /\ UNCHANGED <<contract, snapshotting, rescue, fresh>>
        /\ losses' \in 0 .. MaxLosses /\ held' \subseteq held /\ fresh \subseteq held'
    BY <1>3, RescueAssumption DEF Evict, RescueInv, TypeOK
  <2>2. TypeOK' /\ Attending' /\ Accounted'
    BY <2>1, AttendingKept, AccountedKept DEF RescueInv, TypeOK, Attending
  <2>. QED  BY <2>1, <2>2, ContractKept DEF RescueInv
<1>4. CASE Begin
  BY <1>4, BeginStep
<1>5. CASE Report
  <2>1. /\ rescue.status = "running" /\ rescue.todo = {}
        /\ rescue' = Run(IF rescue.failed = {} THEN "ok" ELSE "failed", {}, {})
        /\ UNCHANGED <<contract, snapshotting, held, fresh, losses>>
    BY <1>5 DEF Report
  <2>2. TypeOK' /\ (rescue \in RescueRun)'
    BY <2>1 DEF RescueInv, TypeOK, RescueRun, Run
  <2>3. Attending'
    <3>1. rescue'.failed = {} /\ (rescue'.status = "ok" <=> rescue.failed = {})
                             /\ rescue'.status # "running"
      BY <2>1 DEF Run
    <3>. QED  BY <2>1, <3>1, AttendingKept
  <2>4. Accounted'
    BY <2>1 DEF Accounted, Run
  <2>. QED  BY <2>1, <2>2, <2>3, <2>4, ContractKept DEF RescueInv
<1>6. ASSUME NEW b \in Bundle, RescueBundle(b) PROVE RescueInv'
  BY <1>6, BundleStep
<1>7. CASE UNCHANGED vars
  <2>1. TypeOK' /\ Attending' /\ Accounted'
    BY <1>7, AttendingKept, AccountedKept DEF vars, RescueInv, TypeOK, Attending
  <2>. QED  BY <1>7, <2>1, ContractKept DEF vars, RescueInv
<1>. QED  BY <1>1, <1>2, <1>3, <1>4, <1>5, <1>6, <1>7 DEF Next

\* A run's work list, its manifests in hand and the pieces it has PUT stay what the
\* repo lists and what peers hold.
THEOREM RescueTypeOK == Spec => []TypeOK
<1>1. RescueInv => TypeOK
  BY DEF RescueInv
<1>. QED  BY <1>1, RescueInvInit, RescueInvStep, PTL DEF Spec

(***************************************************************************)
(* After a rescue that reports success, bundles all of whose pieces were   *)
(* PUT since it began contain the whole history of every ref, wherever     *)
(* pushes have moved it meanwhile: what the filter of `rescue` skips is    *)
(* dead weight.                                                            *)
(***************************************************************************)
THEOREM SuccessIsServable == Spec => []RescuedIsServable
<1>1. RescueInv => RescuedIsServable
  <2>. SUFFICES ASSUME RescueInv, rescue.status = "ok", NEW r \in RefName,
                       Target(contract, r) # None
                PROVE  Covers({b \in Bundles(contract) : Pieces(b) \subseteq fresh},
                              Target(contract, r))
    BY DEF RescuedIsServable, CurrentTips
  <2>1. rescue.todo = {} /\ rescue.failed = {}
    BY DEF RescueInv, TypeOK, Attending
  <2>2. Attended = {b \in Bundles(contract) : Pieces(b) \subseteq fresh}
    BY <2>1 DEF Attended
  <2>. QED  BY <2>2 DEF RescueInv, Attending
<1>. QED  BY <1>1, RescueInvInit, RescueInvStep, PTL DEF Spec

(***************************************************************************)
(* A failure costs its own bundle only: when a run has nothing left to do, *)
(* each bundle that it took on has been PUT whole since the run began, or  *)
(* is among those it reports as failed.                                    *)
(***************************************************************************)
THEOREM FailuresAreContained == Spec => []RestIsRescued
<1>1. RescueInv => RestIsRescued
  BY DEF RescueInv, Accounted, RestIsRescued
<1>. QED  BY <1>1, RescueInvInit, RescueInvStep, PTL DEF Spec
===============================================================================
