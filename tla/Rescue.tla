-------------------------------- MODULE Rescue ---------------------------------
(***************************************************************************)
(* `freenet-git rescue` (crates/freenet-git/src/main.rs): read the repo    *)
(* state once, choose the bundles worth keeping alive, and for each of     *)
(* them GET every piece and PUT it again, so that peers keep it.  A pack   *)
(* that nobody has any more is rebuilt from a local clone if one is given  *)
(* (local_pack.rs).  Meanwhile the publisher pushes, and peers evict what  *)
(* was not PUT lately.                                                     *)
(*                                                                         *)
(* A push is one step here: rescue sees the repo before its update or      *)
(* after it.  GitTransfer takes pushes apart.                              *)
(***************************************************************************)
EXTENDS GitPush

CONSTANTS Tag,          \* the refs that are tags and stay where they are
          Chunked,      \* bundles published as a manifest and chunks
          Chunk,        \* the chunks of such a bundle
          RescueClone,  \* clones --from may name; {}: no --from
          TipRank(_),   \* TipRank(c): the order of commit ids as bytes
          OldHelpers,   \* pushes may come from helpers older than 0.1.16
          MaxLosses     \* bound: evictions and failed requests

ASSUME RescueAssumption ==
    /\ Tag \subseteq RefName /\ Chunked \subseteq Bundle
    /\ {"pack", "manifest"} \cap Chunk = {} /\ Chunk # {}
    /\ \A clone \in RescueClone : WholeClone(clone)
    /\ \A c \in Commit : TipRank(c) \in Int
    /\ \A c, d \in Commit : TipRank(c) = TipRank(d) => c = d
    /\ OldHelpers \in BOOLEAN /\ MaxLosses \in Nat

VARIABLES contract,      \* the contract state
          snapshotting,  \* the publisher pushes snapshots
          held,          \* pieces that somebody on the network has
          rescue,        \* the run of rescue in progress, or the last one
          fresh,         \* pieces PUT since that run began
          losses

vars == <<contract, snapshotting, held, rescue, fresh, losses>>

\* The contracts behind a bundle.
Pieces(b) == {b} \X (IF b \in Chunked THEN Chunk \cup {"manifest"} ELSE {"pack"})

Chunks(b) == {b} \X Chunk

TipOf(s, b) == IF s.entry[TipKey(b)] = None THEN None ELSE s.entry[TipKey(b)].value

-------------------------------------------------------------------------------
(***************************************************************************)
(* What to rescue.                                                         *)
(***************************************************************************)
\* Mutant: no mode on record is taken for snapshot mode.
DetectMirrorModeEager(s) ==
    IF s.entry[MirrorKey] = None THEN "snapshot" ELSE s.entry[MirrorKey].value

DetectMirrorMode(s) ==
    IF s.entry[MirrorKey] = None THEN None ELSE s.entry[MirrorKey].value

\* The flags; clap refuses both at once.
Flag == {"auto", "--only-current-tips", "--rescue-all"}

OnlyCurrentTips(s, flag) ==
    \/ flag = "--only-current-tips"
    \/ flag = "auto" /\ DetectMirrorMode(s) = "snapshot"

CurrentTips(s) == {Target(s, r) : r \in RefName} \ {None}

ReachableBundles(s) == {b \in Bundles(s) : TipOf(s, b) \in CurrentTips(s)}

PartitionForRescue(s, filtered) == IF filtered THEN ReachableBundles(s) ELSE Bundles(s)

(***************************************************************************)
(* build_local_pack_map: the tips in the clone, ordered by the number of   *)
(* their ancestors; for each the pack since the tip before it and the pack *)
(* of its whole history.  A tip that two bundles share comes before itself.*)
(***************************************************************************)
LocalTips(s, clone) == {TipOf(s, b) : b \in Bundles(s)} \cap clone

Before(c, d) ==
    \/ Cardinality(Anc[c]) < Cardinality(Anc[d])
    \/ Cardinality(Anc[c]) = Cardinality(Anc[d]) /\ TipRank(c) < TipRank(d)

Consecutive(tips, c, d) ==
    /\ Before(c, d)
    /\ ~\E e \in tips : Before(c, e) /\ Before(e, d)

LocalPacks(s, clone) ==
    LET tips == LocalTips(s, clone)
    IN  {BuildPack(None, t) : t \in tips}
          \cup {BuildPack(t[1], t[2]) : t \in {u \in tips \X tips : Consecutive(tips, u[1], u[2])}}
          \cup {BuildPack(t, t) : t \in {u \in tips :
                    \E b, c \in Bundles(s) : b # c /\ TipOf(s, b) = u /\ TipOf(s, c) = u}}

-------------------------------------------------------------------------------
(***************************************************************************)
(* The publisher, who keeps to the rules of README.md: mode snapshot makes *)
(* each push a fresh orphan commit on one branch, mode history extends     *)
(* branches and adds tags; the mode is on record from the first push that  *)
(* knows of modes, and a publisher who goes over to history says so.       *)
(***************************************************************************)
Recorded == IF contract.entry[MirrorKey] = None THEN None ELSE contract.entry[MirrorKey].value

Update(d) ==
    LET new == UNION {Pieces(b) : b \in Bundles(d)}
    IN  /\ contract' = UpdateState(contract, d)
        /\ held' = held \cup new
        /\ fresh' = fresh \cup new
        /\ UNCHANGED <<rescue, losses>>

\* A helper before 0.1.19 records no mode, and one before 0.1.16 no tips either.  A
\* push of which every ref is skipped still signs and sends a mode that changes.
Push(clone, specs, force, mode) ==
    LET rs == Pushed(clone, contract, specs, force)
    IN  \E last \in RefName :
          LET d == PushDelta(clone, contract, specs, rs, last, mode)
          IN  /\ Submittable(contract, d)
              /\ \/ Update(d)
                 \/ OldHelpers /\ mode = None /\ Recorded = None /\ Update(Untip(d))

\* c = None: the ref is skipped, its deletion being refused or its pack failing.
PushSnapshot ==
    /\ snapshotting
    /\ \E c \in {d \in Commit : Parents[d] = {}} \cup {None},
          r \in RefName \ Tag, mode \in {"snapshot", None} \cap Modes :
         /\ \A q \in RefName \ {r} : Target(contract, q) = None
         /\ Push({c} \ {None}, [q \in RefName |-> IF q = r THEN c ELSE None], {r}, mode)
    /\ UNCHANGED snapshotting

PushHistory ==
    /\ \E specs \in [RefName -> Commit \cup {None}], mode \in {"history", None} \cap Modes :
         /\ mode = None => Recorded # "snapshot"
         /\ \A r \in RefName : specs[r] # None /\ Target(contract, r) # None
                                 => r \notin Tag /\ Target(contract, r) \in Anc[specs[r]]
         /\ Push(UNION {Anc[specs[r]] : r \in {q \in RefName : specs[q] # None}},
                 specs, {}, mode)
    /\ snapshotting' = FALSE

\* Peers drop what was not PUT lately.
Evict ==
    /\ losses < MaxLosses
    /\ \E p \in held \ fresh : held' = held \ {p}
    /\ losses' = losses + 1
    /\ UNCHANGED <<contract, snapshotting, rescue, fresh>>

-------------------------------------------------------------------------------
(***************************************************************************)
(* A run of rescue: the bundles it took on (history), those not dealt with *)
(* yet, the packs that can be rebuilt, the manifests in hand, the bundles  *)
(* that failed.                                                            *)
(***************************************************************************)
Run(status, todo, packs) ==
    [status |-> status, chosen |-> todo, todo |-> todo, packs |-> packs,
     manifests |-> {}, failed |-> {}]

\* Reading the state, the filter and the guard against skipping everything.  The
\* operator forces the filter on for snapshot mirrors only.
Begin ==
    /\ rescue.status # "running"
    /\ \E flag \in Flag, clone \in RescueClone :
         LET filtered == OnlyCurrentTips(contract, flag)
             kept     == PartitionForRescue(contract, filtered)
         IN  /\ flag = "--only-current-tips" => snapshotting
             /\ rescue' = IF filtered /\ Bundles(contract) # {} /\ kept = {}
                          THEN Run("bailed", {}, {})
                          ELSE Run("running", kept, LocalPacks(contract, clone))
    /\ fresh' = {}
    /\ UNCHANGED <<contract, snapshotting, held, losses>>

Put(p) == held' = held \cup {p} /\ fresh' = fresh \cup {p}

\* Mutant of Fails: the failed bundle is put back in the queue.
FailsAgain(b) == rescue' = [rescue EXCEPT !.failed = @ \cup {b}, !.manifests = @ \ {b}]

\* Mutant of Fails: the first error ends the run.
FailsStop(b) ==
    rescue' = [rescue EXCEPT !.todo = {}, !.manifests = {}, !.failed = @ \cup {b}]

\* A bundle's error is kept for the report; the other bundles go on.
Fails(b) ==
    rescue' = [rescue EXCEPT !.todo = @ \ {b}, !.manifests = @ \ {b}, !.failed = @ \cup {b}]

Finished(b) == rescue' = [rescue EXCEPT !.todo = @ \ {b}, !.manifests = @ \ {b}]

\* rescue_pack
RescuePack(b) ==
    /\ b \in rescue.todo \ Chunked
    /\ (<<b, "pack">> \in held \/ b \in rescue.packs)
    /\ Put(<<b, "pack">>) /\ Finished(b)
    /\ UNCHANGED <<contract, snapshotting, losses>>

\* rescue_chunked: the manifest, each chunk, the manifest again.
GetManifest(b) ==
    /\ b \in (rescue.todo \cap Chunked) \ rescue.manifests
    /\ <<b, "manifest">> \in held
    /\ rescue' = [rescue EXCEPT !.manifests = @ \cup {b}]
    /\ UNCHANGED <<contract, snapshotting, held, fresh, losses>>

RescueChunk(b) ==
    /\ b \in rescue.todo \cap rescue.manifests
    /\ \E p \in (Chunks(b) \cap held) \ fresh : Put(p)
    /\ UNCHANGED <<contract, snapshotting, rescue, losses>>

ChunksDone(b) == Chunks(b) \subseteq fresh

PutManifest(b) ==
    /\ b \in rescue.todo \cap rescue.manifests
    /\ ChunksDone(b)
    /\ Put(<<b, "manifest">>) /\ Finished(b)
    /\ UNCHANGED <<contract, snapshotting, losses>>

\* What rescue wants next and nobody has, so that the GET fails.
Missing(b) ==
    IF b \notin Chunked THEN <<b, "pack">> \notin held /\ b \notin rescue.packs
    ELSE IF b \in rescue.manifests THEN ~(Chunks(b) \subseteq held)
    ELSE <<b, "manifest">> \notin held

RescueFails(b) ==
    /\ b \in rescue.todo
    /\ Missing(b)
    /\ Fails(b)
    /\ UNCHANGED <<contract, snapshotting, held, fresh, losses>>

\* A GET or a PUT that times out, or a connection that breaks.
RequestFails(b) ==
    /\ b \in rescue.todo
    /\ losses < MaxLosses
    /\ losses' = losses + 1
    /\ Fails(b)
    /\ UNCHANGED <<contract, snapshotting, held, fresh>>

Report ==
    /\ rescue.status = "running" /\ rescue.todo = {}
    /\ rescue' = Run(IF rescue.failed = {} THEN "ok" ELSE "failed", {}, {})
    /\ UNCHANGED <<contract, snapshotting, held, fresh, losses>>

RescueBundle(b) ==
    \/ RescuePack(b) \/ GetManifest(b) \/ RescueChunk(b) \/ PutManifest(b)
    \/ RescueFails(b) \/ RequestFails(b)

Init ==
    /\ contract = InitialState
    /\ snapshotting \in {m = "snapshot" : m \in Modes}
    /\ held = {} /\ fresh = {} /\ losses = 0
    /\ rescue = Run("none", {}, {})

Next ==
    \/ PushSnapshot \/ PushHistory \/ Evict
    \/ Begin \/ Report \/ \E b \in Bundle : RescueBundle(b)

Spec == Init /\ [][Next]_vars

\* The runtime drives the tasks in flight and every request has a timeout.
FairSpec == Spec /\ WF_vars(Report \/ \E b \in Bundle : RescueBundle(b))

-------------------------------------------------------------------------------
\* Type invariant: a finished run has nothing left to do, and the manifests in hand
\* are those of bundles that it is working on.
TypeOK ==
    /\ contract \in State /\ snapshotting \in BOOLEAN
    /\ held \subseteq UNION {Pieces(b) : b \in Bundles(contract)}
    /\ fresh \subseteq held
    /\ losses \in 0 .. MaxLosses
    /\ rescue.status \in {"none", "running", "ok", "failed", "bailed"}
    /\ rescue.status # "running" => rescue.todo = {}
    /\ rescue.todo \subseteq Bundles(contract) \ rescue.failed
    /\ rescue.manifests \subseteq Chunked \cap rescue.todo

\* After a rescue that reports success, everything a clone of the repo needs has
\* been PUT since the rescue began: the whole history of every ref, wherever pushes
\* have moved it in the meantime, is in bundles all of whose pieces are fresh.  So
\* what the filter skips is dead weight, however old the state it was decided on
\* (main.rs, the doc of rescue).
RescuedIsServable ==
    rescue.status = "ok" =>
        \A c \in CurrentTips(contract) :
            Covers({b \in Bundles(contract) : Pieces(b) \subseteq fresh}, c)

\* A failure costs its own bundle only: when a run has nothing left to do, every
\* bundle that it took on and does not report as failed has been PUT whole since the
\* run began, chunks and manifest (rescue, "FuturesUnordered with admission control").
RestIsRescued ==
    rescue.status = "running" /\ rescue.todo = {} =>
        \A b \in rescue.chosen \ rescue.failed : Pieces(b) \subseteq fresh

\* A rescue ends, whatever fails on its way.
RescueEnds == rescue.status = "running" ~> rescue.status # "running"

\* Every pack of a history mirror that was published in one piece can be rebuilt
\* from a clone that has its tip ("the actual original pack matches one of them",
\* local_pack.rs).
OriginalPackRebuilt ==
    DetectMirrorMode(contract) = "history" =>
        \A b \in Bundles(contract) \ Chunked, clone \in RescueClone :
            TipOf(contract, b) \in clone => b \in LocalPacks(contract, clone)
===============================================================================
