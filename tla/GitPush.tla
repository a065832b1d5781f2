------------------------------- MODULE GitPush --------------------------------
(***************************************************************************)
(* handle_push of git-remote-freenet: the signed delta a helper makes from *)
(* the repo state s it has read and the local repository clone (the set of *)
(* commits in it).  Pure; the modules that extend this one say when the    *)
(* state is read and when the delta is submitted.                          *)
(***************************************************************************)
EXTENDS RepoState

CONSTANTS Modes,        \* values FREENET_GIT_MIRROR_MODE takes; None: unset
          BundleTipSeq  \* BUNDLE_TIP_UPDATE_SEQ

ASSUME PushAssumption ==
    /\ Modes \subseteq MirrorMode \cup {None}
    /\ BundleTipSeq \in Seq0
    /\ DeployedRule => BundleTipSeq > 0

\* A repository that is not shallow holds its commits' ancestors.
WholeClone(clone) == clone \subseteq Commit /\ \A c \in clone : Anc[c] \subseteq clone

\* What to push where: git resolves the source of each ref in the clone.
Specs(clone) == [RefName -> clone \cup {None}]

\* is_already_up_to_date, and build_pack's refusal of an unknown remote tip.
Pushable(clone, s, specs, force, r) ==
    /\ specs[r] # None
    /\ specs[r] # Target(s, r)
    /\ Target(s, r) \in clone \cup {None} \/ r \in force

Pushed(clone, s, specs, force) == {r \in RefName : Pushable(clone, s, specs, force, r)}

\* Mutant of Have: an unpushed ref is packed against the root commit.
HaveRoot(clone, s, r) == IF Target(s, r) \in clone THEN Target(s, r)
                         ELSE CHOOSE c \in clone : Parents[c] = {}

Have(clone, s, r) == IF Target(s, r) \in clone THEN Target(s, r) ELSE None

PackFor(clone, s, specs, r) == BuildPack(Have(clone, s, r), specs[r])

(***************************************************************************)
(* Refs whose packs are the same bytes share one bundle and one tip        *)
(* extension; the tip is that of the ref git lists last.  Only the empty   *)
(* pack is shared by different targets.                                    *)
(***************************************************************************)
Advertised(clone, s, specs, rs, last, b) ==
    LET sharing == {r \in rs : PackFor(clone, s, specs, r) = b}
    IN  specs[IF last \in sharing THEN last ELSE CHOOSE r \in sharing : TRUE]

Signed(value, seq) == [value |-> value, seq |-> seq, by |-> Owner]

\* Mutant of TipEntry: the tip is signed at 0, as before the deployed rule was
\* understood.
TipEntryZero(c) == Signed(c, 0)

TipEntry(c) == Signed(c, BundleTipSeq)

\* The delta for the refs rs, and the mirror-mode extension when it changes.
PushDelta(clone, s, specs, rs, last, mode) ==
    LET built == {PackFor(clone, s, specs, r) : r \in rs}
        refs  == {RefKey(r) : r \in rs}
        tips  == {TipKey(b) : b \in built}
    IN  [owner   |-> NoOwner,
         entry   |-> [k \in Key |->
            IF k \in refs THEN Signed(specs[k[2]], SeqAt(s, k) + 1)
            ELSE IF k \in tips THEN TipEntry(Advertised(clone, s, specs, rs, last, k[2]))
            ELSE IF k = MirrorKey /\ mode # None
                    /\ (s.entry[k] = None \/ s.entry[k].value # mode)
                 THEN Signed(mode, SeqAt(s, k) + 1)
            ELSE None],
         objects |-> [b \in Bundle |-> IF b \in built THEN Owner ELSE None]]

\* The same from a helper older than 0.1.16, which signs no tips.
Untip(d) == [d EXCEPT !.entry = [k \in Key |->
                 IF k \in {TipKey(b) : b \in Bundle} THEN None ELSE d.entry[k]]]

\* Nothing to push ends the helper early; so does a delta that would be refused.
Submittable(s, d) ==
    /\ \A k \in Key : d.entry[k] # None => d.entry[k].seq <= MaxSeq
    /\ ~IsEmptyDelta(d)
    /\ UpdateAccepted(s, d)
===============================================================================
