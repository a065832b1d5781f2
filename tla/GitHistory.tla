------------------------------ MODULE GitHistory ------------------------------
(***************************************************************************)
(* The commit graph that every helper, pack and fetch talks about, and the *)
(* pack a push builds from it.  A commit stands for itself together with   *)
(* its tree and blobs; a pack stands for the set of commits inside it, so  *)
(* two packs with the same contents are the same pack, as they are for     *)
(* content-addressed contracts.                                            *)
(***************************************************************************)
EXTENDS FiniteSets

CONSTANTS Commit,   \* the commits
          Parents,  \* a commit's immediate parents
          Anc,      \* a commit's ancestors, itself included
          None      \* "no value": Option::None in the code

\* A set of commits whose parents are in it too.
Closed(cs) == \A c \in cs : Parents[c] \subseteq cs

\* Anc[c] is the smallest closed set that contains c, and there are no cycles.
ASSUME HistoryAssumption ==
    /\ None \notin Commit
    /\ Parents \in [Commit -> SUBSET Commit]
    /\ Anc \in [Commit -> SUBSET Commit]
    /\ \A c \in Commit : c \in Anc[c] /\ Closed(Anc[c])
    /\ \A cs \in SUBSET Commit : Closed(cs) => \A c \in cs : Anc[c] \subseteq cs
    /\ \A c \in Commit : \A p \in Parents[c] : c \notin Anc[p]

(***************************************************************************)
(* `git rev-list <want> ^<have>` piped into pack-objects: everything       *)
(* reachable from want and not from have; everything reachable from want   *)
(* when there is no have.                                                  *)
(***************************************************************************)
BuildPack(have, want) ==
    IF have = None THEN Anc[want] ELSE Anc[want] \ Anc[have]

(***************************************************************************)
(* The bundles pushes can produce.  The empty pack is one of them: it is   *)
(* what a rewind of a ref to an ancestor of its current target packs.      *)
(***************************************************************************)
Bundle == {BuildPack(have, want) : have \in Commit \cup {None}, want \in Commit}

\* The history of target is inside the packs of the set bs.
Covers(bs, target) == Anc[target] \subseteq UNION bs
===============================================================================
