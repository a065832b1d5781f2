------------------------------ MODULE MCTransfer ------------------------------
(***************************************************************************)
(* Small instances of GitTransfer: one pusher and one fetcher of a repo    *)
(* with one or two branches.                                               *)
(***************************************************************************)
EXTENDS GitTransfer, TLC

CONSTANTS c1, c2, c3, c4, p1, f1

MCParentsTwo == c1 :> {} @@ c2 :> {c1}
MCAncTwo     == c1 :> {c1} @@ c2 :> {c1, c2}

\* A fork c2 <- c1 -> c3, and the fork merged again by c4.
MCParentsFork  == MCParentsTwo @@ c3 :> {c1}
MCAncFork      == MCAncTwo @@ c3 :> {c1, c3}
MCParentsMerge == MCParentsFork @@ c4 :> {c2, c3}
MCAncMerge     == MCAncFork @@ c4 :> {c1, c2, c3, c4}

MCRank == c1 :> 1 @@ c2 :> 2 @@ c3 :> 3 @@ c4 :> 4
            @@ "snapshot" :> 5 @@ "history" :> 6 @@ "initial" :> 7
MCSigOf(k, e) == MCRank[e.value]

MCCloneTwo   == p1 :> {c1, c2}
MCCloneFork  == p1 :> {c1, c2, c3}
MCCloneMerge == p1 :> {c1, c2, c3, c4}
===============================================================================
