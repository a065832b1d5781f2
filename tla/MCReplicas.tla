------------------------------ MODULE MCReplicas ------------------------------
(***************************************************************************)
(* Small instances of RepoReplicas: two nodes, one or two helpers of the   *)
(* same owner, one branch, and a history with a fork c2 <- c1 -> c3.       *)
(***************************************************************************)
EXTENDS RepoReplicas, TLC

CONSTANTS c1, c2, c3, n1, n2, h1, h2

MCParents == c1 :> {} @@ c2 :> {c1} @@ c3 :> {c1}
MCAnc     == c1 :> {c1} @@ c2 :> {c1, c2} @@ c3 :> {c1, c3}

\* A fixed order of signatures; the owner's come before a stranger's.
MCRank == c1 :> 1 @@ c2 :> 2 @@ c3 :> 3
            @@ "snapshot" :> 4 @@ "history" :> 5 @@ "initial" :> 6
MCSigOf(k, e) == 2 * MCRank[e.value] + IF e.by = Owner THEN 0 ELSE 1

\* Both helpers started from c1; each has its own commit on top.
MCHomeSplit  == h1 :> n1 @@ h2 :> n2
MCCloneSplit == h1 :> {c1, c2} @@ h2 :> {c1, c3}

\* One helper with every commit.
MCHomeOne  == h1 :> n1
MCCloneOne == h1 :> {c1, c2, c3}
===============================================================================
