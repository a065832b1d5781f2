------------------------------- MODULE MCRescue --------------------------------
(***************************************************************************)
(* Small instances of Rescue: a repo with one branch and one tag, a        *)
(* history of two or three commits and an orphan beside it.                *)
(***************************************************************************)
EXTENDS Rescue, TLC

CONSTANTS c1, c2, c3, s1

MCParents == c1 :> {} @@ c2 :> {c1} @@ s1 :> {}
MCAnc     == c1 :> {c1} @@ c2 :> {c1, c2} @@ s1 :> {s1}

MCParentsLine == c1 :> {} @@ c2 :> {c1} @@ c3 :> {c2}
MCAncLine     == c1 :> {c1} @@ c2 :> {c1, c2} @@ c3 :> {c1, c2, c3}

MCRank == c1 :> 1 @@ c2 :> 2 @@ c3 :> 3 @@ s1 :> 4
            @@ "snapshot" :> 5 @@ "history" :> 6 @@ "initial" :> 7
MCSigOf(k, e) == MCRank[e.value]
MCTipRank(c)  == MCRank[c]

MCChunked == {{c1, c2}}
===============================================================================
