------------------------------ MODULE MCPackStore -----------------------------
(***************************************************************************)
(* Small instances of PackStore: a short pack, and a pack of two chunks of *)
(* which the short pack is one; a publisher with a cache, and a reader     *)
(* with a clone of the repo.                                               *)
(***************************************************************************)
EXTENDS PackStore, TLC

CONSTANTS x, y, k1, k2

MCPack == {<<x>>, <<x, y>>}

\* Only k2 has a clone to rebuild short packs from.
MCRebuilt == k1 :> {} @@ k2 :> {x}
===============================================================================
