------------------------------- MODULE MCSession ------------------------------
(***************************************************************************)
(* A small instance of RepoSession: three generations of one repo, one     *)
(* push with its pack, and the writes of others.                           *)
(***************************************************************************)
EXTENDS RepoSession, TLC

CONSTANTS u, v, pack

MCPackOf == u :> pack
===============================================================================
