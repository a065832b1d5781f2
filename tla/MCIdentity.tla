------------------------------ MODULE MCIdentity ------------------------------
(***************************************************************************)
(* A small instance of IdentityBundle: two runs of freenet-git at a time,  *)
(* two identities, two repos, one passphrase besides the empty one.        *)
(***************************************************************************)
EXTENDS IdentityBundle, TLC

CONSTANTS p1, p2, a, b, r1, r2

Fresh == Permutations({p1, p2}) \cup Permutations({a, b}) \cup Permutations({r1, r2})
===============================================================================
