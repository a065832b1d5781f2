------------------------------- MODULE GitRemote -------------------------------
(***************************************************************************)
(* What git may expect of a remote.  Its heads point at commits whose      *)
(* whole history it stores; a fetch asks for heads, is given commits of    *)
(* the remote, and ends well only when it has all it asked for.  No        *)
(* bundle, tip, signature, walk or race appears here; GitTransfer          *)
(* implements it.                                                          *)
(***************************************************************************)
CONSTANTS Anc,     \* a commit's ancestors, itself included
          Fetcher  \* helpers that fetch

VARIABLES heads,   \* the commits that refs point at
          stored,  \* the commits the remote can give
          fetch,   \* fetch[f]: "idle", "asked", "ok" or "error"
          asked,   \* asked[f]: the commits f asked for
          clone    \* clone[f]: the commits f has

vars == <<heads, stored, fetch, asked, clone>>

Init ==
    /\ heads = {} /\ stored = {}
    /\ fetch = [f \in Fetcher |-> "idle"]
    /\ asked = [f \in Fetcher |-> {}]
    /\ clone = [f \in Fetcher |-> {}]

\* Refs move, forced or not, and nothing that was stored is lost.
Push ==
    /\ stored \subseteq stored'
    /\ \A h \in heads' : Anc[h] \subseteq stored'
    /\ UNCHANGED <<fetch, asked, clone>>

Ask(f) ==
    /\ fetch[f] = "idle"
    /\ \E hs \in SUBSET heads : asked' = [asked EXCEPT ![f] = hs]
    /\ fetch' = [fetch EXCEPT ![f] = "asked"]
    /\ UNCHANGED <<heads, stored, clone>>

Receive(f) ==
    /\ fetch[f] = "asked"
    /\ \E cs \in SUBSET stored : clone' = [clone EXCEPT ![f] = @ \cup cs]
    /\ UNCHANGED <<heads, stored, fetch, asked>>

Succeed(f) ==
    /\ fetch[f] = "asked"
    /\ \A c \in asked[f] : Anc[c] \subseteq clone[f]
    /\ fetch' = [fetch EXCEPT ![f] = "ok"]
    /\ UNCHANGED <<heads, stored, asked, clone>>

\* What was received stays.
Fail(f) ==
    /\ fetch[f] = "asked"
    /\ fetch' = [fetch EXCEPT ![f] = "error"]
    /\ UNCHANGED <<heads, stored, asked, clone>>

Again(f) ==
    /\ fetch[f] \in {"ok", "error"}
    /\ fetch' = [fetch EXCEPT ![f] = "idle"]
    /\ asked' = [asked EXCEPT ![f] = {}]
    /\ UNCHANGED <<heads, stored, clone>>

Next ==
    \/ Push
    \/ \E f \in Fetcher : \/ Ask(f) \/ Receive(f) \/ Succeed(f)
                          \/ Fail(f) \/ Again(f)

Spec == Init /\ [][Next]_vars
===============================================================================
