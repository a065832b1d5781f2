------------------------------- MODULE PackShelf -------------------------------
(***************************************************************************)
(* What PackStore promises: a shelf of packs.  A pack is whole or not yet  *)
(* whole, it is listed when it is whole, and what is handed over is one of *)
(* the listed packs, exact and all at once.  No chunk, cache, connection   *)
(* or failed command appears here; PackStore implements it.                *)
(***************************************************************************)
CONSTANTS Pack,    \* the packs that may be published
          Client,  \* machines that run the helper or the CLI
          None     \* nothing is being handed over

VARIABLES whole,   \* packs all of whose contents the network can serve
          lossy,   \* the network has forgotten something
          listed,  \* packs in the repo's object_index
          handed   \* handed[c]: what c's fetch has come back with, or None

vars == <<whole, lossy, listed, handed>>

Init ==
    /\ whole = {} /\ listed = {}
    /\ lossy = FALSE
    /\ handed = [c \in Client |-> None]

\* What is stored completes some packs, of this command or of others.
Store ==
    /\ whole \subseteq whole' /\ whole' \subseteq Pack
    /\ UNCHANGED <<lossy, listed, handed>>

\* A pack is listed when it is whole, unless the network forgets.
Publish(p) ==
    /\ listed' = listed \cup {p}
    /\ lossy \/ p \in whole
    /\ UNCHANGED <<whole, lossy, handed>>

\* A fetch comes back with a listed pack.
HandOver(c, p) ==
    /\ p \in listed
    /\ handed[c] = None
    /\ handed' = [handed EXCEPT ![c] = p]
    /\ UNCHANGED <<whole, lossy, listed>>

\* The command that fetched it ends.
TakeAway(c) ==
    /\ handed[c] # None
    /\ handed' = [handed EXCEPT ![c] = None]
    /\ UNCHANGED <<whole, lossy, listed>>

\* The network forgets a content, and with it any packs that contain it.
Forget ==
    /\ lossy' = TRUE
    /\ whole' \subseteq whole
    /\ UNCHANGED <<listed, handed>>

Next ==
    \/ Store \/ Forget
    \/ \E p \in Pack : Publish(p)
    \/ \E c \in Client : TakeAway(c) \/ \E p \in Pack : HandOver(c, p)

Spec == Init /\ [][Next]_vars
===============================================================================
