------------------------------- MODULE RepoState ------------------------------
(***************************************************************************)
(* The state of a repo contract and the five pure functions over it        *)
(* (crates/types/src/lib.rs): merge_state, validate_state, update_state,   *)
(* summarize_state and get_state_delta.                                    *)
(*                                                                         *)
(* The singletons, the refs and the extensions are all signed registers    *)
(* merged by one rule, pick_higher_seq, so they are one function from keys *)
(* to entries here.  object_index is a function from bundles to the key    *)
(* that signed the bundle's record.  A value absent from a map is None.    *)
(***************************************************************************)
EXTENDS GitHistory, Integers

CONSTANTS FieldName,     \* singletons: "name", "default_branch", ...
          RefName,       \* refs: "refs/heads/main", ...
          Signer,        \* public keys
          Owner,         \* the key whose base58 form matches the repo's prefix
          NoOwner,       \* the all-zero owner of RepoState::default()
          MaxSeq,        \* bound on update_seq
          SigOf(_, _),   \* SigOf(k, e): rank of e's signature when signed for key k
          DeployedRule   \* TRUE: the delta rule of the deployed contract WASM

FieldKey(f) == <<"field", f>>
RefKey(r)   == <<"ref", r>>
TipKey(b)   == <<"bundle-tip", b>>
MirrorKey   == <<"mirror-mode", "mirror-mode">>

Key == {FieldKey(f) : f \in FieldName} \cup {RefKey(r) : r \in RefName}
         \cup {TipKey(b) : b \in Bundle} \cup {MirrorKey}

MirrorMode == {"snapshot", "history"}
Value == Commit \cup MirrorMode \cup {"initial"}
Seq0  == 0 .. MaxSeq

\* One signed entry: SignedField, RefEntry or ExtensionEntry.
Entry == [value : Value, seq : Seq0, by : Signer]

(***************************************************************************)
(* ed25519 signing is deterministic and the payload covers key, value and  *)
(* seq, so an entry has one signature and two entries that differ in value *)
(* or signer have signatures that differ.                                  *)
(***************************************************************************)
ASSUME RepoStateAssumption ==
    /\ Owner \in Signer
    /\ NoOwner \notin Signer
    /\ None \notin Signer
    /\ MaxSeq \in Nat \ {0}
    /\ DeployedRule \in BOOLEAN
    /\ None \notin Entry /\ None \notin Seq0 /\ None \notin Value
    /\ None \notin [value : Value, seq : {MaxSeq + 1}, by : Signer]
    /\ \A k \in Key, d \in Entry : SigOf(k, d) \in Int
    /\ \A k \in Key, d, e \in Entry :
          d.seq = e.seq /\ SigOf(k, d) = SigOf(k, e) => d = e

State == [owner   : Signer \cup {NoOwner},
          entry   : [Key -> Entry \cup {None}],
          objects : [Bundle -> Signer \cup {None}]]

\* RepoState::default(), also what empty bytes decode to.
EmptyState == [owner   |-> NoOwner,
               entry   |-> [k \in Key |-> None],
               objects |-> [b \in Bundle |-> None]]

\* What `freenet-git create` publishes: every singleton signed at seq 1.
InitialState ==
    [EmptyState EXCEPT
        !.owner = Owner,
        !.entry = [k \in Key |-> IF k \in {FieldKey(f) : f \in FieldName}
                                 THEN [value |-> "initial", seq |-> 1, by |-> Owner]
                                 ELSE None]]

Bundles(s)    == {b \in Bundle : s.objects[b] # None}
Target(s, r)  == IF s.entry[RefKey(r)] = None THEN None ELSE s.entry[RefKey(r)].value

\* Mutant of SeqAt: the next sequence number forgets the entry it replaces.
SeqAtFresh(s, k) == 0

SeqAt(s, k)   == IF s.entry[k] = None THEN 0 ELSE s.entry[k].seq

-------------------------------------------------------------------------------
(***************************************************************************)
(* merge_state.  Higher seq wins, a tie goes to the smaller signature;     *)
(* object_index keeps the record it has; the owner is never merged.        *)
(***************************************************************************)
PickHigherSeq(k, a, b) ==
    \/ a.seq > b.seq
    \/ a.seq = b.seq /\ SigOf(k, a) <= SigOf(k, b)

\* Mutants of Pick: a tie goes to the newcomer; the last writer wins.
PickNewcomer(k, a, b) == IF b = None \/ (a # None /\ a.seq > b.seq) THEN a ELSE b
PickLast(k, a, b)     == IF b = None THEN a ELSE b

Pick(k, a, b) ==
    IF b = None \/ (a # None /\ PickHigherSeq(k, a, b)) THEN a ELSE b

\* Mutant of MergeState: the new bundles of an update are not taken in.
MergeStateNoBundles(current, incoming) ==
    [owner   |-> current.owner,
     entry   |-> [k \in Key |-> Pick(k, current.entry[k], incoming.entry[k])],
     objects |-> current.objects]

MergeState(current, incoming) ==
    [owner   |-> current.owner,
     entry   |-> [k \in Key |-> Pick(k, current.entry[k], incoming.entry[k])],
     objects |-> [b \in Bundle |-> IF current.objects[b] # None
                                   THEN current.objects[b]
                                   ELSE incoming.objects[b]]]

\* validate_state.  Size limits hold for every value modelled here.
ValidateState(s) ==
    /\ s.owner = Owner
    /\ \A k \in Key : s.entry[k] # None => s.entry[k].by = s.owner
    /\ \A b \in Bundle : s.objects[b] # None => s.objects[b] = s.owner

(***************************************************************************)
(* update_state merges first and validates the result; an invalid result   *)
(* is an error and leaves the contract's state as it was.                  *)
(***************************************************************************)
UpdateAccepted(current, delta) == ValidateState(MergeState(current, delta))

UpdateState(current, delta) ==
    IF UpdateAccepted(current, delta) THEN MergeState(current, delta) ELSE current

(***************************************************************************)
(* The contract's update_state entry point, given two updates in one call  *)
(* (a batch, or the halves of StateAndDelta): the second is applied to     *)
(* what the first made, and an error in either drops both.                 *)
(***************************************************************************)
\* Mutant of BatchAccepted: the second update goes in unvalidated.
BatchAcceptedFirst(current, first, second) == UpdateAccepted(current, first)

BatchAccepted(current, first, second) ==
    /\ UpdateAccepted(current, first)
    /\ UpdateAccepted(MergeState(current, first), second)

UpdateBatch(current, first, second) ==
    IF BatchAccepted(current, first, second)
    THEN MergeState(MergeState(current, first), second)
    ELSE current

\* Mutant of SummarizeState: the next sequence number instead of the current.
SummarizeNext(s) ==
    [seqs |-> [k \in Key |-> IF s.entry[k] = None THEN None ELSE s.entry[k].seq + 1],
     ids  |-> Bundles(s)]

SummarizeState(s) ==
    [seqs |-> [k \in Key |-> IF s.entry[k] = None THEN None ELSE s.entry[k].seq],
     ids  |-> Bundles(s)]

(***************************************************************************)
(* get_state_delta.  The source sends what the peer has never seen and     *)
(* what it holds at a lower seq.  The deployed WASM reads "never seen" as  *)
(* seq 0, for refs and extensions; see BUNDLE_TIP_UPDATE_SEQ.              *)
(***************************************************************************)
\* Mutant of PeerNeeds: only what the peer has never seen.
PeerNeedsNew(known, k, e) == known = None

PeerNeeds(known, k, e) ==
    IF known = None
    THEN DeployedRule /\ k \notin {FieldKey(f) : f \in FieldName} => e.seq > 0
    ELSE known < e.seq

\* Mutant of GetStateDelta: the test for known bundles is inverted.
GetStateDeltaInverted(s, summary) ==
    [owner   |-> NoOwner,
     entry   |-> [k \in Key |-> IF s.entry[k] # None
                                   /\ PeerNeeds(summary.seqs[k], k, s.entry[k])
                                THEN s.entry[k] ELSE None],
     objects |-> [b \in Bundle |-> IF b \in summary.ids THEN s.objects[b] ELSE None]]

GetStateDelta(s, summary) ==
    [owner   |-> NoOwner,
     entry   |-> [k \in Key |-> IF s.entry[k] # None
                                   /\ PeerNeeds(summary.seqs[k], k, s.entry[k])
                                THEN s.entry[k] ELSE None],
     objects |-> [b \in Bundle |-> IF b \in summary.ids THEN None ELSE s.objects[b]]]

IsEmptyDelta(d) ==
    /\ \A k \in Key : d.entry[k] = None
    /\ \A b \in Bundle : d.objects[b] = None

-------------------------------------------------------------------------------
(***************************************************************************)
(* The order the merge climbs: t holds everything s holds, entry for entry *)
(* at least as high.                                                       *)
(***************************************************************************)
EntryLeq(k, d, e) == d = None \/ (e # None /\ PickHigherSeq(k, e, d))

StateLeq(s, t) ==
    /\ \A k \in Key : EntryLeq(k, s.entry[k], t.entry[k])
    /\ Bundles(s) \subseteq Bundles(t)
===============================================================================
