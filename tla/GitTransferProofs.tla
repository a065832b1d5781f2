--------------------------- MODULE GitTransferProofs --------------------------
(***************************************************************************)
(* Fetches of any repo: whatever the commits, the bundles, the pushes and  *)
(* the failed downloads before, a fetch that reports success is complete,  *)
(* and it downloads no dead weight; and a fetch of a branch that only ever *)
(* moves forward never gives up.                                           *)
(***************************************************************************)
EXTENDS GitTransfer, RepoStateProofs

-------------------------------------------------------------------------------
(***************************************************************************)
(* walk_unresolved_parents.                                                *)
(***************************************************************************)

\* The walk visits what is wanted and the parents of what it enumerates, and
\* nothing outside a closed set that has what is wanted.
LEMMA VisitedFacts ==
    ASSUME NEW want \in SUBSET Commit, NEW done, NEW has
    PROVE  /\ Visited(want, done, has) \in SUBSET Commit
           /\ want \subseteq Visited(want, done, has)
           /\ \A d \in (Visited(want, done, has) \cap has) \ done :
                 Parents[d] \subseteq Visited(want, done, has)
           /\ \A cs \in SUBSET Commit :
                 Closed(cs) /\ want \subseteq cs => Visited(want, done, has) \subseteq cs
<1>. DEFINE V == Visited(want, done, has)
            Holds(cs) == /\ want \subseteq cs
                         /\ \A d \in (cs \cap has) \ done : Parents[d] \subseteq cs
<1>1. \A c : c \in V <=> c \in Commit /\ \A cs \in SUBSET Commit : Holds(cs) => c \in cs
  BY DEF Visited
<1>2. V \subseteq Commit /\ \A cs \in SUBSET Commit : Holds(cs) => V \subseteq cs
  BY <1>1
<1>3. want \subseteq V
  BY <1>1
<1>4. ASSUME NEW d \in (V \cap has) \ done, NEW p \in Parents[d]
      PROVE  p \in V
  <2>1. p \in Commit
    BY <1>2, <1>4, HistoryAssumption
  <2>2. ASSUME NEW cs \in SUBSET Commit, Holds(cs) PROVE p \in cs
    BY <1>2, <1>4, <2>2
  <2>. QED  BY <1>1, <2>1, <2>2
<1>5. ASSUME NEW cs \in SUBSET Commit, Closed(cs), want \subseteq cs
      PROVE  V \subseteq cs
  <2>1. Holds(cs)
    BY <1>5 DEF Closed
  <2>. QED  BY <1>2, <2>1
<1>. QED  BY <1>2, <1>3, <1>4, <1>5

-------------------------------------------------------------------------------
(***************************************************************************)
(* What holds of one fetch.  Fetched is the invariant behind               *)
(* FetchComplete: the parents of every walked commit are walked or wanted, *)
(* so that when nothing wanted is missing the walked commits are closed.   *)
(***************************************************************************)
Fetched(f) ==
    /\ phase[f] \in {"idle", "listed"} => walked[f] = {}
    /\ phase[f] \in {"reading", "done"} => wants[f] \subseteq wanted[f]
    /\ phase[f] = "reading" =>
         /\ walked[f] \subseteq odb[f]
         /\ \A c \in walked[f] : Parents[c] \subseteq walked[f] \cup wanted[f]
    /\ phase[f] = "done" => \A c \in wanted[f] : Anc[c] \subseteq odb[f]

FetchInv == \A f \in Fetcher : Fetched(f)

\* The variables of the fetches.
FetchTypes ==
    /\ phase \in [Fetcher -> Phase]
    /\ wants \in [Fetcher -> SUBSET Commit]
    /\ legacy \in [Fetcher -> SUBSET Bundle]
    /\ tipped \in [Fetcher -> [Commit -> Bundle \cup {None}]]
    /\ wanted \in [Fetcher -> SUBSET Commit]
    /\ walked \in [Fetcher -> SUBSET Commit]
    /\ downloaded \in [Fetcher -> SUBSET Bundle]
    /\ odb \in [Fetcher -> SUBSET Commit]

\* A bundle is a set of commits.
LEMMA BundleCommits == \A b \in Bundle : b \subseteq Commit
BY HistoryAssumption DEF Bundle, BuildPack

\* What a fetch downloads is a bundle.
LEMMA ToDownloadType ==
    ASSUME FetchTypes, NEW f \in Fetcher
    PROVE  ToDownload(f) \subseteq Bundle
BY DEF ToDownload, FetchTypes

\* tip_to_bundle maps commits to bundles.
LEMMA TipMapType ==
    ASSUME NEW s, NEW m \in TipMaps(s)
    PROVE  m \in [Commit -> Bundle \cup {None}]
BY DEF TipMaps

\* Steps keep the types of the fetches.
LEMMA FetchTypesStep == FetchTypes /\ [Next]_vars => FetchTypes'
<1>. SUFFICES ASSUME FetchTypes, [Next]_vars PROVE FetchTypes'
  OBVIOUS
<1>. USE DEF FetchTypes
<1>1. ASSUME NEW p \in Pusher, \/ ListForPush(p) \/ HandlePush(p)
                               \/ SubmitUpdate(p) \/ AbandonPush(p)
      PROVE  FetchTypes'
  BY <1>1 DEF ListForPush, HandlePush, SubmitUpdate, AbandonPush, fetchVars
<1>2. ASSUME NEW f \in Fetcher, ListForFetch(f) PROVE FetchTypes'
  BY <1>2 DEF ListForFetch, Phase
<1>3. ASSUME NEW f \in Fetcher, ReadState(f) PROVE FetchTypes'
  <2>1. Untipped(contract) \subseteq Bundle
    BY DEF Untipped, Bundles
  <2>2. tipped' \in [Fetcher -> [Commit -> Bundle \cup {None}]]
    BY <1>3, TipMapType DEF ReadState
  <2>3. /\ phase' \in [Fetcher -> Phase] /\ legacy' \in [Fetcher -> SUBSET Bundle]
        /\ wanted' \in [Fetcher -> SUBSET Commit] /\ walked' \in [Fetcher -> SUBSET Commit]
        /\ downloaded' \in [Fetcher -> SUBSET Bundle]
    BY <1>3, <2>1 DEF ReadState, Phase
  <2>. QED  BY <1>3, <2>2, <2>3 DEF ReadState
<1>4. ASSUME NEW f \in Fetcher, Download(f) PROVE FetchTypes'
  BY <1>4, ToDownloadType, BundleCommits DEF Download
<1>5. ASSUME NEW f \in Fetcher, FailDownload(f) PROVE FetchTypes'
  BY <1>5 DEF FailDownload, Phase
<1>6. ASSUME NEW f \in Fetcher, Walk(f) PROVE FetchTypes'
  <2>1. /\ Visited(wanted[f], walked[f], odb[f]) \subseteq Commit
        /\ Unresolved(wanted[f], walked[f], odb[f]) \subseteq Commit
    BY VisitedFacts DEF Unresolved
  <2>2. walked' = [walked EXCEPT ![f] =
                      @ \cup (Visited(wanted[f], @, odb[f]) \cap odb[f])]
    BY <1>6 DEF Walk
  <2>3. walked' \in [Fetcher -> SUBSET Commit]
    BY <2>1, <2>2
  <2>4. wanted' \in [Fetcher -> SUBSET Commit] /\ phase' \in [Fetcher -> Phase]
    BY <1>6, <2>1 DEF Walk, Phase
  <2>. QED  BY <1>6, <2>3, <2>4 DEF Walk
<1>7. ASSUME NEW f \in Fetcher, Again(f) PROVE FetchTypes'
  <2>1. [c \in Commit |-> None] \in [Commit -> Bundle \cup {None}]
    OBVIOUS
  <2>. QED  BY <1>7, <2>1 DEF Again, Phase
<1>8. CASE UNCHANGED vars
  BY <1>8 DEF vars
<1>. QED  BY <1>1, <1>2, <1>3, <1>4, <1>5, <1>6, <1>7, <1>8 DEF Next

\* The fetches other than f, and f itself where it is left alone.
FetchSame(f) ==
    /\ phase'[f] = phase[f] /\ wants'[f] = wants[f] /\ legacy'[f] = legacy[f]
    /\ tipped'[f] = tipped[f] /\ wanted'[f] = wanted[f] /\ walked'[f] = walked[f]
    /\ downloaded'[f] = downloaded[f] /\ odb'[f] = odb[f]

\* A step changes one fetch at most.
LEMMA OneFetch ==
    ASSUME FetchTypes, [Next]_vars, NEW f \in Fetcher
    PROVE  \/ FetchSame(f)
           \/ ListForFetch(f) \/ ReadState(f) \/ Download(f)
           \/ FailDownload(f) \/ Walk(f) \/ Again(f)
<1>. USE DEF FetchTypes, FetchSame
<1>1. ASSUME NEW p \in Pusher, \/ ListForPush(p) \/ HandlePush(p)
                               \/ SubmitUpdate(p) \/ AbandonPush(p)
      PROVE  FetchSame(f)
  BY <1>1 DEF ListForPush, HandlePush, SubmitUpdate, AbandonPush, fetchVars
<1>2. ASSUME NEW g \in Fetcher \ {f}, ListForFetch(g) PROVE FetchSame(f)
  BY <1>2 DEF ListForFetch
<1>3. ASSUME NEW g \in Fetcher \ {f}, ReadState(g) PROVE FetchSame(f)
  BY <1>3 DEF ReadState
<1>4. ASSUME NEW g \in Fetcher \ {f}, Download(g) PROVE FetchSame(f)
  BY <1>4 DEF Download
<1>5. ASSUME NEW g \in Fetcher \ {f}, FailDownload(g) PROVE FetchSame(f)
  BY <1>5 DEF FailDownload
<1>6. ASSUME NEW g \in Fetcher \ {f}, Walk(g) PROVE FetchSame(f)
  BY <1>6 DEF Walk
<1>7. ASSUME NEW g \in Fetcher \ {f}, Again(g) PROVE FetchSame(f)
  BY <1>7 DEF Again
<1>8. CASE UNCHANGED vars
  BY <1>8 DEF vars
<1>. QED  BY <1>1, <1>2, <1>3, <1>4, <1>5, <1>6, <1>7, <1>8 DEF Next

(***************************************************************************)
(* The step that matters is Walk: it ends the fetch only when every        *)
(* visited commit is local, and then the walked commits are a closed set   *)
(* with the wanted ones in it.                                             *)
(***************************************************************************)
LEMMA FetchedStep == FetchTypes /\ FetchInv /\ [Next]_vars => FetchInv'
<1>. SUFFICES ASSUME FetchTypes, FetchInv, [Next]_vars, NEW f \in Fetcher
              PROVE  Fetched(f)'
  BY DEF FetchInv
<1>1. FetchTypes' /\ Fetched(f)
  BY FetchTypesStep DEF FetchInv
<1>2. CASE FetchSame(f)
  BY <1>1, <1>2 DEF Fetched, FetchSame
<1>3. CASE ListForFetch(f)
  BY <1>1, <1>3 DEF ListForFetch, Fetched, FetchTypes
<1>4. CASE ReadState(f)
  BY <1>1, <1>4 DEF ReadState, Fetched, FetchTypes
<1>5. CASE Download(f)
  <2>1. /\ odb[f] \subseteq odb'[f] /\ phase[f] = "reading"
        /\ UNCHANGED <<phase, wants, wanted, walked>>
    BY <1>5 DEF Download, FetchTypes
  <2>. QED  BY <1>1, <2>1 DEF Fetched
<1>6. CASE FailDownload(f)
  BY <1>1, <1>6 DEF FailDownload, Fetched, FetchTypes
<1>7. CASE Walk(f)
  <2>. DEFINE V   == Visited(wanted[f], walked[f], odb[f])
              new == Unresolved(wanted[f], walked[f], odb[f])
  <2>1. /\ phase[f] = "reading" /\ wants[f] \subseteq wanted[f]
        /\ walked[f] \subseteq odb[f]
        /\ \A c \in walked[f] : Parents[c] \subseteq walked[f] \cup wanted[f]
    BY <1>1, <1>7 DEF Walk, Fetched
  <2>2. /\ V \in SUBSET Commit /\ wanted[f] \subseteq V
        /\ \A d \in (V \cap odb[f]) \ walked[f] : Parents[d] \subseteq V
    BY VisitedFacts DEF FetchTypes
  <2>3. new = V \ (walked[f] \cup odb[f])
    BY DEF Unresolved
  <2>4. walked'[f] = walked[f] \cup (V \cap odb[f]) /\ UNCHANGED <<odb, wants>>
    BY <1>7 DEF Walk, FetchTypes
  <2>5. \/ new = {} /\ phase'[f] = "done" /\ wanted'[f] = wanted[f]
        \/ phase'[f] = "stuck"
        \/ phase'[f] = "reading" /\ wanted'[f] = wanted[f] \cup new
    BY <1>7 DEF Walk, FetchTypes
  <2>. HIDE DEF V, new
  <2>6. CASE new = {} /\ phase'[f] = "done" /\ wanted'[f] = wanted[f]
    <3>1. V \subseteq walked'[f] /\ walked'[f] \subseteq odb[f]
      BY <2>1, <2>3, <2>4, <2>6
    <3>2. Closed(walked'[f])
      BY <2>1, <2>2, <2>4, <3>1 DEF Closed
    <3>3. \A c \in walked'[f] : Anc[c] \subseteq walked'[f]
      BY <1>1, <3>2, HistoryAssumption DEF FetchTypes
    <3>. QED  BY <2>1, <2>2, <2>4, <2>6, <3>1, <3>3 DEF Fetched
  <2>7. CASE phase'[f] = "stuck"
    BY <2>7 DEF Fetched
  <2>8. CASE phase'[f] = "reading" /\ wanted'[f] = wanted[f] \cup new
    <3>1. V \subseteq walked'[f] \cup wanted'[f]
      BY <2>1, <2>3, <2>4, <2>8
    <3>2. \A c \in walked'[f] : Parents[c] \subseteq walked'[f] \cup wanted'[f]
      BY <2>1, <2>2, <2>4, <2>8, <3>1
    <3>. QED  BY <2>1, <2>4, <2>8, <3>2 DEF Fetched
  <2>. QED  BY <2>5, <2>6, <2>7, <2>8
<1>8. CASE Again(f)
  BY <1>1, <1>8 DEF Again, Fetched, FetchTypes
<1>. QED  BY <1>2, <1>3, <1>4, <1>5, <1>6, <1>7, <1>8, OneFetch

\* Nobody has fetched anything.
LEMMA FetchInit == Init => FetchTypes /\ FetchInv
BY DEF Init, FetchTypes, FetchInv, Fetched, Phase

(***************************************************************************)
(* A fetch that reports success has installed the whole history of what    *)
(* git asked for, on any commit graph, whatever was pushed or forced while *)
(* it ran and whatever earlier fetches left behind.                        *)
(***************************************************************************)
THEOREM FetchesComplete == Spec => []FetchComplete
<1>1. FetchInv => FetchComplete
  BY DEF FetchInv, Fetched, FetchComplete
<1>. QED  BY <1>1, FetchInit, FetchTypesStep, FetchedStep, PTL DEF Spec

-------------------------------------------------------------------------------
(***************************************************************************)
(* NoDeadWeight: wanted commits never leave the history of git's wants.    *)
(***************************************************************************)
History(f) == UNION {Anc[c] : c \in wants[f]}

Lean(f) ==
    /\ wanted[f] \subseteq History(f)
    /\ downloaded[f] \subseteq legacy[f] \cup {tipped[f][c] : c \in wanted[f]}

LeanInv == \A f \in Fetcher : Lean(f) /\ (phase[f] = "idle" => wanted[f] = {} /\ downloaded[f] = {})
                                     /\ (phase[f] = "listed" => wanted[f] = {} /\ downloaded[f] = {})

\* The history of what git asked for is closed.
LEMMA HistoryClosed ==
    ASSUME FetchTypes, NEW f \in Fetcher
    PROVE  /\ History(f) \in SUBSET Commit /\ Closed(History(f))
           /\ wants[f] \subseteq History(f)
<1>1. \A c \in wants[f] : c \in Anc[c] /\ Anc[c] \subseteq Commit /\ Closed(Anc[c])
  BY HistoryAssumption DEF FetchTypes
<1>. QED  BY <1>1 DEF History, Closed

\* Only Walk widens what is wanted, and only by what it visits.
LEMMA LeanStep == FetchTypes /\ LeanInv /\ [Next]_vars => LeanInv'
<1>. DEFINE Begun(f) == phase[f] \in {"idle", "listed"} => wanted[f] = {} /\ downloaded[f] = {}
<1>. SUFFICES ASSUME FetchTypes, LeanInv, [Next]_vars, NEW f \in Fetcher
              PROVE  Lean(f)' /\ Begun(f)'
  BY DEF LeanInv
<1>1. FetchTypes' /\ Lean(f) /\ Begun(f)
  BY FetchTypesStep DEF LeanInv
<1>2. CASE FetchSame(f)
  BY <1>1, <1>2 DEF Lean, History, FetchSame
<1>3. CASE ListForFetch(f)
  <2>1. wanted'[f] = {} /\ downloaded'[f] = {}
    BY <1>1, <1>3 DEF ListForFetch
  <2>. QED  BY <2>1 DEF Lean
<1>4. CASE ReadState(f)
  <2>1. wanted'[f] = wants'[f] /\ downloaded'[f] = {} /\ phase'[f] = "reading"
    BY <1>4 DEF ReadState, FetchTypes
  <2>2. wants'[f] \subseteq History(f)'
    BY <1>1, HistoryAssumption DEF History, FetchTypes
  <2>. QED  BY <2>1, <2>2 DEF Lean
<1>5. CASE Download(f)
  <2>1. PICK b \in ToDownload(f) : downloaded'[f] = downloaded[f] \cup {b}
    BY <1>5 DEF Download, FetchTypes
  <2>2. b \in legacy[f] \cup {tipped[f][c] : c \in wanted[f]}
    BY <2>1 DEF ToDownload
  <2>3. phase'[f] = "reading" /\ UNCHANGED <<wants, legacy, tipped, wanted>>
    BY <1>5 DEF Download
  <2>. QED  BY <1>1, <2>1, <2>2, <2>3 DEF Lean, History
<1>6. CASE FailDownload(f)
  BY <1>1, <1>6 DEF FailDownload, Lean, History, FetchTypes
<1>7. CASE Walk(f)
  <2>1. Visited(wanted[f], walked[f], odb[f]) \subseteq History(f)
    <3>1. wanted[f] \in SUBSET Commit
      BY DEF FetchTypes
    <3>2. /\ History(f) \in SUBSET Commit /\ Closed(History(f))
          /\ wanted[f] \subseteq History(f)
      BY <1>1, HistoryClosed DEF Lean
    <3>. QED  BY <3>1, <3>2, VisitedFacts
  <2>2. wanted'[f] \subseteq History(f) /\ wanted[f] \subseteq wanted'[f]
    BY <1>1, <1>7, <2>1 DEF Walk, Lean, FetchTypes, Unresolved
  <2>3. phase'[f] \notin {"idle", "listed"} /\ UNCHANGED <<wants, legacy, tipped, downloaded>>
    BY <1>7 DEF Walk, FetchTypes
  <2>. QED  BY <1>1, <2>2, <2>3 DEF Lean, History
<1>8. CASE Again(f)
  <2>1. wanted'[f] = {} /\ downloaded'[f] = {}
    BY <1>8 DEF Again, FetchTypes
  <2>. QED  BY <2>1 DEF Lean
<1>. QED  BY <1>2, <1>3, <1>4, <1>5, <1>6, <1>7, <1>8, OneFetch

(***************************************************************************)
(* Whatever is in object_index, a fetch downloads besides the bundles      *)
(* without a tip only bundles whose tip is in the history git asked for.   *)
(***************************************************************************)
THEOREM FetchesNoDeadWeight == Spec => []NoDeadWeight
<1>1. Init => LeanInv
  BY DEF Init, LeanInv, Lean
<1>2. FetchTypes /\ LeanInv => NoDeadWeight
  <2>. SUFFICES ASSUME FetchTypes, LeanInv, NEW f \in Fetcher,
                       NEW b \in downloaded[f] \ legacy[f]
                PROVE  \E w \in wants[f], c \in Commit : c \in Anc[w] /\ tipped[f][c] = b
    BY DEF NoDeadWeight
  <2>1. PICK c \in wanted[f] : tipped[f][c] = b
    BY DEF LeanInv, Lean
  <2>2. PICK w \in wants[f] : c \in Anc[w]
    BY DEF LeanInv, Lean, History
  <2>. QED  BY <2>1, <2>2 DEF FetchTypes
<1>. QED  BY <1>1, <1>2, FetchInit, FetchTypesStep, LeanStep, PTL DEF Spec

-------------------------------------------------------------------------------
(***************************************************************************)
(* The contract and the pushes.                                            *)
(***************************************************************************)
PushTypes ==
    /\ contract \in State
    /\ listed \in [Pusher -> [RefName -> Value \cup {None}] \cup {None}]
    /\ push \in [Pusher -> State \cup {None}]

\* What `list` shows is a target, or nothing, for every ref.
LEMMA RefsType ==
    ASSUME NEW s \in State
    PROVE  Refs(s) \in [RefName -> Value \cup {None}]
<1>1. \A r \in RefName : Target(s, r) \in Value \cup {None}
  BY StateFields, KeyParts DEF Target, MaybeEntry, Entry
<1>. QED  BY <1>1 DEF Refs

\* A delta without its tips is still a state.
LEMMA UntipType ==
    ASSUME NEW d \in State
    PROVE  Untip(d) \in State
<1>1. \A k \in Key : d.entry[k] \in Entry \cup {None}
  BY DEF State
<1>2. [k \in Key |-> IF k \in {TipKey(b) : b \in Bundle} THEN None ELSE d.entry[k]]
        \in [Key -> Entry \cup {None}]
  BY <1>1
<1>. QED  BY <1>2 DEF Untip, State

\* Every step keeps the types of the contract and the pushes.
LEMMA PushTypesStep == PushTypes /\ [Next]_vars => PushTypes'
<1>. SUFFICES ASSUME PushTypes, [Next]_vars PROVE PushTypes'
  OBVIOUS
<1>. USE DEF PushTypes
<1>1. ASSUME NEW p \in Pusher, ListForPush(p) PROVE PushTypes'
  BY <1>1, RefsType DEF ListForPush
<1>2. ASSUME NEW p \in Pusher, HandlePush(p) PROVE PushTypes'
  <2>1. PICK specs \in Specs(Clone[p]), last \in RefName, mode \in Modes,
             force \in IF AllowForce THEN SUBSET RefName ELSE {{}} :
          LET rs == Pushed(Clone[p], contract, specs, force)
              d  == PushDelta(Clone[p], contract, specs, rs, last, mode)
          IN  /\ Submittable(contract, d)
              /\ \/ push' = [push EXCEPT ![p] = d]
                 \/ OldHelpers /\ push' = [push EXCEPT ![p] = Untip(d)]
    BY <1>2, Zenon DEF HandlePush
  <2>. DEFINE d == PushDelta(Clone[p], contract, specs,
                             Pushed(Clone[p], contract, specs, force), last, mode)
  <2>2. d \in State
    BY <2>1, PushDeltaType, TransferAssumption
  <2>3. push' = [push EXCEPT ![p] = d] \/ push' = [push EXCEPT ![p] = Untip(d)]
    BY <2>1
  <2>. HIDE DEF d
  <2>4. push' \in [Pusher -> State \cup {None}]
    BY <2>2, <2>3, UntipType
  <2>. QED  BY <1>2, <2>4 DEF HandlePush
<1>3. ASSUME NEW p \in Pusher, SubmitUpdate(p) PROVE PushTypes'
  <2>1. UpdateState(contract, push[p]) \in State
    BY <1>3, UpdateFacts DEF SubmitUpdate
  <2>. QED  BY <1>3, <2>1 DEF SubmitUpdate
<1>4. ASSUME NEW p \in Pusher, AbandonPush(p) PROVE PushTypes'
  BY <1>4 DEF AbandonPush
<1>5. ASSUME NEW f \in Fetcher, \/ ListForFetch(f) \/ ReadState(f) \/ Download(f)
                                \/ FailDownload(f) \/ Walk(f) \/ Again(f)
      PROVE  PushTypes'
  BY <1>5 DEF ListForFetch, ReadState, Download, FailDownload, Walk, Again, pushVars
<1>6. CASE UNCHANGED vars
  BY <1>6 DEF vars
<1>. QED  BY <1>1, <1>2, <1>3, <1>4, <1>5, <1>6 DEF Next

(***************************************************************************)
(* Type correctness of the repo, its pushes and its fetches, for any       *)
(* commits, refs and helpers.                                              *)
(***************************************************************************)
THEOREM TransferTypeOK == Spec => []TypeOK
<1>1. Init => PushTypes
  BY InitialTypes DEF Init, PushTypes
<1>2. FetchTypes /\ PushTypes => TypeOK
  BY DEF FetchTypes, PushTypes, TypeOK
<1>. QED  BY <1>1, <1>2, FetchInit, FetchTypesStep, PushTypesStep, PTL DEF Spec

-------------------------------------------------------------------------------
(***************************************************************************)
(* NeverStuck, for one pusher of one branch that forces nothing.  The      *)
(* targets the branch has had are a chain, and the bundle of a push is a   *)
(* layer: what its target adds to the targets below it.  P is the set of   *)
(* the targets so far.                                                     *)
(***************************************************************************)
Chain(P) ==
    /\ P \in SUBSET Commit
    /\ \A cs \in SUBSET P : cs # {} => /\ \E top \in cs : \A c \in cs : c \in Anc[top]
                                       /\ \E low \in cs : \A c \in cs : low \in Anc[c]

Layer(P, c) == Anc[c] \ UNION {Anc[d] : d \in (P \cap Anc[c]) \ {c}}

\* A new target above all of P.
Above(P, new) == new \in Commit \ P /\ \A c \in P : c \in Anc[new]

\* Ancestry is an order.
LEMMA AncOrder ==
    ASSUME NEW c \in Commit, NEW d \in Commit
    PROVE  /\ c \in Anc[c] /\ Anc[c] \in SUBSET Commit /\ Closed(Anc[c])
           /\ c \in Anc[d] => Anc[c] \subseteq Anc[d]
           /\ c \in Anc[d] /\ d \in Anc[c] => c = d
<1>1. /\ c \in Anc[c] /\ Anc[c] \in SUBSET Commit /\ Closed(Anc[c])
      /\ Anc[d] \in SUBSET Commit /\ Closed(Anc[d])
  BY HistoryAssumption
<1>2. \A cs \in SUBSET Commit : Closed(cs) => \A e \in cs : Anc[e] \subseteq cs
  BY HistoryAssumption
<1>3. /\ c \in Anc[d] => Anc[c] \subseteq Anc[d]
      /\ d \in Anc[c] => Anc[d] \subseteq Anc[c]
  BY <1>1, <1>2
<1>. QED  BY <1>1, <1>3, AncUnique

\* Targets are comparable; a layer has its target, and layers share nothing.
LEMMA LayerFacts ==
    ASSUME NEW P, Chain(P), NEW c \in P, NEW d \in P
    PROVE  /\ c \in Commit /\ d \in Commit
           /\ c \in Anc[d] \/ d \in Anc[c]
           /\ c \in Layer(P, c) /\ Layer(P, c) \subseteq Anc[c]
           /\ c # d => Layer(P, c) \cap Layer(P, d) = {}
<1>1. c \in Commit /\ d \in Commit /\ \A e \in P : e \in Commit
  BY DEF Chain
<1>2. c \in Anc[d] \/ d \in Anc[c]
  <2>1. {c, d} \in SUBSET P /\ {c, d} # {}
    OBVIOUS
  <2>2. PICK top \in {c, d} : \A e \in {c, d} : e \in Anc[top]
    BY <2>1 DEF Chain
  <2>. QED  BY <2>2
<1>3. c \in Layer(P, c) /\ Layer(P, c) \subseteq Anc[c]
  BY <1>1, AncOrder DEF Layer
<1>4. ASSUME NEW a \in P, NEW e \in P, a # e, a \in Anc[e]
      PROVE  Layer(P, a) \cap Layer(P, e) = {}
  BY <1>4 DEF Layer
<1>5. c # d => Layer(P, c) \cap Layer(P, d) = {}
  BY <1>2, <1>4
<1>. QED  BY <1>1, <1>2, <1>3, <1>5

\* Every ancestor of a target is in the layer of a target not above it.
LEMMA LayersCover ==
    ASSUME NEW P, Chain(P), NEW w \in P, NEW x \in Anc[w]
    PROVE  \E c \in P : c \in Anc[w] /\ x \in Layer(P, c)
<1>. DEFINE cs == {c \in P : x \in Anc[c]}
<1>1. cs \in SUBSET P /\ cs # {}
  OBVIOUS
<1>2. PICK low \in cs : \A c \in cs : low \in Anc[c]
  BY <1>1 DEF Chain
<1>3. low \in P /\ x \in Anc[low] /\ low \in Anc[w]
  BY <1>2
<1>4. ASSUME NEW d \in (P \cap Anc[low]) \ {low}, x \in Anc[d] PROVE FALSE
  <2>1. low \in Anc[d] /\ d \in Commit /\ low \in Commit
    BY <1>2, <1>3, <1>4 DEF Chain
  <2>. QED  BY <1>4, <2>1, AncOrder
<1>. QED  BY <1>3, <1>4 DEF Layer

\* A new target leaves the layers below as they are, and adds one of its own.
LEMMA LayersKept ==
    ASSUME NEW P, Chain(P), NEW new, Above(P, new)
    PROVE  /\ Chain(P \cup {new})
           /\ \A c \in P : /\ Layer(P \cup {new}, c) = Layer(P, c)
                           /\ Layer(P \cup {new}, new) \cap Anc[c] = {}
<1>1. /\ new \in Commit /\ new \notin P /\ \A c \in P : c \in Anc[new] /\ c \in Commit
      /\ new \in Anc[new]
  BY AncOrder DEF Above, Chain
<1>2. ASSUME NEW cs \in SUBSET (P \cup {new}), cs # {}
      PROVE  /\ \E top \in cs : \A c \in cs : c \in Anc[top]
             /\ \E low \in cs : \A c \in cs : low \in Anc[c]
  <2>1. CASE cs \in SUBSET P
    BY <1>2, <2>1 DEF Chain
  <2>2. CASE new \in cs
    <3>1. \E top \in cs : \A c \in cs : c \in Anc[top]
      BY <1>1, <2>2
    <3>2. CASE cs \ {new} = {}
      <4>1. \A c \in cs : c = new
        BY <3>2
      <4>. QED  BY <1>1, <2>2, <4>1
    <3>3. CASE cs \ {new} # {}
      <4>1. cs \ {new} \in SUBSET P
        OBVIOUS
      <4>2. PICK low \in cs \ {new} : \A c \in cs \ {new} : low \in Anc[c]
        BY <3>3, <4>1 DEF Chain
      <4>3. \A c \in cs : low \in Anc[c]
        BY <1>1, <4>1, <4>2
      <4>. QED  BY <3>1, <4>2, <4>3
    <3>. QED  BY <3>2, <3>3
  <2>. QED  BY <2>1, <2>2
<1>3. P \cup {new} \in SUBSET Commit
  BY <1>1
<1>4. ASSUME NEW c \in P PROVE Layer(P \cup {new}, c) = Layer(P, c)
  <2>1. new \notin Anc[c]
    BY <1>1, AncOrder
  <2>2. (P \cup {new}) \cap Anc[c] = P \cap Anc[c]
    BY <2>1
  <2>. QED  BY <2>2 DEF Layer
<1>5. ASSUME NEW c \in P PROVE Layer(P \cup {new}, new) \cap Anc[c] = {}
  BY <1>1 DEF Layer
<1>. QED  BY <1>2, <1>3, <1>4, <1>5 DEF Chain

(***************************************************************************)
(* The heart of it: where each layer is local as a whole or not at all, a  *)
(* walk that finds something missing finds a missing target.  The topmost  *)
(* layer that is missing is reached through commits of the layers above,   *)
(* which are local, so the first one of it to be seen is its target.       *)
(***************************************************************************)
LEMMA WalkFindsTarget ==
    ASSUME NEW P, Chain(P), NEW ws \in SUBSET P, NEW want \in SUBSET Commit,
           NEW has \in SUBSET Commit, NEW done \in SUBSET has,
           ws \subseteq want, want \subseteq UNION {Anc[w] : w \in ws},
           \A c \in done : Parents[c] \subseteq done \cup want,
           \A c \in P : Layer(P, c) \subseteq has \/ Layer(P, c) \cap has = {},
           Unresolved(want, done, has) # {}
    PROVE  \E c \in P \cap Unresolved(want, done, has) :
              /\ \E w \in ws : c \in Anc[w]
              /\ Layer(P, c) \cap has = {}
<1>. DEFINE V == Visited(want, done, has)
            U == V \cup done
<1>1. /\ V \in SUBSET Commit /\ want \subseteq V
      /\ \A d \in (V \cap has) \ done : Parents[d] \subseteq V
      /\ \A cs \in SUBSET Commit : Closed(cs) /\ want \subseteq cs => V \subseteq cs
  BY VisitedFacts
<1>2. Unresolved(want, done, has) = V \ (done \cup has)
  BY DEF Unresolved
<1>. HIDE DEF V
<1>3. P \in SUBSET Commit
  BY DEF Chain
<1>4. ws # {}
  <2>1. CASE ws = {}
    <3>1. want = {} /\ Closed({})
      BY <2>1 DEF Closed
    <3>2. V = {}
      BY <1>1, <3>1
    <3>. QED  BY <1>2, <3>2
  <2>. QED  BY <2>1
<1>5. PICK top \in ws : \A w \in ws : w \in Anc[top]
  BY <1>4 DEF Chain
<1>6. top \in P /\ top \in Commit /\ top \in want /\ \A w \in ws : Anc[w] \subseteq Anc[top]
  BY <1>3, <1>5, AncOrder
<1>7. /\ Anc[top] \in SUBSET Commit /\ Closed(Anc[top]) /\ want \subseteq Anc[top]
      /\ top \in Anc[top]
  BY <1>6, AncOrder
<1>8. V \subseteq Anc[top]
  BY <1>1, <1>7
<1>9. \A d \in U \cap has : Parents[d] \subseteq U
  BY <1>1
<1>10. PICK x \in V : x \notin done \cup has
  BY <1>2
<1>. DEFINE missing == {c \in P : c \in Anc[top] /\ ~(Layer(P, c) \subseteq has)}
<1>11. missing # {}
  <2>1. PICK c \in P : c \in Anc[top] /\ x \in Layer(P, c)
    BY <1>6, <1>8, LayersCover
  <2>. QED  BY <1>10, <2>1
<1>12. PICK c \in missing : \A d \in missing : d \in Anc[c]
  <2>1. missing \in SUBSET P
    OBVIOUS
  <2>. QED  BY <1>11, <2>1 DEF Chain
<1>13. /\ c \in P /\ c \in Commit /\ c \in Anc[top] /\ Layer(P, c) \cap has = {}
       /\ c \in Layer(P, c) /\ Layer(P, c) \subseteq Anc[c]
  BY <1>3, <1>12, LayerFacts
<1>14. c \notin has
  BY <1>13
<1>15. c \in U
  <2>. DEFINE cs == U \cup {y \in Commit : c \notin Anc[y]}
  <2>1. ASSUME NEW y \in cs, c \notin U PROVE Parents[y] \subseteq cs
    <3>1. y \in Commit /\ Parents[y] \in SUBSET Commit
      BY <1>1, <2>1, HistoryAssumption
    <3>2. CASE c \notin Anc[y]
      <4>1. ASSUME NEW p \in Parents[y] PROVE c \notin Anc[p]
        <5>1. p \in Anc[y] /\ p \in Commit
          BY <3>1, AncOrder DEF Closed
        <5>. QED  BY <3>1, <3>2, <5>1, AncOrder
      <4>. QED  BY <3>1, <4>1
    <3>3. CASE y \in done
      BY <1>9, <3>3
    <3>4. CASE c \in Anc[y] /\ y \notin done
      <4>1. y \in U /\ y # c /\ y \in Anc[top]
        BY <2>1, <3>4, <1>8
      <4>2. PICK e \in P : e \in Anc[top] /\ y \in Layer(P, e)
        BY <1>6, <4>1, LayersCover
      <4>3. e \in Commit /\ y \in Anc[e] /\ c \in Anc[e]
        <5>1. e \in Commit /\ Layer(P, e) \subseteq Anc[e]
          BY <4>2, LayerFacts
        <5>. QED  BY <3>1, <3>4, <4>2, <5>1, AncOrder
      <4>4. e # c
        BY <1>13, <3>1, <3>4, <4>1, <4>3, AncOrder
      <4>5. e \notin missing
        BY <1>12, <1>13, <4>3, <4>4, AncOrder
      <4>6. y \in has
        BY <4>2, <4>5
      <4>. QED  BY <1>9, <4>1, <4>6
    <3>. QED  BY <3>2, <3>3, <3>4
  <2>2. ASSUME c \notin U PROVE FALSE
    <3>1. cs \in SUBSET Commit /\ Closed(cs) /\ top \in cs
      BY <1>1, <1>6, <2>1, <2>2 DEF Closed
    <3>2. Anc[top] \subseteq cs
      BY <3>1, HistoryAssumption
    <3>. QED  BY <1>13, <2>2, <3>2, AncOrder
  <2>. QED  BY <2>2
<1>16. c \in P \cap Unresolved(want, done, has)
  BY <1>2, <1>13, <1>14, <1>15
<1>. QED  BY <1>5, <1>13, <1>16

-------------------------------------------------------------------------------
(***************************************************************************)
(* The repo as a stack of layers: the bundles are the layers, the tips say *)
(* which layer is whose, and the branch is at the top.                     *)
(***************************************************************************)
Stacked(s, P) ==
    /\ Chain(P)
    /\ Bundles(s) = {Layer(P, c) : c \in P}
    /\ \A b \in Bundle : TipOf(s, b) # None =>
          TipOf(s, b) \in P /\ b = Layer(P, TipOf(s, b))
    /\ \A r \in RefName :
          \/ P = {} /\ Target(s, r) = None
          \/ Target(s, r) \in P /\ \A c \in P : c \in Anc[Target(s, r)]

\* t is the stack as it was, or with one target more on top.
Grown(P, t) == Stacked(t, P) \/ \E new : Above(P, new) /\ Stacked(t, P \cup {new})

\* The pack of a fast-forward is the new target's layer.
LEMMA PackIsLayer ==
    ASSUME NEW P, Chain(P), NEW new \in Commit, NEW old,
           \/ P = {} /\ old = None
           \/ old \in P /\ old # new /\ old \in Anc[new] /\ \A c \in P : c \in Anc[old]
    PROVE  Above(P, new) /\ BuildPack(old, new) = Layer(P \cup {new}, new)
<1>1. CASE P = {} /\ old = None
  <2>1. Layer(P \cup {new}, new) = Anc[new]
    BY <1>1 DEF Layer
  <2>. QED  BY <1>1, <2>1 DEF Above, BuildPack
<1>2. CASE old \in P /\ old # new /\ old \in Anc[new] /\ \A c \in P : c \in Anc[old]
  <2>1. /\ P \in SUBSET Commit /\ old \in Commit /\ old # None
        /\ Anc[old] \subseteq Anc[new] /\ Anc[new] \in SUBSET Commit
    BY <1>2, AncOrder, HistoryAssumption DEF Chain
  <2>2. new \notin P
    BY <1>2, <2>1, AncOrder
  <2>3. Above(P, new)
    BY <1>2, <2>1, <2>2 DEF Above
  <2>4. \A c \in P : Anc[c] \subseteq Anc[old]
    BY <1>2, <2>1, AncOrder
  <2>5. UNION {Anc[d] : d \in ((P \cup {new}) \cap Anc[new]) \ {new}} = Anc[old]
    BY <1>2, <2>4
  <2>. QED  BY <2>1, <2>3, <2>5 DEF Layer, BuildPack
<1>. QED  BY <1>1, <1>2

(***************************************************************************)
(* An unforced push, from a helper that records tips or one that does not, *)
(* puts one layer on the stack, or none when it moves no branch.           *)
(***************************************************************************)
LEMMA PushStacks ==
    ASSUME NEW r, RefName = {r}, NEW s \in State, ValidateState(s), NEW P, Stacked(s, P),
           NEW clone \in SUBSET Commit, NEW mode \in Modes, NEW last,
           NEW specs \in Specs(clone),
           specs[r] # None => FastForward(Refs(s), specs, r),
           NEW rs, rs = Pushed(clone, s, specs, {}),
           NEW d, d = PushDelta(clone, s, specs, rs, last, mode), Submittable(s, d),
           NEW e, e = d \/ e = Untip(d),
           NEW t, t = UpdateState(s, e)
    PROVE  Grown(P, t)
<1>. DEFINE built == {PackFor(clone, s, specs, q) : q \in rs}
<1>1. Merges(d, e, clone, s, t, specs, rs, built, last, mode)
  BY PushMerged
<1>2. /\ rs \subseteq {r} /\ built \subseteq Bundle /\ Bundles(t) = Bundles(s) \cup built
      /\ Target(t, r) = IF r \in rs THEN specs[r] ELSE Target(s, r)
      /\ \A b \in Bundle :
            \/ TipOf(t, b) = TipOf(s, b)
            \/ b \in built /\ TipOf(t, b) = Advertised(clone, s, specs, rs, last, b)
  BY <1>1 DEF Merges, ValueAt, TipOf
<1>3. CASE r \notin rs
  <2>1. rs = {} /\ built = {}
    BY <1>2, <1>3
  <2>2. Stacked(t, P)
    BY <1>2, <1>3, <2>1 DEF Stacked
  <2>. QED  BY <2>2 DEF Grown
<1>4. CASE r \in rs
  <2>. DEFINE old == Target(s, r)
              new == specs[r]
              Q   == P \cup {new}
  <2>1. /\ new \in Commit /\ new # None /\ new # old /\ old \in clone \cup {None}
    BY <1>4, SpecTypes DEF Pushed, Pushable
  <2>2. old = None \/ old \in Anc[new]
    BY <2>1 DEF FastForward, Refs
  <2>3. Chain(P) /\ P \in SUBSET Commit /\ None \notin Commit
    BY HistoryAssumption DEF Stacked, Chain
  <2>4. \/ P = {} /\ old = None
        \/ old \in P /\ \A c \in P : c \in Anc[old]
    BY DEF Stacked
  <2>5. Have(clone, s, r) = old
    BY <2>1, <2>3 DEF Have
  <2>6. Above(P, new) /\ BuildPack(old, new) = Layer(Q, new)
    BY <2>1, <2>2, <2>3, <2>4, PackIsLayer
  <2>7. built = {Layer(Q, new)}
    BY <1>2, <1>4, <2>5, <2>6 DEF PackFor
  <2>8. /\ Chain(Q) /\ \A c \in P : Layer(Q, c) = Layer(P, c)
    BY <2>3, <2>6, LayersKept
  <2>9. ASSUME NEW b \in built PROVE Advertised(clone, s, specs, rs, last, b) = new
    BY <1>2, <1>4, <2>9 DEF Advertised
  <2>10. Bundles(t) = {Layer(Q, c) : c \in Q}
    BY <1>2, <2>7, <2>8 DEF Stacked
  <2>11. ASSUME NEW b \in Bundle, TipOf(t, b) # None
         PROVE  TipOf(t, b) \in Q /\ b = Layer(Q, TipOf(t, b))
    <3>1. CASE TipOf(t, b) = TipOf(s, b)
      BY <2>8, <2>11, <3>1 DEF Stacked
    <3>2. CASE b \in built /\ TipOf(t, b) = new
      BY <2>7, <3>2
    <3>. QED  BY <1>2, <2>9, <3>1, <3>2
  <2>12. Target(t, r) \in Q /\ \A c \in Q : c \in Anc[Target(t, r)]
    BY <1>2, <1>4, <2>1, <2>6, AncOrder DEF Above
  <2>13. Stacked(t, Q)
    BY <2>8, <2>10, <2>11, <2>12 DEF Stacked
  <2>. QED  BY <2>6, <2>13 DEF Grown
<1>. QED  BY <1>3, <1>4

-------------------------------------------------------------------------------
(***************************************************************************)
(* The inductive invariant.  The pusher's git was shown the branch as it   *)
(* is, and its pending update grows the stack by a layer at most.          *)
(***************************************************************************)
StackInv(P) ==
    /\ ValidateState(contract) /\ Stacked(contract, P)
    /\ \A p \in Pusher :
          /\ listed[p] # None => listed[p] = Refs(contract) /\ push[p] = None
          /\ push[p] # None => Grown(P, UpdateState(contract, push[p]))

\* A fetch has layers whole or not at all, and has read where each of them is.
Layered(P, f) ==
    /\ odb[f] \subseteq UNION {Anc[c] : c \in P}
    /\ \A c \in P : Layer(P, c) \subseteq odb[f] \/ Layer(P, c) \cap odb[f] = {}
    /\ wants[f] \subseteq P
    /\ legacy[f] \subseteq {Layer(P, c) : c \in P}
    /\ \A c \in Commit : tipped[f][c] # None => c \in P /\ tipped[f][c] = Layer(P, c)
    /\ \A b \in downloaded[f] : b \subseteq odb[f]
    /\ phase[f] = "reading" => \A w \in wants[f], c \in P : c \in Anc[w] =>
          Layer(P, c) \in legacy[f] \/ tipped[f][c] = Layer(P, c)
    /\ phase[f] # "stuck"

StackTypes == PushTypes /\ FetchTypes /\ FetchInv /\ LeanInv

LayeredInv == StackTypes /\ \E P : StackInv(P) /\ \A f \in Fetcher : Layered(P, f)

\* A new layer changes nothing for a fetch that has read of those below.
LEMMA LayeredKept ==
    ASSUME NEW P, Chain(P), NEW new, Above(P, new), NEW f \in Fetcher, Layered(P, f)
    PROVE  Layered(P \cup {new}, f)
<1>. DEFINE Q == P \cup {new}
<1>1. /\ Chain(Q)
      /\ \A c \in P : Layer(Q, c) = Layer(P, c) /\ Layer(Q, new) \cap Anc[c] = {}
  BY LayersKept
<1>2. /\ new \in Commit /\ new \notin P /\ P \in SUBSET Commit /\ \A c \in P : c \in Anc[new]
  BY DEF Above, Chain
<1>3. odb[f] \subseteq UNION {Anc[c] : c \in Q} /\ wants[f] \subseteq Q
  BY DEF Layered
<1>4. Layer(Q, new) \cap odb[f] = {}
  <2>1. odb[f] \subseteq UNION {Anc[c] : c \in P}
    BY DEF Layered
  <2>2. \A c \in P : Layer(Q, new) \cap Anc[c] = {}
    BY <1>1
  <2>. HIDE DEF Q
  <2>. QED  BY <2>1, <2>2
<1>5. \A c \in Q : Layer(Q, c) \subseteq odb[f] \/ Layer(Q, c) \cap odb[f] = {}
  BY <1>1, <1>4 DEF Layered
<1>6. legacy[f] \subseteq {Layer(Q, c) : c \in Q}
  <2>1. legacy[f] \subseteq {Layer(P, c) : c \in P}
    BY DEF Layered
  <2>2. {Layer(P, c) : c \in P} = {Layer(Q, c) : c \in P}
    BY <1>1
  <2>. QED  BY <2>1, <2>2
<1>7. \A c \in Commit : tipped[f][c] # None => c \in Q /\ tipped[f][c] = Layer(Q, c)
  BY <1>1 DEF Layered
<1>8. ASSUME NEW w \in wants[f] PROVE new \notin Anc[w]
  <2>1. w \in P /\ w \in Commit /\ w \in Anc[new]
    BY <1>2 DEF Layered
  <2>. QED  BY <1>2, <2>1, AncOrder
<1>9. phase[f] = "reading" => \A w \in wants[f], c \in Q : c \in Anc[w] =>
         Layer(Q, c) \in legacy[f] \/ tipped[f][c] = Layer(Q, c)
  <2>. SUFFICES ASSUME phase[f] = "reading", NEW w \in wants[f], NEW c \in Q, c \in Anc[w]
                PROVE  Layer(Q, c) \in legacy[f] \/ tipped[f][c] = Layer(Q, c)
    OBVIOUS
  <2>1. c \in P
    BY <1>8
  <2>2. Layer(P, c) \in legacy[f] \/ tipped[f][c] = Layer(P, c)
    BY <2>1 DEF Layered
  <2>. QED  BY <1>1, <2>1, <2>2
<1>. HIDE DEF Q
<1>10. Layered(Q, f)
  BY <1>3, <1>5, <1>6, <1>7, <1>9 DEF Layered
<1>. QED  BY <1>10 DEF Q

\* Steps of the pusher of an unforced branch.
LEMMA StackStep ==
    ASSUME NEW p, Pusher = {p}, NEW r, RefName = {r}, AllowForce = FALSE, PushTypes,
           NEW P, StackInv(P),
           \/ ListForPush(p) \/ HandlePush(p) \/ SubmitUpdate(p) \/ AbandonPush(p)
    PROVE  \/ StackInv(P)'
           \/ \E new : Above(P, new) /\ StackInv(P \cup {new})'
<1>1. /\ contract \in State /\ ValidateState(contract) /\ Stacked(contract, P)
      /\ listed[p] # None => listed[p] = Refs(contract) /\ push[p] = None
      /\ push[p] # None => Grown(P, UpdateState(contract, push[p]))
      /\ push[p] \in State \cup {None}
  BY DEF StackInv, PushTypes
<1>2. CASE ListForPush(p)
  <2>1. /\ contract' = contract /\ push' = push /\ push[p] = None
        /\ listed'[p] = Refs(contract)
    BY <1>2 DEF ListForPush, PushTypes
  <2>. QED  BY <1>1, <2>1 DEF StackInv, Refs, Target
<1>3. CASE HandlePush(p)
  <2>1. PICK specs \in Specs(Clone[p]), last \in RefName, mode \in Modes,
             force \in IF AllowForce THEN SUBSET RefName ELSE {{}} :
          /\ \A q \in RefName : specs[q] # None /\ q \notin force
                                  => FastForward(listed[p], specs, q)
          /\ LET rs == Pushed(Clone[p], contract, specs, force)
                 d  == PushDelta(Clone[p], contract, specs, rs, last, mode)
             IN  /\ Submittable(contract, d)
                 /\ \/ push' = [push EXCEPT ![p] = d]
                    \/ OldHelpers /\ push' = [push EXCEPT ![p] = Untip(d)]
    BY <1>3, Zenon DEF HandlePush
  <2>2. /\ force = {} /\ listed[p] = Refs(contract)
        /\ contract' = contract /\ listed'[p] = None
    BY <1>1, <1>3, <2>1 DEF HandlePush, PushTypes
  <2>. DEFINE rs == Pushed(Clone[p], contract, specs, {})
              d  == PushDelta(Clone[p], contract, specs, rs, last, mode)
              t  == UpdateState(contract, push'[p])
  <2>3. Submittable(contract, d)
    BY <2>1, <2>2
  <2>4. push'[p] = d \/ push'[p] = Untip(d)
    BY <2>1, <2>2 DEF PushTypes
  <2>5. specs[r] # None => FastForward(Refs(contract), specs, r)
    BY <2>1, <2>2
  <2>6. Clone[p] \in SUBSET Commit
    BY TransferAssumption
  <2>7. Grown(P, t)
    <3>1. rs = Pushed(Clone[p], contract, specs, {})
      OBVIOUS
    <3>2. d = PushDelta(Clone[p], contract, specs, rs, last, mode)
      OBVIOUS
    <3>. HIDE DEF rs, d
    <3>. QED  BY <1>1, <2>3, <2>4, <2>5, <2>6, <3>1, <3>2, PushStacks
  <2>. QED  BY <1>1, <2>2, <2>7 DEF StackInv
<1>4. CASE SubmitUpdate(p)
  <2>1. /\ push[p] # None /\ contract' = UpdateState(contract, push[p])
        /\ push'[p] = None /\ listed' = listed
    BY <1>4 DEF SubmitUpdate, PushTypes
  <2>2. Grown(P, contract') /\ listed[p] = None
    BY <1>1, <2>1
  <2>3. ValidateState(contract')
    BY <1>1, <2>1, UpdateFacts
  <2>4. CASE Stacked(contract', P)
    BY <2>1, <2>2, <2>3, <2>4 DEF StackInv
  <2>5. ASSUME NEW new, Above(P, new), Stacked(contract', P \cup {new})
        PROVE  StackInv(P \cup {new})'
    BY <2>1, <2>2, <2>3, <2>5 DEF StackInv
  <2>. QED  BY <2>2, <2>4, <2>5 DEF Grown
<1>5. CASE AbandonPush(p)
  <2>1. /\ contract' = contract /\ push'[p] = None /\ listed'[p] = None
    BY <1>5 DEF AbandonPush, PushTypes
  <2>. QED  BY <1>1, <2>1 DEF StackInv
<1>. QED  BY <1>2, <1>3, <1>4, <1>5

\* Reading the state maps every layer: it has no tip, or it has its own.
LEMMA ReadLayers ==
    ASSUME NEW s, NEW P, Stacked(s, P), NEW m \in TipMaps(s)
    PROVE  /\ Untipped(s) \subseteq {Layer(P, c) : c \in P}
           /\ \A c \in Commit : m[c] # None => c \in P /\ m[c] = Layer(P, c)
           /\ \A c \in P : Layer(P, c) \in Untipped(s) \/ m[c] = Layer(P, c)
<1>. DEFINE Advertising(c) == {b \in Bundle : TipOf(s, b) = c}
<1>1. \A c \in Commit : IF Advertising(c) = {} THEN m[c] = None ELSE m[c] \in Advertising(c)
  BY DEF TipMaps
<1>2. /\ Chain(P) /\ P \in SUBSET Commit
      /\ Bundles(s) = {Layer(P, c) : c \in P}
      /\ \A b \in Bundle : TipOf(s, b) # None => TipOf(s, b) \in P /\ b = Layer(P, TipOf(s, b))
  BY DEF Stacked, Chain
<1>3. \A c \in Commit : \A b \in Advertising(c) : c \in P /\ b = Layer(P, c)
  BY <1>2, HistoryAssumption
<1>4. \A c \in Commit : m[c] # None => c \in P /\ m[c] = Layer(P, c)
  BY <1>1, <1>3
<1>5. ASSUME NEW c \in P, Layer(P, c) \notin Untipped(s) PROVE m[c] = Layer(P, c)
  <2>. DEFINE b == Layer(P, c)
  <2>1. b \in Bundles(s) /\ b \in Bundle /\ TipOf(s, b) # None
    BY <1>2, <1>5 DEF Untipped, Bundles
  <2>2. TipOf(s, b) \in P /\ b = Layer(P, TipOf(s, b))
    BY <1>2, <2>1
  <2>3. TipOf(s, b) = c
    <3>1. \A d \in P : Layer(P, d) = Layer(P, c) => d = c
      BY <1>2, LayerFacts
    <3>. QED  BY <2>2, <3>1
  <2>4. b \in Advertising(c) /\ c \in Commit
    BY <1>2, <2>1, <2>3
  <2>. QED  BY <1>1, <1>3, <2>4
<1>. QED  BY <1>2, <1>4, <1>5 DEF Untipped

\* What a fetch downloads is a layer.
LEMMA LayeredDownload ==
    ASSUME NEW P, Chain(P), FetchTypes, NEW f \in Fetcher, Layered(P, f), Download(f)
    PROVE  Layered(P, f)'
<1>1. PICK b \in ToDownload(f) : /\ odb'[f] = odb[f] \cup b
                                 /\ downloaded'[f] = downloaded[f] \cup {b}
  BY DEF Download, FetchTypes
<1>2. UNCHANGED <<phase, wants, legacy, tipped>>
  BY DEF Download
<1>3. PICK e \in P : b = Layer(P, e)
  <2>1. CASE b \in legacy[f]
    BY <2>1 DEF Layered
  <2>2. CASE \E c \in wanted[f] : tipped[f][c] # None /\ b = tipped[f][c]
    BY <2>2 DEF Layered, FetchTypes
  <2>. QED  BY <1>1, <2>1, <2>2 DEF ToDownload
<1>4. odb'[f] \subseteq UNION {Anc[c] : c \in P}
  BY <1>1, <1>3, LayerFacts DEF Layered
<1>5. ASSUME NEW c \in P
      PROVE  Layer(P, c) \subseteq odb'[f] \/ Layer(P, c) \cap odb'[f] = {}
  <2>1. CASE c = e
    BY <1>1, <1>3, <2>1
  <2>2. CASE c # e
    <3>1. Layer(P, c) \cap b = {}
      BY <1>3, <2>2, LayerFacts
    <3>2. Layer(P, c) \subseteq odb[f] \/ Layer(P, c) \cap odb[f] = {}
      BY DEF Layered
    <3>. QED  BY <1>1, <3>1, <3>2
  <2>. QED  BY <2>1, <2>2
<1>6. \A a \in downloaded'[f] : a \subseteq odb'[f]
  BY <1>1 DEF Layered
<1>. QED  BY <1>2, <1>4, <1>5, <1>6 DEF Layered

\* A walk with nothing left to download never gives up: the missing target it
\* finds has a layer that has not been downloaded, so its tip was read.
LEMMA LayeredWalk ==
    ASSUME NEW P, Stacked(contract, P), FetchTypes, NEW f \in Fetcher,
           Fetched(f), Lean(f), Layered(P, f), Walk(f)
    PROVE  Layered(P, f)'
<1>. DEFINE new == Unresolved(wanted[f], walked[f], odb[f])
<1>1. /\ phase[f] = "reading" /\ ToDownload(f) = {}
      /\ UNCHANGED <<wants, legacy, tipped, downloaded, odb>>
      /\ \/ phase'[f] = "done"
         \/ new # {} /\ (\A c \in new : tipped[f][c] = None) /\ phase'[f] = "stuck"
         \/ phase'[f] = "reading"
  BY DEF Walk, FetchTypes
<1>2. Chain(P) /\ \A c \in P : Layer(P, c) \in Bundle
  BY DEF Stacked, Bundles
<1>3. ASSUME new # {} PROVE \E c \in new : tipped[f][c] # None
  <2>1. /\ wants[f] \in SUBSET P /\ wanted[f] \in SUBSET Commit /\ odb[f] \in SUBSET Commit
        /\ walked[f] \in SUBSET odb[f] /\ wants[f] \subseteq wanted[f]
        /\ wanted[f] \subseteq UNION {Anc[w] : w \in wants[f]}
        /\ \A c \in walked[f] : Parents[c] \subseteq walked[f] \cup wanted[f]
        /\ \A c \in P : Layer(P, c) \subseteq odb[f] \/ Layer(P, c) \cap odb[f] = {}
    BY <1>1 DEF FetchTypes, Fetched, Lean, History, Layered
  <2>2. PICK c \in P \cap new : /\ \E w \in wants[f] : c \in Anc[w]
                                /\ Layer(P, c) \cap odb[f] = {}
    BY <1>2, <1>3, <2>1, WalkFindsTarget
  <2>3. c \in Layer(P, c)
    BY <1>2, LayerFacts
  <2>4. Layer(P, c) \notin legacy[f]
    <3>1. legacy[f] \subseteq downloaded[f]
      BY <1>1 DEF ToDownload
    <3>. QED  BY <2>2, <2>3, <3>1 DEF Layered
  <2>5. tipped[f][c] = Layer(P, c)
    BY <1>1, <2>2, <2>4 DEF Layered
  <2>. QED  BY <1>2, <2>2, <2>5, TransferAssumption
<1>4. phase'[f] # "stuck"
  BY <1>1, <1>3
<1>5. phase'[f] = "reading" => phase[f] = "reading"
  BY <1>1
<1>. QED  BY <1>1, <1>4, <1>5 DEF Layered

\* What one fetch has, after any step that leaves the stack alone.
LEMMA LayeredStep ==
    ASSUME NEW P, Stacked(contract, P), StackTypes, [Next]_vars,
           NEW f \in Fetcher, Layered(P, f)
    PROVE  Layered(P, f)'
<1>1. FetchTypes /\ FetchTypes' /\ Fetched(f) /\ Lean(f) /\ Chain(P)
  BY FetchTypesStep DEF StackTypes, FetchInv, LeanInv, Stacked
<1>2. CASE FetchSame(f)
  BY <1>2 DEF FetchSame, Layered
<1>3. CASE ListForFetch(f)
  <2>1. \A c \in wants'[f] : c \in Commit /\ \E r \in RefName : Target(contract, r) = c
    BY <1>1, <1>3 DEF ListForFetch, FetchTypes
  <2>2. wants'[f] \subseteq P
    BY <2>1, HistoryAssumption DEF Stacked
  <2>3. /\ phase'[f] = "listed"
        /\ UNCHANGED <<legacy, tipped, downloaded, odb>>
    BY <1>1, <1>3 DEF ListForFetch, FetchTypes
  <2>. QED  BY <2>2, <2>3 DEF Layered
<1>4. CASE ReadState(f)
  <2>1. PICK m \in TipMaps(contract) : tipped' = [tipped EXCEPT ![f] = m]
    BY <1>4 DEF ReadState
  <2>2. /\ tipped'[f] = m /\ legacy'[f] = Untipped(contract) /\ downloaded'[f] = {}
        /\ phase'[f] = "reading" /\ UNCHANGED <<wants, odb>>
    BY <1>1, <1>4, <2>1 DEF ReadState, FetchTypes
  <2>3. /\ legacy'[f] \subseteq {Layer(P, c) : c \in P}
        /\ \A c \in Commit : tipped'[f][c] # None => c \in P /\ tipped'[f][c] = Layer(P, c)
        /\ \A c \in P : Layer(P, c) \in legacy'[f] \/ tipped'[f][c] = Layer(P, c)
    BY <2>2, ReadLayers
  <2>. QED  BY <2>2, <2>3 DEF Layered
<1>5. CASE Download(f)
  BY <1>1, <1>5, LayeredDownload
<1>6. CASE FailDownload(f)
  <2>1. phase'[f] = "failed" /\ UNCHANGED <<wants, legacy, tipped, downloaded, odb>>
    BY <1>1, <1>6 DEF FailDownload, FetchTypes
  <2>. QED  BY <2>1 DEF Layered
<1>7. CASE Walk(f)
  BY <1>1, <1>7, LayeredWalk
<1>8. CASE Again(f)
  <2>1. /\ phase'[f] = "idle" /\ wants'[f] = {} /\ legacy'[f] = {} /\ downloaded'[f] = {}
        /\ tipped'[f] = [c \in Commit |-> None] /\ odb' = odb
    BY <1>1, <1>8 DEF Again, FetchTypes
  <2>. QED  BY <2>1 DEF Layered
<1>. QED  BY <1>1, <1>2, <1>3, <1>4, <1>5, <1>6, <1>7, <1>8, OneFetch

\* A step leaves the stack as it is, or puts one layer on it.
LEMMA LayeredInvStep ==
    ASSUME NEW p, Pusher = {p}, NEW r, RefName = {r}, AllowForce = FALSE
    PROVE  LayeredInv /\ [Next]_vars => LayeredInv'
<1>. SUFFICES ASSUME LayeredInv, [Next]_vars PROVE LayeredInv'
  OBVIOUS
<1>1. StackTypes /\ StackTypes'
  BY FetchTypesStep, PushTypesStep, FetchedStep, LeanStep DEF LayeredInv, StackTypes
<1>2. PICK P : StackInv(P) /\ \A f \in Fetcher : Layered(P, f)
  BY DEF LayeredInv
<1>3. Stacked(contract, P) /\ Chain(P) /\ PushTypes
  BY <1>1, <1>2 DEF StackInv, Stacked, StackTypes
<1>4. CASE \/ ListForPush(p) \/ HandlePush(p) \/ SubmitUpdate(p) \/ AbandonPush(p)
  <2>1. UNCHANGED <<phase, wants, legacy, tipped, wanted, walked, downloaded, odb>>
    BY <1>4 DEF ListForPush, HandlePush, SubmitUpdate, AbandonPush, fetchVars
  <2>2. \A Q : \A f \in Fetcher : Layered(Q, f) => Layered(Q, f)'
    BY <2>1 DEF Layered
  <2>3. CASE StackInv(P)'
    BY <1>1, <1>2, <2>2, <2>3 DEF LayeredInv
  <2>4. ASSUME NEW new, Above(P, new), StackInv(P \cup {new})' PROVE LayeredInv'
    <3>1. \A f \in Fetcher : Layered(P \cup {new}, f)
      BY <1>2, <1>3, <2>4, LayeredKept
    <3>. QED  BY <1>1, <2>2, <2>4, <3>1 DEF LayeredInv
  <2>. QED  BY <1>2, <1>3, <1>4, <2>3, <2>4, StackStep
<1>5. CASE \/ \E f \in Fetcher : \/ ListForFetch(f) \/ ReadState(f) \/ Download(f)
                                 \/ FailDownload(f) \/ Walk(f) \/ Again(f)
           \/ UNCHANGED vars
  <2>1. contract' = contract /\ listed' = listed /\ push' = push
    BY <1>5 DEF ListForFetch, ReadState, Download, FailDownload, Walk, Again, pushVars, vars
  <2>2. StackInv(P)'
    BY <1>2, <2>1 DEF StackInv, Refs, Target
  <2>3. \A f \in Fetcher : Layered(P, f)'
    BY <1>1, <1>2, <1>3, LayeredStep
  <2>. QED  BY <1>1, <2>2, <2>3 DEF LayeredInv
<1>. QED  BY <1>4, <1>5 DEF Next

\* A repo that was just created has no layers.
LEMMA LayeredInvInit == Init => LayeredInv
<1>. SUFFICES ASSUME Init PROVE LayeredInv
  OBVIOUS
<1>1. StackTypes
  BY InitialTypes, FetchInit DEF Init, PushTypes, StackTypes, LeanInv, Lean
<1>2. StackInv({})
  <2>1. Chain({})
    BY DEF Chain
  <2>2. /\ Bundles(contract) = {} /\ \A b \in Bundle : TipOf(contract, b) = None
        /\ \A q \in RefName : Target(contract, q) = None
    BY KeyParts DEF Init, InitialState, EmptyState, Bundles, TipOf, Target, FieldKey, RefKey, TipKey
  <2>3. ValidateState(contract)
    BY DEF Init, InitialState, EmptyState, ValidateState
  <2>. QED  BY <2>1, <2>2, <2>3 DEF Init, StackInv, Stacked
<1>3. \A f \in Fetcher : Layered({}, f)
  BY DEF Init, Layered
<1>. QED  BY <1>1, <1>2, <1>3 DEF LayeredInv

(***************************************************************************)
(* What a branch points at can be cloned, however its pushes were split,   *)
(* whichever of them recorded tips, and wherever earlier fetches broke     *)
(* off.  The hypotheses are needed: a second pusher, whose update may come *)
(* between handle_push's reading and its update, a force, or a second      *)
(* branch makes bundles that are no layers.                                *)
(***************************************************************************)
THEOREM BranchNeverStuck ==
    ASSUME NEW p, Pusher = {p}, NEW r, RefName = {r}, AllowForce = FALSE
    PROVE  Spec => []NeverStuck
<1>1. LayeredInv => NeverStuck
  BY DEF LayeredInv, Layered, NeverStuck
<1>2. LayeredInv /\ [Next]_vars => LayeredInv'
  BY LayeredInvStep
<1>. QED  BY <1>1, <1>2, LayeredInvInit, PTL DEF Spec
-------------------------------------------------------------------------------
(***************************************************************************)
(* The repo as a git remote, for any number of pushers, forced or not.     *)
(* The refs point into what the bundles of the contract cover, an update   *)
(* about to be submitted brings what is missing, every tip has a record,   *)
(* and what a fetch has read is still listed.                              *)
(***************************************************************************)
TipRecorded(s) ==
    \A b \in Bundle : s.entry[TipKey(b)] # None => s.objects[b] # None

Listed(f) ==
    /\ legacy[f] \subseteq Bundles(contract)
    /\ \A c \in Commit : tipped[f][c] # None => tipped[f][c] \in Bundles(contract)

RemoteInv ==
    /\ ValidateState(contract) /\ Covered(contract, {}) /\ TipRecorded(contract)
    /\ \A p \in Pusher : push[p] # None =>
          Covered(push[p], Bundles(contract)) /\ TipRecorded(push[p])
    /\ \A f \in Fetcher : Listed(f)

\* The update of a push brings what its refs need, and a record per tip.
LEMMA PushServes ==
    ASSUME NEW clone \in SUBSET Commit, NEW s \in State, ValidateState(s), Covered(s, {}),
           NEW force, NEW mode \in Modes, NEW last, NEW specs \in Specs(clone),
           NEW rs, rs = Pushed(clone, s, specs, force),
           NEW d, d = PushDelta(clone, s, specs, rs, last, mode), Submittable(s, d),
           NEW e \in {d, Untip(d)}
    PROVE  e \in State /\ Covered(e, Bundles(s)) /\ TipRecorded(e)
<1>1. d \in State
  BY PushDeltaType
<1>2. Covered(d, Bundles(s))
  <2>1. Covered(s, Bundles(s))
    BY CoveredMore
  <2>. QED  BY <2>1, CoveredPush
<1>3. TipRecorded(d)
  <2>1. Signs(d, clone, s, specs, rs, {PackFor(clone, s, specs, r) : r \in rs}, last, mode)
    BY DeltaAt
  <2>. QED  BY <2>1, RepoStateAssumption DEF Signs, TipRecorded
<1>4. CASE e = Untip(d)
  <2>1. /\ e \in State /\ e.objects = d.objects
        /\ \A r \in RefName : e.entry[RefKey(r)] = d.entry[RefKey(r)]
        /\ \A b \in Bundle : e.entry[TipKey(b)] = None
    BY <1>1, <1>4, UntipAt
  <2>2. Bundles(e) = Bundles(d)
    BY <2>1 DEF Bundles
  <2>. QED  BY <1>2, <2>1, <2>2 DEF Covered, TipRecorded
<1>. QED  BY <1>1, <1>2, <1>3, <1>4

\* The contract takes an update in, and takes nothing away.
LEMMA UpdateServes ==
    ASSUME NEW s \in State, NEW d \in State, ValidateState(s),
           Covered(s, {}), Covered(d, Bundles(s)), TipRecorded(s), TipRecorded(d)
    PROVE  LET t == UpdateState(s, d)
           IN  /\ ValidateState(t) /\ Covered(t, {}) /\ TipRecorded(t)
               /\ Bundles(s) \subseteq Bundles(t)
<1>. DEFINE t == UpdateState(s, d)
<1>1. CASE t = s
  BY <1>1
<1>2. CASE t = MergeState(s, d)
  <2>1. ValidateState(t)
    BY UpdateFacts
  <2>2. Bundles(t) = Bundles(s) \cup Bundles(d)
    BY <1>2, MergeBundles
  <2>3. Covered(t, Bundles(s))
    <3>1. Covered(s, Bundles(s))
      BY CoveredMore
    <3>. QED  BY <1>2, <3>1, CoveredMerge
  <2>4. Covered(t, {})
    <3>1. Bundles(s) \cup Bundles(t) = {} \cup Bundles(t)
      BY <2>2
    <3>. QED  BY <2>3, <3>1 DEF Covered
  <2>5. TipRecorded(t)
    <3>. SUFFICES ASSUME NEW b \in Bundle, t.entry[TipKey(b)] # None
                  PROVE  b \in Bundles(t)
      BY DEF TipRecorded, Bundles
    <3>1. t.entry[TipKey(b)] \in {s.entry[TipKey(b)], d.entry[TipKey(b)]}
      BY <1>2, KeyParts, MergeAt, StateFields, PickWins
    <3>2. b \in Bundles(s) \cup Bundles(d)
      BY <3>1 DEF TipRecorded, Bundles
    <3>. QED  BY <2>2, <3>2
  <2>. QED  BY <2>1, <2>2, <2>4, <2>5
<1>. QED  BY <1>1, <1>2, UpdateFacts

\* A push, seen from the contract and from what the fetches have read.
LEMMA RemotePushStep ==
    ASSUME PushTypes, RemoteInv, NEW p \in Pusher,
           ListForPush(p) \/ HandlePush(p) \/ SubmitUpdate(p) \/ AbandonPush(p)
    PROVE  RemoteInv' /\ Bundles(contract) \subseteq Bundles(contract')
<1>1. UNCHANGED fetchVars
  BY DEF ListForPush, HandlePush, SubmitUpdate, AbandonPush
<1>2. CASE ListForPush(p) \/ AbandonPush(p)
  <2>1. contract' = contract /\ \A q \in Pusher : push'[q] \in {push[q], None}
    BY <1>2 DEF ListForPush, AbandonPush, PushTypes
  <2>. QED  BY <1>1, <2>1 DEF RemoteInv, Listed, fetchVars
<1>3. CASE HandlePush(p)
  <2>1. PICK specs \in Specs(Clone[p]), last \in RefName, mode \in Modes,
             force \in IF AllowForce THEN SUBSET RefName ELSE {{}} :
          LET rs == Pushed(Clone[p], contract, specs, force)
              d  == PushDelta(Clone[p], contract, specs, rs, last, mode)
          IN  /\ Submittable(contract, d)
              /\ \/ push' = [push EXCEPT ![p] = d]
                 \/ OldHelpers /\ push' = [push EXCEPT ![p] = Untip(d)]
    BY <1>3, Zenon DEF HandlePush
  <2>. DEFINE rs == Pushed(Clone[p], contract, specs, force)
              d  == PushDelta(Clone[p], contract, specs, rs, last, mode)
  <2>2. PICK e \in {d, Untip(d)} : push' = [push EXCEPT ![p] = e]
    BY <2>1
  <2>3. Clone[p] \in SUBSET Commit /\ contract \in State /\ contract' = contract
    BY <1>3, TransferAssumption DEF PushTypes, HandlePush
  <2>4. Covered(e, Bundles(contract)) /\ TipRecorded(e)
    <3>1. rs = Pushed(Clone[p], contract, specs, force) /\ Submittable(contract, d)
      BY <2>1
    <3>2. d = PushDelta(Clone[p], contract, specs, rs, last, mode)
      OBVIOUS
    <3>. HIDE DEF rs, d
    <3>. QED  BY <2>2, <2>3, <3>1, <3>2, PushServes DEF RemoteInv
  <2>. HIDE DEF d
  <2>5. \A q \in Pusher : push'[q] \in {push[q], e}
    BY <2>2 DEF PushTypes
  <2>. QED  BY <1>1, <2>3, <2>4, <2>5 DEF RemoteInv, Listed, fetchVars
<1>4. CASE SubmitUpdate(p)
  <2>1. /\ contract' = UpdateState(contract, push[p]) /\ push[p] # None
        /\ \A q \in Pusher : push'[q] \in {push[q], None}
        /\ contract \in State /\ push[p] \in State
    BY <1>4 DEF SubmitUpdate, PushTypes
  <2>2. /\ ValidateState(contract') /\ Covered(contract', {}) /\ TipRecorded(contract')
        /\ Bundles(contract) \subseteq Bundles(contract')
    BY <2>1, UpdateServes DEF RemoteInv
  <2>3. ASSUME NEW q \in Pusher, push'[q] # None
        PROVE  Covered(push'[q], Bundles(contract')) /\ TipRecorded(push'[q])
    <3>1. push'[q] = push[q]
      BY <2>1, <2>3
    <3>. QED  BY <2>2, <2>3, <3>1, CoveredMore DEF RemoteInv
  <2>4. ASSUME NEW f \in Fetcher PROVE Listed(f)'
    BY <1>1, <2>2 DEF RemoteInv, Listed, fetchVars
  <2>. QED  BY <2>2, <2>3, <2>4 DEF RemoteInv
<1>. QED  BY <1>2, <1>3, <1>4

\* Reading the state maps commits to listed bundles.
LEMMA ReadListed ==
    ASSUME NEW s, TipRecorded(s), NEW m \in TipMaps(s)
    PROVE  /\ Untipped(s) \subseteq Bundles(s)
           /\ \A c \in Commit : m[c] # None => m[c] \in Bundles(s)
<1>1. \A c \in Commit : m[c] # None => m[c] \in Bundle /\ TipOf(s, m[c]) = c
  BY DEF TipMaps
<1>2. \A b \in Bundle, c \in Commit : TipOf(s, b) = c => b \in Bundles(s)
  BY HistoryAssumption DEF TipOf, TipRecorded, Bundles
<1>. QED  BY <1>1, <1>2 DEF Untipped

\* Fetches change no bundle, and read what is there.
LEMMA RemoteFetchStep ==
    ASSUME FetchTypes, RemoteInv, NEW f \in Fetcher,
           \/ ListForFetch(f) \/ ReadState(f) \/ Download(f)
           \/ FailDownload(f) \/ Walk(f) \/ Again(f)
    PROVE  RemoteInv' /\ contract' = contract
<1>1. UNCHANGED <<contract, pushVars>>
  BY DEF ListForFetch, ReadState, Download, FailDownload, Walk, Again
<1>2. SUFFICES \A g \in Fetcher : Listed(g)'
  BY <1>1 DEF RemoteInv, pushVars
<1>3. CASE ReadState(f)
  <2>1. PICK m \in TipMaps(contract) : tipped' = [tipped EXCEPT ![f] = m]
    BY <1>3 DEF ReadState
  <2>2. /\ Untipped(contract) \subseteq Bundles(contract)
        /\ \A c \in Commit : m[c] # None => m[c] \in Bundles(contract)
    BY <2>1, ReadListed DEF RemoteInv
  <2>3. \A g \in Fetcher : /\ legacy'[g] \in {legacy[g], Untipped(contract)}
                           /\ tipped'[g] \in {tipped[g], m}
    BY <1>3, <2>1 DEF ReadState, FetchTypes
  <2>. QED  BY <1>1, <2>2, <2>3 DEF RemoteInv, Listed
<1>4. CASE Again(f)
  <2>1. \A g \in Fetcher : /\ legacy'[g] \in {legacy[g], {}}
                           /\ tipped'[g] \in {tipped[g], [c \in Commit |-> None]}
    BY <1>4 DEF Again, FetchTypes
  <2>. QED  BY <1>1, <2>1 DEF RemoteInv, Listed
<1>5. CASE ListForFetch(f) \/ Download(f) \/ FailDownload(f) \/ Walk(f)
  <2>1. legacy' = legacy /\ tipped' = tipped
    BY <1>5 DEF ListForFetch, Download, FailDownload, Walk
  <2>. QED  BY <1>1, <2>1 DEF RemoteInv, Listed
<1>. QED  BY <1>3, <1>4, <1>5

RemoteTypes == PushTypes /\ FetchTypes /\ FetchInv /\ RemoteInv

LEMMA RemoteStep == RemoteTypes /\ [Next]_vars => RemoteTypes'
<1>. SUFFICES ASSUME RemoteTypes, [Next]_vars PROVE RemoteInv'
  BY PushTypesStep, FetchTypesStep, FetchedStep DEF RemoteTypes
<1>1. CASE UNCHANGED vars
  BY <1>1 DEF RemoteTypes, RemoteInv, Listed, vars
<1>. QED  BY <1>1, RemotePushStep, RemoteFetchStep DEF Next, RemoteTypes

\* A new repo has no refs, no bundles and no fetches.
LEMMA RemoteInit == Init => RemoteTypes
<1>. SUFFICES ASSUME Init PROVE RemoteInv
  BY FetchInit, InitialTypes DEF Init, PushTypes, RemoteTypes
<1>1. \A k : k \in {FieldKey(n) : n \in FieldName} =>
        /\ \A r \in RefName : k # RefKey(r)
        /\ \A b \in Bundle : k # TipKey(b)
  BY DEF RefKey, TipKey, FieldKey
<1>2. /\ \A r \in RefName : contract.entry[RefKey(r)] = None
      /\ \A b \in Bundle : contract.entry[TipKey(b)] = None
  BY <1>1, KeyParts DEF Init, InitialState, EmptyState
<1>3. ValidateState(contract)
  BY DEF Init, InitialState, EmptyState, ValidateState
<1>. QED  BY <1>2, <1>3 DEF Init, RemoteInv, Listed, Covered, TipRecorded

\* What a fetch may download next is listed.
LEMMA ToDownloadListed ==
    ASSUME FetchTypes, NEW f \in Fetcher, Listed(f)
    PROVE  ToDownload(f) \subseteq Bundles(contract)
BY DEF FetchTypes, Listed, ToDownload

(***************************************************************************)
(* A fetch is about to download only what the contract lists, so the       *)
(* helper's lookup of the record never panics, whatever older and newer    *)
(* helpers have pushed and whatever is pushed while it runs.               *)
(***************************************************************************)
THEOREM DownloadsAreListed == Spec => []DownloadsListed
<1>1. RemoteTypes => DownloadsListed
  BY ToDownloadListed DEF RemoteTypes, RemoteInv, DownloadsListed
<1>. QED  BY <1>1, RemoteInit, RemoteStep, PTL DEF Spec

-------------------------------------------------------------------------------
(***************************************************************************)
(* The refinement.                                                         *)
(***************************************************************************)

\* What the refs point at is stored with its history.
LEMMA HeadsStored == RemoteInv => \A h \in Heads : Anc[h] \subseteq Stored
<1>. SUFFICES ASSUME RemoteInv, NEW h \in Heads PROVE Anc[h] \subseteq Stored
  OBVIOUS
<1>1. PICK r \in RefName : h = Target(contract, r) /\ h # None
  BY DEF Heads
<1>2. /\ contract.entry[RefKey(r)] # None /\ contract.entry[RefKey(r)].value = h
      /\ contract.entry[RefKey(r)].by = Owner
  BY <1>1, KeyParts DEF Target, RemoteInv, ValidateState
<1>. QED  BY <1>2 DEF RemoteInv, Covered, Covers, Stored

\* How far a fetch is, for git.
LEMMA Outcomes ==
    /\ OutcomeOf("idle") = "idle" /\ OutcomeOf("listed") = "asked"
    /\ OutcomeOf("reading") = "asked" /\ OutcomeOf("done") = "ok"
    /\ OutcomeOf("failed") = "error" /\ OutcomeOf("stuck") = "error"
BY DEF OutcomeOf

LEMMA OutcomeAt ==
    ASSUME NEW f \in Fetcher
    PROVE  /\ phase[f] = "idle" => Outcome[f] = "idle"
           /\ phase[f] \in {"listed", "reading"} => Outcome[f] = "asked"
           /\ phase[f] = "done" => Outcome[f] = "ok"
           /\ phase[f] \in {"failed", "stuck"} => Outcome[f] = "error"
BY Outcomes DEF Outcome

\* A fetch that moves changes its own outcome only.
LEMMA OutcomeMoves ==
    ASSUME FetchTypes, NEW f \in Fetcher, NEW ph, phase' = [phase EXCEPT ![f] = ph]
    PROVE  Outcome' = [Outcome EXCEPT ![f] = OutcomeOf(ph)]
BY DEF Outcome, FetchTypes

\* A push, for git, moves heads and adds to what is stored.
LEMMA RemotePushes ==
    ASSUME RemoteTypes, NEW p \in Pusher,
           ListForPush(p) \/ HandlePush(p) \/ SubmitUpdate(p) \/ AbandonPush(p)
    PROVE  Remote!Push
<1>1. RemoteInv' /\ Bundles(contract) \subseteq Bundles(contract')
  BY RemotePushStep DEF RemoteTypes
<1>2. Stored \subseteq Stored'
  BY <1>1 DEF Stored
<1>3. \A h \in Heads' : Anc[h] \subseteq Stored'
  <2>1. RemoteInv'
    BY <1>1
  <2>2. (\A h \in Heads : Anc[h] \subseteq Stored)'
    BY <2>1, HeadsStored, PTL
  <2>. QED  BY <2>2
<1>4. UNCHANGED fetchVars
  BY DEF ListForPush, HandlePush, SubmitUpdate, AbandonPush
<1>5. UNCHANGED <<Outcome, wants, odb>>
  BY <1>4 DEF fetchVars, Outcome
<1>. QED  BY <1>2, <1>3, <1>5 DEF Remote!Push

\* A step of a fetch, for git, is the matching step or none.
LEMMA RemoteFetches ==
    ASSUME RemoteTypes, RemoteTypes', NEW f \in Fetcher,
           \/ ListForFetch(f) \/ ReadState(f) \/ Download(f)
           \/ FailDownload(f) \/ Walk(f) \/ Again(f)
    PROVE  \/ Remote!Ask(f) \/ Remote!Receive(f) \/ Remote!Succeed(f)
           \/ Remote!Fail(f) \/ Remote!Again(f) \/ UNCHANGED Remote!vars
<1>1. FetchTypes /\ RemoteInv /\ FetchInv'
  BY DEF RemoteTypes
<1>2. contract' = contract
  BY DEF ListForFetch, ReadState, Download, FailDownload, Walk, Again
<1>3. UNCHANGED <<Heads, Stored>>
  BY <1>2 DEF Heads, Stored, Target, Bundles
<1>4. CASE ListForFetch(f)
  <2>1. PICK ws \in SUBSET Commit :
          /\ \A c \in ws : \E r \in RefName : Target(contract, r) = c
          /\ wants' = [wants EXCEPT ![f] = ws]
    BY <1>4 DEF ListForFetch
  <2>2. ws \in SUBSET Heads
    BY <2>1, HistoryAssumption DEF Heads
  <2>3. Outcome[f] = "idle" /\ Outcome' = [Outcome EXCEPT ![f] = "asked"] /\ UNCHANGED odb
    <3>1. Outcome' = [Outcome EXCEPT ![f] = OutcomeOf("listed")]
      BY <1>1, <1>4, OutcomeMoves DEF ListForFetch
    <3>. QED  BY <1>4, <3>1, Outcomes, OutcomeAt DEF ListForFetch
  <2>4. Remote!Ask(f)
    BY <1>3, <2>1, <2>2, <2>3 DEF Remote!Ask
  <2>. QED  BY <2>4
<1>5. CASE ReadState(f)
  <2>1. UNCHANGED <<wants, odb>> /\ Outcome' = [Outcome EXCEPT ![f] = "asked"]
    <3>1. Outcome' = [Outcome EXCEPT ![f] = OutcomeOf("reading")]
      BY <1>1, <1>5, OutcomeMoves DEF ReadState
    <3>. QED  BY <1>5, <3>1, Outcomes DEF ReadState
  <2>2. Outcome[f] = "asked"
    BY <1>5, OutcomeAt DEF ReadState
  <2>3. UNCHANGED Outcome
    BY <2>1, <2>2 DEF Outcome
  <2>. QED  BY <1>3, <2>1, <2>3 DEF Remote!vars
<1>6. CASE Download(f)
  <2>1. PICK b \in ToDownload(f) : odb' = [odb EXCEPT ![f] = @ \cup b]
    BY <1>6 DEF Download
  <2>2. b \in SUBSET Stored
    BY <1>1, <2>1, ToDownloadListed DEF RemoteInv, Stored
  <2>3. Outcome[f] = "asked" /\ UNCHANGED <<Outcome, wants>>
    BY <1>6, OutcomeAt DEF Download, Outcome
  <2>4. Remote!Receive(f)
    BY <1>3, <2>1, <2>2, <2>3 DEF Remote!Receive
  <2>. QED  BY <2>4
<1>7. CASE FailDownload(f)
  <2>1. Outcome[f] = "asked" /\ Outcome' = [Outcome EXCEPT ![f] = "error"]
    <3>1. Outcome' = [Outcome EXCEPT ![f] = OutcomeOf("failed")]
      BY <1>1, <1>7, OutcomeMoves DEF FailDownload
    <3>. QED  BY <1>7, <3>1, Outcomes, OutcomeAt DEF FailDownload
  <2>2. Remote!Fail(f)
    BY <1>3, <1>7, <2>1 DEF FailDownload, Remote!Fail
  <2>. QED  BY <2>2
<1>8. CASE Walk(f)
  <2>1. UNCHANGED <<wants, odb>> /\ Outcome[f] = "asked"
    BY <1>8, OutcomeAt DEF Walk
  <2>2. PICK ph \in {"done", "stuck", "reading"} : phase' = [phase EXCEPT ![f] = ph]
    BY <1>1, <1>8 DEF Walk, FetchTypes
  <2>3. CASE ph = "done"
    <3>1. phase'[f] = "done"
      BY <1>1, <2>2, <2>3 DEF FetchTypes
    <3>2. \A c \in wants[f] : Anc[c] \subseteq odb[f]
      BY <1>1, <2>1, <3>1 DEF FetchInv, Fetched
    <3>3. Outcome' = [Outcome EXCEPT ![f] = "ok"]
      BY <1>1, <2>2, <2>3, Outcomes, OutcomeMoves
    <3>4. Remote!Succeed(f)
      BY <1>3, <2>1, <3>2, <3>3 DEF Remote!Succeed
    <3>. QED  BY <3>4
  <2>4. CASE ph = "stuck"
    <3>1. Outcome' = [Outcome EXCEPT ![f] = "error"]
      BY <1>1, <2>2, <2>4, Outcomes, OutcomeMoves
    <3>2. Remote!Fail(f)
      BY <1>3, <2>1, <3>1 DEF Remote!Fail
    <3>. QED  BY <3>2
  <2>5. CASE ph = "reading"
    <3>1. Outcome' = [Outcome EXCEPT ![f] = "asked"]
      BY <1>1, <2>2, <2>5, Outcomes, OutcomeMoves
    <3>2. UNCHANGED Outcome
      BY <2>1, <3>1 DEF Outcome
    <3>. QED  BY <1>3, <2>1, <3>2 DEF Remote!vars
  <2>. QED  BY <2>2, <2>3, <2>4, <2>5
<1>9. CASE Again(f)
  <2>1. Outcome[f] \in {"ok", "error"}
    BY <1>9, OutcomeAt DEF Again
  <2>2. Outcome' = [Outcome EXCEPT ![f] = "idle"]
    <3>1. Outcome' = [Outcome EXCEPT ![f] = OutcomeOf("idle")]
      BY <1>1, <1>9, OutcomeMoves DEF Again
    <3>. QED  BY <3>1, Outcomes
  <2>3. Remote!Again(f)
    BY <1>3, <1>9, <2>1, <2>2 DEF Again, Remote!Again
  <2>. QED  BY <2>3
<1>. QED  BY <1>4, <1>5, <1>6, <1>7, <1>8, <1>9

(***************************************************************************)
(* The repo implements a git remote: for any commit graph, refs, pushers   *)
(* and fetchers, racing, forced, interrupted and repeated, and with or     *)
(* without bundle tips.  In particular what a ref points at can always be  *)
(* had from the bundles listed with it, and a fetch ends well only with    *)
(* the whole history of what git asked for.                                *)
(***************************************************************************)
THEOREM RepoIsRemote == Spec => ImplementsRemote
<1>1. Init => Remote!Init
  <2>. SUFFICES ASSUME Init PROVE Remote!Init
    OBVIOUS
  <2>1. \A r \in RefName : Target(contract, r) = None
    <3>1. \A r \in RefName : RefKey(r) \notin {FieldKey(n) : n \in FieldName}
      BY DEF RefKey, FieldKey
    <3>. QED  BY <3>1, KeyParts DEF Init, InitialState, EmptyState, Target
  <2>2. Heads = {}
    BY <2>1 DEF Heads
  <2>3. Stored = {}
    <3>1. Bundles(contract) = {}
      BY DEF Init, InitialState, EmptyState, Bundles
    <3>. QED  BY <3>1 DEF Stored
  <2>4. Outcome = [f \in Fetcher |-> "idle"]
    BY Outcomes DEF Init, Outcome
  <2>. QED  BY <2>2, <2>3, <2>4 DEF Init, Remote!Init
<1>2. RemoteTypes /\ RemoteTypes' /\ [Next]_vars => [Remote!Next]_(Remote!vars)
  <2>. SUFFICES ASSUME RemoteTypes, RemoteTypes', [Next]_vars
                PROVE  [Remote!Next]_(Remote!vars)
    OBVIOUS
  <2>1. ASSUME NEW p \in Pusher,
               ListForPush(p) \/ HandlePush(p) \/ SubmitUpdate(p) \/ AbandonPush(p)
        PROVE  Remote!Next
    BY <2>1, RemotePushes DEF Remote!Next
  <2>2. ASSUME NEW f \in Fetcher,
               \/ ListForFetch(f) \/ ReadState(f) \/ Download(f)
               \/ FailDownload(f) \/ Walk(f) \/ Again(f)
        PROVE  [Remote!Next]_(Remote!vars)
    BY <2>2, RemoteFetches DEF Remote!Next
  <2>3. CASE UNCHANGED vars
    <3>1. UNCHANGED <<contract, phase, wants, odb>>
      BY <2>3 DEF vars
    <3>. QED  BY <3>1 DEF Remote!vars, Heads, Stored, Outcome, Target, Bundles
  <2>. QED  BY <2>1, <2>2, <2>3 DEF Next
<1>. QED
  BY <1>1, <1>2, RemoteInit, RemoteStep, PTL
     DEF Spec, Remote!Spec, ImplementsRemote
===============================================================================
