------------------------------ MODULE GitTransfer -----------------------------
(***************************************************************************)
(* Pushers and fetchers of one repo, with the repo contract seen through   *)
(* one node.  A push is `list for-push`, git's own fast-forward check      *)
(* against that listing, then handle_push, which reads the state again,    *)
(* and the update.  A fetch is `list`, then handle_fetch, which reads the  *)
(* state again, downloads the bundles without a tip, then follows bundle   *)
(* tips and commit parents until nothing is missing.                       *)
(***************************************************************************)
EXTENDS GitPush

CONSTANTS Pusher,     \* helpers that push, holding the owner's repo key
          Fetcher,    \* helpers that fetch
          Clone,      \* Clone[p]: the commits in pusher p's local repository
          OldHelpers, \* pushes may come from helpers older than 0.1.16
          AllowForce, \* pushes may be forced
          Unreliable  \* a download may fail

ASSUME TransferAssumption ==
    /\ Clone \in [Pusher -> SUBSET Commit]
    /\ \A p \in Pusher : WholeClone(Clone[p])
    /\ {OldHelpers, AllowForce, Unreliable} \subseteq BOOLEAN
    /\ None \notin Bundle

VARIABLES contract,    \* the contract state
          listed,      \* listed[p]: the refs `list` showed p's git, or None
          push,        \* push[p]: the signed delta p is about to submit, or None
          phase,       \* phase[f]: where fetch f is
          wants,       \* wants[f]: the targets git asked f for
          legacy,      \* legacy[f]: bundles without a tip, when f read the state
          tipped,      \* tipped[f]: tip_to_bundle, None where there is none
          wanted,      \* wanted[f]: wanted_commits
          walked,      \* walked[f]: commits whose parents were enumerated
          downloaded,  \* downloaded[f]: bundles downloaded by this fetch
          odb          \* odb[f]: the commits in f's object database

pushVars  == <<listed, push>>
fetchVars == <<phase, wants, legacy, tipped, wanted, walked, downloaded, odb>>
vars == <<contract, listed, push, phase, wants, legacy, tipped, wanted, walked,
          downloaded, odb>>

Phase == {"idle", "listed", "reading", "done", "failed", "stuck"}

Refs(s) == [r \in RefName |-> Target(s, r)]

Init ==
    /\ contract = InitialState
    /\ listed = [p \in Pusher |-> None]
    /\ push = [p \in Pusher |-> None]
    /\ phase = [f \in Fetcher |-> "idle"]
    /\ wants = [f \in Fetcher |-> {}]
    /\ legacy = [f \in Fetcher |-> {}]
    /\ tipped = [f \in Fetcher |-> [c \in Commit |-> None]]
    /\ wanted = [f \in Fetcher |-> {}]
    /\ walked = [f \in Fetcher |-> {}]
    /\ downloaded = [f \in Fetcher |-> {}]
    /\ odb = [f \in Fetcher |-> {}]

-------------------------------------------------------------------------------
(***************************************************************************)
(* Push.                                                                   *)
(***************************************************************************)
ListForPush(p) ==
    /\ listed[p] = None /\ push[p] = None
    /\ listed' = [listed EXCEPT ![p] = Refs(contract)]
    /\ UNCHANGED <<contract, push, fetchVars>>

\* git's check of an unforced ref, against what it was shown.
FastForward(seen, specs, r) ==
    \/ seen[r] = None
    \/ specs[r] \in Commit /\ seen[r] \in Anc[specs[r]]

HandlePush(p) ==
    /\ listed[p] # None
    /\ \E specs \in Specs(Clone[p]), last \in RefName, mode \in Modes,
          force \in IF AllowForce THEN SUBSET RefName ELSE {{}} :
         /\ \A r \in RefName : specs[r] # None /\ r \notin force
                                 => FastForward(listed[p], specs, r)
         /\ LET rs == Pushed(Clone[p], contract, specs, force)
                d  == PushDelta(Clone[p], contract, specs, rs, last, mode)
            IN  /\ Submittable(contract, d)
                /\ \/ push' = [push EXCEPT ![p] = d]
                   \/ OldHelpers /\ push' = [push EXCEPT ![p] = Untip(d)]
    /\ listed' = [listed EXCEPT ![p] = None]
    /\ UNCHANGED <<contract, fetchVars>>

SubmitUpdate(p) ==
    /\ push[p] # None
    /\ contract' = UpdateState(contract, push[p])
    /\ push' = [push EXCEPT ![p] = None]
    /\ UNCHANGED <<listed, fetchVars>>

\* Nothing to push, an error, or the end of the process.
AbandonPush(p) ==
    /\ listed[p] # None \/ push[p] # None
    /\ listed' = [listed EXCEPT ![p] = None]
    /\ push' = [push EXCEPT ![p] = None]
    /\ UNCHANGED <<contract, fetchVars>>

-------------------------------------------------------------------------------
(***************************************************************************)
(* Fetch.                                                                  *)
(***************************************************************************)

\* git asks for some of the listed targets, none of which it has in full.
ListForFetch(f) ==
    /\ phase[f] = "idle"
    /\ \E ws \in SUBSET {c \in Commit : ~(Anc[c] \subseteq odb[f])} \ {{}} :
         /\ \A c \in ws : \E r \in RefName : Target(contract, r) = c
         /\ wants' = [wants EXCEPT ![f] = ws]
    /\ phase' = [phase EXCEPT ![f] = "listed"]
    /\ UNCHANGED <<contract, pushVars, legacy, tipped, wanted, walked, downloaded, odb>>

TipOf(s, b) == IF s.entry[TipKey(b)] = None THEN None ELSE s.entry[TipKey(b)].value

UntippedNone(s) == {}   \* mutant: phase 1 is left out

Untipped(s) == {b \in Bundles(s) : TipOf(s, b) = None}

\* Mutant: a commit nobody advertises is not mapped at all.
TipMapsPartial(s) ==
    LET Advertising(c) == {b \in Bundle : TipOf(s, b) = c}
        tips == {c \in Commit : Advertising(c) # {}}
    IN  {m \in [tips -> UNION {Advertising(c) : c \in tips}] :
            \A c \in tips : m[c] \in Advertising(c)}

\* tip_to_bundle: where several bundles have one tip, any of them is kept.
TipMaps(s) ==
    LET Advertising(c) == {b \in Bundle : TipOf(s, b) = c}
    IN  {m \in [Commit -> {None} \cup UNION {Advertising(c) : c \in Commit}] :
            \A c \in Commit : IF Advertising(c) = {} THEN m[c] = None
                                                    ELSE m[c] \in Advertising(c)}

\* handle_fetch reads the state, and seeds wanted_commits from git's wants (never
\* empty, so that its fallback to all refs is left out).
ReadState(f) ==
    /\ phase[f] = "listed"
    /\ phase' = [phase EXCEPT ![f] = "reading"]
    /\ legacy' = [legacy EXCEPT ![f] = Untipped(contract)]
    /\ \E m \in TipMaps(contract) : tipped' = [tipped EXCEPT ![f] = m]
    /\ wanted' = [wanted EXCEPT ![f] = wants[f]]
    /\ walked' = [walked EXCEPT ![f] = {}]
    /\ downloaded' = [downloaded EXCEPT ![f] = {}]
    /\ UNCHANGED <<contract, pushVars, wants, odb>>

\* Mutants: bundles are not skipped for what is wanted; the list of what was
\* downloaded is not consulted.
ToDownloadAll(f) ==
    (legacy[f] \cup {tipped[f][c] : c \in {d \in Commit : tipped[f][d] # None}})
        \ downloaded[f]
ToDownloadAgain(f) ==
    legacy[f] \cup {tipped[f][c] : c \in {w \in wanted[f] : tipped[f][w] # None}}

\* Phase 1's bundles first, then those whose tips are wanted.
ToDownload(f) ==
    IF legacy[f] \ downloaded[f] # {}
    THEN legacy[f] \ downloaded[f]
    ELSE {tipped[f][c] : c \in {w \in wanted[f] : tipped[f][w] # None}} \ downloaded[f]

\* download_bundle and install_pack.
Download(f) ==
    /\ phase[f] = "reading"
    /\ \E b \in ToDownload(f) :
         /\ odb' = [odb EXCEPT ![f] = @ \cup b]
         /\ downloaded' = [downloaded EXCEPT ![f] = @ \cup {b}]
    /\ UNCHANGED <<contract, pushVars, phase, wants, legacy, tipped, wanted, walked>>

\* Packs installed before the error stay installed.
FailDownload(f) ==
    /\ Unreliable
    /\ phase[f] = "reading" /\ ToDownload(f) # {}
    /\ phase' = [phase EXCEPT ![f] = "failed"]
    /\ UNCHANGED <<contract, pushVars, wants, legacy, tipped, wanted, walked, downloaded, odb>>

(***************************************************************************)
(* walk_unresolved_parents visits the smallest set of commits that has the *)
(* wanted ones and the parents of every member that is local and was not   *)
(* walked before.  (An object that is no commit has no parents here.)      *)
(***************************************************************************)
Visited(want, done, has) ==
    {c \in Commit : \A cs \in SUBSET Commit :
        /\ want \subseteq cs
        /\ \A d \in (cs \cap has) \ done : Parents[d] \subseteq cs
        => c \in cs}

\* Mutant: the walk reports only wanted commits, not the parents it found.
UnresolvedWants(want, done, has) == want \ (done \cup has)

Unresolved(want, done, has) == Visited(want, done, has) \ (done \cup has)

\* Nothing left to download: look for missing parents, stop, or give up.
Walk(f) ==
    LET new == Unresolved(wanted[f], walked[f], odb[f])
    IN  /\ phase[f] = "reading"
        /\ ToDownload(f) = {}
        /\ walked' = [walked EXCEPT ![f] =
                         @ \cup (Visited(wanted[f], @, odb[f]) \cap odb[f])]
        /\ \/ /\ new = {}
              /\ phase' = [phase EXCEPT ![f] = "done"]
              /\ UNCHANGED wanted
           \/ /\ new # {} /\ \A c \in new : tipped[f][c] = None
              /\ phase' = [phase EXCEPT ![f] = "stuck"]
              /\ UNCHANGED wanted
           \/ /\ \E c \in new : tipped[f][c] # None
              /\ wanted' = [wanted EXCEPT ![f] = @ \cup new]
              /\ UNCHANGED phase
        /\ UNCHANGED <<contract, pushVars, wants, legacy, tipped, downloaded, odb>>

\* The next `git fetch` in the same repository.
Again(f) ==
    /\ phase[f] \in {"done", "failed", "stuck"}
    /\ phase' = [phase EXCEPT ![f] = "idle"]
    /\ wants' = [wants EXCEPT ![f] = {}]
    /\ legacy' = [legacy EXCEPT ![f] = {}]
    /\ tipped' = [tipped EXCEPT ![f] = [c \in Commit |-> None]]
    /\ wanted' = [wanted EXCEPT ![f] = {}]
    /\ walked' = [walked EXCEPT ![f] = {}]
    /\ downloaded' = [downloaded EXCEPT ![f] = {}]
    /\ UNCHANGED <<contract, pushVars, odb>>

Next ==
    \/ \E p \in Pusher : \/ ListForPush(p) \/ HandlePush(p)
                         \/ SubmitUpdate(p) \/ AbandonPush(p)
    \/ \E f \in Fetcher : \/ ListForFetch(f) \/ ReadState(f) \/ Download(f)
                          \/ FailDownload(f) \/ Walk(f) \/ Again(f)

Spec == Init /\ [][Next]_vars

\* A fetch that runs is scheduled; nothing is assumed of anybody else.
FairSpec == Spec /\ \A f \in Fetcher : WF_vars(Download(f) \/ Walk(f))

-------------------------------------------------------------------------------
TypeOK ==
    /\ contract \in State
    /\ listed \in [Pusher -> [RefName -> Value \cup {None}] \cup {None}]
    /\ push \in [Pusher -> State \cup {None}]
    /\ phase \in [Fetcher -> Phase]
    /\ wants \in [Fetcher -> SUBSET Commit]
    /\ legacy \in [Fetcher -> SUBSET Bundle]
    /\ tipped \in [Fetcher -> [Commit -> Bundle \cup {None}]]
    /\ wanted \in [Fetcher -> SUBSET Commit]
    /\ walked \in [Fetcher -> SUBSET Commit]
    /\ downloaded \in [Fetcher -> SUBSET Bundle]
    /\ odb \in [Fetcher -> SUBSET Commit]

(***************************************************************************)
(* A fetch that reports success has installed the whole history of every   *)
(* commit git asked for, although it stops at the first walk that finds    *)
(* nothing missing and never walks a commit twice.                         *)
(***************************************************************************)
FetchComplete ==
    \A f \in Fetcher : phase[f] = "done" => \A c \in wants[f] : Anc[c] \subseteq odb[f]

(***************************************************************************)
(* A fetch downloads no tipped bundle whose tip is outside the history of  *)
(* what git asked for (issue #32: dead weight is skipped).                 *)
(***************************************************************************)
NoDeadWeight ==
    \A f \in Fetcher : \A b \in downloaded[f] \ legacy[f] :
        \E w \in wants[f], c \in Commit : c \in Anc[w] /\ tipped[f][c] = b

(***************************************************************************)
(* What a ref points at can be cloned: no fetch gives up for want of a     *)
(* bundle that advertises a missing commit.                                *)
(***************************************************************************)
NeverStuck == \A f \in Fetcher : phase[f] # "stuck"

(***************************************************************************)
(* A fetch gives up only when the wanted history is not in any bundle of   *)
(* the repo (the comment on handle_fetch's stuck-detection).               *)
(***************************************************************************)
StuckMeansMissing ==
    \A f \in Fetcher : phase[f] = "stuck" =>
        \E c \in wants[f] : ~Covers(Bundles(contract), c)

(***************************************************************************)
(* Every bundle a fetch is about to download has a record in object_index: *)
(* tip_to_bundle is made from the tip extensions alone, and the helper     *)
(* would panic at a tip without a record (`expect("id came from            *)
(* tip_to_bundle which is built from object_index")`).                     *)
(***************************************************************************)
DownloadsListed ==
    \A f \in Fetcher : phase[f] = "reading" => ToDownload(f) \subseteq Bundles(contract)

(***************************************************************************)
(* The repo is a git remote: at any moment, with any helpers racing and    *)
(* forcing, what its refs point at is stored with its whole history, no    *)
(* push takes anything away, and a fetch takes in nothing but commits of   *)
(* the repo and says it succeeded only when it has all git asked for.      *)
(***************************************************************************)
Heads  == {Target(contract, r) : r \in RefName} \ {None}
Stored == UNION Bundles(contract)

OutcomeOf(ph) ==
    CASE ph = "idle" -> "idle"
      [] ph \in {"listed", "reading"} -> "asked"
      [] ph = "done" -> "ok"
      [] ph \in {"failed", "stuck"} -> "error"

Outcome == [f \in Fetcher |-> OutcomeOf(phase[f])]

Remote == INSTANCE GitRemote WITH
    heads <- Heads, stored <- Stored, fetch <- Outcome, asked <- wants, clone <- odb

ImplementsRemote == Remote!Spec

(***************************************************************************)
(* Every fetch ends.                                                       *)
(***************************************************************************)
FetchEnds == \A f \in Fetcher : phase[f] = "reading" ~> phase[f] # "reading"
===============================================================================
