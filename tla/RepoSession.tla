------------------------------ MODULE RepoSession ------------------------------
(***************************************************************************)
(* What git-remote-freenet does with one connection: it reads the state of *)
(* the repo, walking back over the generations of the repo contract,       *)
(* migrates what it finds under an older one, and for a push publishes a   *)
(* pack and then updates the repo.  Sessions follow each other for ever,   *)
(* each with a connection of its own.                                      *)
(***************************************************************************)
EXTENDS HostConnection

CONSTANTS ProbeAttempts,  \* PROBE_MAX_ATTEMPTS
          PutAttempts,    \* MAX_ATTEMPTS of put_pack
          Published,      \* what older sessions have written
          PackOf          \* PackOf[w]: the pack contract of the push that writes w

Own == Write \ Foreign

ASSUME SessionAssumption ==
    /\ ProbeAttempts \in Nat \ {0} /\ PutAttempts \in Nat \ {0}
    /\ Published \subseteq Foreign
    /\ PackOf \in [Own -> PackKey]

VARIABLES session,  \* the helper's session, or the end of its last one
          before,   \* history: what was stored when the session started
          acked     \* history: writes a push has been told are applied

vars == <<store, subscribed, pending, inbox, session, before, acked>>

Phase   == {"idle", "probe", "migrate", "pack", "update"}
Miss    == {"empty", "absent", "timeout", "transient", "hard"}
Verdict == {"done", "skip", "state"} \cup (Miss \ {"empty"})
Outcome == {"none", "ok", "not_put", "not_updated", "unknown", "no_state", "errors", "mixed"}

\* data is the write a push carries, None for `list`; misses are the current
\* pass's; read and source are the state found and the generation it was under.
Ended(outcome) == [phase |-> "idle", data |-> None, attempt |-> 0, misses |-> <<>>,
                   read |-> {}, source |-> None, outcome |-> outcome]

\* The repo contract being probed: the current one, then the newest older one.
Probed(s) == Current - Len(s.misses)

\* Mutant of Asked: the migration PUTs what the push adds, not the state that was read.
AskedPushOnly(s) ==
    CASE s.phase = "probe"   -> Get(Probed(s))
      [] s.phase = "migrate" -> Put(Current, IF s.data = None THEN s.read ELSE {s.data})
      [] s.phase = "pack"    -> Put(PackOf[s.data], {s.data})
      [] s.phase = "update"  -> Update(Current, {s.data})

\* The request a session waits for.
Asked(s) == CASE s.phase = "probe"   -> Get(Probed(s))
              [] s.phase = "migrate" -> Put(Current, s.read)
              [] s.phase = "pack"    -> Put(PackOf[s.data], {s.data})
              [] s.phase = "update"  -> Update(Current, {s.data})

-------------------------------------------------------------------------------
\* All but the first message, if there is one.
Rest(messages) == SubSeq(messages, 2, Len(messages))

(***************************************************************************)
(* A receive loop ends with the first message that is for its request, or  *)
(* with its deadline; unread is what stays in the inbox.                   *)
(***************************************************************************)
Heard(verdict, unread) ==
    /\ session.phase # "idle"
    /\ \/ verdict = "timeout" /\ unread = inbox
       \/ /\ inbox # <<>>
          /\ verdict = Dispatch(Asked(session), Head(inbox))
          /\ unread = Rest(inbox)

Await(s, unread) == /\ session' = s
                    /\ inbox' = unread
                    /\ Send(Asked(s))
                    /\ UNCHANGED <<store, subscribed>>

End(outcome) == /\ session' = [Ended(outcome) EXCEPT !.source = session.source]
                /\ Disconnect

\* wsclient::connect, and the first GET of fetch_repo_state.
Start ==
    /\ session.phase = "idle"
    /\ \E data \in Own \cup {None} :
         Await([Ended("none") EXCEPT !.phase = "probe", !.data = data, !.attempt = 1], inbox)
    /\ before' = store
    /\ UNCHANGED acked

Skip == \E unread \in {inbox, Rest(inbox)} :
            /\ Heard("skip", unread)
            /\ inbox' = unread
            /\ UNCHANGED <<store, subscribed, pending, session, before, acked>>

-------------------------------------------------------------------------------
(***************************************************************************)
(* get_state_with_legacy_fallback: a pass over the generations, newest     *)
(* first, and its retries.                                                 *)
(***************************************************************************)
\* Mutant of Authoritative: silence is taken for absence.
AuthoritativeSilence(miss) == miss \in {"empty", "absent", "timeout"}

\* retry_disposition
Authoritative(miss) == miss \in {"empty", "absent"}

\* outcomes_worth_retrying
WorthRetrying(misses) ==
    /\ "hard" \notin Range(misses)
    /\ Range(misses) \cap {"timeout", "transient"} # {}

\* Mutant of FallbackFailure: one authoritative answer decides.
FallbackFailureAny(misses) ==
    IF Range(misses) \cap {"empty", "absent"} # {} THEN "no_state" ELSE "errors"

\* format_fallback_failure
FallbackFailure(misses) ==
    IF Range(misses) \subseteq {"timeout"} THEN "unknown"
    ELSE IF Range(misses) \subseteq {"empty", "absent"} THEN "no_state"
    ELSE IF Range(misses) \subseteq {"transient", "hard"} THEN "errors"
    ELSE "mixed"

\* Mutant of PassFailed: the attempts are not counted.
PassFailedForever(misses, unread) ==
    IF WorthRetrying(misses)
    THEN Await([session EXCEPT !.misses = <<>>], unread)
    ELSE End(FallbackFailure(misses))

PassFailed(misses, unread) ==
    IF session.attempt < ProbeAttempts /\ WorthRetrying(misses)
    THEN Await([session EXCEPT !.misses = <<>>, !.attempt = @ + 1], unread)
    ELSE End(FallbackFailure(misses))

\* What handle_list and handle_push do with the state s.read.
Continue(s, unread) ==
    IF s.data = None \/ s.data \in s.read
    THEN End("ok")
    ELSE Await([s EXCEPT !.phase = "pack", !.attempt = 1], unread)

ProbeHit(unread) ==
    /\ session.phase = "probe" /\ Heard("state", unread) /\ Head(inbox).data # {}
    /\ LET s == [session EXCEPT !.misses = <<>>, !.read = Head(inbox).data,
                                !.source = Probed(session)]
       IN  IF s.source = Current THEN Continue(s, unread)
           ELSE Await([s EXCEPT !.phase = "migrate"], unread)

ProbeMiss(miss, unread) ==
    /\ session.phase = "probe"
    /\ IF miss = "empty" THEN Heard("state", unread) /\ Head(inbox).data = {}
       ELSE Heard(miss, unread)
    /\ LET misses == Append(session.misses, miss)
       IN  IF Authoritative(miss) /\ Len(misses) < Current
           THEN Await([session EXCEPT !.misses = misses], unread)
           ELSE PassFailed(misses, unread)

-------------------------------------------------------------------------------
\* The PUT of legacy state to the current key; its failure is a warning.
Migrate(verdict, unread) ==
    /\ session.phase = "migrate" /\ Heard(verdict, unread)
    /\ Continue(session, unread)

\* put_pack
PackPut(unread) ==
    /\ session.phase = "pack" /\ Heard("done", unread)
    /\ Await([session EXCEPT !.phase = "update"], unread)

\* Mutant of PackFails: one attempt too many.
PackFailsOnceMore(verdict, unread) ==
    /\ session.phase = "pack" /\ Heard(verdict, unread)
    /\ IF session.attempt <= PutAttempts
       THEN Await([session EXCEPT !.attempt = @ + 1], unread)
       ELSE End("not_put")

PackFails(verdict, unread) ==
    /\ session.phase = "pack" /\ Heard(verdict, unread)
    /\ IF session.attempt < PutAttempts
       THEN Await([session EXCEPT !.attempt = @ + 1], unread)
       ELSE End("not_put")

\* update_state
Updated(unread) ==
    /\ session.phase = "update" /\ Heard("done", unread)
    /\ End("ok")
    /\ acked' = acked \cup {session.data}

NotUpdated(verdict, unread) ==
    /\ session.phase = "update" /\ Heard(verdict, unread)
    /\ End("not_updated")

Failure == {"timeout", "transient", "hard"}

\* What the helper does when unread is what is left of the inbox.
Receive(unread) ==
    \/ /\ \/ ProbeHit(unread)
          \/ \E miss \in Miss : ProbeMiss(miss, unread)
          \/ \E v \in Failure \cup {"done"} : Migrate(v, unread)
          \/ PackPut(unread)
          \/ \E v \in Failure : PackFails(v, unread)
          \/ \E v \in Failure \cup {"absent"} : NotUpdated(v, unread)
       /\ UNCHANGED acked
    \/ Updated(unread)

Step == /\ \E unread \in {inbox, Rest(inbox)} : Receive(unread)
        /\ UNCHANGED before

-------------------------------------------------------------------------------
\* Every generation may have been used, created and left empty, or never put.
Init == /\ store \in {[k \in Key |-> IF k \in RepoKey THEN held[k] ELSE None] :
                        held \in [RepoKey -> {None, {}, Published}]}
        /\ before = store
        /\ subscribed = {} /\ pending = <<>> /\ inbox = <<>>
        /\ session = Ended("none")
        /\ acked = {}

Next == \/ Start \/ Skip \/ Step
        \/ (Serve \/ Elsewhere) /\ UNCHANGED <<session, before, acked>>

Spec == Init /\ [][Next]_vars

\* A receive loop does not outlive its deadline, whatever it hears until then.
FairSpec == Spec /\ WF_vars(Step)

-------------------------------------------------------------------------------
\* Type invariant: what is stored, asked, heard and remembered is of its kind.
TypeOK ==
    /\ store \in [Key -> {None} \cup SUBSET Write]
    /\ before \in [Key -> {None} \cup SUBSET Write]
    /\ subscribed \subseteq Key
    /\ Range(pending) \subseteq Request
    /\ Range(inbox) \subseteq Message
    /\ session.phase \in Phase /\ session.outcome \in Outcome
    /\ session.data \in Own \cup {None} /\ session.source \in RepoKey \cup {None}
    /\ session.read \in SUBSET Write
    /\ Range(session.misses) \subseteq Miss /\ Len(session.misses) < Current
    /\ session.attempt \in 0 .. (IF session.phase \in {"pack", "update"}
                                 THEN PutAttempts ELSE ProbeAttempts)
    /\ acked \subseteq Own

\* A state read under one generation is adopted only when every newer generation
\* held nothing at the start of the session: a slow, refused or late answer about
\* a newer one never lets an older one shadow it (probe_all_keys).
AdoptsNewest ==
    session.source # None =>
        \A k \in RepoKey : k > session.source => before[k] \in {None, {}}

\* "No state found" is reported only for a repo that had none anywhere when the
\* session started; every doubt is reported as something else
\* (format_fallback_failure).
NoStateMeansNone ==
    session.outcome = "no_state" => \A k \in RepoKey : before[k] \in {None, {}}

\* No push updates the repo before the node holds the pack it refers to, although
\* late answers to other PUTs are still in the inbox (dispatch_put_response).
PackBeforeUpdate ==
    session.phase = "update" => store[PackOf[session.data]] # None

\* A push is told it was applied only when it was: without a subscription to the
\* repo contract, no message left over from another request passes for the
\* answer to the UPDATE (dispatch_update_response).
TrueAck == [][\A x \in acked' \ acked :
                  x \in store'[Current] \/ Current \in subscribed]_vars

\* A push is told it was applied only on top of the repo: the current contract then
\* holds all that the newest generation held when the session started, whether the
\* migration PUT was confirmed, refused, lost or overtaken by another helper's, and
\* whichever message is taken for the answer (fetch_repo_state, whose failed PUT is
\* only a warning).
AckedOnRepo == [][acked' # acked =>
                    \A k \in RepoKey :
                        /\ before[k] \notin {None, {}}
                        /\ \A h \in RepoKey : h > k => before[h] \in {None, {}}
                        => store[Current] # None /\ before[k] \subseteq store[Current]]_vars

\* Every session ends, whatever the node answers or keeps to itself: the retries
\* of the probes and of the pack are bounded.
SessionEnds == session.phase # "idle" ~> session.phase = "idle"
===============================================================================
