---------------------------- MODULE IdentityBundle -----------------------------
(***************************************************************************)
(* The identity bundle: the file with the owner's key and the keys of the  *)
(* repos the owner has created (crates/identity/src/lib.rs), and the       *)
(* commands of freenet-git that write it: init-identity, create,           *)
(* export-identity and import-identity (crates/freenet-git/src/main.rs).   *)
(* Nothing locks it, and a push needs the key a `create` has put there.    *)
(*                                                                         *)
(* A key stands for its pair; sealing is ideal: a bundle opens under the   *)
(* passphrase it was sealed with and no other.                             *)
(***************************************************************************)
EXTENDS FiniteSets, Naturals

CONSTANTS Process,     \* concurrent runs of freenet-git by one user
          Identity,    \* identity keys
          Repo,        \* repo keys, each with its prefix
          Passphrase,  \* passphrases; Unsealed, the empty one, is among them
          Unsealed,
          Inode,       \* bound: inodes of the file system
          Empty,       \* the contents of a truncated file
          Torn,        \* contents that are no bundle
          None,        \* Option::None
          MaxOverlaps, \* bound: commands that begin while another one runs
          MaxFaults    \* bound: crashes and failed PUTs

File   == {"bundle", "copy"}  \* the default bundle, and an exported copy
Bundle == [id : Identity, repos : SUBSET Repo, seal : Passphrase]

ASSUME BundleAssumption ==
    /\ Unsealed \in Passphrase /\ None \notin Passphrase
    /\ None \notin Inode /\ None \notin Repo
    /\ Empty \notin Bundle /\ Torn \notin Bundle
    /\ MaxOverlaps \in Nat /\ MaxFaults \in Nat

VARIABLES file,         \* file[f]: the inode f names
          tmp,          \* tmp[f]: the inode of f's temporary name
          bytes,        \* bytes[i]: the contents of inode i
          run,          \* run[p]: what process p is doing
          published,    \* repos whose contract has been PUT
          registered,   \* repos a `create` has reported as registered
          interrupted,  \* repos whose `create` crashed or gave up
          overlapped,   \* repos whose `create` ran at the same time as a command
          overlaps,     \* commands begun while another one ran
          faults

disk  == <<file, tmp, bytes>>
races == <<overlapped, overlaps>>
vars  == <<disk, run, published, registered, interrupted, races, faults>>

Idle == [op |-> "idle", phase |-> "idle", file |-> "bundle", bundle |-> None,
         repo |-> None, inode |-> None]

\* What a file holds; None when there is no such file.
Holds(f) == IF file[f] = None THEN None ELSE bytes[file[f]]

\* Two commands have run at the same time.
Shared == overlaps > 0

\* A key no bundle, command or contract knows.
InUse(i)   == (\E f \in File : file[f] = i \/ tmp[f] = i) \/ \E p \in Process : run[p].inode = i
FreshId(k) == /\ \A i \in Inode : bytes[i] \in Bundle => bytes[i].id # k
              /\ \A p \in Process : run[p].bundle # None => run[p].bundle.id # k
FreshRepo(r) == /\ r \notin published \cup registered \cup interrupted
                /\ \A i \in Inode : bytes[i] \in Bundle => r \notin bytes[i].repos
                /\ \A p \in Process : run[p].repo # r

-------------------------------------------------------------------------------
\* identity::open
Opens(contents, passphrase) == contents \in Bundle /\ contents.seal = passphrase

\* Mutant of UsedPassphrase: the environment's is remembered although it did not
\* open the bundle.
UsedPassphraseEnv(contents, env, typed) ==
    IF env # None /\ (Opens(contents, env) \/ Opens(contents, Unsealed)) THEN env
    ELSE IF Opens(contents, Unsealed) THEN Unsealed
    ELSE IF env = None /\ typed # Unsealed /\ Opens(contents, typed) THEN typed
    ELSE None

\* open_bundle_remembering_passphrase: the passphrase that opened the bundle.
UsedPassphrase(contents, env, typed) ==
    IF env # None /\ Opens(contents, env) THEN env
    ELSE IF Opens(contents, Unsealed) THEN Unsealed
    ELSE IF env = None /\ typed # Unsealed /\ Opens(contents, typed) THEN typed
    ELSE None

\* prompt_passphrase_with_confirm, which --no-passphrase skips.
NewPassphrases(env) == {Unsealed} \cup (IF env # None THEN {env} ELSE Passphrase)

\* read_identity_for_helper and the look-up of handle_push: the repos a push with
\* this environment can sign for.
PushableWith(env) ==
    IF Holds("bundle") \in Bundle /\ Holds("bundle").seal \in {env, Unsealed}
    THEN Holds("bundle").repos ELSE {}

Environment == Passphrase \cup {None}

Begin(p, op, phase, f, bundle, repo) ==
    /\ run[p] = Idle
    /\ run' = [run EXCEPT ![p] = [op |-> op, phase |-> phase, file |-> f,
                                  bundle |-> bundle, repo |-> repo, inode |-> None]]
    /\ LET others == {q \in Process : run[q] # Idle}
       IN  IF others = {} THEN UNCHANGED races
           ELSE /\ overlaps < MaxOverlaps
                /\ overlaps' = overlaps + 1
                /\ overlapped' = overlapped \cup
                                  (({repo} \cup {run[q].repo : q \in others}) \ {None})
    /\ UNCHANGED <<disk, published, registered, interrupted, faults>>

\* init_identity: looks whether there is a bundle, asks for a passphrase, writes.
InitIdentity(p) ==
    /\ file["bundle"] = None
    /\ \E k \in Identity, env \in Environment : \E seal \in NewPassphrases(env) :
         /\ FreshId(k)
         /\ Begin(p, "init", "open", "bundle", [id |-> k, repos |-> {}, seal |-> seal], None)

\* export_identity and import_identity: reseal one file's bundle into another.
Reseal(p, op, from, to) ==
    \E env \in Environment, typed \in Passphrase : \E seal \in NewPassphrases(env) :
        /\ UsedPassphrase(Holds(from), env, typed) # None
        /\ Begin(p, op, "open", to, [Holds(from) EXCEPT !.seal = seal], None)

ExportIdentity(p) == Reseal(p, "export", "bundle", "copy")

ImportIdentity(p) == file["bundle"] = None /\ Reseal(p, "import", "copy", "bundle")

-------------------------------------------------------------------------------
(***************************************************************************)
(* create_repo: read the bundle, PUT the repo, then write the bundle it    *)
(* read with the repo's key added to it.  With --no-publish, no PUT.       *)
(***************************************************************************)
\* Mutant of WithRepo: the entry is not pushed.
WithRepoForgotten(bundle, r) == [bundle EXCEPT !.repos = @ \ {r}]

\* Mutant of WithRepo: the registry is the new entry.
WithRepoOnly(bundle, r) == [bundle EXCEPT !.repos = {r}]

WithRepo(bundle, r) == [bundle EXCEPT !.repos = @ \cup {r}]

CreateRepo(p) ==
    \E env \in Environment, typed \in Passphrase, r \in Repo, phase \in {"put", "open"} :
        LET used == UsedPassphrase(Holds("bundle"), env, typed)
        IN  /\ used # None /\ FreshRepo(r)
            /\ Begin(p, "create", phase, "bundle",
                     WithRepo([Holds("bundle") EXCEPT !.seal = used], r), r)

Publish(p) ==
    /\ run[p].phase = "put"
    /\ published' = published \cup {run[p].repo}
    /\ run' = [run EXCEPT ![p].phase = "open"]
    /\ UNCHANGED <<disk, registered, interrupted, races, faults>>

\* An error, or no confirmation in time: the host may have accepted the PUT.
PublishFails(p) ==
    /\ run[p].phase = "put" /\ faults < MaxFaults
    /\ faults' = faults + 1
    /\ published' \in {published, published \cup {run[p].repo}}
    /\ interrupted' = interrupted \cup {run[p].repo}
    /\ run' = [run EXCEPT ![p] = Idle]
    /\ UNCHANGED <<disk, registered, races>>

-------------------------------------------------------------------------------
(***************************************************************************)
(* write_atomic: fill a temporary file, make it private, rename it.  All   *)
(* processes use the same temporary name.                                  *)
(***************************************************************************)
\* Mutant of OpenTmp: create_new, which a leftover of a crash makes fail.
OpenTmpNew(p) ==
    LET f == run[p].file
    IN  /\ run[p].phase = "open"
        /\ IF tmp[f] # None
           THEN run' = [run EXCEPT ![p] = Idle] /\ UNCHANGED <<tmp, bytes>>
           ELSE LET i == CHOOSE i \in Inode : ~InUse(i)
                IN  /\ tmp' = [tmp EXCEPT ![f] = i]
                    /\ bytes' = [bytes EXCEPT ![i] = Empty]
                    /\ run' = [run EXCEPT ![p].phase = "write", ![p].inode = i]
        /\ UNCHANGED <<file, published, registered, interrupted, races, faults>>

\* A temporary file a crash has left is opened again; a new one needs a new inode.
OpenTmp(p) ==
    LET f == run[p].file
        i == IF tmp[f] # None THEN tmp[f] ELSE CHOOSE i \in Inode : ~InUse(i)
    IN  /\ run[p].phase = "open"
        /\ tmp[f] # None \/ \E j \in Inode : ~InUse(j)
        /\ tmp' = [tmp EXCEPT ![f] = i]
        /\ bytes' = [bytes EXCEPT ![i] = Empty]
        /\ run' = [run EXCEPT ![p].phase = "write", ![p].inode = i]
        /\ UNCHANGED <<file, published, registered, interrupted, races, faults>>

\* Mutant of WriteTmp: the rename comes before the bytes are all written.
WriteTmpLater(p) ==
    /\ run[p].phase = "write"
    /\ bytes' = [bytes EXCEPT ![run[p].inode] = Torn]
    /\ run' = [run EXCEPT ![p].phase = "rename"]
    /\ UNCHANGED <<file, tmp, published, registered, interrupted, races, faults>>

\* write_all and sync_all.  What another process has written to the inode is
\* overwritten; what is longer stays behind the bundle, where no reader looks.
WriteTmp(p) ==
    /\ run[p].phase = "write"
    /\ bytes' = [bytes EXCEPT ![run[p].inode] = run[p].bundle]
    /\ run' = [run EXCEPT ![p].phase = "rename"]
    /\ UNCHANGED <<file, tmp, published, registered, interrupted, races, faults>>

\* set_perms and the rename, which both fail when another process has taken the
\* temporary name away: the last steps of every command.  create then reports the
\* repo as registered.  The inode the name stood for is gone.
Rename(p) ==
    LET f == run[p].file
    IN  /\ run[p].phase = "rename"
        /\ IF tmp[f] = None
           THEN UNCHANGED <<disk, registered, races>>
           ELSE /\ file' = [file EXCEPT ![f] = tmp[f]]
                /\ tmp' = [tmp EXCEPT ![f] = None]
                /\ bytes' = [i \in Inode |-> IF i = file[f] THEN Empty ELSE bytes[i]]
                /\ registered' = registered \cup ({run[p].repo} \ {None})
        /\ run' = [run EXCEPT ![p] = Idle]
        /\ UNCHANGED <<published, interrupted, races, faults>>

\* A crash loses the process; half a write may be in the temporary file.
Crash(p) ==
    /\ run[p] # Idle /\ faults < MaxFaults
    /\ faults' = faults + 1
    /\ \/ UNCHANGED bytes
       \/ run[p].phase = "write" /\ bytes' = [bytes EXCEPT ![run[p].inode] = Torn]
    /\ interrupted' = interrupted \cup ({run[p].repo} \ {None})
    /\ run' = [run EXCEPT ![p] = Idle]
    /\ UNCHANGED <<file, tmp, published, registered, races>>

-------------------------------------------------------------------------------
\* A machine without a bundle, or with one, or to which one has been copied.
Init ==
    /\ \E bundle \in Bundle, i \in Inode, present \in SUBSET File :
         /\ Cardinality(present) <= 1
         /\ file = [f \in File |-> IF f \in present THEN i ELSE None]
         /\ bytes = [j \in Inode |-> IF j = i /\ present # {} THEN bundle ELSE Empty]
    /\ tmp = [f \in File |-> None]
    /\ run = [p \in Process |-> Idle]
    /\ published = {} /\ registered = {} /\ interrupted = {}
    /\ overlapped = {} /\ overlaps = 0 /\ faults = 0

Next == \E p \in Process :
    \/ InitIdentity(p) \/ ExportIdentity(p) \/ ImportIdentity(p) \/ CreateRepo(p)
    \/ Publish(p) \/ PublishFails(p)
    \/ OpenTmp(p) \/ WriteTmp(p) \/ Rename(p)
    \/ Crash(p)

Spec == Init /\ [][Next]_vars

-------------------------------------------------------------------------------
\* Type invariant: names name inodes, inodes hold bundles or debris, and a process
\* has at hand what its phase uses.
TypeOK ==
    /\ file \in [File -> Inode \cup {None}] /\ tmp \in [File -> Inode \cup {None}]
    /\ bytes \in [Inode -> Bundle \cup {Empty, Torn}]
    /\ published \subseteq Repo /\ registered \subseteq Repo /\ interrupted \subseteq Repo
    /\ faults \in 0 .. MaxFaults
    /\ \A p \in Process : run[p] # Idle =>
         /\ run[p].op \in {"init", "create", "export", "import"}
         /\ run[p].bundle \in Bundle /\ run[p].file \in File
         /\ run[p].phase \in {"write", "rename"} => run[p].inode \in Inode
         /\ run[p].op = "create" => run[p].repo \in run[p].bundle.repos

\* What a bundle's name stands for is a whole bundle at every moment, crashes in
\* the middle of a write included (write_atomic).  Two commands that share the
\* temporary name can leave less there until both have ended, and no longer unless
\* one of them crashes.
BundleIntact == \A f \in File :
    \/ Holds(f) \in Bundle \cup {None}
    \/ Shared /\ (faults > 0 \/ \E p \in Process : run[p] # Idle)

\* A bundle that is in place never loses a repo's key, changes its owner, or comes
\* to need another passphrase, whichever way the command that rewrote it had got
\* the passphrase (register_in_bundle, the refusals of init and import).
BundleGrows == [][
    LET old == Holds("bundle")
        new == Holds("bundle")'
    IN  old # None => \/ Shared
                      \/ /\ new.id = old.id /\ new.seal = old.seal
                         /\ old.repos \subseteq new.repos]_vars

\* Once every command has ended, each repo that `create` reported as registered can
\* be pushed to from an environment that has the bundle's passphrase.  A command
\* that ran at the same time may have cost a `create` its key, but no race and no
\* crash costs a repo its key that was registered before; what two commands at
\* once do not survive is a crash.
RegisteredPushable ==
    (\A p \in Process : run[p] = Idle) /\ (Shared => faults = 0) =>
    \E env \in Environment : registered \ overlapped \subseteq PushableWith(env)

\* A repo on the network without a key in the bundle is one whose `create` was
\* itself interrupted or raced; what an earlier crash left behind does not make it
\* fail.
PublishedRegistered ==
    \A r \in published : \/ r \in registered \cup interrupted \cup overlapped
                         \/ \E p \in Process : run[p].repo = r
===============================================================================
