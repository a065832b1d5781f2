-------------------------- MODULE IdentityBundleProofs ------------------------
(***************************************************************************)
(* The identity file under any number of processes, repos and passphrases, *)
(* overlapping commands and crashes.                                       *)
(***************************************************************************)
EXTENDS IdentityBundle, FiniteSetTheorems, TLAPS

Running(p) == run[p] # Idle

Job == [op : {"idle", "init", "create", "export", "import"},
        phase : {"idle", "put", "open", "write", "rename"},
        file : File, bundle : Bundle \cup {None}, repo : Repo \cup {None},
        inode : Inode \cup {None}]

Types ==
    /\ file \in [File -> Inode \cup {None}] /\ tmp \in [File -> Inode \cup {None}]
    /\ bytes \in [Inode -> Bundle \cup {Empty, Torn}]
    /\ run \in [Process -> Job]
    /\ published \subseteq Repo /\ registered \subseteq Repo
    /\ interrupted \subseteq Repo /\ overlapped \subseteq Repo
    /\ overlaps \in Nat /\ faults \in 0 .. MaxFaults

\* What a process has at hand; a `create` has a repo, and only it has one.
JobOK(j) ==
    /\ j.op # "idle" /\ j.phase # "idle" /\ j.bundle \in Bundle
    /\ j.repo # None <=> j.op = "create"
    /\ j.op = "create" => j.file = "bundle" /\ j.repo \in j.bundle.repos
    /\ j.phase = "put" => j.op = "create"
    /\ j.inode # None <=> j.phase \in {"write", "rename"}

JobsOK == \A p \in Process : Running(p) => JobOK(run[p])

\* An inode has one name, and is written to only by commands for its file.
NamesOK ==
    /\ \A f, g \in File : file[f] # None => /\ file[f] # tmp[g]
                                            /\ f # g => file[f] # file[g]
    /\ \A f, g \in File : tmp[f] # None /\ f # g => tmp[f] # tmp[g]
    /\ \A p \in Process, f \in File :
         run[p].inode # None /\ run[p].inode \in {file[f], tmp[f]} => run[p].file = f

\* Commands that run at the same time are on record.
ApartOK ==
    \A p, q \in Process : Running(p) /\ Running(q) /\ p # q =>
        overlaps > 0 /\ run[p].repo \in overlapped \cup {None}

\* Nobody has interfered with p's command.
Apart(p) == overlaps = 0 \/ run[p].repo \notin overlapped \cup {None}

TmpOK ==
    \A p \in Process : Apart(p) =>
        /\ run[p].phase \in {"write", "rename"} => tmp[run[p].file] = run[p].inode
        /\ run[p].phase = "rename" => bytes[run[p].inode] = run[p].bundle

\* A bundle, or about to become one.
Whole(i) == bytes[i] \in Bundle \/ \E p \in Process : run[p].phase = "write" /\ run[p].inode = i

WholeOK ==
    \A f \in File :
        /\ (faults = 0 \/ overlaps = 0) /\ file[f] # None => Whole(file[f])
        /\ faults = 0 /\ tmp[f] # None => Whole(tmp[f])

Extends(new, old) == new.id = old.id /\ new.seal = old.seal /\ old.repos \subseteq new.repos

\* What a command is about to write goes beyond what is there.
GrowsOK ==
    \A p \in Process : overlaps = 0 /\ Running(p) /\ run[p].file = "bundle"
                         /\ file["bundle"] # None
        => Extends(run[p].bundle, bytes[file["bundle"]])

\* A repo registered without interference is in the bundle, in what may become the
\* bundle, and in what every command is about to write.
Kept(r) ==
    /\ file["bundle"] # None
    /\ \A p \in Process : Running(p) /\ run[p].file = "bundle" => r \in run[p].bundle.repos
    /\ bytes[file["bundle"]] \in Bundle => r \in bytes[file["bundle"]].repos
    /\ tmp["bundle"] # None /\ bytes[tmp["bundle"]] \in Bundle
         => r \in bytes[tmp["bundle"]].repos

KeptOK == \A r \in registered \ overlapped : Kept(r)

IInv == /\ Types /\ JobsOK /\ NamesOK /\ ApartOK /\ TmpOK /\ WholeOK /\ GrowsOK /\ KeptOK
        /\ PublishedRegistered

-------------------------------------------------------------------------------
(***************************************************************************)
(* Commands and passphrases.                                               *)
(***************************************************************************)
\* A process that does nothing.
LEMMA IdleFacts ==
    /\ Idle \in Job /\ Idle.op = "idle" /\ Idle.phase = "idle" /\ Idle.bundle = None
    /\ Idle.repo = None /\ Idle.inode = None /\ Idle.file = "bundle"
BY DEF Idle, Job, File

\* A passphrase that is remembered opened the bundle.
LEMMA UsedOpens ==
    ASSUME NEW contents, NEW env, NEW typed, UsedPassphrase(contents, env, typed) # None
    PROVE  contents \in Bundle /\ contents.seal = UsedPassphrase(contents, env, typed)
BY DEF UsedPassphrase, Opens

\* New passphrases are passphrases.
LEMMA NewSeals ==
    ASSUME NEW env \in Environment
    PROVE  NewPassphrases(env) \subseteq Passphrase
BY BundleAssumption DEF NewPassphrases, Environment

\* A command begins.
LEMMA BeginKeeps ==
    ASSUME IInv, NEW p \in Process, NEW op \in {"init", "create", "export", "import"},
           NEW phase \in {"put", "open"}, NEW f \in File, NEW b \in Bundle,
           NEW repo \in Repo \cup {None}, Begin(p, op, phase, f, b, repo),
           repo # None <=> op = "create", phase = "put" => op = "create",
           op = "create" => f = "bundle" /\ repo \in b.repos,
           f = "bundle" /\ file["bundle"] # None =>
               bytes[file["bundle"]] \in Bundle /\ Extends(b, bytes[file["bundle"]])
    PROVE  IInv'
<1>. DEFINE j == [op |-> op, phase |-> phase, file |-> f, bundle |-> b,
                  repo |-> repo, inode |-> None]
            others == {q \in Process : run[q] # Idle}
<1>1. /\ run[p] = Idle /\ run' = [run EXCEPT ![p] = j]
      /\ UNCHANGED <<file, tmp, bytes, published, registered, interrupted, faults>>
      /\ \/ others = {} /\ UNCHANGED <<overlapped, overlaps>>
         \/ /\ overlaps' = overlaps + 1
            /\ overlapped' = overlapped \cup (({repo} \cup {run[q].repo : q \in others}) \ {None})
  BY DEF Begin, disk, races
<1>2. /\ j \in Job /\ j.op = op /\ j.phase = phase /\ j.file = f /\ j.bundle = b
      /\ j.repo = repo /\ j.inode = None
  BY DEF Job
<1>. HIDE DEF j
<1>3. /\ run'[p] = j /\ \A q \in Process : q # p => run'[q] = run[q]
      /\ run' \in [Process -> Job]
  BY <1>1, <1>2 DEF IInv, Types
<1>4. overlaps \in Nat /\ \A q \in Process : run[q].repo \in Repo \cup {None}
  BY DEF IInv, Types, Job
<1>5. /\ overlapped' \subseteq Repo /\ overlaps' \in Nat
      /\ overlapped \subseteq overlapped' /\ overlaps <= overlaps'
  BY <1>1, <1>4 DEF IInv, Types
<1>6. Types'
  BY <1>1, <1>3, <1>5 DEF IInv, Types
<1>7. JobsOK'
  BY <1>2, <1>3 DEF IInv, JobsOK, JobOK, Running, Idle
<1>8. NamesOK'
  BY <1>1, <1>2, <1>3 DEF IInv, NamesOK
<1>9. ApartOK'
  <2>. SUFFICES ASSUME NEW q \in Process, NEW s \in Process,
                       Running(q)', Running(s)', q # s
                PROVE  overlaps' > 0 /\ run'[q].repo \in overlapped' \cup {None}
    BY DEF ApartOK
  <2>1. CASE q # p /\ s # p
    BY <1>3, <1>4, <1>5, <2>1 DEF IInv, ApartOK, Running, Idle
  <2>2. CASE q = p \/ s = p
    <3>1. PICK o \in Process : o # p /\ o \in {q, s} /\ o \in others
      BY <1>3, <2>2 DEF Running, Idle
    <3>2. /\ overlaps' = overlaps + 1
          /\ overlapped' = overlapped \cup (({repo} \cup {run[x].repo : x \in others}) \ {None})
      BY <1>1, <3>1
    <3>3. CASE q = p
      BY <1>2, <1>3, <1>4, <3>2, <3>3
    <3>4. CASE s = p
      BY <1>3, <1>4, <3>1, <3>2, <3>4
    <3>. QED  BY <2>2, <3>3, <3>4
  <2>. QED  BY <2>1, <2>2
<1>10. TmpOK'
  <2>. SUFFICES ASSUME NEW q \in Process, Apart(q)',
                       run'[q].phase \in {"write", "rename"}
                PROVE  /\ tmp[run[q].file] = run[q].inode
                       /\ run[q].phase = "rename" => bytes[run[q].inode] = run[q].bundle
                       /\ run'[q] = run[q]
    BY <1>1 DEF TmpOK
  <2>1. q # p /\ run'[q] = run[q]
    BY <1>2, <1>3
  <2>2. Apart(q)
    BY <1>4, <1>5, <2>1 DEF Apart
  <2>. QED  BY <2>1, <2>2 DEF IInv, TmpOK
<1>11. WholeOK'
  <2>1. \A i : Whole(i) => Whole(i)'
    <3>. SUFFICES ASSUME NEW i, NEW q \in Process, run[q].phase = "write", run[q].inode = i
                  PROVE  Whole(i)'
      BY <1>1 DEF Whole
    <3>1. q # p
      BY <1>1, IdleFacts
    <3>. QED  BY <1>3, <3>1 DEF Whole
  <2>2. overlaps' = 0 => overlaps = 0
    BY <1>4, <1>5, <1>6 DEF Types
  <2>. QED  BY <1>1, <2>1, <2>2 DEF IInv, WholeOK
<1>12. GrowsOK'
  BY <1>1, <1>2, <1>3, <1>4, <1>5, <1>6 DEF IInv, GrowsOK, Running, Types
<1>13. KeptOK'
  <2>. SUFFICES ASSUME NEW r \in registered \ overlapped PROVE Kept(r)'
    BY <1>1, <1>5 DEF KeptOK
  <2>1. Kept(r)
    BY DEF IInv, KeptOK
  <2>2. f = "bundle" => r \in b.repos
    BY <2>1 DEF Kept, Extends
  <2>. QED  BY <1>1, <1>2, <1>3, <2>1, <2>2 DEF Kept, Running
<1>14. PublishedRegistered'
  <2>1. \A q \in Process, r \in published : run[q].repo = r => q # p
    BY <1>1, IdleFacts, BundleAssumption DEF IInv, Types
  <2>. QED  BY <1>1, <1>3, <1>5, <2>1 DEF IInv, PublishedRegistered
<1>. QED  BY <1>6, <1>7, <1>8, <1>9, <1>10, <1>11, <1>12, <1>13, <1>14 DEF IInv

-------------------------------------------------------------------------------
(***************************************************************************)
(* The commands begin.                                                     *)
(***************************************************************************)
\* `init` writes where nothing was.
LEMMA InitIdentityStep ==
    ASSUME IInv, NEW p \in Process, InitIdentity(p)
    PROVE  IInv'
<1>1. PICK k \in Identity, seal \in Passphrase :
        Begin(p, "init", "open", "bundle", [id |-> k, repos |-> {}, seal |-> seal], None)
  BY NewSeals DEF InitIdentity
<1>2. file["bundle"] = None
  BY DEF InitIdentity
<1>. DEFINE b == [id |-> k, repos |-> {}, seal |-> seal]
<1>3. b \in Bundle
  BY DEF Bundle
<1>4. "bundle" \in File
  BY DEF File
<1>. HIDE DEF b
<1>5. Begin(p, "init", "open", "bundle", b, None)
  BY <1>1 DEF b
<1>. QED  BY <1>2, <1>3, <1>4, <1>5, BeginKeeps

\* Resealing keeps the key and the repos.
LEMMA ResealKeeps ==
    ASSUME IInv, NEW p \in Process, NEW op \in {"export", "import"},
           NEW from \in File, NEW to \in File, Reseal(p, op, from, to),
           to = "bundle" => file["bundle"] = None
    PROVE  IInv'
<1>1. PICK env \in Environment, typed \in Passphrase, seal \in Passphrase :
        /\ UsedPassphrase(Holds(from), env, typed) # None
        /\ Begin(p, op, "open", to, [Holds(from) EXCEPT !.seal = seal], None)
  BY NewSeals DEF Reseal
<1>2. Holds(from) \in Bundle
  BY <1>1, UsedOpens
<1>3. [Holds(from) EXCEPT !.seal = seal] \in Bundle
  BY <1>2 DEF Bundle
<1>. DEFINE b == [Holds(from) EXCEPT !.seal = seal]
<1>4. b \in Bundle /\ Begin(p, op, "open", to, b, None)
  BY <1>1, <1>3
<1>. HIDE DEF b
<1>. QED  BY <1>4, BeginKeeps

\* `create` adds a repo to the bundle it has opened, sealed as it was.
LEMMA CreateRepoStep ==
    ASSUME IInv, NEW p \in Process, CreateRepo(p)
    PROVE  IInv'
<1>1. PICK env \in Environment, typed \in Passphrase, r \in Repo, phase \in {"put", "open"} :
        LET used == UsedPassphrase(Holds("bundle"), env, typed)
        IN  /\ used # None
            /\ Begin(p, "create", phase, "bundle",
                     WithRepo([Holds("bundle") EXCEPT !.seal = used], r), r)
  BY DEF CreateRepo
<1>. DEFINE used == UsedPassphrase(Holds("bundle"), env, typed)
            old  == Holds("bundle")
            b    == WithRepo([old EXCEPT !.seal = used], r)
<1>2. old \in Bundle /\ old.seal = used /\ used \in Passphrase
  BY <1>1, UsedOpens DEF Bundle
<1>3. Begin(p, "create", phase, "bundle", b, r)
  BY <1>1
<1>. HIDE DEF used, old
<1>4. /\ b \in Bundle /\ b.id = old.id /\ b.seal = old.seal
      /\ b.repos = old.repos \cup {r}
  BY <1>2 DEF WithRepo, Bundle
<1>. HIDE DEF b
<1>5. file["bundle"] # None => old = bytes[file["bundle"]]
  BY DEF old, Holds
<1>6. "bundle" \in File /\ r # None
  BY BundleAssumption DEF File
<1>7. r \in b.repos
  BY <1>4
<1>8. file["bundle"] # None => bytes[file["bundle"]] \in Bundle /\ Extends(b, bytes[file["bundle"]])
  BY <1>2, <1>4, <1>5 DEF Extends
<1>. QED  BY <1>3, <1>4, <1>6, <1>7, <1>8, BeginKeeps

-------------------------------------------------------------------------------
(***************************************************************************)
(* The commands go on.                                                     *)
(***************************************************************************)
\* The fields of what a process is doing.
LEMMA JobFields ==
    ASSUME Types, NEW p \in Process
    PROVE  /\ run[p] \in Job /\ run[p].file \in File /\ run[p].repo \in Repo \cup {None}
           /\ run[p].bundle \in Bundle \cup {None} /\ run[p].inode \in Inode \cup {None}
BY DEF Types, Job

\* A process takes a step of its command.
LEMMA GoesOn ==
    ASSUME IInv, NEW p \in Process, Running(p), NEW j \in Job, JobOK(j),
           run' = [run EXCEPT ![p] = j],
           j.op = run[p].op, j.file = run[p].file, j.bundle = run[p].bundle,
           j.repo = run[p].repo, UNCHANGED <<overlapped, overlaps>>
    PROVE  /\ run' \in [Process -> Job] /\ JobsOK' /\ ApartOK'
           /\ run'[p] = j
           /\ \A q \in Process : q # p => run'[q] = run[q]
           /\ \A q \in Process : /\ Running(q)' <=> Running(q)
                                 /\ Apart(q)' <=> Apart(q)
                                 /\ run'[q].file = run[q].file
                                 /\ run'[q].bundle = run[q].bundle
                                 /\ run'[q].repo = run[q].repo
<1>1. /\ run' \in [Process -> Job] /\ run'[p] = j
      /\ \A q \in Process : q # p => run'[q] = run[q]
  BY DEF IInv, Types
<1>2. j # Idle
  BY IdleFacts DEF JobOK
<1>3. \A q \in Process : /\ Running(q)' <=> Running(q)
                         /\ run'[q].file = run[q].file
                         /\ run'[q].bundle = run[q].bundle
                         /\ run'[q].repo = run[q].repo
  BY <1>1, <1>2 DEF Running
<1>4. \A q \in Process : Apart(q)' <=> Apart(q)
  BY <1>3 DEF Apart
<1>5. JobsOK'
  BY <1>1, <1>3 DEF IInv, JobsOK
<1>6. ApartOK'
  BY <1>3 DEF IInv, ApartOK
<1>. QED  BY <1>1, <1>3, <1>4, <1>5, <1>6

\* A process ends, however it does.
LEMMA Ends ==
    ASSUME IInv, NEW p \in Process, run' = [run EXCEPT ![p] = Idle],
           UNCHANGED <<overlapped, overlaps>>
    PROVE  /\ run' \in [Process -> Job] /\ JobsOK' /\ ApartOK'
           /\ run'[p] = Idle
           /\ \A q \in Process : q # p => run'[q] = run[q]
           /\ \A q \in Process : Running(q)' => q # p /\ Running(q)
           /\ \A q \in Process : q # p => (Apart(q)' <=> Apart(q))
           /\ \A q \in Process : run'[q].inode # None => q # p
           /\ \A q \in Process : run'[q].phase \in {"write", "rename"} => q # p
<1>1. /\ run' \in [Process -> Job] /\ run'[p] = Idle
      /\ \A q \in Process : q # p => run'[q] = run[q]
  BY IdleFacts DEF IInv, Types
<1>2. \A q \in Process : Running(q)' => q # p /\ Running(q)
  BY <1>1 DEF Running
<1>3. \A q \in Process : q # p => (Apart(q)' <=> Apart(q))
  BY <1>1 DEF Apart
<1>4. JobsOK'
  BY <1>1, <1>2 DEF IInv, JobsOK
<1>5. ApartOK'
  BY <1>1, <1>2 DEF IInv, ApartOK
<1>. QED  BY <1>1, <1>2, <1>3, <1>4, <1>5, IdleFacts

\* Who writes or renames is running and has an inode; who is at work on another's
\* inode has been recorded.
LEMMA Working ==
    ASSUME IInv, NEW p \in Process, run[p].phase # "idle"
    PROVE  Running(p) /\ JobOK(run[p])
BY IdleFacts DEF IInv, JobsOK, Running

\* A repo of a command that runs beside another is not Apart.
LEMMA ApartAlone ==
    ASSUME IInv, NEW p \in Process, NEW q \in Process, Running(p), Running(q), Apart(q)
    PROVE  p = q
BY DEF IInv, ApartOK, Apart, Types

\* The repo is on the network; its key is yet to be written.
LEMMA PublishStep ==
    ASSUME IInv, NEW p \in Process, Publish(p)
    PROVE  IInv'
<1>. DEFINE j == [run[p] EXCEPT !.phase = "open"]
<1>1. /\ run[p].phase = "put" /\ published' = published \cup {run[p].repo}
      /\ UNCHANGED <<file, tmp, bytes, registered, interrupted, overlapped, overlaps, faults>>
      /\ run' = [run EXCEPT ![p] = j]
  BY DEF Publish, disk, races
<1>2. run[p] \in Job /\ Running(p) /\ JobOK(run[p])
  BY <1>1, Working, JobFields DEF IInv
<1>3. /\ j \in Job /\ j.op = run[p].op /\ j.phase = "open" /\ j.file = run[p].file
      /\ j.bundle = run[p].bundle /\ j.repo = run[p].repo /\ j.inode = run[p].inode
  BY <1>2 DEF Job
<1>. HIDE DEF j
<1>4. JobOK(j) /\ run[p].repo \in Repo
  BY <1>1, <1>2, <1>3, JobFields DEF JobOK, IInv
<1>5. /\ run' \in [Process -> Job] /\ JobsOK' /\ ApartOK' /\ run'[p] = j
      /\ \A q \in Process : q # p => run'[q] = run[q]
      /\ \A q \in Process : /\ Running(q)' <=> Running(q)
                            /\ Apart(q)' <=> Apart(q)
                            /\ run'[q].file = run[q].file /\ run'[q].bundle = run[q].bundle
                            /\ run'[q].repo = run[q].repo
  BY <1>1, <1>2, <1>3, <1>4, GoesOn
<1>6. Types'
  BY <1>1, <1>4, <1>5 DEF IInv, Types
<1>7. NamesOK'
  BY <1>1, <1>3, <1>5 DEF IInv, NamesOK
<1>8. TmpOK'
  BY <1>1, <1>3, <1>5 DEF IInv, TmpOK
<1>9. WholeOK'
  <2>1. \A i : Whole(i) => Whole(i)'
    BY <1>1, <1>5 DEF Whole
  <2>. QED  BY <1>1, <2>1 DEF IInv, WholeOK
<1>10. GrowsOK'
  BY <1>1, <1>5 DEF IInv, GrowsOK
<1>11. KeptOK'
  BY <1>1, <1>5 DEF IInv, KeptOK, Kept
<1>12. PublishedRegistered'
  BY <1>1, <1>5 DEF IInv, PublishedRegistered
<1>. QED  BY <1>5, <1>6, <1>7, <1>8, <1>9, <1>10, <1>11, <1>12 DEF IInv


\* The temporary file is opened, whoever has left it there.
LEMMA OpenTmpStep ==
    ASSUME IInv, NEW p \in Process, OpenTmp(p)
    PROVE  IInv'
<1>. DEFINE f == run[p].file
<1>1. run[p].phase = "open" /\ run[p] \in Job /\ Running(p) /\ JobOK(run[p]) /\ f \in File
  BY Working, JobFields DEF OpenTmp, IInv
<1>2. PICK i \in Inode :
        /\ i = tmp[f] \/ (tmp[f] = None /\ ~InUse(i))
        /\ tmp' = [tmp EXCEPT ![f] = i] /\ bytes' = [bytes EXCEPT ![i] = Empty]
        /\ run' = [run EXCEPT ![p].phase = "write", ![p].inode = i]
  <2>1. CASE tmp[f] # None
    <3>1. tmp[f] \in Inode
      BY <1>1, <2>1 DEF IInv, Types
    <3>. QED  BY <2>1, <3>1 DEF OpenTmp
  <2>2. CASE tmp[f] = None
    <3>1. \E j \in Inode : ~InUse(j)
      BY <2>2 DEF OpenTmp
    <3>2. (CHOOSE j \in Inode : ~InUse(j)) \in Inode /\ ~InUse(CHOOSE j \in Inode : ~InUse(j))
      BY <3>1
    <3>. QED  BY <2>2, <3>2 DEF OpenTmp
  <2>. QED  BY <2>1, <2>2
<1>3. UNCHANGED <<file, published, registered, interrupted, overlapped, overlaps, faults>>
  BY DEF OpenTmp, races
<1>. DEFINE j == [run[p] EXCEPT !.phase = "write", !.inode = i]
<1>4. /\ run' = [run EXCEPT ![p] = j]
      /\ j \in Job /\ j.op = run[p].op /\ j.phase = "write" /\ j.file = run[p].file
      /\ j.bundle = run[p].bundle /\ j.repo = run[p].repo /\ j.inode = i
  BY <1>1, <1>2 DEF Job
<1>. HIDE DEF j
<1>5. i # None /\ JobOK(j)
  BY <1>1, <1>4, BundleAssumption DEF JobOK
<1>6. /\ run' \in [Process -> Job] /\ JobsOK' /\ ApartOK' /\ run'[p] = j
      /\ \A q \in Process : q # p => run'[q] = run[q]
      /\ \A q \in Process : /\ Running(q)' <=> Running(q)
                            /\ Apart(q)' <=> Apart(q)
                            /\ run'[q].file = run[q].file /\ run'[q].bundle = run[q].bundle
                            /\ run'[q].repo = run[q].repo
  BY <1>1, <1>3, <1>4, <1>5, GoesOn
<1>7. /\ tmp'[f] = i /\ \A g \in File : g # f => tmp'[g] = tmp[g]
      /\ bytes'[i] = Empty /\ \A x \in Inode : x # i => bytes'[x] = bytes[x]
      /\ tmp \in [File -> Inode \cup {None}] /\ file \in [File -> Inode \cup {None}]
  BY <1>1, <1>2 DEF IInv, Types
<1>8. /\ \A g \in File : file[g] # i /\ (g # f => tmp[g] # i)
      /\ \A q \in Process : run[q].inode = i => run[q].file = f
  BY <1>1, <1>2, <1>5 DEF IInv, NamesOK, InUse
<1>9. Types'
  BY <1>1, <1>2, <1>3, <1>6 DEF IInv, Types
<1>10. NamesOK'
  <2>1. \A g, h \in File : file'[g] # None => /\ file'[g] # tmp'[h]
                                              /\ g # h => file'[g] # file'[h]
    BY <1>3, <1>7, <1>8 DEF IInv, NamesOK
  <2>2. \A g, h \in File : tmp'[g] # None /\ g # h => tmp'[g] # tmp'[h]
    BY <1>7, <1>8 DEF IInv, NamesOK
  <2>3. ASSUME NEW q \in Process, NEW g \in File,
               run'[q].inode # None, run'[q].inode \in {file'[g], tmp'[g]}
        PROVE  run'[q].file = g
    <3>1. CASE q = p
      BY <1>3, <1>4, <1>6, <1>7, <1>8, <2>3, <3>1
    <3>2. CASE q # p
      BY <1>3, <1>6, <1>7, <1>8, <2>3, <3>2 DEF IInv, NamesOK
    <3>. QED  BY <3>1, <3>2
  <2>. QED  BY <2>1, <2>2, <2>3 DEF NamesOK
<1>11. TmpOK'
  <2>. SUFFICES ASSUME NEW q \in Process, Apart(q)', run'[q].phase \in {"write", "rename"}
                PROVE  /\ tmp'[run'[q].file] = run'[q].inode
                       /\ run'[q].phase # "rename"
    BY DEF TmpOK
  <2>1. q = p
    <3>. SUFFICES ASSUME q # p PROVE FALSE
      OBVIOUS
    <3>1. Running(q) /\ Apart(q)
      BY <1>6, Working
    <3>. QED  BY <1>1, <3>1, ApartAlone
  <2>. QED  BY <1>4, <1>6, <1>7, <2>1
<1>12. WholeOK'
  <2>1. \A x \in Inode : x # i /\ Whole(x) => Whole(x)'
    BY <1>1, <1>6, <1>7 DEF Whole
  <2>2. Whole(i)'
    BY <1>4, <1>6 DEF Whole
  <2>. QED  BY <1>3, <1>7, <1>8, <2>1, <2>2 DEF IInv, WholeOK
<1>13. GrowsOK'
  <2>1. "bundle" \in File
    BY DEF File
  <2>. QED  BY <1>3, <1>6, <1>7, <1>8, <2>1 DEF IInv, GrowsOK
<1>14. KeptOK'
  <2>. SUFFICES ASSUME NEW r \in registered \ overlapped PROVE Kept(r)'
    BY <1>3 DEF KeptOK
  <2>1. Kept(r) /\ "bundle" \in File
    BY DEF IInv, KeptOK, File
  <2>2. file' = file /\ bytes'[file["bundle"]] = bytes[file["bundle"]]
    BY <1>3, <1>7, <1>8, <2>1 DEF Kept
  <2>3. tmp'["bundle"] # None /\ bytes'[tmp'["bundle"]] \in Bundle
          => r \in bytes'[tmp'["bundle"]].repos
    <3>1. CASE f = "bundle"
      BY <1>7, <3>1, BundleAssumption
    <3>2. CASE f # "bundle"
      BY <1>7, <1>8, <2>1, <3>2 DEF Kept
    <3>. QED  BY <3>1, <3>2
  <2>4. \A q \in Process : Running(q)' /\ run'[q].file = "bundle" => r \in run'[q].bundle.repos
    BY <1>6, <2>1 DEF Kept
  <2>. QED  BY <2>1, <2>2, <2>3, <2>4 DEF Kept
<1>15. PublishedRegistered'
  BY <1>3, <1>6 DEF IInv, PublishedRegistered
<1>. QED  BY <1>6, <1>9, <1>10, <1>11, <1>12, <1>13, <1>14, <1>15 DEF IInv

\* The bytes go to the inode that was opened, whatever its name is by now.
LEMMA WriteTmpStep ==
    ASSUME IInv, NEW p \in Process, WriteTmp(p)
    PROVE  IInv'
<1>. DEFINE j == [run[p] EXCEPT !.phase = "rename"]
            i == run[p].inode
<1>1. /\ run[p].phase = "write" /\ run[p] \in Job /\ Running(p) /\ JobOK(run[p])
      /\ run[p].file \in File
  BY Working, JobFields DEF WriteTmp, IInv
<1>2. /\ bytes' = [bytes EXCEPT ![i] = run[p].bundle] /\ run' = [run EXCEPT ![p] = j]
      /\ UNCHANGED <<file, tmp, published, registered, interrupted, overlapped, overlaps, faults>>
  BY DEF WriteTmp, races
<1>3. i \in Inode /\ i # None /\ run[p].bundle \in Bundle
  BY <1>1, JobFields DEF JobOK, IInv
<1>4. /\ j \in Job /\ j.op = run[p].op /\ j.phase = "rename" /\ j.file = run[p].file
      /\ j.bundle = run[p].bundle /\ j.repo = run[p].repo /\ j.inode = run[p].inode
  BY <1>1 DEF Job
<1>. HIDE DEF j
<1>5. JobOK(j)
  BY <1>1, <1>4 DEF JobOK
<1>6. /\ run' \in [Process -> Job] /\ JobsOK' /\ ApartOK' /\ run'[p] = j
      /\ \A q \in Process : q # p => run'[q] = run[q]
      /\ \A q \in Process : /\ Running(q)' <=> Running(q)
                            /\ Apart(q)' <=> Apart(q)
                            /\ run'[q].file = run[q].file /\ run'[q].bundle = run[q].bundle
                            /\ run'[q].repo = run[q].repo
  BY <1>1, <1>2, <1>4, <1>5, GoesOn
<1>7. /\ bytes'[run[p].inode] = run[p].bundle
      /\ \A x \in Inode : x # run[p].inode => bytes'[x] = bytes[x]
      /\ tmp \in [File -> Inode \cup {None}] /\ file \in [File -> Inode \cup {None}]
  BY <1>2, <1>3 DEF IInv, Types
<1>8. Types'
  BY <1>2, <1>3, <1>6 DEF IInv, Types
<1>9. NamesOK'
  BY <1>2, <1>4, <1>6 DEF IInv, NamesOK
<1>10. TmpOK'
  <2>. SUFFICES ASSUME NEW q \in Process, Apart(q)', run'[q].phase \in {"write", "rename"}
                PROVE  /\ tmp'[run'[q].file] = run'[q].inode
                       /\ run'[q].phase = "rename" => bytes'[run'[q].inode] = run'[q].bundle
    BY DEF TmpOK
  <2>1. q = p
    <3>. SUFFICES ASSUME q # p PROVE FALSE
      OBVIOUS
    <3>1. Running(q) /\ Apart(q)
      BY <1>6, Working
    <3>. QED  BY <1>1, <3>1, ApartAlone
  <2>2. Apart(p)
    BY <1>6, <2>1
  <2>3. tmp[run[p].file] = run[p].inode
    BY <1>1, <2>2 DEF IInv, TmpOK
  <2>. QED  BY <1>2, <1>4, <1>6, <1>7, <2>1, <2>3
<1>11. WholeOK'
  <2>1. \A x \in Inode : Whole(x) => Whole(x)'
    BY <1>3, <1>6, <1>7 DEF Whole
  <2>. QED  BY <1>2, <1>7, <2>1 DEF IInv, WholeOK
<1>12. GrowsOK'
  <2>. SUFFICES ASSUME overlaps = 0, file["bundle"] # None
                PROVE  bytes'[file["bundle"]] = bytes[file["bundle"]]
    BY <1>2, <1>6 DEF IInv, GrowsOK
  <2>1. tmp[run[p].file] = run[p].inode
    BY <1>1 DEF IInv, TmpOK, Apart
  <2>2. "bundle" \in File
    BY DEF File
  <2>3. file["bundle"] # run[p].inode /\ file["bundle"] \in Inode
    BY <1>1, <1>7, <2>1, <2>2 DEF IInv, NamesOK
  <2>. QED  BY <1>7, <2>3
<1>13. KeptOK'
  <2>. SUFFICES ASSUME NEW r \in registered \ overlapped PROVE Kept(r)'
    BY <1>2 DEF KeptOK
  <2>1. Kept(r) /\ "bundle" \in File
    BY DEF IInv, KeptOK, File
  <2>2. ASSUME NEW x \in {file["bundle"], tmp["bundle"]}, x # None, bytes'[x] \in Bundle
        PROVE  r \in bytes'[x].repos
    <3>1. CASE x = run[p].inode
      <4>1. run[p].file = "bundle"
        BY <1>3, <2>1, <2>2, <3>1 DEF IInv, NamesOK
      <4>. QED  BY <1>1, <1>7, <2>1, <3>1, <4>1 DEF Kept
    <3>2. CASE x # run[p].inode
      <4>1. x \in Inode
        BY <1>7, <2>1, <2>2
      <4>. QED  BY <1>7, <2>1, <2>2, <3>2, <4>1 DEF Kept
    <3>. QED  BY <3>1, <3>2
  <2>3. \A q \in Process : Running(q)' /\ run'[q].file = "bundle" => r \in run'[q].bundle.repos
    BY <1>6, <2>1 DEF Kept
  <2>. QED  BY <1>2, <2>1, <2>2, <2>3 DEF Kept
<1>14. PublishedRegistered'
  BY <1>2, <1>6 DEF IInv, PublishedRegistered
<1>. QED  BY <1>6, <1>8, <1>9, <1>10, <1>11, <1>12, <1>13, <1>14 DEF IInv


-------------------------------------------------------------------------------
(***************************************************************************)
(* The commands end.                                                       *)
(***************************************************************************)
\* A bundle that is in place while no two commands have run at once is whole.
LEMMA AloneWhole ==
    ASSUME IInv, overlaps = 0, NEW f \in File, file[f] # None
    PROVE  bytes[file[f]] \in Bundle
<1>1. Whole(file[f])
  BY DEF IInv, WholeOK
<1>2. ASSUME NEW p \in Process, run[p].phase = "write", run[p].inode = file[f]
      PROVE  FALSE
  <2>1. tmp[run[p].file] = file[f]
    BY <1>2 DEF IInv, TmpOK, Apart
  <2>2. run[p].file \in File
    BY JobFields DEF IInv
  <2>. QED  BY <2>1, <2>2 DEF IInv, NamesOK
<1>. QED  BY <1>1, <1>2 DEF Whole

\* The name moves to the new inode, or has been taken away by another process.
LEMMA RenameStep ==
    ASSUME IInv, NEW p \in Process, Rename(p)
    PROVE  IInv'
<1>. DEFINE f == run[p].file
<1>1. /\ run[p].phase = "rename" /\ run[p] \in Job /\ Running(p) /\ JobOK(run[p])
      /\ f \in File /\ run[p].repo \in Repo \cup {None}
      /\ run[p].bundle \in Bundle /\ run[p].inode # None
  BY Working, JobFields DEF Rename, IInv, JobOK
<1>2. /\ run' = [run EXCEPT ![p] = Idle]
      /\ UNCHANGED <<published, interrupted, overlapped, overlaps, faults>>
  BY DEF Rename, races
<1>3. /\ run' \in [Process -> Job] /\ JobsOK' /\ ApartOK' /\ run'[p] = Idle
      /\ \A q \in Process : q # p => run'[q] = run[q]
      /\ \A q \in Process : Running(q)' => q # p /\ Running(q)
      /\ \A q \in Process : q # p => (Apart(q)' <=> Apart(q))
      /\ \A q \in Process : run'[q].inode # None => q # p
      /\ \A q \in Process : run'[q].phase \in {"write", "rename"} => q # p
  BY <1>2, Ends
<1>4. ASSUME NEW q \in Process, run'[q].phase \in {"write", "rename"} PROVE ~Apart(q)'
  <2>1. q # p /\ run[q].phase # "idle"
    BY <1>3, <1>4
  <2>2. Running(q)
    BY <2>1, Working
  <2>3. ~Apart(q)
    BY <1>1, <2>1, <2>2, ApartAlone
  <2>. QED  BY <1>3, <2>1, <2>3
<1>5. TmpOK'
  BY <1>4 DEF TmpOK
<1>6. \A q \in Process : Running(q)' => overlaps' # 0
  BY <1>1, <1>2, <1>3 DEF IInv, ApartOK, Types
<1>7. GrowsOK'
  BY <1>6 DEF GrowsOK
<1>8. "bundle" \in File
  BY DEF File
<1>9. CASE tmp[f] = None
  <2>1. UNCHANGED <<file, tmp, bytes, registered>>
    BY <1>9 DEF Rename, disk
  <2>2. Types'
    BY <1>2, <1>3, <2>1 DEF IInv, Types
  <2>3. NamesOK'
    BY <1>3, <2>1 DEF IInv, NamesOK
  <2>4. WholeOK'
    <3>1. \A x : Whole(x) => Whole(x)'
      BY <1>1, <1>3, <2>1 DEF Whole
    <3>. QED  BY <1>2, <2>1, <3>1 DEF IInv, WholeOK
  <2>5. KeptOK'
    BY <1>2, <1>3, <2>1 DEF IInv, KeptOK, Kept
  <2>6. PublishedRegistered'
    <3>1. run[p].repo \in overlapped \cup {None}
      BY <1>1, <1>9 DEF IInv, TmpOK, Apart
    <3>2. None \notin published
      BY BundleAssumption DEF IInv, Types
    <3>. QED  BY <1>2, <1>3, <2>1, <3>1, <3>2 DEF IInv, PublishedRegistered
  <2>. QED  BY <1>3, <1>5, <1>7, <2>2, <2>3, <2>4, <2>5, <2>6 DEF IInv
<1>10. CASE tmp[f] # None
  <2>1. /\ file' = [file EXCEPT ![f] = tmp[f]] /\ tmp' = [tmp EXCEPT ![f] = None]
        /\ bytes' = [i \in Inode |-> IF i = file[f] THEN Empty ELSE bytes[i]]
        /\ registered' = registered \cup ({run[p].repo} \ {None})
    BY <1>10 DEF Rename
  <2>2. /\ file'[f] = tmp[f] /\ tmp'[f] = None /\ tmp[f] \in Inode
        /\ \A g \in File : g # f => file'[g] = file[g] /\ tmp'[g] = tmp[g]
        /\ \A x \in Inode : x # file[f] => bytes'[x] = bytes[x]
        /\ tmp \in [File -> Inode \cup {None}] /\ file \in [File -> Inode \cup {None}]
    BY <1>1, <1>10, <2>1 DEF IInv, Types
  <2>3. Types'
    BY <1>1, <1>2, <1>3, <2>1, <2>2 DEF IInv, Types
  <2>4. \A g, h \in File : /\ file[g] # None => /\ file[g] # tmp[h]
                                                /\ g # h => file[g] # file[h]
                           /\ tmp[g] # None /\ g # h => tmp[g] # tmp[h]
    BY DEF IInv, NamesOK
  <2>5. NamesOK'
    <3>1. \A g, h \in File : file'[g] # None => /\ file'[g] # tmp'[h]
                                                /\ g # h => file'[g] # file'[h]
      BY <1>1, <1>10, <2>2, <2>4
    <3>2. \A g, h \in File : tmp'[g] # None /\ g # h => tmp'[g] # tmp'[h]
      BY <2>2, <2>4
    <3>3. ASSUME NEW q \in Process, NEW g \in File,
                 run'[q].inode # None, run'[q].inode \in {file'[g], tmp'[g]}
          PROVE  run'[q].file = g
      <4>1. q # p /\ run'[q] = run[q]
        BY <1>3, <3>3
      <4>2. run[q].inode \in {file[g], tmp[g]}
        BY <2>2, <3>3, <4>1
      <4>. QED  BY <3>3, <4>1, <4>2 DEF IInv, NamesOK
    <3>. QED  BY <3>1, <3>2, <3>3 DEF NamesOK
  <2>6. \A x \in Inode : x # file[f] /\ Whole(x) => Whole(x)'
    BY <1>1, <1>3, <2>2 DEF Whole
  <2>7. file[f] # tmp[f]
    BY <1>1, <1>10, <2>4
  <2>8. Apart(p) => tmp[f] = run[p].inode /\ bytes[tmp[f]] = run[p].bundle
    BY <1>1 DEF IInv, TmpOK
  <2>9. WholeOK'
    <3>. DEFINE Becomes(x) == \/ bytes'[x] \in Bundle
                              \/ \E q \in Process : run'[q].phase = "write" /\ run'[q].inode = x
    <3>1. ASSUME NEW g \in File, faults = 0 \/ overlaps = 0, file'[g] # None
          PROVE  Becomes(file'[g])
      <4>1. CASE g # f
        <5>1. file[g] \in Inode /\ file[g] # file[f] /\ Whole(file[g]) /\ file'[g] = file[g]
          BY <1>1, <2>2, <2>4, <3>1, <4>1 DEF IInv, WholeOK
        <5>2. Becomes(file[g])
          <6>1. CASE bytes[file[g]] \in Bundle
            BY <2>2, <5>1, <6>1, <2>1 DEF Whole
          <6>2. CASE \E q \in Process : run[q].phase = "write" /\ run[q].inode = file[g]
            <7>1. PICK q \in Process : run[q].phase = "write" /\ run[q].inode = file[g]
              BY <6>2
            <7>2. q # p
              BY <1>1, <7>1
            <7>3. run'[q].phase = "write" /\ run'[q].inode = file'[g]
              BY <1>3, <5>1, <7>1, <7>2
            <7>. QED  BY <5>1, <7>3 DEF Whole
          <6>. QED  BY <5>1, <6>1, <6>2 DEF Whole
        <5>. QED  BY <5>1, <5>2
      <4>2. CASE g = f
        <5>1. bytes'[tmp[f]] = bytes[tmp[f]] /\ file'[g] = tmp[f]
          BY <2>2, <2>7, <4>2
        <5>2. CASE overlaps = 0
          BY <1>1, <2>8, <5>1, <5>2 DEF Whole, Apart
        <5>3. CASE faults = 0
          <6>1. Whole(tmp[f])
            BY <1>1, <1>10, <5>3 DEF IInv, WholeOK
          <6>2. bytes[tmp[f]] \in Bundle
                \/ \E q \in Process : run'[q].phase = "write" /\ run'[q].inode = tmp[f]
            BY <1>1, <1>3, <6>1 DEF Whole
          <6>. QED  BY <5>1, <6>2 DEF Whole
        <5>. QED  BY <3>1, <5>2, <5>3
      <4>. QED  BY <4>1, <4>2
    <3>2. ASSUME NEW g \in File, faults = 0, tmp'[g] # None
          PROVE  Becomes(tmp'[g])
      <4>1. /\ g # f /\ tmp'[g] = tmp[g] /\ tmp[g] \in Inode /\ tmp[g] # file[f]
            /\ Whole(tmp[g])
        BY <1>1, <2>2, <2>4, <3>2 DEF IInv, WholeOK
      <4>2. bytes[tmp[g]] \in Bundle
            \/ \E q \in Process : run'[q].phase = "write" /\ run'[q].inode = tmp[g]
        BY <1>1, <1>3, <4>1 DEF Whole
      <4>. QED  BY <2>2, <4>1, <4>2 DEF Whole
    <3>. QED  BY <1>2, <3>1, <3>2 DEF WholeOK, Whole
  <2>10. KeptOK'
    <3>. SUFFICES ASSUME NEW r \in registered' \ overlapped PROVE Kept(r)'
      BY <1>2 DEF KeptOK
    <3>1. CASE r \in registered
      <4>1. Kept(r)
        BY <3>1 DEF IInv, KeptOK
      <4>2. \A q \in Process : Running(q)' /\ run'[q].file = "bundle"
                                 => r \in run'[q].bundle.repos
        BY <1>3, <4>1 DEF Kept
      <4>3. CASE f = "bundle"
        <5>1. /\ file'["bundle"] = tmp["bundle"] /\ tmp["bundle"] # None
              /\ tmp'["bundle"] = None /\ bytes'[tmp["bundle"]] = bytes[tmp["bundle"]]
          BY <1>10, <2>2, <2>7, <4>3
        <5>. QED  BY <4>1, <4>2, <5>1 DEF Kept
      <4>4. CASE f # "bundle"
        <5>1. /\ file'["bundle"] = file["bundle"] /\ tmp'["bundle"] = tmp["bundle"]
              /\ file["bundle"] # None /\ file["bundle"] # file[f]
              /\ tmp["bundle"] # None => tmp["bundle"] # file[f]
          BY <1>1, <1>8, <2>2, <2>4, <4>1, <4>4 DEF Kept
        <5>2. /\ bytes'[file["bundle"]] = bytes[file["bundle"]]
              /\ tmp["bundle"] # None => bytes'[tmp["bundle"]] = bytes[tmp["bundle"]]
          BY <1>8, <2>2, <5>1
        <5>. QED  BY <4>1, <4>2, <5>1, <5>2 DEF Kept
      <4>. QED  BY <4>3, <4>4
    <3>2. CASE r \notin registered
      <4>1. r = run[p].repo /\ r # None /\ Apart(p)
        BY <2>1, <3>2 DEF Apart
      <4>2. f = "bundle" /\ r \in run[p].bundle.repos
        BY <1>1, <4>1 DEF JobOK
      <4>3. /\ file'["bundle"] = tmp["bundle"] /\ tmp["bundle"] # None
            /\ tmp'["bundle"] = None /\ bytes'[tmp["bundle"]] = run[p].bundle
        BY <1>10, <2>2, <2>7, <2>8, <4>1, <4>2
      <4>4. \A q \in Process : ~Running(q)'
        BY <1>1, <1>3, <3>2, <4>1 DEF IInv, ApartOK
      <4>. QED  BY <4>2, <4>3, <4>4 DEF Kept
    <3>. QED  BY <3>1, <3>2
  <2>11. PublishedRegistered'
    BY <1>2, <1>3, <2>1, BundleAssumption DEF IInv, PublishedRegistered, Types
  <2>. QED  BY <1>3, <1>5, <1>7, <2>3, <2>5, <2>9, <2>10, <2>11 DEF IInv
<1>. QED  BY <1>9, <1>10

\* A process stops short: what it had written may be torn, its repo is on record.
LEMMA StopsShort ==
    ASSUME IInv, NEW p \in Process, Running(p), run' = [run EXCEPT ![p] = Idle],
           faults < MaxFaults, faults' = faults + 1,
           UNCHANGED <<file, tmp, registered, overlapped, overlaps>>,
           bytes' = bytes \/ (run[p].phase = "write"
                                /\ bytes' = [bytes EXCEPT ![run[p].inode] = Torn]),
           published' \in {published, published \cup ({run[p].repo} \ {None})},
           interrupted' = interrupted \cup ({run[p].repo} \ {None})
    PROVE  IInv'
<1>1. /\ run' \in [Process -> Job] /\ JobsOK' /\ ApartOK' /\ run'[p] = Idle
      /\ \A q \in Process : q # p => run'[q] = run[q]
      /\ \A q \in Process : Running(q)' => q # p /\ Running(q)
      /\ \A q \in Process : q # p => (Apart(q)' <=> Apart(q))
      /\ \A q \in Process : run'[q].inode # None => q # p
      /\ \A q \in Process : run'[q].phase \in {"write", "rename"} => q # p
  BY Ends
<1>2. /\ JobOK(run[p]) /\ run[p].repo \in Repo \cup {None} /\ run[p].file \in File
      /\ run[p].inode \in Inode \cup {None}
  BY JobFields DEF IInv, JobsOK
<1>3. \A x \in Inode : \/ bytes'[x] = bytes[x]
                       \/ bytes'[x] = Torn /\ x = run[p].inode /\ run[p].phase = "write"
  BY DEF IInv, Types
<1>4. bytes' \in [Inode -> Bundle \cup {Empty, Torn}]
  BY DEF IInv, Types
<1>5. Types'
  BY <1>1, <1>2, <1>4, BundleAssumption DEF IInv, Types
<1>6. NamesOK'
  BY <1>1 DEF IInv, NamesOK
<1>7. ASSUME NEW q \in Process, run'[q].phase \in {"write", "rename"} PROVE ~Apart(q)'
  <2>1. q # p /\ run[q].phase # "idle"
    BY <1>1, <1>7
  <2>2. Running(q)
    BY <2>1, Working
  <2>3. ~Apart(q)
    BY <2>1, <2>2, ApartAlone
  <2>. QED  BY <1>1, <2>1, <2>3
<1>8. TmpOK'
  BY <1>7 DEF TmpOK
<1>9. WholeOK'
  <2>. SUFFICES ASSUME NEW g \in File, overlaps = 0, file[g] # None
                PROVE  bytes'[file[g]] \in Bundle
    BY <1>5 DEF WholeOK, Whole, IInv, Types
  <2>1. bytes[file[g]] \in Bundle /\ file[g] \in Inode
    BY AloneWhole DEF IInv, Types
  <2>2. run[p].phase = "write" => tmp[run[p].file] = run[p].inode
    BY DEF IInv, TmpOK, Apart
  <2>3. run[p].phase = "write" => file[g] # run[p].inode
    BY <1>2, <2>2 DEF IInv, NamesOK
  <2>. QED  BY <1>3, <2>1, <2>3
<1>10. GrowsOK'
  BY <1>1 DEF IInv, GrowsOK, ApartOK, Types
<1>11. KeptOK'
  <2>. SUFFICES ASSUME NEW r \in registered \ overlapped PROVE Kept(r)'
    BY DEF KeptOK
  <2>1. Kept(r) /\ "bundle" \in File
    BY DEF IInv, KeptOK, File
  <2>2. \A x \in Inode : bytes'[x] \in Bundle => bytes'[x] = bytes[x]
    BY <1>3, BundleAssumption
  <2>3. file \in [File -> Inode \cup {None}] /\ tmp \in [File -> Inode \cup {None}]
    BY DEF IInv, Types
  <2>. QED  BY <1>1, <2>1, <2>2, <2>3 DEF Kept
<1>12. PublishedRegistered'
  <2>. SUFFICES ASSUME NEW r \in published',
                       r \notin registered \cup interrupted' \cup overlapped
                PROVE  \E q \in Process : run'[q].repo = r
    BY DEF PublishedRegistered
  <2>1. r \in published /\ r # run[p].repo
    BY <1>2, BundleAssumption DEF IInv, Types
  <2>2. PICK q \in Process : run[q].repo = r
    BY <2>1 DEF IInv, PublishedRegistered
  <2>. QED  BY <1>1, <2>1, <2>2
<1>. QED  BY <1>1, <1>5, <1>6, <1>8, <1>9, <1>10, <1>11, <1>12 DEF IInv

\* A PUT that failed is the end of its `create`.
LEMMA PublishFailsStep ==
    ASSUME IInv, NEW p \in Process, PublishFails(p)
    PROVE  IInv'
<1>1. Running(p) /\ JobOK(run[p]) /\ run[p].repo # None
  BY Working DEF PublishFails, JobOK
<1>2. {run[p].repo} \ {None} = {run[p].repo}
  BY <1>1
<1>. QED  BY <1>1, <1>2, StopsShort DEF PublishFails, disk, races

\* A crash may come at any point of a command.
LEMMA CrashStep ==
    ASSUME IInv, NEW p \in Process, Crash(p)
    PROVE  IInv'
<1>1. Running(p)
  BY DEF Crash, Running
<1>. QED  BY <1>1, StopsShort DEF Crash, races

-------------------------------------------------------------------------------
(***************************************************************************)
(* Invariance.                                                             *)
(***************************************************************************)
\* A machine without a bundle, or with one.
LEMMA InitIInv == Init => IInv
<1>. SUFFICES ASSUME Init PROVE IInv
  OBVIOUS
<1>1. PICK bundle \in Bundle, i \in Inode, present \in SUBSET File :
        /\ Cardinality(present) <= 1
        /\ file = [f \in File |-> IF f \in present THEN i ELSE None]
        /\ bytes = [j \in Inode |-> IF j = i /\ present # {} THEN bundle ELSE Empty]
  BY DEF Init
<1>2. \A f, g \in File : f \in present /\ g \in present => f = g
  <2>. SUFFICES ASSUME present = {"bundle", "copy"} PROVE FALSE
    BY DEF File
  <2>1. IsFiniteSet({"bundle"}) /\ Cardinality({"bundle"}) = 1
    BY FS_Singleton
  <2>2. Cardinality({"bundle"} \cup {"copy"}) = 2
    BY <2>1, FS_AddElement
  <2>3. {"bundle", "copy"} = {"bundle"} \cup {"copy"}
    OBVIOUS
  <2>. QED  BY <1>1, <2>2, <2>3
<1>3. /\ tmp = [f \in File |-> None] /\ run = [p \in Process |-> Idle]
      /\ published = {} /\ registered = {} /\ interrupted = {}
      /\ overlapped = {} /\ overlaps = 0 /\ faults = 0
  BY DEF Init
<1>4. \A p \in Process : run[p] = Idle /\ ~Running(p)
  BY <1>3 DEF Running
<1>5. Types
  BY <1>1, <1>3, IdleFacts, BundleAssumption DEF Types
<1>6. JobsOK /\ ApartOK /\ TmpOK /\ GrowsOK
  BY <1>4, IdleFacts DEF JobsOK, ApartOK, TmpOK, GrowsOK
<1>7. NamesOK
  BY <1>1, <1>2, <1>3, <1>4, IdleFacts DEF NamesOK
<1>8. WholeOK
  BY <1>1, <1>3 DEF WholeOK, Whole
<1>9. KeptOK /\ PublishedRegistered
  BY <1>3 DEF KeptOK, PublishedRegistered
<1>. QED  BY <1>5, <1>6, <1>7, <1>8, <1>9 DEF IInv

\* Every step of every command keeps the invariant.
LEMMA NextIInv == IInv /\ [Next]_vars => IInv'
<1>. SUFFICES ASSUME IInv, [Next]_vars PROVE IInv'
  OBVIOUS
<1>1. ASSUME NEW p \in Process, InitIdentity(p) PROVE IInv'
  BY <1>1, InitIdentityStep
<1>2. ASSUME NEW p \in Process, ExportIdentity(p) \/ ImportIdentity(p) PROVE IInv'
  BY <1>2, ResealKeeps DEF ExportIdentity, ImportIdentity, File
<1>3. ASSUME NEW p \in Process, CreateRepo(p) PROVE IInv'
  BY <1>3, CreateRepoStep
<1>4. ASSUME NEW p \in Process, Publish(p) \/ PublishFails(p) PROVE IInv'
  BY <1>4, PublishStep, PublishFailsStep
<1>5. ASSUME NEW p \in Process, OpenTmp(p) \/ WriteTmp(p) \/ Rename(p) PROVE IInv'
  BY <1>5, OpenTmpStep, WriteTmpStep, RenameStep
<1>6. ASSUME NEW p \in Process, Crash(p) PROVE IInv'
  BY <1>6, CrashStep
<1>7. CASE UNCHANGED vars
  <2>1. UNCHANGED <<file, tmp, bytes, run, published, registered, interrupted,
                    overlapped, overlaps, faults>>
    BY <1>7 DEF vars, disk, races
  <2>2. Types' /\ JobsOK' /\ NamesOK' /\ ApartOK' /\ TmpOK'
    BY <2>1 DEF IInv, Types, JobsOK, NamesOK, ApartOK, TmpOK, Apart, Running
  <2>3. WholeOK' /\ GrowsOK' /\ KeptOK' /\ PublishedRegistered'
    BY <2>1 DEF IInv, WholeOK, Whole, GrowsOK, KeptOK, Kept, PublishedRegistered, Running
  <2>. QED  BY <2>2, <2>3 DEF IInv
<1>. QED  BY <1>1, <1>2, <1>3, <1>4, <1>5, <1>6, <1>7 DEF Next

\* The invariant holds of every behaviour.
LEMMA Invariance == Spec => []IInv
BY InitIInv, NextIInv, PTL DEF Spec

\* Type correctness, for any processes, identities, repos and passphrases.
THEOREM IdentityTypeOK == Spec => []TypeOK
<1>1. IInv => TypeOK
  <2>. SUFFICES ASSUME IInv, NEW p \in Process, run[p] # Idle
                PROVE  /\ run[p].op \in {"init", "create", "export", "import"}
                       /\ run[p].bundle \in Bundle /\ run[p].file \in File
                       /\ run[p].phase \in {"write", "rename"} => run[p].inode \in Inode
                       /\ run[p].op = "create" => run[p].repo \in run[p].bundle.repos
    BY DEF IInv, Types, TypeOK
  <2>1. run[p] \in Job /\ JobOK(run[p])
    BY JobFields DEF IInv, JobsOK, Running
  <2>. QED  BY <2>1 DEF Job, JobOK
<1>. QED  BY <1>1, Invariance, PTL

\* A bundle's name always stands for a whole bundle, however often processes crash,
\* and also when any number of them share the temporary name, unless they do both
\* (write_atomic).
THEOREM AlwaysIntact == Spec => []BundleIntact
<1>1. IInv => BundleIntact
  <2>. SUFFICES ASSUME IInv, NEW f \in File, file[f] # None,
                       ~(Shared /\ (faults > 0 \/ \E p \in Process : run[p] # Idle))
                PROVE  bytes[file[f]] \in Bundle
    BY DEF BundleIntact, Holds
  <2>1. CASE overlaps = 0
    BY <2>1, AloneWhole
  <2>2. CASE overlaps # 0
    <3>1. faults = 0 /\ \A p \in Process : run[p] = Idle
      BY <2>2 DEF Shared, IInv, Types
    <3>2. Whole(file[f])
      BY <3>1 DEF IInv, WholeOK
    <3>. QED  BY <3>1, <3>2, IdleFacts DEF Whole
  <2>. QED  BY <2>1, <2>2
<1>. QED  BY <1>1, Invariance, PTL

\* Commands that run one after another, through any crashes, only ever add repos to
\* the bundle (register_in_bundle).
THEOREM AlwaysGrows == Spec => BundleGrows
<1>1. IInv /\ [Next]_vars =>
        [LET old == Holds("bundle")
             new == Holds("bundle")'
         IN  old # None => \/ Shared
                           \/ /\ new.id = old.id /\ new.seal = old.seal
                              /\ old.repos \subseteq new.repos]_vars
  <2>. SUFFICES ASSUME IInv, [Next]_vars, Holds("bundle") # None, ~Shared
                PROVE  /\ Holds("bundle")'.id = Holds("bundle").id
                       /\ Holds("bundle")'.seal = Holds("bundle").seal
                       /\ Holds("bundle").repos \subseteq Holds("bundle")'.repos
    OBVIOUS
  <2>1. /\ overlaps = 0 /\ "bundle" \in File /\ file["bundle"] # None
        /\ Holds("bundle") = bytes[file["bundle"]] /\ bytes[file["bundle"]] \in Bundle
        /\ file["bundle"] \in Inode
    BY AloneWhole DEF Shared, Holds, File, IInv, Types
  <2>2. CASE UNCHANGED <<file, bytes>>
    BY <2>1, <2>2 DEF Holds
  <2>3. ASSUME NEW p \in Process, OpenTmp(p), ~UNCHANGED <<file, bytes>> PROVE Holds("bundle")' = Holds("bundle")
    <3>. DEFINE f == run[p].file
    <3>1. f \in File
      BY JobFields DEF IInv
    <3>2. PICK i \in Inode : /\ i = tmp[f] \/ (tmp[f] = None /\ ~InUse(i))
                             /\ bytes' = [bytes EXCEPT ![i] = Empty] /\ file' = file
      <4>1. CASE tmp[f] # None
        <5>1. tmp[f] \in Inode
          BY <3>1, <4>1 DEF IInv, Types
        <5>. QED  BY <2>3, <4>1, <5>1 DEF OpenTmp
      <4>2. CASE tmp[f] = None
        <5>1. \E j \in Inode : ~InUse(j)
          BY <2>3, <4>2 DEF OpenTmp
        <5>2. (CHOOSE j \in Inode : ~InUse(j)) \in Inode /\ ~InUse(CHOOSE j \in Inode : ~InUse(j))
          BY <5>1
        <5>. QED  BY <2>3, <4>2, <5>2 DEF OpenTmp
      <4>. QED  BY <4>1, <4>2
    <3>3. i # file["bundle"]
      BY <2>1, <3>1, <3>2 DEF IInv, NamesOK, InUse
    <3>. QED  BY <2>1, <3>2, <3>3 DEF Holds, IInv, Types
  <2>4. ASSUME NEW p \in Process, run[p].phase = "write", file' = file,
               NEW x, bytes' = [bytes EXCEPT ![run[p].inode] = x]
        PROVE  Holds("bundle")' = Holds("bundle")
    <3>1. tmp[run[p].file] = run[p].inode /\ run[p].file \in File
      BY <2>1, <2>4, JobFields DEF IInv, TmpOK, Apart
    <3>2. run[p].inode # file["bundle"]
      BY <2>1, <3>1 DEF IInv, NamesOK
    <3>. QED  BY <2>1, <2>4, <3>2 DEF Holds, IInv, Types
  <2>5. ASSUME NEW p \in Process, Rename(p), tmp[run[p].file] # None
        PROVE  \/ Holds("bundle")' = Holds("bundle")
               \/ Holds("bundle")' = run[p].bundle /\ Extends(run[p].bundle, Holds("bundle"))
    <3>. DEFINE f == run[p].file
    <3>1. /\ run[p].phase = "rename" /\ f \in File /\ Running(p)
          /\ file' = [file EXCEPT ![f] = tmp[f]]
          /\ bytes' = [i \in Inode |-> IF i = file[f] THEN Empty ELSE bytes[i]]
          /\ tmp[f] \in Inode
      BY <2>5, Working, JobFields DEF Rename, IInv, Types
    <3>2. tmp[f] = run[p].inode /\ bytes[tmp[f]] = run[p].bundle
      BY <2>1, <3>1 DEF IInv, TmpOK, Apart
    <3>3. CASE f = "bundle"
      <4>1. tmp[f] # file[f] /\ file \in [File -> Inode \cup {None}]
        BY <2>1, <3>1, <3>3 DEF IInv, NamesOK, Types
      <4>2. Holds("bundle")' = run[p].bundle
        BY <2>5, <3>1, <3>2, <3>3, <4>1 DEF Holds
      <4>. QED  BY <2>1, <3>1, <3>3, <4>2 DEF IInv, GrowsOK
    <3>4. CASE f # "bundle"
      <4>1. file["bundle"] # file[f] /\ file \in [File -> Inode \cup {None}]
        BY <2>1, <3>1, <3>4 DEF IInv, NamesOK, Types
      <4>. QED  BY <2>1, <3>1, <3>4, <4>1 DEF Holds
    <3>. QED  BY <3>3, <3>4
  <2>6. \/ UNCHANGED <<file, bytes>>
        \/ \E p \in Process : OpenTmp(p)
        \/ \E p \in Process : \E x : /\ run[p].phase = "write" /\ file' = file
                                     /\ bytes' = [bytes EXCEPT ![run[p].inode] = x]
        \/ \E p \in Process : Rename(p) /\ tmp[run[p].file] # None
    BY DEF Next, vars, disk, InitIdentity, ExportIdentity, ImportIdentity, Reseal, CreateRepo,
           Begin, Publish, PublishFails, WriteTmp, Rename, Crash
  <2>. QED  BY <2>1, <2>2, <2>3, <2>4, <2>5, <2>6 DEF Extends
<1>. QED  BY <1>1, Invariance, PTL DEF Spec, BundleGrows

\* No race and no crash ever costs a repo its key that was registered before, for
\* any number of processes at the same time.
THEOREM AlwaysPushable == Spec => []RegisteredPushable
<1>1. IInv => RegisteredPushable
  <2>. SUFFICES ASSUME IInv, \A p \in Process : run[p] = Idle, Shared => faults = 0
                PROVE  \E env \in Environment : registered \ overlapped \subseteq PushableWith(env)
    BY DEF RegisteredPushable
  <2>1. CASE registered \ overlapped = {}
    BY <2>1, BundleAssumption DEF Environment
  <2>2. CASE registered \ overlapped # {}
    <3>1. file["bundle"] # None /\ "bundle" \in File
      BY <2>2 DEF IInv, KeptOK, Kept, File
    <3>2. faults = 0 \/ overlaps = 0
      BY DEF Shared, IInv, Types
    <3>3. bytes[file["bundle"]] \in Bundle
      BY <3>1, <3>2, IdleFacts DEF IInv, WholeOK, Whole
    <3>4. \A r \in registered \ overlapped : r \in bytes[file["bundle"]].repos
      BY <3>3 DEF IInv, KeptOK, Kept
    <3>. DEFINE env == bytes[file["bundle"]].seal
    <3>5. env \in Environment
      BY <3>3 DEF Bundle, Environment
    <3>6. PushableWith(env) = bytes[file["bundle"]].repos
      BY <3>1, <3>3 DEF PushableWith, Holds
    <3>. QED  BY <3>4, <3>5, <3>6
  <2>. QED  BY <2>1, <2>2
<1>. QED  BY <1>1, Invariance, PTL

\* What a crash leaves behind costs no later `create` its key.
THEOREM AlwaysRegistered == Spec => []PublishedRegistered
<1>1. IInv => PublishedRegistered
  BY DEF IInv
<1>. QED  BY <1>1, Invariance, PTL
===============================================================================
