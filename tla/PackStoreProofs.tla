---------------------------- MODULE PackStoreProofs ---------------------------
(***************************************************************************)
(* What holds of PackStore for any packs, clients, caches, pool sizes and  *)
(* numbers of faults and evictions: its types, that a listed bundle was    *)
(* stored before it was listed, and that a fetch returns what was          *)
(* published.                                                              *)
(***************************************************************************)
EXTENDS PackStore, TLAPS

-------------------------------------------------------------------------------
(***************************************************************************)
(* Packs and jobs.                                                         *)
(***************************************************************************)

\* A pack is a sequence of blocks with at least one block.
LEMMA PackFacts ==
    ASSUME NEW p \in Pack
    PROVE  /\ p \in Seq(Block) /\ Len(p) \in Nat \ {0}
           /\ DOMAIN p = 1 .. Len(p) /\ 1 \in DOMAIN p
           /\ p \in [DOMAIN p -> Block]
           /\ \A i \in DOMAIN p : p[i] \in Content
           /\ Root(p) \in Content
           /\ Short(p) => DOMAIN p = {1}
<1>1. p \in Seq(Block) /\ p # <<>>
  BY PackAssumption
<1>2. Len(p) \in Nat /\ DOMAIN p = 1 .. Len(p) /\ p \in [DOMAIN p -> Block]
  BY <1>1
<1>3. Len(p) # 0
  BY <1>1
<1> QED BY <1>1, <1>2, <1>3 DEF Content, Root, Short

\* The fields of a job, one by one.
LEMMA JobFields ==
    ASSUME NEW j \in Job
    PROVE  /\ j = [op |-> j.op, pack |-> j.pack, phase |-> j.phase,
                   todo |-> j.todo, got |-> j.got]
           /\ j.op \in Op /\ j.pack \in Pack /\ j.phase \in Phase
           /\ j.todo \subseteq DOMAIN j.pack
           /\ j.got \in [DOMAIN j.pack -> Content \cup {None}]
<1>1. PICK p \in Pack :
        j \in [op : Op, pack : {p}, phase : Phase, todo : SUBSET (DOMAIN p),
               got : [DOMAIN p -> Content \cup {None}]]
  BY DEF Job
<1> QED BY <1>1

\* A record with fields of the right types is a job.
LEMMA JobMade ==
    ASSUME NEW op \in Op, NEW p \in Pack, NEW ph \in Phase,
           NEW todo \in SUBSET (DOMAIN p),
           NEW got \in [DOMAIN p -> Content \cup {None}]
    PROVE  [op |-> op, pack |-> p, phase |-> ph, todo |-> todo, got |-> got] \in Job
<1>1. [op |-> op, pack |-> p, phase |-> ph, todo |-> todo, got |-> got]
        \in [op : Op, pack : {p}, phase : Phase, todo : SUBSET (DOMAIN p),
             got : [DOMAIN p -> Content \cup {None}]]
  OBVIOUS
<1> QED BY <1>1 DEF Job

\* Moving a job to another phase keeps it a job and changes nothing else.
LEMMA PhaseChanged ==
    ASSUME NEW j \in Job, NEW ph \in Phase
    PROVE  LET d == [j EXCEPT !.phase = ph]
           IN  /\ d \in Job
               /\ d.op = j.op /\ d.pack = j.pack /\ d.phase = ph
               /\ d.todo = j.todo /\ d.got = j.got
<1> DEFINE d == [j EXCEPT !.phase = ph]
<1>1. d = [op |-> j.op, pack |-> j.pack, phase |-> ph, todo |-> j.todo, got |-> j.got]
  BY JobFields
<1>2. [op |-> j.op, pack |-> j.pack, phase |-> ph, todo |-> j.todo, got |-> j.got] \in Job
  BY JobFields, JobMade
<1> HIDE DEF d
<1>3. /\ d \in Job
      /\ d.op = j.op /\ d.pack = j.pack /\ d.phase = ph
      /\ d.todo = j.todo /\ d.got = j.got
  BY <1>1, <1>2
<1> QED BY <1>3 DEF d

\* Filling a slot with the bytes of a content keeps a job a job.
LEMMA SlotFilled ==
    ASSUME NEW j \in Job, NEW i \in DOMAIN j.pack, NEW bytes \in Content
    PROVE  LET f == [j EXCEPT !.got[i] = bytes]
           IN  /\ f \in Job
               /\ f.op = j.op /\ f.pack = j.pack /\ f.phase = j.phase /\ f.todo = j.todo
               /\ f.got = [j.got EXCEPT ![i] = bytes]
<1> DEFINE f == [j EXCEPT !.got[i] = bytes]
<1>1. f = [op |-> j.op, pack |-> j.pack, phase |-> j.phase, todo |-> j.todo,
           got |-> [j.got EXCEPT ![i] = bytes]]
  BY JobFields
<1>2. [j.got EXCEPT ![i] = bytes] \in [DOMAIN j.pack -> Content \cup {None}]
  BY JobFields
<1>3. f \in Job
  <2> HIDE DEF f
  <2> QED BY <1>1, <1>2, JobFields, JobMade
<1> QED BY <1>1, <1>3

\* Finishing a chunk keeps a job a job, and takes the chunk off the list or
\* goes on to the next phase.
LEMMA ChunkFinished ==
    ASSUME NEW j \in Job, NEW i \in j.todo, NEW next \in Phase
    PROVE  LET d == ChunkDone(j, i, next)
           IN  /\ d \in Job
               /\ d.op = j.op /\ d.pack = j.pack /\ d.got = j.got
               /\ \/ j.todo = {i} /\ d.phase = next
                  \/ d.phase = j.phase /\ d.todo = j.todo \ {i}
<1>1. \A ph \in Phase, todo \in SUBSET (DOMAIN j.pack) : Moved(j, ph, todo) \in Job
  BY JobFields, JobMade DEF Moved
<1>2. j.phase \in Phase /\ j.todo \ {i} \in SUBSET (DOMAIN j.pack)
  BY JobFields
<1> QED BY <1>1, <1>2 DEF ChunkDone, Moved

\* A new job is a job.
LEMMA JobStarted ==
    ASSUME NEW op \in Op, NEW p \in Pack
    PROVE  NewJob(op, p) \in Job
<1>1. [i \in DOMAIN p |-> None] \in [DOMAIN p -> Content \cup {None}]
  OBVIOUS
<1> DEFINE ph   == IF op # "publish" THEN "get root"
                   ELSE IF Short(p) THEN "put root" ELSE "put"
           todo == IF Short(p) THEN {} ELSE DOMAIN p
<1>2. ph \in Phase /\ todo \in SUBSET (DOMAIN p)
  BY DEF Phase
<1>3. NewJob(op, p) =
        [op |-> op, pack |-> p, phase |-> ph, todo |-> todo, got |-> [i \in DOMAIN p |-> None]]
  BY DEF NewJob
<1> HIDE DEF ph, todo
<1> QED BY <1>1, <1>2, <1>3, JobMade

\* A chunk that has its connection is one of the chunks to do.
LEMMA RunningToDo == \A todo : Running(todo) \subseteq todo
BY DEF Running, Started

\* What becomes of a job when a chunk that has its connection is finished.
LEMMA ChunkMoves ==
    ASSUME NEW j \in Job, NEW i \in Running(j.todo), NEW next \in Phase
    PROVE  /\ i \in DOMAIN j.pack
           /\ ChunkDone(j, i, next) \in Job
           /\ ChunkDone(j, i, next).op = j.op
           /\ ChunkDone(j, i, next).pack = j.pack
           /\ ChunkDone(j, i, next).got = j.got
           /\ \/ j.todo = {i} /\ ChunkDone(j, i, next).phase = next
              \/ /\ ChunkDone(j, i, next).phase = j.phase
                 /\ ChunkDone(j, i, next).todo = j.todo \ {i}
<1>1. i \in j.todo
  BY RunningToDo
<1>2. i \in DOMAIN j.pack
  BY <1>1, JobFields
<1> QED BY <1>1, <1>2, ChunkFinished

\* A miss keeps the type of the cache.
LEMMA MissFacts ==
    ASSUME TypeOK, NEW c \in Client, NEW x, cache' \in CacheMisses(c, x)
    PROVE  cache' \in [Client -> [Content -> Content \cup {None, Garbage}]]
BY DEF CacheMisses, TypeOK

\* What a GET brings is what was asked for, and the cache keeps its type.
LEMMA GetFacts ==
    ASSUME TypeOK, NEW c \in Client, NEW x \in Content, NEW bytes, Get(c, x, bytes)
    PROVE  bytes = x /\ cache' \in [Client -> [Content -> Content \cup {None, Garbage}]]
<1>1. ReadCache(c, x) \in {x, None}
  BY DEF ReadCache
<1> QED BY <1>1, MissFacts DEF Get, CacheWrites, TypeOK

\* A PUT stores a content and forgets none.
LEMMA PutFacts ==
    ASSUME TypeOK, NEW c \in Client, NEW x \in Content, Put(c, x)
    PROVE  /\ held' \subseteq Content /\ held \subseteq held' /\ x \in held'
           /\ cache' \in [Client -> [Content -> Content \cup {None, Garbage}]]
BY DEF Put, CacheWrites, TypeOK

-------------------------------------------------------------------------------
(***************************************************************************)
(* The inductive invariant.  A publish job that has got as far as its      *)
(* phase and its list of chunks say has stored what it passed, and a fetch *)
(* job has the right bytes in every slot of a chunk it passed.             *)
(***************************************************************************)
Published(j, h) ==
    j.op = "publish" =>
      /\ j.phase = "put" => \A i \in DOMAIN j.pack \ j.todo : j.pack[i] \in h
      /\ j.phase \in {"verify", "put root", "verify root", "submit"} /\ ~Short(j.pack)
           => \A i \in DOMAIN j.pack : j.pack[i] \in h
      /\ j.phase \in {"verify root", "submit"} => Root(j.pack) \in h

Filled(j) ==
    j.op = "fetch" =>
      /\ j.phase = "get root" /\ ~Short(j.pack) => j.todo = DOMAIN j.pack
      /\ j.phase = "chunks" => \A i \in DOMAIN j.pack \ j.todo : j.got[i] = j.pack[i]
      /\ j.phase = "done" => j.got = j.pack

JobsOk ==
    \A c \in Client : job[c] # None =>
        (evictions = 0 => Published(job[c], held)) /\ Filled(job[c])

IInv == TypeOK /\ JobsOk /\ IndexRetrievable

\* What was stored stays stored.
LEMMA PublishedGrows ==
    ASSUME NEW j, NEW h, NEW g, h \subseteq g, Published(j, h)
    PROVE  Published(j, g)
BY DEF Published

\* An action that only moves client c's job and stores contents keeps the
\* invariant if the job it leaves behind is right.
LEMMA JobMoves ==
    ASSUME IInv, NEW c \in Client, NEW j \in Job \cup {None},
           job' = [job EXCEPT ![c] = j],
           held' \subseteq Content, held \subseteq held',
           cache' \in [Client -> [Content -> Content \cup {None, Garbage}]],
           UNCHANGED <<index, evictions>>,
           faults' \in 0 .. MaxFaults,
           j # None => (evictions = 0 => Published(j, held')) /\ Filled(j)
    PROVE  IInv'
<1>1. TypeOK'
  BY DEF IInv, TypeOK
<1>2. JobsOk'
  <2> SUFFICES ASSUME NEW d \in Client, job'[d] # None
               PROVE  (evictions' = 0 => Published(job'[d], held')) /\ Filled(job'[d])
    BY DEF JobsOk
  <2>1. CASE d = c
    BY <2>1 DEF IInv, TypeOK
  <2>2. CASE d # c
    <3>1. job'[d] = job[d]
      BY <2>2 DEF IInv, TypeOK
    <3> QED BY <3>1, PublishedGrows DEF IInv, JobsOk
  <2> QED BY <2>1, <2>2
<1>3. IndexRetrievable'
  BY DEF IInv, IndexRetrievable, Retrievable
<1> QED BY <1>1, <1>2, <1>3 DEF IInv

-------------------------------------------------------------------------------
(***************************************************************************)
(* One lemma per action that moves a job.                                  *)
(***************************************************************************)

\* A client that is busy has a job, of the kind and in the phase it says.
LEMMA BusyFacts ==
    ASSUME IInv, NEW c \in Client, NEW op, NEW ph, Busy(c, op, ph)
    PROVE  /\ job[c] \in Job /\ job[c].op \in op /\ job[c].phase = ph
           /\ job[c].pack \in Pack
           /\ evictions = 0 => Published(job[c], held)
           /\ Filled(job[c])
           /\ Running(job[c].todo) \subseteq DOMAIN job[c].pack
<1>1. job[c] \in Job /\ job[c] # None
  BY DEF IInv, TypeOK, Busy
<1> QED BY <1>1, JobFields, RunningToDo DEF Busy, IInv, JobsOk

\* A new publish or fetch.
LEMMA StartStep == ASSUME IInv, NEW c \in Client, Start(c) PROVE IInv'
<1>1. PICK op \in {"publish", "fetch"}, p \in Pack : job' = [job EXCEPT ![c] = NewJob(op, p)]
  BY DEF Start, IInv, TypeOK
<1>2. NewJob(op, p) \in Job
  BY JobStarted DEF Op
<1>3. Published(NewJob(op, p), held') /\ Filled(NewJob(op, p))
  BY DEF NewJob, Published, Filled
<1> QED BY <1>1, <1>2, <1>3, JobMoves DEF Start, IInv, TypeOK

\* A new rescue.
LEMMA RescueStep == ASSUME IInv, NEW c \in Client, NEW p \in Pack, StartRescue(c, p) PROVE IInv'
<1>1. NewJob("rescue", p) \in Job
  BY JobStarted DEF Op
<1>2. Published(NewJob("rescue", p), held') /\ Filled(NewJob("rescue", p))
  BY DEF NewJob, Published, Filled
<1> QED BY <1>1, <1>2, JobMoves DEF StartRescue, IInv, TypeOK

\* A chunk is stored; after the last one, all of them are.
LEMMA PutChunkStep == ASSUME IInv, NEW c \in Client, PutChunk(c) PROVE IInv'
<1> DEFINE j == job[c]
<1>1. /\ j \in Job /\ j.op = "publish" /\ j.phase = "put" /\ j.pack \in Pack
      /\ evictions = 0 => Published(j, held)
      /\ Running(j.todo) \subseteq DOMAIN j.pack
  BY BusyFacts DEF PutChunk
<1>2. PICK i \in Running(j.todo) :
        Put(c, j.pack[i]) /\ job' = [job EXCEPT ![c] = ChunkDone(j, i, "verify")]
  BY DEF PutChunk
<1> DEFINE d == ChunkDone(j, i, "verify")
<1>0. "verify" \in Phase
  BY DEF Phase
<1>3. /\ d \in Job /\ d.op = j.op /\ d.pack = j.pack
      /\ \/ j.todo = {i} /\ d.phase = "verify"
         \/ d.phase = j.phase /\ d.todo = j.todo \ {i}
  BY <1>1, <1>2, <1>0, ChunkMoves
<1>4. /\ held' \subseteq Content /\ held \subseteq held' /\ j.pack[i] \in held'
      /\ cache' \in [Client -> [Content -> Content \cup {None, Garbage}]]
  BY <1>1, <1>2, PackFacts, PutFacts DEF IInv
<1>5. evictions = 0 => Published(d, held')
  BY <1>1, <1>3, <1>4 DEF Published
<1>6. Filled(d)
  BY <1>1, <1>3 DEF Filled
<1> HIDE DEF d, j
<1> QED BY <1>2, <1>3, <1>4, <1>5, <1>6, JobMoves DEF PutChunk, IInv, TypeOK, d, j

\* A chunk is verified; nothing is stored.
LEMMA VerifyChunkStep == ASSUME IInv, NEW c \in Client, VerifyChunk(c) PROVE IInv'
<1> DEFINE j == job[c]
<1>1. /\ j \in Job /\ j.op = "publish" /\ j.phase = "verify" /\ j.pack \in Pack
      /\ evictions = 0 => Published(j, held)
      /\ Running(j.todo) \subseteq DOMAIN j.pack
  BY BusyFacts DEF VerifyChunk
<1>2. PICK i \in Running(j.todo), bytes \in Content :
        Get(c, j.pack[i], bytes) /\ job' = [job EXCEPT ![c] = ChunkDone(j, i, "put root")]
  BY DEF VerifyChunk, AfterVerify
<1> DEFINE d == ChunkDone(j, i, "put root")
<1>0. "put root" \in Phase
  BY DEF Phase
<1>3. /\ d \in Job /\ d.op = j.op /\ d.pack = j.pack
      /\ \/ j.todo = {i} /\ d.phase = "put root"
         \/ d.phase = j.phase /\ d.todo = j.todo \ {i}
  BY <1>1, <1>2, <1>0, ChunkMoves
<1>4. cache' \in [Client -> [Content -> Content \cup {None, Garbage}]]
  BY <1>1, <1>2, PackFacts, GetFacts DEF IInv
<1>5. evictions = 0 => Published(d, held)
  BY <1>1, <1>3 DEF Published
<1>6. Filled(d)
  BY <1>1, <1>3 DEF Filled
<1> HIDE DEF d, j
<1> QED BY <1>2, <1>3, <1>4, <1>5, <1>6, JobMoves DEF VerifyChunk, IInv, TypeOK, d, j

\* A job that moves to another phase without storing or filling anything.
LEMMA GotoFacts ==
    ASSUME NEW c \in Client, job[c] \in Job, NEW ph \in Phase, Goto(c, ph)
    PROVE  \E d \in Job :
             /\ job' = [job EXCEPT ![c] = d]
             /\ d.op = job[c].op /\ d.pack = job[c].pack /\ d.phase = ph
             /\ d.todo = job[c].todo /\ d.got = job[c].got
<1> DEFINE d == [job[c] EXCEPT !.phase = ph]
<1>1. job' = [job EXCEPT ![c] = d]
  BY DEF Goto
<1>2. /\ d \in Job
      /\ d.op = job[c].op /\ d.pack = job[c].pack /\ d.phase = ph
      /\ d.todo = job[c].todo /\ d.got = job[c].got
  BY PhaseChanged
<1> HIDE DEF d
<1> QED BY <1>1, <1>2

\* The manifest or the short pack is stored.
LEMMA PutRootStep == ASSUME IInv, NEW c \in Client, PutRoot(c) PROVE IInv'
<1>1. /\ job[c] \in Job /\ job[c].op \in {"publish", "rescue"}
      /\ job[c].phase = "put root" /\ job[c].pack \in Pack
      /\ evictions = 0 => Published(job[c], held)
  BY BusyFacts DEF PutRoot
<1>2. PICK ph \in Phase :
        /\ Goto(c, ph)
        /\ job[c].op = "rescue" => ph = "done"
        /\ job[c].op # "rescue" => ph \in {"submit", "verify root"}
  BY DEF PutRoot, Phase
<1>3. PICK d \in Job :
        /\ job' = [job EXCEPT ![c] = d]
        /\ d.op = job[c].op /\ d.pack = job[c].pack /\ d.phase = ph
        /\ d.todo = job[c].todo /\ d.got = job[c].got
  BY <1>1, <1>2, GotoFacts
<1>4. /\ held' \subseteq Content /\ held \subseteq held' /\ Root(job[c].pack) \in held'
      /\ cache' \in [Client -> [Content -> Content \cup {None, Garbage}]]
  BY <1>1, PackFacts, PutFacts DEF IInv, PutRoot
<1>5. evictions = 0 => Published(d, held')
  BY <1>1, <1>2, <1>3, <1>4 DEF Published
<1>6. Filled(d)
  BY <1>1, <1>2, <1>3 DEF Filled
<1> QED BY <1>3, <1>4, <1>5, <1>6, JobMoves DEF PutRoot, IInv, TypeOK

\* The manifest is verified; nothing is stored.
LEMMA VerifyRootStep == ASSUME IInv, NEW c \in Client, VerifyRoot(c) PROVE IInv'
<1>b. Busy(c, {"publish"}, "verify root") /\ Goto(c, "submit")
  BY DEF VerifyRoot
<1>a. "submit" \in Phase
  BY DEF Phase
<1>1. /\ job[c] \in Job /\ job[c].op = "publish"
      /\ job[c].phase = "verify root" /\ job[c].pack \in Pack
      /\ evictions = 0 => Published(job[c], held)
  <2>1. /\ job[c] \in Job /\ job[c].op \in {"publish"}
        /\ job[c].phase = "verify root" /\ job[c].pack \in Pack
        /\ evictions = 0 => Published(job[c], held)
    BY <1>b, BusyFacts
  <2> QED BY <2>1
<1>2. PICK d \in Job :
        /\ job' = [job EXCEPT ![c] = d]
        /\ d.op = job[c].op /\ d.pack = job[c].pack /\ d.phase = "submit"
        /\ d.todo = job[c].todo /\ d.got = job[c].got
  BY <1>a, <1>b, <1>1, GotoFacts
<1>3. cache' \in [Client -> [Content -> Content \cup {None, Garbage}]]
  BY <1>1, PackFacts, GetFacts DEF IInv, VerifyRoot
<1>4. evictions = 0 => Published(d, held)
  BY <1>1, <1>2 DEF Published
<1>5. Filled(d)
  BY <1>1, <1>2 DEF Filled
<1> QED BY <1>2, <1>3, <1>4, <1>5, JobMoves DEF VerifyRoot, IInv, TypeOK

\* The bundle is listed: everything of it was stored before.
LEMMA SubmitStep == ASSUME IInv, NEW c \in Client, Submit(c) PROVE IInv'
<1>b. Busy(c, {"publish"}, "submit") /\ Goto(c, "done")
  BY DEF Submit
<1>a. "done" \in Phase
  BY DEF Phase
<1>1. /\ job[c] \in Job /\ job[c].op = "publish"
      /\ job[c].phase = "submit" /\ job[c].pack \in Pack
      /\ evictions = 0 => Published(job[c], held)
  BY <1>b, BusyFacts
<1>2. PICK d \in Job :
        /\ job' = [job EXCEPT ![c] = d]
        /\ d.op = "publish" /\ d.phase = "done"
  BY <1>a, <1>b, <1>1, GotoFacts
<1>3. TypeOK'
  BY <1>1, <1>2 DEF Submit, IInv, TypeOK
<1>4. Published(d, held) /\ Filled(d)
  BY <1>2 DEF Published, Filled
<1>5. JobsOk'
  BY <1>2, <1>4 DEF Submit, IInv, TypeOK, JobsOk
<1>6. evictions = 0 => Retrievable(job[c].pack)
  <2> SUFFICES ASSUME evictions = 0, NEW x \in Contents(job[c].pack) PROVE x \in held
    BY DEF Retrievable
  <2>1. CASE x = Root(job[c].pack)
    BY <1>1, <2>1 DEF Published
  <2>2. CASE \E i \in DOMAIN job[c].pack : x = job[c].pack[i]
    <3>1. CASE Short(job[c].pack)
      BY <1>1, <2>1, <2>2, <3>1, PackFacts DEF Published, Root
    <3>2. CASE ~Short(job[c].pack)
      BY <1>1, <2>2, <3>2 DEF Published
    <3> QED BY <3>1, <3>2
  <2> QED BY <2>1, <2>2 DEF Contents
<1>7. IndexRetrievable'
  BY <1>6 DEF Submit, IInv, IndexRetrievable, Retrievable
<1> QED BY <1>3, <1>5, <1>7 DEF IInv

\* A manifest or a short pack arrives, or a short pack is rebuilt.
LEMMA GetRootStep == ASSUME IInv, NEW c \in Client, GetRoot(c) PROVE IInv'
<1> DEFINE j == job[c]
           p == j.pack
<1>1. /\ j \in Job /\ j.op \in {"fetch", "rescue"} /\ j.phase = "get root"
      /\ p \in Pack /\ Filled(j)
  BY BusyFacts DEF GetRoot
<1>2. CASE \E bytes \in Content \cup {Garbage} :
             /\ Get(c, Root(p), bytes)
             /\ Short(p) /\ j.op # "rescue"
             /\ job' = [job EXCEPT ![c] = Moved([j EXCEPT !.got[1] = bytes], "done", {})]
  <2>1. PICK bytes \in Content \cup {Garbage} :
             /\ Get(c, Root(p), bytes)
             /\ Short(p) /\ j.op # "rescue"
             /\ job' = [job EXCEPT ![c] = Moved([j EXCEPT !.got[1] = bytes], "done", {})]
    BY <1>2
  <2>2. /\ bytes = p[1] /\ bytes \in Content
        /\ cache' \in [Client -> [Content -> Content \cup {None, Garbage}]]
    <3>1. Root(p) = p[1] /\ Root(p) \in Content
      BY <1>1, <2>1, PackFacts DEF Root
    <3> QED BY <2>1, <3>1, GetFacts DEF IInv
  <2> DEFINE f == [j EXCEPT !.got[1] = bytes]
             d == Moved(f, "done", {})
  <2>3. /\ f \in Job /\ f.op = j.op /\ f.pack = p
        /\ f.got = [j.got EXCEPT ![1] = bytes]
    <3>1. 1 \in DOMAIN p
      BY <1>1, PackFacts
    <3>2. j \in Job /\ 1 \in DOMAIN j.pack /\ bytes \in Content
      BY <1>1, <2>2, <3>1
    <3> HIDE DEF j
    <3> QED BY ONLY <3>2, SlotFilled DEF f, p
  <2>4. f.got = p
    BY <1>1, <2>1, <2>2, <2>3, PackFacts, JobFields
  <2>5. d \in Job /\ d.op = j.op /\ d.pack = p /\ d.phase = "done" /\ d.got = p
    <3> HIDE DEF f
    <3>1. f.op \in Op /\ f.got \in [DOMAIN p -> Content \cup {None}]
      BY <2>3, JobFields
    <3> QED BY <1>1, <2>3, <2>4, <3>1, JobMade DEF Moved, Phase
  <2>6. Published(d, held) /\ Filled(d)
    <3> HIDE DEF d
    <3> QED BY <1>1, <2>5 DEF Published, Filled
  <2>7. job' = [job EXCEPT ![c] = d]
    BY <2>1
  <2> HIDE DEF d, j
  <2> QED BY <2>2, <2>5, <2>6, <2>7, JobMoves DEF GetRoot, IInv, TypeOK
<1>3. CASE /\ cache' \in [Client -> [Content -> Content \cup {None, Garbage}]]
           /\ \E ph \in {"chunks", "put root"} :
                /\ job' = [job EXCEPT ![c] = [j EXCEPT !.phase = ph]]
                /\ ph = "put root" => j.op = "rescue"
                /\ ph = "chunks" => ~Short(p)
  <2>1. PICK ph \in {"chunks", "put root"} :
                /\ Goto(c, ph)
                /\ ph = "put root" => j.op = "rescue"
                /\ ph = "chunks" => ~Short(p)
    BY <1>3 DEF Goto
  <2>2. PICK d \in Job :
          /\ job' = [job EXCEPT ![c] = d]
          /\ d.op = j.op /\ d.pack = p /\ d.phase = ph
          /\ d.todo = j.todo /\ d.got = j.got
    <3>1. ph \in Phase
      BY DEF Phase
    <3> QED BY <1>1, <2>1, <3>1, GotoFacts
  <2>3. Published(d, held) /\ Filled(d)
    BY <1>1, <2>1, <2>2 DEF Published, Filled
  <2> QED BY <1>3, <2>2, <2>3, JobMoves DEF GetRoot, IInv, TypeOK
<1>4. \A bytes : Get(c, Root(p), bytes) =>
         cache' \in [Client -> [Content -> Content \cup {None, Garbage}]]
  BY <1>1, PackFacts, GetFacts DEF IInv
<1>5. cache' \in CacheMisses(c, p[1]) =>
        cache' \in [Client -> [Content -> Content \cup {None, Garbage}]]
  BY MissFacts DEF IInv
<1> QED BY <1>2, <1>3, <1>4, <1>5 DEF GetRoot, Goto

\* A chunk arrives and goes to its slot.
LEMMA GetChunkStep == ASSUME IInv, NEW c \in Client, GetChunk(c) PROVE IInv'
<1> DEFINE j == job[c]
           p == j.pack
<1>1. Busy(c, {"fetch", "rescue"}, "chunks")
  BY DEF GetChunk
<1>2. /\ j \in Job /\ j.op \in {"fetch", "rescue"} /\ j.phase = "chunks"
      /\ p \in Pack /\ Filled(j) /\ Running(j.todo) \subseteq DOMAIN p
  BY <1>1, BusyFacts
<1>3. PICK i \in Running(j.todo), bytes \in Content \cup {Garbage} :
        /\ Get(c, p[i], bytes)
        /\ job' = [job EXCEPT ![c] =
              IF j.op = "fetch" THEN ChunkDone([j EXCEPT !.got[i] = bytes], i, "done")
              ELSE [j EXCEPT !.got[i] = bytes]]
  BY DEF GetChunk, Slot
<1>4. i \in DOMAIN p /\ p[i] \in Content
  BY <1>2, PackFacts
<1>5. /\ bytes = p[i]
      /\ cache' \in [Client -> [Content -> Content \cup {None, Garbage}]]
  BY <1>3, <1>4, GetFacts DEF IInv
<1> DEFINE f == [j EXCEPT !.got[i] = bytes]
<1>6. /\ f \in Job
      /\ f.op = j.op /\ f.pack = p /\ f.phase = j.phase /\ f.todo = j.todo
      /\ f.got = [j.got EXCEPT ![i] = bytes]
  <2>1. j \in Job /\ i \in DOMAIN j.pack /\ bytes \in Content
    BY <1>2, <1>4, <1>5
  <2> HIDE DEF j
  <2> QED BY ONLY <2>1, SlotFilled DEF f, p
<1>7. /\ p \in [DOMAIN p -> Block] /\ f.got \in [DOMAIN p -> Content \cup {None}]
      /\ \A k \in DOMAIN p \ (j.todo \ {i}) : f.got[k] = p[k]  \/ j.op # "fetch"
  <2>1. j.got \in [DOMAIN p -> Content \cup {None}]
    BY <1>2, JobFields
  <2>2. \A k \in DOMAIN p \ j.todo : j.got[k] = p[k] \/ j.op # "fetch"
    BY <1>2 DEF Filled
  <2> HIDE DEF f, j, p
  <2> QED BY <1>2, <1>4, <1>5, <1>6, <2>1, <2>2, PackFacts
<1>8. CASE j.op = "fetch"
  <2> DEFINE d == ChunkDone(f, i, "done")
  <2>1. /\ d \in Job /\ d.op = f.op /\ d.pack = f.pack /\ d.got = f.got
        /\ \/ f.todo = {i} /\ d.phase = "done"
           \/ d.phase = f.phase /\ d.todo = f.todo \ {i}
    <3>1. f \in Job /\ i \in Running(f.todo) /\ "done" \in Phase
      BY <1>6 DEF Phase
    <3> HIDE DEF f
    <3> QED BY <3>1, ChunkMoves
  <2>2. Filled(d)
    <3> HIDE DEF d, f, j, p
    <3>1. CASE f.todo = {i} /\ d.phase = "done"
      <4>1. d.got = p
        BY <1>6, <1>7, <1>8, <2>1, <3>1
      <4> QED BY <1>6, <2>1, <3>1, <4>1 DEF Filled
    <3>2. CASE d.phase = f.phase /\ d.todo = f.todo \ {i}
      BY <1>2, <1>6, <1>7, <1>8, <2>1, <3>2 DEF Filled
    <3> QED BY <2>1, <3>1, <3>2
  <2>3. Published(d, held)
    <3> HIDE DEF d, f
    <3> QED BY <1>6, <1>8, <2>1 DEF Published
  <2>4. job' = [job EXCEPT ![c] = d]
    BY <1>3, <1>8
  <2> HIDE DEF d
  <2> QED BY <1>5, <2>1, <2>2, <2>3, <2>4, JobMoves DEF GetChunk, IInv, TypeOK
<1>9. CASE j.op = "rescue"
  <2>1. Published(f, held) /\ Filled(f)
    <3> HIDE DEF f
    <3> QED BY <1>6, <1>9 DEF Published, Filled
  <2>2. job' = [job EXCEPT ![c] = f]
    BY <1>3, <1>9
  <2> HIDE DEF f
  <2> QED BY <1>5, <1>6, <2>1, <2>2, JobMoves DEF GetChunk, IInv, TypeOK
<1> QED BY <1>2, <1>8, <1>9

\* A rescued chunk is stored again.
LEMMA RePutChunkStep == ASSUME IInv, NEW c \in Client, RePutChunk(c) PROVE IInv'
<1> DEFINE j == job[c]
<1>1. Busy(c, {"rescue"}, "chunks")
  BY DEF RePutChunk
<1>2. /\ j \in Job /\ j.op \in {"rescue"} /\ j.phase = "chunks"
      /\ j.pack \in Pack /\ Running(j.todo) \subseteq DOMAIN j.pack
  BY <1>1, BusyFacts
<1>3. PICK i \in Running(j.todo) :
        /\ j.got[i] # None
        /\ Put(c, j.got[i])
        /\ job' = [job EXCEPT ![c] = ChunkDone(j, i, "put root")]
  BY DEF RePutChunk
<1> DEFINE d == ChunkDone(j, i, "put root")
<1>4. "put root" \in Phase
  BY DEF Phase
<1>5. d \in Job /\ d.op = j.op
  BY <1>2, <1>3, <1>4, ChunkMoves
<1>6. j.got[i] \in Content
  BY <1>2, <1>3, JobFields
<1>7. /\ held' \subseteq Content /\ held \subseteq held'
      /\ cache' \in [Client -> [Content -> Content \cup {None, Garbage}]]
  BY <1>3, <1>6, PutFacts DEF IInv
<1>8. Published(d, held') /\ Filled(d)
  <2> HIDE DEF d, j
  <2> QED BY <1>2, <1>5 DEF Published, Filled
<1> HIDE DEF d, j
<1> QED BY <1>3, <1>5, <1>7, <1>8, JobMoves DEF RePutChunk, IInv, TypeOK, d, j

-------------------------------------------------------------------------------
(***************************************************************************)
(* Ends, failures and the network.                                         *)
(***************************************************************************)

\* A finished command ends.
LEMMA FinishStep == ASSUME IInv, NEW c \in Client, Finish(c) PROVE IInv'
BY JobMoves DEF Finish, IInv, TypeOK

\* What a dropped job may still store is a set of contents.
LEMMA UnderWay == ASSUME NEW j \in Job PROVE PutUnderWay(j) \subseteq Content
<1>1. j.pack \in Pack /\ j.got \in [DOMAIN j.pack -> Content \cup {None}]
  BY JobFields
<1>2. Running(j.todo) \subseteq DOMAIN j.pack
  BY JobFields, RunningToDo
<1>3. Requested(j) \subseteq Content
  BY <1>1, <1>2, PackFacts DEF Requested
<1>4. {j.got[i] : i \in {k \in Running(j.todo) : j.got[k] # None}} \subseteq Content
  BY <1>1, <1>2
<1> QED BY <1>3, <1>4 DEF PutUnderWay

\* A failing command leaves more on the network, or nothing.
LEMMA DropStep ==
    ASSUME IInv, NEW c \in Client, job[c] # None, Drop(c), faults' \in 0 .. MaxFaults,
           cache' \in [Client -> [Content -> Content \cup {None, Garbage}]]
    PROVE  IInv'
<1>1. job[c] \in Job
  BY DEF IInv, TypeOK
<1>2. held' \subseteq Content /\ held \subseteq held'
  BY <1>1, UnderWay DEF Drop, IInv, TypeOK
<1> QED BY <1>2, JobMoves DEF Drop, IInv, TypeOK

\* Damage to a cache file changes no job and no contract.
LEMMA SpoilStep == ASSUME IInv, NEW c \in Client, Spoil(c) PROVE IInv'
<1>1. TypeOK'
  BY PackAssumption DEF Spoil, IInv, TypeOK
<1>2. JobsOk' /\ IndexRetrievable'
  BY DEF Spoil, IInv, JobsOk, IndexRetrievable, Retrievable
<1> QED BY <1>1, <1>2 DEF IInv

\* After an eviction nothing more is claimed of what is stored.
LEMMA EvictStep == ASSUME IInv, Evict PROVE IInv'
<1>1. evictions' # 0 /\ TypeOK'
  BY PackAssumption DEF Evict, IInv, TypeOK
<1>2. JobsOk'
  BY <1>1 DEF Evict, IInv, JobsOk
<1>3. IndexRetrievable'
  BY <1>1 DEF IndexRetrievable
<1> QED BY <1>1, <1>2, <1>3 DEF IInv

-------------------------------------------------------------------------------
(***************************************************************************)
(* The theorems.                                                           *)
(***************************************************************************)

\* The invariant holds at first.
LEMMA InitIInv == Init => IInv
<1> SUFFICES ASSUME Init PROVE IInv
  OBVIOUS
<1>1. TypeOK
  BY PackAssumption DEF Init, TypeOK
<1>2. JobsOk /\ IndexRetrievable
  BY DEF Init, JobsOk, IndexRetrievable
<1> QED BY <1>1, <1>2 DEF IInv

\* Every step keeps it.
LEMMA NextIInv == IInv /\ [Next]_vars => IInv'
<1> SUFFICES ASSUME IInv, [Next]_vars PROVE IInv'
  OBVIOUS
<1>1. ASSUME NEW c \in Client, Start(c) PROVE IInv'
  BY <1>1, StartStep
<1>2. ASSUME NEW c \in Client, Work(c) PROVE IInv'
  <2>1. ASSUME Unavailable(c) PROVE IInv'
    <3>1. cache' \in [Client -> [Content -> Content \cup {None, Garbage}]]
      BY <2>1, MissFacts DEF Unavailable, IInv
    <3> QED BY <2>1, <3>1, DropStep DEF Unavailable, IInv, TypeOK
  <2> QED BY <1>2, <2>1, PutChunkStep, VerifyChunkStep, PutRootStep, VerifyRootStep,
             SubmitStep, GetRootStep, GetChunkStep, RePutChunkStep, FinishStep DEF Work
<1>3. ASSUME NEW c \in Client, Crash(c) PROVE IInv'
  <2>1. /\ faults' \in 0 .. MaxFaults
        /\ cache' \in [Client -> [Content -> Content \cup {None, Garbage}]]
    BY <1>3, PackAssumption DEF Crash, IInv, TypeOK
  <2> QED BY <1>3, <2>1, DropStep DEF Crash
<1>4. ASSUME NEW c \in Client, Spoil(c) PROVE IInv'
  BY <1>4, SpoilStep
<1>5. ASSUME NEW c \in Client, NEW p \in Pack, StartRescue(c, p) PROVE IInv'
  BY <1>5, RescueStep
<1>6. ASSUME Evict PROVE IInv'
  BY <1>6, EvictStep
<1>7. CASE UNCHANGED vars
  BY <1>7 DEF vars, IInv, TypeOK, JobsOk, IndexRetrievable, Retrievable
<1> QED BY <1>1, <1>2, <1>3, <1>4, <1>5, <1>6, <1>7 DEF Next

\* The invariant is an invariant.
LEMMA Invariance == Spec => []IInv
BY InitIInv, NextIInv, PTL DEF Spec

\* Type correctness.
THEOREM PackStoreTypeOK == Spec => []TypeOK
<1>1. IInv => TypeOK
  BY DEF IInv
<1> QED BY <1>1, Invariance, PTL

\* A bundle is never listed before all its contracts are on the network,
\* for any packs, any number of clients and connections and any failures.
THEOREM PublishedBeforeListed == Spec => []IndexRetrievable
<1>1. IInv => IndexRetrievable
  BY DEF IInv
<1> QED BY <1>1, Invariance, PTL

\* A fetch returns what was published, in whatever order its chunks come
\* in and whatever has become of the cache files.
THEOREM FetchExact == Spec => []FetchedIsPublished
<1>1. IInv => FetchedIsPublished
  <2> SUFFICES ASSUME IInv, NEW c \in Client, job[c] # None, job[c].op = "fetch",
                      job[c].phase = "done"
               PROVE  job[c].got = job[c].pack
    BY DEF FetchedIsPublished
  <2> QED BY DEF IInv, JobsOk, Filled
<1> QED BY <1>1, Invariance, PTL

-------------------------------------------------------------------------------
(***************************************************************************)
(* The refinement.  Beside the invariant it needs to know where a fetch    *)
(* has its pack from.                                                      *)
(***************************************************************************)
FromIndex ==
    \A c \in Client : job[c] # None /\ job[c].op = "fetch" => job[c].pack \in index

ShelfInv == IInv /\ FromIndex

\* More contents make more packs whole.
LEMMA WholeGrows == ASSUME held \subseteq held' PROVE Whole \subseteq Whole'
BY DEF Whole, Retrievable

\* When one job moves, what the others hand over stays.
LEMMA HandedMoves ==
    ASSUME TypeOK, NEW c \in Client, NEW j, job' = [job EXCEPT ![c] = j]
    PROVE  /\ Handed[c] = Fetched(job[c])
           /\ Handed' = [Handed EXCEPT ![c] = Fetched(j)]
           /\ job'[c] = j
           /\ \A d \in Client \ {c} : job'[d] = job[d]
BY DEF TypeOK, Handed

\* A command that hands over neither before nor after a step stores at most.
LEMMA StoreOnly ==
    ASSUME TypeOK, NEW c \in Client, NEW j, job' = [job EXCEPT ![c] = j],
           held \subseteq held', UNCHANGED <<index, evictions>>,
           Fetched(j) = Fetched(job[c])
    PROVE  Shelf!Store
<1>1. Handed' = Handed
  BY HandedMoves DEF Handed
<1>2. Whole \subseteq Whole' /\ Whole' \subseteq Pack
  BY WholeGrows DEF Whole
<1> QED BY <1>1, <1>2 DEF Shelf!Store

\* A command that goes on with its pack stores, or hands the pack over when
\* it was a fetch and is done.
LEMMA JobGoesOn ==
    ASSUME ShelfInv, IInv', NEW c \in Client,
           job[c] # None, job[c].op = "fetch" => job[c].phase # "done" /\ held' = held,
           NEW j \in Job \cup {None}, job' = [job EXCEPT ![c] = j],
           j.op = job[c].op, j.pack = job[c].pack,
           held \subseteq held', UNCHANGED <<index, evictions>>
    PROVE  Shelf!Next /\ FromIndex'
<1>1. TypeOK /\ job'[c] = j /\ Fetched(job[c]) = None
  BY HandedMoves DEF ShelfInv, IInv, Fetched
<1>2. FromIndex'
  BY <1>1, HandedMoves DEF ShelfInv, FromIndex
<1>3. CASE j # None /\ j.op = "fetch" /\ j.phase = "done"
  <2>1. j.pack \in index /\ j.pack \in Pack
    BY <1>1, <1>3, JobFields DEF ShelfInv, FromIndex
  <2>2. Fetched(j) = j.pack
    BY <1>1, <1>3 DEF IInv, JobsOk, Filled, Fetched
  <2>3. Handed[c] = None /\ Handed' = [Handed EXCEPT ![c] = j.pack]
    <3>1. Handed[c] = Fetched(job[c]) /\ Handed' = [Handed EXCEPT ![c] = Fetched(j)]
      BY <1>1, HandedMoves
    <3> QED BY <1>1, <2>2, <3>1
  <2>4. Whole' = Whole
    BY <1>3 DEF Whole, Retrievable
  <2>5. Shelf!HandOver(c, j.pack)
    BY <2>1, <2>3, <2>4 DEF Shelf!HandOver
  <2> QED BY <1>2, <2>1, <2>5 DEF Shelf!Next
<1>4. CASE ~(j # None /\ j.op = "fetch" /\ j.phase = "done")
  <2>1. Fetched(j) = Fetched(job[c])
    BY <1>1, <1>4 DEF Fetched
  <2> QED BY <1>1, <1>2, <2>1, StoreOnly DEF Shelf!Next
<1> QED BY <1>3, <1>4

\* A command that ends, done or not, takes away what it has fetched.
LEMMA JobEnds ==
    ASSUME ShelfInv, NEW c \in Client, job[c] # None, job' = [job EXCEPT ![c] = None],
           job[c].op = "fetch" /\ job[c].phase = "done" => held' = held,
           held \subseteq held', UNCHANGED <<index, evictions>>
    PROVE  Shelf!Next /\ FromIndex'
<1>1. TypeOK /\ job'[c] = None /\ Fetched(None) = None
  BY HandedMoves DEF ShelfInv, IInv, Fetched
<1>2. FromIndex'
  BY <1>1, HandedMoves DEF ShelfInv, FromIndex
<1>3. CASE Fetched(job[c]) = None
  BY <1>1, <1>2, <1>3, StoreOnly DEF Shelf!Next
<1>4. CASE Fetched(job[c]) # None
  <2>1. held' = held
    BY <1>4 DEF Fetched
  <2>2. Handed[c] # None /\ Handed' = [Handed EXCEPT ![c] = None]
    BY <1>1, <1>4, HandedMoves
  <2>3. Whole' = Whole
    BY <2>1 DEF Whole, Retrievable
  <2>4. Shelf!TakeAway(c)
    BY <2>2, <2>3 DEF Shelf!TakeAway
  <2> QED BY <1>2, <2>4 DEF Shelf!Next
<1> QED BY <1>3, <1>4

\* A command that starts hands nothing over yet, and fetches a listed pack.
LEMMA JobBegins ==
    ASSUME ShelfInv, NEW c \in Client, job[c] = None, NEW op \in Op, NEW p \in Pack,
           job' = [job EXCEPT ![c] = NewJob(op, p)],
           op = "fetch" => p \in index,
           UNCHANGED <<held, index, evictions>>
    PROVE  Shelf!Next /\ FromIndex'
<1>1. /\ NewJob(op, p).op = op /\ NewJob(op, p).pack = p
      /\ NewJob(op, p).phase # "done"
  BY DEF NewJob
<1>2. TypeOK /\ Fetched(NewJob(op, p)) = None /\ Fetched(job[c]) = None
  BY <1>1 DEF ShelfInv, IInv, Fetched
<1>3. FromIndex'
  BY <1>1, <1>2, HandedMoves DEF ShelfInv, FromIndex
<1> QED BY <1>2, <1>3, StoreOnly DEF Shelf!Next

\* The steps of a command at work, but for the last of a publish and the ends.
LEMMA GoesOn ==
    ASSUME ShelfInv, IInv', NEW c \in Client,
           \/ PutChunk(c) \/ VerifyChunk(c) \/ PutRoot(c) \/ VerifyRoot(c)
           \/ GetRoot(c) \/ GetChunk(c) \/ RePutChunk(c)
    PROVE  Shelf!Next /\ FromIndex'
<1> DEFINE j == job[c]
<1>1. /\ j # None /\ j \in Job /\ j.phase # "done"
      /\ Running(j.todo) \subseteq DOMAIN j.pack
  BY JobFields, RunningToDo
     DEF ShelfInv, IInv, TypeOK, Busy, PutChunk, VerifyChunk, PutRoot, VerifyRoot,
         GetRoot, GetChunk, RePutChunk
<1>2. UNCHANGED <<index, evictions>>
  BY DEF PutChunk, VerifyChunk, PutRoot, VerifyRoot, GetRoot, GetChunk, RePutChunk
<1>3. held \subseteq held' /\ (j.op = "fetch" => held' = held)
  BY DEF Busy, Put, PutChunk, VerifyChunk, PutRoot, VerifyRoot, GetRoot, GetChunk, RePutChunk
<1>4. SUFFICES \E d : job' = [job EXCEPT ![c] = d] /\ d.op = j.op /\ d.pack = j.pack
  <2>1. PICK d : job' = [job EXCEPT ![c] = d] /\ d.op = j.op /\ d.pack = j.pack
    BY <1>4
  <2>2. job'[c] = d
    BY <2>1 DEF ShelfInv, IInv, TypeOK
  <2>3. d \in Job \cup {None}
    BY <2>2 DEF IInv, TypeOK
  <2> QED BY <1>1, <1>2, <1>3, <2>1, <2>3, JobGoesOn
<1>5. \A i, next : /\ ChunkDone(j, i, next).op = j.op
                   /\ ChunkDone(j, i, next).pack = j.pack
  BY DEF ChunkDone, Moved
<1>6. \A ph : [j EXCEPT !.phase = ph].op = j.op /\ [j EXCEPT !.phase = ph].pack = j.pack
  BY <1>1, JobFields
<1>7. ASSUME NEW i, NEW next, job' = [job EXCEPT ![c] = ChunkDone(j, i, next)]
      PROVE  \E d : job' = [job EXCEPT ![c] = d] /\ d.op = j.op /\ d.pack = j.pack
  BY <1>5, <1>7
<1>8. ASSUME NEW ph, job' = [job EXCEPT ![c] = [j EXCEPT !.phase = ph]]
      PROVE  \E d : job' = [job EXCEPT ![c] = d] /\ d.op = j.op /\ d.pack = j.pack
  BY <1>6, <1>8
<1>9. ASSUME NEW i, NEW bytes, NEW ph, NEW todo,
             LET f == [j EXCEPT !.got[i] = bytes]
             IN  job' = [job EXCEPT ![c] = f] \/ job' = [job EXCEPT ![c] = Moved(f, ph, todo)]
      PROVE  \E d : job' = [job EXCEPT ![c] = d] /\ d.op = j.op /\ d.pack = j.pack
  <2> DEFINE f == [j EXCEPT !.got[i] = bytes]
  <2>1. f.op = j.op /\ f.pack = j.pack
    BY <1>1, JobFields
  <2>2. Moved(f, ph, todo).op = j.op /\ Moved(f, ph, todo).pack = j.pack
    BY <2>1 DEF Moved
  <2>3. job' = [job EXCEPT ![c] = f] \/ job' = [job EXCEPT ![c] = Moved(f, ph, todo)]
    BY <1>9
  <2> HIDE DEF f
  <2> QED BY <2>1, <2>2, <2>3
<1>10. CASE PutChunk(c) \/ VerifyChunk(c) \/ RePutChunk(c)
  <2>1. PICK i, next : job' = [job EXCEPT ![c] = ChunkDone(j, i, next)]
    BY <1>10 DEF PutChunk, VerifyChunk, RePutChunk
  <2> HIDE DEF j
  <2> QED BY <1>7, <2>1
<1>11. CASE PutRoot(c) \/ VerifyRoot(c)
  <2>1. PICK ph : job' = [job EXCEPT ![c] = [j EXCEPT !.phase = ph]]
    BY <1>11 DEF PutRoot, VerifyRoot, Goto
  <2> HIDE DEF j
  <2> QED BY <1>8, <2>1
<1>12. CASE GetRoot(c)
  <2>1. \/ \E ph : job' = [job EXCEPT ![c] = [j EXCEPT !.phase = ph]]
        \/ \E bytes : job' = [job EXCEPT ![c] = Moved([j EXCEPT !.got[1] = bytes], "done", {})]
    BY <1>12 DEF GetRoot, Goto
  <2> HIDE DEF j
  <2> QED BY <1>8, <1>9, <2>1
<1>13. CASE GetChunk(c)
  <2>1. PICK i, bytes : LET f == [j EXCEPT !.got[i] = bytes]
                        IN  job' = [job EXCEPT ![c] = IF j.op = "fetch"
                                                      THEN ChunkDone(f, i, "done") ELSE f]
    BY <1>13 DEF GetChunk, Slot
  <2>2. LET f == [j EXCEPT !.got[i] = bytes]
        IN  \/ job' = [job EXCEPT ![c] = f]
            \/ \E ph, todo : job' = [job EXCEPT ![c] = Moved(f, ph, todo)]
    BY <2>1 DEF ChunkDone
  <2> HIDE DEF j
  <2> QED BY <1>9, <2>2
<1> QED BY <1>10, <1>11, <1>12, <1>13

\* The bundle is listed when its pack is whole.
LEMMA SubmitLists ==
    ASSUME ShelfInv, IInv', NEW c \in Client, Submit(c)
    PROVE  Shelf!Next /\ FromIndex'
<1>1. /\ job[c] \in Job /\ job[c] # None /\ job[c].pack \in Pack
      /\ job[c].op = "publish" /\ held' = held /\ evictions' = evictions
      /\ index' = index \cup {job[c].pack}
  BY JobFields DEF Submit, Busy, ShelfInv, IInv, TypeOK
<1> DEFINE d == [job[c] EXCEPT !.phase = "done"]
<1>2. job' = [job EXCEPT ![c] = d] /\ d.op = "publish"
  BY <1>1, JobFields DEF Submit, Goto
<1> HIDE DEF d
<1>3. Fetched(d) = None /\ Fetched(job[c]) = None
  BY <1>1, <1>2 DEF Fetched
<1>4. TypeOK
  BY DEF ShelfInv, IInv
<1>5. FromIndex'
  BY <1>1, <1>2, <1>4, HandedMoves DEF ShelfInv, FromIndex
<1>6. Whole' = Whole /\ Handed' = Handed
  BY <1>1, <1>2, <1>3, <1>4, HandedMoves DEF Whole, Retrievable, Handed
<1>7. evictions > 0 \/ job[c].pack \in Whole
  <2>1. CASE evictions = 0
    <3>1. PICK p \in Pack : p = job[c].pack
      BY <1>1
    <3>2. Retrievable(p)'
      BY <1>1, <2>1, <3>1 DEF IInv, IndexRetrievable
    <3> QED BY <1>1, <3>1, <3>2 DEF Whole, Retrievable
  <2>2. CASE evictions # 0
    BY <1>4, <2>2, PackAssumption DEF TypeOK
  <2> QED BY <2>1, <2>2
<1>8. Shelf!Publish(job[c].pack)
  BY <1>1, <1>6, <1>7 DEF Shelf!Publish
<1> QED BY <1>1, <1>5, <1>8 DEF Shelf!Next

\* The network forgets.
LEMMA EvictForgets ==
    ASSUME ShelfInv, Evict
    PROVE  Shelf!Next /\ FromIndex'
<1>1. evictions' > 0
  BY PackAssumption DEF Evict, ShelfInv, IInv, TypeOK
<1>2. Whole' \subseteq Whole /\ Handed' = Handed
  BY DEF Evict, Whole, Retrievable, Handed
<1>3. FromIndex'
  BY DEF Evict, ShelfInv, FromIndex
<1> QED BY <1>1, <1>2, <1>3 DEF Evict, Shelf!Forget, Shelf!Next

\* A step that moves neither jobs nor contracts nor the list is a stutter.
LEMMA NothingSeen ==
    ASSUME ShelfInv, UNCHANGED <<held, index, job, evictions>>
    PROVE  UNCHANGED Shelf!vars /\ FromIndex'
BY DEF Shelf!vars, Whole, Retrievable, Handed, ShelfInv, FromIndex

\* Every step of PackStore is a step of the shelf, or leaves it as it is.
LEMMA ShelfStep ==
    ShelfInv /\ [Next]_vars => ShelfInv' /\ [Shelf!Next]_(Shelf!vars)
<1> SUFFICES ASSUME ShelfInv, [Next]_vars
             PROVE  ShelfInv' /\ [Shelf!Next]_(Shelf!vars)
  OBVIOUS
<1>1. IInv'
  BY NextIInv DEF ShelfInv
<1>2. SUFFICES FromIndex' /\ [Shelf!Next]_(Shelf!vars)
  BY <1>1 DEF ShelfInv
<1>3. ASSUME NEW c \in Client, Start(c) PROVE FromIndex' /\ Shelf!Next
  <2>1. PICK op \in Op, p \in Pack :
          job' = [job EXCEPT ![c] = NewJob(op, p)] /\ (op = "fetch" => p \in index)
    BY <1>3 DEF Start, Op, ShelfInv, IInv, TypeOK
  <2> QED BY <1>3, <2>1, JobBegins DEF Start
<1>4. ASSUME NEW c \in Client, NEW p \in Pack, StartRescue(c, p)
      PROVE  FromIndex' /\ Shelf!Next
  BY <1>4, JobBegins DEF StartRescue, Op
<1>5. ASSUME NEW c \in Client, Finish(c) PROVE FromIndex' /\ Shelf!Next
  BY <1>5, JobEnds DEF Finish
<1>6. ASSUME NEW c \in Client, job[c] # None, Drop(c) PROVE FromIndex' /\ Shelf!Next
  <2>1. held \subseteq held'
    BY <1>6 DEF Drop
  <2>2. job[c].op = "fetch" /\ job[c].phase = "done" => held' = held
    BY <1>6 DEF Drop, PutUnderWay
  <2> QED BY <1>6, <2>1, <2>2, JobEnds DEF Drop
<1>7. ASSUME NEW c \in Client, Work(c) PROVE FromIndex' /\ Shelf!Next
  BY <1>1, <1>5, <1>6, <1>7, GoesOn, SubmitLists DEF Work, Unavailable
<1>8. ASSUME NEW c \in Client, Crash(c) PROVE FromIndex' /\ Shelf!Next
  BY <1>6, <1>8 DEF Crash
<1>9. ASSUME NEW c \in Client, Spoil(c) PROVE FromIndex' /\ [Shelf!Next]_(Shelf!vars)
  BY <1>9, NothingSeen DEF Spoil
<1>10. ASSUME Evict PROVE FromIndex' /\ Shelf!Next
  BY <1>10, EvictForgets
<1>11. CASE UNCHANGED vars
  BY <1>11, NothingSeen DEF vars
<1> QED BY <1>3, <1>4, <1>7, <1>8, <1>9, <1>10, <1>11 DEF Next

(***************************************************************************)
(* Packs on the network are a shelf of packs: whatever is chunked, cached, *)
(* forgotten, dropped half-way or rescued, a bundle is listed when its     *)
(* last content is stored, stays listed, and is fetched whole or not at    *)
(* all, by any number of clients over any number of connections.           *)
(***************************************************************************)
THEOREM PacksOnShelf == Spec => ImplementsShelf
<1>1. Init => ShelfInv
  BY InitIInv DEF Init, FromIndex, ShelfInv
<1>2. Init => Shelf!Init
  <2> SUFFICES ASSUME Init PROVE Shelf!Init
    OBVIOUS
  <2>1. Whole = {}
    <3> SUFFICES ASSUME NEW p \in Pack, Retrievable(p) PROVE FALSE
      BY DEF Whole
    <3> QED BY DEF Retrievable, Contents, Init
  <2>2. Handed = [c \in Client |-> None]
    BY DEF Handed, Fetched, Init
  <2> QED BY <2>1, <2>2 DEF Init, Shelf!Init
<1> QED BY <1>1, <1>2, ShelfStep, PTL DEF Spec, ImplementsShelf, Shelf!Spec
===============================================================================
