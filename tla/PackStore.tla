------------------------------- MODULE PackStore ------------------------------
(***************************************************************************)
(* Packs on the network.  A pack no longer than a chunk is one pack        *)
(* contract; a longer one is a contract per chunk and a manifest that      *)
(* lists the chunks' hashes.  Clients publish packs, fetch them and        *)
(* rescue them; every GET and PUT goes through a client's on-disk pack     *)
(* cache; the network forgets contracts.                                   *)
(*                                                                         *)
(* A pack is the sequence of its blocks.  Contents are addressed by hash,  *)
(* so a content is its own key: a block, or, for the manifest of a chunked *)
(* pack, the sequence of the chunks' hashes, which is the pack itself.     *)
(***************************************************************************)
EXTENDS Integers, Sequences, FiniteSets

CONSTANTS Block,         \* contents of chunks and of short packs
          Pack,          \* the packs that may be published
          Client,        \* machines that run the helper or the CLI
          Publisher,     \* clients that hold the repo's key
          Caching,       \* clients whose pack cache is not switched off
          Rebuilt,       \* Rebuilt[c]: short packs c can rebuild with --from
          Parallel,      \* connections in a pool (FREENET_GIT_PARALLEL_OPS)
          None,          \* Option::None
          Garbage,       \* the bytes of a damaged cache file
          MaxEvictions,  \* bound on contracts the network forgets
          MaxFaults      \* bound on crashes, timeouts and damaged cache files

Content == Block \cup Pack

ASSUME PackAssumption ==
    /\ Pack \subseteq Seq(Block) \ {<<>>}
    /\ Block \cap Pack = {}
    /\ None \notin Content /\ Garbage \notin Content /\ None # Garbage
    /\ Publisher \subseteq Client /\ Caching \subseteq Client
    /\ Rebuilt \in [Client -> SUBSET Block]
    /\ Parallel \in Nat \ {0}
    /\ MaxEvictions \in Nat /\ MaxFaults \in Nat

VARIABLES held,       \* contracts some node of the network can serve
          cache,      \* cache[c][x]: the bytes in c's cache file for x, or None
          index,      \* packs whose bundle is in the repo's object_index
          job,        \* job[c]: what c is doing, or None
          evictions,  \* contracts forgotten so far
          faults      \* faults so far

vars == <<held, cache, index, job, evictions, faults>>

Op    == {"publish", "fetch", "rescue"}
Phase == {"put", "verify", "put root", "verify root", "submit",
          "get root", "chunks", "done"}

Job == UNION {[op : Op, pack : {p}, phase : Phase, todo : SUBSET (DOMAIN p),
               got : [DOMAIN p -> Content \cup {None}]] : p \in Pack}

Short(p)    == Len(p) = 1
Root(p)     == IF Short(p) THEN p[1] ELSE p
Contents(p) == {Root(p)} \cup {p[i] : i \in DOMAIN p}

\* Mutant of NewJob: a rescue misses the last chunk.
NewJobShort(op, p) ==
    [op    |-> op,
     pack  |-> p,
     phase |-> IF op # "publish" THEN "get root"
               ELSE IF Short(p) THEN "put root" ELSE "put",
     todo  |-> IF Short(p) THEN {}
               ELSE IF op = "rescue" THEN 1 .. (Len(p) - 1) ELSE DOMAIN p,
     got   |-> [i \in DOMAIN p |-> None]]

NewJob(op, p) ==
    [op    |-> op,
     pack  |-> p,
     phase |-> IF op # "publish" THEN "get root"
               ELSE IF Short(p) THEN "put root" ELSE "put",
     todo  |-> IF Short(p) THEN {} ELSE DOMAIN p,
     got   |-> [i \in DOMAIN p |-> None]]

Init ==
    /\ held = {}
    /\ cache = [c \in Client |-> [x \in Content |-> None]]
    /\ index = {}
    /\ job = [c \in Client |-> None]
    /\ evictions = 0 /\ faults = 0

-------------------------------------------------------------------------------
(***************************************************************************)
(* GET and PUT.                                                            *)
(***************************************************************************)

\* Mutant of ReadCache: the file's bytes are not hashed.
ReadCacheUnverified(c, x) == cache[c][x]

\* PackCache::read: bytes that do not hash to x are a miss.
ReadCache(c, x) == IF cache[c][x] = x THEN x ELSE None

\* Writing a cache file, and removing a damaged one, are best effort.
CacheWrites(c, x) ==
    {cache} \cup (IF c \in Caching THEN {[cache EXCEPT ![c][x] = x]} ELSE {})

CacheMisses(c, x) == {cache, [cache EXCEPT ![c][x] = None]}

\* get_pack answers from the cache, or from the network and fills the cache.
CanGet(c, x) == ReadCache(c, x) # None \/ x \in held

Get(c, x, bytes) ==
    \/ /\ ReadCache(c, x) # None
       /\ bytes = ReadCache(c, x)
       /\ UNCHANGED cache
    \/ /\ ReadCache(c, x) = None
       /\ x \in held
       /\ bytes = x
       /\ cache' \in CacheMisses(c, x) \cup CacheWrites(c, x)

\* put_pack, confirmed by the host; the bytes decide which contract it is.
Put(c, x) ==
    /\ held' = held \cup {x}
    /\ cache' \in CacheWrites(c, x)

-------------------------------------------------------------------------------
(***************************************************************************)
(* The chunks of a phase are an unordered buffer of Parallel futures,      *)
(* filled in chunk order.  Chunk i uses connection i modulo Parallel, and  *)
(* a future holds its connection from its first request to its last.       *)
(***************************************************************************)
Started(todo) == {i \in todo : Cardinality({k \in todo : k < i}) < Parallel}

Running(todo) ==
    {i \in Started(todo) :
        ~\E k \in Started(todo) : k < i /\ k % Parallel = i % Parallel}

Busy(c, op, phase) == job[c] # None /\ job[c].op \in op /\ job[c].phase = phase

Moved(j, phase, todo) ==
    [op |-> j.op, pack |-> j.pack, phase |-> phase, todo |-> todo, got |-> j.got]

Goto(c, phase) == job' = [job EXCEPT ![c].phase = phase]

\* Mutant of ChunkDone: the phase ends when no chunk is left to start.
ChunkDoneEarly(j, i, next) ==
    IF j.todo \ {i} \subseteq Running(j.todo)
    THEN Moved(j, next, IF next = "verify" THEN DOMAIN j.pack ELSE {})
    ELSE Moved(j, j.phase, j.todo \ {i})

\* Chunk i of the phase is finished; after the last one comes the phase next.
ChunkDone(j, i, next) ==
    IF j.todo = {i}
    THEN Moved(j, next, IF next = "verify" THEN DOMAIN j.pack ELSE {})
    ELSE Moved(j, j.phase, j.todo \ {i})

Start(c) ==
    /\ job[c] = None
    /\ \/ c \in Publisher /\ \E p \in Pack : job' = [job EXCEPT ![c] = NewJob("publish", p)]
       \/ \E p \in index : job' = [job EXCEPT ![c] = NewJob("fetch", p)]
    /\ UNCHANGED <<held, cache, index, evictions, faults>>

StartRescue(c, p) ==
    /\ job[c] = None
    /\ p \in index
    /\ job' = [job EXCEPT ![c] = NewJob("rescue", p)]
    /\ UNCHANGED <<held, cache, index, evictions, faults>>

(***************************************************************************)
(* Publishing: every chunk, every chunk again, the manifest, the manifest  *)
(* again, and only then the bundle; a short pack is put once.              *)
(***************************************************************************)
\* Mutant of AfterVerify: the bundle is published without its manifest.
AfterVerifySubmit == "submit"

\* What follows the verification of the last chunk.
AfterVerify == "put root"

PutChunk(c) ==
    /\ Busy(c, {"publish"}, "put")
    /\ \E i \in Running(job[c].todo) :
         /\ Put(c, job[c].pack[i])
         /\ job' = [job EXCEPT ![c] = ChunkDone(@, i, "verify")]
    /\ UNCHANGED <<index, evictions, faults>>

VerifyChunk(c) ==
    /\ Busy(c, {"publish"}, "verify")
    /\ \E i \in Running(job[c].todo), bytes \in Content :
         /\ Get(c, job[c].pack[i], bytes)
         /\ bytes = job[c].pack[i]
         /\ job' = [job EXCEPT ![c] = ChunkDone(@, i, AfterVerify)]
    /\ UNCHANGED <<held, index, evictions, faults>>

PutRoot(c) ==
    /\ Busy(c, {"publish", "rescue"}, "put root")
    /\ Put(c, Root(job[c].pack))
    /\ Goto(c, IF job[c].op = "rescue" THEN "done"
               ELSE IF Short(job[c].pack) THEN "submit" ELSE "verify root")
    /\ UNCHANGED <<index, evictions, faults>>

VerifyRoot(c) ==
    /\ Busy(c, {"publish"}, "verify root")
    /\ Get(c, Root(job[c].pack), Root(job[c].pack))
    /\ Goto(c, "submit")
    /\ UNCHANGED <<held, index, evictions, faults>>

\* The signed delta with the bundle reaches the repo contract.
Submit(c) ==
    /\ Busy(c, {"publish"}, "submit")
    /\ index' = index \cup {job[c].pack}
    /\ Goto(c, "done")
    /\ UNCHANGED <<held, cache, evictions, faults>>

(***************************************************************************)
(* Fetching and rescuing: the manifest, or the short pack, comes first.    *)
(* When that GET fails, a rescue with --from puts the rebuilt short pack.  *)
(***************************************************************************)
GetRoot(c) ==
    /\ Busy(c, {"fetch", "rescue"}, "get root")
    /\ LET p == job[c].pack
       IN  \/ \E bytes \in Content \cup {Garbage} :
                /\ Get(c, Root(p), bytes)
                /\ job' = [job EXCEPT ![c] =
                     IF ~Short(p) THEN [@ EXCEPT !.phase = "chunks"]
                     ELSE IF @.op = "rescue" THEN [@ EXCEPT !.phase = "put root"]
                     ELSE Moved([@ EXCEPT !.got[1] = bytes], "done", {})]
           \/ /\ job[c].op = "rescue" /\ Short(p) /\ p[1] \in Rebuilt[c]
              /\ ReadCache(c, p[1]) = None
              /\ cache' \in CacheMisses(c, p[1])
              /\ Goto(c, "put root")
    /\ UNCHANGED <<held, index, evictions, faults>>

\* Mutant of Slot: chunks are appended as they come in.
SlotByCompletion(j, i) == CHOOSE k \in DOMAIN j.pack :
                              Cardinality({n \in DOMAIN j.got : j.got[n] # None}) = k - 1

\* collect_chunks_into_slots: a chunk goes where the manifest has it.
Slot(j, i) == i

GetChunk(c) ==
    /\ Busy(c, {"fetch", "rescue"}, "chunks")
    /\ \E i \in Running(job[c].todo), bytes \in Content \cup {Garbage} :
         LET filled == [job[c] EXCEPT !.got[Slot(job[c], i)] = bytes]
         IN  /\ job[c].op = "rescue" => job[c].got[i] = None
             /\ Get(c, job[c].pack[i], bytes)
             /\ job' = [job EXCEPT ![c] = IF @.op = "fetch"
                                          THEN ChunkDone(filled, i, "done")
                                          ELSE filled]
    /\ UNCHANGED <<held, index, evictions, faults>>

\* The second half of a rescue's work on one chunk.
RePutChunk(c) ==
    /\ Busy(c, {"rescue"}, "chunks")
    /\ \E i \in Running(job[c].todo) :
         /\ job[c].got[i] # None
         /\ Put(c, job[c].got[i])
         /\ job' = [job EXCEPT ![c] = ChunkDone(@, i, "put root")]
    /\ UNCHANGED <<index, evictions, faults>>

Finish(c) ==
    /\ job[c] # None /\ job[c].phase = "done"
    /\ job' = [job EXCEPT ![c] = None]
    /\ UNCHANGED <<held, cache, index, evictions, faults>>

-------------------------------------------------------------------------------
(***************************************************************************)
(* Failure.  The first chunk that fails drops the others; a PUT that was   *)
(* under way may take effect all the same.                                 *)
(***************************************************************************)
Requested(j) == IF j.phase \in {"put", "verify", "chunks"}
                THEN {j.pack[i] : i \in {k \in Running(j.todo) : j.got[k] = None}}
                ELSE {Root(j.pack)}

PutUnderWay(j) ==
    CASE j.phase \in {"put", "put root"} -> Requested(j)
      [] j.phase = "chunks" /\ j.op = "rescue" ->
            {j.got[i] : i \in {k \in Running(j.todo) : j.got[k] # None}}
      [] OTHER -> {}

Drop(c) ==
    /\ held' \in {held \cup landed : landed \in SUBSET PutUnderWay(job[c])}
    /\ job' = [job EXCEPT ![c] = None]
    /\ UNCHANGED <<index, evictions>>

\* A GET that neither cache nor network can answer.
Unavailable(c) ==
    /\ job[c] # None
    /\ job[c].phase \in {"verify", "verify root", "get root", "chunks"}
    /\ \E x \in Requested(job[c]) :
         /\ ~CanGet(c, x)
         /\ job[c].op = "rescue" /\ Short(job[c].pack) => x \notin Rebuilt[c]
         /\ cache' \in CacheMisses(c, x)
    /\ Drop(c)
    /\ UNCHANGED faults

\* A crash, a timeout, or the last of put_pack's attempts.
Crash(c) ==
    /\ job[c] # None
    /\ faults < MaxFaults
    /\ faults' = faults + 1
    /\ Drop(c)
    /\ UNCHANGED cache

\* A cache file is damaged (it is written without fsync) or deleted.
Spoil(c) ==
    /\ faults < MaxFaults
    /\ faults' = faults + 1
    /\ \E x \in Content, bytes \in {None, Garbage} :
         cache[c][x] = x /\ cache' = [cache EXCEPT ![c][x] = bytes]
    /\ UNCHANGED <<held, index, job, evictions>>

Evict ==
    /\ evictions < MaxEvictions
    /\ evictions' = evictions + 1
    /\ \E x \in held : held' = held \ {x}
    /\ UNCHANGED <<cache, index, job, faults>>

Work(c) ==
    \/ PutChunk(c) \/ VerifyChunk(c) \/ PutRoot(c) \/ VerifyRoot(c) \/ Submit(c)
    \/ GetRoot(c) \/ GetChunk(c) \/ RePutChunk(c)
    \/ Finish(c) \/ Unavailable(c)

Next ==
    \/ \E c \in Client : Start(c) \/ Work(c) \/ Crash(c) \/ Spoil(c)
    \/ \E c \in Client, p \in Pack : StartRescue(c, p)
    \/ Evict

Spec == Init /\ [][Next]_vars

\* A running command gets on, and every bundle is rescued again and again.
FairSpec ==
    /\ Spec
    /\ \A c \in Client : WF_vars(Work(c))
    /\ \A c \in Client, p \in Pack : SF_vars(StartRescue(c, p))

-------------------------------------------------------------------------------
TypeOK ==
    /\ held \subseteq Content
    /\ cache \in [Client -> [Content -> Content \cup {None, Garbage}]]
    /\ index \subseteq Pack
    /\ job \in [Client -> Job \cup {None}]
    /\ evictions \in 0 .. MaxEvictions
    /\ faults \in 0 .. MaxFaults

(***************************************************************************)
(* The repo never lists a bundle before all its contracts are on the       *)
(* network, whatever fails, crashes or runs at the same time: as long as   *)
(* the network forgets nothing, every listed bundle can be fetched         *)
(* ("the repo state must NEVER reference a ChunkedPack whose chunks or     *)
(* manifest are not retrievable").                                         *)
(***************************************************************************)
Retrievable(p) == Contents(p) \subseteq held

IndexRetrievable == evictions = 0 => \A p \in index : Retrievable(p)

(***************************************************************************)
(* A fetch that succeeds returns the pack that was published, in whatever  *)
(* order its chunks arrive and whatever is in the cache.                   *)
(***************************************************************************)
FetchedIsPublished ==
    \A c \in Client : job[c] # None /\ job[c].op = "fetch" /\ job[c].phase = "done"
                         => job[c].got = job[c].pack

(***************************************************************************)
(* All this together implements a shelf of packs: bundles are listed one   *)
(* by one and for good, each when its last content is stored and verified, *)
(* and a fetch hands over a listed pack in one piece or nothing, whatever  *)
(* has been put, dropped, cached, spoilt and fetched by halves meanwhile.  *)
(***************************************************************************)
Whole == {p \in Pack : Retrievable(p)}

Fetched(j) == IF j # None /\ j.op = "fetch" /\ j.phase = "done" THEN j.got ELSE None

Handed == [c \in Client |-> Fetched(job[c])]

Shelf == INSTANCE PackShelf WITH
    whole <- Whole, lossy <- evictions > 0, listed <- index, handed <- Handed

ImplementsShelf == Shelf!Spec

(***************************************************************************)
(* Rescue brings back whatever the network forgot: while one client has    *)
(* every listed content that the network lacks, and goes on rescuing,      *)
(* every listed bundle ends up retrievable for good, although a rescue     *)
(* stops at its first error and others run commands of their own.          *)
(***************************************************************************)
HasTheRest(c) ==
    \A p \in index : \A x \in Contents(p) :
        x \in held \/ cache[c][x] = x \/ (Short(p) /\ x \in Rebuilt[c])

RescueRestores ==
    \A c \in Client : []HasTheRest(c) => <>[](\A p \in index : Retrievable(p))
===============================================================================
