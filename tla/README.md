# freenet-git in TLA+

Models, checks and proofs of [freenet-git](../src/README.md): git repositories
kept in Freenet contracts, pushed and fetched through a git remote helper.
Source paths below are relative to `src/`; `R` stands for
`crates/freenet-git/src/bin/git-remote-freenet.rs`.

1. [The system](#the-system)
2. [Modules and their code](#modules-and-their-code)
3. [Runs](#runs)
4. [Findings](#findings)
5. [Proofs](#proofs)
6. [Limits of the models](#limits-of-the-models)
7. [Plan](#plan)

## The system

### Components

| Component | State it keeps | Operations | What makes it correct |
|---|---|---|---|
| Repo state (`crates/types/src/lib.rs`) | `RepoState`: owner, signed singletons, refs, extensions, `object_index` | `merge_state`, `validate_state`, `update_state`, `summarize_state`, `get_state_delta` | the merge is a join: commutative, associative, idempotent, never goes back; only owner-signed entries are valid |
| Repo contract (`crates/repo-contract`) | none of its own; one state per host | the entry points a host calls, with several updates per call | one bad update drops the whole call |
| Hosts (freenet-core, external) | a replica of the state per node | relaying, summary/delta exchange, full states | replicas stay valid, keep bundle tips with bundle records, catch up |
| Helper, push (`R` `handle_push`) | nothing between commands | read state, pack, publish packs, sign, update | no pushed history is lost; "ok" means the ref moved |
| Helper, fetch (`R` `handle_fetch`) | the local object database | list, download bundles, walk parents | a fetch that succeeds is complete, ends, and wastes no download |
| Chunked packs (`chunked.rs`) | contracts on the network | four-phase publish, parallel fetch | a listed bundle is stored; a fetch returns what was published |
| Pack cache (`pack_cache.rs`) | files by hash | read, write | a damaged file never reaches a caller |
| Pack contract (`crates/pack-contract`) | one immutable content | validate, update, summarize | content = key |
| Rescue (`main.rs`, `local_pack.rs`) | nothing between commands | choose bundles; GET and re-PUT each, from network, cache or a clone | after a rescue that reports success the repo can be cloned whole; a failure costs its own bundle only; a run ends |
| WebSocket client (`wsclient.rs`) | one connection per command, with whatever the node sent and nobody has read | put, get, update with deadlines and retries | a message is taken for the answer to a request only if it is one |
| Legacy generations (`wsclient.rs`, `build.rs`) | older contract keys | probe all keys, retry, re-PUT under the new key | an old state is never preferred to a newer one; silence is never taken for absence |
| Identity and create (`main.rs`, `crates/identity`) | the encrypted identity bundle, a file | init, create, export, import, over an atomic write | the file is always a whole bundle and never loses a repo's key |
| Encoding, URLs, ids | none | parse, hash, encode | outside the models |

### How they interact

A push: git asks the helper to `list for-push`, checks fast-forwarding against
that list by itself, and hands over refspecs. `handle_push` reads the state
*again*, builds one pack per ref (`git rev-list --objects new ^old`), publishes
each as a single or a chunked pack, signs a delta (ref entries at
`update_seq + 1`, bundle records, `bundle-tip` extensions) and sends it as an
UPDATE. The host merges it and relays it; other hosts get it as a relayed
update, in a delta that answers their summary, or in a full state.

A fetch: git asks for the list, then for commits. `handle_fetch` reads the
state again, downloads the bundles that advertise no tip (pushed by helpers
older than 0.1.16), then bundles whose tip is a commit it wants, and when none
is left walks the parents of what it has to find more commits it misses.

A rescue reads the state once, decides which bundles to keep alive (all of
them, or those whose tip some ref points at), and GETs and re-PUTs every
content of each, several bundles at a time. All GETs and PUTs of packs go
through the machine's pack cache; `--from` adds packs rebuilt from a clone.

Every command talks to its node over one WebSocket connection whose messages
carry no transaction id. Reading the state means asking for the current
contract key first and then for the keys of its predecessors; what is found
under one of those is PUT under the current key. A push signs with the key
that `freenet-git create` has put into the identity bundle.

### What is hard here

No lock exists anywhere: two helpers read one state and sign the same
sequence number; git's fast-forward check and the signature are made against
different states; an UPDATE that timed out may be applied later; deltas
arrive late, twice and batched; a summary is answered from a later state than
it was taken from; bundle tips and bundle records are summarised separately;
chunks go out and come in over several connections in any order, the first
error drops the rest, and a crash may leave any part of them stored; cached
files are written without fsync; the network forgets contracts; a fetch can
be interrupted with half its packs installed. A request that was given up is
still answered, into the inbox of the next one; the answer about the current
contract may be slow while an older one answers at once; rescue acts on a
state that pushes have overtaken; the bundle file is read, and written a
network round trip later, by processes that share one temporary name and may
crash between any two steps. `PROJECT.json` lists each as a
hazard, at its line, with the properties that would catch it, or the reason
why none does.

## Modules and their code

| Module | Models | Extends |
|---|---|---|
| `GitHistory` | the commit graph, `build_pack` | |
| `RepoState` | `RepoState` and its five functions, the contract's batches | `GitHistory` |
| `GitPush` | `handle_push` up to the signed delta, as operators | `RepoState` |
| `RepoReplicas` | hosts, helpers and the network between them | `GitPush` |
| `GitTransfer` | pushers and fetchers of one repo through one node | `GitPush` |
| `GitRemote` | what git may expect of a remote: the abstract specification of `GitTransfer` | |
| `GrowingReplicas` | what a merge promises to its replicas: the abstract specification of `RepoReplicas` | |
| `PackStore` | publish, fetch and rescue of packs, pack cache, pack contract | |
| `PackShelf` | what packs on the network promise: the abstract specification of `PackStore` | |
| `Rescue` | the choice of bundles, the parallel driver, packs rebuilt from a clone, the publisher meanwhile | `GitPush` |
| `HostConnection` | one connection to a node, its messages, the three dispatchers | |
| `RepoSession` | `get_state_with_legacy_fallback`, the migration PUT, `put_pack`, `update_state` in one command | `HostConnection` |
| `IdentityBundle` | the identity file, `write_atomic` and the commands that write it | |
| `MC*` | small instances for TLC | |
| `*Proofs` | theorems (see below) | |

`RepoReplicas` and `GitTransfer` are the two compositions: both put
`GitPush`'s delta into a world of concurrent actors, the first with many hosts
and no fetch, the second with fetches and one node. `Rescue` is a third, with
pushes as single steps against a running rescue. `RepoSession` composes the
commands with the connection they run on; there a contract's state is the set
of writes merged into it, which is what its properties tell apart. The `"map"` of
`PROJECT.json` names the lines behind every definition.

**`GitHistory`, `RepoState`, `GitPush`.** A commit stands for itself with its
tree and blobs; a pack is the set of commits in it, so equal packs are one
bundle, as for content-addressed contracts. `Parents` and `Anc` are constants
tied by `HistoryAssumption`. Singletons, refs and extensions merge by one rule
in the code (`pick_higher_seq`: higher `update_seq`, then smaller signature), so
they are one function `entry` from keys to signed entries. `SigOf` is any
injective ranking of entries with equal sequence numbers: ed25519 is
deterministic. `DeployedRule` selects between the delta rule in this source
and that of the deployed contract WASM, which reads an absent key as sequence
number 0 (the reason for `BUNDLE_TIP_UPDATE_SEQ` = 1, `R` 618-646).
`PushDelta` covers multi-ref pushes, forced pushes, orphan pushes, rewinds
(the empty pack), shared packs and the mirror-mode extension.

**`RepoReplicas`.** State: `replica[n]`, `push[h]` (the signed delta between
signing and UPDATE) and `net`. `HandlePush` is the read-pack-sign part,
`SubmitUpdate` the UPDATE and its answer, `TimeoutPush` an answer that did not
come in time while the update stays under way, `AbortPush` an error or a crash.
Hosts act with `RequestSync`/`AnswerSync` (summary and delta), `SendState`,
`Deliver`, `DeliverBatch` (several updates in one call), `Lose`; `Deliver` may
leave the message in flight (repetition) and `net` is a set (reordering).
`SubmitForeign` is an update signed by somebody else. The force flag is chosen
freely, without git's check: more behaviours than the code has.

**`GitTransfer`.** Push is `ListForPush`, `HandlePush` (with git's check
against the listing as guard), `SubmitUpdate`, `AbandonPush`; `Untip` is what an
older helper signs. Fetch is `ListForFetch`, `ReadState`, `Download` one bundle
at a time in any order, `FailDownload`, `Walk`, `Again`. `TipMaps` is the
`tip_to_bundle` map: where bundles share a tip, whichever a hash map yields
last. `Visited` is the fixpoint `walk_unresolved_parents` computes with its
queue, written as a least set so that it can be reasoned about. `odb` outlives
failed fetches, as installed packs do.

**`GitRemote`.** Heads, the commits the remote stores, and for each fetch what
it asked for, what its clone has and how it ended. Heads move freely but keep
their whole history stored, nothing stored is lost, a fetch is given only
stored commits and succeeds only with all it asked for. `GitTransfer`
instantiates it with `Heads` and `Stored` (what the refs point at and what the
bundles hold), `Outcome` (`done` is ok; `failed` and `stuck` are errors) and `odb`;
`ImplementsRemote` is checked and proved. Listings, signed deltas under way,
bundles, tips, walks and everything that is read twice must disappear in it.

**`GrowingReplicas`.** `replica` is a function from nodes to states; a step
takes one replica to a valid state at or above it in the order of the merge.
`RepoReplicas` instantiates it with `ValidateState` (and the repo's owner) and
`StateLeq`, and the formula `ImplementsGrowing` is checked and proved. That
messages are lost, repeated, reordered and batched, that a summary is answered
from a later state and that anybody may send anything must all disappear in it.

**`PackStore`.** State: `held` (contents some node can serve), `cache`,
`index` (bundles listed in `object_index`), `job` (what each client is doing:
operation, pack, phase, chunks to do, bytes received). A content is its own
hash: a block, or the sequence of a pack's blocks for its manifest. `Put` is
`put_pack`, `Get` is `get_pack` (cache first, best-effort writes and removals),
`Started` and `Running` are `buffer_unordered` and the mutex per connection.
`Drop` is `result?`: the remaining chunks are dropped, and PUTs under way may
land. `Crash` also stands for timeouts and for `put_pack`'s last attempt;
a repeated PUT of one content changes nothing, so the attempts before are one
with it. `Spoil` damages or deletes a cache file. `Evict` is the network.

**`PackShelf`.** A set of whole packs, a list, and what each client has been
handed. A pack is listed when it is whole (unless the network has forgotten
something), the list only grows, and a listed pack is handed over exactly and
in one step. `PackStore` instantiates it with `Whole` (every content of the
pack is held), `index` and `Handed` (the slots of a fetch that is done);
`ImplementsShelf` is checked and proved. Chunks, phases, connections, caches,
partial failures and rescues must all disappear in it; a `Store` step that
completes two packs at once, because they share a chunk, must not.

**`HostConnection`, `RepoSession`.** State: `store` (the contracts), the node's
`subscribed` and `pending`, the helper's `inbox`, its `session`. `DispatchGet`,
`DispatchPut` and `DispatchUpdate` are the three `dispatch_*_response`
functions. `Serve` answers any pending request, or none for as long as it
likes; a PUT subscribes, and its confirmation and its echo come in either
order; `Refuse` is backpressure or an error. When a loop reaches its deadline
(`Heard("timeout", ...)`) the request stays in `pending` and is answered into
the same inbox later. `ProbeHit` and `ProbeMiss` are `probe_all_keys`,
`PassFailed` the retries around it, `FallbackFailure` the verdict; `Migrate`,
`PackPut`, `PackFails`, `Updated` and `NotUpdated` follow. `Disconnect` ends a
command: of the writes still pending the node carries out some. A contract
without a state, or with empty bytes for one, turns an UPDATE down: `validate_state`
finds no owner in what it merges into them (`Stateless`). `OthersWrite`
and `OthersMigrate` are helpers elsewhere, old and new. `before` and `acked`
remember what a property compares with. One pack and one repo stand for a
push: several packs repeat the pack's steps.

**`IdentityBundle`.** State: `file`, `tmp` and `bytes` (names, the temporary
names and the inodes' contents), `run` (what each process is doing), and the
histories `published`, `registered`, `interrupted`, `overlapped`. A command
reads and checks in its first step and writes in three more: `OpenTmp`
(truncates a leftover), `WriteTmp`, `Rename`; `create` has `Publish` in between.
`UsedPassphrase` is `open_bundle_remembering_passphrase`, over every content of
`FREENET_GIT_PASSPHRASE` and every answer to a prompt; `PushableWith` is what a
push finds in the bundle. `Crash` ends a process between any two steps.

**`Rescue`.** State: `contract`, `held` and `fresh` (pieces somebody has, and
those PUT since the run began), `rescue` (the run: bundles taken on, still to
do and failed, packs rebuilt, manifests in hand; what it took on is history). `Begin` is everything up to the driver:
`OnlyCurrentTips` is the effective filter, `ReachableBundles` the tip filter,
then the guard; `LocalPacks` is `build_local_pack_map`. `RescuePack`,
`GetManifest`, `RescueChunk` and `PutManifest` are one GET and PUT each,
interleaved over the bundles under way; `Fails` keeps the error and goes on.
`parallel_bundles` is not a bound here: any number may be under way, which
includes every admission. The publisher follows the rules of the README and
`mirror-repo.yml`: snapshots are fresh orphan commits on one branch, a history
only moves forward, tags stay. `Untip` is a push by an older helper. A push
of which every ref is skipped (a deletion, an up-to-date ref, a pack that could
not be built) still signs and sends a mode that changes, as `handle_push` does. A
piece PUT during the run is not evicted before its end.

## Runs

All bounds are constants of the modules, given in the cfgs.

| Run | Instance | Checks |
|---|---|---|
| `replicas_races` | 2 nodes, 2 racing helpers with forked clones, 1 branch, forced pushes and rewinds, seq up to 2, 1 message in flight, a helper that gives up its UPDATE, fair hosts; 21,955 states | `HistoryCovered`, `ImplementsGrowing`, `SummariesConverge`, `EventuallyServable` |
| `replicas_reordered` | 2 nodes, 1 helper, 2 messages in flight, deployed delta rule, mirror mode, a stranger's key; 39,791 states | `TypeOK`, `ReplicasValid`, `TipsMatchRecords`, `RefMovesRaiseSeq`, `OkMeansMoved` |
| `transfer_forward` | fork and merge c1 < c2, c3 < c4, no force, old and new helpers, failing downloads; 4,946 states | `TypeOK`, `NeverStuck`, `FetchEnds` |
| `transfer_forced` | 2 branches, 3 commits, forced pushes and rewinds, failing downloads; 24,911 states | `FetchComplete`, `NoDeadWeight`, `DownloadsListed`, `ImplementsRemote` |
| `packs` | packs `<<x>>` and `<<x,y>>`, publisher with a cache, rescuer with a clone, pool of 2, 1 eviction, 1 fault; 187,622 states | `TypeOK`, `IndexRetrievable`, `FetchedIsPublished`, `ImplementsShelf`, `RescueRestores` |
| `session` | 3 generations, each unused, empty or in use; 1 push with its pack, another writer; 2 pending requests, 2 unread messages, 2 attempts each; 73,211 states | `TypeOK`, `AdoptsNewest`, `NoStateMeansNone`, `PackBeforeUpdate`, `TrueAck`, `AckedOnRepo`, `SessionEnds` |
| `identity` | 2 processes, 2 identities, 2 repos, the empty and one other passphrase, 1 overlap, 1 crash or failed PUT; 847,694 states up to symmetry | `TypeOK`, `BundleIntact`, `RegisteredPushable`, `PublishedRegistered`, `BundleGrows` |
| `rescue` | 1 branch, 1 tag, c1 < c2 and an orphan, old helpers, snapshots and history, 1 chunked bundle, a clone or none, all flags, 1 eviction or failed request; 131,620 states | `TypeOK`, `RescuedIsServable`, `RestIsRescued`, `RescueEnds` |
| `replicas_diverge`, `transfer_amended`, `transfer_rewound`, `rescue_rebuild` | as above | the findings below |

Why the bounds are enough to be interesting. Two sequence numbers give a
create, a push, a second push over it and a tie. A fork of three commits is
the smallest history with a non-fast-forward, a rewind and a race. Two
messages in flight are needed for a batch and for a delta that overtakes
another; with two helpers one message already makes late and repeated
updates. A fourth commit gives a merge, and with old and new helpers in turn
every mix of tipped and untipped bundles behind it. Two chunks over two
connections complete in either order, and the short pack that equals a chunk
of the long one makes contents shared. One eviction and one fault are enough
for each single failure at each point of a publish, a fetch or a rescue; the
theorems on `PackStore` hold for any number. Three generations let a walk pass
one generation and stop at the next; two pending requests let a late answer
meet a later request of the same kind, and two attempts run every retry loop
once around. One overlap of two commands shows every way in which they
interleave, and one fault every place where a command can stop; a second
process that starts after a crash meets what it left. In `rescue` three pushes
per ref lead from a helper without modes to snapshots and on to history.
What the instances are too small for, the theorems cover: `HistoryCovered`,
`ImplementsGrowing`, `ReplicasValid`, `TipsMatchRecords`, `FetchComplete`,
`NoDeadWeight`, `DownloadsListed`, `ImplementsRemote`, `IndexRetrievable`,
`FetchedIsPublished`, `ImplementsShelf` and the others listed under [Proofs](#proofs) are
proved for every instance; where a theorem fixes a constant (one helper, one
branch), it says so. `MaxInFlight` and the rule that
a pair of nodes has one message of a kind under way bound the network in both.

What each property says is in the comment above it. The ones a reviewer may
want to argue about:

- `HistoryCovered` quantifies over the bundles known to *some* replica: a push
  packs relative to its node's ref, and a loser of a race leaves its bundles
  in `object_index`, which is why nothing is lost. `EventuallyServable` is the
  stronger, per-host statement, and needs the hosts to exchange deltas.
- `TipsMatchRecords` depends on `BundleTipSeq` = 1 under the deployed rule: with
  0 the tip is never sent while the record is, and the mutant shows it.
- `OkMeansMoved` and `RefMovesRaiseSeq` hold for a single helper whose updates
  do not time out, and are checked there; with a tie they fail (see the smaller
  remarks).
- `DownloadsListed` is about one node, whose updates carry a tip and its record
  together; that the two also travel together between hosts is
  `TipsMatchRecords`.
- `ImplementsRemote` lets a fetch fail whenever it likes: `transfer_amended` is a
  behaviour of `GitRemote`. It forbids what no failure excuses: a head whose
  history is nowhere, a success that is not one.
- `NeverStuck` holds for one branch that one pusher only moves forward, and is
  checked and proved there. For forced pushes see `transfer_amended`, for
  several branches the smaller remarks.
- `RescueRestores` assumes *one* client that can get everything: with a pool of
  several connections, two rescuers whose caches complement each other may
  each stop at a chunk only the other has.
- `AdoptsNewest` and `NoStateMeansNone` compare with the contracts as they were
  when the session started: a state that appears under the current key while
  the walk is already past it is not seen, and is merged with by the PUT that
  follows.
- `PackBeforeUpdate` and `TrueAck` are checked with `BareOk` = FALSE. With TRUE
  both fail: a bare `Ok` to one request passes for the answer to the next, as
  the comment in `wsclient.rs` 161-171 says.
- `TrueAck` excepts a connection that is subscribed to the repo contract, which
  the migration PUT makes it: see the smaller remarks.
- `AckedOnRepo` has no such exception. A migration PUT may be refused, be lost,
  come late or be overtaken by another helper's, and `fetch_repo_state` only warns
  when it fails; the push that follows may then be refused, but is never
  acknowledged on a contract that lacks what the newest generation held. It
  rests on the migration carrying the *whole* state that was read, and on an
  UPDATE to a contract without a state being refused.
- `RegisteredPushable` and `PublishedRegistered` except the repos whose own
  `create` crashed or ran at the same time as another command; that such a
  race costs one entry is a known limit of a file without a lock. They say
  that it costs nobody else's.
- `RestIsRescued` speaks of the moment when nothing is left to do. A run that
  stopped at its first failure would satisfy `RescueEnds`, and `RescuedIsServable`
  too, which is about runs that report success; this one it would violate.
- `RescuedIsServable` is about the refs *at the end* of a rescue that read the
  state at its beginning. It needs the publisher to keep to the rules above,
  and the manual `--only-current-tips` only for snapshot mirrors, as the README
  demands.

Fairness. `SyncFairness`: a host keeps asking its peers and keeps answering, a
message sent again and again gets through, a node that lacks the repo keeps
asking the origin. This is what freenet-core does for subscribed contracts;
nothing is assumed of helpers, of repeated deliveries or of full states.
`FairSpec` of `GitTransfer`: the loop of a running fetch goes on (it is a loop
in one process). `FairSpec` of `PackStore`: a running command gets on
(`Work`), and rescue of each listed bundle is started again and again, as the
cron job the CLI is written for does; it is strong fairness because a client
is busy with other bundles in between. `FairSpec` of `RepoSession`: `WF(Step)`,
because every receive loop has a deadline that does not depend on what it
receives; nothing is assumed of the node. `FairSpec` of `Rescue`: the runtime
drives the tasks in flight, and each of their requests has a timeout. Crashes,
timeouts, damage and evictions are bounded, never fair. The helpers' liveness
is not claimed.

`CHECK_DEADLOCK` is on in every run but `identity`, where there is nothing left
to do when both repos and both identities have been used and no bundle can be
written any more.

## Findings

Four disagreements between the code and what it says of itself, each a run
that must end in a violation.

- `replicas_diverge` (`Convergence`): `get_state_delta` compares sequence
  numbers only, so two entries tied at one `update_seq` are never exchanged
  by summaries and deltas. Hosts that got the racing pushes directly keep
  different targets until a full state passes between them.
- `transfer_amended` (`StuckMeansMissing`): after a force-pushed amended commit
  a fresh clone fails with "fetch could not converge": the fork point is
  inside a bundle but is no bundle's tip.
- `transfer_rewound` (`FetchEnds`): a rewind publishes the empty pack with the
  old commit as tip; a fetch that maps the commit to it loops for ever.
- `rescue_rebuild` (`OriginalPackRebuilt`): push main at c1 and a tag at c2, then
  main at c3. The pack of the second push is {c2, c3}; the candidates for the
  tip c3 are {c3}, since the tag's tip comes before it in the ancestry order,
  and {c1, c2, c3}. `rescue --from` cannot restore the bundle, although the
  comment in `local_pack.rs` 171-174 says one of the two always matches.

Smaller remarks, without a run:

- Ties. A helper whose UPDATE timed out pushes again against an unchanged
  state; the first update may arrive first and win the tie, and the helper
  prints `ok` for a ref that did not move (`wsclient.rs` 906). For the same
  reason the comment on `pick_ref_entry`, that a ref moves only to a greater
  sequence number, does not hold for two helpers; and of two racing unforced
  pushes one may drop the other's published commit from the branch, although
  `types/src/lib.rs` 536 documents an error for it that no code returns.
- With two branches a fetch can give up without any forced push. Push main at
  c2 and dev at c3, then the merge c4 to both: the packs of the second push are
  {c3, c4} and {c2, c4}, with one tip. A fetch that installs {c2, c4} and breaks
  off leaves c2 local; the next one, whose hash map yields {c3, c4} for c4,
  finds c2 and c3 local, misses c1, which is no bundle's tip, and never wants
  the bundles of c2 and c3 that contain it. `StuckMeansMissing` with
  `MCTransferForward.cfg` changed to two `RefName`s, `MaxSeq = 2` and
  `OldHelpers = FALSE` shows it in 16 steps. The proof of `BranchNeverStuck`
  led to it: a layer that is only partly local is what it cannot do without.
- A push of which every ref is skipped still records a new mirror mode (`R`
  988-1016, 1146-1196). A snapshot pushed by a helper older than 0.1.16 has no
  tip; a push by a helper of 0.1.19 or later whose only ref is skipped (a refused
  deletion, say) then records the mode and pushes nothing. From there on `rescue` by itself applies
  the tip filter, which skips the one bundle that is needed, and the guard
  (`main.rs` 691-717) stops the run and asks for `--rescue-all`. `main.rs` 865-869
  calls the filter "Safe for snapshot mode", and `README.md` 273-274 says that
  the manual flag is no longer needed after a push that "records the
  extension". The run ends with an error and touches nothing, so that
  `RescuedIsServable` is not concerned, but the bundle goes unrescued until
  somebody reads the message, whose "the most recent push hasn't landed yet"
  is not the cause here.
- The verification of a published chunk is answered from the publisher's own
  pack cache; `FREENET_GIT_PACK_CACHE=off` avoids it. `chunked.rs` 13-15 calls it
  impossible that the repo advances while a chunk is not retrievable; a node
  that confirms a chunk and forgets it before the re-read makes it possible.
- After a migration the connection is subscribed to the current contract, and
  another writer's notification passes for the acknowledgement of an UPDATE
  (`wsclient.rs` 905). Latent while `CONTRACT_LINEAGE` is empty.
- Two `create` at once: the second to write drops the first one's key. Two
  commands that share the temporary name, one of which crashes, can leave an
  empty or half-written bundle (`crates/identity/src/lib.rs` 622). `init` and
  `import` look for an existing bundle long before they write (`main.rs` 306,
  392). `import-identity` is documented to replace the local bundle
  (`main.rs` 80) and refuses to.
- A publisher who goes from history to snapshots while other branches or
  untipped bundles are still needed loses them from the filtered rescue;
  unsetting the mode leaves the last one on record.
- `chunked.rs` 185-194 says a future does not start until its connection is
  free; when connection 1 finishes before connection 0, chunk 2 starts and
  waits for connection 0 while 1 idles. It costs time only.
- Two stale comments: `local_pack.rs` 238-241 says `build_pack` does not set
  `pack.threads=1`, which it does (`R` 1419-1425); the comment on `get_state`
  says `subscribe: true` is intentional, and its callers pass `false`.

## Proofs

`tlapm` checks every theorem for all values of the constants that satisfy the
named assumptions (`HistoryAssumption`, `RepoStateAssumption`,
`PushAssumption`, `ReplicasAssumption`, `TransferAssumption`,
`PackAssumption`, `ConnectionAssumption`, `SessionAssumption`,
`BundleAssumption`, `RescueAssumption`). TLC evaluates the assumptions on every
run's instance. Two parts of them only keep `None` apart from values it is
compared with: a bundle (`TransferAssumption`), and an entry signed one past
`MaxSeq` (`RepoStateAssumption`), which `Submittable` turns down.

- **`RepoStateProofs`**: `MergeIsUpperBound`, `MergeCommutes`, `MergeAssociates`,
  `MergeAbsorbs`; and the lemmas about pushes that the other modules share:
  `DeltaAt` (what a push signs, key by key) and `PushMerged` (what the contract
  makes of it, from a helper that records tips or one that does not), and
  `CoveredPush` and `CoveredUpdate` (the history of a state's refs stays in bundles
  through a push, as it is signed and as it is merged).
  The theorems come from the order `StateLeq`, whose antisymmetry is where the
  injectivity of signatures is needed. `object_index` holds one record per
  bundle and the owner's key, so valid states of one owner agree on it.
- **`RepoReplicasProofs`**: `TypeCorrect`, `ReplicasStayValid`,
  `ReplicasGrow`. Invariant `TypeAndValid`: types, and every replica empty
  or valid. Nothing is assumed of the messages' contents: validation after
  the merge does the work. `ReplicasGrow` is the refinement: `Spec` implements
  `GrowingReplicas`. A step changes one replica (`OneReplica`), upwards
  (`AdvanceStep`) and to a valid state (`ChangedIsValid`); together they make a
  `Grow` step or a stutter (`GrowStep`).
- **`RepoHistoryProofs`**: `HistoryStaysCovered`. `HistoryCovered` alone is not
  inductive: an update under way may bring a ref whose history rests on
  bundles only the replica it was built from knew. `HistoryInv` says of every
  replica, pending push and message that the history of its refs is covered by
  the known bundles and its own; known bundles only grow, so it is kept.
  `TipsStayMatched`: a delta that answers a summary may
  carry a tip without its record or the reverse. `TipsInv` adds that such a
  delta fits the replica it is addressed to (what it lacks is there already),
  because that replica has only grown since the summary (`Behind`).
  `RefsMoveUp`, `OkIsTrue`: both assume one helper that does not give up an
  UPDATE, as in `replicas_reordered`; with two helpers, or one that repeats a
  push whose first update is still on its way, a tie makes both false (see the
  smaller remarks). `WriterInv` follows that helper: it made every entry of a
  ref there is (`Owned`), at one sequence number there is one (`OneVersion`), its
  own node has the highest (`HomeAhead`), and what it is about to submit is one
  higher (`Signing`). So a ref can only move to an entry with a higher number,
  and the node that answers ok cannot have had a higher one.
- **`GitTransferProofs`**: `TransferTypeOK`, `FetchesComplete`,
  `FetchesNoDeadWeight`, `BranchNeverStuck`, `DownloadsAreListed`, `RepoIsRemote`.
  `Fetched` says
  that a commit walked is local and its parents were visited, and that the
  walk which finds nothing unresolved leaves a closed set; `Lean` says that
  everything wanted is in the history of what git asked for.
  `BranchNeverStuck` assumes one pusher, one branch and no force. Then the
  branch's targets so far are a chain, and the bundles are layers: each holds
  what one target adds to those below it (`Stacked`; `Grown` says it of the
  update a pusher is about to submit). A fetch has each layer as a whole or not
  at all, wherever earlier ones broke off, and has read of each layer either
  that it has no tip or whose it is (`Layered`). When a walk finds something
  missing, it got there from the wanted target through commits of layers that
  are local; take the topmost layer that is not, and the first of its commits
  to be seen is its target (`WalkFindsTarget`), whose tip was read. Each of the
  three hypotheses is needed: with a second pusher the state that `handle_push`
  packs against is not the one git checked; force and a second branch are the
  subject of `transfer_amended` and of a smaller remark.
  The last two theorems rest on `RemoteInv`, for any pushers, branches and
  force: the history of the contract's refs is in its bundles, an update under
  way brings what its refs lack there, every tip comes with its record, and what
  a fetch has read of bundles stays listed. `RepoIsRemote` is the refinement: heads
  are stored with their history (`HeadsStored`), a step of a pusher is a `Push` or
  a stutter (`RemotePushes`), and one of a fetcher is one of the remote's steps of
  that fetch (`RemoteFetches`), where `FetchesComplete`'s invariant gives
  `Succeed` and `RemoteInv` gives `Receive`.
- **`RescueProofs`**: `RescueTypeOK`, `SuccessIsServable`, `FailuresAreContained`.
  `RescueInv` has two halves. Of the publisher: every ref's history is in the
  listed bundles (`Listed`), a publisher of snapshots has one ref whose bundle
  is its whole history (`Snapshots`), and snapshot is the mode on record only
  while the publisher makes snapshots (`RecordedSnapshot`); that bundle need not
  have a tip, in which case a filtered run stops at the guard. Of a run: every
  bundle it took on is fresh, still to do or failed (`Accounted`), and the bundles that are
  fresh, still to do or failed cover every ref at any moment (`Attending`),
  because a push only adds fresh bundles and moves a ref only as far as they
  reach.
- **`PackStoreProofs`**: `PackStoreTypeOK`, `PublishedBeforeListed`, `FetchExact`,
  `PacksOnShelf`.
  `Published` says what a publish in a given phase has stored so far, `Filled`
  what a fetch has received; both are per job, and other clients only add to
  `held` until an eviction. `PacksOnShelf` is the refinement. It adds that a
  fetch took its pack from the list (`FromIndex`); a step of a command that goes
  on stores or hands over (`JobGoesOn`), one that ends takes away (`JobEnds`), a
  submit publishes (`SubmitLists`), an eviction forgets (`EvictForgets`), and
  damage to a cache is a stutter.
- **`RepoSessionProofs`**: `SessionTypeOK`, `NewestAdopted`, `NoStateOnlyWhenNone`,
  `PackFirst`, `AckTrue`, `AckOnRepo`. What a session concludes rests on messages sent long
  before, some to requests it has given up. `MessageTrue` says of every message
  in the inbox that it is true: an answer without a state comes from a contract
  that had none when the session started, a confirmed PUT is stored, a confirmed
  UPDATE is merged. `SessionOK` says the same of what the walk has concluded from
  such messages: every generation it has passed had no state. `RepoKept` follows
  the newest generation that had a state: it is in what the session has read,
  in every unread message about it, in every migration PUT under way, and in
  the current contract as soon as that has a state at all (`Carried`), while the
  empty predecessors stay empty (`Predecessors`); an UPDATE can only be answered
  by a contract with a state. `PackFirst`, `AckTrue` and `AckOnRepo` carry
  `~BareOk` as a hypothesis.
- **`IdentityBundleProofs`**: `IdentityTypeOK`, `AlwaysIntact`, `AlwaysGrows`,
  `AlwaysPushable`, `AlwaysRegistered`. `NamesOK`: an inode has one name, and is
  written to only for that file. `ApartOK`: two commands that run at once are on
  record as overlapped. `TmpOK`: a command nobody has interfered with finds its
  temporary file as it left it. `WholeOK`: without a crash, a torn file has a
  writer that will complete it. `KeptOK`: a repo registered undisturbed is in
  the bundle, in what the temporary name holds and in what every command that
  is under way will write, which is why no interleaving loses it.

Every invariant and every safety property of the runs that pass is a theorem.
Only model-checked: liveness (`SummariesConverge`, `EventuallyServable`,
`FetchEnds`, `RescueRestores`, `SessionEnds`, `RescueEnds`), which the prover does
not handle, and the findings, which are counterexamples.

## Limits of the models

- *Commits and objects.* A pack is its commits. `git rev-list --objects new ^old`
  leaves out the trees of the excluded parents of the commits it packs, so a
  packed commit may lean on the tree of such a parent. A complete history has
  all of them; only a fetch interrupted and then rewound to an unrelated root
  could tell the difference.
- *Annotated tags* are objects without parents here, like orphan commits.
- *Sizes.* The limits of `validate_state` and the manifest's arithmetic hold for
  every value the models use; `update_seq` is bounded by `MaxSeq` instead of
  2^64.
- *Bundle records* are signed once per bundle; an owner-signed record that
  contradicts its manifest is not modelled.
- *PUT confirmations* are believed in `PackStore`; `RepoSession` shows for one
  pack that they may be, without bare `Ok`s. A node that confirms a content and
  does not keep it is one that forgets it: `IndexRetrievable` speaks of the time
  before that.
- *An empty fetch.* `handle_fetch` falls back to all refs when git asks for
  nothing (`R` 532-534); git always asks for something.
- *Connections.* `RepoSession` has one, as every command; the pools of chunked
  transfers are connections that only ever PUT or GET packs.
- *freenet-core* is external: hosts do what the contract interface allows them.
  A replica is not evicted in `RepoReplicas`, packs are in `PackStore`.
- *Rescue* of one bundle with caches, connection pools and shared contents is
  in `PackStore`; the choice of bundles and many of them at once in `Rescue`,
  where a GET and its PUT are one step and a piece PUT during a run stays.
  Snapshots there share no objects with each other.
- *Identity.* A command reads the bundle and computes what it will write in
  one step. A new temporary file waits for a free inode; a full file system is
  not modelled. Bytes behind a bundle in its file, which a shorter write to an
  inode shared by two processes may leave, are not read by
  `bincode::deserialize`. Directories and permissions are left out.
- *Cryptography*: signatures cannot be forged, hashes do not collide.

Not modelled at all: canonical encoding, URLs and contract ids, which are pure
functions from bytes to bytes that the models take to be injective; the
encryption inside the bundle; `whoami`, command-line parsing and output.

## Plan

Done: the contract, pushes and replication (`RepoReplicas`, with the abstract
`GrowingReplicas`), push and fetch end to end (`GitTransfer`, with the abstract
`GitRemote`), packs
(`PackStore`, with the abstract `PackShelf`), the connection and the walk over generations
(`HostConnection`, `RepoSession`), the identity bundle (`IdentityBundle`), rescue
(`Rescue`).

Left, most important first:

1. `GitHistory` below the commit: trees and blobs, so that a pack may lean on a
   tree of an excluded parent.
2. Several packs, and the pool's connections, in one `RepoSession`.
3. The reading and the writing of the bundle as two steps of one command, and
   of `init`'s check and prompt.
4. `NeverStuck` for several unforced branches whose fetches do not break off.
