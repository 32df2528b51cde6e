# kvfs: a verification development

kvfs is a small distributed object store written in Go. This directory holds TLA+
models of it, the TLC configurations that check them on small instances, and
proofs checked by TLAPS. `PROJECT.json` lists every run, theorem, hazard and the
source lines each definition stands for.

## 1. The system

| Part | State | Operations | Talks to |
|---|---|---|---|
| **edge** (`internal/edge`, `cmd/kvfs-edge`) | lookup cache, role, multipart sessions in the store | S3 and native PUT/GET/DELETE, multipart, admin | DNs (chunks), coord or own store (metadata) |
| **coord** (`internal/coord`, `cmd/kvfs-coord`) | bbolt metadata, WAL, elector | place, commit, lookup, delete, buckets, multipart, DN and URL-key admin, rebalance/gc/repair/anti-entropy | peers (election, append-wal), DNs |
| **election** (`internal/election`) | role, term, vote, leader, all in memory | follower, candidate and leader loops, vote / heartbeat / append-wal handlers, ReplicateEntry | peer electors |
| **store** (`internal/store`) | bbolt buckets, WAL file, snapshots | put/delete/multipart/DN registry/URL keys, WAL append, group commit, truncate, replay, scheduled snapshots | disk |
| **follower edge** (`internal/edge/replica.go`) | local store, `walSeq` cursor | snapshot pull, WAL pull | primary edge |
| **DN** (`internal/dn`) | chunk files, corrupt set | PUT/GET/DELETE chunk, list, Merkle tree, scrub | - |
| **workers** (`gc`, `rebalance`, `repair`, `coord/anti_entropy`) | plans computed from a metadata snapshot | delete surplus, copy-then-update, reconstruct shards, audit and repair | store, DNs |
| **pure algorithms** (`placement`, `chunker`, `reedsolomon`, `urlkey`) | - | HRW choice, cutting, coding, signatures | - |

What makes it hard: election state is changed by a goroutine, handlers and reply
goroutines that each take the lock separately; commits interleave with elections;
an RPC that timed out may still be carried out; metadata is committed to bbolt
first and journalled after; processes restart; chunks are content-addressed and
therefore shared by objects that do not know of each other; background workers
act on plans that are stale when executed.

What correctness means here: no two leaders in a term; an acknowledged write is on
a majority and survives; replicas agree; a chunk an object refers to is not
deleted; a replayed journal gives back the state; followers converge.

## 2. Plan

In order of importance, and with the interactions each composition is about:

1. `Election` - the election with its replication RPC. *(done, proved)* 2. `CoordCommit`
- `Election` composed with the commit path of the coord. *(done, proved)* 3. `Wal` -
group commit, crash recovery, truncation; `Journal` above it. *(done, proved)* 4.
`MetaOps`, `MetaSync` - metadata transactions, replay, followers. *(done)* 5.
`ChunkStore` - objects, shared chunks, PUT/DELETE/multipart against gc and rebalance.
*(done, safety proved but for gc beside rebalance)* 6. `Placement` - HRW choice against
a reference definition. *(done)* 7. `Stripes` - erasure-coded write, delete, repair and
shard migration; `AntiEntropy` composes it with the scrubbers, the Merkle audit and
auto-repair. *(done, the bounds of a repair run proved)* 8. `DnRegistry` - registry and
placement view; `CoordClient` adds to the same coords the edges' calls with redirects
and cache, `UrlKeys` the signing keys. *(done, safety proved)*

Left for later: read-quorum agreement of the chunk coordinator, the EC read path, and a
composition of `ChunkStore` with the registry of section 10 in place of its fixed nodes.

Abstract specifications: the election specification is what `CoordCommit`
implements; `Journal` is what `Wal` implements.
One run asks its question of several deployments at once: `conf`, a variable that
`Init` chooses from a constant set and no action changes, holds what tells them apart
(modes, requests, bounds). A run is thus the union of the state spaces of its
deployments, and the fairness and the properties are those of each one.

Theorems: the safety of 1, 2, 3, 5 and 8 and that of a repair run of 7 are proved; section
12 says what is left to TLC and why.

## 3. Election

`Election.tla` models one `Elector` per node. Every critical section under `mu` is
one action; what the code reads under one lock and uses under the next may be
stale in the model as well.

* `state`, `currentTerm`, `votedFor`, `leader` are the fields of `Elector`; `pc` is
  the place of the `Run` goroutine; `campaign` holds the locals of `runCandidate`;
  `rep[e]` those of the `ReplicateEntry` call for entry `e`; `msgs` the RPC requests
  and answers in flight. `grants` and `elected` are history.
* `Dispatch`, `FollowerTimeout`, `StartCampaign`, `VoteFail`, `VoteReply`, `Tally`,
  `Broadcast`, `Tick` are `Run`; `HandleVote`, `HandleHeartbeat`, `HandleAppendWAL`,
  `AppendDone` the HTTP handlers; `HeartbeatReply` the goroutine that reads a
  rejected heartbeat; `ReplicateCheck`, `ReplicatePush`, `PushFail`,
  `ReplicateReturn` are `ReplicateEntry`. `Restart` is a crash followed by `New`.
* A request stays in flight until it is handled, also after its sender gave up, so
  delay and reordering are unbounded; loss is a request that is never handled.
  Time is abstracted: the election timer may fire at any moment.
* An answer to a vote request that carries no higher term can only affect the
  tally, which waits for it; it is recorded when the voter votes. Answers with a
  higher term travel as messages.

Bounds: `MaxTerm`, `MaxRuns` (campaigns in all), `MaxBeats` (heartbeats in flight;
the others are lost when sent), `MaxSeq` (log positions, 0 = no `LastLogSeqFn`).
The run `election` has two nodes, two campaigns, an entry being replicated and a
heartbeat in flight, which is what stepping down needs. Three nodes, two rivals in one
term or one that overtakes the other, and late replies across terms are in the run
`commit` (section 4), whose system takes every step of the election.

Fairness (`FairSpec`): RPCs carry context timeouts, so a vote request always ends
(WF on `VoteFail`, `Tally`); the loops and tickers of `Run` always continue (WF on
`Dispatch`, `Tick`); handlers answer (WF). That a peer is not cut off for ever is
an assumption on the network (SF on a broadcast that reaches it).

| Run | Shows |
|---|---|
| `election` | `LeaderWonItsTerm` with append-wal moving terms and logs; campaigns end; an overtaken leader steps down |
| `commit` | `ElectionSafety`, `TermAndVoteStable` |

Proved in `ElectionProofs.tla`, for every finite set of nodes, every bound and any
set of entries, without restarts: `TypeInvariant`, `TermAndVoteStability`,
`VoteLedgerInvariant`, `ElectionSafetyHolds`, `LeaderWonItsTermHolds`.
`ElectionSafety` is not inductive: `elected` alone does not say why a second winner
is impossible. The strengthening is `VoteLedger`: a node votes once per term
(`VoteOnce`), which holds because its latest vote is in `votedFor` and older votes
lie in terms it has left (`VoteKept`); a candidate counts only cast votes
(`VotesCounted`); a leader does not campaign (`NoLeaderCampaigns`). Then a winner
has a majority of grants, two majorities share a voter, and `VoteOnce` makes the
winners equal. `LostForGoodHolds`, about steps, says that the lead of a term is never
regained once lost: `ReignLedger` adds that a campaign under way is for a term its
candidate has not won. The commit path needs it.

## 4. Commit path of the coord

`CoordCommit.tla` extends `Election`: the election's actions are conjoined with what
the commit path adds. `store[n]` is the sequence of entries applied to the bbolt of
coord `n`, `call[e]` the request handler that commits entry `e`. Entries in `Txn`
go through `commit` with `TransactionalCommit` (`ReplicateEntry`, then
`PutObjectAfterReplicate`); the others are committed first and replicated by the WAL
hook, as are all deletes. Applying a pushed entry (`ApplyPushed`) changes bbolt and
leaves the WAL, and so `LastLogSeqFn`, alone - as `appendFn` does. `CoordRestart`
is a crash followed by `bootstrapFromPeer`.

| Run | Shows |
|---|---|
| `commit` | `CommittedOnQuorum` for the transactional path; `AckedOrDeposed` for the best-effort one (acknowledged means on a majority, or the leader was deposed); committing implements the election (`ElectionRefined`) |
| `commit_leader` | violated: the next leader may lack an acknowledged entry |

The quorum properties speak of one entry at a time, so one call (`MaxCalls`) of either
kind and two terms are enough. `CrashSpec` adds `CoordRestart`; it is the specification
of `commit_leader`, whose counterexample does without a crash.

Proved in `CoordCommitProofs.tla`, for all coords and entries: types,
`CommitRefinesElection` (so the election theorems hold of the composition), the
inductive `CommitLedger` and from it `CommittedOnQuorum` and `AckedOnQuorum`. The
ledger is needed because the quorum is counted in `rep[e].acks` while the property
speaks of stores: it says that an ack stands for an applied entry (`AcksApplied`),
that pushes belong to the handler's call and never return to their sender
(`PushOrigin`, `CallOwnsPush`, `HeldWhenPushed`), and that the transactional handler
commits locally only after the quorum (`TxnOrder`).

`AckedOrDeposedHolds` is about the best-effort path, where the store has the entry before
anybody was asked. Its `AckLedger` follows the result of `ReplicateEntry` from the peers
that answered to the acknowledgement. A call that did not reach a majority is acknowledged
only by a coord that stopped leading its term in between, and by `LostForGood` it stays
deposed.

## 5. Write-ahead log

`Wal.tla` models `internal/store/wal.go` line by line of the file: `buf` is the
`bufio.Writer`, `file` what was written, `disk` how much of it is on stable storage,
`sink` the state of the handle. One `Append` per `Writer`; in batched mode the caller
parks on the condition variable and the flusher's steps (take the pending sequence
number, flush and fsync outside the lock, publish) are separate actions. `Truncate`,
`Close`, `Since`, a crash and `OpenWALWithBatch` are the others. A crash keeps any
prefix that covers `disk`, and may leave a torn line. `Journal.tla` is the abstract
specification: entries are appended, become durable in order, and are dropped by a
truncation or, if not durable, by a crash.

| Run | Shows |
|---|---|
| `wal` | inline mode and group commit, on disks that fail in every way the mode survives: `AckedDurable`, reader order, parked callers return, and `Wal` implements `Journal` |

Three writers give a batch, a late arrival during the fsync and one after it; the
third writes a line longer than the scanners accept. Two faults and one crash are
enough, since nothing in the code counts them. Fairness: the flusher's ticker goes on
and callers return (WF). `WaiterReleased` exempts a handle that has failed for good, by a
write error or by a rotation that did not get its file back.

Proved in `WalProofs.tla`: `WalTypeInvariant`; `AckedDurableHolds` and
`WalRefinesJournal` when no rotation fails and the log is not closed on a failing disk
(`Safe`, an assumption on `Confs`; section 11 says what happens otherwise).
`AckedDurable` speaks of callers that returned; the inductive `WalLedger` adds why a
parked caller may be released: line `i` of `file \o buf` has sequence number `i`,
`durableSeq` counts lines within `disk`, the flusher's `upto` counts lines it has seen,
and epochs tell a truncation between its two critical sections.

`SinceOrderedHolds` needs no `Safe`: it holds whatever fails. `Scanned` is the set of lines
a scan reaches, those before the first torn or oversized one. It is stated so rather
than by recursion, which lets the proof compare scans: cutting or tearing a file lets a
scan reach no more of it (`CutScan`), and what is appended behind a torn line is never
reached, so a sequence number that is handed out again after a crash does not show.

## 6. Metadata store and followers

`MetaOps.tla` gives each transaction of `MetaStore` as an operator on a store value
(objects with versions and replica lists, one bucket, uploads, the DN registry), with
the entries it journals and the replay of an entry. `MetaSync.tla` runs them: handlers
check the role, commit to bbolt, journal, and answer in separate steps; the scheduler
snapshots and then truncates; followers pull the journal since their cursor, or a
snapshot, in steps that other steps may separate; the WAL hook pushes; the primary
changes by election or by a restart of a follower (`conf.manual`), and any edge may
restart in its role. `base[e]` is the file `edge.db` while a pulled snapshot is open
instead.

The journal is seen through `Wal`'s interface: `wal[e]` are the lines a reader gets,
`last[e]` is `LastSeq`, and `health[e]` says whether a torn line hides what is appended
(`torn`) or the writer keeps an error (`broken`, until a restart). `AppendFails` is an
append that returns an error after bbolt has committed: on a write error there is no
line, on a failed fsync or a failing hook the line is there; the request ends, and the
entries it still had to append are never written. A restart loses what handlers have
committed and not appended, may leave a torn line, and counts on from the lines it finds.

Three history variables say which copies a property can speak of. `due[e]` is what had to
be journalled since the last truncation, appended or not. `gen` and `seed` follow the
copies: one is accounted for as long as it descends from the journal the primary now has.
Without them `FollowerMatches` would be false after every truncation (section 11).

| Run | Shows |
|---|---|
| `meta` | replaying what had to be journalled gives back the store, whatever the requests, and without failing appends and restarts that is what the journal has (`JournalComplete`); a follower at the end of the journal its copy descends from says what the primary says (`FollowerMatches`), with truncation, pushes, elections, failover, failing appends and restarts |
| `meta_live` | a follower of a stable primary converges, restarts and failing appends included, unless an entry never got into the journal |
| `meta_truncate` | violated: a commit between snapshot and truncation is in neither |

Fairness: handlers finish and the pull loop's ticker goes on (WF); nothing is assumed
of clients. Bounds: `maxOps`, `maxSnaps`, `maxSwitches`, `maxRestarts`, `maxFaults`,
`MaxFails`. The deployments of `meta`: every kind of request on a primary alone, with and
without a failing append and a restart; two handlers with a follower, while the scheduler
truncates, and while an append fails and an edge restarts; pushes and an election;
truncation and failover by restart; truncation with a failing journal and a restart. The
handlers that run at the same time write different keys, because of the reordering in
section 11.

## 7. Chunks

`ChunkStore.tla` composes the request handlers of the edge, the data nodes, the
collector, the rebalance worker and the operator. Placement is a fixed ranking per chunk
(`Rank`). A handler writes chunk by chunk to the targets, each call on its own; when all
of them have answered, the acknowledgements are compared with W. `gc` is `ComputePlan`
(claimed set first, then one list per node) and `Run` (one delete per file); `migs` are
the planned migrations: read, copies, then the update of the list in the metadata as it
is by then.

A file is `new` or `old` relative to the collector's min-age; `Age` makes a file old
when no request that wrote it is still at work, unless `conf.slow` says a request may take
longer than that. A PUT of a file that exists leaves its age alone, as the data node
does. Requests are sent once each.

Calls to the metadata fail as those to data nodes do, before or after they took effect.
A part whose call failed is erased by its handler, recorded or not; a failed commit or
abort leaves its chunks to the collector; a DELETE that fails, or is cut off by a crash,
after the files are gone leaves the record behind. `doomed` is history and names these
records: the keys on whose present record a DELETE has set out, or that were completed
from a part its handler had refused, and the slots of such parts. A commit to the key,
or of the part, takes it out again. The properties speak of the others.

| Run | Shows |
|---|---|
| `chunk` | a committed chunk is on W listed nodes that have it, objects and accepted parts stay readable, orphans are collected, objects end up fully placed |
| `chunk_return` | violated: the collector deletes an old copy that a migration has just made the only replica |

The deployments of `chunk`: two overlapping PUTs with the collector and a crash
(`Overwriting`); overwrite and DELETE with the collector and a crash (`Deleting`); a
multipart upload (`Uploading`), also with a part that is sent twice (`Resending`);
migrations under topology changes, failing copies and a crash (`Moving`), also of
objects acknowledged by one node of two (`Repairing`), with the collector
(`MovingAndCollecting`) and in a preferred class (`Classed`). They keep apart what
section 11 lists as interfering: contents are written once, and a file moves back to a
node only where no collector runs. Fairness (`FairSpec`): handlers, collector and worker
proceed (WF; `StartAuto`'s tickers), time passes (SF on `Age`, which a listing disables
briefly). Two of three nodes, two chunks and one failure of each kind reach every branch
of the handlers.

Proved in `ChunkLedgerProofs.tla`, from the lemmas of `ChunkProofs.tla`, for any keys,
chunks, uploads, nodes, rankings, topologies and budgets: `ChunkTypes`, and for the
deployments that are `Steady` `QuorumHeldHolds`, `ReadableHolds` and
`PartsReadableHolds`. `Steady` says what section 11 shows to be needed: no content is
written twice; the collector runs without requests longer than its min-age, without
migrations and without part uploads; where migrations run, a key is written once. Every
deployment of `chunk` but `MovingAndCollecting` is `Steady`; that one depends on which
file goes back to which node and stays with TLC.

`Readable` says nothing about the requests, plans and migrations that are about to change
lists and files. The inductive `Ledger` adds them, in four parts:

* `IdLedger`: every id in a list belongs to a write request that is over (`Landed`), so a
  handler that is still writing writes ids nobody lists; a migration's position still
  names the chunk it was planned for.
* `ApartLedger`: keys and parts share no id, and a list that a handler is erasing shares
  ids only with a doomed record. It is what makes a DELETE, an abort, a refused part or an
  overwrite harmless to the others.
* `FileLedger`: a file is there if a request was acknowledged for it or a list, part or
  migration names it (`Needed`), and is not there before it was sent (`Blank`).
* `SweepLedger`: what the collector plans to delete is neither acknowledged nor listed. It
  holds because an acknowledged file is `new` until its list is committed, and an old
  one that is listed was in the claimed set when the node was listed.

The assumptions: a ranking lists every node once, W is at most R, a topology has at least R
nodes, and requests name keys and uploads and have a body.

## 8. Placement

`Placement.tla` has `PickFromNodes` and `PickFromNodesByDomain` as operators over an
arbitrary scoring with ties; the reference (`Best`, `BestSpread`) defines the intended
sets without sorting or walking. The state machine adds, removes and relabels nodes so
that `MovesOne` can compare picks before and after.

The run `placement` shows that the picks are the intended ones, spread over domains and
stable, for every scoring and labelling of up to four nodes.

## 9. Stripes and self-healing

`Stripes.tla` has the objects as the healing workers see them: an object is a list of
groups, a group being a stripe of K+M shards on one node each, or one replicated chunk.
A file is `none`, `good` or `bad` (bytes that are not those of its id). Actions: the
streaming EC PUT shard by shard and its commit; DELETE, files first; `ComputePlan` and
the repair of a stripe (read K survivors one by one, write, update the metadata by
position); `planEC` and a migration (read, write, update); node sets that change, nodes
that go down and come back, files that rot or vanish, calls that fail with or without
effect, and a crash of the edge in the middle of any of them. Reed-Solomon is what the
workers rely on: K right shards rebuild the others, and wrong ones are noticed, since
the id of a shard is its hash.

`AntiEntropy.tla` adds the scrubber of each data node (walk, read, mark, with
`scrub-state.json` that may fail to be written) and the coordinator's run: the
inventory, the Merkle audit per node and per bucket, the corrupt lists, the throttled
copies by several workers, and the stripes that are rebuilt with what is left of the
budget. Each RPC is a step of its own, so a file may change between audit and repair.
`quiet` is history: nothing but the run itself has happened since it began.

| Run | Shows |
|---|---|
| `repair` | what cannot be read was lost to a fault of its own and never to PUT, repair or rebalance (`LossesAreFaults`); shards of a stripe stay on different nodes (`StripeSpread`); the cap of a run (`CapBound`); a chunk is given up only if no listed node can serve it (`GivenUpRightly`); what can be rebuilt is, on every listed node that answers (`Healed`); stripes end up where placement wants them (`StripesPlaced`) |

The deployments are 2+1 stripes and two-way replicated chunks on four nodes, each with
the faults that matter to it: `Writing` (a PUT of two stripes against rebalance and a
topology change), `Operated` (operator repair after a node has left), `Copying` and
`Capped` (replicas that rot and vanish, two workers, a cap of one), `Dark` (a node goes
down and comes back during the audit), `Rebuilding` and `Retracting` (the same for a
stripe, and one deleted meanwhile), `Moving` and `Leaving` (a stripe to be moved rots, or
is deleted). One fault more than a group survives is in `Copying`. `Sharing` has two
objects with the same content. The others keep apart what section 11 lists: operator
repair with rebalance, and shared contents.

Fairness: the tickers of auto-repair and auto-rebalance fire again and again and their
runs proceed (WF on `Heal` and `Rebalance`), each scrubber walks on (WF on `Scrub(d)`),
a DELETE goes on (WF). No fairness for faults, restarts or clients.

Proved in `HealProofs.tla`, for any objects, nodes, faults, caps and numbers of workers:

* `HealLedgers` and from it `CapBoundHolds`. The workers test the count of successes
  before they act and raise it afterwards, so the count alone is not inductive;
  `CapLedger` bounds successes, copies under way and rebuilds under way together.
* `GivenUpRightlyHolds`. `JobLedger` says that a chunk is given up only if no owner looked
  like a source when the run had collected its lists, `QuietLedger` that in a run nobody
  disturbed these lists are still true of the nodes, because the run itself writes only
  chunks that have a source. Nodes listed by several references of a chunk are exempt: the
  audit counts them twice and misses one (section 11).

The assumptions: objects are finite lists of groups of finite lists, and there is at least
one worker.

## 10. Edges and coords: registry, client, keys

Three modules, each extending the one before, share the same coords, elections and
restarts, so that a leader that moves or a bootstrap from a peer meets all of them.

* `DnRegistry.tla`: the coord's registry of data nodes and the views that placement
  answers from. Admin handlers persist, then refresh in a second step; entries reach
  some of the followers; a boot builds the views first and may replace the store by a
  peer's snapshot afterwards (`kept` is `coord.db` meanwhile).
* `CoordClient.tla`: `CoordClient` of the edge. `base` is its base URL, `cache` its
  lookup cache, `call[t]` the call of handler `t`. A call is sent, served, answered and
  returned in separate steps; 503 answers carry the coord's hint; connections break
  before or after the coord has acted, deadlines pass, and a change that was given up
  may still arrive (`late`). `applied`, `asOf`, `own`, `settled` and `epoch` of a call
  and `ret`, the call that returned last, are history.
* `UrlKeys.tla`: the registries of signing keys in the stores of coords and edges, and
  the in-memory `Signer`. The admin handlers of an edge and its poller take the signer's
  lock once per call, so their steps interleave. `given` is history.

| Run | Shows |
|---|---|
| `edge` | an idle coord on its own places on exactly its registry (`PlacesRegistered`); a call is carried out at most once and its answer tells (`AtMostOnce`); one redirect is enough while the lead is stable (`RedirectSuffices`); lookups are no older than TTL plus deadline (`StaleBound`) and see the edge's own changes (`OwnWritesSeen`); one primary key, a usable signer, and signers that converge (`OnePrimary`, `SignerUsable`, `KeysConverge`) |

Eleven deployments: one coord with three admin requests, with and without
`COORD_DN_IO`, and two coords with failover, failing appends and bootstraps; one edge
with three coords and two edges with two coords whose lead moves under two calls; two
handlers of one edge, and of two edges, that look up and change the object while time
passes; one polling edge with up to three rotations or removals, restarts and a moving
lead. `TTL` and the call deadline are one tick, `maxTime` three, so that an entry is
filled, expires and is filled again. One object and two kids are enough: cache entries
and kids do not interact.

Fairness: the poller's ticker goes on and admin handlers end (WF on `Poll(e)` and
`EdgeAdmin(e)`, separately, so that neither starves the other). `KeysConverge` needs no
more: rotations are bounded, and a poll that finds its coord down is simply later.

Proved, for any number of coords, edges, handlers, data nodes, kids and secrets and
any bounds:

* `ClientProofs.tla`: `AtMostOnceHolds` - `AtMostOnce` speaks of calls that returned; the
  inductive `CallLedger` says of each call under way that it has been carried out exactly
  if it is a change whose answer is a success - so what is sent again was not carried out -
  and that targets, hints and base URLs are addresses of coords, which no status is.
  `RedirectSufficesHolds` - with the lead stable every hint names the leader, so a call is
  at the leader after one redirect (`RedirectLedger`; `epoch` of a call tells whether the
  lead moved meanwhile). `StaleBoundHolds` - `TimeLedger` bounds the age of a cache entry by
  the beginning of the call that fetched it. `OwnWritesSeenHolds` - until a coord or edge is
  disturbed there is one leader's object, `changes` counts what happened to it, and
  `OwnLedger` says that an edge that was told of a change has the leader as its base URL
  and no older entry in its cache. `PlacesRegisteredHolds` - the views of a coord on its own
  equal its registry whenever no admin handler is between persisting and refreshing
  (`PlacedLedger`). It excepts appends that failed: the handler then returns before it
  refreshes, although bbolt has the change.
* `EdgeProofs.tla`: `SignerUsableHolds` and `OnePrimaryHolds` - the inductive
  `KeyLedger` follows a secret wherever it may come into a signer from: the stores of
  coords and edges, snapshots, the handler between its steps, and the list in the hands
  of a poller. `RegistryPut` and `RegistryDelete` keep one primary, `SignerAdd`,
  `SignerSetPrimary` and `SignerRemove` keep the primary among the keys; that `LeastKid`
  is well defined rests on the well-foundedness of the naturals.

The assumptions: `Dn` is finite, every deployment has a data node at first boot, its
coords, edges and home URLs are among the constants, addresses of coords are not status
words, `TTL` and the deadline are natural numbers, the changes an edge asks for are commit,
delete and complete, kids are numbers.

## 11. Where the code falls short

Each of these was met while modelling, most of them as a counterexample of TLC to a
property that is now restricted as the sections above say. The first three have a run
and a finding.

* `commit_leader`: `appendFn` does not advance the follower's WAL, so the log check of
  `HandleVote` cannot tell a follower that has an entry from one that lacks it.
* `meta_truncate`: the scheduler (scheduler.go:135) truncates entries journalled after
  its snapshot was read.
* `chunk_return`: collector and rebalance are not independent (gc.go:36): an old
  unlisted copy on the destination is relied on while it is being swept.
* `recoverLastSeq` leaves a torn tail where it is ("Corrupt tail: stop here. Subsequent
  appends will continue from last.", wal.go:222); later entries continue that line and
  no reader gets past it, although they were acknowledged.
* A restarted elector has forgotten its vote (election.go:149): a term can be won
  twice. A deposed leader may send one heartbeat (election.go:368) or push one entry
  (election.go:611) under a term it did not win.
* Concurrent commits reach the coords in different orders (coord.go:381), and a
  restarting coord may replace its store by that of a peer that is behind (main.go:383
  of kvfs-coord).
* A `bufio.Writer` keeps its first error: after one failed write parked Appends never
  return (wal.go:183). `Close` ignores its last fsync error and releases the waiters as
  durable (wal.go:447). A line above 1 MiB hides itself and what follows
  (wal.go:332). The pending gauge is reset for entries that joined during an fsync
  (wal.go:204).
* A request whose append failed is answered with an error although bbolt has its change
  (store.go:333), and followers never get it unless they pull a snapshot. After a write
  error every further append fails the same way until the edge restarts.
* Two writers of a key may be journalled in the other order than they committed
  (store.go:333). Replica moves and labels are not journalled (store.go:838, 1088), and
  registering a DN again drops its labels (store.go:1007). A snapshot may hold a commit its
  header does not count, and a replayed put counts a version too many (edge.go:2234).
* A follower keeps its cursor across a truncation or a change of leader and misses the
  entries below it (replica.go:276, 155); a late push brings back an older state
  (kvfs-edge main.go:343); a follower restarted as primary opens `edge.db` and not the
  pulled file (replica.go:200); a pull that began before its edge was elected replaces
  the new leader's store (replica.go:145).
* The collector sweeps a file that a PUT has just reused (dn.go:147), the first chunks
  of a PUT longer than the min-age (edge.go:1302), and the parts of an open upload
  (gc.go:226). A migration writes its list by position to newer content
  (rebalance.go:392). DELETE removes files that another object with the same content
  lists (edge.go:1487). A short replica list in a preferred class is never filled up
  (rebalance.go:209).
* The placement view of a coord is not rebuilt when it applies replicated registry
  entries (coord.go:884) or loads a peer's snapshot (kvfs-coord main.go:279), nor
  when `UpdateNodes` refuses the registry (coord.go:904).
* A chunk that two objects share is in the audit's expected list twice
  (anti_entropy.go:116), so that it is reported missing on nodes that have it, and given
  up when all its owners are (anti_entropy.go:625). "hard cap on total successful
  repairs" (anti_entropy.go:428) is exceeded by up to one repair per further worker.
  `repairOne` tries only its first source; a bucket that could not be fetched counts as
  complete.
* A PUT of a chunk whose file exists keeps the file, rotten or not (dn.go:147), and a
  plain GET does not verify it. The scrubber flags a file that was deleted under it, and
  nothing clears the flag as long as the file stays away.
* `UpdateShardReplicas` addresses a shard by position; a repair or migration planned on
  older content updates newer content. Repair and rebalance hold different locks. A
  DELETE that stops half-way leaves metadata without files, and so does a part whose
  recording succeeded and was answered with an error (edge.go:706).
* A lookup under way when the cache is invalidated fills it again with what it was
  answered before (coord_client.go:136; "so a subsequent GET on the same edge sees the new
  version", 212). `CompleteMultipartUpload` and a DELETE answered by 404 do not
  invalidate at all. A change whose answer was lost is reported as failed although it
  was carried out, and one that was given up may be carried out later. An edge whose
  base coord is down tries no other.
* Changes of URL keys are not journalled, though coord.go:956 says "all journal to bbolt
  (and thus to follower coords via WAL replication)": a new leader has its own keys.
  A kid that is put again keeps its old secret on edges that poll. `PutURLKey` of the
  primary kid with `is_primary` false leaves no primary. An edge removes a kid from its
  signer before its store refuses, and has it back after a restart; the poller may
  remove a kid between the two steps of a rotation, which then answers 500 although
  the store has the new primary.

## 12. What is only model-checked

Liveness (`CampaignEnds`, `OvertakenLeaderStepsDown`, `WaiterReleased`,
`FollowerConverges`, `OrphansCollected`, `FullyPlaced`, `Healed`, `StripesPlaced`,
`KeysConverge`) is outside the prover's reach. So is what a fold or a recursive definition
computes for every input, as that takes an induction over data:

* `JournalComplete`, `FollowerMatches`, `MetaTypeOK`: replaying a journal is a fold.
* `PicksIntended`, `MovesOne`: sorting and walking a list of nodes.
* `StripeSpread`, `LossesAreFaults`, `HealTypeOK`: plans of repair and migration select
  nodes from ordered lists, and what they select is defined by a fold. `HealShape`,
  which is proved, is the part of the type invariant that does not depend on it.

And these, as yet: chunks in deployments that are not `Steady`, and the election with
restarts, where a term can be won twice (section 11).

## 13. What is not modelled

* Stateless parts: request signatures and S3 XML, the command-line client, HTTP, TLS
  and flag helpers, metrics. They change no state another part reads.
* The chunker and Reed-Solomon arithmetic: what they compute is bytes. A small instance
  of a rolling hash or of GF(2^8) tells little apart, and the modules only rely on
  chunks being given and on K shards being enough.
* The heartbeat monitor: it counts failed probes for the admin listing, and nothing
  else reads it.
* Reads of erasure-coded objects and of quorums with disagreeing replicas: they change
  no state; the modules state what a read relies on.
* Erasure-coded objects in a preferred class (`EDGE_PLACEMENT_PREFER`), whose shards
  `planEC` keeps within the class, and an edge that is told at boot which kid to sign with
  (`EDGE_URLKEY_PRIMARY_KID`).
* Dry runs of rebalance, collection and repair, listings, and the de-duplication of the
  "unrecoverable" log line.
* Wire formats: entries, snapshots, Merkle hashes and bucket listings are the values
  they encode. Time is a clock only where a duration decides (`CoordClient`), elsewhere
  a timer may fire at any moment.
