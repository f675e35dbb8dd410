# Verification of the Paimon table protocols

TLA+ models of the parts of this repository where several processes, retries,
crashes or stale state meet: committing to a table, statements on row-tracking
tables, publishing and finding snapshots, rolling back, travelling in time, reading
continuously, and caching blocks of files in memory and on disk. TLC checks them on
small instances; TLAPS proves the main results for every instance.

Paths below are relative to `crates/paimon/src/` unless they say otherwise.

## 1. The system and its parts

| part | state | operations | hard behaviours | modules |
|---|---|---|---|---|
| table commit (`table/table_commit.rs`) | snapshot history, locals of `try_commit`, prepared files | commit, commit on an expected snapshot, overwrite, truncate, drop partitions, filter-and-commit, abort | lost answers, late requests, retries on a moving table, cached scans, callbacks that fail, crash and resubmission | `TableCommit`, `AtomicTable`, `CommitRefinement` |
| snapshot publication (`table/snapshot_manager.rs`, `table/snapshot_commit.rs`, `crates/paimon-rest-server`) | `snapshot-<id>` files, LATEST hint | `get_latest_snapshot`, `commit_snapshot` | check-then-rename races, torn and late hints, rename that reports an error | `SnapshotManager` |
| rollback (`crates/integrations/datafusion/src/procedures.rs`) and tags (`table/tag_manager.rs`) | the above, EARLIEST hint, tag files | `rollback_to`, `rollback_to_timestamp`, `create_tag` | a crash between any two files, a commit in between, ids used twice | `Rollback` |
| time travel (`table/snapshot_manager.rs`, `table/time_travel.rs`) | the listing, `lo`, `hi` | three binary searches | equal keys, missing keys, unsigned positions | `TimeTravel` |
| continuous reading (`table/stream_table_scan.rs`, `table/consumer_manager.rs`) | checkpoint, miss counter, consumer file | `plan`, `restore`, `notify_checkpoint_complete` | expiration and rollback under the reader, torn consumer file, restart, failed plan | `StreamScan` |
| data evolution (`table/data_evolution_*.rs`, `table/table_update_delete.rs`, `table/table_merge_into.rs`, `table/table_commit/`, global index builds) | files with row ids, deletion vectors, global indexes, `next_row_id` | insert, update, delete, merge, drop partition, overwrite, build index, and the checks of their commits | statements prepared on one snapshot and committed on another, row ids reassigned by a retry, an index built from an old snapshot | `DataEvolution` |
| block cache (`io/cache/`, `io/file_io.rs`) | blocks, file sizes, generations, gates, barrier, load locks | read, invalidate path or prefix | a load racing an invalidation, locks that queue, dropped futures | `BlockCache` |
| disk block store (`io/cache/disk.rs`) | block files, index of entries, index by path, size counter | get, put, remove, invalidate, recover | eviction and lookups racing a put, a rename that lands late, restart | `DiskCache` |
| writers and bucket assignment (`table/table_write.rs`, `table/bucket_assigner_*.rs`) | hash index, open files | write, prepare_commit | index restored from an old snapshot | not modelled |
| scan planning (`table/table_scan.rs`, `table/bin_pack.rs`, `table/merge_tree_split_generator.rs`, `table/incremental_scan.rs`) | none | pure algorithms | overlaps and boundaries | not modelled |
| format tables, branches, schemas, token refresh | directories, token | commit by rename, copy, refresh | partial failure | not modelled |
| indexes, formats, Arrow, data types, storage backends, bindings | data | encode, decode, search | none of control | not modelled |

`PROJECT.json` lists every component, the hazards at their source lines and, for
each definition, the lines it stands for.

The parts meet in the snapshot directory. `TableCommit` uses the publisher by the
contract of the `SnapshotCommit` trait (one winner per id, an error leaves the
outcome open); `SnapshotManager` models what the file-system publisher does, and
shows where it departs from that contract. `Rollback` extends `SnapshotManager`.
`StreamScan` sees the table as a log that other processes extend, expire and cut.
`DataEvolution` takes from `TableCommit` how an attempt is sent, lost and retried, and
adds what the attempt checks and writes on a table with row ids. Data and index files
are read through `BlockCache`, which uses the memory store it includes or the store
of `DiskCache`; `DiskCache` takes from it which lookups, puts and invalidations may
run beside each other.

## 2. Models

### TableCommit

One committer is one `TableCommit` with its own commit user; its k-th operation has
the commit identifier k. `hist` is the list of published snapshots, `files` the data
files in storage, `late` the publication requests whose answer was lost and which
may still be applied. `plan`, `status` and `call` are the operation, where its call
is, and the locals of `try_commit`. The committers in `Callbacks` have commit callbacks.
A callback that fails after the publication makes the call return an error without the
mark "outcome may be unknown", so that an error tells the caller of such a committer
nothing. `abort` is documented for writes that are known to be uncommitted
(`table/table_commit.rs:922`); `Abort` is a step of committers without callbacks after
an unmarked error, and nobody else's.

| action | code |
|---|---|
| `SubmitDirect`, `SubmitExpected`, `SubmitOverwrite` | the public entry points, up to the call of `try_commit` |
| `Resubmit` | the caller's retry with the same identifier, with the filter on |
| `AttemptFiltered`, `AttemptMissingFiles`, `AttemptDuplicate`, `AttemptRejected`, `AttemptError`, `AttemptSend` | one iteration of the loop up to the publication request, by the way it ends |
| `PublishWins`, `PublishLoses`, `PublishErrors`, and the two `...CallbackFails` | the answer, and what the loop does with it |
| `DeliverLate`, `Crash`, `Abort`, `CleanOrphans` | the environment and the caller |

One iteration is one step: snapshots and manifests do not change once published, so
all that it reads is fixed by the snapshot that it took as the latest. A manifest
list is the set of files that its entries merge to; a file has one row. The
conflict base of a retry (`IncrementalBase`) is computed as the code does, from the
base of the attempt before and the deltas since; for an overwrite it may keep files
of partitions that no longer change, which only makes the check stricter. The break
for empty entries inside the loop is the same test as the early return and is
folded into `EarlyReturn`.

Left out: entries of the index manifest, deletion vectors and row ids (see
`DataEvolution`), bucket ownership, the batch filter of `filter_and_commit` (each of
its commits is a `Resubmit`), and the fallback to a full scan when a snapshot in
between has expired (snapshots do not expire here).

### AtomicTable and CommitRefinement

`AtomicTable` is the promise: a table is one set of files, a request is pending
from when it is asked for, and it is applied whole, at most once, in the order of
its user's identifiers, on the table as it is then. `CommitRefinement` maps
`TableCommit` to it.

### SnapshotManager

Each writer runs the lookup and then `commit_snapshot`, one storage call per step:
`ReadHint`, `CheckNext`, `ListFiles`, `GetSnapshot`, `CheckTarget`, `Rename` (or
`RenameFails`, or `RenameAnswerLost`), `Recheck`, `WriteTarget`, `BeginHint`,
`EndHint`. A hint file is truncated and then written; in between, it reads as no hint. A snapshot file holds
a version that no other attempt has, so that a file written twice is noticed.

### Rollback

The procedure's storage calls, one per step, next to the writers of
`SnapshotManager`. With `Overlap = FALSE` each call begins when no other runs. There
is at most one tag per snapshot id, and users do not delete or rename tags. The version
of a snapshot is also its commit time, which is thus larger for a later commit, whatever
its id: `RollbackToTimestamp` compares the times of snapshots and tags, as
`earlier_or_equal_from_all` does, and may choose a tag whose id another snapshot has.

### TimeTravel

The three loops, one iteration per step, over any listing with keys in order.
`lo` and `hi` are `usize`, so a value below zero is an error.

### StreamScan

`plan` by storage calls, the caller that processes and acknowledges, the consumer
file that may be torn, and the restart from an acknowledged checkpoint.
`PollPeriod` is the 16 of the code.

### DataEvolution

A table with row ids. A file holds some columns of a range of row ids; an update adds
a file with the new values of its columns, a delete replaces the deletion vectors of
the bucket, an index file covers a range of row ids of one column. A committer
prepares one statement from the latest snapshot (`Insert`, `Update`, `Delete`,
`MergeInto`, `DeletePartition`, `Overwrite`, `BuildIndex`) and then commits it:
`Attempt` is one iteration of `try_commit` with all the checks of `resolve_commit`
(`Allowed`), `Publish` and `LoseRace` are the answer. `AssignRowTracking` is
`assign_row_tracking`, with the counters of the code for blob and vector files.

A value is who wrote it and for which of its rows, so that a value in the wrong row
or an old value is noticed. `ReadTable` is what the reader makes of the files of a
snapshot (grouping, newest file per column, anchor file for deletions); the property
`ReadsAreSerial` compares it with the statements run on a plain table.

Left out: updates of blob columns, `global-index.column-update-action = ignore`
(which leaves stale indexes on purpose), HASH index entries, commits on an expected
snapshot, and rows with ids given by the writer. COMPACT commits are not accepted by
this implementation. An index is committed by the caller of `build()`; `execute()`
is stricter.

### BlockCache

A reader opens a file (`Open`: the token with the generation of the path), finds or
asks for its size (`FileSize`, `Stat`, `SaveFileSize`), and reads block after block:
`GetBlock`, `RemoveBlock`, `BlockLoadLock`, `TakeLoadLock`, a second `GetBlock`,
`Load`, `PublishBlock`, `ReleaseBlockLoadLock`. Each call of the cache takes the
barrier and the gate first (`TakeBarrier`, `TakeGate`). A mutator changes storage
(`ChangeFile`, `ChangeTree`) and then invalidates a path or one prefix after another.
Futures may be dropped at any await (`Cancel`, `Abandon`). Who holds a lock follows
from where the tasks are, and so does which state behind a `Weak` is still alive.
The content of a file is its version; versions have lengths, so that a size and a
block may disagree.

Left out: which paths are cacheable, a backend outside the process, and the limit of
1024 on the maps of weak references, which only drops dead ones.

### DiskCache

One step is one file system call, or one hold of the lock of `CacheState`. A block
file is whole, or torn by a crash of the machine. The directory is a version per block
(`files`) and the order in which they were written; the index is the keys of the
`IndexMap` (`entries`), their order, the second index by path (`paths`), which
`invalidate_matching` searches, and the counter. `EvictTo` takes entries out of the
index under the lock and their files afterwards (`DeleteFile`). `Recover` is the scan of
the first call; `Restart` a new process with the files of the old one. A put that
is dropped at its rename leaves the rename to a thread (`LateRename`). The limit may
be lowered by another user of the same directory (`TightenMaxSize`).

Which calls meet is what the coordinator allows. An invalidation of a prefix holds the
barrier and is alone (`Barred`, `TakeBarrier`), after it has read the directory without
it. An invalidation of a path waits for the lookups and puts of the path that are under
way (`InvalidatePath`), but those that begin after it run beside it: the gate that it
holds belongs to a `PathCacheState` that is kept alive by tokens only, so that the next
token may have a new state and a new gate (`io/cache/state.rs:146`). A put then carries
what it read after the invalidation began (`floor`). `remove_block` takes no guard.

## 3. What is checked

| run | bounds | what it shows |
|---|---|---|
| `commit_once` | 2 committers, one with callbacks, 2 operations each, 1 retry, 2 faults, fairness | operations are published at most once and in order; Ok means published; without callbacks a plain error means not published; no snapshot names a missing file; every call returns |
| `overwrite_conflicts` | 3 committers, 2 partitions, 1 operation each, 2 retries, 1 fault | the protocol implements `AtomicTable`; deltas fit their base, counts are exact, overwrites replace, the incremental conflict base is complete after one and after two lost races; an expected snapshot is the base |
| `publish` | 2 writers, 3 commits, 1 crash, 1 lost rename answer, renames that work or fail | the lookup finds the newest snapshot and never goes back, ids have no gap, a refused snapshot is in the table only if the answer of its rename was lost |
| `rollback` | snapshots 3 and 4, tags on 1, 2, 4, 3 rollbacks, 2 commits, 2 crashes, 1 lost rename answer | a rollback that returns is at its target, with the exceptions below; at every step and after every crash a lookup is right or fails, and what it misses is in a tag; without crashes tags and the EARLIEST hint are right |
| `time_travel` | up to 5 snapshots, 4 keys, fairness | results, positions, termination |
| `stream_scan` | 3 ids, 1 fault, 1 rollback, fairness | without a rollback nothing missed and every event arrives; nothing repeated until something fails or restarts; no false alarm; a checkpoint outside the table is reported |
| `data_evolution` | 3 statements of 7 kinds, 2 partitions, updates of rows 0 and 2, deletes of rows 0 to 2, 1 retry | snapshots read as the statements in commit order; row ids are used once; files of a group are aligned; indexes and deletion vectors are right; only real conflicts are refused |
| `block_cache` | 2 readers, 2 mutators, one file: of one block, rewritten with the same size and deleted, or rewritten with another size; or of two blocks that do not fit the store together, rewritten with a longer second block, so that one of the readers replaces it by a block of another length | reads are as new as the last completed invalidation; errors have a cause; one load per load lock; no deadlock; the store keeps its limit |
| `disk_cache` | 2 blocks, 2 tasks, 1 fault (a failed file operation, a dropped future, a tightened limit or a restart), limit 1, tightened to 0 | hits are as new as the last completed invalidation of this process; the counter is exact; eviction takes what it must |

Two committers are enough for one to lose to the other; three let the table move
between the attempts of an overwrite, twice. Truncating is in no run: it is the action
of an overwrite without new files, which the theorems cover. The first retry shows a stale cache and
a late request, the second a base built on a base. (A rewrite of an existing file
that loses twice would need a fourth committer.) Two faults put a lost answer and a
crash into one operation. Three rollbacks are what it takes to leave a gap and to roll
back below it: one dies before it deletes the newer tags, one restores such a tag on
top of what is left, one goes below. Three stream ids are one for the initial plan and
two follow-ups, so that a reader can be behind by more than one. Symmetry is used for
committers (apart by callbacks), partitions, mutators and writers in runs without liveness
properties. Deadlock is
not checked: when the bounds are used up the system stops.

Runs that find a disagreement with what the code or its documentation says:

| run | what happens | what is said |
|---|---|---|
| `rollback_to_timestamp` | a time served only by a tag: newer snapshots are deleted, the tagged one is not restored | `docs/src/sql.md:1111` |
| `equal_times` | of several snapshots with the commit time asked for, the search returns the one that it probes first, not the first one | `table/snapshot_manager.rs:343` |
| `disk_max_size` | a lookup whose file was evicted forgets the entry that a put has just recorded; the file is then counted by nobody and the store outgrows its limit | `docs/src/getting-started.md:388` |

Five more disagreements are known from these models and are excluded by name in the
properties above:

- Two writers can see the target of a snapshot missing and both rename; both get
  `true` and one snapshot is lost (`table/snapshot_commit.rs:37` promises one winner,
  a TODO at `table/snapshot_manager.rs:285` knows of the window).
- A rename that worked but reported an error makes `commit_snapshot` return `false` for
  its own snapshot, and `try_commit` does not take it as uncertain
  (`RefusedOnlyByLostAnswer`).
- A rollback dies before it deletes the newer tags, a commit uses the id again, and
  rolling back to the old tag, by its name or by its time, ends on the new snapshot
  (`RollbackReachesTarget`).
- A callback that fails after the publication leaves an error that does not say so
  (`PlainFailureIsNotPublished` is about committers without callbacks, `LiveFilesExist`
  about callers that do not abort after it).
- A rollback and new commits past the checkpoint are not noticed by a continuous
  reader, although `table/stream_table_scan.rs:157` speaks of recreated tables
  (`NothingMissed`).

What the properties leave open on purpose: `TimeIsFound` speaks of the time that a
search finds, `TimeFindsFirst` of the position; a rollback that dies before it restores a snapshot leaves a LATEST hint that names a
missing one, so that lookups fail until the rollback is repeated
(`LookupNeverStale`); a rollback to a snapshot below a gap that an earlier crash left
writes the hint while the snapshots above the gap are still there, and a lookup in
between finds the older one (`LookupNeverStale`, `GapOnlyBelowRestored`); and a
rollback does not overlap a commit (`Overlap = FALSE`), whose late hint could name a
snapshot that is deleted.

For the cache: a change whose call is dropped, or fails after storage applied it, is not
invalidated (`Abandon`), and old blocks are served until the next invalidation; a whole
file is read under the load lock of its first block (`io/cache/reader.rs:140`), so that
its other blocks may be loaded beside a reader of a range (`SingleFlight` is about each
lock); a rename that lands after a newer put leaves old bytes under a recorded entry (a
lookup that reads a file in `landed` relies on nothing); and a block file that no entry counts survives
an invalidation and is recovered by the next process, so that `FreshHits` speaks of one
process. The documentation asks for files that do not change.

### Fairness

`commit_once`: weak fairness of the steps inside a call and of the answer. A task
that is awaited is polled, and a storage or REST call returns or times out. Callers,
faults and late requests have none. `time_travel`: weak fairness of the loop.
`stream_scan`: weak fairness of the reader's own steps; the documentation of
`StreamTableScan` leaves polling to the client.

## 4. What is proved

For all values of the constants, from the named assumptions on them only. Each proof
goes by an inductive invariant, action by action; TLC checked the invariant on a small
instance before it was proved.

- `TableCommitProofs`: `TypeCorrect`, `CommitOnce`, `AcknowledgedCommit`,
  `PlainFailure`; the lemmas, one per action, are in `CommitProofs`. The properties are
  not inductive: a request in `late` or in flight could be a second copy. The invariant `IdempotenceInv` adds that identifiers in
  flight are newer than those published (`OrderInv`), that a committer finds its own
  commit wherever it looks for it: above `dupStart` after a retry, through the filter in
  a resubmission, nowhere in a fresh call (`OwnCommitInv`), and that without a doubt the
  operation of a committer without callbacks is nowhere (`DoubtInv`). A step of one committer disturbs the others only by
  appending to the history (`OthersUndisturbed`), so that the proof is about the one
  that moves (`ActorStep`).
- `TableCommitProofs`: `LiveFilesExistAlways`, `DeltaFitsBaseAlways`,
  `OverwriteReplacesAlways`, `ConflictBaseSoundAlways`, `ExpectedSnapshotIsBaseAlways`,
  and the refinement `CommitIsAtomic`: `TableCommit` implements `AtomicTable`. What the
  lemmas need of cardinalities is the law `FilesAreCounted`, which `FilesCount` proves
  from the theorems on finite sets. The invariant `IInv` adds to the above that files
  carry the operation that wrote them and those of a request are in storage (`FileInv`),
  that the deltas between any two snapshots merge to the difference of their files
  (`MergeInv`), and that every request, in flight or late, fits the snapshot it was
  prepared on, with an exact overwrite cache and an exact conflict base (`ContentInv`).
  `MergeInv` is what makes the base that a retry builds from the base before and the
  deltas since equal to a full scan (`IncrementalIsExact`), and a cache that only
  foreign appends have followed still exact (`CacheIsExact`). For the refinement, a
  publication, its own or late, is `Apply` of the request that the caller asked for
  (`SentAsAsked`), a call or a resubmission is `Ask`, and all else gives up requests or
  stutters.
- `SnapshotManagerProofs`: `TypeCorrect`, `IdsHaveNoGap`, `LookupCorrect`,
  `LookupFresh`, `RefusalsAreTrue`, from `TypeOK`, what the directory looks like at each
  step of a lookup (`DirectoryInv`) and which writer a version belongs to
  (`VersionInv`). That a listing has a greatest id, and that the walk from a hint ends
  at it, is argued on the least counterexample (`HasLeast`).
- `RollbackProofs`: `ReachesTargetAlways`, `LookupNeverStaleAlways`,
  `GapOnlyBelowRestoredAlways`, `RollbackIsCleanAlways`, for calls that do not overlap
  (`~Overlap`, as in the run) and any number of rollbacks, commits, tags and crashes.
  The invariant says for each step of a rollback what it has already done to the hint,
  the snapshot files and the tags, and that its target has the commit time it was chosen
  for unless a rollback has died before (`RollbackInv`), that a hint names a snapshot or a
  tag, and what holds as long as no rollback has died (`CleanInv`).
- `ReadingProofs`, for `TimeTravel`: `TimesCorrect`, `WatermarkCorrect`,
  `SearchInBounds`, from the loop invariant `SearchInv`: below `lo` everything is too
  early, and the answer so far is next to `hi` (or the mirror image).
- `ReadingProofs`, for `StreamScan`: `TypeCorrect`, `MissesNothing`, `RepeatsNothing`,
  `AlarmsAreTrue`. The invariant `StreamInv` says that everything before the
  checkpoint, the acknowledged one and the consumer file is processed or held
  (`CoverInv`), that versions grow along the log (`VersionInv`), and that until
  something fails nothing from the checkpoint on was handed out (`RepeatInv`).
- `BlockCacheMutatorProofs`, `BlockCacheProofs`: `ReadsAreFresh`, `LoadsAreSingle`,
  `ErrorsAreTrue`. The invariant `FreshInv` (module `BlockCacheInvariant`) says what
  each reader and mutator holds at each step, that a reader whose token is current
  carries content that no completed invalidation has outdated, and that every cached
  block and size fits what the mutators have still to invalidate; the steps of the
  mutators, with the lemmas on what a step leaves alone (`Moved`, `PlainMoves`,
  `GuardedMoves`), and those of the readers are in a module each. `FlightInv` adds that
  the load locks in use are those in the map, each for one block. `ErrorInv` adds that
  every cached size, every cached block and the size that a current reader knows belong
  to a version of the file that some mutator may still have to invalidate (`KnownSize`,
  `KnownBlock`): for a reader under which nothing has changed that version can only be
  the present one, and what it expects is what the file has.
- `DiskCacheProofs`: `HitsAreFresh`, which is `FreshHits`, and `IndexesAgree`. A file
  that an invalidation could not delete stays on disk, so that freshness is about the
  index: the invariant `DiskInv` says that the file behind an entry, behind a lookup that
  has found its entry, and behind a put that has renamed its file is not older than what
  the lookup may rely on, and that what an invalidation has still to acknowledge is
  purged, or was put by a call that began beside it. The two indexes must agree, since an
  invalidation searches the one by path.

Only model-checked:

- liveness (`CallsReturn`, `Terminates`, `OutsideIsReported`, `EventsArrive`) and
  `NoDeadlock`, which speaks of `ENABLED`: the prover handles neither;
- `StoreWithinLimit`, `IndexIsExact` and `EvictionKeepsLimit`, which add up sizes along
  a list: a fact about a sum over every list needs an induction that the prover cannot
  instantiate;
- the properties of `DataEvolution`, whose reader folds the files of a snapshot.

## 5. Not modelled

- Writers, dynamic bucket assignment, split packing, merge reads, incremental scans:
  sequential algorithms on data, to be compared with reference definitions rather than
  interleaved; the assigner's hash index is loaded once per writer and has no second
  actor.
- Format table commits, branches and schema changes: sequences of file operations
  without retries or a protocol between processes; tags are modelled as far as rollback
  uses them, without renaming and retention.
- Token refresh of the REST client: requests and responses are I/O.
- Wall clocks: `time_millis` need not grow with snapshot ids, and the elapsed time of a
  commit (`table/table_commit.rs:1103`) may underflow when the clock steps back.
- DELETE and MERGE of the DataFusion integration on data evolution tables match rows by a
  query on one snapshot and prepare the commit on another
  (`crates/integrations/datafusion/src/delete.rs:88`, `merge_into.rs:696`); `DataEvolution`
  has statements that match and prepare on one snapshot, as the native writers do.
- `global-index.column-update-action = throw`: `DataEvolution` has it (`DropIndex`), the
  run drops the indexes.
- Committers that share a commit user, or use one identifier twice.
- Formats, Arrow conversion, index structures, storage backends and bindings:
  sequential transformations of data, or wrappers.
