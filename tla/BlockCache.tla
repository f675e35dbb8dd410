------------------------------- MODULE BlockCache ------------------------------
(***************************************************************************)
(* The local block cache (io/cache/): CachedFileReader, LocalCache and the *)
(* CacheCoordinator in front of an in-memory LRU store, with the calls of  *)
(* FileIO that change a file in storage and then invalidate what is cached *)
(* of it (io/file_io.rs).                                                  *)
(*                                                                         *)
(* The content of a file is the number of times it has been changed, its   *)
(* version; Length gives the size of each version, 0 for a deleted file.   *)
(* A call of LocalCache that reads or publishes takes the prefix barrier,  *)
(* then the publish gate of the path, then works: the phases of a reader.  *)
(* Both are tokio locks, which let no new reader in while a writer waits.  *)
(* Who holds and who waits follows from the locations of the callers, and  *)
(* so does which Arc<PathCacheState> and which load lock is still alive.   *)
(***************************************************************************)
EXTENDS Integers, Sequences, FiniteSets, FiniteSetsExt, Functions

CONSTANTS
    Readers,           \* tasks that read files through the cache
    FullReaders,       \* those that call InputFile::read, the others use InputFile::reader
    Mutators,          \* tasks that write, delete or rename files
    Paths,
    Moves,             \* the prefixes that a delete_dir or a rename invalidates, in turn
    Versions,          \* bound: a file goes through consecutive versions
    Length,            \* Length[v]: size of version v, 0 when the file is gone
    BlockSize,
    MaxSize,           \* max_size of the memory cache
    FileSizeCapacity   \* number of file sizes kept

ASSUME BlockCacheConstants ==
    /\ IsFiniteSet(Readers) /\ IsFiniteSet(Mutators) /\ IsFiniteSet(Paths) /\ Paths # {}
    /\ FullReaders \subseteq Readers
    /\ Versions \subseteq Nat
    /\ Length \in [Versions -> Nat]
    /\ BlockSize \in Nat \ {0} /\ MaxSize \in Nat /\ FileSizeCapacity \in Nat \ {0}
    /\ Moves \subseteq Seq(SUBSET Paths) /\ <<>> \notin Moves

VARIABLES
    storage,      \* storage[p]: the version of file p
    pathStates,   \* path_states: the Weak<PathCacheState> of each path, 0 for none
    generation,   \* the generation of each PathCacheState
    sizes,        \* file_sizes: the size kept of each path
    sizeLru,      \* its keys, least recently used first
    blocks,       \* the entries of the memory cache
    blockLru,     \* its keys, least recently used first
    used,         \* current_size of the memory cache
    inFlight,     \* in_flight: the Weak load lock of each block, 0 for none
    rd,           \* the readers
    mu,           \* the mutators
    acked         \* acked[p]: the newest version whose writer has been answered

vars == <<storage, pathStates, generation, sizes, sizeLru, blocks, blockLru, used, inFlight, rd, mu,
          acked>>

states == <<pathStates, generation>>

fileSizes == <<sizes, sizeLru>>

memory == <<blocks, blockLru, used>>

coordinator == <<states, fileSizes>>

\* The last block of a file of the given size.
LastBlock(len) == (len - 1) \div BlockSize

Keys == Paths \X UNION {0..LastBlock(Length[v]) : v \in Versions}

StateIds == 1..(Cardinality(Readers) + Cardinality(Mutators) * Cardinality(Paths))

LockIds == 1..Cardinality(Readers)

IdleReader ==
    [pc |-> "idle", phase |-> "none", path |-> CHOOSE p \in Paths : TRUE, full |-> FALSE,
     state |-> 0, gen |-> 0, size |-> 0, blk |-> 0, lock |-> 0, locked |-> FALSE,
     payload |-> 0, err |-> FALSE, floor |-> 0, stale |-> FALSE]

\* No entry, whose length is 0; an entry comes from some version and has some length.
NoEntry == [version |-> 0, len |-> 0]

IdleMutator == [pc |-> "idle", prefixes |-> <<>>, isPrefix |-> FALSE, states |-> {}, wrote |-> {}]

Init ==
    /\ \E v \in Versions : v - 1 \notin Versions /\ storage = [p \in Paths |-> v]
    /\ pathStates = [p \in Paths |-> 0]
    /\ generation = [s \in StateIds |-> 0]
    /\ sizes = [p \in Paths |-> NoEntry] /\ sizeLru = <<>>
    /\ blocks = [k \in Keys |-> NoEntry] /\ blockLru = <<>>
    /\ used = 0
    /\ inFlight = [k \in Keys |-> 0]
    /\ rd = [r \in Readers |-> IdleReader]
    /\ mu = [m \in Mutators |-> IdleMutator]
    /\ acked = storage

--------------------------------------------------------------------------------
(* Locks and reference counts. *)

\* Tasks that hold the prefix barrier for reading.
BarrierReaders ==
    {r \in Readers : rd[r].phase \in {"gate", "op"}}
        \cup {m \in Mutators : ~ mu[m].isPrefix /\ mu[m].pc \in {"gate", "purge"}}

BarrierWriters == {m \in Mutators : mu[m].isPrefix /\ mu[m].pc = "purge"}

BarrierWaiters == {m \in Mutators : mu[m].pc = "barrier"}

GateReaders(s) == {r \in Readers : rd[r].phase = "op" /\ rd[r].state = s}

GateWriters(s) == {m \in Mutators : mu[m].pc = "purge" /\ s \in mu[m].states}

GateWaiters(s) == {m \in Mutators : mu[m].pc = "gate" /\ s \in mu[m].states}

\* Weak::upgrade succeeds: a token, or an invalidation that waits for the gate, holds the Arc.
IsAlive(s) == s # 0 /\ ((\E r \in Readers : rd[r].state = s) \/ GateWaiters(s) # {})

\* path_state: the state that is alive, or a new one; a gate still held is another object.
PathState(p) ==
    IF IsAlive(pathStates[p])
    THEN pathStates[p]
    ELSE CHOOSE s \in StateIds : ~ IsAlive(s) /\ GateWriters(s) = {}

\* The reference of k becomes id; one to an object that had the id before stays dead.
Refer(refs, k, id) ==
    [x \in DOMAIN refs |-> IF x = k THEN id ELSE IF refs[x] = id THEN 0 ELSE refs[x]]

\* The effect of path_state on the coordinator: a new state starts at generation 0.
UsePathState(p) ==
    /\ pathStates' = Refer(pathStates, p, PathState(p))
    /\ generation' = [generation EXCEPT ![PathState(p)] = IF IsAlive(pathStates[p]) THEN @ ELSE 0]

IsCurrent(r) == generation[rd[r].state] = rd[r].gen

HoldersOf(l) == {r \in Readers : rd[r].lock = l}

--------------------------------------------------------------------------------
(* The memory store and the file sizes: entries and the order of their use. *)

Has(store, k) == store[k].len # 0

Touch(lru, k) == Append(SelectSeq(lru, LAMBDA j : j # k), k)

SizeOf(store, ks) == SumFunction([i \in DOMAIN ks |-> store[ks[i]].len])

Without(store, ks) == [k \in DOMAIN store |-> IF k \in ks THEN NoEntry ELSE store[k]]

\* pop_lru as long as the entries, which take n bytes, are over the limit: how many go.
Evictions(store, lru, n) ==
    Min({i \in 0..Len(lru) : i = Len(lru) \/ n - SizeOf(store, SubSeq(lru, 1, i)) <= MaxSize})

\* Put the entry of k, after which n bytes are used, and evict.
PutAndEvict(k, entry, n) ==
    LET put == [blocks EXCEPT ![k] = entry]
        lru == Touch(blockLru, k)
        cut == Evictions(put, lru, n)
        out == SubSeq(lru, 1, cut)
    IN  /\ blocks' = Without(put, Range(out))
        /\ blockLru' = SubSeq(lru, cut + 1, Len(lru))
        /\ used' = n - SizeOf(put, out)

\* put_block that does not take off the size of the block it replaces.
PutBlockAddsOnly(k, entry) ==
    IF entry.len > MaxSize THEN UNCHANGED memory ELSE PutAndEvict(k, entry, used + entry.len)

\* MemoryCache::put_block.
PutBlock(k, entry) ==
    IF entry.len > MaxSize
    THEN UNCHANGED memory
    ELSE PutAndEvict(k, entry, used - blocks[k].len + entry.len)

\* remove_block and invalidate_matching: every entry of the keys goes.
RemoveBlocks(ks) ==
    /\ blocks' = Without(blocks, ks)
    /\ blockLru' = SelectSeq(blockLru, LAMBDA k : k \notin ks)
    /\ used' = used - SizeOf(blocks, SelectSeq(blockLru, LAMBDA k : k \in ks))

\* put_file_size, with a capacity in entries.
PutFileSize(p, entry) ==
    LET lru == Touch(sizeLru, p)
        cut == Max({0, Len(lru) - FileSizeCapacity})
    IN  /\ sizes' = Without([sizes EXCEPT ![p] = entry], Range(SubSeq(lru, 1, cut)))
        /\ sizeLru' = SubSeq(lru, cut + 1, Len(lru))

RemoveFileSizes(ps) ==
    /\ sizes' = Without(sizes, ps)
    /\ sizeLru' = SelectSeq(sizeLru, LAMBDA p : p \notin ps)

--------------------------------------------------------------------------------
(* The readers. *)

\* How long the block must be in a file of that size (expected_len).
BlockLength(len, b) == Min({BlockSize, len - b * BlockSize})

\* Continue a reader at a step that takes the guards first, or at one that does not.
Guarded(s, pc) == [s EXCEPT !.pc = pc, !.phase = "prefix"]

\* Guards that live as long as the reader.
PlainKeepsGuards(s, pc) == [s EXCEPT !.pc = pc]

Plain(s, pc) == [s EXCEPT !.pc = pc, !.phase = "none"]

Set(r, s) == rd' = [rd EXCEPT ![r] = s]

\* What the reader is given stems from that version; floor is what it may rely on.
Seen(s, version) == [s EXCEPT !.stale = @ \/ version < s.floor]

\* The block is in hand: on to the next one, or the read is complete.  A reader of a range
\* lets the load lock go after each block, read_full after the last one.
Take(s, version) ==
    LET t    == [Seen(s, version) EXCEPT !.payload = 0]
        last == s.blk = LastBlock(s.size)
    IN  IF s.locked /\ (last \/ ~ s.full)
        THEN [Plain(t, "release") EXCEPT !.locked = FALSE]
        ELSE IF last THEN Plain(t, "done") ELSE [Guarded(t, "get") EXCEPT !.blk = @ + 1]

Fail(s) ==
    IF s.locked
    THEN [Plain(s, "release") EXCEPT !.locked = FALSE, !.err = TRUE]
    ELSE [Plain(s, "done") EXCEPT !.err = TRUE]

\* InputFile::read (full) and InputFile::reader: the token first, then the size of the file.
Open(r, p) ==
    /\ rd[r].pc = "idle"
    /\ UsePathState(p)
    /\ Set(r, [Guarded(IdleReader, "size") EXCEPT
                   !.path = p, !.full = r \in FullReaders, !.floor = acked[p],
                   !.state = PathState(p), !.gen = generation'[PathState(p)]])
    /\ UNCHANGED <<storage, fileSizes, memory, inFlight, mu, acked>>

\* prefix_read_guard.
TakeBarrier(r) ==
    /\ rd[r].phase = "prefix"
    /\ BarrierWriters = {} /\ BarrierWaiters = {}
    /\ Set(r, [rd[r] EXCEPT !.phase = "gate"])
    /\ UNCHANGED <<storage, coordinator, memory, inFlight, mu, acked>>

\* publish_guard is granted.
GateOpen(r) ==
    /\ rd[r].phase = "gate"
    /\ GateWriters(rd[r].state) = {} /\ GateWaiters(rd[r].state) = {}

\* The block is not in the cache.
Missed(s) == Plain(s, IF s.locked THEN "load" ELSE "lock")

\* The block is published, or it was not to be: read_full goes on to its next one.
Published(s) ==
    IF s.full /\ s.blk < LastBlock(s.size)
    THEN [Guarded(s, "put") EXCEPT !.blk = @ + 1]
    ELSE Take(s, s.payload)

\* get_block and put_block look at the token when they have the gate, and not at the store if
\* it is not current; the store may be asynchronous, and does its part later.
TakeGate(r) ==
    LET s == rd[r]
    IN  /\ s.pc \in {"get", "put"} /\ GateOpen(r)
        /\ Set(r, IF IsCurrent(r) THEN [s EXCEPT !.phase = "op"]
                  ELSE IF s.pc = "get" THEN Missed(s) ELSE Published(s))
        /\ UNCHANGED <<storage, coordinator, memory, inFlight, mu, acked>>

\* LocalCache::file_size.
FileSize(r) ==
    LET p   == rd[r].path
        hit == IsCurrent(r) /\ Has(sizes, p)
        entry == sizes[p]
    IN  /\ rd[r].pc = "size" /\ GateOpen(r)
        /\ sizeLru' = IF hit THEN Touch(sizeLru, p) ELSE sizeLru
        /\ Set(r, IF hit
                  THEN [Guarded(Seen(rd[r], entry.version), "get") EXCEPT !.size = entry.len]
                  ELSE Plain(rd[r], "stat"))
        /\ UNCHANGED <<storage, states, sizes, memory, inFlight, mu, acked>>

Stat(r) ==
    LET v == storage[rd[r].path]
    IN  /\ rd[r].pc = "stat"
        /\ Set(r, IF Length[v] = 0
                  THEN Fail(rd[r])
                  ELSE [Guarded(rd[r], "putsize") EXCEPT !.size = Length[v], !.payload = v])
        /\ UNCHANGED <<storage, coordinator, memory, inFlight, mu, acked>>

\* LocalCache::put_file_size.
SaveFileSize(r) ==
    /\ rd[r].pc = "putsize" /\ GateOpen(r)
    /\ IF IsCurrent(r)
       THEN PutFileSize(rd[r].path, [version |-> rd[r].payload, len |-> rd[r].size])
       ELSE UNCHANGED fileSizes
    /\ Set(r, [Guarded(rd[r], "get") EXCEPT !.payload = 0])
    /\ UNCHANGED <<storage, states, memory, inFlight, mu, acked>>

\* LocalCache::get_block, under the gate, before and after the load lock is taken.
GetBlock(r) ==
    LET s     == rd[r]
        k     == <<s.path, s.blk>>
        hit   == IsCurrent(r) /\ Has(blocks, k)
        entry == blocks[k]
        right == entry.len = BlockLength(s.size, s.blk)
    IN  /\ s.pc = "get" /\ s.phase = "op"
        /\ blockLru' = IF hit THEN Touch(blockLru, k) ELSE blockLru
        /\ Set(r, IF ~ hit THEN Missed(s)
                  ELSE IF right THEN Take(s, entry.version) ELSE Plain(s, "remove"))
        /\ UNCHANGED <<storage, coordinator, blocks, used, inFlight, mu, acked>>

\* remove_block, which takes no guard.  Only a second wrong block in a row fails read_block.
RemoveBlock(r) ==
    LET s == rd[r]
    IN  /\ s.pc = "remove"
        /\ RemoveBlocks({<<s.path, s.blk>>})
        /\ Set(r, IF ~ s.locked THEN Plain(s, "lock")
                  ELSE IF s.full THEN Plain(s, "load") ELSE Fail(s))
        /\ UNCHANGED <<storage, coordinator, inFlight, mu, acked>>

\* The block whose load lock serves the read: read_full uses the one of block 0.
LockKey(s) == <<s.path, IF s.full THEN 0 ELSE s.blk>>

\* block_load_lock.
BlockLoadLock(r) ==
    LET k     == LockKey(rd[r])
        alive == inFlight[k] # 0 /\ HoldersOf(inFlight[k]) # {}
        l     == IF alive THEN inFlight[k] ELSE CHOOSE x \in LockIds : HoldersOf(x) = {}
    IN  /\ rd[r].pc = "lock"
        /\ inFlight' = Refer(inFlight, k, l)
        /\ Set(r, [Plain(rd[r], "wait") EXCEPT !.lock = l])
        /\ UNCHANGED <<storage, coordinator, memory, mu, acked>>

\* load_lock.lock(); read_full then looks at the cache again from its first block.
TakeLoadLock(r) ==
    LET s == [Guarded(rd[r], "get") EXCEPT !.locked = TRUE]
    IN  /\ rd[r].pc = "wait"
        /\ \A q \in HoldersOf(rd[r].lock) : ~ rd[q].locked
        /\ Set(r, IF s.full THEN [s EXCEPT !.blk = 0] ELSE s)
        /\ UNCHANGED <<storage, coordinator, memory, inFlight, mu, acked>>

\* delegate.read: a block or the whole file, as long as the reader expects it.
Load(r) ==
    LET s    == rd[r]
        v    == storage[s.path]
        upTo == IF s.full THEN s.size
                ELSE s.blk * BlockSize + BlockLength(s.size, s.blk)
        t    == IF s.full THEN [s EXCEPT !.blk = 0] ELSE s
    IN  /\ s.pc = "load"
        /\ Set(r, IF Length[v] < upTo THEN Fail(s) ELSE [Guarded(t, "put") EXCEPT !.payload = v])
        /\ UNCHANGED <<storage, coordinator, memory, inFlight, mu, acked>>

\* LocalCache::put_block, under the gate.
PublishBlock(r) ==
    LET s == rd[r]
    IN  /\ s.pc = "put" /\ s.phase = "op"
        /\ PutBlock(<<s.path, s.blk>>,
                    [version |-> s.payload, len |-> BlockLength(s.size, s.blk)])
        /\ Set(r, Published(s))
        /\ UNCHANGED <<storage, coordinator, inFlight, mu, acked>>

\* release_block_load_lock that does not look at the reference count.
ReleaseBlockLoadLockAlways(r) ==
    LET s == [rd[r] EXCEPT !.lock = 0]
        k == LockKey(s)
    IN  /\ rd[r].pc = "release"
        /\ inFlight' = IF inFlight[k] = rd[r].lock THEN [inFlight EXCEPT ![k] = 0] ELSE inFlight
        /\ Set(r, IF s.err \/ s.blk = LastBlock(s.size) THEN Plain(s, "done")
                  ELSE [Guarded(s, "get") EXCEPT !.blk = @ + 1])
        /\ UNCHANGED <<storage, coordinator, memory, mu, acked>>

\* release_block_load_lock: the last holder takes the lock out of the map.
ReleaseBlockLoadLock(r) ==
    LET s == [rd[r] EXCEPT !.lock = 0]
        k == LockKey(s)
    IN  /\ rd[r].pc = "release"
        /\ inFlight' = IF HoldersOf(rd[r].lock) = {r} /\ inFlight[k] = rd[r].lock
                       THEN [inFlight EXCEPT ![k] = 0] ELSE inFlight
        /\ Set(r, IF s.err \/ s.blk = LastBlock(s.size) THEN Plain(s, "done")
                  ELSE [Guarded(s, "get") EXCEPT !.blk = @ + 1])
        /\ UNCHANGED <<storage, coordinator, memory, mu, acked>>

\* The caller has its answer and drops the reader.
Close(r) ==
    /\ rd[r].pc = "done"
    /\ Set(r, IdleReader)
    /\ UNCHANGED <<storage, coordinator, memory, inFlight, mu, acked>>

\* The caller reads the file once more through the reader it has: same token, same size.
ReadAgain(r) ==
    /\ rd[r].pc = "done" /\ ~ rd[r].full /\ ~ rd[r].err
    /\ Set(r, [Guarded(rd[r], "get") EXCEPT !.blk = 0, !.floor = acked[rd[r].path]])
    /\ UNCHANGED <<storage, coordinator, memory, inFlight, mu, acked>>

\* The future is dropped at an await: guards, locks and the token go, the map entry stays.
Cancel(r) ==
    /\ rd[r].pc \notin {"idle", "done"}
    /\ Set(r, IdleReader)
    /\ UNCHANGED <<storage, coordinator, memory, inFlight, mu, acked>>

--------------------------------------------------------------------------------
(* The calls of FileIO that change files. *)

SetM(m, s) == mu' = [mu EXCEPT ![m] = s]

Changed(ps) == [p \in Paths |-> IF p \in ps THEN storage[p] + 1 ELSE storage[p]]

\* A writer's close or flush, or delete_file: the storage has done its part.
ChangeFile(m, p) ==
    /\ mu[m].pc = "idle" /\ storage[p] + 1 \in Versions
    /\ storage' = Changed({p})
    /\ SetM(m, [pc |-> "changed", prefixes |-> <<{p}>>, isPrefix |-> FALSE, states |-> {},
                wrote |-> {<<p, storage'[p]>>}])
    /\ UNCHANGED <<coordinator, memory, inFlight, rd, acked>>

\* delete_dir, or rename, which invalidates the source and then the target.
ChangeTree(m, move) ==
    LET ps == UNION Range(move)
    IN  /\ mu[m].pc = "idle" /\ \A p \in ps : storage[p] + 1 \in Versions
        /\ storage' = Changed(ps)
        /\ SetM(m, [pc |-> "changed", prefixes |-> move, isPrefix |-> TRUE, states |-> {},
                    wrote |-> {<<p, storage'[p]>> : p \in ps}])
        /\ UNCHANGED <<coordinator, memory, inFlight, rd, acked>>

\* begin_path_invalidation: the barrier for reading, then the state of the path.
EnterPathInvalidation(m) ==
    LET p == CHOOSE q \in Head(mu[m].prefixes) : TRUE
    IN  /\ mu[m].pc = "changed" /\ ~ mu[m].isPrefix
        /\ BarrierWriters = {} /\ BarrierWaiters = {}
        /\ UsePathState(p)
        /\ SetM(m, [mu[m] EXCEPT !.pc = "gate", !.states = {PathState(p)}])
        /\ UNCHANGED <<storage, fileSizes, memory, inFlight, rd, acked>>

\* An invalidation that leaves the file sizes.
BumpGenerationsOnly(ss, ps) ==
    /\ generation' = [s \in StateIds |-> generation[s] + IF s \in ss THEN 1 ELSE 0]
    /\ UNCHANGED fileSizes

\* What an invalidation does once it has its gates: new generations, and the sizes go.
BumpGenerations(ss, ps) ==
    /\ generation' = [s \in StateIds |-> generation[s] + IF s \in ss THEN 1 ELSE 0]
    /\ RemoveFileSizes(ps)

\* An invalidation that does not wait for those that read or publish under the gate.
BeginPathInvalidationEarly(m) ==
    /\ mu[m].pc = "gate"
    /\ \A s \in mu[m].states : GateWriters(s) = {}
    /\ BumpGenerations(mu[m].states, Head(mu[m].prefixes))
    /\ SetM(m, [mu[m] EXCEPT !.pc = "purge"])
    /\ UNCHANGED <<storage, pathStates, memory, inFlight, rd, acked>>

BeginPathInvalidation(m) ==
    /\ mu[m].pc = "gate"
    /\ \A s \in mu[m].states : GateReaders(s) = {} /\ GateWriters(s) = {}
    /\ BumpGenerations(mu[m].states, Head(mu[m].prefixes))
    /\ SetM(m, [mu[m] EXCEPT !.pc = "purge"])
    /\ UNCHANGED <<storage, pathStates, memory, inFlight, rd, acked>>

\* begin_prefix_invalidation asks for the barrier.
QueueForBarrier(m) ==
    /\ mu[m].pc = "changed" /\ mu[m].isPrefix
    /\ SetM(m, [mu[m] EXCEPT !.pc = "barrier"])
    /\ UNCHANGED <<storage, coordinator, memory, inFlight, rd, acked>>

\* The barrier is granted; every state that is alive under the prefix is locked and moved on.
BeginPrefixInvalidation(m) ==
    LET ps == Head(mu[m].prefixes)
        ss == {s \in {pathStates[p] : p \in ps} : IsAlive(s)}
    IN  /\ mu[m].pc = "barrier"
        /\ BarrierReaders = {} /\ BarrierWriters = {}
        /\ \A s \in ss : GateReaders(s) = {} /\ GateWriters(s) = {}
        /\ BumpGenerations(ss, ps)
        /\ SetM(m, [mu[m] EXCEPT !.pc = "purge", !.states = ss])
        /\ UNCHANGED <<storage, pathStates, memory, inFlight, rd, acked>>

\* The store drops the blocks, the guards go; after the last prefix the caller is answered.
Purge(m) ==
    LET left == Tail(mu[m].prefixes)
    IN  /\ mu[m].pc = "purge"
        /\ RemoveBlocks({k \in Keys : k[1] \in Head(mu[m].prefixes)})
        /\ IF left = <<>>
           THEN /\ SetM(m, IdleMutator)
                /\ acked' = [p \in Paths |-> Max({acked[p]} \cup {w[2] : w \in
                                                 {x \in mu[m].wrote : x[1] = p}})]
           ELSE /\ SetM(m, [mu[m] EXCEPT !.pc = "changed", !.prefixes = left, !.states = {}])
                /\ UNCHANGED acked
        /\ UNCHANGED <<storage, coordinator, inFlight, rd>>

\* The call is dropped, or ends with an error although the storage has made the change.
Abandon(m) ==
    /\ mu[m].pc # "idle"
    /\ SetM(m, IdleMutator)
    /\ UNCHANGED <<storage, coordinator, memory, inFlight, rd, acked>>

--------------------------------------------------------------------------------

\* The steps of a call under way, which its executor takes whenever they can be taken.
ReaderStep(r) ==
    \/ TakeBarrier(r) \/ TakeGate(r) \/ FileSize(r) \/ Stat(r) \/ SaveFileSize(r)
    \/ GetBlock(r) \/ RemoveBlock(r) \/ BlockLoadLock(r) \/ TakeLoadLock(r) \/ Load(r)
    \/ PublishBlock(r) \/ ReleaseBlockLoadLock(r)

MutatorStep(m) ==
    \/ EnterPathInvalidation(m) \/ BeginPathInvalidation(m)
    \/ QueueForBarrier(m) \/ BeginPrefixInvalidation(m) \/ Purge(m)

Next ==
    \/ \E r \in Readers :
        \/ \E p \in Paths : Open(r, p)
        \/ TakeBarrier(r)
        \/ TakeGate(r)
        \/ FileSize(r)
        \/ Stat(r)
        \/ SaveFileSize(r)
        \/ GetBlock(r)
        \/ RemoveBlock(r)
        \/ BlockLoadLock(r)
        \/ TakeLoadLock(r)
        \/ Load(r)
        \/ PublishBlock(r)
        \/ ReleaseBlockLoadLock(r)
        \/ Close(r)
        \/ ReadAgain(r)
        \/ Cancel(r)
    \/ \E m \in Mutators :
        \/ \E p \in Paths : ChangeFile(m, p)
        \/ \E move \in Moves : ChangeTree(m, move)
        \/ EnterPathInvalidation(m)
        \/ BeginPathInvalidation(m)
        \/ QueueForBarrier(m)
        \/ BeginPrefixInvalidation(m)
        \/ Purge(m)
        \/ Abandon(m)

Spec == Init /\ [][Next]_vars

--------------------------------------------------------------------------------
(* Properties. *)

\* A read that begins after a change of the file has been answered returns nothing older than
\* that change, neither a block nor a file size: a load that was under way when the file
\* changed cannot publish what it has read (is_current under the publish gate), whichever
\* tokens, dropped states, cancelled readers and abandoned invalidations came before.
FreshReads ==
    \A r \in Readers : ~ rd[r].stale

\* Caching adds no errors: when every change was answered before the reader was opened and
\* nothing has changed since, a read fails only because the file is gone, never because a
\* cached size or block does not fit the file (the DataInvalid ends of read_block, read_full).
ErrorsAreReal ==
    \A r \in Readers :
        LET s == rd[r]
        IN  s.pc = "done" /\ s.err /\ IsCurrent(r) /\ s.floor = storage[s.path]
                => Length[storage[s.path]] = 0

\* One reader at a time loads under the load lock of a block: the map of weak locks never hands
\* out a second lock while the first is in use, though its entry is removed by the last holder
\* only and outlives cancelled ones (block_load_lock, release_block_load_lock).  read_full loads
\* all blocks under the lock of block 0, so that another reader may load one of them beside it.
SingleFlight ==
    \A r, q \in Readers :
        r # q /\ rd[r].locked /\ rd[q].locked => LockKey(rd[r]) # LockKey(rd[q])

\* The tasks never all wait for each other on the barrier, the gates and the load locks: while
\* a call is under way, some call can take its next step.
NoDeadlock ==
    LET busyReaders  == {r \in Readers : rd[r].pc \notin {"idle", "done"}}
        busyMutators == {m \in Mutators : mu[m].pc # "idle"}
    IN  busyReaders \cup busyMutators # {} =>
            (\E r \in busyReaders : ENABLED ReaderStep(r))
                \/ (\E m \in busyMutators : ENABLED MutatorStep(m))

\* The memory store counts exactly what it holds and stays within max_size, however puts,
\* replacements, removals and evictions follow each other.
StoreWithinLimit ==
    /\ used = SizeOf(blocks, blockLru) /\ used <= MaxSize
    /\ Range(blockLru) = {k \in Keys : Has(blocks, k)}
    /\ Cardinality(Range(blockLru)) = Len(blockLru)

================================================================================
