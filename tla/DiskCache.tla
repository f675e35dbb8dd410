------------------------------- MODULE DiskCache -------------------------------
(***************************************************************************)
(* The persistent store of the block cache (io/cache/disk.rs): an index of *)
(* blocks in memory, under a mutex, over one file per block.  Every file   *)
(* operation is a step of its own between two uses of the index.           *)
(*                                                                         *)
(* A key stands for the one block of a path.  The callers are as the       *)
(* coordinator lets them be (io/cache/state.rs, module BlockCache).  An    *)
(* invalidation of a path waits for the gets and puts of the readers that  *)
(* are open and makes their tokens old; it keeps their gate, not their     *)
(* state, so a reader that opens while it purges has a gate of its own and *)
(* its gets and puts run beside the purge.  An invalidation of a prefix    *)
(* runs beside no get, put or invalidation.  A put carries content read    *)
(* after the last invalidation had its gate (floor).  remove_block is not  *)
(* guarded.  A future that is dropped does not stop the file operation it  *)
(* waits for: that one runs on a thread of its own and lands later.        *)
(***************************************************************************)
EXTENDS Integers, Sequences, FiniteSets, SequencesExt

CONSTANTS
    Keys,
    Rewritten,     \* the keys whose files are changed in storage
    Tasks,
    Size,          \* Size[k]: encoded size of the block of k
    MaxSize,       \* configured max_size
    TightSize,     \* the max_size of another cache manager on the same directory
    MaxVersion,    \* bound: changes of one file
    MaxFaults      \* bound: failed file operations, dropped futures, tightenings, restarts

ASSUME DiskCacheConstants ==
    /\ Rewritten \subseteq Keys
    /\ Size \in [Keys -> Nat]
    /\ MaxSize \in Nat /\ TightSize \in Nat /\ TightSize <= MaxSize
    /\ MaxVersion \in Nat /\ MaxFaults \in Nat

VARIABLES
    storage,     \* storage[k]: version of the file in storage
    floor,       \* floor[k]: the version that a put must at least carry
    acked,       \* acked[k]: the newest version whose invalidation this process has completed
    files,       \* files[k]: version of the block file of k
    written,     \* the keys with a file, oldest modification first
    entries,     \* the keys of the index
    order,       \* their order in it, least recently used first
    paths,       \* the keys of the second index, by path, that invalidations search
    used,        \* current_size
    max,         \* max_size
    recovered,   \* has ensure_recovered run?
    late,        \* renames whose put was dropped and that have not happened yet
    landed,      \* the keys whose file is what one of those left
    task,        \* the calls under way
    faults

vars == <<storage, floor, acked, files, written, entries, order, paths, used, max, recovered, late,
          landed, task, faults>>

disk == <<files, written>>

index == <<entries, order, paths, used>>

world == <<storage, floor, acked, max, recovered>>

dropped == <<late, landed>>

Torn == -1

NoFile == -2

None == [k \in Keys |-> 0]

\* What an invalidation may acknowledge when it returns, and what a get may rely on: floor.
Idle == [call |-> "none", pc |-> "idle", keys |-> {}, todo |-> {}, version |-> 0, floor |-> None]

Init ==
    /\ storage = [k \in Keys |-> 1]
    /\ floor = storage
    /\ acked = None
    /\ files = [k \in Keys |-> NoFile] /\ written = <<>>
    /\ entries = {} /\ order = <<>> /\ paths = {} /\ used = 0
    /\ max = MaxSize
    /\ recovered = FALSE
    /\ late = {} /\ landed = {}
    /\ task = [t \in Tasks |-> Idle]
    /\ faults = 0

\* One of the faults that a run allows.
Fault == faults < MaxFaults /\ faults' = faults + 1

--------------------------------------------------------------------------------
(* Files and index. *)

HasFile(k) == files[k] # NoFile

\* A rename onto the block's name, and its removal.
WriteFile(k, version) ==
    /\ files' = [files EXCEPT ![k] = version]
    /\ written' = Append(Remove(written, k), k)

RemoveFile(k) ==
    /\ files' = [files EXCEPT ![k] = NoFile]
    /\ written' = Remove(written, k)
    /\ landed' = landed \ {k}

IsActive(k) == k \in entries

SizeOf(ks) == FoldLeft(LAMBDA sum, k : sum + Size[k], 0, ks)

\* A key becomes the most recently used one.
Refreshed(es, k) == Append(Remove(es, k), k)

\* forget_entry, remove_state_entry.
ForgetEntries(ks) ==
    /\ entries' = entries \ ks
    /\ order' = SelectSeq(order, LAMBDA k : k \notin ks)
    /\ paths' = paths \ (ks \cap entries)
    /\ used' = used - SizeOf(SelectSeq(order, LAMBDA k : k \in ks))

\* collect_evictions on entries in the order es that take n bytes: how many of the oldest go.
Evictions(es, n) ==
    CHOOSE i \in 0..Len(es) :
        /\ i = Len(es) \/ n - SizeOf(SubSeq(es, 1, i)) <= max
        /\ \A j \in 0..(i - 1) : n - SizeOf(SubSeq(es, 1, j)) > max

--------------------------------------------------------------------------------
(* The calls, as the coordinator lets them in. *)

Invalidations == {"invalidate_path", "invalidate_prefix"}

\* A call that has nothing left to do ends.
Settled(s) == IF s.pc = "end" /\ s.todo = {} THEN Idle ELSE s

Set(t, s) == task' = [task EXCEPT ![t] = Settled(s)]

At(t, pc) == task[t].pc = pc /\ task[t].todo = {}

Goto(t, pc) == Set(t, [task[t] EXCEPT !.pc = pc])

\* The index with the keys new inserted, in the order es and of n bytes, once the cut oldest
\* are removed (remove_path_index_entry); the task deletes their files (remove_cache_files).
CutTo(t, new, es, n, cut, pc) ==
    LET evicted == {k \in entries \cup new : \E i \in 1..cut : es[i] = k}
    IN  /\ entries' = (entries \cup new) \ evicted
        /\ order' = SubSeq(es, cut + 1, Len(es))
        /\ paths' = (paths \cup new) \ evicted
        /\ used' = n - SizeOf(SubSeq(es, 1, cut))
        /\ Set(t, [task[t] EXCEPT !.pc = pc, !.todo = evicted])

\* Eviction that stops one block short.
EvictToShort(t, new, es, n, pc) ==
    CutTo(t, new, es, n, IF Evictions(es, n) = 0 THEN 0 ELSE Evictions(es, n) - 1, pc)

\* insert_state_entry of the keys new, and collect_evictions.
EvictTo(t, new, es, n, pc) == CutTo(t, new, es, n, Evictions(es, n), pc)

\* Calls of these kinds that are under way and concern k.
Underway(calls, k) == \E t \in Tasks : task[t].call \in calls /\ k \in task[t].keys

\* An invalidation of a prefix holds the prefix barrier.
Barred == \E t \in Tasks : task[t].call = "invalidate_prefix"

Begin(t, call, ks, v, f) ==
    /\ task[t] = Idle
    /\ task' = [task EXCEPT ![t] = [call |-> call, pc |-> "enter", keys |-> ks, todo |-> {},
                                    version |-> v, floor |-> f]]
    /\ UNCHANGED <<storage, acked, disk, index, max, recovered, dropped, faults>>

Get(t, k) ==
    /\ ~ Barred
    /\ Begin(t, "get", {k}, 0, acked)
    /\ UNCHANGED floor

Put(t, k) ==
    /\ ~ Barred
    /\ \E v \in floor[k]..storage[k] : Begin(t, "put", {k}, v, None)
    /\ UNCHANGED floor

\* A block has not the length that a reader expects, who saw the file before or after it was
\* changed: remove_block is called without the guards.
RemoveBlock(t, k) ==
    /\ floor[k] < storage[k]
    /\ Begin(t, "remove", {k}, 0, None)
    /\ UNCHANGED floor

\* The floor that an invalidation of ks sets.
Raised(ks) == [k \in Keys |-> IF k \in ks THEN storage[k] ELSE floor[k]]

\* invalidate_path has its gate.
InvalidatePath(t, k) ==
    /\ ~ Barred /\ ~ Underway({"get", "put"}, k)
    /\ Begin(t, "invalidate_path", {k}, 0, Raised({k}))
    /\ floor' = Raised({k})

\* invalidate_prefix reads the directory before it asks for the barrier,
InvalidatePrefix(t, ks) ==
    /\ Begin(t, "recover", ks, 0, None)
    /\ UNCHANGED floor

\* and starts over once it has it.
TakeBarrier(t) ==
    LET ks == task[t].keys
    IN  /\ At(t, "barrier")
        /\ \A u \in Tasks : task[u].call \in {"none", "remove", "recover"}
        /\ Set(t, [task[t] EXCEPT !.call = "invalidate_prefix", !.pc = "enter",
                                  !.floor = Raised(ks)])
        /\ floor' = Raised(ks)
        /\ UNCHANGED <<storage, acked, disk, index, max, recovered, dropped, faults>>

\* A file is rewritten in storage; its invalidation comes later, or never.
ChangeFile(k) ==
    /\ k \in Rewritten /\ storage[k] < MaxVersion
    /\ storage' = [storage EXCEPT ![k] = @ + 1]
    /\ UNCHANGED <<floor, acked, disk, index, max, recovered, dropped, task, faults>>

--------------------------------------------------------------------------------
(* The steps of the calls. *)

KeyOf(t) == CHOOSE k \in task[t].keys : TRUE

\* The first call of the process reads the directory: blocks by the time they were written.
\* A torn block is deleted if its header is wrong, and indexed if only its payload is.
Recover ==
    /\ ~ recovered /\ \E t \in Tasks : At(t, "enter")
    /\ files' \in {files, [k \in Keys |-> IF files[k] = Torn THEN NoFile ELSE files[k]]}
    /\ written' = SelectSeq(written, LAMBDA k : files'[k] # NoFile)
    /\ entries' = {k \in Keys : files'[k] # NoFile}
    /\ order' = written'
    /\ paths' = entries'
    /\ used' = SizeOf(order')
    /\ recovered' = TRUE
    /\ UNCHANGED <<storage, floor, acked, max, dropped, task, faults>>

\* Every call goes through ensure_recovered, and so through evict_over_limit.
Enter(t) ==
    /\ recovered /\ At(t, "enter")
    /\ EvictTo(t, {}, order, used,
               CASE task[t].call = "get" -> "lookup"
                 [] task[t].call = "put" -> "check"
                 [] task[t].call = "remove" -> "forget"
                 [] task[t].call = "recover" -> "barrier"
                 [] task[t].call \in Invalidations -> "purge")
    /\ UNCHANGED <<world, disk, dropped, faults>>

\* remove_file of a block to delete, of an invalidation in the order of its hash set; a failure
\* is only logged.
DeleteFile(t) ==
    \E k \in task[t].todo :
        /\ \/ RemoveFile(k) /\ UNCHANGED faults
           \/ HasFile(k) /\ Fault /\ UNCHANGED <<disk, landed>>
        /\ Set(t, [task[t] EXCEPT !.todo = @ \ {k}])
        /\ UNCHANGED <<world, index, late>>

\* get_block: a block that is not in the index is not looked for.
Lookup(t) ==
    /\ At(t, "lookup")
    /\ Goto(t, IF IsActive(KeyOf(t)) THEN "read" ELSE "end")
    /\ UNCHANGED <<world, disk, index, dropped, faults>>

\* A get that reads what a dropped put has left relies on nothing.
ReadFile(t) ==
    LET k == KeyOf(t)
    IN  /\ At(t, "read")
        /\ \/ ~ HasFile(k) /\ Goto(t, "forget") /\ UNCHANGED faults
           \/ /\ HasFile(k)
              /\ Set(t, [task[t] EXCEPT !.pc = IF files[k] = Torn THEN "forget" ELSE "touch",
                                        !.version = files[k],
                                        !.floor = IF k \in landed THEN None ELSE @])
              /\ UNCHANGED faults
           \/ HasFile(k) /\ Fault /\ Goto(t, "end")
        /\ UNCHANGED <<world, disk, index, dropped>>

\* touch_entry: the block counts only if it is still in the index.
TouchEntry(t) ==
    LET k == KeyOf(t)
    IN  /\ At(t, "touch")
        /\ order' = IF IsActive(k) THEN Refreshed(order, k) ELSE order
        /\ Goto(t, IF IsActive(k) THEN "hit" ELSE "end")
        /\ UNCHANGED <<world, disk, entries, paths, used, dropped, faults>>

Hit(t) ==
    /\ At(t, "hit")
    /\ Set(t, Idle)
    /\ UNCHANGED <<world, disk, index, dropped, faults>>

\* forget_entry, after a file that is missing, and also deleting one that does not decode or,
\* in remove_block, has the wrong length.
ForgetEntry(t) ==
    LET k       == KeyOf(t)
        deletes == task[t].call = "remove" \/ task[t].version = Torn
    IN  /\ At(t, "forget")
        /\ ForgetEntries({k})
        /\ Set(t, [task[t] EXCEPT !.pc = "end", !.todo = IF deletes THEN {k} ELSE {}])
        /\ UNCHANGED <<world, disk, dropped, faults>>

\* put_block leaves out a block that no eviction makes room for.
CheckSize(t) ==
    /\ At(t, "check")
    /\ Goto(t, IF Size[KeyOf(t)] > max THEN "end" ELSE "rename")
    /\ UNCHANGED <<world, disk, index, dropped, faults>>

\* put_block: the temporary file is complete and takes the place of the block file.
RenameFile(t) ==
    /\ At(t, "rename")
    /\ WriteFile(KeyOf(t), task[t].version)
    /\ landed' = landed \ {KeyOf(t)}
    /\ Goto(t, "record")
    /\ UNCHANGED <<world, index, late, faults>>

\* The temporary file could not be written or renamed; it is deleted.
PutFails(t) ==
    /\ At(t, "rename")
    /\ Fault
    /\ Goto(t, "end")
    /\ UNCHANGED <<world, disk, index, dropped>>

\* record_entry_and_evict that counts a block again when it is replaced.
RecordEntryTwice(t) ==
    LET k == KeyOf(t)
    IN  /\ At(t, "record")
        /\ EvictTo(t, {k}, Refreshed(order, k), used + Size[k], "end")
        /\ UNCHANGED <<world, disk, dropped, faults>>

\* record_entry_and_evict.
RecordEntry(t) ==
    LET k == KeyOf(t)
    IN  /\ At(t, "record")
        /\ EvictTo(t, {k}, Refreshed(order, k),
                   IF IsActive(k) THEN used ELSE used + Size[k], "end")
        /\ UNCHANGED <<world, disk, dropped, faults>>

\* invalidate_matching that deletes the files and leaves the entries.
PurgeFilesOnly(t) ==
    LET ks == task[t].keys
    IN  /\ At(t, "purge")
        /\ Set(t, [task[t] EXCEPT !.pc = "ack", !.todo = ks \cap paths])
        /\ UNCHANGED <<world, disk, index, dropped, faults>>

\* invalidate_matching: the entries go under the mutex, their files one by one after it.
Purge(t) ==
    LET ks == task[t].keys
    IN  /\ At(t, "purge")
        /\ ForgetEntries(ks \cap paths)
        /\ Set(t, [task[t] EXCEPT !.pc = "ack", !.todo = ks \cap paths])
        /\ UNCHANGED <<world, disk, dropped, faults>>

\* The invalidation returns: what had been written to storage before it had its gate is
\* acknowledged, unless another one has acknowledged more.
Ack(t) ==
    /\ At(t, "ack")
    /\ acked' = [k \in Keys |-> IF k \in task[t].keys /\ acked[k] < task[t].floor[k]
                                 THEN task[t].floor[k] ELSE acked[k]]
    /\ Set(t, Idle)
    /\ UNCHANGED <<storage, floor, disk, index, max, recovered, dropped, faults>>

\* The future of a call is dropped.  A rename that has been handed to its thread still happens.
Cancel(t) ==
    /\ task[t] # Idle
    /\ Fault
    /\ late' = IF At(t, "rename") THEN late \cup {[key |-> KeyOf(t), version |-> task[t].version]}
               ELSE late
    /\ Set(t, Idle)
    /\ UNCHANGED <<world, disk, index, landed>>

LateRename ==
    \E f \in late :
        /\ WriteFile(f.key, f.version)
        /\ late' = late \ {f}
        /\ landed' = landed \cup {f.key}
        /\ UNCHANGED <<world, index, task, faults>>

\* DiskCache::shared with a smaller limit.
TightenMaxSize ==
    /\ TightSize < max
    /\ Fault
    /\ max' = TightSize
    /\ UNCHANGED <<storage, floor, acked, disk, index, recovered, dropped, task>>

\* The process ends and another one starts; a block whose file was not synced may be torn.
Restart ==
    /\ Fault
    /\ \/ UNCHANGED disk
       \/ /\ written # <<>>
          /\ files' = [files EXCEPT ![Last(written)] = Torn]
          /\ UNCHANGED written
    /\ task' = [t \in Tasks |-> Idle]
    /\ entries' = {} /\ order' = <<>> /\ paths' = {} /\ used' = 0
    /\ max' = MaxSize /\ recovered' = FALSE
    /\ late' = {} /\ landed' = {}
    /\ floor' = storage
    /\ acked' = None
    /\ UNCHANGED storage

Next ==
    \/ \E t \in Tasks :
        \/ \E k \in Keys : Get(t, k)
        \/ \E k \in Keys : Put(t, k)
        \/ \E k \in Keys : RemoveBlock(t, k)
        \/ \E k \in Keys : InvalidatePath(t, k)
        \/ \E ks \in (SUBSET Keys) \ {{}} : InvalidatePrefix(t, ks)
        \/ TakeBarrier(t)
        \/ Enter(t)
        \/ DeleteFile(t)
        \/ Lookup(t)
        \/ ReadFile(t)
        \/ TouchEntry(t)
        \/ Hit(t)
        \/ ForgetEntry(t)
        \/ CheckSize(t)
        \/ RenameFile(t)
        \/ PutFails(t)
        \/ RecordEntry(t)
        \/ Purge(t)
        \/ Ack(t)
        \/ Cancel(t)
    \/ \E k \in Keys : ChangeFile(k)
    \/ Recover
    \/ LateRename
    \/ TightenMaxSize
    \/ Restart

Spec == Init /\ [][Next]_vars

--------------------------------------------------------------------------------
(* Properties. *)

\* A get_block that begins once an invalidation has returned gives nothing older than what that
\* one made old, although gets and puts run beside the purge of a path, deleting the old files
\* happens after the index is changed, may fail and may be overtaken by other puts: only the
\* index makes a file count.  A get that reads the file of a put that was dropped while its
\* rename was under way is left out (ReadFile): that rename may land on the file of a newer
\* block.
FreshHits ==
    \A t \in Tasks : At(t, "hit") => task[t].version >= task[t].floor[KeyOf(t)]

\* The index holds a block once and counts exactly what it holds, and the index by path holds
\* the same blocks, whichever puts, hits, removals, evictions and invalidations interleave
\* (insert_state_entry, remove_state_entry, remove_path_index_entry).
IndexIsExact ==
    /\ used = SizeOf(order)
    /\ ToSet(order) = entries /\ Cardinality(entries) = Len(order)
    /\ paths = entries

\* Each call brings the index under the limit before it works, and so does each put after it:
\* a recovered directory and a limit that another manager has tightened included.
EvictionKeepsLimit ==
    [][(recovered /\ used' > used) \/ (\E t \in Tasks : task[t].pc = "enter" /\ task'[t].pc \notin {"enter", "idle"})
            => used' <= max]_vars

\* The documented meaning of local-cache.max-size, counted on the directory: when no call is
\* under way, the block files take no more than max_size (docs/src/getting-started.md:388).
WithinMaxSize ==
    recovered /\ (\A t \in Tasks : task[t] = Idle) /\ late = {} =>
        SizeOf(written) <= MaxSize

================================================================================
