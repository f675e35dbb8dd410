-------------------------- MODULE BlockCacheInvariant --------------------------
(***************************************************************************)
(* What keeps the readers of BlockCache from seeing anything stale: the    *)
(* invariant of its proofs.                                                *)
(***************************************************************************)
EXTENDS BlockCache

ReaderSteps ==
    {"idle", "size", "stat", "putsize", "get", "remove", "lock", "wait", "load", "put", "release",
     "done"}

ReaderState ==
    [pc : ReaderSteps, phase : {"none", "prefix", "gate", "op"}, path : Paths, full : BOOLEAN,
     state : Nat, gen : Nat, size : Nat, blk : Nat, lock : Nat, locked : BOOLEAN, payload : Nat,
     err : BOOLEAN, floor : Nat, stale : BOOLEAN]

MutatorState ==
    [pc : {"idle", "changed", "gate", "barrier", "purge"}, prefixes : Seq(SUBSET Paths),
     isPrefix : BOOLEAN, states : SUBSET StateIds, wrote : SUBSET (Paths \X Nat)]

Entry == [version : Nat, len : Int]

Typed ==
    /\ storage \in [Paths -> Versions]
    /\ pathStates \in [Paths -> {0} \cup StateIds]
    /\ generation \in [StateIds -> Nat]
    /\ sizes \in [Paths -> Entry]
    /\ blocks \in [Keys -> Entry]
    /\ inFlight \in [Keys -> Nat]
    /\ rd \in [Readers -> ReaderState]
    /\ mu \in [Mutators -> MutatorState]
    /\ acked \in [Paths -> Nat]

(* The paths whose invalidation by a mutator has not begun, and those whose   *)
(* blocks it has not dropped.                                                 *)
Unpurged(s) == UNION Range(s.prefixes)

Pending(s) == IF s.pc = "purge" THEN UNION Range(Tail(s.prefixes)) ELSE Unpurged(s)

(* A file size, or what a reader is about to publish, is not older than any   *)
(* change that was answered or whose invalidation has begun; a block may be,  *)
(* until it is dropped.                                                       *)
Fits(ack, mutators, p, v) ==
    /\ v >= ack[p]
    /\ \A m \in Mutators :
           p \notin Pending(mutators[m]) => \A w \in mutators[m].wrote : w[1] = p => v >= w[2]

FitsBlock(ack, mutators, p, v) ==
    /\ v >= ack[p]
    /\ \A m \in Mutators :
           p \notin Unpurged(mutators[m]) => \A w \in mutators[m].wrote : w[1] = p => v >= w[2]

(* A state belongs to one path. *)
StatesInv ==
    \A p, q \in Paths : pathStates[p] # 0 /\ pathStates[p] = pathStates[q] => p = q

StorageInv ==
    /\ \A p \in Paths : acked[p] <= storage[p]
    /\ \A m \in Mutators : \A w \in mu[m].wrote : w[2] <= storage[w[1]]

MutatorInv(m) ==
    LET s == mu[m]
    IN  /\ s.pc = "idle" => s.wrote = {}
        /\ s.pc # "idle" => s.prefixes # <<>>
        /\ s.pc # "idle" /\ ~ s.isPrefix => \E p \in Paths : s.prefixes = <<{p}>>
        /\ s.pc = "gate" => /\ ~ s.isPrefix
                            /\ \A p \in Head(s.prefixes) : s.states = {pathStates[p]}
        /\ s.pc \notin {"gate", "purge"} => s.states = {}
        /\ \A w, x \in s.wrote : w[1] = x[1] => w = x
        /\ \E f \in [Paths -> {0} \cup StateIds] : s.states \subseteq {f[p] : p \in Paths}

EntriesInv ==
    /\ \A p \in Paths : Has(sizes, p) =>
           /\ Fits(acked, mu, p, sizes[p].version)
           /\ \E v \in Versions : sizes[p].len = Length[v]
    /\ \A k \in Keys : Has(blocks, k) => FitsBlock(acked, mu, k[1], blocks[k].version)

IsCurrentToken(s) == s.gen = generation[s.state]

InFile(s) ==
    /\ \E v \in Versions : s.size = Length[v]
    /\ s.blk \in 0..LastBlock(s.size)

(* A reader has a load lock from block_load_lock to release_block_load_lock. *)
LockInv(s) ==
    /\ s.pc \in {"wait", "release"} => s.lock # 0 /\ ~ s.locked
    /\ s.pc \in {"get", "remove", "load", "put"} => (s.locked <=> s.lock # 0)
    /\ s.pc \in {"idle", "size", "stat", "putsize", "lock", "done"} => s.lock = 0 /\ ~ s.locked

ReaderInv(s) ==
    /\ LockInv(s)
    /\ s.pc = "idle" => s.state = 0 /\ s.phase = "none"
    /\ s.pc # "idle" =>
           /\ s.state \in StateIds
           /\ pathStates[s.path] = s.state
           /\ s.gen <= generation[s.state]
           /\ s.floor <= acked[s.path]
    /\ s.pc \in {"putsize", "put"} =>
           /\ s.payload >= s.floor
           /\ IsCurrentToken(s) => Fits(acked, mu, s.path, s.payload)
    /\ s.phase = "op" => s.pc \in {"get", "put"} /\ IsCurrentToken(s)
    /\ s.pc \in {"size", "stat"} => s.blk = 0
    /\ s.pc \in {"putsize", "get", "remove", "lock", "wait", "load", "put"} => InFile(s)
    /\ s.pc \in {"release", "done"} /\ ~ s.err => InFile(s)
    /\ ~ s.stale

FreshInv ==
    /\ Typed
    /\ StatesInv
    /\ StorageInv
    /\ \A m \in Mutators : MutatorInv(m)
    /\ EntriesInv
    /\ \A r \in Readers : ReaderInv(rd[r])

--------------------------------------------------------------------------------
(* A size, or the length of a block, that some version of the file explains   *)
(* which no completed change has outdated.  Who wrote the block that is       *)
(* cached may be newer than whoever told its reader the size of the file.     *)
KnownSize(files, ack, mutators, p, len) ==
    \E v \in Versions : v <= files[p] /\ len = Length[v] /\ Fits(ack, mutators, p, v)

KnownBlock(files, ack, mutators, k, len) ==
    \E v \in Versions :
        /\ v <= files[k[1]] /\ len = BlockLength(Length[v], k[2])
        /\ FitsBlock(ack, mutators, k[1], v)

(* The reader has been told the size of the file. *)
HasSize(s) ==
    \/ s.pc \in {"putsize", "get", "remove", "lock", "wait", "load", "put"}
    \/ s.pc \in {"release", "done"} /\ ~ s.err

(* As long as its token is current a reader has a size that is known, and     *)
(* when nothing has changed since it began it meets no block of a wrong       *)
(* length and fails only on a file that is gone.                              *)
ErrorFree(s) ==
    s.pc # "idle" /\ IsCurrentToken(s) =>
        /\ HasSize(s) => KnownSize(storage, acked, mu, s.path, s.size)
        /\ s.floor = storage[s.path] =>
               /\ s.pc # "remove"
               /\ s.err => Length[storage[s.path]] = 0

ErrorInv ==
    /\ \A p \in Paths : Has(sizes, p) => KnownSize(storage, acked, mu, p, sizes[p].len)
    /\ \A k \in Keys : Has(blocks, k) => KnownBlock(storage, acked, mu, k, blocks[k].len)
    /\ \A r \in Readers : ErrorFree(rd[r])

================================================================================
