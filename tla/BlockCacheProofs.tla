--------------------------- MODULE BlockCacheProofs ----------------------------
(***************************************************************************)
(* Proofs about BlockCache, for any number of readers, writers, files,     *)
(* blocks and versions: what is read through the cache is as fresh as the  *)
(* last change that was answered, and a block is loaded by one reader at a *)
(* time.                                                                   *)
(***************************************************************************)
EXTENDS BlockCacheMutatorProofs

--------------------------------------------------------------------------------
(* The steps of the readers keep the invariant of BlockCacheInvariant. *)

(* The content of storage is as new as can be. *)
LEMMA StorageFits ==
    ASSUME FreshInv, NEW p \in Paths
    PROVE  storage[p] \in Nat /\ Fits(acked, mu, p, storage[p])
<1>1. storage[p] \in Nat /\ acked[p] \in Nat /\ acked[p] <= storage[p]
    BY BlockCacheConstants, Zenon DEF FreshInv, Typed, StorageInv
<1>2. \A m \in Mutators : \A w \in mu[m].wrote : w[1] = p => storage[p] >= w[2]
    <2> SUFFICES ASSUME NEW m \in Mutators, NEW w \in mu[m].wrote, w[1] = p
                 PROVE  storage[p] >= w[2]
        BY Zenon
    <2>1. w \in Paths \X Nat
        BY Zenon DEF FreshInv, Typed, MutatorState
    <2> QED
        BY <1>1, <2>1, Zenon DEF FreshInv, StorageInv
<1> QED
    BY <1>1, <1>2, Zenon DEF Fits

(* What was not purged had not begun before. *)
LEMMA FitsBlocks ==
    ASSUME FreshInv, NEW p \in Paths, NEW v \in Nat, Fits(acked, mu, p, v)
    PROVE  FitsBlock(acked, mu, p, v)
<1>1. ASSUME NEW m \in Mutators, p \notin Unpurged(mu[m]) PROVE p \notin Pending(mu[m])
    <2>1. CASE mu[m].pc # "purge"
        BY <1>1, <2>1, Zenon DEF Pending
    <2>2. CASE mu[m].pc = "purge"
        <3>1. mu[m].prefixes \in Seq(SUBSET Paths) /\ mu[m].prefixes # <<>>
            BY <2>2, Zenon DEF FreshInv, Typed, MutatorState, MutatorInv
        <3>2. /\ Tail(mu[m].prefixes) \in Seq(SUBSET Paths)
              /\ \A i \in 1..Len(Tail(mu[m].prefixes)) :
                     i + 1 \in 1..Len(mu[m].prefixes)
                         /\ Tail(mu[m].prefixes)[i] = mu[m].prefixes[i + 1]
            BY <3>1
        <3>3. Range(Tail(mu[m].prefixes)) \subseteq Range(mu[m].prefixes)
            BY <3>1, <3>2 DEF Range
        <3> QED
            BY <1>1, <2>2, <3>3, Zenon DEF Pending, Unpurged
    <2> QED
        BY <2>1, <2>2, Zenon
<1> QED
    BY <1>1, Zenon DEF Fits, FitsBlock

(* The reader of a step, and the stores when they stay as they are. *)
LEMMA ReaderTyped ==
    ASSUME FreshInv, NEW r \in Readers
    PROVE  /\ rd[r] \in ReaderState /\ ReaderInv(rd[r])
           /\ rd[r].path \in Paths /\ storage[rd[r].path] \in Versions
           /\ acked[rd[r].path] \in Nat /\ rd[r].floor \in Nat
BY Zenon DEF FreshInv, Typed, ReaderState

LEMMA ReaderOnly ==
    ASSUME FreshInv, NEW r \in Readers, NEW t \in ReaderState, ReaderInv(t), Set(r, t),
           UNCHANGED <<storage, states, mu, acked, sizes, blocks, inFlight>>
    PROVE  FreshInv'
<1>1. /\ sizes' = sizes /\ sizes \in [Paths -> Entry] /\ blocks' = blocks
      /\ blocks \in [Keys -> Entry] /\ inFlight' \in [Keys -> Nat]
    BY DEF FreshInv, Typed
<1>2. UNCHANGED <<storage, states, mu, acked>>
    OBVIOUS
<1> QED
    BY <1>1, <1>2, ReaderKeeps, Zenon

LEMMA TakeBarrierStep ==
    ASSUME FreshInv, NEW r \in Readers, TakeBarrier(r)
    PROVE  FreshInv'
<1> DEFINE s == rd[r]
           t == [s EXCEPT !.phase = "gate"]
<1>1. s \in ReaderState /\ ReaderInv(s) /\ s.phase = "prefix"
    BY ReaderTyped, Zenon DEF TakeBarrier
<1>2. Set(r, t) /\ UNCHANGED <<storage, states, mu, acked, sizes, blocks, inFlight>>
    BY Zenon DEF TakeBarrier, coordinator, fileSizes, memory
<1> HIDE DEF s
<1>3. t \in ReaderState /\ ReaderInv(t)
    BY <1>1, Zenon DEF ReaderInv, LockInv, ReaderState, IsCurrentToken, InFile
<1> QED
    BY <1>2, <1>3, ReaderOnly, Zenon

LEMMA TakeGateStep ==
    ASSUME FreshInv, NEW r \in Readers, TakeGate(r)
    PROVE  FreshInv'
<1> DEFINE s == rd[r]
           t == IF IsCurrent(r) THEN [s EXCEPT !.phase = "op"]
                ELSE IF s.pc = "get" THEN Missed(s) ELSE Published(s)
<1>1. s \in ReaderState /\ ReaderInv(s) /\ s.pc \in {"get", "put"}
    BY ReaderTyped, Zenon DEF TakeGate
<1>2. Set(r, t) /\ UNCHANGED <<storage, states, mu, acked, sizes, blocks, inFlight>>
    BY Zenon DEF TakeGate, coordinator, fileSizes, memory
<1>3. IsCurrent(r) <=> IsCurrentToken(s)
    BY <1>1, Zenon DEF IsCurrent, IsCurrentToken, ReaderState
<1>4. CASE IsCurrent(r)
    <2> DEFINE u == [s EXCEPT !.phase = "op"]
    <2> HIDE DEF s
    <2>1. u \in ReaderState /\ ReaderInv(u)
        BY <1>1, <1>3, <1>4, Zenon DEF ReaderInv, LockInv, ReaderState, IsCurrentToken, InFile
    <2> QED
        BY <1>2, <1>4, <2>1, ReaderOnly, Zenon
<1>5. CASE ~ IsCurrent(r)
    <2>1. t \in ReaderState /\ ReaderInv(t)
        BY <1>1, <1>5, MissedKeeps, PublishedKeeps, Zenon
    <2> QED
        BY <1>2, <2>1, ReaderOnly, Zenon
<1> QED
    BY <1>4, <1>5, Zenon

LEMMA FileSizeStep ==
    ASSUME FreshInv, NEW r \in Readers, FileSize(r)
    PROVE  FreshInv'
<1> DEFINE s == rd[r]
           entry == sizes[s.path]
           hit == IsCurrent(r) /\ Has(sizes, s.path)
           q == Guarded(Seen(s, entry.version), "get")
           t == IF hit THEN [q EXCEPT !.size = entry.len] ELSE Plain(s, "stat")
<1>1. /\ s \in ReaderState /\ ReaderInv(s) /\ s.pc = "size" /\ s.path \in Paths
      /\ acked[s.path] \in Nat /\ s.floor \in Nat
    BY ReaderTyped, Zenon DEF FileSize
<1>2. Set(r, t) /\ UNCHANGED <<storage, states, mu, acked, sizes, blocks, inFlight>>
    BY Zenon DEF FileSize, memory
<1>3. s.floor <= acked[s.path] /\ s.blk = 0 /\ s.lock = 0 /\ ~ s.locked /\ ~ s.stale
    BY <1>1, Zenon DEF ReaderInv, LockInv
<1>4. CASE hit
    <2>1. entry \in Entry /\ entry.len # 0 /\ Fits(acked, mu, s.path, entry.version)
        BY <1>1, <1>4, Zenon DEF FreshInv, Typed, EntriesInv, Has
    <2>2. PICK v \in Versions : entry.len = Length[v]
        BY <1>1, <1>4, Zenon DEF FreshInv, EntriesInv
    <2>3. entry.version \in Nat /\ entry.len \in Nat /\ entry.version >= s.floor
        BY <1>1, <1>3, <2>1, <2>2, BlockCacheConstants DEF Entry, Fits
    <2> HIDE DEF s, entry
    <2>4. /\ Seen(s, entry.version) \in ReaderState /\ SameToken(s, Seen(s, entry.version))
          /\ ~ Seen(s, entry.version).stale /\ Seen(s, entry.version).blk = 0
          /\ Seen(s, entry.version).lock = 0 /\ ~ Seen(s, entry.version).locked
        BY <1>1, <1>3, <2>3, SeenKeeps, ZenonT(30)
    <2>5. /\ q \in ReaderState /\ SameToken(s, q) /\ ~ q.stale /\ q.blk = 0
          /\ q.lock = 0 /\ ~ q.locked /\ q.pc = "get" /\ q.phase = "prefix"
        <3>1. Moved(Seen(s, entry.version), q, "get", "prefix")
            BY <2>4, GuardedMoves, StepsTyped, Zenon
        <3> HIDE DEF q
        <3> QED
            BY <2>4, <3>1, Zenon DEF Moved, SameToken
    <2> HIDE DEF q
    <2> DEFINE u == [q EXCEPT !.size = entry.len]
    <2>6. /\ u \in ReaderState /\ SameToken(s, u) /\ ~ u.stale /\ u.blk = 0
          /\ u.lock = 0 /\ ~ u.locked /\ u.pc = "get" /\ u.phase = "prefix" /\ u.size = entry.len
        BY <2>3, <2>5, Zenon DEF ReaderState, SameToken
    <2> HIDE DEF u
    <2>7. InFile(u) /\ LockInv(u)
        BY <2>1, <2>2, <2>3, <2>6, LastBlockTyped DEF InFile, LockInv
    <2>8. ReaderInv(u)
        BY <1>1, <2>6, <2>7, GoesOn, Zenon
    <2>9. Set(r, u)
        BY <1>2, <1>4, Zenon DEF u
    <2> QED
        BY <1>2, <2>6, <2>8, <2>9, ReaderOnly, Zenon
<1>5. CASE ~ hit
    <2> DEFINE u == Plain(s, "stat")
    <2>1. Set(r, u)
        BY <1>2, <1>5, Zenon
    <2> HIDE DEF s
    <2>2. /\ u \in ReaderState /\ SameToken(s, u) /\ ~ u.stale /\ u.blk = 0
          /\ u.lock = 0 /\ ~ u.locked /\ u.pc = "stat" /\ u.phase = "none"
        <3>1. Moved(s, u, "stat", "none")
            BY <1>1, <1>3, PlainMoves, StepsTyped, Zenon
        <3> HIDE DEF u
        <3> QED
            BY <1>1, <1>3, <3>1, Zenon DEF Moved
    <2> HIDE DEF u
    <2>3. LockInv(u)
        BY <2>2, Zenon DEF LockInv
    <2>4. ReaderInv(u)
        BY <1>1, <2>2, <2>3, GoesOn, Zenon
    <2> QED
        BY <1>2, <2>1, <2>2, <2>4, ReaderOnly, Zenon
<1> QED
    BY <1>4, <1>5, Zenon

LEMMA StatStep ==
    ASSUME FreshInv, NEW r \in Readers, Stat(r)
    PROVE  FreshInv'
<1> DEFINE s == rd[r]
           v == storage[s.path]
           q == Guarded(s, "putsize")
           u == [q EXCEPT !.size = Length[v], !.payload = v]
<1>1. /\ s \in ReaderState /\ ReaderInv(s) /\ s.pc = "stat" /\ s.path \in Paths
      /\ acked[s.path] \in Nat /\ s.floor \in Nat /\ v \in Versions
    BY ReaderTyped, Zenon DEF Stat
<1>2. /\ Set(r, IF Length[v] = 0 THEN Fail(s) ELSE u)
      /\ UNCHANGED <<storage, states, mu, acked, sizes, blocks, inFlight>>
    BY DEF Stat, coordinator, fileSizes, memory
<1>3. CASE Length[v] = 0
    BY <1>1, <1>2, <1>3, FailKeeps, ReaderOnly, Zenon
<1>4. CASE Length[v] # 0
    <2>1. v \in Nat /\ Fits(acked, mu, s.path, v) /\ Length[v] \in Nat
        BY <1>1, StorageFits, BlockCacheConstants, Zenon
    <2>2. s.floor <= acked[s.path] /\ s.blk = 0 /\ s.lock = 0 /\ ~ s.locked /\ ~ s.stale
        BY <1>1, Zenon DEF ReaderInv, LockInv
    <2>3. v >= s.floor
        BY <1>1, <2>1, <2>2 DEF Fits
    <2> HIDE DEF s, v
    <2>4. /\ q \in ReaderState /\ SameToken(s, q) /\ q.pc = "putsize" /\ q.phase = "prefix"
          /\ q.blk = 0 /\ q.lock = 0 /\ ~ q.locked /\ ~ q.stale
        <3>1. Moved(s, q, "putsize", "prefix")
            BY <1>1, <2>2, GuardedMoves, StepsTyped, Zenon
        <3> HIDE DEF q
        <3> QED
            BY <1>1, <2>2, <3>1, Zenon DEF Moved
    <2> HIDE DEF q
    <2>5. /\ u \in ReaderState /\ SameToken(s, u) /\ u.pc = "putsize" /\ u.phase = "prefix"
          /\ u.blk = 0 /\ u.lock = 0 /\ ~ u.locked /\ ~ u.stale
          /\ u.size = Length[v] /\ u.payload = v
        BY <2>1, <2>4, ZenonT(30) DEF ReaderState, SameToken
    <2>6. Set(r, u)
        BY <1>2, <1>4, Zenon
    <2> HIDE DEF u
    <2>7. InFile(u) /\ LockInv(u)
        BY <1>1, <1>4, <2>1, <2>5, LastBlockTyped DEF InFile, LockInv
    <2>8. ReaderInv(u)
        BY <1>1, <2>1, <2>3, <2>5, <2>7, Zenon DEF ReaderInv, SameToken
    <2> QED
        BY <1>2, <2>5, <2>6, <2>8, ReaderOnly, Zenon
<1> QED
    BY <1>3, <1>4, Zenon

LEMMA SaveFileSizeStep ==
    ASSUME FreshInv, NEW r \in Readers, SaveFileSize(r)
    PROVE  FreshInv'
<1> DEFINE s == rd[r]
           q == Guarded(s, "get")
           u == [q EXCEPT !.payload = 0]
           entry == [version |-> s.payload, len |-> s.size]
<1>1. s \in ReaderState /\ ReaderInv(s) /\ s.pc = "putsize" /\ s.path \in Paths
    BY ReaderTyped, Zenon DEF SaveFileSize
<1>2. Set(r, u) /\ UNCHANGED <<storage, states, mu, acked, blocks, inFlight>>
    BY Zenon DEF SaveFileSize, memory
<1>3. InFile(s) /\ ~ s.stale /\ s.lock = 0 /\ ~ s.locked
    BY <1>1, Zenon DEF ReaderInv, LockInv
<1>4. u \in ReaderState /\ ReaderInv(u)
    <2> HIDE DEF s
    <2>1. /\ q \in ReaderState /\ SameToken(s, q) /\ q.pc = "get" /\ q.phase = "prefix"
          /\ q.blk = s.blk /\ q.lock = 0 /\ ~ q.locked /\ ~ q.stale /\ q.size = s.size
        <3>1. Moved(s, q, "get", "prefix")
            BY <1>1, <1>3, GuardedMoves, StepsTyped, Zenon
        <3> HIDE DEF q
        <3> QED
            BY <1>1, <1>3, <3>1, Zenon DEF Moved
    <2> HIDE DEF q
    <2>2. /\ u \in ReaderState /\ SameToken(s, u) /\ u.pc = "get" /\ u.phase = "prefix"
          /\ u.blk = s.blk /\ u.lock = 0 /\ ~ u.locked /\ ~ u.stale /\ u.size = s.size
        BY <2>1, Zenon DEF ReaderState, SameToken
    <2> HIDE DEF u
    <2>3. InFile(u) /\ LockInv(u)
        BY <1>3, <2>2, Zenon DEF InFile, LockInv
    <2> QED
        BY <1>1, <2>2, <2>3, GoesOn, Zenon
<1>5. /\ sizes' \in [Paths -> Entry]
      /\ \A x \in Paths : Has(sizes', x) =>
             \/ Has(sizes, x) /\ sizes'[x] = sizes[x]
             \/ /\ Fits(acked, mu, x, sizes'[x].version)
                /\ \E v \in Versions : sizes'[x].len = Length[v]
    <2>1. CASE IsCurrent(r)
        <3>1. entry \in Entry /\ entry.version = s.payload /\ entry.len = s.size
            BY <1>1 DEF Entry, ReaderState
        <3>2. Fits(acked, mu, s.path, s.payload) /\ \E v \in Versions : s.size = Length[v]
            BY <1>1, <1>3, <2>1, Zenon DEF ReaderInv, IsCurrent, IsCurrentToken, InFile
        <3>3. PutFileSize(s.path, entry) /\ Typed
            BY <2>1, Zenon DEF SaveFileSize, FreshInv
        <3> HIDE DEF entry
        <3> QED
            BY <1>1, <3>1, <3>2, <3>3, PutFileSizePuts, Zenon
    <2>2. CASE ~ IsCurrent(r)
        BY <2>2, Zenon DEF SaveFileSize, fileSizes, FreshInv, Typed
    <2> QED
        BY <2>1, <2>2, Zenon
<1>6. inFlight' \in [Keys -> Nat] /\ blocks' = blocks /\ blocks \in [Keys -> Entry]
    BY <1>2, Zenon DEF FreshInv, Typed
<1>7. UNCHANGED <<storage, states, mu, acked>>
    BY <1>2, Zenon
<1> HIDE DEF u
<1> QED
    BY <1>2, <1>4, <1>5, <1>6, <1>7, ReaderKeeps, Zenon

(* The block of a reader is a key of the store. *)
LEMMA BlockIsKey ==
    ASSUME NEW s \in ReaderState, InFile(s)
    PROVE  <<s.path, s.blk>> \in Keys /\ <<s.path, 0>> \in Keys
<1>1. PICK v \in Versions : s.size = Length[v]
    BY Zenon DEF InFile
<1>2. s.blk \in 0..LastBlock(Length[v]) /\ s.path \in Paths /\ LastBlock(Length[v]) \in Int
    BY <1>1, LastBlockTyped, Zenon DEF InFile, ReaderState
<1>3. 0 \in 0..LastBlock(Length[v])
    BY <1>2
<1> QED
    BY <1>2, <1>3, Zenon DEF Keys

(* A block of another length than the file has there goes. *)
LEMMA RemoveKeeps ==
    ASSUME NEW s \in ReaderState, ReaderInv(s), s.pc = "get"
    PROVE  Plain(s, "remove") \in ReaderState /\ ReaderInv(Plain(s, "remove"))
<1> DEFINE u == Plain(s, "remove")
<1>1. "remove" \in ReaderSteps
    BY Zenon DEF ReaderSteps
<1>2. InFile(s) /\ ~ s.stale /\ (s.locked <=> s.lock # 0)
    BY DEF ReaderInv, LockInv
<1>3. /\ u \in ReaderState /\ SameToken(s, u)
      /\ u.pc = "remove" /\ u.phase = "none" /\ u.size = s.size /\ u.blk = s.blk
      /\ u.lock = s.lock /\ u.locked = s.locked /\ u.stale = s.stale
    BY <1>1, PlainMoves, Zenon DEF Moved
<1> HIDE DEF u
<1>4. LockInv(u) /\ InFile(u)
    BY <1>2, <1>3, Zenon DEF LockInv, InFile
<1>5. ReaderInv(u)
    BY <1>2, <1>3, <1>4, GoesOn, Zenon
<1> QED
    BY <1>3, <1>5, Zenon DEF u

LEMMA GetBlockStep ==
    ASSUME FreshInv, NEW r \in Readers, GetBlock(r)
    PROVE  FreshInv'
<1> DEFINE s == rd[r]
           k == <<s.path, s.blk>>
           hit == IsCurrent(r) /\ Has(blocks, k)
           right == blocks[k].len = BlockLength(s.size, s.blk)
           t == IF ~ hit THEN Missed(s)
                ELSE IF right THEN Take(s, blocks[k].version) ELSE Plain(s, "remove")
<1>1. /\ s \in ReaderState /\ ReaderInv(s) /\ s.pc = "get" /\ s.path \in Paths
      /\ acked[s.path] \in Nat /\ s.floor \in Nat
    BY ReaderTyped, Zenon DEF GetBlock
<1>2. Set(r, t) /\ UNCHANGED <<storage, states, mu, acked, sizes, blocks, inFlight>>
    BY Zenon DEF GetBlock, coordinator, fileSizes
<1>3. /\ InFile(s) /\ ~ s.stale /\ (s.locked <=> s.lock # 0) /\ s.floor <= acked[s.path]
      /\ k \in Keys
    BY <1>1, BlockIsKey, ZenonT(30) DEF ReaderInv, LockInv
<1>4. CASE ~ hit
    BY <1>1, <1>2, <1>4, MissedKeeps, ReaderOnly, Zenon
<1>5. CASE hit /\ right
    <2>1. blocks[k] \in Entry /\ FitsBlock(acked, mu, s.path, blocks[k].version)
        BY <1>3, <1>5, Zenon DEF FreshInv, Typed, EntriesInv
    <2>2. blocks[k].version \in Nat /\ blocks[k].version >= s.floor
        BY <1>1, <1>3, <2>1 DEF Entry, FitsBlock
    <2> QED
        BY <1>1, <1>2, <1>5, <2>2, TakeKeeps, ReaderOnly, Zenon
<1>6. CASE hit /\ ~ right
    <2>1. Set(r, Plain(s, "remove"))
        BY <1>2, <1>6, Zenon
    <2>2. Plain(s, "remove") \in ReaderState /\ ReaderInv(Plain(s, "remove"))
        BY <1>1, RemoveKeeps, Zenon
    <2> QED
        BY <1>2, <2>1, <2>2, ReaderOnly, Zenon
<1> QED
    BY <1>4, <1>5, <1>6, Zenon

LEMMA RemoveBlockStep ==
    ASSUME FreshInv, NEW r \in Readers, RemoveBlock(r)
    PROVE  FreshInv'
<1> DEFINE s == rd[r]
           t == IF s.locked /\ ~ s.full THEN Fail(s) ELSE Missed(s)
<1>1. s \in ReaderState /\ ReaderInv(s) /\ s.pc = "remove"
    BY ReaderTyped, Zenon DEF RemoveBlock
<1>2. Set(r, t) /\ UNCHANGED <<storage, states, mu, acked>> /\ sizes' = sizes
    BY Zenon DEF RemoveBlock, Missed, coordinator, fileSizes
<1>3. /\ inFlight' \in [Keys -> Nat] /\ sizes' \in [Paths -> Entry]
      /\ RemoveBlocks({<<s.path, s.blk>>}) /\ Typed
    BY Zenon DEF RemoveBlock, FreshInv, Typed, coordinator, fileSizes
<1>4. /\ blocks' \in [Keys -> Entry]
      /\ \A x \in Keys : Has(blocks', x) => Has(blocks, x) /\ blocks'[x] = blocks[x]
    BY <1>3, RemoveBlocksRemoves, Zenon
<1>5. t \in ReaderState /\ ReaderInv(t)
    BY <1>1, FailKeeps, MissedKeeps, Zenon
<1> HIDE DEF t
<1> QED
    BY <1>2, <1>3, <1>4, <1>5, ReaderKeeps, Zenon

(* There are as many load locks as readers: one that has none finds one free. *)
LEMMA FreeLock ==
    ASSUME FreshInv, NEW r \in Readers, rd[r].lock = 0
    PROVE  \E l \in LockIds : HoldersOf(l) = {}
<1> SUFFICES ASSUME \A l \in LockIds : HoldersOf(l) # {} PROVE FALSE
    BY Zenon
<1> DEFINE f == [l \in LockIds |-> CHOOSE q \in Readers \ {r} : rd[q].lock = l]
<1>1. /\ IsFiniteSet(Readers \ {r}) /\ Cardinality(Readers \ {r}) = Cardinality(Readers) - 1
      /\ Cardinality(Readers) \in Nat
    BY BlockCacheConstants, FS_RemoveElement, FS_CardinalityType, Zenon
<1>2. Cardinality(Readers) # 0
    BY BlockCacheConstants, FS_EmptySet, Zenon
<1>3. IsFiniteSet(LockIds) /\ Cardinality(LockIds) = Cardinality(Readers)
    BY <1>1, <1>2, FS_Interval DEF LockIds
<1>4. \A l \in LockIds : f[l] \in Readers \ {r} /\ rd[f[l]].lock = l
    <2> SUFFICES ASSUME NEW l \in LockIds PROVE \E q \in Readers \ {r} : rd[q].lock = l
        BY Zenon
    <2>1. PICK q \in Readers : rd[q].lock = l
        BY Zenon DEF HoldersOf
    <2>2. l # 0
        BY <1>1 DEF LockIds
    <2> QED
        BY <2>1, <2>2, Zenon
<1>5. f \in [LockIds -> Readers \ {r}]
    BY <1>4, Zenon
<1> HIDE DEF f
<1>6. PICK x, y \in LockIds : x # y /\ f[x] = f[y]
    <2> DEFINE T == Readers \ {r}
    <2>1. Cardinality(T) < Cardinality(LockIds)
        BY <1>1, <1>3
    <2>2. IsFiniteSet(T) /\ f \in [LockIds -> T]
        BY <1>1, <1>5, Zenon
    <2> HIDE DEF T
    <2> QED
        BY <1>3, <2>1, <2>2, FS_PigeonHole, Zenon
<1> QED
    BY <1>4, <1>6, Zenon

(* The lock that block_load_lock hands out. *)
LoadLockOf(r) ==
    LET k == LockKey(rd[r])
    IN  IF inFlight[k] # 0 /\ HoldersOf(inFlight[k]) # {} THEN inFlight[k]
        ELSE CHOOSE x \in LockIds : HoldersOf(x) = {}

LEMMA LoadLockTyped ==
    ASSUME FreshInv, NEW r \in Readers, rd[r].pc = "lock"
    PROVE  /\ LockKey(rd[r]) \in Keys
           /\ LoadLockOf(r) \in Nat \ {0}
           /\ \/ LoadLockOf(r) = inFlight[LockKey(rd[r])]
              \/ HoldersOf(LoadLockOf(r)) = {}
<1>1. rd[r] \in ReaderState /\ InFile(rd[r]) /\ rd[r].lock = 0
    BY ReaderTyped DEF ReaderInv, LockInv
<1>2. LockKey(rd[r]) \in Keys
    BY <1>1, BlockIsKey, Zenon DEF LockKey
<1>3. inFlight[LockKey(rd[r])] \in Nat
    BY <1>2 DEF FreshInv, Typed
<1>4. Cardinality(Readers) \in Nat
    BY BlockCacheConstants, FS_CardinalityType
<1>5. \E l \in LockIds : HoldersOf(l) = {}
    BY <1>1, FreeLock
<1>6. LockIds \subseteq Nat \ {0}
    BY <1>4 DEF LockIds
<1> QED
    BY <1>2, <1>3, <1>5, <1>6, Zenon DEF LoadLockOf

LEMMA BlockLoadLockStep ==
    ASSUME FreshInv, NEW r \in Readers, BlockLoadLock(r)
    PROVE  FreshInv'
<1> DEFINE s == rd[r]
           l == LoadLockOf(r)
           q == Plain(s, "wait")
           u == [q EXCEPT !.lock = l]
<1>1. s \in ReaderState /\ ReaderInv(s) /\ s.pc = "lock"
    BY ReaderTyped, Zenon DEF BlockLoadLock
<1>2. l \in Nat /\ l # 0
    BY <1>1, LoadLockTyped
<1>3. /\ Set(r, u) /\ inFlight' = Refer(inFlight, LockKey(s), l)
      /\ UNCHANGED <<storage, states, mu, acked, sizes, blocks>>
    BY DEF BlockLoadLock, LoadLockOf, coordinator, fileSizes, memory
<1>4. inFlight' \in [Keys -> Nat]
    <2>1. inFlight \in [Keys -> Nat]
        BY Zenon DEF FreshInv, Typed
    <2> HIDE DEF l, s
    <2> QED
        BY <1>2, <1>3, <2>1 DEF Refer
<1>5. InFile(s) /\ ~ s.stale /\ ~ s.locked
    BY <1>1, Zenon DEF ReaderInv, LockInv
<1>6. u \in ReaderState /\ ReaderInv(u)
    <2> HIDE DEF s, l
    <2>1. /\ q \in ReaderState /\ SameToken(s, q) /\ q.pc = "wait" /\ q.phase = "none"
          /\ q.blk = s.blk /\ ~ q.locked /\ ~ q.stale /\ q.size = s.size
        <3>1. Moved(s, q, "wait", "none")
            BY <1>1, <1>5, PlainMoves, StepsTyped, Zenon
        <3> HIDE DEF q
        <3> QED
            BY <1>1, <1>5, <3>1, Zenon DEF Moved
    <2> HIDE DEF q
    <2>2. /\ u \in ReaderState /\ SameToken(s, u) /\ u.pc = "wait" /\ u.phase = "none"
          /\ u.blk = s.blk /\ ~ u.locked /\ ~ u.stale /\ u.size = s.size /\ u.lock = l
        BY <1>2, <2>1, Zenon DEF ReaderState, SameToken
    <2> HIDE DEF u
    <2>3. InFile(u) /\ LockInv(u)
        BY <1>2, <1>5, <2>2, Zenon DEF InFile, LockInv
    <2> QED
        BY <1>1, <2>2, <2>3, GoesOn, Zenon
<1>7. /\ sizes' = sizes /\ sizes \in [Paths -> Entry] /\ blocks' = blocks
      /\ blocks \in [Keys -> Entry] /\ UNCHANGED <<storage, states, mu, acked>>
    BY <1>3, Zenon DEF FreshInv, Typed
<1> HIDE DEF u
<1> QED
    BY <1>3, <1>4, <1>6, <1>7, ReaderKeeps, Zenon

LEMMA TakeLoadLockStep ==
    ASSUME FreshInv, NEW r \in Readers, TakeLoadLock(r)
    PROVE  FreshInv'
<1> DEFINE s == rd[r]
           q == Guarded(s, "get")
           u == [q EXCEPT !.locked = TRUE]
           t == IF u.full THEN [u EXCEPT !.blk = 0] ELSE u
<1>1. s \in ReaderState /\ ReaderInv(s) /\ s.pc = "wait"
    BY ReaderTyped, Zenon DEF TakeLoadLock
<1>2. Set(r, t) /\ UNCHANGED <<storage, states, mu, acked, sizes, blocks, inFlight>>
    BY Zenon DEF TakeLoadLock, coordinator, fileSizes, memory
<1>3. InFile(s) /\ ~ s.stale /\ s.lock # 0
    BY <1>1, Zenon DEF ReaderInv, LockInv
<1>4. t \in ReaderState /\ ReaderInv(t)
    <2> HIDE DEF s
    <2>1. /\ q \in ReaderState /\ SameToken(s, q) /\ q.pc = "get" /\ q.phase = "prefix"
          /\ q.blk = s.blk /\ q.lock = s.lock /\ ~ q.stale /\ q.size = s.size
        <3>1. Moved(s, q, "get", "prefix")
            BY <1>1, <1>3, GuardedMoves, StepsTyped, Zenon
        <3> HIDE DEF q
        <3> QED
            BY <1>1, <1>3, <3>1, Zenon DEF Moved
    <2> HIDE DEF q
    <2>2. /\ u \in ReaderState /\ SameToken(s, u) /\ u.pc = "get" /\ u.phase = "prefix"
          /\ u.blk = s.blk /\ u.lock = s.lock /\ ~ u.stale /\ u.size = s.size /\ u.locked
        BY <2>1, Zenon DEF ReaderState, SameToken
    <2> HIDE DEF u
    <2>3. /\ t \in ReaderState /\ SameToken(s, t) /\ t.pc = "get" /\ t.phase = "prefix"
          /\ t.blk \in {0, s.blk} /\ t.lock = s.lock /\ ~ t.stale /\ t.size = s.size /\ t.locked
        BY <2>2, Zenon DEF ReaderState, SameToken
    <2> HIDE DEF t
    <2>4. InFile(t) /\ LockInv(t)
        BY <1>1, <1>3, <2>3, LastBlockTyped DEF InFile, LockInv, ReaderState
    <2> QED
        BY <1>1, <2>3, <2>4, GoesOn, Zenon
<1> HIDE DEF t
<1> QED
    BY <1>2, <1>4, ReaderOnly, Zenon

LEMMA LoadStep ==
    ASSUME FreshInv, NEW r \in Readers, Load(r)
    PROVE  FreshInv'
<1> DEFINE s == rd[r]
           v == storage[s.path]
           upTo == IF s.full THEN s.size
                   ELSE s.blk * BlockSize + BlockLength(s.size, s.blk)
           q == IF s.full THEN [s EXCEPT !.blk = 0] ELSE s
           g == Guarded(q, "put")
           u == [g EXCEPT !.payload = v]
<1>1. /\ s \in ReaderState /\ ReaderInv(s) /\ s.pc = "load" /\ s.path \in Paths
      /\ acked[s.path] \in Nat /\ s.floor \in Nat
    BY ReaderTyped, Zenon DEF Load
<1>2. /\ Set(r, IF Length[v] < upTo THEN Fail(s) ELSE u)
      /\ UNCHANGED <<storage, states, mu, acked, sizes, blocks, inFlight>>
    BY DEF Load, coordinator, fileSizes, memory
<1>3. CASE Length[v] < upTo
    BY <1>1, <1>2, <1>3, FailKeeps, ReaderOnly, Zenon
<1>4. CASE ~ (Length[v] < upTo)
    <2>1. v \in Nat /\ Fits(acked, mu, s.path, v)
        BY <1>1, StorageFits, Zenon
    <2>2. /\ s.floor <= acked[s.path] /\ InFile(s) /\ (s.locked <=> s.lock # 0) /\ ~ s.stale
        BY <1>1, Zenon DEF ReaderInv, LockInv
    <2>3. v >= s.floor
        BY <1>1, <2>1, <2>2 DEF Fits
    <2>4. Set(r, u)
        BY <1>2, <1>4, Zenon
    <2> HIDE DEF s, v
    <2>5. /\ q \in ReaderState /\ SameToken(s, q) /\ q.blk \in {0, s.blk} /\ q.size = s.size
          /\ q.lock = s.lock /\ q.locked = s.locked /\ q.stale = s.stale
        BY <1>1, Zenon DEF ReaderState, SameToken
    <2> HIDE DEF q
    <2>6. /\ g \in ReaderState /\ SameToken(s, g) /\ g.pc = "put" /\ g.phase = "prefix"
          /\ g.blk \in {0, s.blk} /\ g.size = s.size
          /\ g.lock = s.lock /\ g.locked = s.locked /\ g.stale = s.stale
        <3>1. Moved(q, g, "put", "prefix")
            BY <2>5, GuardedMoves, StepsTyped, Zenon
        <3> HIDE DEF g
        <3> QED
            BY <2>5, <3>1, Zenon DEF Moved, SameToken
    <2> HIDE DEF g
    <2>7. /\ u \in ReaderState /\ SameToken(s, u) /\ u.pc = "put" /\ u.phase = "prefix"
          /\ u.blk \in {0, s.blk} /\ u.size = s.size /\ u.payload = v
          /\ u.lock = s.lock /\ u.locked = s.locked /\ u.stale = s.stale
        BY <2>1, <2>6, Zenon DEF ReaderState, SameToken
    <2> HIDE DEF u
    <2>8. InFile(u) /\ LockInv(u)
        BY <1>1, <2>2, <2>7, LastBlockTyped DEF InFile, LockInv, ReaderState
    <2>9. ReaderInv(u)
        BY <1>1, <2>1, <2>2, <2>3, <2>7, <2>8, Zenon DEF ReaderInv, SameToken
    <2> QED
        BY <1>2, <2>4, <2>7, <2>9, ReaderOnly, Zenon
<1> QED
    BY <1>3, <1>4, Zenon

LEMMA BlockLengthTyped ==
    ASSUME NEW len \in Nat, NEW b \in Nat
    PROVE  BlockLength(len, b) \in Int
<1>1. BlockSize \in Int /\ len - b * BlockSize \in Int
    BY BlockCacheConstants
<1>2. \E x \in {BlockSize, len - b * BlockSize} : \A y \in {BlockSize, len - b * BlockSize} : x <= y
    BY <1>1
<1> QED
    BY <1>1, <1>2, Zenon DEF BlockLength, Min

(* The gate keeps the token current from the check to the put. *)
LEMMA PublishBlockStep ==
    ASSUME FreshInv, NEW r \in Readers, PublishBlock(r)
    PROVE  FreshInv'
<1> DEFINE s == rd[r]
           k == <<s.path, s.blk>>
           entry == [version |-> s.payload, len |-> BlockLength(s.size, s.blk)]
<1>1. /\ s \in ReaderState /\ ReaderInv(s) /\ s.pc = "put" /\ s.phase = "op"
      /\ s.path \in Paths /\ s.payload \in Nat /\ s.size \in Nat /\ s.blk \in Nat
    BY ReaderTyped, Zenon DEF PublishBlock, ReaderState
<1>2. /\ Set(r, Published(s)) /\ UNCHANGED <<storage, states, mu, acked>>
      /\ PutBlock(k, entry) /\ sizes' = sizes /\ inFlight' = inFlight
    BY Zenon DEF PublishBlock, coordinator, fileSizes
<1>3. Fits(acked, mu, s.path, s.payload) /\ InFile(s)
    BY <1>1, Zenon DEF ReaderInv
<1>4. FitsBlock(acked, mu, s.path, s.payload) /\ k \in Keys
    BY <1>1, <1>3, FitsBlocks, BlockIsKey, ZenonT(30)
<1>5. entry \in Entry /\ entry.version = s.payload
    BY <1>1, BlockLengthTyped, Zenon DEF Entry
<1>6. Typed /\ sizes' \in [Paths -> Entry] /\ inFlight' \in [Keys -> Nat]
    BY <1>2, Zenon DEF FreshInv, Typed
<1> HIDE DEF entry
<1>7. /\ blocks' \in [Keys -> Entry]
      /\ \A x \in Keys : Has(blocks', x) => \/ Has(blocks, x) /\ blocks'[x] = blocks[x]
                                            \/ FitsBlock(acked, mu, x[1], blocks'[x].version)
    <2>1. \A x \in Keys : Has(blocks', x) => \/ Has(blocks, x) /\ blocks'[x] = blocks[x]
                                             \/ x = k /\ blocks'[x] = entry
        BY <1>2, <1>4, <1>5, <1>6, PutBlockPuts, Zenon
    <2>2. blocks' \in [Keys -> Entry]
        BY <1>2, <1>4, <1>5, <1>6, PutBlockPuts, Zenon
    <2>3. k[1] = s.path
        BY Zenon
    <2> HIDE DEF k
    <2> QED
        BY <1>4, <1>5, <2>1, <2>2, <2>3, Zenon
<1>8. Published(s) \in ReaderState /\ ReaderInv(Published(s))
    BY <1>1, PublishedKeeps, Zenon
<1> QED
    BY <1>2, <1>6, <1>7, <1>8, ReaderKeeps, Zenon

LEMMA ReleaseBlockLoadLockStep ==
    ASSUME FreshInv, NEW r \in Readers, ReleaseBlockLoadLock(r)
    PROVE  FreshInv'
<1> DEFINE s == rd[r]
           q == [s EXCEPT !.lock = 0]
           g == Guarded(q, "get")
           t == IF q.err \/ q.blk = LastBlock(q.size) THEN Plain(q, "done")
                ELSE [g EXCEPT !.blk = @ + 1]
<1>1. s \in ReaderState /\ ReaderInv(s) /\ s.pc = "release"
    BY ReaderTyped, Zenon DEF ReleaseBlockLoadLock
<1>2. /\ Set(r, t) /\ UNCHANGED <<storage, states, mu, acked>>
      /\ sizes' = sizes /\ blocks' = blocks
      /\ inFlight' = inFlight \/ inFlight' = [inFlight EXCEPT ![LockKey(q)] = 0]
    BY Zenon DEF ReleaseBlockLoadLock, coordinator, fileSizes, memory
<1>3. /\ sizes' \in [Paths -> Entry] /\ blocks' \in [Keys -> Entry]
      /\ inFlight' \in [Keys -> Nat]
    BY <1>2 DEF FreshInv, Typed
<1>4. ~ s.locked /\ ~ s.stale /\ (~ s.err => InFile(s))
    BY <1>1, Zenon DEF ReaderInv, LockInv
<1>5. t \in ReaderState /\ ReaderInv(t)
    <2> HIDE DEF s
    <2>1. /\ q \in ReaderState /\ SameToken(s, q) /\ q.lock = 0 /\ ~ q.locked /\ ~ q.stale
          /\ q.blk = s.blk /\ q.size = s.size /\ q.err = s.err
        BY <1>1, <1>4, Zenon DEF ReaderState, SameToken
    <2> HIDE DEF q
    <2>2. CASE q.err \/ q.blk = LastBlock(q.size)
        <3> DEFINE u == Plain(q, "done")
        <3>1. /\ u \in ReaderState /\ SameToken(s, u) /\ u.lock = 0 /\ ~ u.locked /\ ~ u.stale
              /\ u.blk = s.blk /\ u.size = s.size /\ u.err = s.err /\ u.pc = "done"
              /\ u.phase = "none"
            <4>1. Moved(q, u, "done", "none")
                BY <2>1, PlainMoves, StepsTyped, Zenon
            <4> HIDE DEF u
            <4> QED
                BY <2>1, <4>1, Zenon DEF Moved, SameToken
        <3>2. t = u
            BY <2>2, Zenon
        <3> HIDE DEF u, t
        <3>3. LockInv(u) /\ (~ u.err => InFile(u))
            BY <1>4, <3>1, Zenon DEF LockInv, InFile
        <3> QED
            BY <1>1, <3>1, <3>2, <3>3, GoesOn, Zenon
    <2>3. CASE ~ (q.err \/ q.blk = LastBlock(q.size))
        <3> DEFINE u == [g EXCEPT !.blk = @ + 1]
        <3>1. /\ g \in ReaderState /\ SameToken(s, g) /\ g.lock = 0 /\ ~ g.locked /\ ~ g.stale
              /\ g.blk = s.blk /\ g.size = s.size /\ g.err = s.err /\ g.pc = "get"
              /\ g.phase = "prefix"
            <4>1. Moved(q, g, "get", "prefix")
                BY <2>1, GuardedMoves, StepsTyped, Zenon
            <4> HIDE DEF g
            <4> QED
                BY <2>1, <4>1, Zenon DEF Moved, SameToken
        <3>2. t = u
            BY <2>3, Zenon
        <3> HIDE DEF g
        <3>3. /\ u \in ReaderState /\ SameToken(s, u) /\ u.lock = 0 /\ ~ u.locked /\ ~ u.stale
              /\ u.blk = s.blk + 1 /\ u.size = s.size /\ u.pc = "get" /\ u.phase = "prefix"
            BY <3>1 DEF ReaderState, SameToken
        <3> HIDE DEF u, t
        <3>4. LockInv(u) /\ InFile(u)
            BY <1>1, <1>4, <2>1, <2>3, <3>3, LastBlockTyped DEF LockInv, InFile, ReaderState
        <3> QED
            BY <1>1, <3>2, <3>3, <3>4, GoesOn, Zenon
    <2> QED
        BY <2>2, <2>3, Zenon
<1> HIDE DEF t
<1> QED
    BY <1>2, <1>3, <1>5, ReaderKeeps, Zenon

LEMMA CloseStep ==
    ASSUME FreshInv, NEW r \in Readers, Close(r) \/ Cancel(r)
    PROVE  FreshInv'
<1>1. /\ Set(r, IdleReader)
      /\ UNCHANGED <<storage, states, mu, acked, sizes, blocks, inFlight>>
    BY Zenon DEF Close, Cancel, coordinator, fileSizes, memory
<1> QED
    BY <1>1, IdleReaderTyped, ReaderOnly, Zenon

LEMMA ReadAgainStep ==
    ASSUME FreshInv, NEW r \in Readers, ReadAgain(r)
    PROVE  FreshInv'
<1> DEFINE s == rd[r]
           g == Guarded(s, "get")
           u == [g EXCEPT !.blk = 0, !.floor = acked[s.path]]
<1>1. /\ s \in ReaderState /\ ReaderInv(s) /\ s.pc = "done" /\ ~ s.err
      /\ acked[s.path] \in Nat
    BY ReaderTyped, Zenon DEF ReadAgain
<1>2. Set(r, u) /\ UNCHANGED <<storage, states, mu, acked, sizes, blocks, inFlight>>
    BY Zenon DEF ReadAgain, coordinator, fileSizes, memory
<1>3. InFile(s) /\ s.lock = 0 /\ ~ s.locked /\ ~ s.stale
    BY <1>1, Zenon DEF ReaderInv, LockInv
<1>4. u \in ReaderState /\ ReaderInv(u)
    <2> HIDE DEF s
    <2>1. /\ g \in ReaderState /\ SameToken(s, g) /\ g.lock = 0 /\ ~ g.locked /\ ~ g.stale
          /\ g.size = s.size /\ g.pc = "get" /\ g.phase = "prefix"
        <3>1. Moved(s, g, "get", "prefix")
            BY <1>1, <1>3, GuardedMoves, StepsTyped, Zenon
        <3> HIDE DEF g
        <3> QED
            BY <1>1, <1>3, <3>1, Zenon DEF Moved
    <2> HIDE DEF g
    <2>2. /\ u \in ReaderState /\ u.path = s.path /\ u.state = s.state /\ u.gen = s.gen
          /\ u.lock = 0 /\ ~ u.locked /\ ~ u.stale /\ u.size = s.size /\ u.blk = 0
          /\ u.pc = "get" /\ u.phase = "prefix" /\ u.floor = acked[s.path]
        BY <1>1, <2>1, Zenon DEF ReaderState, SameToken
    <2> HIDE DEF u
    <2>3. LockInv(u) /\ InFile(u)
        BY <1>1, <1>3, <2>2, LastBlockTyped DEF LockInv, InFile, ReaderState
    <2> QED
        BY <1>1, <2>2, <2>3 DEF ReaderInv
<1> HIDE DEF u
<1> QED
    BY <1>2, <1>4, ReaderOnly

--------------------------------------------------------------------------------
(* All steps together. *)

LEMMA FreshInit == Init => FreshInv
<1> SUFFICES ASSUME Init PROVE FreshInv
    BY Zenon
<1>1. PICK v \in Versions : storage = [p \in Paths |-> v]
    BY Zenon DEF Init
<1>2. v \in Nat
    BY BlockCacheConstants, Zenon
<1>3. /\ pathStates = [p \in Paths |-> 0] /\ generation = [s \in StateIds |-> 0]
      /\ sizes = [p \in Paths |-> NoEntry] /\ blocks = [k \in Keys |-> NoEntry]
      /\ inFlight = [k \in Keys |-> 0] /\ rd = [r \in Readers |-> IdleReader]
      /\ mu = [m \in Mutators |-> IdleMutator] /\ acked = storage
    BY Zenon DEF Init
<1>4. NoEntry \in Entry /\ NoEntry.len = 0
    BY DEF NoEntry, Entry
<1>5. IdleMutator \in MutatorState
    BY DEF IdleMutator, MutatorState
<1>6. Typed
    BY <1>1, <1>2, <1>3, <1>4, <1>5, IdleReaderTyped, Zenon DEF Typed
<1>7. StatesInv /\ StorageInv
    BY <1>1, <1>2, <1>3 DEF StatesInv, StorageInv, IdleMutator
<1>8. \A m \in Mutators : MutatorInv(m)
    BY <1>3, NoStates, Zenon DEF MutatorInv, IdleMutator
<1>9. EntriesInv
    BY <1>3, <1>4, Zenon DEF EntriesInv, Has
<1>10. \A r \in Readers : ReaderInv(rd[r])
    BY <1>3, IdleReaderTyped, Zenon
<1> QED
    BY <1>6, <1>7, <1>8, <1>9, <1>10, Zenon DEF FreshInv

LEMMA FreshNext == FreshInv /\ [Next]_vars => FreshInv'
<1> SUFFICES ASSUME FreshInv, [Next]_vars PROVE FreshInv'
    BY Zenon
<1>1. CASE UNCHANGED vars
    <2>1. /\ storage' = storage /\ pathStates' = pathStates /\ generation' = generation
          /\ sizes' = sizes /\ blocks' = blocks /\ inFlight' = inFlight
          /\ rd' = rd /\ mu' = mu /\ acked' = acked
        BY <1>1, Zenon DEF vars
    <2>2. (Typed /\ StatesInv /\ StorageInv)' /\ \A m \in Mutators : MutatorInv(m)'
        BY <2>1, ZenonT(30) DEF FreshInv, Typed, StatesInv, StorageInv, MutatorInv
    <2>3. EntriesInv'
        BY <2>1, Zenon DEF FreshInv, EntriesInv
    <2>4. ASSUME NEW r \in Readers PROVE ReaderInv(rd[r])'
        <3>1. ReaderInv(rd[r])
            BY Zenon DEF FreshInv
        <3> QED
            BY <2>1, <3>1, ZenonT(30) DEF ReaderInv, LockInv, InFile, IsCurrentToken
    <2> QED
        BY <2>2, <2>3, <2>4, Zenon DEF FreshInv
<1>2. ASSUME NEW r \in Readers, NEW p \in Paths, Open(r, p) PROVE FreshInv'
    BY <1>2, OpenStep DEF Kept
<1>3. ASSUME NEW r \in Readers, ReaderStep(r) PROVE FreshInv'
    BY <1>3, TakeBarrierStep, TakeGateStep, FileSizeStep, StatStep, SaveFileSizeStep, GetBlockStep,
       RemoveBlockStep, BlockLoadLockStep, TakeLoadLockStep, LoadStep, PublishBlockStep,
       ReleaseBlockLoadLockStep, Zenon DEF ReaderStep
<1>4. ASSUME NEW r \in Readers, Close(r) \/ ReadAgain(r) \/ Cancel(r) PROVE FreshInv'
    BY <1>4, CloseStep, ReadAgainStep, Zenon
<1>5. ASSUME NEW m \in Mutators, MutatorStep(m) \/ Abandon(m) PROVE FreshInv'
    BY <1>5, EnterPathInvalidationStep, BeginPathInvalidationStep, QueueForBarrierStep,
       BeginPrefixInvalidationStep, PurgeStep, AbandonStep, Zenon DEF MutatorStep, Kept
<1>6. ASSUME NEW m \in Mutators, NEW p \in Paths, ChangeFile(m, p) PROVE FreshInv'
    BY <1>6, ChangeFileStep DEF Kept
<1>7. ASSUME NEW m \in Mutators, NEW move \in Moves, ChangeTree(m, move) PROVE FreshInv'
    BY <1>7, ChangeTreeStep DEF Kept
<1> QED
    BY <1>1, <1>2, <1>3, <1>4, <1>5, <1>6, <1>7, Zenon DEF Next, ReaderStep, MutatorStep

(* Whatever readers, writers, deletions, renames, cancellations and evictions  *)
(* come together, a read returns nothing older than the last change that was   *)
(* answered before it began: FreshReads, for any numbers of tasks, files,      *)
(* blocks and versions and any capacities.                                     *)
THEOREM ReadsAreFresh == Spec => []FreshReads
<1>1. FreshInv => FreshReads
    BY Zenon DEF FreshInv, ReaderInv, FreshReads
<1> QED
    BY <1>1, FreshInit, FreshNext, PTL DEF Spec

--------------------------------------------------------------------------------
(* The load locks. *)

(* A lock serves one block, a reader that has one has that of its block, and  *)
(* one reader at a time is in.                                                *)
FlightInv ==
    /\ \A j, k \in Keys : inFlight[j] # 0 /\ inFlight[j] = inFlight[k] => j = k
    /\ \A r \in Readers : rd[r].lock # 0 =>
           LockKey(rd[r]) \in Keys /\ inFlight[LockKey(rd[r])] = rd[r].lock
    /\ \A r, q \in Readers : r # q /\ rd[r].locked /\ rd[q].locked => rd[r].lock # rd[q].lock

LEMMA LockedHasLock ==
    ASSUME FreshInv
    PROVE  \A r \in Readers : rd[r].locked => rd[r].lock # 0
BY Zenon DEF FreshInv, Typed, ReaderState, ReaderSteps, ReaderInv, LockInv

(* A reader that keeps its lock keeps the block the lock is for. *)
SameLock(s, t) ==
    t.lock # 0 => t.lock = s.lock /\ LockKey(t) = LockKey(s) /\ (t.locked => s.locked)

LEMMA PlainLock ==
    ASSUME NEW s \in ReaderState, NEW pc \in ReaderSteps
    PROVE  SameLock(s, Plain(s, pc)) /\ SameLock(s, Guarded(s, pc))
<1>1. /\ SameToken(s, Plain(s, pc)) /\ Plain(s, pc).blk = s.blk
      /\ Plain(s, pc).lock = s.lock /\ Plain(s, pc).locked = s.locked
    BY PlainMoves, Zenon DEF Moved
<1>2. /\ SameToken(s, Guarded(s, pc)) /\ Guarded(s, pc).blk = s.blk
      /\ Guarded(s, pc).lock = s.lock /\ Guarded(s, pc).locked = s.locked
    BY GuardedMoves, Zenon DEF Moved
<1> QED
    BY <1>1, <1>2, Zenon DEF SameLock, SameToken, LockKey

LEMMA FailLock ==
    ASSUME NEW s \in ReaderState
    PROVE  SameLock(s, Fail(s))
<1>1. ASSUME NEW pc \in ReaderSteps
      PROVE  /\ Plain(s, pc) \in ReaderState /\ SameToken(s, Plain(s, pc))
             /\ Plain(s, pc).blk = s.blk
             /\ Plain(s, pc).lock = s.lock /\ Plain(s, pc).locked = s.locked
    BY PlainMoves, Zenon DEF Moved
<1>2. CASE s.locked
    <2> DEFINE q == Plain(s, "release")
               u == [q EXCEPT !.locked = FALSE, !.err = TRUE]
    <2>1. Fail(s) = u
        BY <1>2, Zenon DEF Fail
    <2>2. q \in ReaderState /\ SameToken(s, q) /\ q.blk = s.blk /\ q.lock = s.lock
        BY <1>1, Zenon DEF ReaderSteps
    <2> HIDE DEF q
    <2>3. SameToken(s, u) /\ u.blk = s.blk /\ u.lock = s.lock /\ ~ u.locked
        BY <2>2, Zenon DEF ReaderState, SameToken
    <2> HIDE DEF u
    <2> QED
        BY <2>1, <2>3, Zenon DEF SameLock, SameToken, LockKey
<1>3. CASE ~ s.locked
    <2> DEFINE q == Plain(s, "done")
               u == [q EXCEPT !.err = TRUE]
    <2>1. Fail(s) = u
        BY <1>3, Zenon DEF Fail
    <2>2. /\ q \in ReaderState /\ SameToken(s, q) /\ q.blk = s.blk /\ q.lock = s.lock
          /\ q.locked = s.locked
        BY <1>1, Zenon DEF ReaderSteps
    <2> HIDE DEF q
    <2>3. SameToken(s, u) /\ u.blk = s.blk /\ u.lock = s.lock /\ u.locked = s.locked
        BY <2>2, Zenon DEF ReaderState, SameToken
    <2> HIDE DEF u
    <2> QED
        BY <2>1, <2>3, Zenon DEF SameLock, SameToken, LockKey
<1> QED
    BY <1>2, <1>3, Zenon

LEMMA TakeLock ==
    ASSUME NEW s \in ReaderState, s.locked <=> s.lock # 0, NEW v
    PROVE  SameLock(s, Take(s, v))
<1> DEFINE t == [Seen(s, v) EXCEPT !.payload = 0]
<1>1. /\ t \in ReaderState /\ SameToken(s, t)
      /\ t.size = s.size /\ t.blk = s.blk /\ t.locked = s.locked /\ t.lock = s.lock
    BY Zenon DEF Seen, ReaderState, SameToken
<1> HIDE DEF t
<1>2. CASE s.locked /\ (s.blk = LastBlock(s.size) \/ ~ s.full)
    <2> DEFINE q == Plain(t, "release")
               u == [q EXCEPT !.locked = FALSE]
    <2>1. Take(s, v) = u
        BY <1>2, Zenon DEF Take, t
    <2>2. q \in ReaderState /\ SameToken(s, q) /\ q.blk = s.blk /\ q.lock = s.lock
        <3>1. Moved(t, q, "release", "none")
            BY <1>1, PlainMoves, StepsTyped, Zenon
        <3> HIDE DEF q
        <3> QED
            BY <1>1, <3>1, Zenon DEF Moved, SameToken
    <2> HIDE DEF q
    <2>3. SameToken(s, u) /\ u.blk = s.blk /\ u.lock = s.lock /\ ~ u.locked
        BY <2>2, Zenon DEF ReaderState, SameToken
    <2> HIDE DEF u
    <2> QED
        BY <2>1, <2>3, Zenon DEF SameLock, SameToken, LockKey
<1>3. CASE ~ (s.locked /\ (s.blk = LastBlock(s.size) \/ ~ s.full)) /\ s.blk = LastBlock(s.size)
    <2> DEFINE u == Plain(t, "done")
    <2>1. Take(s, v) = u
        BY <1>3, Zenon DEF Take, t
    <2>2. SameToken(s, u) /\ u.blk = s.blk /\ u.lock = s.lock /\ u.locked = s.locked
        <3>1. Moved(t, u, "done", "none")
            BY <1>1, PlainMoves, StepsTyped, Zenon
        <3> HIDE DEF u
        <3> QED
            BY <1>1, <3>1, Zenon DEF Moved, SameToken
    <2> HIDE DEF u
    <2> QED
        BY <2>1, <2>2, Zenon DEF SameLock, SameToken, LockKey
<1>4. CASE ~ (s.locked /\ (s.blk = LastBlock(s.size) \/ ~ s.full)) /\ s.blk # LastBlock(s.size)
    <2> DEFINE q == Guarded(t, "get")
               u == [q EXCEPT !.blk = @ + 1]
    <2>1. Take(s, v) = u
        BY <1>4, Zenon DEF Take, t
    <2>2. q \in ReaderState /\ SameToken(s, q) /\ q.lock = s.lock /\ q.locked = s.locked
        <3>1. Moved(t, q, "get", "prefix")
            BY <1>1, GuardedMoves, StepsTyped, Zenon
        <3> HIDE DEF q
        <3> QED
            BY <1>1, <3>1, Zenon DEF Moved, SameToken
    <2> HIDE DEF q
    <2>3. SameToken(s, u) /\ u.lock = s.lock /\ u.locked = s.locked
        BY <2>2, Zenon DEF ReaderState, SameToken
    <2> HIDE DEF u
    <2> QED
        BY <1>4, <2>1, <2>3, Zenon DEF SameLock, SameToken, LockKey
<1> QED
    BY <1>2, <1>3, <1>4, Zenon

LEMMA PublishedLock ==
    ASSUME NEW s \in ReaderState, s.locked <=> s.lock # 0
    PROVE  SameLock(s, Published(s))
<1>1. CASE s.full /\ s.blk < LastBlock(s.size)
    <2> DEFINE q == Guarded(s, "put")
               u == [q EXCEPT !.blk = @ + 1]
    <2>1. Published(s) = u
        BY <1>1, Zenon DEF Published
    <2>2. q \in ReaderState /\ SameToken(s, q) /\ q.lock = s.lock /\ q.locked = s.locked
        <3>1. Moved(s, q, "put", "prefix")
            BY GuardedMoves, StepsTyped, Zenon
        <3> HIDE DEF q
        <3> QED
            BY <3>1, Zenon DEF Moved
    <2> HIDE DEF q
    <2>3. SameToken(s, u) /\ u.lock = s.lock /\ u.locked = s.locked
        BY <2>2 DEF ReaderState, SameToken
    <2> HIDE DEF u
    <2> QED
        BY <1>1, <2>1, <2>3, Zenon DEF SameLock, SameToken, LockKey
<1>2. CASE ~ (s.full /\ s.blk < LastBlock(s.size))
    BY <1>2, TakeLock, Zenon DEF Published
<1> QED
    BY <1>1, <1>2, Zenon

(* A step that leaves the map of locks alone and gives no lock. *)
LEMMA FlightKeeps ==
    ASSUME FreshInv, FreshInv', FlightInv, NEW r \in Readers, NEW t, SameLock(rd[r], t), Set(r, t),
           inFlight' = inFlight
    PROVE  FlightInv'
<1>1. \A q \in Readers : rd'[q] = IF q = r THEN t ELSE rd[q]
    BY Zenon DEF Set, FreshInv, Typed
<1>2. \A q \in Readers : rd'[q].locked => rd'[q].lock # 0
    BY ZenonT(30) DEF FreshInv, Typed, ReaderState, ReaderSteps, ReaderInv, LockInv
<1>3. \A q \in Readers : rd'[q].lock # 0
          => /\ rd'[q].lock = rd[q].lock /\ LockKey(rd'[q]) = LockKey(rd[q])
             /\ rd'[q].locked => rd[q].locked
    BY <1>1, Zenon DEF SameLock
<1>4. \A q \in Readers : rd'[q].lock # 0
          => LockKey(rd'[q]) \in Keys /\ inFlight[LockKey(rd'[q])] = rd'[q].lock
    BY <1>3, Zenon DEF FlightInv
<1>5. \A p, q \in Readers : p # q /\ rd'[p].locked /\ rd'[q].locked => rd'[p].lock # rd'[q].lock
    BY <1>2, <1>3 DEF FlightInv
<1> QED
    BY <1>4, <1>5, Zenon DEF FlightInv, LockKey

LEMMA ReaderFlight ==
    ASSUME FreshInv, FreshInv', FlightInv, NEW r \in Readers,
           \/ TakeBarrier(r) \/ TakeGate(r) \/ FileSize(r) \/ Stat(r) \/ SaveFileSize(r)
           \/ GetBlock(r) \/ RemoveBlock(r) \/ Load(r) \/ PublishBlock(r)
    PROVE  FlightInv'
<1> DEFINE s == rd[r]
<1>1. /\ s \in ReaderState
      /\ s.pc \in {"get", "remove", "load", "put"} => (s.locked <=> s.lock # 0)
      /\ s.pc \in {"size", "stat", "putsize"} => s.lock = 0
    BY ReaderTyped, ZenonT(30) DEF ReaderInv, LockInv
<1>2. inFlight' = inFlight
    BY Zenon DEF TakeBarrier, TakeGate, FileSize, Stat, SaveFileSize, GetBlock, RemoveBlock, Load,
           PublishBlock
<1>3. ASSUME NEW t, SameLock(s, t), Set(r, t) PROVE FlightInv'
    BY <1>2, <1>3, FlightKeeps, Zenon
<1> HIDE DEF s
<1>4. CASE TakeBarrier(r)
    <2>1. Set(r, [s EXCEPT !.phase = "gate"])
        BY <1>4, Zenon DEF TakeBarrier, s
    <2>2. SameLock(s, [s EXCEPT !.phase = "gate"])
        BY <1>1, Zenon DEF SameLock, LockKey, ReaderState
    <2> QED
        BY <1>3, <2>1, <2>2, Zenon
<1>5. CASE TakeGate(r)
    <2>1. /\ s.pc \in {"get", "put"}
          /\ Set(r, IF IsCurrent(r) THEN [s EXCEPT !.phase = "op"]
                    ELSE IF s.pc = "get" THEN Missed(s) ELSE Published(s))
        BY <1>5, Zenon DEF TakeGate, s
    <2>2. SameLock(s, [s EXCEPT !.phase = "op"])
        BY <1>1, Zenon DEF SameLock, LockKey, ReaderState
    <2>3. SameLock(s, Missed(s)) /\ SameLock(s, Published(s))
        BY <1>1, <2>1, PlainLock, PublishedLock, Zenon DEF Missed, ReaderSteps
    <2> QED
        BY <1>3, <2>1, <2>2, <2>3, Zenon
<1>6. CASE FileSize(r)
    <2> DEFINE e == sizes[s.path]
               q == Seen(s, e.version)
               g == Guarded(q, "get")
               u == [g EXCEPT !.size = e.len]
    <2>1. s.lock = 0 /\ (Set(r, u) \/ Set(r, Plain(s, "stat")))
        BY <1>1, <1>6, Zenon DEF FileSize, s
    <2>2. q \in ReaderState /\ q.lock = s.lock
        BY <1>1, Zenon DEF Seen, ReaderState
    <2> HIDE DEF q
    <2>3. g \in ReaderState /\ g.lock = s.lock
        <3>1. Moved(q, g, "get", "prefix")
            BY <2>2, GuardedMoves, StepsTyped, Zenon
        <3> HIDE DEF g
        <3> QED
            BY <2>2, <3>1, Zenon DEF Moved
    <2> HIDE DEF g
    <2>4. u.lock = 0
        BY <2>1, <2>3, Zenon DEF ReaderState
    <2>5. SameLock(s, u) /\ SameLock(s, Plain(s, "stat"))
        BY <1>1, <2>4, PlainLock, Zenon DEF SameLock, ReaderSteps
    <2> QED
        BY <1>3, <2>1, <2>5, Zenon
<1>7. CASE Stat(r)
    <2> DEFINE v == storage[s.path]
               g == Guarded(s, "putsize")
               u == [g EXCEPT !.size = Length[v], !.payload = v]
    <2>1. s.lock = 0 /\ (Set(r, u) \/ Set(r, Fail(s)))
        BY <1>1, <1>7, Zenon DEF Stat, s
    <2>2. g \in ReaderState /\ g.lock = s.lock
        <3>1. Moved(s, g, "putsize", "prefix")
            BY <1>1, GuardedMoves, StepsTyped, Zenon
        <3> HIDE DEF g
        <3> QED
            BY <1>1, <3>1, Zenon DEF Moved
    <2> HIDE DEF g
    <2>3. u.lock = 0
        BY <2>1, <2>2, Zenon DEF ReaderState
    <2>4. SameLock(s, u) /\ SameLock(s, Fail(s))
        BY <1>1, <2>3, FailLock, Zenon DEF SameLock
    <2> QED
        BY <1>3, <2>1, <2>4, Zenon
<1>8. CASE SaveFileSize(r)
    <2> DEFINE g == Guarded(s, "get")
               u == [g EXCEPT !.payload = 0]
    <2>1. s.lock = 0 /\ Set(r, u)
        BY <1>1, <1>8, Zenon DEF SaveFileSize, s
    <2>2. g \in ReaderState /\ g.lock = s.lock
        <3>1. Moved(s, g, "get", "prefix")
            BY <1>1, GuardedMoves, StepsTyped, Zenon
        <3> HIDE DEF g
        <3> QED
            BY <1>1, <3>1, Zenon DEF Moved
    <2> HIDE DEF g
    <2>3. u.lock = 0
        BY <2>1, <2>2, Zenon DEF ReaderState
    <2>4. SameLock(s, u)
        BY <2>3, Zenon DEF SameLock
    <2> QED
        BY <1>3, <2>1, <2>4, Zenon
<1>9. CASE GetBlock(r)
    <2>1. /\ s.pc = "get"
          /\ \/ Set(r, Missed(s)) \/ Set(r, Plain(s, "remove"))
             \/ \E v : Set(r, Take(s, v))
        BY <1>9, Zenon DEF GetBlock, s
    <2>2. /\ SameLock(s, Missed(s)) /\ SameLock(s, Plain(s, "remove"))
          /\ \A v : SameLock(s, Take(s, v))
        BY <1>1, <2>1, PlainLock, TakeLock, Zenon DEF Missed, ReaderSteps
    <2> QED
        BY <1>3, <2>1, <2>2, Zenon
<1>10. CASE RemoveBlock(r)
    <2>1. Set(r, Plain(s, "lock")) \/ Set(r, Plain(s, "load")) \/ Set(r, Fail(s))
        BY <1>10, Zenon DEF RemoveBlock, s
    <2>2. SameLock(s, Plain(s, "lock")) /\ SameLock(s, Plain(s, "load")) /\ SameLock(s, Fail(s))
        BY <1>1, PlainLock, FailLock, Zenon DEF ReaderSteps
    <2> QED
        BY <1>3, <2>1, <2>2, Zenon
<1>11. CASE Load(r)
    <2> DEFINE v == storage[s.path]
               q == IF s.full THEN [s EXCEPT !.blk = 0] ELSE s
               g == Guarded(q, "put")
               u == [g EXCEPT !.payload = v]
    <2>1. Set(r, u) \/ Set(r, Fail(s))
        BY <1>11, Zenon DEF Load, s
    <2>2. /\ q \in ReaderState /\ q.lock = s.lock /\ q.locked = s.locked /\ q.path = s.path
          /\ q.full = s.full /\ (~ s.full => q.blk = s.blk)
        BY <1>1, Zenon DEF ReaderState
    <2> HIDE DEF q
    <2>3. /\ g \in ReaderState /\ g.lock = s.lock /\ g.locked = s.locked /\ g.path = s.path
          /\ g.full = s.full /\ (~ s.full => g.blk = s.blk)
        <3>1. Moved(q, g, "put", "prefix")
            BY <2>2, GuardedMoves, StepsTyped, Zenon
        <3> HIDE DEF g
        <3> QED
            BY <2>2, <3>1, Zenon DEF Moved, SameToken
    <2> HIDE DEF g
    <2>4. /\ u.lock = s.lock /\ u.locked = s.locked /\ u.path = s.path
          /\ u.full = s.full /\ (~ s.full => u.blk = s.blk)
        BY <2>3, Zenon DEF ReaderState
    <2> HIDE DEF u
    <2>5. SameLock(s, u) /\ SameLock(s, Fail(s))
        BY <1>1, <2>4, FailLock, Zenon DEF SameLock, LockKey
    <2> QED
        BY <1>3, <2>1, <2>5, Zenon
<1>12. CASE PublishBlock(r)
    <2>1. s.pc = "put" /\ Set(r, Published(s))
        BY <1>12, Zenon DEF PublishBlock, s
    <2> QED
        BY <1>1, <1>3, <2>1, PublishedLock, Zenon
<1> QED
    BY <1>4, <1>5, <1>6, <1>7, <1>8, <1>9, <1>10, <1>11, <1>12, ZenonT(30)

(* A reader that opens, closes or begins again has no lock. *)
LEMMA BeginFlight ==
    ASSUME FreshInv, FreshInv', FlightInv, NEW r \in Readers,
           (\E p \in Paths : Open(r, p)) \/ Close(r) \/ ReadAgain(r) \/ Cancel(r)
    PROVE  FlightInv'
<1> DEFINE s == rd[r]
<1>1. s \in ReaderState /\ (s.pc = "done" => s.lock = 0)
    BY ReaderTyped, ZenonT(30) DEF ReaderInv, LockInv
<1>2. inFlight' = inFlight
    BY Zenon DEF Open, Close, ReadAgain, Cancel
<1>3. ASSUME NEW t, t.lock = 0, Set(r, t) PROVE FlightInv'
    <2>1. SameLock(s, t)
        BY <1>3, Zenon DEF SameLock
    <2> QED
        BY <1>2, <1>3, <2>1, FlightKeeps, Zenon
<1>4. IdleReader.lock = 0
    BY Zenon DEF IdleReader
<1>5. CASE \E p \in Paths : Open(r, p)
    <2> DEFINE g == Guarded(IdleReader, "size")
               u(p) == [g EXCEPT !.path = p, !.full = r \in FullReaders, !.floor = acked[p],
                                 !.state = PathState(p), !.gen = generation'[PathState(p)]]
    <2>1. PICK p \in Paths : Set(r, u(p))
        BY <1>5, Zenon DEF Open
    <2>2. g \in ReaderState /\ g.lock = 0
        <3>1. Moved(IdleReader, g, "size", "prefix")
            BY <1>4, IdleReaderTyped, GuardedMoves, StepsTyped, Zenon
        <3> HIDE DEF g
        <3> QED
            BY <1>4, IdleReaderTyped, <3>1, Zenon DEF Moved
    <2> HIDE DEF g
    <2>3. u(p).lock = 0
        BY <2>2 DEF ReaderState
    <2> QED
        BY <1>3, <2>1, <2>3, Zenon
<1>6. CASE Close(r) \/ Cancel(r)
    BY <1>3, <1>4, <1>6, Zenon DEF Close, Cancel
<1>7. CASE ReadAgain(r)
    <2> DEFINE g == Guarded(s, "get")
               u == [g EXCEPT !.blk = 0, !.floor = acked[s.path]]
    <2>1. Set(r, u) /\ s.lock = 0
        BY <1>1, <1>7, Zenon DEF ReadAgain
    <2> HIDE DEF s
    <2>2. g \in ReaderState /\ g.lock = 0
        <3>1. Moved(s, g, "get", "prefix")
            BY <1>1, <2>1, GuardedMoves, StepsTyped, Zenon
        <3> HIDE DEF g
        <3> QED
            BY <1>1, <2>1, <3>1, Zenon DEF Moved
    <2> HIDE DEF g
    <2>3. u.lock = 0
        BY <2>2 DEF ReaderState
    <2> QED
        BY <1>3, <2>1, <2>3, Zenon
<1> QED
    BY <1>5, <1>6, <1>7, Zenon

LEMMA BlockLoadLockFlight ==
    ASSUME FreshInv, FreshInv', FlightInv, NEW r \in Readers, BlockLoadLock(r)
    PROVE  FlightInv'
<1> DEFINE s == rd[r]
           k == LockKey(s)
           l == LoadLockOf(r)
           q == Plain(s, "wait")
           u == [q EXCEPT !.lock = l]
<1>1. s \in ReaderState /\ s.pc = "lock" /\ s.lock = 0 /\ ~ s.locked
    BY ReaderTyped, Zenon DEF BlockLoadLock, ReaderInv, LockInv
<1>2. k \in Keys /\ l \in Nat \ {0} /\ inFlight \in [Keys -> Nat]
    BY <1>1, LoadLockTyped, Zenon DEF FreshInv, Typed
<1>3. Set(r, u) /\ inFlight' = Refer(inFlight, k, l)
    BY DEF BlockLoadLock, LoadLockOf
<1>4. u.lock = l /\ ~ u.locked /\ LockKey(u) = k
    <2> HIDE DEF s, l
    <2>1. q \in ReaderState /\ SameToken(s, q) /\ q.blk = s.blk /\ ~ q.locked
        <3>1. Moved(s, q, "wait", "none")
            BY <1>1, PlainMoves, StepsTyped, Zenon
        <3> HIDE DEF q
        <3> QED
            BY <1>1, <3>1, Zenon DEF Moved
    <2> HIDE DEF q
    <2>2. u.lock = l /\ u.locked = q.locked /\ u.path = s.path /\ u.full = s.full /\ u.blk = s.blk
        BY <2>1, Zenon DEF ReaderState, SameToken
    <2> HIDE DEF u
    <2> QED
        BY <2>1, <2>2, Zenon DEF LockKey
<1> HIDE DEF u
<1>5. \A x \in Readers : rd'[x] = IF x = r THEN u ELSE rd[x]
    BY <1>3, Zenon DEF Set, FreshInv, Typed
<1>6. \/ l = inFlight[k]
      \/ inFlight[k] = 0 /\ HoldersOf(l) = {}
      \/ HoldersOf(inFlight[k]) = {} /\ HoldersOf(l) = {}
    <2>1. \E x \in LockIds : HoldersOf(x) = {}
        BY <1>1, FreeLock, Zenon
    <2> QED
        BY <2>1, Zenon DEF LoadLockOf
<1> HIDE DEF l, k, s
<1>7. \A j \in Keys : inFlight'[j] = IF j = k THEN l ELSE IF inFlight[j] = l THEN 0 ELSE inFlight[j]
    BY <1>2, <1>3, Zenon DEF Refer
<1>8. \A i, j \in Keys : inFlight'[i] # 0 /\ inFlight'[i] = inFlight'[j] => i = j
    BY <1>2, <1>7, Zenon DEF FlightInv
<1>9. ASSUME NEW x \in Readers, rd'[x].lock # 0
      PROVE  LockKey(rd'[x]) \in Keys /\ inFlight'[LockKey(rd'[x])] = rd'[x].lock
    <2>1. CASE x = r
        BY <1>2, <1>4, <1>5, <1>7, <2>1, Zenon
    <2>2. CASE x # r
        <3>1. /\ rd'[x] = rd[x] /\ LockKey(rd[x]) \in Keys
              /\ inFlight[LockKey(rd[x])] = rd[x].lock /\ rd[x].lock # 0
            BY <1>5, <1>9, <2>2, Zenon DEF FlightInv
        <3>2. LockKey(rd[x]) = k => l = inFlight[k]
            BY <1>6, <3>1, Zenon DEF HoldersOf
        <3>3. LockKey(rd[x]) # k => inFlight[LockKey(rd[x])] # l
            BY <1>2, <1>6, <3>1, Zenon DEF HoldersOf, FlightInv
        <3> QED
            BY <1>7, <3>1, <3>2, <3>3, Zenon
    <2> QED
        BY <2>1, <2>2, Zenon
<1>10. \A x, y \in Readers : x # y /\ rd'[x].locked /\ rd'[y].locked => rd'[x].lock # rd'[y].lock
    BY <1>4, <1>5, ZenonT(30) DEF FlightInv
<1> QED
    BY <1>8, <1>9, <1>10, Zenon DEF FlightInv, LockKey

LEMMA TakeLoadLockFlight ==
    ASSUME FreshInv, FreshInv', FlightInv, NEW r \in Readers, TakeLoadLock(r)
    PROVE  FlightInv'
<1> DEFINE s == rd[r]
           q == Guarded(s, "get")
           u == [q EXCEPT !.locked = TRUE]
           t == IF u.full THEN [u EXCEPT !.blk = 0] ELSE u
<1>1. /\ s \in ReaderState /\ inFlight' = inFlight /\ Set(r, t)
      /\ \A x \in Readers : rd[x].lock = s.lock => ~ rd[x].locked
    BY ReaderTyped, Zenon DEF TakeLoadLock, HoldersOf
<1>2. t.lock = s.lock /\ LockKey(t) = LockKey(s)
    <2> HIDE DEF s
    <2>1. q \in ReaderState /\ SameToken(s, q) /\ q.blk = s.blk /\ q.lock = s.lock
        <3>1. Moved(s, q, "get", "prefix")
            BY <1>1, GuardedMoves, StepsTyped, Zenon
        <3> HIDE DEF q
        <3> QED
            BY <1>1, <3>1, Zenon DEF Moved
    <2> HIDE DEF q
    <2>2. u \in ReaderState /\ SameToken(s, u) /\ u.blk = s.blk /\ u.lock = s.lock
        BY <2>1, ZenonT(30) DEF ReaderState, SameToken
    <2> HIDE DEF u
    <2>3. /\ t.lock = s.lock /\ t.path = s.path /\ t.full = s.full
          /\ ~ s.full => t.blk = s.blk
        BY <2>2, Zenon DEF ReaderState, SameToken
    <2> HIDE DEF t
    <2> QED
        BY <2>3, Zenon DEF LockKey
<1> HIDE DEF t
<1>3. \A x \in Readers : rd'[x] = IF x = r THEN t ELSE rd[x]
    BY <1>1, Zenon DEF Set, FreshInv, Typed
<1>4. \A x \in Readers : rd'[x].lock # 0
          => LockKey(rd'[x]) \in Keys /\ inFlight[LockKey(rd'[x])] = rd'[x].lock
    BY <1>2, <1>3, ZenonT(30) DEF FlightInv
<1>5. \A x, y \in Readers : x # y /\ rd'[x].locked /\ rd'[y].locked => rd'[x].lock # rd'[y].lock
    <2> HIDE DEF s
    <2> QED
        BY <1>1, <1>2, <1>3 DEF FlightInv
<1> QED
    BY <1>1, <1>4, <1>5, Zenon DEF FlightInv, LockKey

LEMMA ReleaseFlight ==
    ASSUME FreshInv, FreshInv', FlightInv, NEW r \in Readers, ReleaseBlockLoadLock(r)
    PROVE  FlightInv'
<1> DEFINE s == rd[r]
           q == [s EXCEPT !.lock = 0]
           g == Guarded(q, "get")
           k == LockKey(q)
           t == IF q.err \/ q.blk = LastBlock(q.size) THEN Plain(q, "done")
                ELSE [g EXCEPT !.blk = @ + 1]
<1>1. /\ s \in ReaderState /\ Set(r, t) /\ s.pc = "release" /\ s.lock # 0
      /\ inFlight' = IF HoldersOf(s.lock) = {r} /\ inFlight[k] = s.lock
                     THEN [inFlight EXCEPT ![k] = 0] ELSE inFlight
    BY ReaderTyped, Zenon DEF ReleaseBlockLoadLock, ReaderInv, LockInv
<1>2. t.lock = 0 /\ k = LockKey(s)
    <2> HIDE DEF s
    <2>1. q \in ReaderState /\ q.lock = 0 /\ q.path = s.path /\ q.full = s.full /\ q.blk = s.blk
        BY <1>1, Zenon DEF ReaderState
    <2> HIDE DEF q
    <2>2. Plain(q, "done").lock = 0 /\ g \in ReaderState /\ g.lock = 0
        <3> DEFINE d == Plain(q, "done")
        <3>1. Moved(q, d, "done", "none") /\ Moved(q, g, "get", "prefix")
            BY <2>1, PlainMoves, GuardedMoves, StepsTyped, Zenon
        <3> HIDE DEF d, g
        <3>2. d.lock = 0 /\ g \in ReaderState /\ g.lock = 0
            BY <2>1, <3>1, Zenon DEF Moved
        <3> QED
            BY <3>2, Zenon DEF d
    <2> HIDE DEF g
    <2>3. [g EXCEPT !.blk = @ + 1].lock = 0
        BY <2>2, Zenon DEF ReaderState
    <2> QED
        BY <2>1, <2>2, <2>3, Zenon DEF LockKey
<1>3. k \in Keys /\ inFlight[k] = s.lock /\ inFlight \in [Keys -> Nat]
    BY <1>1, <1>2, Zenon DEF FlightInv, FreshInv, Typed
<1> HIDE DEF t, k
<1>4. \A x \in Readers : rd'[x] = IF x = r THEN t ELSE rd[x]
    BY <1>1, Zenon DEF Set, FreshInv, Typed
<1>5. ASSUME NEW x \in Readers, rd'[x].locked PROVE rd'[x].lock # 0
    <2>1. rd'[x] \in ReaderState /\ LockInv(rd'[x])
        BY Zenon DEF FreshInv, Typed, ReaderInv, LockInv
    <2>2. rd'[x].pc \in ReaderSteps
        BY <2>1, Zenon DEF ReaderState
    <2> QED
        BY <1>5, <2>1, <2>2, Zenon DEF ReaderSteps, LockInv
<1>6. \A x, y \in Readers : x # y /\ rd'[x].locked /\ rd'[y].locked => rd'[x].lock # rd'[y].lock
    BY <1>2, <1>4, <1>5 DEF FlightInv
<1>7. \A j \in Keys : \/ inFlight'[j] = inFlight[j]
                      \/ j = k /\ inFlight'[j] = 0 /\ HoldersOf(s.lock) = {r}
    BY <1>1, <1>3, Zenon
<1>8. \A i, j \in Keys : inFlight'[i] # 0 /\ inFlight'[i] = inFlight'[j] => i = j
    BY <1>7, Zenon DEF FlightInv
<1>9. ASSUME NEW x \in Readers, rd'[x].lock # 0
      PROVE  LockKey(rd'[x]) \in Keys /\ inFlight'[LockKey(rd'[x])] = rd'[x].lock
    <2>1. x # r /\ rd'[x] = rd[x]
        BY <1>2, <1>4, <1>9, Zenon
    <2>2. LockKey(rd[x]) \in Keys /\ inFlight[LockKey(rd[x])] = rd[x].lock
        BY <1>9, <2>1, Zenon DEF FlightInv
    <2>3. LockKey(rd[x]) = k => HoldersOf(s.lock) # {r}
        BY <1>3, <2>1, <2>2, Zenon DEF HoldersOf
    <2> QED
        BY <1>7, <2>1, <2>2, <2>3, Zenon
<1> QED
    BY <1>6, <1>8, <1>9, Zenon DEF FlightInv, LockKey

LEMMA FlightInit == Init => FlightInv
<1> SUFFICES ASSUME Init PROVE FlightInv
    OBVIOUS
<1>1. inFlight = [k \in Keys |-> 0] /\ rd = [r \in Readers |-> IdleReader]
    BY Zenon DEF Init
<1>2. IdleReader.lock = 0 /\ ~ IdleReader.locked
    BY Zenon DEF IdleReader
<1> QED
    BY <1>1, <1>2, Zenon DEF FlightInv

LEMMA FlightNext == FreshInv /\ FreshInv' /\ FlightInv /\ [Next]_vars => FlightInv'
<1> SUFFICES ASSUME FreshInv, FreshInv', FlightInv, [Next]_vars PROVE FlightInv'
    BY Zenon
<1>1. CASE rd' = rd /\ inFlight' = inFlight
    BY <1>1, Zenon DEF FlightInv, LockKey
<1>2. CASE UNCHANGED vars
    BY <1>1, <1>2, Zenon DEF vars
<1>3. ASSUME NEW r \in Readers, ReaderStep(r) PROVE FlightInv'
    BY <1>3, ReaderFlight, BlockLoadLockFlight, TakeLoadLockFlight, ReleaseFlight, Zenon DEF ReaderStep
<1>4. ASSUME NEW r \in Readers,
             (\E p \in Paths : Open(r, p)) \/ Close(r) \/ ReadAgain(r) \/ Cancel(r)
      PROVE  FlightInv'
    BY <1>4, BeginFlight, Zenon
<1>5. ASSUME NEW m \in Mutators,
             \/ MutatorStep(m) \/ Abandon(m)
             \/ (\E p \in Paths : ChangeFile(m, p)) \/ (\E move \in Moves : ChangeTree(m, move))
      PROVE  FlightInv'
    <2>1. rd' = rd /\ inFlight' = inFlight
        BY <1>5, Zenon DEF MutatorStep, EnterPathInvalidation, BeginPathInvalidation, QueueForBarrier,
                    BeginPrefixInvalidation, Purge, Abandon, ChangeFile, ChangeTree
    <2> QED
        BY <1>1, <2>1, Zenon
<1> QED
    BY <1>2, <1>3, <1>4, <1>5, Zenon DEF Next, ReaderStep, MutatorStep

(* The map of weak load locks never lets two readers load the same block at    *)
(* once, whoever is cancelled and whoever takes an entry out of it:            *)
(* SingleFlight, for any numbers of readers, files and blocks.                 *)
THEOREM LoadsAreSingle == Spec => []SingleFlight
<1>1. FreshInv /\ FlightInv => SingleFlight
    <2> SUFFICES ASSUME FreshInv, FlightInv, NEW r \in Readers, NEW q \in Readers,
                        r # q, rd[r].locked, rd[q].locked, LockKey(rd[r]) = LockKey(rd[q])
                 PROVE  FALSE
        BY DEF SingleFlight
    <2> QED
        BY LockedHasLock DEF FlightInv
<1> QED
    BY <1>1, FreshInit, FreshNext, FlightInit, FlightNext, PTL DEF Spec

--------------------------------------------------------------------------------
(* The errors. *)

(* A reader that keeps its token, the size of the file and its outcome. *)
SameRead(s, t) == SameToken(s, t) /\ t.size = s.size /\ t.err = s.err

LEMMA PlainRead ==
    ASSUME NEW s \in ReaderState, NEW pc \in ReaderSteps
    PROVE  /\ SameRead(s, Plain(s, pc)) /\ Plain(s, pc).pc = pc
           /\ SameRead(s, Guarded(s, pc)) /\ Guarded(s, pc).pc = pc
<1> DEFINE p == Plain(s, pc)
           g == Guarded(s, pc)
<1>1. Moved(s, p, pc, "none") /\ Moved(s, g, pc, "prefix")
    BY PlainMoves, GuardedMoves, Zenon
<1> HIDE DEF p, g
<1>2. SameRead(s, p) /\ p.pc = pc /\ SameRead(s, g) /\ g.pc = pc
    BY <1>1, Zenon DEF Moved, SameRead
<1> QED
    BY <1>2, Zenon DEF p, g

LEMMA TakeRead ==
    ASSUME NEW s \in ReaderState, NEW v
    PROVE  SameRead(s, Take(s, v)) /\ Take(s, v).pc \in {"release", "done", "get"}
<1> DEFINE t == [Seen(s, v) EXCEPT !.payload = 0]
<1>1. t \in ReaderState /\ SameRead(s, t)
    BY Zenon DEF Seen, ReaderState, SameToken, SameRead
<1> HIDE DEF t
<1>2. ASSUME NEW pc \in ReaderSteps
      PROVE  /\ Plain(t, pc) \in ReaderState /\ SameRead(s, Plain(t, pc)) /\ Plain(t, pc).pc = pc
             /\ Guarded(t, pc) \in ReaderState /\ SameRead(s, Guarded(t, pc))
             /\ Guarded(t, pc).pc = pc
    <2> DEFINE p == Plain(t, pc)
               g == Guarded(t, pc)
    <2>1. Moved(t, p, pc, "none") /\ Moved(t, g, pc, "prefix")
        BY <1>1, PlainMoves, GuardedMoves, Zenon
    <2> HIDE DEF p, g
    <2>2. /\ p \in ReaderState /\ SameRead(s, p) /\ p.pc = pc
          /\ g \in ReaderState /\ SameRead(s, g) /\ g.pc = pc
        BY <1>1, <2>1, Zenon DEF Moved, SameRead, SameToken
    <2> QED
        BY <2>2, Zenon DEF p, g
<1>3. ASSUME NEW q \in ReaderState, SameRead(s, q), NEW b
      PROVE  /\ SameRead(s, [q EXCEPT !.locked = FALSE]) /\ [q EXCEPT !.locked = FALSE].pc = q.pc
             /\ SameRead(s, [q EXCEPT !.blk = b]) /\ [q EXCEPT !.blk = b].pc = q.pc
    BY <1>3, Zenon DEF ReaderState, SameRead, SameToken
<1>4. \/ Take(s, v) = [Plain(t, "release") EXCEPT !.locked = FALSE]
      \/ Take(s, v) = Plain(t, "done")
      \/ Take(s, v) = [Guarded(t, "get") EXCEPT !.blk = @ + 1]
    BY DEF Take, t
<1>5. CASE Take(s, v) = [Plain(t, "release") EXCEPT !.locked = FALSE]
    <2> DEFINE q == Plain(t, "release")
    <2>1. q \in ReaderState /\ SameRead(s, q) /\ q.pc = "release"
        BY <1>2 DEF ReaderSteps
    <2> HIDE DEF q
    <2>2. SameRead(s, [q EXCEPT !.locked = FALSE]) /\ [q EXCEPT !.locked = FALSE].pc = "release"
        BY <1>3, <2>1, Zenon
    <2> QED
        BY <1>5, <2>2, Zenon DEF q
<1>6. CASE Take(s, v) = Plain(t, "done")
    <2>1. SameRead(s, Plain(t, "done")) /\ Plain(t, "done").pc = "done"
        BY <1>2 DEF ReaderSteps
    <2> QED
        BY <1>6, <2>1, Zenon
<1>7. CASE Take(s, v) = [Guarded(t, "get") EXCEPT !.blk = @ + 1]
    <2> DEFINE q == Guarded(t, "get")
               b == q.blk + 1
    <2>1. q \in ReaderState /\ SameRead(s, q) /\ q.pc = "get"
        BY <1>2, Zenon DEF ReaderSteps
    <2>2. Take(s, v) = [q EXCEPT !.blk = b]
        BY <1>7, Zenon
    <2> HIDE DEF q, b
    <2>3. SameRead(s, [q EXCEPT !.blk = b]) /\ [q EXCEPT !.blk = b].pc = "get"
        BY <1>3, <2>1, Zenon
    <2> QED
        BY <2>2, <2>3, Zenon
<1> QED
    BY <1>4, <1>5, <1>6, <1>7, Zenon

LEMMA PublishedRead ==
    ASSUME NEW s \in ReaderState
    PROVE  SameRead(s, Published(s)) /\ Published(s).pc \in {"release", "done", "get", "put"}
<1>1. /\ Guarded(s, "put") \in ReaderState /\ SameRead(s, Guarded(s, "put"))
      /\ Guarded(s, "put").pc = "put"
    <2> DEFINE g == Guarded(s, "put")
    <2>1. Moved(s, g, "put", "prefix")
        BY GuardedMoves, StepsTyped, Zenon
    <2> HIDE DEF g
    <2>2. g \in ReaderState /\ SameRead(s, g) /\ g.pc = "put"
        BY <2>1, Zenon DEF Moved, SameRead
    <2> QED
        BY <2>2, Zenon DEF g
<1>2. ASSUME NEW q \in ReaderState, SameRead(s, q), NEW b
      PROVE  SameRead(s, [q EXCEPT !.blk = b]) /\ [q EXCEPT !.blk = b].pc = q.pc
    BY <1>2, Zenon DEF ReaderState, SameRead, SameToken
<1>3. \/ Published(s) = [Guarded(s, "put") EXCEPT !.blk = @ + 1]
      \/ Published(s) = Take(s, s.payload)
    BY DEF Published
<1>4. CASE Published(s) = [Guarded(s, "put") EXCEPT !.blk = @ + 1]
    <2> DEFINE q == Guarded(s, "put")
               b == q.blk + 1
    <2>1. Published(s) = [q EXCEPT !.blk = b]
        BY <1>4, Zenon
    <2>2. SameRead(s, [q EXCEPT !.blk = b]) /\ [q EXCEPT !.blk = b].pc = "put"
        <3> HIDE DEF b
        <3> QED
            BY <1>1, <1>2, Zenon
    <2> QED
        BY <2>1, <2>2, Zenon
<1> QED
    BY <1>3, <1>4, TakeRead, Zenon

(* A reader that goes on as before goes on without errors. *)
LEMMA ErrorsGoOn ==
    ASSUME NEW s, NEW t, ErrorFree(s), s.pc # "idle", SameRead(s, t),
           t.pc = "remove" => s.pc = "remove", HasSize(t) => HasSize(s)
    PROVE  ErrorFree(t)
BY Zenon DEF ErrorFree, SameRead, SameToken, IsCurrentToken

(* A failure is no error of the cache when the token or the file is not what  *)
(* it was, or the file is gone.                                               *)
LEMMA FailErrors ==
    ASSUME NEW s \in ReaderState,
           IsCurrentToken(s) /\ s.floor = storage[s.path] => Length[storage[s.path]] = 0
    PROVE  ErrorFree(Fail(s))
<1> DEFINE t == Fail(s)
<1>1. SameToken(s, t) /\ t.err /\ t.pc \in {"release", "done"}
    <2>1. ASSUME NEW pc \in ReaderSteps
          PROVE  /\ Plain(s, pc) \in ReaderState /\ SameToken(s, Plain(s, pc))
                 /\ Plain(s, pc).pc = pc
        BY PlainMoves, Zenon DEF Moved
    <2>2. ASSUME NEW q \in ReaderState, SameToken(s, q)
          PROVE  /\ SameToken(s, [q EXCEPT !.locked = FALSE, !.err = TRUE])
                 /\ [q EXCEPT !.locked = FALSE, !.err = TRUE].err
                 /\ [q EXCEPT !.locked = FALSE, !.err = TRUE].pc = q.pc
                 /\ SameToken(s, [q EXCEPT !.err = TRUE])
                 /\ [q EXCEPT !.err = TRUE].err /\ [q EXCEPT !.err = TRUE].pc = q.pc
        BY <2>2, Zenon DEF ReaderState, SameToken
    <2>3. \/ t = [Plain(s, "release") EXCEPT !.locked = FALSE, !.err = TRUE]
          \/ t = [Plain(s, "done") EXCEPT !.err = TRUE]
        BY Zenon DEF Fail
    <2>4. "release" \in ReaderSteps /\ "done" \in ReaderSteps
        BY DEF ReaderSteps
    <2>5. CASE t = [Plain(s, "release") EXCEPT !.locked = FALSE, !.err = TRUE]
        <3> DEFINE q == Plain(s, "release")
        <3>1. q \in ReaderState /\ SameToken(s, q) /\ q.pc = "release"
            BY <2>1, <2>4, Zenon
        <3>2. t = [q EXCEPT !.locked = FALSE, !.err = TRUE]
            BY <2>5, Zenon
        <3> HIDE DEF q, t
        <3>3. t.pc = q.pc /\ t.err /\ SameToken(s, t)
            BY <2>2, <3>1, <3>2, Zenon
        <3> QED
            BY <3>1, <3>3, Zenon
    <2>6. CASE t = [Plain(s, "done") EXCEPT !.err = TRUE]
        <3> DEFINE q == Plain(s, "done")
        <3>1. q \in ReaderState /\ SameToken(s, q) /\ q.pc = "done"
            BY <2>1, <2>4, Zenon
        <3>2. t = [q EXCEPT !.err = TRUE]
            BY <2>6, Zenon
        <3> HIDE DEF q, t
        <3>3. t.pc = q.pc /\ t.err /\ SameToken(s, t)
            BY <2>2, <3>1, <3>2, Zenon
        <3> QED
            BY <3>1, <3>3, Zenon
    <2> QED
        BY <2>3, <2>5, <2>6, Zenon
<1> HIDE DEF t
<1>2. ErrorFree(t)
    BY <1>1, Zenon DEF ErrorFree, HasSize, SameToken, IsCurrentToken
<1> QED
    BY <1>2, Zenon DEF t

(* When the newest version was answered before the read began, the reader has *)
(* the size of that version.                                                  *)
LEMMA SizeIsReal ==
    ASSUME FreshInv, NEW s \in ReaderState, ReaderInv(s), s.pc # "idle", NEW len,
           s.floor = storage[s.path], KnownSize(storage, acked, mu, s.path, len)
    PROVE  len = Length[storage[s.path]] /\ acked[s.path] = storage[s.path]
<1>1. PICK v \in Versions : /\ v <= storage[s.path] /\ len = Length[v]
                            /\ Fits(acked, mu, s.path, v)
    BY Zenon DEF KnownSize
<1>2. /\ s.path \in Paths /\ storage[s.path] \in Nat /\ acked[s.path] \in Nat /\ v \in Nat
      /\ acked[s.path] <= storage[s.path] /\ s.floor <= acked[s.path] /\ v >= acked[s.path]
    BY <1>1, BlockCacheConstants, StorageTyped, ZenonT(30)
       DEF ReaderState, FreshInv, Typed, StorageInv, ReaderInv, Fits
<1>3. acked[s.path] = storage[s.path] /\ v = storage[s.path]
    <2> DEFINE a == acked[s.path]
               b == storage[s.path]
    <2>1. a \in Nat /\ b \in Nat /\ v \in Nat /\ b <= a /\ a <= b /\ v <= b /\ a <= v
        BY <1>1, <1>2, Zenon
    <2> HIDE DEF a, b
    <2>2. a = b /\ v = b
        BY <2>1
    <2> QED
        BY <2>2, Zenon DEF a, b
<1> QED
    BY <1>1, <1>3, Zenon

(* ... and meets only blocks of the length that it expects. *)
LEMMA BlockIsReal ==
    ASSUME FreshInv, ErrorInv, NEW k \in Keys, Has(blocks, k), acked[k[1]] = storage[k[1]]
    PROVE  blocks[k].len = BlockLength(Length[storage[k[1]]], k[2])
<1>1. PICK v \in Versions : /\ v <= storage[k[1]] /\ blocks[k].len = BlockLength(Length[v], k[2])
                            /\ FitsBlock(acked, mu, k[1], v)
    BY Zenon DEF ErrorInv, KnownBlock
<1>2. k[1] \in Paths
    BY Zenon DEF Keys
<1>3. storage[k[1]] \in Nat /\ v \in Nat /\ v >= acked[k[1]]
    BY <1>1, <1>2, BlockCacheConstants, StorageTyped, Zenon DEF FitsBlock
<1>4. v = storage[k[1]]
    BY <1>1, <1>3
<1> QED
    BY <1>1, <1>4, Zenon

(* A step of a reader that leaves the caches alone. *)
LEMMA ReaderOnlyErrors ==
    ASSUME FreshInv, ErrorInv, NEW r \in Readers, NEW t, Set(r, t), ErrorFree(t),
           UNCHANGED <<storage, states, mu, acked>>, sizes' = sizes, blocks' = blocks
    PROVE  ErrorInv'
<1>1. storage' = storage /\ mu' = mu /\ acked' = acked /\ generation' = generation
    BY DEF states
<1> QED
    BY <1>1, ReaderErrors, Zenon DEF ErrorFree, IsCurrentToken

LEMMA TakeGuardsErrors ==
    ASSUME FreshInv, ErrorInv, NEW r \in Readers, TakeBarrier(r) \/ TakeGate(r)
    PROVE  ErrorInv'
<1> DEFINE s == rd[r]
<1>1. /\ s \in ReaderState /\ ReaderInv(s) /\ ErrorFree(s)
      /\ UNCHANGED <<storage, states, mu, acked>> /\ sizes' = sizes /\ blocks' = blocks
    BY ReaderTyped, Zenon DEF ErrorInv, TakeBarrier, TakeGate, coordinator, fileSizes, memory
<1>2. s.pc # "idle"
    BY <1>1, Zenon DEF TakeBarrier, TakeGate, ReaderInv
<1>3. ASSUME NEW x \in {"gate", "op"} PROVE ErrorFree([s EXCEPT !.phase = x])
    <2> DEFINE t == [s EXCEPT !.phase = x]
    <2>1. SameRead(s, t) /\ t.pc = s.pc
        BY <1>1, Zenon DEF ReaderState, SameRead, SameToken
    <2> HIDE DEF t, s
    <2>2. HasSize(t) => HasSize(s)
        BY <2>1, Zenon DEF HasSize, SameRead
    <2>3. ErrorFree(t)
        BY <1>1, <1>2, <2>1, <2>2, ErrorsGoOn, Zenon
    <2> QED
        BY <2>3, Zenon DEF t
<1>4. CASE TakeBarrier(r)
    <2>1. Set(r, [s EXCEPT !.phase = "gate"])
        BY <1>4, Zenon DEF TakeBarrier
    <2> QED
        BY <1>1, <1>3, <2>1, ReaderOnlyErrors, Zenon
<1>5. CASE TakeGate(r)
    <2>1. /\ s.pc \in {"get", "put"}
          /\ \/ Set(r, [s EXCEPT !.phase = "op"])
             \/ Set(r, Plain(s, "load")) \/ Set(r, Plain(s, "lock"))
             \/ Set(r, Published(s))
        BY <1>5, Zenon DEF TakeGate, Missed
    <2> HIDE DEF s
    <2>2. HasSize(s)
        BY <2>1, Zenon DEF HasSize
    <2>3. ErrorFree(Plain(s, "load")) /\ ErrorFree(Plain(s, "lock"))
        BY <1>1, <1>2, <2>2, PlainRead, ErrorsGoOn, Zenon DEF ReaderSteps
    <2>4. ErrorFree(Published(s))
        BY <1>1, <1>2, <2>2, PublishedRead, ErrorsGoOn, Zenon
    <2> QED
        BY <1>1, <1>3, <2>1, <2>3, <2>4, ReaderOnlyErrors, Zenon
<1> QED
    BY <1>4, <1>5, Zenon

LEMMA FileSizeErrors ==
    ASSUME FreshInv, ErrorInv, NEW r \in Readers, FileSize(r)
    PROVE  ErrorInv'
<1> DEFINE s == rd[r]
           e == sizes[s.path]
           q == Seen(s, e.version)
           g == Guarded(q, "get")
           u == [g EXCEPT !.size = e.len]
<1>1. /\ s \in ReaderState /\ ErrorFree(s) /\ s.pc = "size" /\ s.path \in Paths
      /\ UNCHANGED <<storage, states, mu, acked>> /\ sizes' = sizes /\ blocks' = blocks
    BY ReaderTyped, Zenon DEF ErrorInv, FileSize, fileSizes, memory
<1>2. (Set(r, u) /\ Has(sizes, s.path)) \/ Set(r, Plain(s, "stat"))
    BY Zenon DEF FileSize
<1>3. CASE Set(r, Plain(s, "stat"))
    <2> HIDE DEF s
    <2>1. SameRead(s, Plain(s, "stat")) /\ Plain(s, "stat").pc = "stat"
        BY <1>1, PlainRead, Zenon DEF ReaderSteps
    <2>2. ErrorFree(Plain(s, "stat"))
        BY <1>1, <2>1, ErrorsGoOn, Zenon DEF HasSize
    <2> QED
        BY <1>1, <1>3, <2>2, ReaderOnlyErrors, Zenon
<1>4. CASE Set(r, u) /\ Has(sizes, s.path)
    <2>1. KnownSize(storage, acked, mu, s.path, e.len)
        BY <1>1, <1>4, Zenon DEF ErrorInv
    <2> HIDE DEF s, e
    <2>2. q \in ReaderState /\ SameRead(s, q)
        BY <1>1, Zenon DEF Seen, ReaderState, SameRead, SameToken
    <2> HIDE DEF q
    <2>3. g \in ReaderState /\ SameRead(s, g) /\ g.pc = "get"
        <3>1. Moved(q, g, "get", "prefix")
            BY <2>2, GuardedMoves, StepsTyped, Zenon
        <3> HIDE DEF g
        <3> QED
            BY <2>2, <3>1, Zenon DEF Moved, SameRead, SameToken
    <2> HIDE DEF g
    <2>4. SameToken(s, u) /\ u.size = e.len /\ u.err = s.err /\ u.pc = "get"
        BY <2>3, Zenon DEF ReaderState, SameRead, SameToken
    <2> HIDE DEF u
    <2>5. ErrorFree(u)
        BY <1>1, <2>1, <2>4, Zenon DEF ErrorFree, SameToken, IsCurrentToken
    <2> QED
        BY <1>1, <1>4, <2>5, ReaderOnlyErrors, Zenon
<1> QED
    BY <1>2, <1>3, <1>4, Zenon

LEMMA StatErrors ==
    ASSUME FreshInv, ErrorInv, NEW r \in Readers, Stat(r)
    PROVE  ErrorInv'
<1> DEFINE s == rd[r]
           v == storage[s.path]
           g == Guarded(s, "putsize")
           u == [g EXCEPT !.size = Length[v], !.payload = v]
<1>1. /\ s \in ReaderState /\ ErrorFree(s) /\ s.pc = "stat" /\ s.path \in Paths
      /\ UNCHANGED <<storage, states, mu, acked>> /\ sizes' = sizes /\ blocks' = blocks
    BY ReaderTyped, Zenon DEF ErrorInv, Stat, coordinator, fileSizes, memory
<1>2. Set(r, IF Length[v] = 0 THEN Fail(s) ELSE u)
    BY Zenon DEF Stat
<1>3. CASE Set(r, Fail(s)) /\ Length[v] = 0
    <2>1. ErrorFree(Fail(s))
        BY <1>1, <1>3, FailErrors, Zenon
    <2> QED
        BY <1>1, <1>3, <2>1, ReaderOnlyErrors, Zenon
<1>4. CASE Set(r, u) /\ Length[v] # 0
    <2>1. v \in Versions /\ v \in Nat /\ Fits(acked, mu, s.path, v)
        BY <1>1, StorageFits, StorageTyped, Zenon
    <2>2. KnownSize(storage, acked, mu, s.path, Length[v])
        BY <2>1 DEF KnownSize
    <2> HIDE DEF s, v
    <2>3. g \in ReaderState /\ SameRead(s, g) /\ g.pc = "putsize"
        <3>1. Moved(s, g, "putsize", "prefix")
            BY <1>1, GuardedMoves, StepsTyped, Zenon
        <3> HIDE DEF g
        <3> QED
            BY <1>1, <3>1, Zenon DEF Moved, SameRead
    <2> HIDE DEF g
    <2>4. SameToken(s, u) /\ u.size = Length[v] /\ u.err = s.err /\ u.pc = "putsize"
        BY <2>3, Zenon DEF ReaderState, SameRead, SameToken
    <2> HIDE DEF u
    <2>5. ErrorFree(u)
        BY <1>1, <2>2, <2>4, Zenon DEF ErrorFree, SameToken, IsCurrentToken
    <2> QED
        BY <1>1, <1>4, <2>5, ReaderOnlyErrors, Zenon
<1> QED
    BY <1>2, <1>3, <1>4, Zenon

LEMMA SaveFileSizeErrors ==
    ASSUME FreshInv, ErrorInv, NEW r \in Readers, SaveFileSize(r)
    PROVE  ErrorInv'
<1> DEFINE s == rd[r]
           entry == [version |-> s.payload, len |-> s.size]
           g == Guarded(s, "get")
           u == [g EXCEPT !.payload = 0]
<1>1. /\ s \in ReaderState /\ ErrorFree(s) /\ s.pc = "putsize" /\ s.path \in Paths /\ Set(r, u)
      /\ UNCHANGED <<storage, states, mu, acked>> /\ blocks' = blocks
    BY ReaderTyped, Zenon DEF ErrorInv, SaveFileSize, memory
<1>2. \A x \in Paths : Has(sizes', x) =>
          \/ Has(sizes, x) /\ sizes'[x] = sizes[x]
          \/ KnownSize(storage, acked, mu, x, sizes'[x].len)
    <2>1. CASE IsCurrent(r)
        <3>1. PutFileSize(s.path, entry)
            BY <2>1, Zenon DEF SaveFileSize
        <3>2. entry \in Entry /\ entry.len = s.size
            BY <1>1 DEF Entry, ReaderState
        <3>3. KnownSize(storage, acked, mu, s.path, s.size)
            BY <1>1, <2>1, Zenon DEF ErrorFree, HasSize, IsCurrent, IsCurrentToken
        <3> HIDE DEF entry, s
        <3> QED
            BY <1>1, <3>1, <3>2, <3>3, PutFileSizePuts, ZenonT(30) DEF FreshInv
    <2>2. CASE ~ IsCurrent(r)
        BY <2>2, Zenon DEF SaveFileSize, fileSizes
    <2> QED
        BY <2>1, <2>2, Zenon
<1>3. ErrorFree(u)
    <2> HIDE DEF s
    <2>1. g \in ReaderState /\ SameRead(s, g) /\ g.pc = "get"
        <3>1. Moved(s, g, "get", "prefix")
            BY <1>1, GuardedMoves, StepsTyped, Zenon
        <3> HIDE DEF g
        <3> QED
            BY <1>1, <3>1, Zenon DEF Moved, SameRead
    <2> HIDE DEF g
    <2>2. SameRead(s, u) /\ u.pc = "get"
        BY <2>1, Zenon DEF ReaderState, SameRead, SameToken
    <2> HIDE DEF u
    <2> QED
        BY <1>1, <2>2, ErrorsGoOn, Zenon DEF HasSize
<1> HIDE DEF u
<1> QED
    BY <1>1, <1>2, <1>3, ReaderErrors, Zenon DEF ErrorFree, IsCurrentToken, states

(* Only a token that is out of date, or a file that has changed, lets a       *)
(* reader meet a block of the wrong length.                                   *)
LEMMA GetBlockErrors ==
    ASSUME FreshInv, ErrorInv, NEW r \in Readers, GetBlock(r)
    PROVE  ErrorInv'
<1> DEFINE s == rd[r]
           k == <<s.path, s.blk>>
<1>1. /\ s \in ReaderState /\ ReaderInv(s) /\ ErrorFree(s) /\ s.pc = "get"
      /\ UNCHANGED <<storage, states, mu, acked>> /\ sizes' = sizes /\ blocks' = blocks
    BY ReaderTyped, Zenon DEF ErrorInv, GetBlock, coordinator, fileSizes
<1>2. \/ Set(r, Plain(s, "load")) \/ Set(r, Plain(s, "lock")) \/ (\E v : Set(r, Take(s, v)))
      \/ /\ Set(r, Plain(s, "remove"))
         /\ IsCurrent(r) /\ Has(blocks, k) /\ blocks[k].len # BlockLength(s.size, s.blk)
    BY Zenon DEF GetBlock, Missed
<1>3. ASSUME NEW pc \in {"load", "lock", "remove"}
      PROVE  SameRead(s, Plain(s, pc)) /\ Plain(s, pc).pc = pc
    <2>1. pc \in ReaderSteps
        BY StepsTyped, Zenon
    <2> QED
        BY <1>1, <2>1, PlainRead, Zenon
<1>4. HasSize(s)
    BY <1>1 DEF HasSize
<1>5. CASE \/ Set(r, Plain(s, "load")) \/ Set(r, Plain(s, "lock")) \/ (\E v : Set(r, Take(s, v)))
    <2>1. ErrorFree(Plain(s, "load")) /\ ErrorFree(Plain(s, "lock"))
        BY <1>1, <1>3, <1>4, ErrorsGoOn, Zenon
    <2>2. \A v : ErrorFree(Take(s, v))
        BY <1>1, <1>4, TakeRead, ErrorsGoOn, Zenon
    <2> QED
        BY <1>1, <1>5, <2>1, <2>2, ReaderOnlyErrors
<1>6. CASE /\ Set(r, Plain(s, "remove"))
           /\ IsCurrent(r) /\ Has(blocks, k) /\ blocks[k].len # BlockLength(s.size, s.blk)
    <2>1. KnownSize(storage, acked, mu, s.path, s.size)
        BY <1>1, <1>4, <1>6, Zenon DEF ErrorFree, IsCurrent, IsCurrentToken
    <2>2. k \in Keys /\ k[1] = s.path /\ k[2] = s.blk
        BY <1>1, BlockIsKey, Zenon DEF ReaderInv
    <2>3. s.floor # storage[s.path]
        <3> SUFFICES ASSUME s.floor = storage[s.path] PROVE FALSE
            BY Zenon
        <3>1. s.size = Length[storage[s.path]] /\ acked[s.path] = storage[s.path]
            BY <1>1, <2>1, SizeIsReal, Zenon
        <3>2. blocks[k].len = BlockLength(Length[storage[s.path]], s.blk)
            <4> HIDE DEF k, s
            <4> QED
                BY <1>6, <2>2, <3>1, BlockIsReal, Zenon
        <3> QED
            BY <1>6, <3>1, <3>2, Zenon
    <2> DEFINE t == Plain(s, "remove")
    <2>4. SameRead(s, t) /\ t.pc = "remove"
        BY <1>3, Zenon
    <2> HIDE DEF t, s
    <2>5. ErrorFree(t)
        BY <2>1, <2>3, <2>4, Zenon DEF ErrorFree, SameRead, SameToken
    <2> QED
        BY <1>1, <1>6, <2>5, ReaderOnlyErrors, Zenon DEF t
<1> QED
    BY <1>2, <1>5, <1>6, Zenon

LEMMA RemoveBlockErrors ==
    ASSUME FreshInv, ErrorInv, NEW r \in Readers, RemoveBlock(r)
    PROVE  ErrorInv'
<1> DEFINE s == rd[r]
<1>1. /\ s \in ReaderState /\ ErrorFree(s) /\ s.pc = "remove"
      /\ UNCHANGED <<storage, states, mu, acked>> /\ sizes' = sizes
      /\ RemoveBlocks({<<s.path, s.blk>>})
    BY ReaderTyped, Zenon DEF ErrorInv, RemoveBlock, coordinator, fileSizes
<1>2. Set(r, Plain(s, "lock")) \/ Set(r, Plain(s, "load")) \/ Set(r, Fail(s))
    BY Zenon DEF RemoveBlock
<1>3. \A x \in Keys : Has(blocks', x) => Has(blocks, x) /\ blocks'[x] = blocks[x]
    BY <1>1, RemoveBlocksRemoves, Zenon DEF FreshInv
<1> HIDE DEF s
<1>4. HasSize(s)
    BY <1>1, Zenon DEF HasSize
<1>5. ErrorFree(Plain(s, "load")) /\ ErrorFree(Plain(s, "lock"))
    BY <1>1, <1>4, PlainRead, ErrorsGoOn, Zenon DEF ReaderSteps
<1>6. ErrorFree(Fail(s))
    <2>1. ~ (IsCurrentToken(s) /\ s.floor = storage[s.path])
        BY <1>1, Zenon DEF ErrorFree
    <2> QED
        BY <1>1, <2>1, FailErrors, Zenon
<1>7. ASSUME NEW t, Set(r, t), ErrorFree(t) PROVE ErrorInv'
    BY <1>1, <1>3, <1>7, ReaderErrors, Zenon DEF ErrorFree, IsCurrentToken, states
<1> QED
    BY <1>2, <1>5, <1>6, <1>7, Zenon

LEMMA LoadLockErrors ==
    ASSUME FreshInv, ErrorInv, NEW r \in Readers,
           BlockLoadLock(r) \/ TakeLoadLock(r) \/ ReleaseBlockLoadLock(r)
    PROVE  ErrorInv'
<1> DEFINE s == rd[r]
<1>1. /\ s \in ReaderState /\ ErrorFree(s) /\ s.pc \in {"lock", "wait", "release"}
      /\ UNCHANGED <<storage, states, mu, acked>> /\ sizes' = sizes /\ blocks' = blocks
    BY ReaderTyped, Zenon DEF ErrorInv, BlockLoadLock, TakeLoadLock, ReleaseBlockLoadLock, coordinator,
                       fileSizes, memory
<1>2. ASSUME NEW t, Set(r, t), SameRead(s, t), t.pc \in {"wait", "get", "done"},
             s.pc \in {"lock", "wait"} \/ (t.pc # "done" => ~ s.err)
      PROVE  ErrorInv'
    <2> HIDE DEF s
    <2>1. HasSize(t) => HasSize(s)
        BY <1>1, <1>2, Zenon DEF HasSize, SameRead
    <2>2. ErrorFree(t)
        BY <1>1, <1>2, <2>1, ErrorsGoOn, Zenon
    <2> QED
        BY <1>1, <1>2, <2>2, ReaderOnlyErrors, Zenon DEF s
<1>3. CASE BlockLoadLock(r)
    <2> DEFINE g == Plain(s, "wait")
    <2>1. s.pc = "lock" /\ \E l : Set(r, [g EXCEPT !.lock = l])
        BY <1>3, Zenon DEF BlockLoadLock
    <2>2. g \in ReaderState /\ SameRead(s, g) /\ g.pc = "wait"
        <3>1. Moved(s, g, "wait", "none")
            BY <1>1, PlainMoves, StepsTyped, Zenon
        <3> HIDE DEF g
        <3> QED
            BY <1>1, <3>1, Zenon DEF Moved, SameRead
    <2> HIDE DEF g, s
    <2>3. \A l : SameRead(s, [g EXCEPT !.lock = l]) /\ [g EXCEPT !.lock = l].pc = "wait"
        BY <2>2, Zenon DEF ReaderState, SameRead, SameToken
    <2> QED
        BY <1>2, <2>1, <2>3, Zenon
<1>4. CASE TakeLoadLock(r)
    <2> DEFINE g == Guarded(s, "get")
               u == [g EXCEPT !.locked = TRUE]
               w == [u EXCEPT !.blk = 0]
    <2>1. s.pc = "wait" /\ Set(r, IF u.full THEN w ELSE u)
        BY <1>4, Zenon DEF TakeLoadLock
    <2>2. g \in ReaderState /\ SameRead(s, g) /\ g.pc = "get"
        <3>1. Moved(s, g, "get", "prefix")
            BY <1>1, GuardedMoves, StepsTyped, Zenon
        <3> HIDE DEF g
        <3> QED
            BY <1>1, <3>1, Zenon DEF Moved, SameRead
    <2> HIDE DEF g, s
    <2>3. u \in ReaderState /\ SameRead(s, u) /\ u.pc = "get"
        BY <2>2, Zenon DEF ReaderState, SameRead, SameToken
    <2> HIDE DEF u
    <2>4. SameRead(s, w) /\ w.pc = "get"
        BY <2>3, Zenon DEF ReaderState, SameRead, SameToken
    <2> HIDE DEF w
    <2> QED
        BY <1>2, <2>1, <2>3, <2>4, Zenon
<1>5. CASE ReleaseBlockLoadLock(r)
    <2> DEFINE q == [s EXCEPT !.lock = 0]
               g == Guarded(q, "get")
               b == g.blk + 1
               u == [g EXCEPT !.blk = b]
    <2>1. Set(r, IF q.err \/ q.blk = LastBlock(q.size) THEN Plain(q, "done") ELSE u)
        BY <1>5, Zenon DEF ReleaseBlockLoadLock
    <2> HIDE DEF s
    <2>2. q \in ReaderState /\ SameRead(s, q) /\ q.err = s.err
        BY <1>1, Zenon DEF ReaderState, SameRead, SameToken
    <2> HIDE DEF q
    <2>3. /\ SameRead(s, Plain(q, "done")) /\ Plain(q, "done").pc = "done"
          /\ g \in ReaderState /\ SameRead(s, g) /\ g.pc = "get"
        <3> DEFINE d == Plain(q, "done")
        <3>1. Moved(q, d, "done", "none") /\ Moved(q, g, "get", "prefix")
            BY <2>2, PlainMoves, GuardedMoves, StepsTyped, Zenon
        <3> HIDE DEF d, g
        <3>2. SameRead(s, d) /\ d.pc = "done" /\ g \in ReaderState /\ SameRead(s, g) /\ g.pc = "get"
            BY <2>2, <3>1, Zenon DEF Moved, SameRead, SameToken
        <3> QED
            BY <3>2, Zenon DEF d
    <2> HIDE DEF g, b
    <2>4. SameRead(s, u) /\ u.pc = "get"
        BY <2>3, Zenon DEF ReaderState, SameRead, SameToken
    <2> HIDE DEF u
    <2> QED
        BY <1>2, <2>1, <2>2, <2>3, <2>4, Zenon
<1> QED
    BY <1>3, <1>4, <1>5, Zenon

(* What a reader loads ends within the file. *)
LEMMA BlockInFile ==
    ASSUME NEW len \in Nat, NEW b \in Nat
    PROVE  b * BlockSize + BlockLength(len, b) <= len
<1> DEFINE x == b * BlockSize
<1>1. BlockSize \in Nat /\ x \in Int
    BY BlockCacheConstants
<1> HIDE DEF x
<1>2. BlockLength(len, b) = Min({BlockSize, len - x})
    BY DEF BlockLength, x
<1>3. \E y \in {BlockSize, len - x} : \A z \in {BlockSize, len - x} : y <= z
    BY <1>1
<1>4. Min({BlockSize, len - x}) \in Int /\ Min({BlockSize, len - x}) <= len - x
    BY <1>1, <1>3 DEF Min
<1> QED
    BY <1>1, <1>2, <1>4 DEF x

LEMMA LoadErrors ==
    ASSUME FreshInv, ErrorInv, NEW r \in Readers, Load(r)
    PROVE  ErrorInv'
<1> DEFINE s == rd[r]
           v == storage[s.path]
           upTo == IF s.full THEN s.size
                   ELSE s.blk * BlockSize + BlockLength(s.size, s.blk)
           q == IF s.full THEN [s EXCEPT !.blk = 0] ELSE s
           g == Guarded(q, "put")
           u == [g EXCEPT !.payload = v]
<1>1. /\ s \in ReaderState /\ ReaderInv(s) /\ ErrorFree(s) /\ s.pc = "load"
      /\ UNCHANGED <<storage, states, mu, acked>> /\ sizes' = sizes /\ blocks' = blocks
    BY ReaderTyped, Zenon DEF ErrorInv, Load, coordinator, fileSizes, memory
<1>2. Set(r, IF Length[v] < upTo THEN Fail(s) ELSE u)
    BY DEF Load
<1>3. HasSize(s)
    BY <1>1, Zenon DEF HasSize
<1>4. CASE Length[v] < upTo
    <2>1. ~ (IsCurrentToken(s) /\ s.floor = storage[s.path])
        <3> SUFFICES ASSUME IsCurrentToken(s), s.floor = storage[s.path] PROVE FALSE
            BY Zenon
        <3>1. KnownSize(storage, acked, mu, s.path, s.size)
            BY <1>1, <1>3, Zenon DEF ErrorFree
        <3>2. s.size = Length[v]
            BY <1>1, <3>1, SizeIsReal, Zenon
        <3>3. s.size \in Nat /\ s.blk \in Nat
            BY <1>1, Zenon DEF ReaderState
        <3> HIDE DEF s, v
        <3>4. upTo \in Int /\ upTo <= s.size
            <4> DEFINE x == s.blk * BlockSize
                       y == BlockLength(s.size, s.blk)
            <4>1. x \in Int /\ y \in Int
                <5>1. BlockSize \in Int
                    BY BlockCacheConstants
                <5> QED
                    BY <3>3, <5>1, BlockLengthTyped
            <4>2. x + y <= s.size
                BY <3>3, BlockInFile, Zenon
            <4> HIDE DEF x, y
            <4>3. upTo = IF s.full THEN s.size ELSE x + y
                BY Zenon DEF x, y
            <4> HIDE DEF upTo
            <4> QED
                BY <3>3, <4>1, <4>2, <4>3
        <3> HIDE DEF upTo
        <3> QED
            BY <1>4, <3>2, <3>3, <3>4
    <2>2. ErrorFree(Fail(s))
        BY <1>1, <2>1, FailErrors, Zenon
    <2>3. Set(r, Fail(s))
        BY <1>2, <1>4, Zenon
    <2> QED
        BY <1>1, <2>2, <2>3, ReaderOnlyErrors, Zenon
<1>5. CASE ~ (Length[v] < upTo)
    <2>1. Set(r, u)
        BY <1>2, <1>5, Zenon
    <2> HIDE DEF s, v, upTo
    <2>2. q \in ReaderState /\ SameRead(s, q)
        BY <1>1, Zenon DEF ReaderState, SameRead, SameToken
    <2> HIDE DEF q
    <2>3. g \in ReaderState /\ SameRead(s, g) /\ g.pc = "put"
        <3>1. Moved(q, g, "put", "prefix")
            BY <2>2, GuardedMoves, StepsTyped, Zenon
        <3> HIDE DEF g
        <3> QED
            BY <2>2, <3>1, Zenon DEF Moved, SameRead, SameToken
    <2> HIDE DEF g
    <2>4. SameRead(s, u) /\ u.pc = "put"
        BY <2>3, Zenon DEF ReaderState, SameRead, SameToken
    <2> HIDE DEF u
    <2>5. ErrorFree(u)
        BY <1>1, <1>3, <2>4, ErrorsGoOn, Zenon
    <2> QED
        BY <1>1, <2>1, <2>5, ReaderOnlyErrors, Zenon
<1> QED
    BY <1>4, <1>5, Zenon

LEMMA PublishBlockErrors ==
    ASSUME FreshInv, ErrorInv, NEW r \in Readers, PublishBlock(r)
    PROVE  ErrorInv'
<1> DEFINE s == rd[r]
           k == <<s.path, s.blk>>
           entry == [version |-> s.payload, len |-> BlockLength(s.size, s.blk)]
<1>1. /\ s \in ReaderState /\ ReaderInv(s) /\ ErrorFree(s) /\ s.pc = "put" /\ s.phase = "op"
      /\ s.path \in Paths /\ s.payload \in Nat /\ s.size \in Nat /\ s.blk \in Nat
      /\ Set(r, Published(s)) /\ UNCHANGED <<storage, states, mu, acked>> /\ sizes' = sizes
      /\ PutBlock(k, entry)
    BY ReaderTyped, Zenon DEF ErrorInv, PublishBlock, ReaderState, coordinator, fileSizes
<1>2. HasSize(s) /\ IsCurrentToken(s) /\ InFile(s)
    BY <1>1, Zenon DEF HasSize, ReaderInv
<1>3. k \in Keys /\ k[1] = s.path /\ k[2] = s.blk
    BY <1>1, <1>2, BlockIsKey, Zenon
<1>4. entry \in Entry /\ entry.len = BlockLength(s.size, s.blk)
    BY <1>1, BlockLengthTyped, Zenon DEF Entry
<1> HIDE DEF entry
<1>5. KnownBlock(storage, acked, mu, k, entry.len)
    <2>1. PICK v \in Versions : /\ v <= storage[s.path] /\ s.size = Length[v]
                                /\ Fits(acked, mu, s.path, v)
        BY <1>1, <1>2, Zenon DEF ErrorFree, KnownSize
    <2>2. FitsBlock(acked, mu, s.path, v)
        BY <1>1, <2>1, FitsBlocks, BlockCacheConstants, Zenon
    <2> HIDE DEF k, s
    <2> QED
        BY <1>3, <1>4, <2>1, <2>2, Zenon DEF KnownBlock
<1>6. \A x \in Keys : Has(blocks', x) =>
          \/ Has(blocks, x) /\ blocks'[x] = blocks[x]
          \/ KnownBlock(storage, acked, mu, x, blocks'[x].len)
    <2> HIDE DEF k
    <2>1. \A x \in Keys : Has(blocks', x) => \/ Has(blocks, x) /\ blocks'[x] = blocks[x]
                                             \/ x = k /\ blocks'[x] = entry
        BY <1>1, <1>3, <1>4, PutBlockPuts, Zenon DEF FreshInv
    <2> QED
        BY <1>5, <2>1, Zenon
<1>7. ErrorFree(Published(s))
    <2> HIDE DEF s
    <2> QED
        BY <1>1, <1>2, PublishedRead, ErrorsGoOn, Zenon
<1> QED
    BY <1>1, <1>6, <1>7, ReaderErrors, Zenon DEF ErrorFree, IsCurrentToken, states

(* A reader that begins again keeps its token, so that the size it knows is   *)
(* still the size of a file that has not changed.                             *)
LEMMA BeginErrors ==
    ASSUME FreshInv, ErrorInv, NEW r \in Readers, Close(r) \/ Cancel(r) \/ ReadAgain(r)
    PROVE  ErrorInv'
<1> DEFINE s == rd[r]
           g == Guarded(s, "get")
           u == [g EXCEPT !.blk = 0, !.floor = acked[s.path]]
<1>1. /\ s \in ReaderState /\ ErrorFree(s)
      /\ UNCHANGED <<storage, states, mu, acked>> /\ sizes' = sizes /\ blocks' = blocks
    BY ReaderTyped, Zenon DEF ErrorInv, Close, Cancel, ReadAgain, coordinator, fileSizes, memory
<1>2. CASE Close(r) \/ Cancel(r)
    <2>1. Set(r, IdleReader) /\ ErrorFree(IdleReader)
        BY <1>2, Zenon DEF Close, Cancel, ErrorFree, IdleReader
    <2> QED
        BY <1>1, <2>1, ReaderOnlyErrors, Zenon
<1>3. CASE ReadAgain(r)
    <2>1. s.pc = "done" /\ ~ s.err /\ Set(r, u)
        BY <1>3, Zenon DEF ReadAgain
    <2> HIDE DEF s
    <2>2. g \in ReaderState /\ SameRead(s, g) /\ g.pc = "get"
        <3>1. Moved(s, g, "get", "prefix")
            BY <1>1, GuardedMoves, StepsTyped, Zenon
        <3> HIDE DEF g
        <3> QED
            BY <1>1, <3>1, Zenon DEF Moved, SameRead
    <2> HIDE DEF g
    <2>3. /\ u.path = s.path /\ u.state = s.state /\ u.gen = s.gen /\ u.size = s.size
          /\ u.err = s.err /\ u.pc = "get"
        BY <2>2, Zenon DEF ReaderState, SameRead, SameToken
    <2> HIDE DEF u
    <2>4. ErrorFree(u)
        BY <1>1, <2>1, <2>3, Zenon DEF ErrorFree, HasSize, IsCurrentToken
    <2> QED
        BY <1>1, <2>1, <2>4, ReaderOnlyErrors, Zenon DEF s
<1> QED
    BY <1>2, <1>3, Zenon

LEMMA ErrorInit == Init => ErrorInv
<1> SUFFICES ASSUME Init PROVE ErrorInv
    OBVIOUS
<1>1. /\ sizes = [p \in Paths |-> NoEntry] /\ blocks = [k \in Keys |-> NoEntry]
      /\ rd = [r \in Readers |-> IdleReader]
    BY Zenon DEF Init
<1>2. NoEntry.len = 0 /\ IdleReader.pc = "idle"
    BY DEF NoEntry, IdleReader
<1> QED
    BY <1>1, <1>2, Zenon DEF ErrorInv, ErrorFree, Has

LEMMA ErrorNext == FreshInv /\ ErrorInv /\ [Next]_vars => ErrorInv'
<1> SUFFICES ASSUME FreshInv, ErrorInv, [Next]_vars PROVE ErrorInv'
    BY Zenon
<1>1. CASE UNCHANGED vars
    BY <1>1, Zenon DEF vars, ErrorInv, ErrorFree, KnownSize, KnownBlock, HasSize, IsCurrentToken,
                       Has
<1>2. ASSUME NEW r \in Readers, ReaderStep(r) PROVE ErrorInv'
    BY <1>2, TakeGuardsErrors, FileSizeErrors, StatErrors, SaveFileSizeErrors, GetBlockErrors,
       RemoveBlockErrors, LoadLockErrors, LoadErrors, PublishBlockErrors, Zenon DEF ReaderStep
<1>3. ASSUME NEW r \in Readers,
             (\E p \in Paths : Open(r, p)) \/ Close(r) \/ ReadAgain(r) \/ Cancel(r)
      PROVE  ErrorInv'
    BY <1>3, OpenStep, BeginErrors, Zenon DEF Kept
<1>4. ASSUME NEW m \in Mutators,
             \/ MutatorStep(m) \/ Abandon(m)
             \/ (\E p \in Paths : ChangeFile(m, p)) \/ (\E move \in Moves : ChangeTree(m, move))
      PROVE  ErrorInv'
    BY <1>4, EnterPathInvalidationStep, BeginPathInvalidationStep, QueueForBarrierStep,
       BeginPrefixInvalidationStep, PurgeStep, AbandonStep, ChangeFileStep, ChangeTreeStep, Zenon
       DEF MutatorStep, Kept
<1> QED
    BY <1>1, <1>2, <1>3, <1>4, Zenon DEF Next, ReaderStep, MutatorStep

(* The cache adds no errors of its own: a read under which nothing changes    *)
(* fails only because the file is gone, whatever was cached, evicted,         *)
(* invalidated or abandoned before: ErrorsAreReal, for any numbers of tasks,  *)
(* files and versions, any sizes and any capacities.                          *)
THEOREM ErrorsAreTrue == Spec => []ErrorsAreReal
<1>1. FreshInv /\ ErrorInv => ErrorsAreReal
    BY Zenon DEF ErrorInv, ErrorFree, ErrorsAreReal, IsCurrent, IsCurrentToken
<1> QED
    BY <1>1, FreshInit, FreshNext, ErrorInit, ErrorNext, PTL DEF Spec

================================================================================
