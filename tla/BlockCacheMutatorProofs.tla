------------------------ MODULE BlockCacheMutatorProofs ------------------------
(***************************************************************************)
(* The steps that change files and invalidate them, and the opening of a   *)
(* file, keep the invariant of BlockCacheInvariant.  The last sections say *)
(* what the next state of a reader and the puts of the stores keep.        *)
(***************************************************************************)
EXTENDS BlockCacheInvariant, FiniteSetTheorems, TLAPS

(* The caller, the token and the file of a reader stay. *)
SameToken(s, t) ==
    /\ t.path = s.path /\ t.full = s.full /\ t.state = s.state /\ t.gen = s.gen
    /\ t.floor = s.floor

(* The steps that a reader goes through. *)
LEMMA StepsTyped ==
    /\ "size" \in ReaderSteps /\ "stat" \in ReaderSteps /\ "putsize" \in ReaderSteps
    /\ "get" \in ReaderSteps /\ "remove" \in ReaderSteps /\ "lock" \in ReaderSteps
    /\ "wait" \in ReaderSteps /\ "load" \in ReaderSteps /\ "put" \in ReaderSteps
    /\ "release" \in ReaderSteps /\ "done" \in ReaderSteps /\ "idle" \in ReaderSteps
BY DEF ReaderSteps

(* A step to pc, after which the reader holds the guards of the phase. *)
Moved(s, t, pc, phase) ==
    /\ t \in ReaderState /\ SameToken(s, t)
    /\ t.pc = pc /\ t.phase = phase /\ t.size = s.size /\ t.blk = s.blk
    /\ t.lock = s.lock /\ t.locked = s.locked
    /\ t.payload = s.payload /\ t.err = s.err /\ t.stale = s.stale

(* The guards of the coordinator are taken anew, or none is held. *)
LEMMA GuardedMoves ==
    ASSUME NEW s \in ReaderState, NEW pc \in ReaderSteps
    PROVE  Moved(s, Guarded(s, pc), pc, "prefix")
BY Zenon DEF Guarded, ReaderState, SameToken, Moved

LEMMA PlainMoves ==
    ASSUME NEW s \in ReaderState, NEW pc \in ReaderSteps
    PROVE  Moved(s, Plain(s, pc), pc, "none")
BY Zenon DEF Plain, ReaderState, SameToken, Moved

LEMMA WithoutTyped ==
    ASSUME NEW K, NEW store \in [K -> Entry], NEW ks
    PROVE  /\ Without(store, ks) \in [K -> Entry]
           /\ \A x \in K : Has(Without(store, ks), x)
                  => x \notin ks /\ Has(store, x) /\ Without(store, ks)[x] = store[x]
BY DEF Without, Entry, NoEntry, Has

LEMMA RemoveBlocksRemoves ==
    ASSUME Typed, NEW ks, RemoveBlocks(ks)
    PROVE  /\ blocks' \in [Keys -> Entry]
           /\ \A x \in Keys : Has(blocks', x)
                  => x \notin ks /\ Has(blocks, x) /\ blocks'[x] = blocks[x]
BY WithoutTyped DEF RemoveBlocks, Typed

LEMMA RemoveFileSizesRemoves ==
    ASSUME Typed, NEW ps, RemoveFileSizes(ps)
    PROVE  /\ sizes' \in [Paths -> Entry]
           /\ \A x \in Paths : Has(sizes', x)
                  => x \notin ps /\ Has(sizes, x) /\ sizes'[x] = sizes[x]
BY WithoutTyped DEF RemoveFileSizes, Typed

LEMMA IdleReaderTyped == IdleReader \in ReaderState /\ ReaderInv(IdleReader)
<1>1. (CHOOSE p \in Paths : TRUE) \in Paths
    BY BlockCacheConstants
<1>2. IdleReader \in ReaderState
    BY <1>1 DEF IdleReader, ReaderState, ReaderSteps
<1> QED
    BY <1>2 DEF IdleReader, ReaderInv, LockInv

(* There are enough states for the readers R and the mutators M that may hold *)
(* one: a new one can be had.                                                 *)
LEMMA FreeState ==
    ASSUME FreshInv, NEW R \in SUBSET Readers, NEW M \in SUBSET Mutators,
           Cardinality(R) + Cardinality(M) * Cardinality(Paths)
               < Cardinality(Readers) + Cardinality(Mutators) * Cardinality(Paths),
           \A r \in Readers \ R : rd[r].state = 0,
           \A m \in Mutators \ M : mu[m].states = {}
    PROVE  \E s \in StateIds : ~ IsAlive(s) /\ GateWriters(s) = {}
<1> SUFFICES ASSUME \A s \in StateIds : IsAlive(s) \/ GateWriters(s) # {} PROVE FALSE
    OBVIOUS
<1> DEFINE A == {0} \X R
           B == {1} \X (M \X Paths)
           Image(m) == CHOOSE f \in [Paths -> {0} \cup StateIds] :
                           mu[m].states \subseteq {f[p] : p \in Paths}
           Owns(x, s) == \/ x[1] = 0 /\ rd[x[2]].state = s
                         \/ x[1] = 1 /\ Image(x[2][1])[x[2][2]] = s
           f == [s \in StateIds |-> CHOOSE x \in A \cup B : Owns(x, s)]
           nr == Cardinality(Readers)
           nm == Cardinality(Mutators)
           np == Cardinality(Paths)
<1>1. /\ IsFiniteSet(R) /\ IsFiniteSet(M) /\ IsFiniteSet(M \X Paths)
      /\ Cardinality(M \X Paths) = Cardinality(M) * np
      /\ nr \in Nat /\ nm \in Nat /\ np \in Nat /\ Cardinality(R) \in Nat /\ Cardinality(M) \in Nat
    <2>1. IsFiniteSet(R) /\ IsFiniteSet(M)
        BY BlockCacheConstants, FS_Subset, Zenon
    <2> QED
        BY <2>1, BlockCacheConstants, FS_Product, FS_CardinalityType, Zenon
<1>2. /\ IsFiniteSet(A \cup B)
      /\ Cardinality(A \cup B) <= Cardinality(R) + Cardinality(M) * np
    <2>1. /\ IsFiniteSet({0}) /\ Cardinality({0}) = 1
          /\ IsFiniteSet({1}) /\ Cardinality({1}) = 1
        BY FS_Singleton, Zenon
    <2>2. IsFiniteSet(A) /\ Cardinality(A) = Cardinality({0}) * Cardinality(R)
        BY <1>1, <2>1, FS_Product, Zenon
    <2>3. IsFiniteSet(B) /\ Cardinality(B) = Cardinality({1}) * Cardinality(M \X Paths)
        BY <1>1, <2>1, FS_Product, Zenon
    <2> HIDE DEF A, B
    <2>4. IsFiniteSet(A \cap B)
        BY <2>2, FS_Intersection, Zenon
    <2>5. /\ IsFiniteSet(A \cup B)
          /\ Cardinality(A \cup B) = Cardinality(A) + Cardinality(B) - Cardinality(A \cap B)
          /\ Cardinality(A \cap B) \in Nat /\ Cardinality(A) \in Nat /\ Cardinality(B) \in Nat
        BY <2>2, <2>3, <2>4, FS_Union, FS_CardinalityType, Zenon
    <2>6. Cardinality(A) = Cardinality(R) /\ Cardinality(B) = Cardinality(M) * np
        BY <1>1, <2>1, <2>2, <2>3, <2>5
    <2> QED
        BY <2>5, <2>6
<1>3. nm * np \in Nat /\ IsFiniteSet(StateIds) /\ Cardinality(StateIds) = nr + nm * np
    <2>1. nm * np \in Nat
        BY <1>1
    <2>2. nr + nm * np \in Nat
        BY <1>1, <2>1
    <2> QED
        BY <2>1, <2>2, FS_Interval DEF StateIds
<1>4. ASSUME NEW s \in StateIds PROVE \E x \in A \cup B : Owns(x, s)
    <2>0. s # 0
        BY <1>1, <1>3 DEF StateIds
    <2>1. CASE \E r \in Readers : rd[r].state = s
        <3>1. PICK r \in R : rd[r].state = s
            BY <2>0, <2>1
        <3>2. <<0, r>> \in A /\ Owns(<<0, r>>, s)
            BY <3>1
        <3> QED
            BY <3>2
    <2>2. CASE ~ \E r \in Readers : rd[r].state = s
        <3>1. PICK m \in Mutators : s \in mu[m].states
            BY <2>2 DEF IsAlive, GateWaiters, GateWriters
        <3>2. m \in M
            BY <3>1, Zenon
        <3>3. \E g \in [Paths -> {0} \cup StateIds] : mu[m].states \subseteq {g[p] : p \in Paths}
            BY DEF FreshInv, MutatorInv
        <3>4. mu[m].states \subseteq {Image(m)[p] : p \in Paths}
            BY <3>3, Zenon
        <3>5. PICK p \in Paths : Image(m)[p] = s
            BY <3>1, <3>4, Zenon
        <3> HIDE DEF Image
        <3>6. <<1, <<m, p>>>> \in B /\ Owns(<<1, <<m, p>>>>, s)
            BY <3>2, <3>5
        <3> QED
            BY <3>6
    <2> QED
        BY <2>1, <2>2, Zenon
<1>5. /\ f \in [StateIds -> A \cup B]
      /\ \A s \in StateIds : Owns(f[s], s)
    <2> HIDE DEF A, B, Owns
    <2> QED
        BY <1>4, Zenon
<1>6. \A x \in A \cup B : \A s, t : Owns(x, s) /\ Owns(x, t) => s = t
    <2> HIDE DEF Image
    <2> QED
        OBVIOUS
<1> HIDE DEF f, A, B, Owns
<1>7. PICK s, t \in StateIds : s # t /\ f[s] = f[t]
    <2>1. Cardinality(A \cup B) \in Nat
        BY <1>2, FS_CardinalityType, Zenon
    <2>2. Cardinality(M) * np \in Nat
        BY <1>1
    <2>3. Cardinality(A \cup B) < Cardinality(StateIds)
        BY <1>1, <1>2, <1>3, <2>1, <2>2
    <2> QED
        BY <1>2, <1>3, <1>5, <2>3, FS_PigeonHole
<1> QED
    BY <1>5, <1>6, <1>7

(* path_state keeps the state of every path whose state is in use, with its   *)
(* generation.                                                                *)
LEMMA PathStateUsed ==
    ASSUME FreshInv, NEW p \in Paths, UsePathState(p),
           \E s \in StateIds : ~ IsAlive(s) /\ GateWriters(s) = {}
    PROVE  /\ PathState(p) \in StateIds
           /\ pathStates' \in [Paths -> {0} \cup StateIds] /\ generation' \in [StateIds -> Nat]
           /\ pathStates'[p] = PathState(p)
           /\ \A q \in Paths : IsAlive(pathStates[q]) => pathStates'[q] = pathStates[q]
           /\ \A s \in StateIds : IsAlive(s) => generation'[s] = generation[s]
           /\ StatesInv'
<1> DEFINE s == PathState(p)
<1>1. pathStates \in [Paths -> {0} \cup StateIds] /\ generation \in [StateIds -> Nat] /\ StatesInv
    BY Zenon DEF FreshInv, Typed
<1>2. /\ s \in StateIds
      /\ IsAlive(pathStates[p]) => s = pathStates[p]
      /\ ~ IsAlive(pathStates[p]) => ~ IsAlive(s)
    BY <1>1 DEF PathState, IsAlive
<1>3. s # 0
    <2>1. /\ Cardinality(Readers) \in Nat /\ Cardinality(Mutators) \in Nat
          /\ Cardinality(Paths) \in Nat
        BY BlockCacheConstants, FS_CardinalityType, Zenon
    <2> HIDE DEF s
    <2> QED
        BY <1>2, <2>1 DEF StateIds
<1>4. /\ pathStates' = [x \in Paths |-> IF x = p THEN s
                                        ELSE IF pathStates[x] = s THEN 0 ELSE pathStates[x]]
      /\ generation' = [generation EXCEPT ![s] = IF IsAlive(pathStates[p]) THEN @ ELSE 0]
    BY <1>1 DEF UsePathState, Refer
<1> HIDE DEF s
<1>5. pathStates' \in [Paths -> {0} \cup StateIds] /\ generation' \in [StateIds -> Nat]
    BY <1>1, <1>2, <1>4, Zenon
<1>6. \A q \in Paths : IsAlive(pathStates[q]) => pathStates'[q] = pathStates[q]
    <2> SUFFICES ASSUME NEW q \in Paths, IsAlive(pathStates[q]) PROVE pathStates'[q] = pathStates[q]
        OBVIOUS
    <2>1. CASE q = p
        BY <1>2, <1>4, <2>1, Zenon
    <2>2. CASE q # p
        <3>1. pathStates[q] # s
            BY <1>1, <1>2, <1>3, <2>2, Zenon DEF StatesInv
        <3> QED
            BY <1>4, <2>2, <3>1, Zenon
    <2> QED
        BY <2>1, <2>2, Zenon
<1>7. \A x \in StateIds : IsAlive(x) => generation'[x] = generation[x]
    BY <1>1, <1>2, <1>4, Zenon
<1>8. StatesInv'
    BY <1>1, <1>3, <1>4, Zenon DEF StatesInv
<1> QED
    BY <1>2, <1>4, <1>5, <1>6, <1>7, <1>8, Zenon DEF s

(* A reader that does not move keeps what it relies on, when its path keeps   *)
(* its state and what it is about to publish fits as long as its token is     *)
(* current.                                                                   *)
LEMMA ReaderStays ==
    ASSUME FreshInv, NEW q \in Readers, rd'[q] = rd[q],
           acked' \in [Paths -> Nat], generation' \in [StateIds -> Nat],
           acked[rd[q].path] <= acked'[rd[q].path],
           rd[q].pc # "idle" =>
               /\ pathStates'[rd[q].path] = rd[q].state
               /\ generation[rd[q].state] <= generation'[rd[q].state]
               /\ rd[q].phase = "op" => generation'[rd[q].state] = generation[rd[q].state]
               /\ generation'[rd[q].state] = generation[rd[q].state]
                      => (Fits(acked, mu, rd[q].path, rd[q].payload)
                              => Fits(acked', mu', rd[q].path, rd[q].payload))
    PROVE  ReaderInv(rd[q])'
<1> DEFINE s == rd[q]
<1>1. s \in ReaderState /\ ReaderInv(s) /\ s.path \in Paths /\ s.floor \in Nat /\ s.gen \in Nat
    BY Zenon DEF FreshInv, Typed, ReaderState
<1>2. acked[s.path] \in Nat /\ acked'[s.path] \in Nat
    BY <1>1, Zenon DEF FreshInv, Typed
<1>3. CASE s.pc = "idle"
    BY <1>1, <1>3, ZenonT(30) DEF ReaderInv, LockInv, InFile, IsCurrentToken
<1>4. CASE s.pc # "idle"
    <2>1. /\ s.state \in StateIds /\ s.gen <= generation[s.state] /\ s.floor <= acked[s.path]
          /\ generation[s.state] \in Nat /\ generation'[s.state] \in Nat
        BY <1>1, <1>4, Zenon DEF ReaderInv, FreshInv, Typed
    <2>2. s.gen <= generation'[s.state] /\ s.floor <= acked'[s.path]
        BY <1>1, <1>2, <1>4, <2>1
    <2>3. s.gen = generation'[s.state]
              => IsCurrentToken(s) /\ generation'[s.state] = generation[s.state]
        BY <1>1, <1>4, <2>1 DEF IsCurrentToken
    <2>4. s.phase = "op" => s.gen = generation'[s.state]
        BY <1>1, <1>4, Zenon DEF ReaderInv, IsCurrentToken
    <2>5. s.pc \in {"putsize", "put"} /\ s.gen = generation'[s.state]
              => Fits(acked', mu', s.path, s.payload)
        BY <1>1, <1>4, <2>3, Zenon DEF ReaderInv
    <2>6. pathStates'[s.path] = s.state
        BY <1>4, Zenon
    <2>7. (LockInv(s) /\ InFile(s))' <=> (LockInv(s) /\ InFile(s))
        BY Zenon DEF LockInv, InFile
    <2>8. /\ LockInv(s)'
          /\ s.pc \in {"putsize", "get", "remove", "lock", "wait", "load", "put"} => InFile(s)'
          /\ s.pc \in {"release", "done"} /\ ~ s.err => InFile(s)'
        BY <1>1, <2>7, Zenon DEF ReaderInv, LockInv, InFile
    <2> QED
        BY <1>1, <1>4, <2>1, <2>2, <2>4, <2>5, <2>6, <2>8 DEF ReaderInv, IsCurrentToken
<1> QED
    BY <1>3, <1>4, Zenon

(* The state of a reader is alive. *)
LEMMA ReaderAlive ==
    ASSUME FreshInv, NEW q \in Readers, rd[q].pc # "idle"
    PROVE  /\ rd[q].path \in Paths /\ rd[q].state \in StateIds
           /\ pathStates[rd[q].path] = rd[q].state /\ IsAlive(rd[q].state)
<1>1. rd[q] \in ReaderState /\ ReaderInv(rd[q])
    BY DEF FreshInv, Typed
<1>2. Cardinality(Readers) \in Nat /\ Cardinality(Mutators) \in Nat /\ Cardinality(Paths) \in Nat
    BY BlockCacheConstants, FS_CardinalityType, Zenon
<1>3. rd[q].state \in StateIds /\ rd[q].path \in Paths /\ pathStates[rd[q].path] = rd[q].state
    BY <1>1, Zenon DEF ReaderInv, ReaderState
<1>4. rd[q].state # 0
    BY <1>2, <1>3 DEF StateIds
<1> QED
    BY <1>3, <1>4, Zenon DEF IsAlive

(* An invalidation that waits for the gate of a path waits for its state. *)
LEMMA GatesStay ==
    ASSUME FreshInv, NEW m \in Mutators, mu'[m] = mu[m],
           \A q \in Paths : IsAlive(pathStates[q]) => pathStates'[q] = pathStates[q]
    PROVE  MutatorInv(m)'
<1> DEFINE s == mu[m]
<1>1. MutatorInv(m) /\ s \in MutatorState /\ mu'[m] = s
    BY Zenon DEF FreshInv, Typed
<1>2. s.pc = "gate" => \A p \in Head(s.prefixes) : s.states = {pathStates'[p]}
    <2> SUFFICES ASSUME s.pc = "gate", NEW p \in Head(s.prefixes)
                 PROVE  s.states = {pathStates'[p]}
        BY Zenon
    <2>1. PICK x \in Paths : s.prefixes = <<{x}>>
        BY <1>1, Zenon DEF MutatorInv
    <2>2. p \in Paths
        BY <2>1
    <2>3. s.states = {pathStates[p]} /\ pathStates[p] \in StateIds
        BY <1>1, Zenon DEF MutatorInv, MutatorState
    <2>4. pathStates[p] # 0
        BY <2>3, BlockCacheConstants, FS_CardinalityType DEF StateIds
    <2>5. IsAlive(pathStates[p])
        BY <2>3, <2>4 DEF IsAlive, GateWaiters
    <2> QED
        BY <2>2, <2>3, <2>5, Zenon
<1> HIDE DEF s
<1> QED
    BY <1>1, <1>2, Zenon DEF MutatorInv, s

(* A step keeps the invariant of what is read, and that of errors. *)
Kept == FreshInv' /\ (ErrorInv => ErrorInv')

(* A step of a reader keeps the error invariant when what the reader is, and  *)
(* what it puts into the caches, agrees with it.                              *)
LEMMA ReaderErrors ==
    ASSUME FreshInv, ErrorInv, NEW r \in Readers, NEW t, Set(r, t),
           storage' = storage, mu' = mu, acked' = acked,
           \A s \in StateIds : IsAlive(s) => generation'[s] = generation[s],
           \A x \in Paths : Has(sizes', x) =>
               \/ Has(sizes, x) /\ sizes'[x] = sizes[x]
               \/ KnownSize(storage, acked, mu, x, sizes'[x].len),
           \A x \in Keys : Has(blocks', x) =>
               \/ Has(blocks, x) /\ blocks'[x] = blocks[x]
               \/ KnownBlock(storage, acked, mu, x, blocks'[x].len),
           t.pc # "idle" /\ t.gen = generation'[t.state] =>
               /\ HasSize(t) => KnownSize(storage, acked, mu, t.path, t.size)
               /\ t.floor = storage[t.path] =>
                      t.pc # "remove" /\ (t.err => Length[storage[t.path]] = 0)
    PROVE  ErrorInv'
<1>1. \A q \in Readers : rd'[q] = IF q = r THEN t ELSE rd[q]
    BY Zenon DEF Set, FreshInv, Typed
<1>2. ASSUME NEW q \in Readers PROVE ErrorFree(rd[q])'
    <2>1. CASE q = r
        <3>1. rd'[q] = t
            BY <1>1, <2>1
        <3> QED
            BY <3>1, Zenon DEF ErrorFree, HasSize, IsCurrentToken
    <2>2. CASE q # r
        <3>1. rd'[q] = rd[q]
            BY <1>1, <2>2, Zenon
        <3>2. rd[q].pc # "idle" => generation'[rd[q].state] = generation[rd[q].state]
            BY ReaderAlive, Zenon
        <3>3. ErrorFree(rd[q])
            BY DEF ErrorInv
        <3> QED
            BY <3>1, <3>2, <3>3, Zenon DEF ErrorFree, HasSize, IsCurrentToken
    <2> QED
        BY <2>1, <2>2
<1>3. ASSUME NEW x \in Paths, Has(sizes', x)
      PROVE  KnownSize(storage', acked', mu', x, sizes'[x].len)
    BY <1>3, Zenon DEF ErrorInv
<1>4. ASSUME NEW x \in Keys, Has(blocks', x)
      PROVE  KnownBlock(storage', acked', mu', x, blocks'[x].len)
    BY <1>4, Zenon DEF ErrorInv
<1> QED
    BY <1>2, <1>3, <1>4, Zenon DEF ErrorInv, Has

LEMMA OpenStep ==
    ASSUME FreshInv, NEW r \in Readers, NEW p \in Paths, Open(r, p)
    PROVE  Kept
<1> DEFINE g == Guarded(IdleReader, "size")
           u == [g EXCEPT !.path = p, !.full = r \in FullReaders, !.floor = acked[p],
                          !.state = PathState(p), !.gen = generation'[PathState(p)]]
<1>1. /\ rd[r].pc = "idle" /\ rd[r].state = 0 /\ UsePathState(p) /\ Set(r, u)
      /\ storage' = storage /\ sizes' = sizes /\ blocks' = blocks /\ inFlight' = inFlight
      /\ mu' = mu /\ acked' = acked
    BY Zenon DEF Open, FreshInv, ReaderInv, fileSizes, memory
<1>2. \E s \in StateIds : ~ IsAlive(s) /\ GateWriters(s) = {}
    <2> DEFINE R == Readers \ {r}
               n == Cardinality(Mutators) * Cardinality(Paths)
    <2>1. Cardinality(R) = Cardinality(Readers) - 1 /\ Cardinality(Readers) \in Nat
        BY BlockCacheConstants, FS_RemoveElement, FS_CardinalityType, Zenon
    <2>2. n \in Nat
        BY BlockCacheConstants, FS_CardinalityType
    <2> HIDE DEF n
    <2>3. Cardinality(R) + n < Cardinality(Readers) + n
        BY <2>1, <2>2
    <2>4. R \in SUBSET Readers /\ \A q \in Readers \ R : rd[q].state = 0
        BY <1>1
    <2> HIDE DEF R
    <2> QED
        BY <2>3, <2>4, FreeState, Zenon DEF n
<1>3. /\ PathState(p) \in StateIds
      /\ pathStates' \in [Paths -> {0} \cup StateIds] /\ generation' \in [StateIds -> Nat]
      /\ pathStates'[p] = PathState(p)
      /\ \A q \in Paths : IsAlive(pathStates[q]) => pathStates'[q] = pathStates[q]
      /\ \A s \in StateIds : IsAlive(s) => generation'[s] = generation[s]
      /\ StatesInv'
    BY <1>1, <1>2, PathStateUsed
<1>4. /\ u \in ReaderState /\ u.path = p /\ u.state = PathState(p)
      /\ u.gen = generation'[PathState(p)] /\ u.floor = acked[p] /\ u.pc = "size"
      /\ u.phase = "prefix" /\ u.blk = 0 /\ u.lock = 0 /\ ~ u.locked /\ ~ u.stale /\ ~ u.err
      /\ u.gen \in Nat /\ u.floor \in Nat
    <2>1. /\ acked[p] \in Nat /\ generation'[PathState(p)] \in Nat /\ PathState(p) \in Nat
          /\ (r \in FullReaders) \in BOOLEAN
        <3>1. PathState(p) \in Nat
            BY <1>3, BlockCacheConstants, FS_CardinalityType DEF StateIds
        <3> QED
            BY <1>3, <3>1 DEF FreshInv, Typed
    <2>2. /\ g \in ReaderState /\ g.pc = "size" /\ g.phase = "prefix"
          /\ g.blk = 0 /\ g.lock = 0 /\ ~ g.locked /\ ~ g.stale /\ ~ g.err
        <3>1. Moved(IdleReader, g, "size", "prefix")
            BY IdleReaderTyped, GuardedMoves, StepsTyped, Zenon
        <3> HIDE DEF g
        <3>2. /\ IdleReader.blk = 0 /\ IdleReader.lock = 0 /\ ~ IdleReader.locked
              /\ ~ IdleReader.stale /\ ~ IdleReader.err
            BY DEF IdleReader
        <3> QED
            BY <3>1, <3>2, Zenon DEF Moved
    <2> HIDE DEF g
    <2> QED
        BY <2>1, <2>2, Zenon DEF ReaderState
<1> HIDE DEF u
<1>5. rd' \in [Readers -> ReaderState] /\ \A q \in Readers : rd'[q] = IF q = r THEN u ELSE rd[q]
    BY <1>1, <1>4, Zenon DEF Set, FreshInv, Typed
<1>6. Typed'
    BY <1>1, <1>3, <1>5, Zenon DEF FreshInv, Typed
<1>7. StorageInv' /\ EntriesInv'
    BY <1>1, Zenon DEF FreshInv, StorageInv, EntriesInv
<1>8. ASSUME NEW m \in Mutators PROVE MutatorInv(m)'
    BY <1>1, <1>3, GatesStay, Zenon
<1>9. ASSUME NEW q \in Readers PROVE ReaderInv(rd[q])'
    <2>1. CASE q = r
        <3>1. rd'[q] = u
            BY <1>5, <2>1, Zenon
        <3> HIDE DEF u
        <3>2. acked[p] <= acked'[p] /\ u.gen <= generation'[PathState(p)]
            BY <1>1, <1>4
        <3>3. /\ rd'[q].path = p /\ rd'[q].state = PathState(p)
              /\ rd'[q].gen <= generation'[PathState(p)] /\ rd'[q].floor <= acked'[p]
              /\ rd'[q].pc = "size" /\ rd'[q].phase = "prefix" /\ rd'[q].blk = 0
              /\ rd'[q].lock = 0 /\ ~ rd'[q].locked /\ ~ rd'[q].stale
            BY <1>4, <3>1, <3>2, Zenon
        <3> QED
            BY <1>3, <3>3, Zenon DEF ReaderInv, LockInv
    <2>2. CASE q # r
        <3>1. rd'[q] = rd[q] /\ rd[q].path \in Paths
            BY <1>5, <2>2, Zenon DEF FreshInv, Typed, ReaderState
        <3>2. acked' \in [Paths -> Nat] /\ acked[rd[q].path] <= acked'[rd[q].path]
            BY <1>1, <3>1 DEF FreshInv, Typed
        <3>3. rd[q].pc # "idle" =>
                  /\ pathStates'[rd[q].path] = rd[q].state
                  /\ rd[q].state \in StateIds
                  /\ generation'[rd[q].state] = generation[rd[q].state]
            BY <1>3, ReaderAlive, Zenon
        <3>4. rd[q].pc # "idle" => generation[rd[q].state] <= generation'[rd[q].state]
            BY <1>3, <3>3
        <3> QED
            BY <1>1, <1>3, <3>1, <3>2, <3>3, <3>4, ReaderStays, Zenon
    <2> QED
        BY <2>1, <2>2, Zenon
<1>10. FreshInv'
    BY <1>3, <1>6, <1>7, <1>8, <1>9, Zenon DEF FreshInv
<1>11. ErrorInv => ErrorInv'
    <2>1. ~ HasSize(u) /\ u.pc # "remove"
        BY <1>4, Zenon DEF HasSize
    <2> QED
        BY <1>1, <1>3, <1>4, <2>1, ReaderErrors, Zenon
<1> QED
    BY <1>10, <1>11, Zenon DEF Kept

--------------------------------------------------------------------------------
(* The steps of the mutators. *)

(* What fits still fits after a step of a mutator that is not answered, when  *)
(* it is as new as what the mutator has changed and no longer has to drop.    *)
LEMMA FitsAfter ==
    ASSUME FreshInv, NEW m \in Mutators, NEW s \in MutatorState, SetM(m, s), acked' = acked,
           NEW p, NEW v
    PROVE  /\ Fits(acked, mu, p, v)
                  /\ (p \notin Pending(s) => \A w \in s.wrote : w[1] = p => v >= w[2])
                  => Fits(acked', mu', p, v)
           /\ FitsBlock(acked, mu, p, v)
                  /\ (p \notin Unpurged(s) => \A w \in s.wrote : w[1] = p => v >= w[2])
                  => FitsBlock(acked', mu', p, v)
<1>1. \A n \in Mutators : mu'[n] = IF n = m THEN s ELSE mu[n]
    BY DEF SetM, FreshInv, Typed
<1> QED
    BY <1>1, Zenon DEF Fits, FitsBlock

(* A step of a mutator that begins the invalidation of the paths in gone and  *)
(* drops the blocks of the paths in dropped.                                  *)
Invalidates(gone, dropped) ==
    /\ \A p \in Paths : acked[p] <= acked'[p]
    /\ \A p \in Paths : IsAlive(pathStates[p]) =>
           /\ pathStates'[p] = pathStates[p]
           /\ generation[pathStates[p]] <= generation'[pathStates[p]]
           /\ p \in gone => generation[pathStates[p]] # generation'[pathStates[p]]
    /\ \A r \in Readers : rd[r].phase = "op" => generation[rd[r].state] = generation'[rd[r].state]
    /\ \A x \in Paths : Has(sizes', x) => x \notin gone /\ Has(sizes, x) /\ sizes'[x] = sizes[x]
    /\ \A x \in Keys : Has(blocks', x)
           => x[1] \notin dropped /\ Has(blocks, x) /\ blocks'[x] = blocks[x]
    /\ \A p \in Paths, v \in Nat : p \notin gone /\ Fits(acked, mu, p, v)
           => Fits(acked', mu', p, v)
    /\ \A p \in Paths, v \in Nat : p \notin dropped /\ FitsBlock(acked, mu, p, v)
           => FitsBlock(acked', mu', p, v)

(* The error invariant survives a step that outdates content only together    *)
(* with the tokens and the entries that rest on it.                           *)
LEMMA MutatorErrors ==
    ASSUME FreshInv, FreshInv', ErrorInv, NEW gone, NEW dropped, rd' = rd,
           \A p \in Paths : storage[p] <= storage'[p], Invalidates(gone, dropped)
    PROVE  ErrorInv'
<1>1. /\ Versions \subseteq Nat
      /\ \A p \in Paths : /\ storage[p] \in Nat /\ storage'[p] \in Nat /\ acked[p] \in Nat
                           /\ storage[p] <= storage'[p] /\ acked[p] <= storage[p]
    BY BlockCacheConstants, ZenonT(30) DEF FreshInv, Typed, StorageInv
<1>2. ASSUME NEW p \in Paths, p \notin gone, NEW len,
             KnownSize(storage, acked, mu, p, len)
      PROVE  KnownSize(storage', acked', mu', p, len)
    <2>1. PICK v \in Versions : v <= storage[p] /\ len = Length[v] /\ Fits(acked, mu, p, v)
        BY <1>2, Zenon DEF KnownSize
    <2>2. v <= storage'[p]
        BY <1>1, <2>1
    <2>3. Fits(acked', mu', p, v)
        BY <1>1, <1>2, <2>1, Zenon DEF Invalidates
    <2> QED
        BY <2>1, <2>2, <2>3, Zenon DEF KnownSize
<1>3. ASSUME NEW k \in Keys, k[1] \notin dropped, NEW len, KnownBlock(storage, acked, mu, k, len)
      PROVE  KnownBlock(storage', acked', mu', k, len)
    <2>1. PICK v \in Versions : /\ v <= storage[k[1]] /\ len = BlockLength(Length[v], k[2])
                               /\ FitsBlock(acked, mu, k[1], v)
        BY <1>3, Zenon DEF KnownBlock
    <2>2. k[1] \in Paths
        BY Zenon DEF Keys
    <2>3. v <= storage'[k[1]]
        BY <1>1, <2>1, <2>2
    <2>4. FitsBlock(acked', mu', k[1], v)
        BY <1>1, <1>3, <2>1, <2>2, Zenon DEF Invalidates
    <2> QED
        BY <2>1, <2>3, <2>4, Zenon DEF KnownBlock
<1>4. ASSUME NEW p \in Paths, Has(sizes', p)
      PROVE  KnownSize(storage', acked', mu', p, sizes'[p].len)
    <2>1. p \notin gone /\ sizes'[p] = sizes[p] /\ KnownSize(storage, acked, mu, p, sizes[p].len)
        BY <1>4, Zenon DEF Invalidates, ErrorInv
    <2> QED
        BY <1>2, <2>1, Zenon
<1>5. ASSUME NEW k \in Keys, Has(blocks', k)
      PROVE  KnownBlock(storage', acked', mu', k, blocks'[k].len)
    <2>1. /\ k[1] \notin dropped /\ blocks'[k] = blocks[k]
          /\ KnownBlock(storage, acked, mu, k, blocks[k].len)
        BY <1>5, Zenon DEF Invalidates, ErrorInv
    <2> QED
        BY <1>3, <2>1, Zenon
<1>6. ASSUME NEW q \in Readers PROVE ErrorFree(rd[q])'
    <2> DEFINE s == rd[q]
    <2> SUFFICES ASSUME s.pc # "idle", s.gen = generation'[s.state]
                 PROVE  /\ HasSize(s) => KnownSize(storage', acked', mu', s.path, s.size)
                        /\ s.floor = storage'[s.path] =>
                               s.pc # "remove" /\ (s.err => Length[storage'[s.path]] = 0)
        BY Zenon DEF ErrorFree, HasSize, IsCurrentToken
    <2>1. /\ s.path \in Paths /\ s.state \in StateIds /\ pathStates[s.path] = s.state
          /\ IsAlive(pathStates[s.path])
        BY ReaderAlive, Zenon
    <2>2. s \in ReaderState /\ s.gen <= generation[s.state] /\ s.floor <= acked[s.path]
        BY DEF FreshInv, Typed, ReaderInv
    <2>3. /\ generation[s.state] <= generation'[s.state]
          /\ s.path \in gone => generation[s.state] # generation'[s.state]
        BY <2>1, ZenonT(30) DEF Invalidates
    <2>4. generation[s.state] \in Nat /\ s.gen \in Nat /\ s.floor \in Nat
        BY <2>1, <2>2, Zenon DEF FreshInv, Typed, ReaderState
    <2>5. s.gen = generation[s.state] /\ s.path \notin gone
        BY <2>2, <2>3, <2>4
    <2>6. /\ HasSize(s) => KnownSize(storage, acked, mu, s.path, s.size)
          /\ s.floor = storage[s.path] =>
                 s.pc # "remove" /\ (s.err => Length[storage[s.path]] = 0)
        BY <2>5, Zenon DEF ErrorInv, ErrorFree, IsCurrentToken
    <2>7. s.floor = storage'[s.path] => storage[s.path] = storage'[s.path]
        BY <1>1, <2>1, <2>2, <2>4
    <2> HIDE DEF s
    <2> QED
        BY <1>2, <2>1, <2>5, <2>6, <2>7, Zenon
<1> QED
    BY <1>4, <1>5, <1>6, Zenon DEF ErrorInv, Has

LEMMA MutatorKeeps ==
    ASSUME FreshInv, NEW m \in Mutators, NEW s \in MutatorState, SetM(m, s), NEW gone, NEW dropped,
           inFlight' = inFlight, rd' = rd,
           storage' \in [Paths -> Versions], acked' \in [Paths -> Nat],
           pathStates' \in [Paths -> {0} \cup StateIds], generation' \in [StateIds -> Nat],
           sizes' \in [Paths -> Entry], blocks' \in [Keys -> Entry],
           \A p \in Paths : storage[p] <= storage'[p],
           StatesInv', StorageInv', MutatorInv(m)', Invalidates(gone, dropped)
    PROVE  Kept
<1>1. mu' \in [Mutators -> MutatorState] /\ \A n \in Mutators : mu'[n] = IF n = m THEN s ELSE mu[n]
    BY Zenon DEF SetM, FreshInv, Typed
<1>2. Typed'
    BY <1>1, Zenon DEF FreshInv, Typed
<1>3. ASSUME NEW n \in Mutators PROVE MutatorInv(n)'
    <2>1. CASE n = m
        BY <2>1, Zenon
    <2>2. CASE n # m
        BY <1>1, <2>2, GatesStay, Zenon DEF Invalidates
    <2> QED
        BY <2>1, <2>2, Zenon
<1>4. ASSUME NEW p \in Paths, Has(sizes', p)
      PROVE  /\ Fits(acked', mu', p, sizes'[p].version)
             /\ \E v \in Versions : sizes'[p].len = Length[v]
    <2>1. /\ p \notin gone /\ sizes'[p] = sizes[p] /\ sizes[p].version \in Nat
          /\ Fits(acked, mu, p, sizes[p].version) /\ \E v \in Versions : sizes[p].len = Length[v]
        BY <1>4 DEF FreshInv, Typed, EntriesInv, Entry, Invalidates
    <2> QED
        BY <2>1, Zenon DEF Invalidates
<1>5. ASSUME NEW k \in Keys, Has(blocks', k)
      PROVE  FitsBlock(acked', mu', k[1], blocks'[k].version)
    <2>1. /\ k[1] \notin dropped /\ blocks'[k] = blocks[k] /\ blocks[k].version \in Nat
          /\ FitsBlock(acked, mu, k[1], blocks[k].version)
        BY <1>5, Zenon DEF FreshInv, Typed, EntriesInv, Entry, Invalidates
    <2>2. k[1] \in Paths
        BY Zenon DEF Keys
    <2> QED
        BY <2>1, <2>2, Zenon DEF Invalidates
<1>6. EntriesInv'
    BY <1>4, <1>5, Zenon DEF EntriesInv, Has
<1>7. ASSUME NEW q \in Readers PROVE ReaderInv(rd[q])'
    <2>1. rd[q] \in ReaderState /\ rd[q].path \in Paths /\ rd[q].payload \in Nat
        BY DEF FreshInv, Typed, ReaderState
    <2>2. acked[rd[q].path] <= acked'[rd[q].path] /\ rd'[q] = rd[q]
        BY <2>1, ZenonT(30) DEF Invalidates
    <2>3. ASSUME rd[q].pc # "idle"
          PROVE  /\ pathStates'[rd[q].path] = rd[q].state
                 /\ generation[rd[q].state] <= generation'[rd[q].state]
                 /\ rd[q].phase = "op" => generation'[rd[q].state] = generation[rd[q].state]
                 /\ generation'[rd[q].state] = generation[rd[q].state]
                        => (Fits(acked, mu, rd[q].path, rd[q].payload)
                                => Fits(acked', mu', rd[q].path, rd[q].payload))
        <3>1. pathStates[rd[q].path] = rd[q].state /\ IsAlive(pathStates[rd[q].path])
            BY <2>3, ReaderAlive, Zenon
        <3>2. /\ pathStates'[rd[q].path] = rd[q].state
              /\ generation[rd[q].state] <= generation'[rd[q].state]
              /\ rd[q].path \in gone => generation[rd[q].state] # generation'[rd[q].state]
            BY <2>1, <3>1, ZenonT(30) DEF Invalidates
        <3> QED
            BY <2>1, <3>2, Zenon DEF Invalidates
    <2> QED
        BY <2>2, <2>3, ReaderStays, Zenon
<1>8. FreshInv'
    BY <1>2, <1>3, <1>6, <1>7, Zenon DEF FreshInv
<1> QED
    BY <1>8, MutatorErrors, Zenon DEF Kept

(* A step that leaves the states of the paths and the caches alone. *)
LEMMA MutatorOnly ==
    ASSUME FreshInv, NEW m \in Mutators, NEW s \in MutatorState, SetM(m, s),
           UNCHANGED <<coordinator, memory, inFlight, rd, acked>>,
           storage' \in [Paths -> Versions], \A p \in Paths : storage[p] <= storage'[p],
           StorageInv', MutatorInv(m)',
           \A p \in Paths, v \in Nat : Fits(acked, mu, p, v) => Fits(acked', mu', p, v),
           \A p \in Paths, v \in Nat : FitsBlock(acked, mu, p, v) => FitsBlock(acked', mu', p, v)
    PROVE  Kept
<1>1. /\ inFlight' = inFlight /\ rd' = rd /\ acked' = acked /\ sizes' = sizes /\ blocks' = blocks
      /\ pathStates' = pathStates /\ generation' = generation
    BY Zenon DEF coordinator, states, fileSizes, memory
<1>2. /\ acked' \in [Paths -> Nat] /\ sizes' \in [Paths -> Entry] /\ blocks' \in [Keys -> Entry]
      /\ pathStates' \in [Paths -> {0} \cup StateIds] /\ generation' \in [StateIds -> Nat]
      /\ StatesInv'
    BY <1>1, Zenon DEF FreshInv, Typed, StatesInv
<1>3. \A p \in Paths : acked[p] <= acked'[p]
    BY <1>1 DEF FreshInv, Typed
<1>4. ASSUME NEW p \in Paths, IsAlive(pathStates[p])
      PROVE  /\ pathStates'[p] = pathStates[p]
             /\ generation[pathStates[p]] <= generation'[pathStates[p]]
    <2>1. pathStates[p] \in StateIds
        BY <1>4, Zenon DEF FreshInv, Typed, IsAlive
    <2> QED
        BY <1>1, <2>1 DEF FreshInv, Typed
<1>5. Invalidates({}, {})
    BY <1>1, <1>3, <1>4, Zenon DEF Invalidates
<1> QED
    BY <1>1, <1>2, <1>5, MutatorKeeps, Zenon

LEMMA IdleMutatorTyped == IdleMutator \in MutatorState /\ IdleMutator.wrote = {}
<1>1. <<>> \in Seq(SUBSET Paths)
    OBVIOUS
<1> QED
    BY <1>1, Zenon DEF IdleMutator, MutatorState

LEMMA MutatorTyped ==
    ASSUME FreshInv, NEW m \in Mutators
    PROVE  /\ mu[m] \in MutatorState /\ MutatorInv(m) /\ mu[m].prefixes \in Seq(SUBSET Paths)
           /\ mu[m].wrote \subseteq Paths \X Nat /\ mu[m].states \subseteq StateIds
BY DEF FreshInv, Typed, MutatorState

LEMMA StorageTyped ==
    ASSUME FreshInv
    PROVE  storage \in [Paths -> Versions] /\ \A p \in Paths : storage[p] \in Nat
BY BlockCacheConstants, Zenon DEF FreshInv, Typed

(* A mutator that holds no state. *)
LEMMA NoStates ==
    \E f \in [Paths -> {0} \cup StateIds] : {} \subseteq {f[p] : p \in Paths}
<1>1. [p \in Paths |-> 0] \in [Paths -> {0} \cup StateIds]
    BY Zenon
<1> QED
    BY <1>1, Zenon

(* The files only move on, and a mutator that changes them has not had its    *)
(* change dropped from the caches yet.                                        *)
LEMMA StorageGrows ==
    ASSUME FreshInv, NEW m \in Mutators, NEW s \in MutatorState, SetM(m, s), acked' = acked,
           storage' \in [Paths -> Versions],
           \A p \in Paths : storage[p] <= storage'[p],
           \A w \in s.wrote : w[2] <= storage'[w[1]]
    PROVE  StorageInv'
<1>1. \A n \in Mutators : mu'[n] = IF n = m THEN s ELSE mu[n]
    BY Zenon DEF SetM, FreshInv, Typed
<1>2. ASSUME NEW p \in Paths PROVE acked'[p] <= storage'[p]
    <2>1. /\ acked[p] \in Nat /\ storage[p] \in Nat /\ storage'[p] \in Nat
          /\ acked[p] <= storage[p] /\ storage[p] <= storage'[p]
        BY BlockCacheConstants, ZenonT(30) DEF FreshInv, Typed, StorageInv
    <2> QED
        BY <2>1
<1>3. ASSUME NEW n \in Mutators, NEW w \in mu'[n].wrote PROVE w[2] <= storage'[w[1]]
    <2>1. CASE n = m
        BY <1>1, <1>3, <2>1, Zenon
    <2>2. CASE n # m
        <3>1. w \in mu[n].wrote /\ w \in Paths \X Nat /\ w[1] \in Paths
            BY <1>1, <1>3, <2>2 DEF FreshInv, Typed, MutatorState
        <3>2. w[2] <= storage[w[1]] /\ storage[w[1]] <= storage'[w[1]] /\ w[2] \in Nat
            BY <3>1 DEF FreshInv, StorageInv
        <3>3. storage[w[1]] \in Nat /\ storage'[w[1]] \in Nat
            BY <3>1, BlockCacheConstants, Zenon DEF FreshInv, Typed
        <3> QED
            BY <3>2, <3>3
    <2> QED
        BY <2>1, <2>2, Zenon
<1> QED
    BY <1>2, <1>3, Zenon DEF StorageInv

LEMMA ChangeStep ==
    ASSUME FreshInv, NEW m \in Mutators, NEW ps \in SUBSET Paths, NEW move \in Seq(SUBSET Paths),
           NEW b \in BOOLEAN, move # <<>>, ps = UNION Range(move),
           ~ b => \E p \in Paths : move = <<{p}>>,
           \A p \in ps : storage[p] + 1 \in Versions,
           storage' = Changed(ps),
           SetM(m, [pc |-> "changed", prefixes |-> move, isPrefix |-> b, states |-> {},
                    wrote |-> {<<p, storage'[p]>> : p \in ps}]),
           UNCHANGED <<coordinator, memory, inFlight, rd, acked>>
    PROVE  Kept
<1> DEFINE wrote == {<<p, storage'[p]>> : p \in ps}
           s == [pc |-> "changed", prefixes |-> move, isPrefix |-> b, states |-> {},
                 wrote |-> wrote]
<1>1. /\ storage' \in [Paths -> Versions]
      /\ \A p \in Paths : storage[p] \in Nat /\ storage'[p] \in Nat /\ storage[p] <= storage'[p]
    <2>1. \A p \in Paths : storage[p] \in Versions /\ storage[p] \in Nat
        BY StorageTyped, Zenon
    <2>2. storage' = [p \in Paths |-> IF p \in ps THEN storage[p] + 1 ELSE storage[p]]
        BY Zenon DEF Changed
    <2>3. ASSUME NEW p \in Paths
          PROVE  /\ (IF p \in ps THEN storage[p] + 1 ELSE storage[p]) \in Versions
                 /\ storage'[p] \in Nat /\ storage[p] \in Nat /\ storage[p] <= storage'[p]
        <3>1. storage'[p] = storage[p] + 1 \/ storage'[p] = storage[p]
            BY <2>2, Zenon
        <3>2. storage'[p] \in Nat /\ storage[p] <= storage'[p]
            BY <2>1, <3>1
        <3> QED
            BY <2>1, <3>2, Zenon
    <2>4. storage' \in [Paths -> Versions]
        <3> DEFINE next(p) == IF p \in ps THEN storage[p] + 1 ELSE storage[p]
        <3>1. \A p \in Paths : next(p) \in Versions
            BY <2>3, Zenon
        <3>2. storage' = [p \in Paths |-> next(p)]
            BY <2>2, Zenon
        <3> HIDE DEF next
        <3> QED
            BY <3>1, <3>2, Zenon
    <2> QED
        BY <2>3, <2>4, Zenon
<1>2. /\ wrote \subseteq ps \X Nat
      /\ \A w \in wrote : w[2] = storage'[w[1]] /\ w[1] \in ps /\ w[2] <= storage'[w[1]]
    <2> SUFFICES ASSUME NEW w \in wrote
                 PROVE  /\ w \in ps \X Nat /\ w[2] = storage'[w[1]] /\ w[1] \in ps
                        /\ w[2] <= storage'[w[1]]
        BY Zenon
    <2>1. PICK p \in ps : w = <<p, storage'[p]>>
        BY Zenon
    <2>2. storage'[p] \in Nat
        BY <1>1, ZenonT(30)
    <2> HIDE DEF wrote
    <2> QED
        BY <2>1, <2>2
<1>3. SetM(m, s)
    BY Zenon
<1> HIDE DEF wrote
<1>4. s \in MutatorState
    BY <1>2 DEF MutatorState
<1>5. StorageInv'
    BY <1>1, <1>2, <1>3, <1>4, StorageGrows, ZenonT(30)
<1>6. MutatorInv(m)'
    <2>1. mu'[m] = s
        BY <1>3, Zenon DEF SetM, FreshInv, Typed
    <2>2. ASSUME NEW w \in wrote, NEW x \in wrote, w[1] = x[1]
          PROVE  w = x
        <3>1. w = <<w[1], w[2]>> /\ x = <<x[1], x[2]>>
            BY <1>2
        <3>2. w[2] = x[2]
            BY <1>2, <2>2
        <3> QED
            BY <2>2, <3>1, <3>2, Zenon
    <2>3. /\ s.pc = "changed" /\ s.prefixes = move /\ s.isPrefix = b /\ s.states = {}
          /\ s.wrote = wrote
        BY Zenon
    <2> HIDE DEF s
    <2> QED
        BY <2>1, <2>2, <2>3, NoStates, Zenon DEF MutatorInv
<1>7. Pending(s) = ps /\ Unpurged(s) = ps
    BY DEF Pending, Unpurged
<1>8. /\ \A p \in Paths, v \in Nat : Fits(acked, mu, p, v) => Fits(acked', mu', p, v)
      /\ \A p \in Paths, v \in Nat : FitsBlock(acked, mu, p, v) => FitsBlock(acked', mu', p, v)
    <2>1. \A p : p \notin ps => \A w \in s.wrote : w[1] # p
        BY <1>2, Zenon
    <2> HIDE DEF s
    <2> QED
        BY <1>3, <1>4, <1>7, <2>1, FitsAfter, Zenon
<1> HIDE DEF s
<1> QED
    BY <1>1, <1>3, <1>4, <1>5, <1>6, <1>8, MutatorOnly, Zenon

LEMMA ChangeFileStep ==
    ASSUME FreshInv, NEW m \in Mutators, NEW p \in Paths, ChangeFile(m, p)
    PROVE  Kept
<1>1. {p} = UNION Range(<<{p}>>) /\ <<{p}>> \in Seq(SUBSET Paths) /\ <<{p}>> # <<>>
    BY DEF Range
<1>2. {<<q, storage'[q]>> : q \in {p}} = {<<p, storage'[p]>>}
    OBVIOUS
<1>3. /\ storage[p] + 1 \in Versions /\ storage' = Changed({p})
      /\ SetM(m, [pc |-> "changed", prefixes |-> <<{p}>>, isPrefix |-> FALSE, states |-> {},
                  wrote |-> {<<q, storage'[q]>> : q \in {p}}])
      /\ UNCHANGED <<coordinator, memory, inFlight, rd, acked>>
    BY <1>2, Zenon DEF ChangeFile
<1> QED
    BY <1>1, <1>3, ChangeStep, Zenon

LEMMA ChangeTreeStep ==
    ASSUME FreshInv, NEW m \in Mutators, NEW move \in Moves, ChangeTree(m, move)
    PROVE  Kept
<1> DEFINE ps == UNION Range(move)
<1>1. move \in Seq(SUBSET Paths) /\ move # <<>>
    BY BlockCacheConstants, Zenon
<1>2. ps \in SUBSET Paths
    BY <1>1 DEF Range
<1>3. /\ \A p \in ps : storage[p] + 1 \in Versions
      /\ storage' = Changed(ps)
      /\ SetM(m, [pc |-> "changed", prefixes |-> move, isPrefix |-> TRUE, states |-> {},
                  wrote |-> {<<p, storage'[p]>> : p \in ps}])
      /\ UNCHANGED <<coordinator, memory, inFlight, rd, acked>>
    BY Zenon DEF ChangeTree
<1>4. ps = UNION Range(move)
    BY Zenon
<1> HIDE DEF ps
<1> QED
    BY <1>1, <1>2, <1>3, <1>4, ChangeStep, Zenon

LEMMA QueueForBarrierStep ==
    ASSUME FreshInv, NEW m \in Mutators, QueueForBarrier(m)
    PROVE  Kept
<1> DEFINE s == mu[m]
           t == [s EXCEPT !.pc = "barrier"]
<1>1. s \in MutatorState /\ MutatorInv(m) /\ s.pc = "changed" /\ s.isPrefix
    BY MutatorTyped, Zenon DEF QueueForBarrier
<1>2. /\ SetM(m, t) /\ storage' = storage
      /\ UNCHANGED <<coordinator, memory, inFlight, rd, acked>>
    BY DEF QueueForBarrier
<1>3. t \in MutatorState /\ mu'[m] = t
    BY <1>1, <1>2, ZenonT(30) DEF SetM, FreshInv, Typed, MutatorState
<1>4. MutatorInv(m)'
    BY <1>1, <1>3, Zenon DEF MutatorInv, MutatorState
<1>5. Pending(t) = Pending(s) /\ Unpurged(t) = Unpurged(s) /\ t.wrote = s.wrote
    BY <1>1, Zenon DEF Pending, Unpurged, MutatorState
<1> HIDE DEF t
<1>6. /\ \A p \in Paths, v \in Nat : Fits(acked, mu, p, v) => Fits(acked', mu', p, v)
      /\ \A p \in Paths, v \in Nat : FitsBlock(acked, mu, p, v) => FitsBlock(acked', mu', p, v)
    <2>1. /\ \A p \in Paths, v \in Nat : Fits(acked, mu, p, v) /\ p \notin Pending(t)
                 => \A w \in t.wrote : w[1] = p => v >= w[2]
          /\ \A p \in Paths, v \in Nat : FitsBlock(acked, mu, p, v) /\ p \notin Unpurged(t)
                 => \A w \in t.wrote : w[1] = p => v >= w[2]
        BY <1>5, Zenon DEF Fits, FitsBlock
    <2> QED
        BY <1>2, <1>3, <2>1, FitsAfter, Zenon
<1>7. storage' \in [Paths -> Versions] /\ \A p \in Paths : storage[p] <= storage'[p]
    BY <1>2, StorageTyped
<1>8. \A w \in t.wrote : w[2] <= storage'[w[1]]
    BY <1>2, <1>5, ZenonT(30) DEF FreshInv, StorageInv
<1>9. StorageInv'
    BY <1>2, <1>3, <1>7, <1>8, StorageGrows, Zenon
<1> QED
    BY <1>2, <1>3, <1>4, <1>6, <1>7, <1>9, MutatorOnly, Zenon

LEMMA AbandonStep ==
    ASSUME FreshInv, NEW m \in Mutators, Abandon(m)
    PROVE  Kept
<1> DEFINE t == IdleMutator
<1>1. /\ SetM(m, t) /\ storage' = storage /\ acked' = acked
      /\ UNCHANGED <<coordinator, memory, inFlight, rd, acked>>
    BY DEF Abandon
<1>2. t \in MutatorState /\ t.wrote = {} /\ mu'[m] = t
    BY <1>1, IdleMutatorTyped, ZenonT(30) DEF SetM, FreshInv, Typed
<1>3. MutatorInv(m)'
    BY <1>2, NoStates DEF MutatorInv, IdleMutator
<1> HIDE DEF t
<1>4. /\ \A p \in Paths, v \in Nat : Fits(acked, mu, p, v) => Fits(acked', mu', p, v)
      /\ \A p \in Paths, v \in Nat : FitsBlock(acked, mu, p, v) => FitsBlock(acked', mu', p, v)
    BY <1>1, <1>2, FitsAfter, Zenon
<1>5. storage' \in [Paths -> Versions] /\ \A p \in Paths : storage[p] <= storage'[p]
    BY <1>1, StorageTyped
<1>6. StorageInv'
    BY <1>1, <1>2, <1>5, StorageGrows, Zenon
<1> QED
    BY <1>1, <1>2, <1>3, <1>4, <1>5, <1>6, MutatorOnly, Zenon

LEMMA EnterPathInvalidationStep ==
    ASSUME FreshInv, NEW m \in Mutators, EnterPathInvalidation(m)
    PROVE  Kept
<1> DEFINE s == mu[m]
           p == CHOOSE q \in Head(s.prefixes) : TRUE
           t == [s EXCEPT !.pc = "gate", !.states = {PathState(p)}]
<1>1. /\ s \in MutatorState /\ MutatorInv(m) /\ s.pc = "changed" /\ ~ s.isPrefix
      /\ UsePathState(p) /\ SetM(m, t)
      /\ storage' = storage /\ sizes' = sizes /\ blocks' = blocks /\ inFlight' = inFlight
      /\ rd' = rd /\ acked' = acked
    BY MutatorTyped, Zenon DEF EnterPathInvalidation, fileSizes, memory
<1>2. /\ p \in Paths /\ s.prefixes = <<{p}>> /\ s.states = {}
    <2>1. PICK x \in Paths : s.prefixes = <<{x}>>
        BY <1>1, Zenon DEF MutatorInv
    <2>2. p = x
        BY <2>1
    <2> QED
        BY <1>1, <2>1, <2>2, Zenon DEF MutatorInv
<1>3. \E x \in StateIds : ~ IsAlive(x) /\ GateWriters(x) = {}
    <2> DEFINE M == Mutators \ {m}
               n == Cardinality(Mutators)
               np == Cardinality(Paths)
    <2>1. Cardinality(M) = n - 1 /\ n \in Nat /\ Cardinality(M) \in Nat
        <3>1. IsFiniteSet(M)
            BY BlockCacheConstants, FS_RemoveElement, Zenon
        <3> QED
            BY <3>1, BlockCacheConstants, FS_RemoveElement, FS_CardinalityType, Zenon
    <2>2. np \in Nat /\ np # 0 /\ Cardinality(Readers) \in Nat
        BY BlockCacheConstants, FS_CardinalityType, FS_EmptySet, Zenon
    <2> HIDE DEF n, np
    <2>3. (n - 1) * np = n * np - np /\ n * np \in Nat /\ (n - 1) * np \in Int
        BY <2>1, <2>2
    <2>4. Cardinality(Readers) + (n - 1) * np < Cardinality(Readers) + n * np
        BY <2>2, <2>3
    <2>5. Cardinality(Readers) + Cardinality(M) * Cardinality(Paths)
              < Cardinality(Readers) + Cardinality(Mutators) * Cardinality(Paths)
        BY <2>1, <2>4, Zenon DEF n, np
    <2>6. M \in SUBSET Mutators /\ \A x \in Mutators \ M : mu[x].states = {}
        BY <1>2, Zenon
    <2> HIDE DEF M
    <2> QED
        BY <2>5, <2>6, FreeState, Zenon
<1> HIDE DEF p
<1>4. /\ PathState(p) \in StateIds
      /\ pathStates' \in [Paths -> {0} \cup StateIds] /\ generation' \in [StateIds -> Nat]
      /\ pathStates'[p] = PathState(p)
      /\ \A q \in Paths : IsAlive(pathStates[q]) => pathStates'[q] = pathStates[q]
      /\ \A x \in StateIds : IsAlive(x) => generation'[x] = generation[x]
      /\ StatesInv'
    BY <1>1, <1>2, <1>3, PathStateUsed, Zenon
<1>5. /\ t \in MutatorState /\ t.pc = "gate" /\ t.prefixes = <<{p}>> /\ ~ t.isPrefix
      /\ t.states = {PathState(p)} /\ t.wrote = s.wrote
    BY <1>1, <1>2, <1>4, Zenon DEF MutatorState
<1> HIDE DEF t
<1>6. mu'[m] = t
    BY <1>1, Zenon DEF SetM, FreshInv, Typed
<1>7. MutatorInv(m)'
    <2>1. \A w, x \in t.wrote : w[1] = x[1] => w = x
        BY <1>1, <1>5, Zenon DEF MutatorInv
    <2>2. t.states \subseteq {pathStates'[q] : q \in Paths}
        BY <1>2, <1>4, <1>5, Zenon
    <2>3. \A q \in Head(t.prefixes) : t.states = {pathStates'[q]}
        BY <1>4, <1>5
    <2>4. t.prefixes # <<>> /\ \E q \in Paths : t.prefixes = <<{q}>>
        BY <1>2, <1>5
    <2>5. \E f \in [Paths -> {0} \cup StateIds] : t.states \subseteq {f[q] : q \in Paths}
        BY <1>4, <2>2, Zenon
    <2> QED
        BY <1>5, <1>6, <2>1, <2>3, <2>4, <2>5, Zenon DEF MutatorInv
<1>8. Pending(t) = Pending(s) /\ Unpurged(t) = Unpurged(s) /\ t.wrote = s.wrote
    BY <1>1, <1>2, <1>5, Zenon DEF Pending, Unpurged
<1>9. /\ \A q \in Paths, v \in Nat : Fits(acked, mu, q, v)
             => Fits(acked', mu', q, v)
      /\ \A q \in Paths, v \in Nat : FitsBlock(acked, mu, q, v)
             => FitsBlock(acked', mu', q, v)
    <2>1. /\ \A q \in Paths, v \in Nat : Fits(acked, mu, q, v) /\ q \notin Pending(t)
                 => \A w \in t.wrote : w[1] = q => v >= w[2]
          /\ \A q \in Paths, v \in Nat : FitsBlock(acked, mu, q, v) /\ q \notin Unpurged(t)
                 => \A w \in t.wrote : w[1] = q => v >= w[2]
        BY <1>8 DEF Fits, FitsBlock
    <2> QED
        BY <1>1, <1>5, <2>1, FitsAfter, Zenon
<1>10. storage' \in [Paths -> Versions] /\ \A q \in Paths : storage[q] <= storage'[q]
    BY <1>1, StorageTyped
<1>11. StorageInv'
    <2>1. \A w \in t.wrote : w[2] <= storage'[w[1]]
        BY <1>1, <1>5, Zenon DEF FreshInv, StorageInv
    <2> QED
        BY <1>1, <1>5, <1>10, <2>1, StorageGrows, Zenon
<1>12. \A q \in Paths : IsAlive(pathStates[q]) =>
           /\ pathStates'[q] = pathStates[q]
           /\ generation[pathStates[q]] <= generation'[pathStates[q]]
    <2> SUFFICES ASSUME NEW q \in Paths, IsAlive(pathStates[q])
                 PROVE  /\ pathStates'[q] = pathStates[q]
                        /\ generation[pathStates[q]] <= generation'[pathStates[q]]
        BY Zenon
    <2>1. pathStates[q] \in StateIds
        BY Zenon DEF FreshInv, Typed, IsAlive
    <2>2. generation[pathStates[q]] \in Nat
        BY <2>1, Zenon DEF FreshInv, Typed
    <2> QED
        BY <1>4, <2>1, <2>2
<1>13. \A r \in Readers : rd[r].phase = "op" => generation[rd[r].state] = generation'[rd[r].state]
    <2> SUFFICES ASSUME NEW r \in Readers, rd[r].phase = "op"
                 PROVE  generation[rd[r].state] = generation'[rd[r].state]
        BY Zenon
    <2>1. rd[r].pc # "idle"
        BY Zenon DEF FreshInv, ReaderInv
    <2> QED
        BY <1>4, <2>1, ReaderAlive, Zenon
<1>14. sizes' \in [Paths -> Entry] /\ blocks' \in [Keys -> Entry]
    BY <1>1, Zenon DEF FreshInv, Typed
<1>15. acked' \in [Paths -> Nat] /\ \A q \in Paths : acked[q] <= acked'[q]
    BY <1>1 DEF FreshInv, Typed
<1>16. Invalidates({}, {})
    BY <1>1, <1>9, <1>12, <1>13, <1>15, Zenon DEF Invalidates
<1> QED
    BY <1>1, <1>4, <1>5, <1>7, <1>10, <1>11, <1>14, <1>15, <1>16, MutatorKeeps, Zenon

LEMMA HeadAndTail ==
    ASSUME NEW s \in Seq(SUBSET Paths), s # <<>>
    PROVE  /\ Head(s) \subseteq Paths /\ Tail(s) \in Seq(SUBSET Paths)
           /\ UNION Range(s) = Head(s) \cup UNION Range(Tail(s))
<1>1. /\ Head(s) = s[1] /\ Head(s) \in SUBSET Paths /\ Tail(s) \in Seq(SUBSET Paths)
      /\ Len(s) \in Nat /\ Len(s) >= 1 /\ DOMAIN s = 1..Len(s)
      /\ DOMAIN Tail(s) = 1..(Len(s) - 1)
      /\ \A i \in 1..(Len(s) - 1) : Tail(s)[i] = s[i + 1]
    OBVIOUS
<1>2. ASSUME NEW i \in DOMAIN s PROVE s[i] = Head(s) \/ \E j \in DOMAIN Tail(s) : s[i] = Tail(s)[j]
    <2>1. CASE i = 1
        BY <1>1, <2>1, Zenon
    <2>2. CASE i # 1
        <3>1. i - 1 \in 1..(Len(s) - 1) /\ (i - 1) + 1 = i
            BY <1>1, <2>2
        <3>2. Tail(s)[i - 1] = s[i]
            BY <1>1, <3>1, Zenon
        <3> QED
            BY <1>1, <3>1, <3>2, Zenon
    <2> QED
        BY <2>1, <2>2, Zenon
<1>3. ASSUME NEW j \in DOMAIN Tail(s) PROVE \E i \in DOMAIN s : Tail(s)[j] = s[i]
    <2>1. j + 1 \in DOMAIN s /\ Tail(s)[j] = s[j + 1]
        BY <1>1
    <2> QED
        BY <2>1, Zenon
<1>4. \E i \in DOMAIN s : Head(s) = s[i]
    <2>1. 1 \in DOMAIN s
        BY <1>1
    <2> QED
        BY <1>1, <2>1, Zenon
<1>5. Range(s) = {Head(s)} \cup Range(Tail(s))
    BY <1>2, <1>3, <1>4 DEF Range
<1> QED
    BY <1>1, <1>5, Zenon

(* An invalidation that has its gates: no token of its paths is current any   *)
(* more, and nobody is reading or publishing a block of them.                 *)
LEMMA BumpStep ==
    ASSUME FreshInv, NEW m \in Mutators, mu[m].pc \in {"gate", "barrier"},
           NEW ss \in SUBSET StateIds, NEW ps, ps = Head(mu[m].prefixes),
           BumpGenerations(ss, ps),
           SetM(m, [mu[m] EXCEPT !.pc = "purge", !.states = ss]),
           \A p \in ps : IsAlive(pathStates[p]) => pathStates[p] \in ss,
           \A x \in ss : GateReaders(x) = {},
           \E f \in [Paths -> {0} \cup StateIds] : ss \subseteq {f[p] : p \in Paths},
           UNCHANGED <<storage, pathStates, memory, inFlight, rd, acked>>
    PROVE  Kept
<1> DEFINE s == mu[m]
           t == [s EXCEPT !.pc = "purge", !.states = ss]
<1>1. /\ s \in MutatorState /\ MutatorInv(m) /\ s.prefixes \in Seq(SUBSET Paths)
      /\ s.prefixes # <<>>
    BY MutatorTyped, Zenon DEF MutatorInv
<1>2. /\ storage' = storage /\ pathStates' = pathStates /\ inFlight' = inFlight /\ rd' = rd
      /\ acked' = acked /\ blocks' = blocks
    BY DEF memory
<1>3. /\ t \in MutatorState /\ t.pc = "purge" /\ t.prefixes = s.prefixes /\ t.isPrefix = s.isPrefix
      /\ t.states = ss /\ t.wrote = s.wrote /\ SetM(m, t)
    BY <1>1, Zenon DEF MutatorState
<1> HIDE DEF t
<1>4. mu'[m] = t
    BY <1>3, Zenon DEF SetM, FreshInv, Typed
<1>5. MutatorInv(m)'
    BY <1>1, <1>3, <1>4, Zenon DEF MutatorInv
<1>6. /\ generation' \in [StateIds -> Nat]
      /\ \A x \in StateIds :
             /\ generation[x] \in Nat /\ generation[x] <= generation'[x]
             /\ generation[x] = generation'[x] <=> x \notin ss
    <2>1. generation' = [x \in StateIds |-> generation[x] + IF x \in ss THEN 1 ELSE 0]
        BY Zenon DEF BumpGenerations
    <2>2. generation \in [StateIds -> Nat]
        BY Zenon DEF FreshInv, Typed
    <2>3. \A x \in StateIds : generation[x] + (IF x \in ss THEN 1 ELSE 0) \in Nat
        BY <2>2
    <2>4. generation' \in [StateIds -> Nat]
        BY <2>1, <2>3, Zenon
    <2>5. \A x \in StateIds : generation'[x] = generation[x] + IF x \in ss THEN 1 ELSE 0
        BY <2>1, Zenon
    <2> QED
        BY <2>2, <2>4, <2>5
<1>7. \A p \in Paths : IsAlive(pathStates[p]) =>
          /\ pathStates'[p] = pathStates[p]
          /\ generation[pathStates[p]] <= generation'[pathStates[p]]
          /\ p \in ps => generation[pathStates[p]] # generation'[pathStates[p]]
    <2> SUFFICES ASSUME NEW p \in Paths, IsAlive(pathStates[p])
                 PROVE  /\ generation[pathStates[p]] <= generation'[pathStates[p]]
                        /\ p \in ps => generation[pathStates[p]] # generation'[pathStates[p]]
        BY <1>2, Zenon
    <2>1. pathStates[p] \in StateIds
        BY Zenon DEF FreshInv, Typed, IsAlive
    <2> QED
        BY <1>6, <2>1, Zenon
<1>8. \A r \in Readers : rd[r].phase = "op" => generation[rd[r].state] = generation'[rd[r].state]
    <2> SUFFICES ASSUME NEW r \in Readers, rd[r].phase = "op"
                 PROVE  generation[rd[r].state] = generation'[rd[r].state]
        BY Zenon
    <2>1. rd[r].pc # "idle"
        BY Zenon DEF FreshInv, ReaderInv
    <2>2. rd[r].state \notin ss
        BY Zenon DEF GateReaders
    <2> QED
        BY <1>6, <2>1, <2>2, ReaderAlive, Zenon
<1>9. /\ sizes' \in [Paths -> Entry]
      /\ \A x \in Paths : Has(sizes', x) => x \notin ps /\ Has(sizes, x) /\ sizes'[x] = sizes[x]
    BY RemoveFileSizesRemoves, Zenon DEF BumpGenerations, FreshInv
<1>10. /\ ps \subseteq Paths /\ Unpurged(t) = Unpurged(s)
       /\ Pending(s) = ps \cup Pending(t)
    <2>1. Pending(s) = UNION Range(s.prefixes) /\ Pending(t) = UNION Range(Tail(s.prefixes))
        BY <1>3, Zenon DEF Pending, Unpurged
    <2> QED
        BY <1>1, <1>3, <2>1, HeadAndTail, Zenon DEF Unpurged
<1>11. /\ \A q \in Paths, v \in Nat : q \notin ps /\ Fits(acked, mu, q, v)
              => Fits(acked', mu', q, v)
       /\ \A q \in Paths, v \in Nat : FitsBlock(acked, mu, q, v)
              => FitsBlock(acked', mu', q, v)
    <2>1. /\ \A q \in Paths, v \in Nat : q \notin ps /\ Fits(acked, mu, q, v) /\ q \notin Pending(t)
                 => \A w \in t.wrote : w[1] = q => v >= w[2]
          /\ \A q \in Paths, v \in Nat : FitsBlock(acked, mu, q, v) /\ q \notin Unpurged(t)
                 => \A w \in t.wrote : w[1] = q => v >= w[2]
        BY <1>3, <1>10, Zenon DEF Fits, FitsBlock
    <2> QED
        BY <1>2, <1>3, <2>1, FitsAfter, Zenon
<1>12. storage' \in [Paths -> Versions] /\ \A q \in Paths : storage[q] <= storage'[q]
    BY <1>2, StorageTyped
<1>13. StorageInv'
    <2>1. \A w \in t.wrote : w[2] <= storage'[w[1]]
        BY <1>2, <1>3, Zenon DEF FreshInv, StorageInv
    <2> QED
        BY <1>2, <1>3, <1>12, <2>1, StorageGrows, Zenon
<1>14. /\ blocks' \in [Keys -> Entry] /\ pathStates' \in [Paths -> {0} \cup StateIds] /\ StatesInv'
    BY <1>2, Zenon DEF FreshInv, Typed, StatesInv
<1>15. acked' \in [Paths -> Nat] /\ \A q \in Paths : acked[q] <= acked'[q]
    BY <1>2 DEF FreshInv, Typed
<1>16. Invalidates(ps, {})
    BY <1>2, <1>7, <1>8, <1>9, <1>11, <1>15, Zenon DEF Invalidates
<1> QED
    BY <1>2, <1>3, <1>5, <1>6, <1>9, <1>12, <1>13, <1>14, <1>15, <1>16, MutatorKeeps, Zenon

LEMMA BeginPathInvalidationStep ==
    ASSUME FreshInv, NEW m \in Mutators, BeginPathInvalidation(m)
    PROVE  Kept
<1> DEFINE s == mu[m]
           ss == s.states
           ps == Head(s.prefixes)
<1>1. /\ s \in MutatorState /\ MutatorInv(m) /\ s.pc = "gate" /\ ss \in SUBSET StateIds
      /\ BumpGenerations(ss, ps) /\ SetM(m, [s EXCEPT !.pc = "purge"])
      /\ \A x \in ss : GateReaders(x) = {}
      /\ UNCHANGED <<storage, pathStates, memory, inFlight, rd, acked>>
    BY MutatorTyped DEF BeginPathInvalidation
<1>2. [s EXCEPT !.pc = "purge"] = [s EXCEPT !.pc = "purge", !.states = ss]
    BY <1>1, Zenon DEF MutatorState
<1>3. \A p \in ps : pathStates[p] \in ss
    BY <1>1, Zenon DEF MutatorInv
<1>4. \E f \in [Paths -> {0} \cup StateIds] : ss \subseteq {f[p] : p \in Paths}
    BY <1>1, Zenon DEF MutatorInv
<1> QED
    BY <1>1, <1>2, <1>3, <1>4, BumpStep, Zenon

LEMMA BeginPrefixInvalidationStep ==
    ASSUME FreshInv, NEW m \in Mutators, BeginPrefixInvalidation(m)
    PROVE  Kept
<1> DEFINE s == mu[m]
           ps == Head(s.prefixes)
           ss == {x \in {pathStates[p] : p \in ps} : IsAlive(x)}
<1>1. /\ s \in MutatorState /\ MutatorInv(m) /\ s.pc = "barrier"
      /\ BumpGenerations(ss, ps) /\ SetM(m, [s EXCEPT !.pc = "purge", !.states = ss])
      /\ \A x \in ss : GateReaders(x) = {}
      /\ UNCHANGED <<storage, pathStates, memory, inFlight, rd, acked>>
    BY MutatorTyped, Zenon DEF BeginPrefixInvalidation
<1>2. ps \subseteq Paths
    <2>1. s.prefixes \in Seq(SUBSET Paths) /\ s.prefixes # <<>>
        BY <1>1, MutatorTyped, Zenon DEF MutatorInv
    <2> QED
        BY <2>1, HeadAndTail, Zenon
<1>3. pathStates \in [Paths -> {0} \cup StateIds]
    BY Zenon DEF FreshInv, Typed
<1>4. /\ ss \in SUBSET StateIds /\ ss \subseteq {pathStates[p] : p \in Paths}
      /\ \A p \in ps : IsAlive(pathStates[p]) => pathStates[p] \in ss
    <2> HIDE DEF ps
    <2> QED
        BY <1>2, <1>3, Zenon DEF IsAlive
<1>5. \E f \in [Paths -> {0} \cup StateIds] : ss \subseteq {f[p] : p \in Paths}
    <2> HIDE DEF ss
    <2> QED
        BY <1>3, <1>4, Zenon
<1> HIDE DEF ss
<1> QED
    BY <1>1, <1>4, <1>5, BumpStep, Zenon

(* What has been answered once the last prefix is done: what was, or what the *)
(* mutator wrote.                                                             *)
Answer(a, W, p) == Max({a} \cup {w[2] : w \in {x \in W : x[1] = p}})

LEMMA Answered ==
    ASSUME NEW a \in Nat, NEW W \in SUBSET (Paths \X Nat), NEW p,
           \A w, x \in W : w[1] = x[1] => w = x
    PROVE  /\ Answer(a, W, p) \in Nat /\ Answer(a, W, p) >= a
           /\ Answer(a, W, p) = a \/ \E w \in W : w[1] = p /\ Answer(a, W, p) = w[2]
<1> DEFINE S == {a} \cup {w[2] : w \in {x \in W : x[1] = p}}
<1>1. PICK b \in Nat : S = {a, b} /\ (b = a \/ \E w \in W : w[1] = p /\ b = w[2])
    <2>1. CASE \E w \in W : w[1] = p
        <3>1. PICK w \in W : w[1] = p
            BY <2>1, Zenon
        <3>2. {x \in W : x[1] = p} = {w}
            BY <3>1, Zenon
        <3>3. S = {a, w[2]} /\ w[2] \in Nat
            BY <3>2, ZenonT(30)
        <3> QED
            BY <3>1, <3>3, Zenon
    <2>2. CASE ~ \E w \in W : w[1] = p
        <3>1. S = {a}
            BY <2>2, Zenon
        <3> QED
            BY <3>1, Zenon
    <2> QED
        BY <2>1, <2>2, Zenon
<1>2. \E x \in S : \A y \in S : x >= y
    BY <1>1
<1>3. Max(S) \in S /\ \A y \in S : Max(S) >= y
    <2> HIDE DEF S
    <2> QED
        BY <1>2, Zenon DEF Max
<1> HIDE DEF S
<1>4. Max(S) \in Nat /\ Max(S) >= a /\ (Max(S) = a \/ Max(S) = b)
    BY <1>1, <1>3, Zenon
<1>5. Max(S) = a \/ \E w \in W : w[1] = p /\ Max(S) = w[2]
    BY <1>1, <1>4, Zenon
<1>6. Answer(a, W, p) = Max(S)
    BY Zenon DEF Answer, S
<1> QED
    BY <1>4, <1>5, <1>6, Zenon

LEMMA PurgeStep ==
    ASSUME FreshInv, NEW m \in Mutators, Purge(m)
    PROVE  Kept
<1> DEFINE s == mu[m]
           left == Tail(s.prefixes)
           ps == Head(s.prefixes)
<1>1. /\ s \in MutatorState /\ MutatorInv(m) /\ s.pc = "purge" /\ s.prefixes \in Seq(SUBSET Paths)
      /\ s.prefixes # <<>> /\ s.wrote \subseteq Paths \X Nat
    BY MutatorTyped, Zenon DEF MutatorInv, Purge
<1>2. /\ RemoveBlocks({k \in Keys : k[1] \in ps})
      /\ storage' = storage /\ inFlight' = inFlight /\ rd' = rd /\ sizes' = sizes
      /\ pathStates' = pathStates /\ generation' = generation
    BY Zenon DEF Purge, coordinator, states, fileSizes
<1>3. /\ blocks' \in [Keys -> Entry]
      /\ \A x \in Keys : Has(blocks', x)
             => x[1] \notin ps /\ Has(blocks, x) /\ blocks'[x] = blocks[x]
    <2>1. \A x \in Keys : Has(blocks', x)
              => x \notin {k \in Keys : k[1] \in ps} /\ Has(blocks, x) /\ blocks'[x] = blocks[x]
        BY <1>2, RemoveBlocksRemoves, Zenon DEF FreshInv
    <2> HIDE DEF ps
    <2> QED
        BY <1>2, <2>1, RemoveBlocksRemoves, Zenon DEF FreshInv
<1>4. /\ sizes' \in [Paths -> Entry] /\ pathStates' \in [Paths -> {0} \cup StateIds]
      /\ generation' \in [StateIds -> Nat] /\ storage' \in [Paths -> Versions] /\ StatesInv'
      /\ \A p \in Paths : storage[p] <= storage'[p]
    BY <1>2, StorageTyped DEF FreshInv, Typed, StatesInv
<1>5. /\ \A p \in Paths : IsAlive(pathStates[p]) =>
             /\ pathStates'[p] = pathStates[p]
             /\ generation[pathStates[p]] <= generation'[pathStates[p]]
      /\ \A r \in Readers : rd[r].phase = "op" => generation[rd[r].state] = generation'[rd[r].state]
    <2> SUFFICES ASSUME NEW p \in Paths, IsAlive(pathStates[p])
                 PROVE  generation[pathStates[p]] <= generation'[pathStates[p]]
        BY <1>2, Zenon
    <2>1. pathStates[p] \in StateIds
        BY DEF FreshInv, Typed, IsAlive
    <2> QED
        BY <1>2, <2>1 DEF FreshInv, Typed
<1>6. /\ Unpurged(s) = ps \cup Pending(s) /\ Pending(s) = UNION Range(left)
      /\ left \in Seq(SUBSET Paths)
    BY <1>1, HeadAndTail, ZenonT(30) DEF Unpurged, Pending
<1>7. ASSUME NEW t \in MutatorState, SetM(m, t), acked' \in [Paths -> Nat],
             MutatorInv(m)', StorageInv',
             \A p \in Paths : acked[p] <= acked'[p],
             \A p \in Paths, v \in Nat : Fits(acked, mu, p, v) => Fits(acked', mu', p, v),
             \A p \in Paths, v \in Nat : p \notin ps /\ FitsBlock(acked, mu, p, v)
                 => FitsBlock(acked', mu', p, v)
      PROVE  Kept
    <2> HIDE DEF ps
    <2>1. Invalidates({}, ps)
        BY <1>2, <1>3, <1>5, <1>7, ZenonT(30) DEF Invalidates
    <2> QED
        BY <1>2, <1>3, <1>4, <1>7, <2>1, MutatorKeeps, Zenon
<1>8. CASE left # <<>>
    <2> DEFINE t == [s EXCEPT !.pc = "changed", !.prefixes = left, !.states = {}]
    <2>1. SetM(m, t) /\ acked' = acked
        BY <1>8, Zenon DEF Purge
    <2>2. /\ t \in MutatorState /\ t.pc = "changed" /\ t.prefixes = left /\ t.states = {}
          /\ t.isPrefix = s.isPrefix /\ t.wrote = s.wrote
        BY <1>1, <1>6, Zenon DEF MutatorState
    <2> HIDE DEF t
    <2>3. mu'[m] = t
        BY <2>1, Zenon DEF SetM, FreshInv, Typed
    <2>4. s.isPrefix
        <3> SUFFICES ASSUME ~ s.isPrefix PROVE FALSE
            OBVIOUS
        <3>1. PICK p \in Paths : s.prefixes = <<{p}>>
            BY <1>1, Zenon DEF MutatorInv
        <3>2. Tail(<<{p}>>) = <<>>
            OBVIOUS
        <3> QED
            BY <1>8, <3>1, <3>2, Zenon
    <2>5. MutatorInv(m)'
        <3>1. \A w, x \in t.wrote : w[1] = x[1] => w = x
            BY <1>1, <2>2, Zenon DEF MutatorInv
        <3> HIDE DEF left
        <3> QED
            BY <1>8, <2>2, <2>3, <2>4, <3>1, NoStates, ZenonT(30) DEF MutatorInv
    <2>6. Pending(t) = Pending(s) /\ Unpurged(t) = Pending(s)
        BY <1>6, <2>2, Zenon DEF Pending, Unpurged
    <2>7. /\ \A p \in Paths, v \in Nat : Fits(acked, mu, p, v) => Fits(acked', mu', p, v)
          /\ \A p \in Paths, v \in Nat : p \notin ps /\ FitsBlock(acked, mu, p, v)
                 => FitsBlock(acked', mu', p, v)
        <3>1. /\ \A p \in Paths, v \in Nat : Fits(acked, mu, p, v) /\ p \notin Pending(t)
                     => \A w \in t.wrote : w[1] = p => v >= w[2]
              /\ \A p \in Paths, v \in Nat :
                     p \notin ps /\ FitsBlock(acked, mu, p, v) /\ p \notin Unpurged(t)
                         => \A w \in t.wrote : w[1] = p => v >= w[2]
            BY <1>6, <2>2, <2>6, Zenon DEF Fits, FitsBlock
        <3> HIDE DEF ps
        <3> QED
            BY <2>1, <2>2, <3>1, FitsAfter, ZenonT(30)
    <2>8. StorageInv'
        <3>1. \A w \in t.wrote : w[2] <= storage'[w[1]]
            BY <1>2, <2>2, Zenon DEF FreshInv, StorageInv
        <3>2. storage' \in [Paths -> Versions] /\ \A p \in Paths : storage[p] <= storage'[p]
            BY <1>2, StorageTyped
        <3> QED
            BY <2>1, <2>2, <3>1, <3>2, StorageGrows, Zenon
    <2>9. acked' \in [Paths -> Nat] /\ \A p \in Paths : acked[p] <= acked'[p]
        BY <2>1 DEF FreshInv, Typed
    <2> HIDE DEF ps
    <2> QED
        BY <1>7, <2>1, <2>2, <2>5, <2>7, <2>8, <2>9, Zenon
<1>9. CASE left = <<>>
    <2> DEFINE n(p) == Answer(acked[p], s.wrote, p)
    <2>1. SetM(m, IdleMutator) /\ acked' = [p \in Paths |-> n(p)]
        BY <1>9, Zenon DEF Purge, Answer
    <2>2. ASSUME NEW p \in Paths
          PROVE  /\ n(p) \in Nat /\ n(p) >= acked[p] /\ acked[p] \in Nat
                 /\ n(p) = acked[p] \/ \E w \in s.wrote : w[1] = p /\ n(p) = w[2]
        <3>1. acked[p] \in Nat
            BY Zenon DEF FreshInv, Typed
        <3>2. \A w, x \in s.wrote : w[1] = x[1] => w = x
            BY <1>1, Zenon DEF MutatorInv
        <3>3. s.wrote \in SUBSET (Paths \X Nat)
            BY <1>1, Zenon
        <3> HIDE DEF s
        <3> QED
            BY <3>1, <3>2, <3>3, Answered
    <2> HIDE DEF n
    <2>3. /\ acked' \in [Paths -> Nat] /\ \A p \in Paths : acked[p] <= acked'[p]
          /\ \A p \in Paths : \/ acked'[p] = acked[p]
                              \/ \E w \in s.wrote : w[1] = p /\ acked'[p] = w[2]
        BY <2>1, <2>2, Zenon
    <2>4. IdleMutator \in MutatorState /\ IdleMutator.wrote = {}
        BY IdleMutatorTyped, Zenon
    <2>5. \A k \in Mutators : mu'[k] = IF k = m THEN IdleMutator ELSE mu[k]
        BY <2>1, Zenon DEF SetM, FreshInv, Typed
    <2>6. MutatorInv(m)'
        BY <2>5, NoStates DEF MutatorInv, IdleMutator
    <2>7. Pending(s) = {}
        BY <1>6, <1>9 DEF Range
    <2>8. ASSUME NEW p \in Paths, NEW v \in Nat, Fits(acked, mu, p, v)
          PROVE  Fits(acked', mu', p, v)
        <3>1. v >= acked'[p]
            BY <2>3, <2>7, <2>8, Zenon DEF Fits
        <3> QED
            BY <2>4, <2>5, <2>8, <3>1, Zenon DEF Fits
    <2>9. ASSUME NEW p \in Paths, NEW v \in Nat, p \notin ps, FitsBlock(acked, mu, p, v)
          PROVE  FitsBlock(acked', mu', p, v)
        <3>1. v >= acked'[p]
            BY <1>6, <2>3, <2>7, <2>9, Zenon DEF FitsBlock
        <3> QED
            BY <2>4, <2>5, <2>9, <3>1, Zenon DEF FitsBlock
    <2>10. StorageInv'
        <3>1. ASSUME NEW p \in Paths PROVE acked'[p] <= storage'[p]
            BY <1>2, <2>3, Zenon DEF FreshInv, StorageInv
        <3>2. \A k \in Mutators : \A w \in mu'[k].wrote : w[2] <= storage'[w[1]]
            BY <1>2, <2>4, <2>5, Zenon DEF FreshInv, StorageInv
        <3> QED
            BY <3>1, <3>2, Zenon DEF StorageInv
    <2> HIDE DEF ps
    <2> QED
        BY <1>7, <2>1, <2>3, <2>4, <2>6, <2>8, <2>9, <2>10, Zenon
<1> QED
    BY <1>8, <1>9, Zenon

--------------------------------------------------------------------------------
(* How a reader goes on from a step. *)

(* What is seen is fresh: the reader has seen nothing stale. *)
LEMMA SeenKeeps ==
    ASSUME NEW s \in ReaderState, NEW v \in Nat, v >= s.floor, ~ s.stale
    PROVE  LET t == Seen(s, v)
           IN  /\ t \in ReaderState /\ SameToken(s, t) /\ ~ t.stale
               /\ t.pc = s.pc /\ t.phase = s.phase /\ t.size = s.size /\ t.blk = s.blk
               /\ t.lock = s.lock /\ t.locked = s.locked
               /\ t.payload = s.payload /\ t.err = s.err
BY DEF Seen, ReaderState, SameToken

LEMMA LastBlockTyped ==
    ASSUME NEW len \in Nat
    PROVE  /\ LastBlock(len) \in Int
           /\ len # 0 => LastBlock(len) >= 0
BY BlockCacheConstants DEF LastBlock

(* A reader that goes on with the same token, and has nothing to publish,     *)
(* keeps its invariant.                                                       *)
LEMMA GoesOn ==
    ASSUME NEW s \in ReaderState, NEW t \in ReaderState, ReaderInv(s), s.pc # "idle",
           SameToken(s, t), ~ t.stale, t.phase # "op", t.pc \notin {"idle", "putsize", "put"},
           t.pc \in {"size", "stat"} => t.blk = 0,
           t.pc \in {"get", "remove", "lock", "wait", "load"} => InFile(t),
           t.pc \in {"release", "done"} /\ ~ t.err => InFile(t),
           LockInv(t)
    PROVE  ReaderInv(t)
BY DEF ReaderInv, SameToken, ReaderState

LEMMA TakeKeeps ==
    ASSUME NEW s \in ReaderState, ReaderInv(s), s.pc \in {"get", "put"},
           NEW v \in Nat, v >= s.floor
    PROVE  Take(s, v) \in ReaderState /\ ReaderInv(Take(s, v))
<1> DEFINE t == [Seen(s, v) EXCEPT !.payload = 0]
<1>1. /\ t \in ReaderState /\ SameToken(s, t) /\ ~ t.stale
      /\ t.size = s.size /\ t.blk = s.blk /\ t.locked = s.locked /\ t.lock = s.lock
    BY SeenKeeps DEF ReaderInv, ReaderState, SameToken
<1>2. s.size \in Nat /\ s.blk \in Nat /\ LastBlock(s.size) \in Int
    BY LastBlockTyped DEF ReaderState
<1>0. InFile(s) /\ (s.locked <=> s.lock # 0)
    BY DEF ReaderInv, LockInv
<1> HIDE DEF t
<1>3. CASE s.locked /\ (s.blk = LastBlock(s.size) \/ ~ s.full)
    <2> DEFINE q == Plain(t, "release")
               u == [q EXCEPT !.locked = FALSE]
    <2>1. Take(s, v) = u
        BY <1>3 DEF Take, t
    <2>2. /\ q \in ReaderState /\ SameToken(t, q) /\ q.stale = t.stale /\ q.pc = "release"
          /\ q.phase = "none" /\ q.size = t.size /\ q.blk = t.blk /\ q.lock = t.lock
        <3>1. Moved(t, q, "release", "none")
            BY <1>1, PlainMoves, StepsTyped, Zenon
        <3> HIDE DEF q
        <3> QED
            BY <1>1, <3>1, Zenon DEF Moved
    <2> HIDE DEF q
    <2>3. /\ u \in ReaderState /\ SameToken(s, u) /\ ~ u.stale /\ u.pc = "release"
          /\ u.phase = "none" /\ u.size = s.size /\ u.blk = s.blk
          /\ u.lock = s.lock /\ ~ u.locked
        BY <1>1, <2>2, Zenon DEF ReaderState, SameToken
    <2> HIDE DEF u
    <2>4. InFile(u) /\ LockInv(u)
        BY <1>0, <1>3, <2>3 DEF InFile, LockInv
    <2> QED
        BY <2>1, <2>3, <2>4, GoesOn
<1>4. CASE ~ (s.locked /\ (s.blk = LastBlock(s.size) \/ ~ s.full)) /\ s.blk = LastBlock(s.size)
    <2> DEFINE u == Plain(t, "done")
    <2>1. Take(s, v) = u
        BY <1>4, Zenon DEF Take, t
    <2>2. /\ u \in ReaderState /\ SameToken(s, u) /\ ~ u.stale /\ u.pc = "done"
          /\ u.phase = "none" /\ u.size = s.size /\ u.blk = s.blk
          /\ u.lock = s.lock /\ u.locked = s.locked
        <3>1. Moved(t, u, "done", "none")
            BY <1>1, PlainMoves, StepsTyped, Zenon
        <3> HIDE DEF u
        <3> QED
            BY <1>1, <3>1, Zenon DEF Moved, SameToken
    <2> HIDE DEF u
    <2>3. InFile(u) /\ LockInv(u)
        BY <1>0, <1>4, <2>2, Zenon DEF InFile, LockInv
    <2> QED
        BY <2>1, <2>2, <2>3, GoesOn
<1>5. CASE ~ (s.locked /\ (s.blk = LastBlock(s.size) \/ ~ s.full)) /\ s.blk # LastBlock(s.size)
    <2> DEFINE q == Guarded(t, "get")
               u == [q EXCEPT !.blk = @ + 1]
    <2>1. Take(s, v) = u
        BY <1>5, Zenon DEF Take, t
    <2>2. /\ u \in ReaderState /\ SameToken(s, u) /\ ~ u.stale /\ u.pc = "get"
          /\ u.phase = "prefix" /\ u.size = s.size /\ u.blk = s.blk + 1
          /\ u.lock = s.lock /\ u.locked = s.locked
        <3>1. Moved(t, q, "get", "prefix")
            BY <1>1, GuardedMoves, StepsTyped, Zenon
        <3> HIDE DEF q
        <3> QED
            BY <1>1, <1>2, <3>1 DEF Moved, ReaderState, SameToken
    <2> HIDE DEF u
    <2>3. InFile(u) /\ LockInv(u)
        BY <1>0, <1>2, <1>5, <2>2 DEF InFile, LockInv
    <2> QED
        BY <2>1, <2>2, <2>3, GoesOn, Zenon
<1> QED
    BY <1>3, <1>4, <1>5, Zenon

LEMMA FailKeeps ==
    ASSUME NEW s \in ReaderState, ReaderInv(s), s.pc \in {"stat", "remove", "load"}
    PROVE  Fail(s) \in ReaderState /\ ReaderInv(Fail(s))
<1>1. s.locked <=> s.lock # 0
    BY Zenon DEF ReaderInv, LockInv
<1>2. CASE s.locked
    <2> DEFINE q == Plain(s, "release")
               u == [q EXCEPT !.locked = FALSE, !.err = TRUE]
    <2>1. Fail(s) = u
        BY <1>2, Zenon DEF Fail
    <2>2. /\ q \in ReaderState /\ SameToken(s, q) /\ q.stale = s.stale /\ q.pc = "release"
          /\ q.phase = "none" /\ q.lock = s.lock
        <3>1. Moved(s, q, "release", "none")
            BY PlainMoves, StepsTyped, Zenon
        <3> HIDE DEF q
        <3> QED
            BY <3>1, Zenon DEF Moved
    <2> HIDE DEF q
    <2>3. /\ u \in ReaderState /\ SameToken(s, u) /\ u.stale = s.stale /\ u.pc = "release"
          /\ u.phase = "none" /\ u.lock = s.lock /\ ~ u.locked /\ u.err
        BY <2>2, Zenon DEF ReaderState, SameToken
    <2> HIDE DEF u
    <2>4. LockInv(u)
        BY <1>1, <1>2, <2>3, Zenon DEF LockInv
    <2> QED
        BY <2>1, <2>3, <2>4, GoesOn, Zenon DEF ReaderInv
<1>3. CASE ~ s.locked
    <2> DEFINE q == Plain(s, "done")
               u == [q EXCEPT !.err = TRUE]
    <2>1. Fail(s) = u
        BY <1>3, Zenon DEF Fail
    <2>2. /\ q \in ReaderState /\ SameToken(s, q) /\ q.stale = s.stale /\ q.pc = "done"
          /\ q.phase = "none" /\ q.lock = s.lock /\ q.locked = s.locked
        <3>1. Moved(s, q, "done", "none")
            BY PlainMoves, StepsTyped, Zenon
        <3> HIDE DEF q
        <3> QED
            BY <3>1, Zenon DEF Moved
    <2> HIDE DEF q
    <2>3. /\ u \in ReaderState /\ SameToken(s, u) /\ u.stale = s.stale /\ u.pc = "done"
          /\ u.phase = "none" /\ u.lock = s.lock /\ u.locked = s.locked /\ u.err
        BY <2>2, Zenon DEF ReaderState, SameToken
    <2> HIDE DEF u
    <2>4. LockInv(u)
        BY <1>1, <1>3, <2>3, Zenon DEF LockInv
    <2> QED
        BY <2>1, <2>3, <2>4, GoesOn, Zenon DEF ReaderInv
<1> QED
    BY <1>2, <1>3, Zenon

(* On to the load lock, or with it to the load. *)
LEMMA MissedKeeps ==
    ASSUME NEW s \in ReaderState, ReaderInv(s), s.pc \in {"get", "remove"}
    PROVE  Missed(s) \in ReaderState /\ ReaderInv(Missed(s))
<1> DEFINE pc == IF s.locked THEN "load" ELSE "lock"
           u == Plain(s, pc)
<1>1. /\ u \in ReaderState /\ SameToken(s, u) /\ u.phase = "none" /\ u.pc = pc
      /\ u.stale = s.stale /\ u.size = s.size /\ u.blk = s.blk
      /\ u.lock = s.lock /\ u.locked = s.locked
    <2>1. pc \in ReaderSteps
        BY StepsTyped, Zenon
    <2> HIDE DEF pc
    <2>2. Moved(s, u, pc, "none")
        BY <2>1, PlainMoves, Zenon
    <2> HIDE DEF u
    <2> QED
        BY <2>2, Zenon DEF Moved
<1> HIDE DEF u
<1>2. (s.locked <=> s.lock # 0) /\ InFile(s) /\ ~ s.stale
    BY DEF ReaderInv, LockInv
<1>3. InFile(u) /\ LockInv(u) /\ u.pc \in {"load", "lock"}
    BY <1>1, <1>2, Zenon DEF InFile, LockInv
<1>4. u \in ReaderState /\ ReaderInv(u)
    BY <1>1, <1>2, <1>3, GoesOn, Zenon
<1> QED
    BY <1>4, Zenon DEF Missed, u

LEMMA PublishedKeeps ==
    ASSUME NEW s \in ReaderState, ReaderInv(s), s.pc = "put"
    PROVE  Published(s) \in ReaderState /\ ReaderInv(Published(s))
<1>1. s.payload \in Nat /\ s.payload >= s.floor /\ InFile(s)
    BY DEF ReaderInv, ReaderState
<1>2. CASE s.full /\ s.blk < LastBlock(s.size)
    <2> DEFINE q == Guarded(s, "put")
               u == [q EXCEPT !.blk = @ + 1]
    <2>1. Published(s) = u
        BY <1>2, Zenon DEF Published
    <2>2. /\ u \in ReaderState /\ SameToken(s, u) /\ u.stale = s.stale /\ u.pc = "put"
          /\ u.phase = "prefix" /\ u.size = s.size /\ u.blk = s.blk + 1
          /\ u.payload = s.payload /\ u.lock = s.lock /\ u.locked = s.locked
        <3>1. Moved(s, q, "put", "prefix")
            BY GuardedMoves, StepsTyped, Zenon
        <3> HIDE DEF q
        <3> QED
            BY <3>1 DEF Moved, ReaderState, SameToken
    <2> HIDE DEF u
    <2>3. InFile(u)
        BY <1>1, <1>2, <2>2, LastBlockTyped DEF InFile, ReaderState
    <2> QED
        BY <2>1, <2>2, <2>3, Zenon DEF ReaderInv, LockInv, SameToken, ReaderState, IsCurrentToken
<1>3. CASE ~ (s.full /\ s.blk < LastBlock(s.size))
    BY <1>1, <1>3, TakeKeeps, Zenon DEF Published
<1> QED
    BY <1>2, <1>3, Zenon

--------------------------------------------------------------------------------
(* What the stores do: an entry is the one that was put, or was there before. *)

OnlyPut(K, store, k, entry, after) ==
    /\ after \in [K -> Entry]
    /\ \A x \in K : Has(after, x) => \/ Has(store, x) /\ after[x] = store[x]
                                     \/ x = k /\ after[x] = entry

LEMMA PutTyped ==
    ASSUME NEW K, NEW store \in [K -> Entry], NEW ks, NEW k \in K, NEW entry \in Entry
    PROVE  OnlyPut(K, store, k, entry, Without([store EXCEPT ![k] = entry], ks))
<1> DEFINE put == [store EXCEPT ![k] = entry]
<1>1. put \in [K -> Entry] /\ \A x \in K : put[x] = (IF x = k THEN entry ELSE store[x])
    OBVIOUS
<1> HIDE DEF put
<1>3. /\ Without(put, ks) \in [K -> Entry]
      /\ \A x \in K : Has(Without(put, ks), x) => Has(put, x) /\ Without(put, ks)[x] = put[x]
    BY <1>1, WithoutTyped
<1>4. OnlyPut(K, store, k, entry, Without(put, ks))
    BY <1>1, <1>3, Zenon DEF Has, OnlyPut
<1> QED
    BY <1>4 DEF put

LEMMA PutBlockPuts ==
    ASSUME Typed, NEW k \in Keys, NEW entry \in Entry, PutBlock(k, entry)
    PROVE  /\ blocks' \in [Keys -> Entry]
           /\ \A x \in Keys : Has(blocks', x) => \/ Has(blocks, x) /\ blocks'[x] = blocks[x]
                                                 \/ x = k /\ blocks'[x] = entry
<1>1. CASE blocks' = blocks
    BY <1>1, Zenon DEF Typed
<1>2. CASE blocks' # blocks
    <2>1. PutAndEvict(k, entry, used - blocks[k].len + entry.len)
        BY <1>2, Zenon DEF PutBlock, memory
    <2>2. PICK ks : blocks' = Without([blocks EXCEPT ![k] = entry], ks)
        BY <2>1, Zenon DEF PutAndEvict
    <2>3. blocks \in [Keys -> Entry]
        BY DEF Typed
    <2>4. OnlyPut(Keys, blocks, k, entry, blocks')
        BY <2>2, <2>3, PutTyped, Zenon
    <2> QED
        BY <2>4, Zenon DEF OnlyPut
<1> QED
    BY <1>1, <1>2, Zenon

LEMMA PutFileSizePuts ==
    ASSUME Typed, NEW p \in Paths, NEW entry \in Entry, PutFileSize(p, entry)
    PROVE  /\ sizes' \in [Paths -> Entry]
           /\ \A x \in Paths : Has(sizes', x) => \/ Has(sizes, x) /\ sizes'[x] = sizes[x]
                                                 \/ x = p /\ sizes'[x] = entry
<1>1. PICK ks : sizes' = Without([sizes EXCEPT ![p] = entry], ks)
    BY DEF PutFileSize
<1>2. sizes \in [Paths -> Entry]
    BY DEF Typed
<1>3. OnlyPut(Paths, sizes, p, entry, sizes')
    BY <1>1, <1>2, PutTyped, Zenon
<1> QED
    BY <1>3, Zenon DEF OnlyPut

--------------------------------------------------------------------------------
(* A step of a reader that leaves the files, the states of the paths and the  *)
(* mutators alone: the reader and what it has put have to fit.                *)
LEMMA ReaderKeeps ==
    ASSUME FreshInv, NEW r \in Readers, NEW t \in ReaderState, ReaderInv(t), Set(r, t),
           UNCHANGED <<storage, states, mu, acked>>,
           inFlight' \in [Keys -> Nat],
           sizes' \in [Paths -> Entry], blocks' \in [Keys -> Entry],
           \A x \in Paths : Has(sizes', x) =>
               \/ Has(sizes, x) /\ sizes'[x] = sizes[x]
               \/ /\ Fits(acked, mu, x, sizes'[x].version)
                  /\ \E v \in Versions : sizes'[x].len = Length[v],
           \A x \in Keys : Has(blocks', x) =>
               \/ Has(blocks, x) /\ blocks'[x] = blocks[x]
               \/ FitsBlock(acked, mu, x[1], blocks'[x].version)
    PROVE  FreshInv'
<1>1. /\ storage' = storage /\ pathStates' = pathStates /\ generation' = generation
      /\ mu' = mu /\ acked' = acked
    BY Zenon DEF states
<1>2. rd' \in [Readers -> ReaderState] /\ \A q \in Readers : rd'[q] = IF q = r THEN t ELSE rd[q]
    BY Zenon DEF Set, FreshInv, Typed
<1>3. Typed'
    BY <1>1, <1>2, Zenon DEF FreshInv, Typed
<1>4. StatesInv' /\ StorageInv' /\ \A m \in Mutators : MutatorInv(m)'
    BY <1>1, ZenonT(30) DEF FreshInv, StatesInv, StorageInv, MutatorInv
<1>5. ASSUME NEW p \in Paths, Has(sizes', p)
      PROVE  /\ Fits(acked', mu', p, sizes'[p].version)
             /\ \E v \in Versions : sizes'[p].len = Length[v]
    <2>1. Fits(acked, mu, p, sizes'[p].version) /\ \E v \in Versions : sizes'[p].len = Length[v]
        BY <1>5, Zenon DEF FreshInv, EntriesInv
    <2> QED
        BY <1>1, <2>1
<1>6. ASSUME NEW k \in Keys, Has(blocks', k)
      PROVE  FitsBlock(acked', mu', k[1], blocks'[k].version)
    <2>1. FitsBlock(acked, mu, k[1], blocks'[k].version)
        BY <1>6, Zenon DEF FreshInv, EntriesInv
    <2> QED
        BY <1>1, <2>1, Zenon
<1>7. EntriesInv'
    BY <1>5, <1>6, Zenon DEF EntriesInv, Has
<1>8. ASSUME NEW q \in Readers PROVE ReaderInv(rd[q])'
    <2>1. ReaderInv(rd'[q])
        BY <1>2, Zenon DEF FreshInv
    <2> QED
        BY <1>1, <2>1, Zenon DEF ReaderInv, LockInv, IsCurrentToken, InFile
<1> QED
    BY <1>3, <1>4, <1>7, <1>8, Zenon DEF FreshInv

================================================================================
