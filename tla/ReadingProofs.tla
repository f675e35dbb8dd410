----------------------------- MODULE ReadingProofs -----------------------------
(***************************************************************************)
(* Proofs about what is read, for every bound.                             *)
(*                                                                         *)
(* StreamScan: a reader that restarts, fails and falls behind misses no    *)
(* event, repeats none as long as nothing fails and is never told without  *)
(* cause that its checkpoint is outside the table.                         *)
(*                                                                         *)
(* TimeTravel: the binary searches return what they should for every       *)
(* listing of snapshots.  SearchInv, with SearchTypeOK, is the loop        *)
(* invariant of the three of them.                                         *)
(***************************************************************************)
EXTENDS StreamScan, TimeTravel, SequenceTheorems, TLAPS

--------------------------------------------------------------------------------
(* StreamScan *)

(* Where the call of plan is determines what the scan holds. *)
ScanInv ==
    /\ pc # "idle" => held = {}
    /\ pc \in {"consumer", "latest", "initial"} => next = 0
    /\ pc \in {"fetch", "delta", "earliest", "outside", "acking"} => next # 0
    /\ pc = "delta" => local = next
    /\ pc = "outside" => local <= first

(* The events before id are in s. *)
Covered(id, s) == \A i \in 1..Len(log) : i < id /\ log[i].kind = "event" => log[i].version \in s

(* Until the table is rolled back, what lies before the checkpoint, before    *)
(* the acknowledged one and in the snapshot being planned is covered.         *)
CoverInv ==
    rollbacks = 0 =>
        /\ next <= Len(log) + 1
        /\ consumer <= Len(log) + 1
        /\ pc = "initial" => local <= Len(log) /\ Covered(local + 1, reading)
        /\ pc = "delta" => /\ local <= Len(log)
                           /\ log[local].kind = "event" => log[local].version \in reading
        /\ next # 0 => Covered(next, done \cup held)
        /\ consumer > 0 => Covered(consumer, done)

(* No version is newer than the last commit. *)
Newest == Len(log) + rollbacks * MaxId

Known(s) == \A v \in s : v <= Newest

(* The snapshots from id on are not in s. *)
Apart(id, s) == \A i \in 1..Len(log) : id <= i => log[i].version \notin s

VersionInv ==
    /\ \A i, j \in 1..Len(log) : i < j => log[i].version < log[j].version
    /\ \A i \in 1..Len(log) : log[i].version <= Newest
    /\ Known(reading) /\ Known(held) /\ Known(done)

(* Until something fails, nothing from the checkpoint on was handed out. *)
RepeatInv ==
    faults = 0 =>
        /\ next = 0 => done = {} /\ held = {} /\ consumer = 0
        /\ next # 0 => Apart(next, done) /\ Apart(next, held)
        /\ pc = "initial" => Apart(local + 1, reading)
        /\ pc = "delta" => Apart(local + 1, reading) /\ reading \cap done = {}

StreamInv == TypeOK /\ ScanInv /\ CoverInv /\ VersionInv /\ RepeatInv

--------------------------------------------------------------------------------

(* What the type of the log says of its snapshots. *)
LEMMA LogTyped ==
    ASSUME TypeOK
    PROVE  /\ Len(log) \in Nat
           /\ \A i \in 1..Len(log) : log[i].version \in Nat /\ log[i].kind \in Kinds
<1>1. log \in Seq(Snapshot)
    BY DEF TypeOK
<1>2. Len(log) \in Nat /\ \A i \in 1..Len(log) : log[i] \in Snapshot
    BY <1>1, ElementOfSeq, LenProperties
<1> QED
    BY <1>2 DEF Snapshot

(* A commit appends one snapshot with a fresh version. *)
LEMMA CommitAppends ==
    ASSUME TypeOK, Commit
    PROVE  /\ log' \in Seq(Snapshot)
           /\ Len(log') = Len(log) + 1 /\ Len(log') <= MaxId
           /\ \A i \in 1..Len(log) : log'[i] = log[i]
           /\ log'[Len(log) + 1].version = Fresh
<1>1. PICK kind \in Kinds : log' = Append(log, [kind |-> kind, version |-> Fresh])
    BY DEF Commit
<1>2. Fresh \in Nat
    BY StreamConstants DEF TypeOK, Fresh
<1> QED
    BY <1>1, <1>2, StreamConstants DEF TypeOK, Commit, Snapshot

(* A rollback keeps a first part of the log. *)
LEMMA RollbackCuts ==
    ASSUME TypeOK, RollbackTable
    PROVE  /\ log' \in Seq(Snapshot)
           /\ Len(log') <= Len(log)
           /\ \A i \in 1..Len(log') : i \in 1..Len(log) /\ log'[i] = log[i]
<1>1. PICK target \in first..(Len(log) - 1) : log' = SubSeq(log, 1, target)
    BY DEF RollbackTable
<1>2. target \in Nat /\ 1 <= target /\ target <= Len(log)
    BY DEF TypeOK
<1>3. log \in Seq(Snapshot)
    BY DEF TypeOK
<1>4. /\ log' \in Seq(Snapshot) /\ Len(log') = target
      /\ \A i \in 1..target : log'[i] = log[i]
    BY <1>1, <1>2, <1>3, SubSeqProperties
<1> QED
    BY <1>2, <1>3, <1>4

(* The events of a snapshot are versions of the log. *)
LEMMA UpToTyped == TypeOK => UpTo(Len(log)) \subseteq Nat
BY LogTyped DEF UpTo

(* The call begins with the checkpoint, the consumer or the latest snapshot. *)
LEMMA PollBegins ==
    ASSUME TypeOK, Poll
    PROVE  /\ next # 0 => pc' = "fetch"
           /\ next = 0 => pc' \in {"consumer", "latest"}
<1>1. restored \in BOOLEAN /\ HasConsumer \in BOOLEAN
    BY StreamConstants DEF TypeOK
<1>2. CASE next # 0
    BY <1>2 DEF Poll
<1>3. CASE next = 0 /\ ~restored /\ HasConsumer
    BY <1>3 DEF Poll
<1>4. CASE next = 0 /\ (restored \/ ~HasConsumer)
    BY <1>4 DEF Poll
<1> QED
    BY <1>1, <1>2, <1>3, <1>4

(* The initial state is well typed. *)
LEMMA InitType == Init => TypeOK
<1> SUFFICES ASSUME Init PROVE TypeOK
    OBVIOUS
<1>1. <<>> \in Seq(Snapshot) /\ Len(<<>>) = 0
    OBVIOUS
<1>2. 0 \in 0..(PollPeriod - 1) /\ 0 \in 0..MaxRollbacks /\ 0 \in 0..MaxFaults
    BY StreamConstants
<1>3. log \in Seq(Snapshot) /\ Len(log) <= MaxId
    BY <1>1, StreamConstants DEF Init
<1>4. /\ first = 1 /\ pc = "idle" /\ next = 0 /\ restored \in BOOLEAN /\ polls = 0
      /\ local = 0 /\ reading = {} /\ held = {} /\ done = {}
      /\ consumer = 0 /\ outcome = "none" /\ rollbacks = 0 /\ faults = 0
    BY Zenon DEF Init
<1> QED
    BY <1>2, <1>3, <1>4 DEF TypeOK, Steps

(* Every step keeps the state well typed. *)
LEMMA TypeStep ==
    ASSUME TypeOK, [Next]_vars
    PROVE  TypeOK'
<1> USE StreamConstants
<1>1. CASE Commit
    BY <1>1, CommitAppends, Zenon DEF Commit, TypeOK, Steps, scan
<1>2. CASE Expire
    BY <1>2 DEF Expire, TypeOK, Steps, scan
<1>3. CASE RollbackTable
    <2>1. rollbacks' \in 0..MaxRollbacks
        BY <1>3 DEF RollbackTable, TypeOK
    <2> QED
        BY <1>3, <2>1, RollbackCuts, LogTyped DEF RollbackTable, TypeOK, scan
<1>4. CASE Poll
    <2>1. pc' \in Steps
        BY <1>4, PollBegins DEF Steps
    <2>2. restored' \in BOOLEAN
        BY <1>4 DEF Poll
    <2> QED
        BY <1>4, <2>1, <2>2, Zenon DEF Poll, TypeOK, table
<1>5. CASE ReadConsumer
    <2>1. CASE consumer = Torn
        BY <1>5, <2>1 DEF ReadConsumer, TypeOK, Steps, table, scan, Returns
    <2>2. CASE consumer # Torn
        BY <1>5, <2>2, StreamConstants DEF ReadConsumer, TypeOK, Steps, table
    <2> QED
        BY <2>1, <2>2
<1>6. CASE ReadLatest
    BY <1>6, UpToTyped, LogTyped, Zenon DEF ReadLatest, TypeOK, Steps, table, scan, Returns
<1>7. CASE PlanInitial
    BY <1>7 DEF PlanInitial, TypeOK, Steps, table, Returns
<1>8. CASE FetchFound
    <2>1. next \in 1..Len(log) /\ log[next].version \in Nat
        BY <1>8, LogTyped DEF FetchFound, Present, TypeOK
    <2>2. polls' \in 0..(PollPeriod - 1)
        BY <1>8 DEF FetchFound
    <2>3. reading' \subseteq Nat
        BY <1>8, <2>1, Zenon DEF FetchFound, TypeOK
    <2> QED
        BY <1>8, <2>1, <2>2, <2>3 DEF FetchFound, TypeOK, Steps, table
<1>9. CASE FetchMissing
    BY <1>9 DEF FetchMissing, TypeOK, Steps, table, Returns
<1>10. CASE PlanDelta
    BY <1>10 DEF PlanDelta, TypeOK, Steps, table, Returns
<1>11. CASE ReadEarliest
    BY <1>11 DEF ReadEarliest, TypeOK, Steps, table, scan
<1>12. CASE CheckOutside
    BY <1>12 DEF CheckOutside, TypeOK, Steps, table, scan, Returns
<1>13. CASE Process
    BY <1>13 DEF Process, TypeOK, Steps, table, scan
<1>14. CASE EndAck
    BY <1>14 DEF EndAck, TypeOK, Steps, table, scan
<1>15. CASE PlanFails
    BY <1>15 DEF PlanFails, TypeOK, Steps, table, scan, Returns, Fails
<1>16. CASE BeginAck
    BY <1>16 DEF BeginAck, TypeOK, Steps, Torn, table, scan
<1>17. CASE Restart
    BY <1>17 DEF Restart, TypeOK, Steps, table
<1>18. CASE UNCHANGED vars
    BY <1>18 DEF vars, TypeOK, Steps
<1> QED
    BY <1>1, <1>2, <1>3, <1>4, <1>5, <1>6, <1>7, <1>8, <1>9, <1>10, <1>11, <1>12, <1>13,
       <1>14, <1>15, <1>16, <1>17, <1>18, Zenon DEF Next, Scan

(* Every step keeps ScanInv. *)
LEMMA ScanStep ==
    ASSUME TypeOK, ScanInv, [Next]_vars
    PROVE  ScanInv'
<1> USE StreamConstants
<1>1. CASE Commit
    BY <1>1 DEF Commit, ScanInv, TypeOK, Steps, scan
<1>2. CASE Expire
    BY <1>2 DEF Expire, ScanInv, TypeOK, Steps, scan
<1>3. CASE RollbackTable
    BY <1>3 DEF RollbackTable, ScanInv, TypeOK, Steps, scan
<1>4. CASE Poll
    BY <1>4, PollBegins DEF Poll, ScanInv, TypeOK, Steps, table
<1>5. CASE ReadConsumer
    BY <1>5 DEF ReadConsumer, ScanInv, TypeOK, Steps, Torn, table, scan, Returns
<1>6. CASE ReadLatest
    BY <1>6 DEF ReadLatest, ScanInv, TypeOK, Steps, table, scan, Returns
<1>7. CASE PlanInitial
    BY <1>7 DEF PlanInitial, ScanInv, TypeOK, Steps, table, Returns
<1>8. CASE FetchFound
    BY <1>8 DEF FetchFound, ScanInv, TypeOK, Steps, table
<1>9. CASE FetchMissing
    BY <1>9 DEF FetchMissing, ScanInv, TypeOK, Steps, table, Returns
<1>10. CASE PlanDelta
    BY <1>10 DEF PlanDelta, ScanInv, TypeOK, Steps, table, Returns
<1>11. CASE ReadEarliest
    BY <1>11 DEF ReadEarliest, ScanInv, TypeOK, Steps, table, scan
<1>12. CASE CheckOutside
    BY <1>12 DEF CheckOutside, ScanInv, TypeOK, Steps, table, scan, Returns
<1>13. CASE Process
    BY <1>13 DEF Process, ScanInv, TypeOK, Steps, table, scan
<1>14. CASE EndAck
    BY <1>14 DEF EndAck, ScanInv, TypeOK, Steps, table, scan
<1>15. CASE PlanFails
    BY <1>15 DEF PlanFails, ScanInv, TypeOK, Steps, table, scan, Returns, Fails
<1>16. CASE BeginAck
    BY <1>16 DEF BeginAck, ScanInv, TypeOK, Steps, Torn, table, scan
<1>17. CASE Restart
    BY <1>17 DEF Restart, ScanInv, TypeOK, Steps, table
<1>18. CASE UNCHANGED vars
    BY <1>18 DEF vars, ScanInv, TypeOK, Steps
<1> QED
    BY <1>1, <1>2, <1>3, <1>4, <1>5, <1>6, <1>7, <1>8, <1>9, <1>10, <1>11, <1>12, <1>13,
       <1>14, <1>15, <1>16, <1>17, <1>18, Zenon DEF Next, Scan

(* Every step keeps CoverInv. *)
LEMMA CoverStep ==
    ASSUME TypeOK, ScanInv, CoverInv, [Next]_vars
    PROVE  CoverInv'
<1> USE StreamConstants
<1>1. CASE Commit
    <2>1. \A id \in Nat : \A S \in SUBSET Nat :
              id <= Len(log) + 1 /\ Covered(id, S) =>
                  \A i \in 1..Len(log') : i < id /\ log'[i].kind = "event" => log'[i].version \in S
        BY <1>1, CommitAppends, LogTyped DEF Covered
    <2>2. UNCHANGED <<pc, next, local, reading, held, done, consumer, rollbacks>>
        BY <1>1 DEF Commit, scan
    <2>3. CASE rollbacks = 0
        <3>1. next' <= Len(log') + 1 /\ consumer' <= Len(log') + 1
            BY <1>1, <2>2, <2>3, CommitAppends, LogTyped DEF CoverInv, TypeOK, Torn
        <3>2. pc' = "initial" => local' <= Len(log') /\ Covered(local + 1, reading)'
            BY <1>1, <2>1, <2>2, <2>3, CommitAppends, LogTyped DEF CoverInv, Covered, TypeOK
        <3>3. pc' = "delta" => /\ local' <= Len(log')
                               /\ log'[local'].kind = "event" => log'[local'].version \in reading'
            <4> SUFFICES ASSUME pc = "delta"
                         PROVE  /\ local <= Len(log')
                                /\ log'[local].kind = "event" => log'[local].version \in reading
                BY <2>2
            <4>1. local \in 1..Len(log)
                BY <2>3 DEF CoverInv, ScanInv, TypeOK
            <4> QED
                BY <1>1, <2>3, <4>1, CommitAppends, LogTyped DEF CoverInv
        <3>4. next' # 0 => Covered(next, done \cup held)'
            <4>1. done \cup held \in SUBSET Nat /\ next \in Nat
                BY DEF TypeOK
            <4> QED
                BY <2>1, <2>2, <2>3, <4>1, Zenon DEF CoverInv, Covered
        <3>5. consumer' > 0 => Covered(consumer, done)'
            BY <2>1, <2>2, <2>3 DEF CoverInv, Covered, TypeOK, Torn
        <3> QED
            BY <3>1, <3>2, <3>3, <3>4, <3>5, Zenon DEF CoverInv
    <2>4. CASE rollbacks # 0
        BY <2>2, <2>4, Zenon DEF CoverInv
    <2> QED
        BY <2>3, <2>4
<1>2. CASE Expire
    BY <1>2, Zenon DEF Expire, CoverInv, Covered, ScanInv, TypeOK, scan
<1>3. CASE RollbackTable
    BY <1>3 DEF RollbackTable, CoverInv, Covered, ScanInv, TypeOK, scan
<1>4. CASE Poll
    BY <1>4, PollBegins, Zenon DEF Poll, CoverInv, Covered, ScanInv, TypeOK, table
<1>5. CASE ReadConsumer
    BY <1>5 DEF ReadConsumer, CoverInv, Covered, ScanInv, TypeOK, Torn, table, scan, Returns
<1>6. CASE ReadLatest
    BY <1>6, LogTyped DEF ReadLatest, CoverInv, Covered, ScanInv, TypeOK, table, scan,
       Returns, UpTo
<1>7. CASE PlanInitial
    BY <1>7, LogTyped DEF PlanInitial, CoverInv, Covered, ScanInv, TypeOK, table, Returns
<1>8. CASE FetchFound
    BY <1>8, LogTyped DEF FetchFound, CoverInv, Covered, ScanInv, TypeOK, table, Present
<1>9. CASE FetchMissing
    BY <1>9 DEF FetchMissing, CoverInv, Covered, ScanInv, TypeOK, table, Returns
<1>10. CASE PlanDelta
    BY <1>10, LogTyped DEF PlanDelta, CoverInv, Covered, ScanInv, TypeOK, table, Returns
<1>11. CASE ReadEarliest
    BY <1>11, Zenon DEF ReadEarliest, CoverInv, Covered, ScanInv, TypeOK, table, scan
<1>12. CASE CheckOutside
    BY <1>12, Zenon DEF CheckOutside, CoverInv, Covered, ScanInv, TypeOK, table, scan, Returns
<1>13. CASE Process
    BY <1>13 DEF Process, CoverInv, Covered, ScanInv, TypeOK, table, scan
<1>14. CASE EndAck
    BY <1>14, Zenon DEF EndAck, CoverInv, Covered, ScanInv, TypeOK, table, scan
<1>15. CASE PlanFails
    BY <1>15, Zenon DEF PlanFails, CoverInv, Covered, ScanInv, TypeOK, table, scan, Returns, Fails
<1>16. CASE BeginAck
    BY <1>16 DEF BeginAck, CoverInv, Covered, ScanInv, TypeOK, Torn, table, scan
<1>17. CASE Restart
    BY <1>17 DEF Restart, CoverInv, Covered, ScanInv, TypeOK, table
<1>18. CASE UNCHANGED vars
    BY <1>18 DEF vars, CoverInv, Covered, ScanInv, TypeOK
<1> QED
    BY <1>1, <1>2, <1>3, <1>4, <1>5, <1>6, <1>7, <1>8, <1>9, <1>10, <1>11, <1>12, <1>13,
       <1>14, <1>15, <1>16, <1>17, <1>18, Zenon DEF Next, Scan

(* The newest version is a number, and a rollback does not lower it. *)
LEMMA NewestTyped ==
    ASSUME TypeOK
    PROVE  /\ rollbacks * MaxId \in Nat
           /\ Newest \in Nat /\ Newest = Len(log) + rollbacks * MaxId
           /\ (rollbacks + 1) * MaxId = rollbacks * MaxId + MaxId
<1>1. rollbacks \in Nat /\ MaxId \in Nat
    BY StreamConstants DEF TypeOK
<1>2. rollbacks * MaxId \in Nat /\ (rollbacks + 1) * MaxId = rollbacks * MaxId + MaxId
    BY <1>1
<1> QED
    BY <1>2, LogTyped DEF Newest

(* What is known remains known when the newest version does not go down. *)
LEMMA StillKnown ==
    ASSUME NEW S \in SUBSET Nat, NEW n \in Nat, Newest \in Nat, Known(S), Newest <= n
    PROVE  \A v \in S : v <= n
BY DEF Known

(* Every step keeps VersionInv. *)
LEMMA VersionStep ==
    ASSUME TypeOK, VersionInv, [Next]_vars
    PROVE  VersionInv'
<1> USE StreamConstants
<1>1. CASE Commit
    <2>1. /\ Newest \in Nat /\ Newest' = Newest + 1 /\ Fresh = Newest + 1
        BY <1>1, NewestTyped, CommitAppends, LogTyped DEF Commit, Newest, Fresh
    <2>2. reading' = reading /\ held' = held /\ done' = done
        BY <1>1, Zenon DEF Commit
    <2>3. Known(reading)' /\ Known(held)' /\ Known(done)'
        <3>1. Newest' \in Nat /\ Newest <= Newest'
            BY <2>1
        <3> QED
            BY <2>1, <2>2, <3>1, StillKnown, Zenon DEF VersionInv, Known, TypeOK
    <2>4. \A i \in 1..Len(log') : i \in 1..Len(log) \/ i = Len(log) + 1
        BY <1>1, CommitAppends, LogTyped
    <2>5. \A i \in 1..Len(log') : log'[i].version <= Newest'
        BY <1>1, <2>1, <2>4, CommitAppends, LogTyped DEF VersionInv
    <2>6. \A i, j \in 1..Len(log') : i < j => log'[i].version < log'[j].version
        <3> SUFFICES ASSUME NEW i \in 1..Len(log'), NEW j \in 1..Len(log'), i < j
                     PROVE  log'[i].version < log'[j].version
            OBVIOUS
        <3>1. i \in 1..Len(log)
            BY <1>1, CommitAppends, LogTyped
        <3>2. CASE j \in 1..Len(log)
            BY <1>1, <3>1, <3>2, CommitAppends, Zenon DEF VersionInv
        <3>3. CASE j = Len(log) + 1
            BY <1>1, <2>1, <3>1, <3>3, CommitAppends, LogTyped DEF VersionInv
        <3> QED
            BY <2>4, <3>2, <3>3
    <2> QED
        BY <2>3, <2>5, <2>6, Zenon DEF VersionInv
<1>2. CASE Expire
    BY <1>2, Zenon DEF Expire, VersionInv, Known, Newest, TypeOK, scan
<1>3. CASE RollbackTable
    <2>1. reading' = reading /\ held' = held /\ done' = done
        BY <1>3, Zenon DEF RollbackTable, scan
    <2>2. rollbacks' = rollbacks + 1 /\ Len(log) <= MaxId /\ Len(log') \in Nat
        BY <1>3, RollbackCuts, LenProperties, Zenon DEF RollbackTable, TypeOK
    <2>3. Newest \in Nat /\ Newest' \in Nat /\ Newest <= Newest'
        BY <2>2, NewestTyped, LogTyped, StreamConstants DEF Newest
    <2>4. Known(reading)' /\ Known(held)' /\ Known(done)'
        BY <2>1, <2>3, StillKnown DEF VersionInv, Known, TypeOK
    <2>5. \A i \in 1..Len(log') : log'[i].version <= Newest'
        BY <1>3, <2>3, RollbackCuts, LogTyped DEF VersionInv
    <2>6. \A i, j \in 1..Len(log') : i < j => log'[i].version < log'[j].version
        BY <1>3, RollbackCuts DEF VersionInv
    <2> QED
        BY <2>4, <2>5, <2>6 DEF VersionInv
<1>4. CASE Poll
    BY <1>4, Zenon DEF Poll, VersionInv, Known, Newest, TypeOK, table
<1>5. CASE ReadConsumer
    BY <1>5 DEF ReadConsumer, VersionInv, Known, Newest, TypeOK, table, scan, Returns
<1>6. CASE ReadLatest
    <2>1. Newest' = Newest /\ held' = held /\ done' = done /\ log' = log
        BY <1>6 DEF ReadLatest, table, Newest
    <2>2. reading' = reading \/ reading' = UpTo(Len(log))
        BY <1>6, Zenon DEF ReadLatest
    <2>3. Known(reading)'
        <3>1. \A v \in UpTo(Len(log)) : \E i \in 1..Len(log) : v = log[i].version
            BY Zenon DEF UpTo
        <3>2. \A v \in UpTo(Len(log)) : v <= Newest
            BY <3>1, Zenon DEF VersionInv
        <3> QED
            BY <2>1, <2>2, <3>2, Zenon DEF VersionInv, Known
    <2> QED
        BY <2>1, <2>3 DEF VersionInv, Known
<1>7. CASE PlanInitial
    BY <1>7, Zenon DEF PlanInitial, VersionInv, Known, Newest, TypeOK, table, Returns
<1>8. CASE FetchFound
    <2>1. Newest' = Newest /\ held' = held /\ done' = done /\ log' = log
        BY <1>8 DEF FetchFound, table, Newest
    <2>2. next \in 1..Len(log)
        BY <1>8 DEF FetchFound, Present, TypeOK
    <2>3. reading' = reading \/ reading' = {log[next].version} \/ reading' = {}
        BY <1>8 DEF FetchFound
    <2>4. Known(reading)'
        BY <2>1, <2>2, <2>3 DEF VersionInv, Known
    <2> QED
        BY <2>1, <2>4 DEF VersionInv, Known
<1>9. CASE FetchMissing
    BY <1>9 DEF FetchMissing, VersionInv, Known, Newest, TypeOK, table, Returns
<1>10. CASE PlanDelta
    BY <1>10 DEF PlanDelta, VersionInv, Known, Newest, TypeOK, table, Returns
<1>11. CASE ReadEarliest
    BY <1>11 DEF ReadEarliest, VersionInv, Known, Newest, TypeOK, table, scan
<1>12. CASE CheckOutside
    BY <1>12 DEF CheckOutside, VersionInv, Known, Newest, TypeOK, table, scan, Returns
<1>13. CASE Process
    BY <1>13, Zenon DEF Process, VersionInv, Known, Newest, TypeOK, table, scan
<1>14. CASE EndAck
    BY <1>14, Zenon DEF EndAck, VersionInv, Known, Newest, TypeOK, table, scan
<1>15. CASE PlanFails
    BY <1>15, Zenon DEF PlanFails, VersionInv, Known, Newest, TypeOK, table, scan, Returns, Fails
<1>16. CASE BeginAck
    BY <1>16, Zenon DEF BeginAck, VersionInv, Known, Newest, TypeOK, table, scan
<1>17. CASE Restart
    BY <1>17, Zenon DEF Restart, VersionInv, Known, Newest, TypeOK, table
<1>18. CASE UNCHANGED vars
    BY <1>18, Zenon DEF vars, VersionInv, Known, Newest, TypeOK
<1> QED
    BY <1>1, <1>2, <1>3, <1>4, <1>5, <1>6, <1>7, <1>8, <1>9, <1>10, <1>11, <1>12, <1>13,
       <1>14, <1>15, <1>16, <1>17, <1>18 DEF Next, Scan

(* Every step keeps RepeatInv. *)
LEMMA RepeatStep ==
    ASSUME TypeOK, ScanInv, VersionInv, RepeatInv, [Next]_vars
    PROVE  RepeatInv'
<1> USE StreamConstants
<1>1. CASE Commit
    BY <1>1, CommitAppends, LogTyped DEF Commit, RepeatInv, Apart, ScanInv, TypeOK, scan,
       Fresh, VersionInv, Known, Newest
<1>2. CASE Expire
    BY <1>2, Zenon DEF Expire, RepeatInv, Apart, ScanInv, TypeOK, scan
<1>3. CASE RollbackTable
    BY <1>3, RollbackCuts, LogTyped, Zenon
        DEF RollbackTable, RepeatInv, Apart, ScanInv, TypeOK, scan
<1>4. CASE Poll
    BY <1>4, PollBegins DEF Poll, RepeatInv, Apart, ScanInv, TypeOK, table
<1>5. CASE ReadConsumer
    BY <1>5, Zenon DEF ReadConsumer, RepeatInv, Apart, ScanInv, TypeOK, Torn, table, scan, Returns
<1>6. CASE ReadLatest
    <2>1. /\ next' = 0 /\ next = 0 /\ held' = held /\ done' = done /\ consumer' = consumer
          /\ faults' = faults /\ log' = log /\ pc' \in {"idle", "initial"}
          /\ pc' = "initial" => local' = Len(log)
        BY <1>6, Zenon DEF ReadLatest, ScanInv, table, scan, Returns
    <2>2. \A i \in 1..Len(log) : ~ (Len(log) + 1 <= i)
        BY LogTyped
    <2>3. pc' = "initial" => Apart(local + 1, reading)'
        BY <2>1, <2>2, Zenon DEF Apart
    <2> QED
        BY <2>1, <2>3, Zenon DEF RepeatInv
<1>7. CASE PlanInitial
    BY <1>7, LogTyped DEF PlanInitial, RepeatInv, Apart, ScanInv, TypeOK, table, Returns
<1>8. CASE FetchFound
    BY <1>8, LogTyped DEF FetchFound, RepeatInv, Apart, ScanInv, TypeOK, table, Present,
       VersionInv
<1>9. CASE FetchMissing
    BY <1>9 DEF FetchMissing, RepeatInv, Apart, ScanInv, TypeOK, table, Returns
<1>10. CASE PlanDelta
    BY <1>10, LogTyped DEF PlanDelta, RepeatInv, Apart, ScanInv, TypeOK, table, Returns
<1>11. CASE ReadEarliest
    BY <1>11 DEF ReadEarliest, RepeatInv, Apart, ScanInv, TypeOK, table, scan
<1>12. CASE CheckOutside
    BY <1>12, Zenon DEF CheckOutside, RepeatInv, Apart, ScanInv, TypeOK, table, scan, Returns
<1>13. CASE Process
    BY <1>13, Zenon DEF Process, RepeatInv, Apart, ScanInv, TypeOK, table, scan
<1>14. CASE EndAck
    BY <1>14, Zenon DEF EndAck, RepeatInv, Apart, ScanInv, TypeOK, table, scan
<1>15. CASE PlanFails
    BY <1>15 DEF PlanFails, RepeatInv, Apart, ScanInv, TypeOK, table, scan, Returns, Fails
<1>16. CASE BeginAck
    BY <1>16, Zenon DEF BeginAck, RepeatInv, Apart, ScanInv, TypeOK, Torn, table, scan
<1>17. CASE Restart
    BY <1>17 DEF Restart, RepeatInv, Apart, ScanInv, TypeOK, table
<1>18. CASE UNCHANGED vars
    BY <1>18 DEF vars, RepeatInv, Apart, ScanInv, TypeOK
<1> QED
    BY <1>1, <1>2, <1>3, <1>4, <1>5, <1>6, <1>7, <1>8, <1>9, <1>10, <1>11, <1>12, <1>13,
       <1>14, <1>15, <1>16, <1>17, <1>18, Zenon DEF Next, Scan

--------------------------------------------------------------------------------

(* StreamInv is an invariant of the scan. *)
LEMMA Inductive == Spec => []StreamInv
<1>1. Init => StreamInv
    <2> SUFFICES ASSUME Init PROVE StreamInv
        OBVIOUS
    <2>1. TypeOK
        BY InitType
    <2>2. Len(log) = 0
        BY DEF Init
    <2>3. /\ pc = "idle" /\ next = 0 /\ consumer = 0
          /\ reading = {} /\ held = {} /\ done = {}
        BY DEF Init
    <2> QED
        BY <2>1, <2>2, <2>3 DEF StreamInv, ScanInv, CoverInv, VersionInv, Known, RepeatInv
<1>2. StreamInv /\ [Next]_vars => StreamInv'
    BY TypeStep, ScanStep, CoverStep, VersionStep, RepeatStep DEF StreamInv
<1> QED
    BY <1>1, <1>2, PTL DEF Spec

(* The scan, its caller and the consumer file are well typed, for any length  *)
(* of the log and any poll period.                                            *)
THEOREM TypeCorrect == Spec => []TypeOK
<1>1. StreamInv => TypeOK
    BY DEF StreamInv
<1> QED
    BY <1>1, Inductive, PTL

(* StreamTableScan::plan moves its checkpoint past a snapshot only when the   *)
(* plan of it is made, and the consumer file follows what was processed: as   *)
(* long as the table is not rolled back, a restored reader misses nothing.    *)
THEOREM MissesNothing == Spec => []NothingMissed
<1>1. StreamInv => NothingMissed
    BY Zenon DEF StreamInv, CoverInv, Covered, NothingMissed, EventsBefore
<1> QED
    BY <1>1, Inductive, PTL

(* Until a call fails or the process restarts, no event is planned twice,     *)
(* also when the table is rolled back and committed to again under the scan.  *)
THEOREM RepeatsNothing == Spec => NoRepeats
<1>1. StreamInv /\ [Next]_vars
          => [faults = 0 /\ held' # held /\ held' # {} => held' \cap done = {}]_vars
    <2> SUFFICES ASSUME StreamInv, [Next]_vars, faults = 0, held' # held, held' # {}
                 PROVE  held' \cap done = {}
        BY Zenon
    <2>1. PlanInitial \/ PlanDelta
        BY Zenon DEF Next, Scan, vars, Commit, Expire, RollbackTable, Poll, ReadConsumer, ReadLatest,
               FetchFound, FetchMissing, ReadEarliest, CheckOutside, Process, EndAck,
               PlanFails, BeginAck, Restart
    <2>2. CASE PlanInitial
        BY <2>2, Zenon DEF PlanInitial, StreamInv, ScanInv, RepeatInv
    <2>3. CASE PlanDelta
        BY <2>3 DEF PlanDelta, StreamInv, ScanInv, RepeatInv
    <2> QED
        BY <2>1, <2>2, <2>3
<1> QED
    BY <1>1, Inductive, PTL DEF Spec, NoRepeats

(* plan reads the earliest and then the latest snapshot id: a checkpoint that *)
(* only waits for the next commit is never reported as outside of them.       *)
THEOREM AlarmsAreTrue == Spec => NoFalseAlarm
<1>1. StreamInv /\ [Next]_vars
          => [outcome' = "outside" /\ outcome # "outside"
                  => ~(next \in first..(Len(log) + 1))]_vars
    <2> SUFFICES ASSUME StreamInv, [Next]_vars, outcome' = "outside", outcome # "outside"
                 PROVE  ~(next \in first..(Len(log) + 1))
        OBVIOUS
    <2>1. CheckOutside
        BY Zenon DEF Next, Scan, vars, Commit, Expire, RollbackTable, Poll, ReadConsumer, ReadLatest,
               PlanInitial, FetchFound, FetchMissing, PlanDelta, ReadEarliest, Process, EndAck,
               PlanFails, BeginAck, Restart, Returns, Fails
    <2>2. IsOutside(local, Len(log)) /\ local <= first
        BY <2>1 DEF CheckOutside, Returns, StreamInv, ScanInv
    <2> QED
        BY <2>2, LogTyped DEF IsOutside, StreamInv, TypeOK
<1> QED
    BY <1>1, Inductive, PTL DEF Spec, NoFalseAlarm

--------------------------------------------------------------------------------
(* TimeTravel *)

(* The middle of a non-empty range lies in the range. *)
LEMMA MidInRange ==
    ASSUME NEW a \in Nat, NEW b \in Nat, a <= b
    PROVE  /\ a + (b - a) \div 2 \in Nat
           /\ a <= a + (b - a) \div 2
           /\ a + (b - a) \div 2 <= b
OBVIOUS

(* The initial states satisfy the invariant. *)
LEMMA InvariantInit == SearchInit => SearchTypeOK /\ SearchInv
<1> SUFFICES ASSUME SearchInit PROVE SearchTypeOK /\ SearchInv
    OBVIOUS
<1>1. count \in Nat /\ count \in 0..MaxSnapshots /\ Key \subseteq Nat /\ NoWatermark \notin Key
    BY SearchConstants DEF SearchInit, Key, NoWatermark
<1>2. key \in [0..(count - 1) -> Key \cup {NoWatermark}]
    BY Zenon DEF SearchInit
<1>3. SearchTypeOK
    BY <1>1, <1>2 DEF SearchInit, SearchTypeOK, None
<1>4. search # "watermark" => \A i \in Position : key[i] # NoWatermark
    BY <1>1, Zenon DEF SearchInit, Position
<1>5. SearchInv
    BY <1>4, Zenon DEF SearchInit, SearchInv
<1>6. QED
    BY <1>3, <1>5

(* A step stays inside the listing. *)
LEMMA InvariantTyped == SearchTypeOK /\ SearchInv /\ [SearchNext]_searchVars => SearchTypeOK'
<1> SUFFICES ASSUME SearchTypeOK, SearchInv, [SearchNext]_searchVars PROVE SearchTypeOK'
    OBVIOUS
<1>1. /\ count \in Nat /\ lo \in Nat /\ hi \in Nat
      /\ lo <= count /\ hi <= count /\ count <= MaxSnapshots
    BY SearchConstants DEF SearchTypeOK
<1>2. ASSUME stage = "loop", lo <= hi
      PROVE  Mid \in Nat /\ lo <= Mid /\ Mid <= hi /\ Mid < count
    <2>1. hi < count
        BY <1>2, Zenon DEF SearchInv
    <2>2. QED
        BY <1>1, <1>2, <2>1, MidInRange DEF Mid
<1>3. CASE StartByTime
    BY <1>1, <1>3 DEF StartByTime, Done, Input, SearchTypeOK, None
<1>4. CASE LeaveLoop
    BY <1>4, Zenon DEF LeaveLoop, Done, Input, SearchTypeOK
<1>5. CASE LaterStep
    BY <1>1, <1>2, <1>5 DEF LaterStep, Done, Input, SearchTypeOK
<1>6. CASE EarlierStep
    BY <1>1, <1>2, <1>6 DEF EarlierStep, Done, Input, SearchTypeOK
<1>7. CASE StartByWatermark
    BY <1>1, <1>7 DEF StartByWatermark, Done, Input, SearchTypeOK
<1>8. CASE FirstWatermark
    BY <1>1, <1>8 DEF FirstWatermark, Done, Input, SearchTypeOK, SearchInv
<1>9. CASE WatermarkStep
    BY <1>1, <1>2, <1>9 DEF WatermarkStep, Done, Input, SearchTypeOK
<1>10. CASE UNCHANGED searchVars
    BY <1>10, Zenon DEF searchVars, SearchTypeOK
<1>11. QED
    BY <1>3, <1>4, <1>5, <1>6, <1>7, <1>8, <1>9, <1>10, Zenon DEF SearchNext

(* The invariant is inductive, one case per branch of the three loops. *)
LEMMA InvariantStep == SearchTypeOK /\ SearchInv /\ [SearchNext]_searchVars => SearchInv'
<1> SUFFICES ASSUME SearchTypeOK, SearchInv, [SearchNext]_searchVars PROVE SearchInv'
    OBVIOUS
<1> USE DEF Position
<1>1. count \in Nat /\ lo \in Nat /\ hi \in Nat /\ lo <= count /\ hi <= count /\ want \in Nat
    BY SearchConstants DEF SearchTypeOK, Key
<1>2. \A i \in Position : key[i] \in Int
    BY SearchConstants DEF SearchTypeOK, Key, NoWatermark
<1>3. ASSUME stage = "loop", lo <= hi
      PROVE  Mid \in Nat /\ lo <= Mid /\ Mid <= hi /\ Mid \in Position
    <2>1. hi < count
        BY <1>3, Zenon DEF SearchInv
    <2>2. QED
        BY <1>1, <1>3, <2>1, MidInRange DEF Mid
<1>4. ASSUME search # "watermark"
      PROVE  \A i, j \in Position : i <= j => key[i] <= key[j]
    BY <1>4, Zenon DEF SearchInv, Ordered
<1>5. ASSUME UNCHANGED Input, stage' \in {"loop", "done"},
             stage' = "loop" => hi' < count,
             stage' = "loop" /\ search \in {"later", "watermark"} => LaterLoop',
             stage' = "loop" /\ search = "later" => key[count - 1] >= want,
             stage' = "loop" /\ search = "earlier" => EarlierLoop' /\ key[0] <= want,
             stage' = "done" => LaterFindsTime' /\ EarlierFindsTime' /\ WatermarkFindsFirst'
      PROVE  SearchInv'
    BY <1>5, Zenon DEF SearchInv, Input, Ordered
<1>6. CASE StartByTime
    <2>1. CASE stage' = "loop"
        <3>1. /\ count > 0 /\ lo' = 0 /\ hi' = count - 1 /\ found' = None /\ UNCHANGED Input
              /\ search \in {"later", "earlier"}
              /\ search = "later" => ~(key[count - 1] < want)
              /\ search = "earlier" => ~(key[0] > want)
            BY <1>1, <1>6, <2>1 DEF StartByTime, Done, SearchInv
        <3>2. key[count - 1] \in Int /\ key[0] \in Int
            BY <1>1, <1>2, <3>1
        <3>3. LaterLoop' /\ EarlierLoop'
            BY <1>1, <3>1 DEF LaterLoop, EarlierLoop, Input
        <3>4. QED
            BY <1>1, <1>5, <2>1, <3>1, <3>2, <3>3
    <2>2. CASE stage' = "done"
        <3>1. found' = None /\ UNCHANGED Input /\ search # "watermark"
            BY <1>6, <2>2, Zenon DEF StartByTime, Done
        <3>2. search = "later" => \A i \in Position : key[i] < want
            BY <1>1, <1>2, <1>4, <1>6, <2>2, <3>1 DEF StartByTime
        <3>3. search = "earlier" => \A i \in Position : key[i] > want
            BY <1>1, <1>2, <1>4, <1>6, <2>2, <3>1 DEF StartByTime
        <3>4. LaterFindsTime' /\ EarlierFindsTime' /\ WatermarkFindsFirst'
            BY <3>1, <3>2, <3>3, Zenon DEF LaterFindsTime, EarlierFindsTime, WatermarkFindsFirst, Input
        <3>5. QED
            BY <1>5, <2>2, <3>1, <3>4, Zenon
    <2>3. QED
        BY <1>6, <2>1, <2>2, Zenon DEF StartByTime, Done
<1>7. CASE LeaveLoop
    <2>1. /\ stage = "loop" /\ lo > hi /\ found' = found /\ stage' = "done" /\ UNCHANGED Input
          /\ hi < count
        BY <1>7, Zenon DEF LeaveLoop, Done, SearchInv
    <2>2. CASE search = "later"
        <3>1. LaterLoop /\ key[count - 1] >= want
            BY <2>1, <2>2, Zenon DEF SearchInv
        <3>2. \A i \in Position : key[i] # NoWatermark
            BY <2>2, Zenon DEF SearchInv
        <3>3. found # None
            BY <1>1, <1>2, <2>1, <3>1, <3>2 DEF LaterLoop, TooEarly
        <3>4. found = hi + 1 /\ found \in Position /\ ~TooEarly(found)
            BY <2>1, <3>1, <3>3, Zenon DEF LaterLoop, SearchTypeOK
        <3>5. key[found] >= want
            BY <1>1, <1>2, <3>4 DEF TooEarly
        <3>6. \A i \in Position : key[i] >= want => found <= i
            BY <1>1, <1>2, <2>1, <3>1, <3>2, <3>4 DEF LaterLoop, TooEarly
        <3>7. \A i \in Position : key[i] >= want => key[i] >= key[found]
            BY <1>2, <1>4, <2>2, <3>4, <3>6, Zenon
        <3>8. LaterFindsTime' /\ EarlierFindsTime' /\ WatermarkFindsFirst'
            BY <2>1, <2>2, <3>3, <3>5, <3>7, Zenon
            DEF LaterFindsTime, EarlierFindsTime, WatermarkFindsFirst, Input
        <3>9. QED
            BY <1>5, <2>1, <3>8, Zenon
    <2>3. CASE search = "earlier"
        <3>1. EarlierLoop /\ key[0] <= want
            BY <2>1, <2>3, Zenon DEF SearchInv
        <3>2. found # None
            BY <1>1, <2>1, <3>1 DEF EarlierLoop
        <3>3. found = lo - 1 /\ found \in Position /\ key[found] < want
            BY <2>1, <3>1, <3>2, Zenon DEF EarlierLoop, SearchTypeOK
        <3>4. \A i \in Position : key[i] <= want => i <= found
            BY <1>1, <1>2, <2>1, <3>1, <3>3 DEF EarlierLoop
        <3>5. \A i \in Position : key[i] <= want => key[i] <= key[found]
            BY <1>2, <1>4, <2>3, <3>3, <3>4, Zenon
        <3>6. key[found] <= want
            BY <1>1, <1>2, <3>3
        <3>7. LaterFindsTime' /\ EarlierFindsTime' /\ WatermarkFindsFirst'
            BY <2>1, <2>3, <3>2, <3>5, <3>6, Zenon
            DEF LaterFindsTime, EarlierFindsTime, WatermarkFindsFirst, Input
        <3>8. QED
            BY <1>5, <2>1, <3>7
    <2>4. CASE search = "watermark"
        <3>1. LaterLoop
            BY <2>1, <2>4, Zenon DEF SearchInv
        <3>2. ASSUME NEW i \in Position, key[i] # NoWatermark, key[i] >= want
              PROVE  i > hi
            BY <1>1, <1>2, <2>1, <3>1, <3>2 DEF LaterLoop, TooEarly
        <3>3. found = None => \A i \in Position : ~(key[i] # NoWatermark /\ key[i] >= want)
            BY <1>1, <3>1, <3>2 DEF LaterLoop
        <3>4. ASSUME found # None
              PROVE  /\ found \in Position /\ key[found] # NoWatermark /\ key[found] >= want
                     /\ \A i \in Position : key[i] # NoWatermark /\ key[i] >= want => found <= i
            <4>1. found = hi + 1 /\ ~TooEarly(found) /\ found \in Position
                BY <3>1, <3>4, Zenon DEF LaterLoop, SearchTypeOK
            <4>2. QED
                BY <1>1, <1>2, <3>2, <4>1 DEF TooEarly
        <3>5. LaterFindsTime' /\ EarlierFindsTime' /\ WatermarkFindsFirst'
            BY <2>1, <2>4, <3>3, <3>4, Zenon
            DEF LaterFindsTime, EarlierFindsTime, WatermarkFindsFirst, Input
        <3>6. QED
            BY <1>5, <2>1, <3>5
    <2>5. QED
        BY <2>2, <2>3, <2>4, Zenon DEF SearchTypeOK, Searches
<1>8. CASE LaterStep
    <2>1. /\ stage = "loop" /\ search = "later" /\ lo <= hi /\ UNCHANGED Input /\ hi < count
          /\ LaterLoop /\ key[count - 1] >= want
          /\ Mid \in Nat /\ lo <= Mid /\ Mid <= hi /\ Mid \in Position
        BY <1>3, <1>8, Zenon DEF LaterStep, SearchInv
    <2>2. \A i, j \in Position : i <= j => key[i] <= key[j]
        BY <1>4, <2>1, Zenon
    <2>3. CASE key[Mid] < want /\ lo' = Mid + 1 /\ UNCHANGED <<hi, found, stage>>
        <3>1. \A i \in Position : i < Mid + 1 => TooEarly(i)
            BY <1>1, <1>2, <2>1, <2>2, <2>3 DEF TooEarly
        <3>2. LaterLoop'
            BY <2>1, <2>3, <3>1, Zenon DEF LaterLoop, TooEarly, Input
        <3>3. QED
            BY <1>5, <2>1, <2>3, <3>2, Zenon
    <2>4. CASE key[Mid] > want /\ Mid # 0 /\ hi' = Mid - 1 /\ found' = Mid /\ UNCHANGED <<lo, stage>>
        <3>1. ~TooEarly(Mid)
            BY <1>1, <1>2, <2>1, <2>4 DEF TooEarly, SearchInv
        <3>2. Mid # None
            BY <2>1 DEF None
        <3>3. LaterLoop'
            BY <1>1, <2>1, <2>4, <3>1, <3>2 DEF LaterLoop, TooEarly, Input
        <3>4. QED
            BY <1>1, <1>5, <2>1, <2>4, <3>3
    <2>5. CASE Done(Mid) /\ key[Mid] >= want /\ (Mid = 0 \/ key[Mid] = want)
        <3>1. \A i \in Position : key[i] >= want => key[i] >= key[Mid]
            BY <1>1, <1>2, <2>1, <2>2, <2>5
        <3>2. Mid # None
            BY <2>1 DEF None
        <3>3. LaterFindsTime' /\ EarlierFindsTime' /\ WatermarkFindsFirst'
            BY <2>1, <2>5, <3>1, <3>2, Zenon
            DEF Done, LaterFindsTime, EarlierFindsTime, WatermarkFindsFirst, Input
        <3>4. QED
            BY <1>5, <2>1, <2>5, <3>3, Zenon DEF Done
    <2>6. QED
        BY <1>1, <1>2, <1>8, <2>1, <2>3, <2>4, <2>5 DEF LaterStep
<1>9. CASE EarlierStep
    <2>1. /\ stage = "loop" /\ search = "earlier" /\ lo <= hi /\ UNCHANGED Input /\ hi < count
          /\ EarlierLoop /\ key[0] <= want
          /\ Mid \in Nat /\ lo <= Mid /\ Mid <= hi /\ Mid \in Position
        BY <1>3, <1>9, Zenon DEF EarlierStep, SearchInv
    <2>2. \A i, j \in Position : i <= j => key[i] <= key[j]
        BY <1>4, <2>1, Zenon
    <2>3. CASE key[Mid] > want /\ Mid # 0 /\ hi' = Mid - 1 /\ UNCHANGED <<lo, found, stage>>
        <3>1. \A i \in Position : i > Mid - 1 => key[i] > want
            BY <1>1, <1>2, <2>1, <2>2, <2>3
        <3>2. EarlierLoop'
            BY <2>1, <2>3, <3>1, Zenon DEF EarlierLoop, Input
        <3>3. QED
            BY <1>1, <1>5, <2>1, <2>3, <3>2
    <2>4. CASE key[Mid] < want /\ lo' = Mid + 1 /\ found' = Mid /\ UNCHANGED <<hi, stage>>
        <3>1. Mid # None
            BY <2>1 DEF None
        <3>2. EarlierLoop'
            BY <1>1, <2>1, <2>4, <3>1 DEF EarlierLoop, Input
        <3>3. QED
            BY <1>5, <2>1, <2>4, <3>2, Zenon
    <2>5. CASE Done(Mid) /\ key[Mid] = want
        <3>1. \A i \in Position : key[i] <= want => key[i] <= key[Mid]
            BY <2>5, Zenon
        <3>2. Mid # None /\ key[Mid] <= want
            BY <1>1, <2>1, <2>5 DEF None
        <3>3. LaterFindsTime' /\ EarlierFindsTime' /\ WatermarkFindsFirst'
            BY <2>1, <2>5, <3>1, <3>2, Zenon
            DEF Done, LaterFindsTime, EarlierFindsTime, WatermarkFindsFirst, Input
        <3>4. QED
            BY <1>5, <2>1, <2>5, <3>3, Zenon DEF Done
    <2>6. ~(Mid = 0 /\ key[Mid] > want)
        BY <1>1, <1>2, <2>1
    <2>7. QED
        BY <1>9, <2>3, <2>4, <2>5, <2>6, Zenon DEF EarlierStep
<1>10. CASE StartByWatermark
    <2>1. CASE count = 0
        <3>1. found' = None /\ stage' = "done" /\ UNCHANGED Input /\ search = "watermark"
            BY <1>10, <2>1, Zenon DEF StartByWatermark, Done
        <3>2. LaterFindsTime' /\ EarlierFindsTime' /\ WatermarkFindsFirst'
            BY <2>1, <3>1 DEF LaterFindsTime, EarlierFindsTime, WatermarkFindsFirst, Input
        <3>3. QED
            BY <1>5, <3>1, <3>2, Zenon
    <2>2. CASE count # 0
        BY <1>1, <1>10, <2>2 DEF StartByWatermark, SearchInv, Input, Ordered
    <2>3. QED
        BY <2>1, <2>2, Zenon
<1>11. CASE FirstWatermark
    <2>1. /\ stage = "first" /\ found = None /\ count > 0 /\ UNCHANGED Input /\ search = "watermark"
          /\ \A i \in Position : i < lo => TooEarly(i)
        BY <1>11, Zenon DEF FirstWatermark, SearchInv
    <2>2. CASE lo >= count
        <3>1. Done(None)
            BY <1>11, <2>2, Zenon DEF FirstWatermark
        <3>2. \A i \in Position : ~(key[i] # NoWatermark /\ key[i] >= want)
            BY <1>1, <1>2, <2>1, <2>2 DEF TooEarly
        <3>3. LaterFindsTime' /\ EarlierFindsTime' /\ WatermarkFindsFirst'
            BY <2>1, <3>1, <3>2, Zenon
            DEF Done, LaterFindsTime, EarlierFindsTime, WatermarkFindsFirst, Input
        <3>4. QED
            BY <1>5, <2>1, <3>1, <3>3, Zenon DEF Done
    <2>3. CASE lo < count /\ key[lo] = NoWatermark
        <3>1. lo' = lo + 1 /\ UNCHANGED <<hi, found, stage>>
            BY <1>1, <1>11, <2>3 DEF FirstWatermark
        <3>2. \A i \in Position : i < lo + 1 => TooEarly(i)
            BY <1>1, <2>1, <2>3 DEF TooEarly
        <3>3. QED
            BY <2>1, <3>1, <3>2, Zenon DEF SearchInv, Input, Ordered, TooEarly
    <2>4. CASE lo < count /\ key[lo] # NoWatermark /\ key[lo] >= want
        <3>1. Done(lo) /\ lo \in Position /\ lo # None
            BY <1>1, <1>11, <2>4 DEF FirstWatermark, None
        <3>2. \A i \in Position : key[i] # NoWatermark /\ key[i] >= want => lo <= i
            BY <1>1, <1>2, <2>1 DEF TooEarly
        <3>3. LaterFindsTime' /\ EarlierFindsTime' /\ WatermarkFindsFirst'
            BY <2>1, <2>4, <3>1, <3>2, Zenon
            DEF Done, LaterFindsTime, EarlierFindsTime, WatermarkFindsFirst, Input
        <3>4. QED
            BY <1>5, <2>1, <3>1, <3>3, Zenon DEF Done
    <2>5. CASE lo < count /\ key[lo] # NoWatermark /\ ~(key[lo] >= want)
        <3>1. hi' = count - 1 /\ stage' = "loop" /\ UNCHANGED <<lo, found>>
            BY <1>1, <1>11, <2>5 DEF FirstWatermark
        <3>2. LaterLoop'
            BY <2>1, <3>1, Zenon DEF LaterLoop, TooEarly, Input
        <3>3. QED
            BY <1>1, <1>5, <2>1, <3>1, <3>2
    <2>6. QED
        BY <1>1, <2>2, <2>3, <2>4, <2>5
<1>12. CASE WatermarkStep
    <2>1. /\ stage = "loop" /\ search = "watermark" /\ lo <= hi /\ UNCHANGED Input /\ hi < count
          /\ LaterLoop
          /\ Mid \in Nat /\ lo <= Mid /\ Mid <= hi /\ Mid \in Position
        BY <1>3, <1>12, Zenon DEF WatermarkStep, SearchInv
    <2>2. PICK p \in 0..(count - 1) :
            /\ Nearest(p)
            /\ \/ /\ key[p] = NoWatermark \/ key[p] < want
                  /\ lo' = Mid + 1
                  /\ UNCHANGED <<hi, found, stage>>
               \/ /\ key[p] # NoWatermark
                  /\ key[p] >= want
                  /\ IF p = 0
                     THEN Done(p)
                     ELSE hi' = p - 1 /\ found' = p /\ UNCHANGED <<lo, stage>>
        BY <1>12, Zenon DEF WatermarkStep
    <2>3. /\ p \in lo..Mid /\ p \in Position /\ p # None
          /\ key[p] # NoWatermark \/ p = lo
          /\ \A i \in (p + 1)..Mid : key[i] = NoWatermark
        BY <2>2 DEF Nearest, None
    <2>4. CASE TooEarly(p) /\ lo' = Mid + 1 /\ UNCHANGED <<hi, found, stage>>
        <3>1. ASSUME NEW i \in Position, i < Mid + 1 PROVE TooEarly(i)
            <4>1. CASE i < lo
                BY <2>1, <4>1, Zenon DEF LaterLoop
            <4>2. CASE i > p
                BY <2>1, <2>3, <3>1, <4>2 DEF TooEarly
            <4>3. CASE lo <= i /\ i <= p
                <5>1. CASE key[i] = NoWatermark
                    BY <5>1, Zenon DEF TooEarly
                <5>2. CASE key[i] # NoWatermark
                    <6>1. key[p] # NoWatermark
                        BY <1>1, <2>3, <4>3, <5>2
                    <6>2. key[i] <= key[p]
                        BY <2>3, <4>3, <5>2, <6>1, Zenon DEF SearchInv, Ordered
                    <6>3. QED
                        BY <1>1, <1>2, <2>3, <2>4, <6>1, <6>2 DEF TooEarly
                <5>3. QED
                    BY <5>1, <5>2, Zenon
            <4>4. QED
                BY <1>1, <2>3, <4>1, <4>2, <4>3
        <3>2. LaterLoop'
            BY <2>1, <2>4, <3>1, Zenon DEF LaterLoop, TooEarly, Input
        <3>3. QED
            BY <1>5, <2>1, <2>4, <3>2, Zenon
    <2>5. CASE ~TooEarly(p) /\ p # 0 /\ hi' = p - 1 /\ found' = p /\ UNCHANGED <<lo, stage>>
        <3>1. LaterLoop'
            BY <1>1, <2>1, <2>3, <2>5 DEF LaterLoop, TooEarly, Input
        <3>2. QED
            BY <1>1, <1>5, <2>1, <2>3, <2>5, <3>1
    <2>6. CASE ~TooEarly(p) /\ p = 0 /\ Done(p)
        <3>1. key[p] # NoWatermark /\ key[p] >= want
            BY <1>1, <1>2, <2>3, <2>6 DEF TooEarly
        <3>2. LaterFindsTime' /\ EarlierFindsTime' /\ WatermarkFindsFirst'
            BY <1>1, <2>1, <2>3, <2>6, <3>1
            DEF Done, LaterFindsTime, EarlierFindsTime, WatermarkFindsFirst, Input
        <3>3. QED
            BY <1>5, <2>1, <2>6, <3>2, Zenon DEF Done
    <2>7. QED
        BY <1>1, <1>2, <2>2, <2>3, <2>4, <2>5, <2>6 DEF TooEarly
<1>13. CASE UNCHANGED searchVars
    BY <1>13, Zenon
    DEF searchVars, SearchInv, Ordered, TooEarly, LaterLoop, EarlierLoop, LaterFindsTime,
        EarlierFindsTime, WatermarkFindsFirst
<1>14. QED
    BY <1>6, <1>7, <1>8, <1>9, <1>10, <1>11, <1>12, <1>13, Zenon DEF SearchNext

(* In every reachable state the invariant of the searches holds. *)
THEOREM SearchInvariant == SearchSpec => [](SearchTypeOK /\ SearchInv)
<1>1. QED
    BY InvariantInit, InvariantTyped, InvariantStep, PTL DEF SearchSpec

(* later_or_equal_time_millis and earlier_or_equal_time_millis are right for  *)
(* every listing and every time.                                              *)
THEOREM TimesCorrect == SearchSpec => []TimeIsFound
<1>1. SearchInv => TimeIsFound
    BY Zenon DEF SearchInv, TimeIsFound, LaterFindsTime, EarlierFindsTime
<1>2. QED
    BY <1>1, SearchInvariant, PTL

(* later_or_equal_watermark finds the first snapshot for every listing. *)
THEOREM WatermarkCorrect == SearchSpec => []WatermarkFindsFirst
<1>1. SearchInv => WatermarkFindsFirst
    BY DEF SearchInv, WatermarkFindsFirst
<1>2. QED
    BY <1>1, SearchInvariant, PTL

(* No search reads outside the listing or takes a position below zero. *)
THEOREM SearchInBounds == SearchSpec => []InBounds
<1>1. SearchTypeOK /\ SearchInv => InBounds
    <2>1. SUFFICES ASSUME SearchTypeOK, SearchInv, stage = "loop", lo <= hi
                   PROVE Mid \in 0..(count - 1)
        BY Zenon DEF InBounds, Position
    <2>2. count \in Nat /\ lo \in Nat /\ hi \in Nat /\ hi < count
        BY <2>1, SearchConstants DEF SearchTypeOK, SearchInv
    <2>3. QED
        BY <2>1, <2>2 DEF Mid
<1>2. QED
    BY <1>1, SearchInvariant, PTL

================================================================================
