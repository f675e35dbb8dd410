------------------------- MODULE SnapshotManagerProofs -------------------------
(***************************************************************************)
(* What SnapshotManager promises, for any number of writers, ids and       *)
(* faults: the snapshot ids have no gap, the hint always names a snapshot  *)
(* that exists, and so a lookup that tests only the id after the hint      *)
(* finds the newest snapshot.                                              *)
(***************************************************************************)
EXTENDS SnapshotManager, FiniteSetTheorems, TLAPS

(* The live ids are an interval; in an empty table it is an empty one. *)
LiveInterval == \E a \in Nat \ {0}, b \in Nat : Live = a..b

(* The id i may be published: it follows a live one, or the table is, or was, *)
(* without snapshots.                                                         *)
Publishable(i) == i - 1 \in Live \/ (i = 1 /\ (Live = {} \/ 1 \in Live))

(* What a writer knows at each of its storage calls.  It holds while others   *)
(* go on publishing, as no snapshot is ever taken away here.                  *)
WriterInv(w) ==
    /\ job[w].floor # 0 => job[w].floor \in Live
    /\ pc[w] = "next" => job[w].hint \in Live
    /\ pc[w] = "get" => job[w].id \in Live /\ job[w].id >= job[w].floor
    /\ pc[w] = "check" => Publishable(job[w].id + 1)
    /\ pc[w] \in {"rename", "recheck", "direct"} =>
           job[w].id \in Ids /\ job[w].version # 0 /\ Publishable(job[w].id)
    /\ pc[w] \in {"hint", "hinting"} => job[w].id \in Live

DirectoryInv ==
    /\ LiveInterval
    /\ hint # 0 => hint \in Live
    /\ \A w \in Writers : WriterInv(w)

--------------------------------------------------------------------------------
(* Type correctness *)

(* Naturals are well-founded: a set of them has a least element, and one that *)
(* is bounded has a greatest.                                                 *)
LEMMA HasLeast ==
    ASSUME NEW T \in SUBSET Nat, T # {}
    PROVE  \E x \in T : \A y \in T : x <= y
<1>1. PICK x \in T : \A y \in T : ~ (<<y, x>> \in OpToRel(<, Nat))
    BY NatLessThanWellFounded, WFMin, Zenon
<1>2. \A y \in T : ~ (y < x)
    BY <1>1, Zenon DEF OpToRel
<1>3. QED
    BY <1>2

LEMMA MaxOfIds ==
    ASSUME NEW S \in SUBSET Ids, S # {}
    PROVE  Max(S) \in S /\ \A y \in S : Max(S) >= y
<1> DEFINE T == {MaxId - x : x \in S}
<1>1. \A x \in S : x \in Nat /\ MaxId - x \in Nat
    BY SnapshotConstants DEF Ids
<1>2. T \in SUBSET Nat /\ T # {}
    BY <1>1
<1>3. PICK t \in T : \A u \in T : t <= u
    BY <1>2, HasLeast, Zenon
<1>4. PICK x \in S : t = MaxId - x
    OBVIOUS
<1>5. \A y \in S : MaxId - x <= MaxId - y
    BY <1>3, <1>4
<1>6. \A y \in S : x >= y
    BY <1>1, <1>5, SnapshotConstants
<1>7. QED
    BY <1>6 DEF Max

LEMMA MaxOfInterval ==
    ASSUME NEW a \in Nat, NEW b \in Nat, a <= b
    PROVE  Max(a..b) = b
BY DEF Max

(* Latest is the upper end of the interval, and 0 in an empty table. *)
LEMMA LatestIsLast ==
    ASSUME NEW a \in Nat \ {0}, NEW b \in Nat, Live = a..b
    PROVE  Latest = IF a <= b THEN b ELSE 0
<1>1. CASE a <= b
    <2>1. Live # {} /\ Max(Live) = b
        BY <1>1, MaxOfInterval
    <2>2. QED
        BY <1>1, <2>1 DEF Latest
<1>2. CASE ~(a <= b)
    <2>1. Live = {}
        BY <1>2
    <2>2. QED
        BY <1>2, <2>1 DEF Latest
<1>3. QED
    BY <1>1, <1>2

LEMMA LatestTyped ==
    /\ Latest \in 0..MaxId /\ (Latest # 0 => Latest \in Live) /\ (Latest = 0 => Live = {})
    /\ \A i \in Live : i <= Latest
<1>1. Live \in SUBSET Ids
    BY DEF Live
<1>2. CASE Live = {}
    BY <1>2, SnapshotConstants DEF Latest
<1>3. CASE Live # {}
    <2>1. Latest \in Live /\ \A i \in Live : Latest >= i
        BY <1>1, <1>3, MaxOfIds DEF Latest
    <2>2. QED
        BY <1>1, <1>3, <2>1, SnapshotConstants DEF Ids
<1>4. QED
    BY <1>2, <1>3

(* What ReadHint and CheckTarget do to a job. *)
LEMMA JobUpdates ==
    ASSUME NEW j \in Job
    PROVE  /\ \A h, f \in 0..MaxId :
                 /\ [j EXCEPT !.hint = h, !.floor = f] \in Job
                 /\ [j EXCEPT !.hint = h, !.floor = f].hint = h
                 /\ [j EXCEPT !.hint = h, !.floor = f].floor = f
           /\ \A i \in 0..MaxId, v \in Version :
                 /\ [j EXCEPT !.id = i, !.version = v] \in Job
                 /\ [j EXCEPT !.id = i, !.version = v].floor = j.floor
                 /\ [j EXCEPT !.id = i, !.version = v].id = i
                 /\ [j EXCEPT !.id = i, !.version = v].version = v
BY Zenon DEF Job

LEMMA InitTyped == Init => TypeOK
BY SnapshotConstants DEF Init, TypeOK, Ids, Version, Steps, Job, NoJob

LEMMA StepTyped ==
    ASSUME TypeOK, [Next]_vars
    PROVE  TypeOK'
<1> USE SnapshotConstants DEF TypeOK, Goto, Return
<1>1. NoJob \in Job
    BY DEF NoJob, Job, Version
<1>2. \A w \in Writers, s \in Steps : [pc EXCEPT ![w] = s] \in [Writers -> Steps]
    OBVIOUS
<1>3. \A w \in Writers, j \in Job : [job EXCEPT ![w] = j] \in [Writers -> Job]
    OBVIOUS
<1>4. \A w \in Writers : job[w] \in Job
    OBVIOUS
<1>5. Latest \in 0..MaxId
    BY LatestTyped
<1>6. ASSUME NEW w \in Writers, Step(w)
      PROVE  TypeOK'
    <2>1. CASE ReadHint(w)
        <3>1. [NoJob EXCEPT !.hint = hint, !.floor = Latest] \in Job
            BY <1>1, <1>5, JobUpdates, Zenon
        <3>2. job' \in [Writers -> Job]
            BY <1>3, <2>1, <3>1 DEF ReadHint
        <3>3. (IF hint > 0 THEN "next" ELSE "list") \in Steps
            BY DEF Steps
        <3>4. pc' \in [Writers -> Steps]
            BY <1>2, <2>1, <3>3 DEF ReadHint
        <3>5. QED
            BY <2>1, <3>2, <3>4 DEF ReadHint
    <2>2. CASE CheckNext(w)
        <3>1. [job[w] EXCEPT !.id = job[w].hint] \in Job
            BY <1>4 DEF Job
        <3>2. [job EXCEPT ![w].id = job[w].hint] = [job EXCEPT ![w] = [job[w] EXCEPT !.id = job[w].hint]]
            OBVIOUS
        <3>3. QED
            BY <1>2, <1>3, <2>2, <3>1, <3>2 DEF CheckNext, Steps
    <2>3. CASE ListFiles(w)
        <3>1. [job[w] EXCEPT !.id = Latest] \in Job
            BY <1>4, <1>5 DEF Job
        <3>2. [job EXCEPT ![w].id = Latest] = [job EXCEPT ![w] = [job[w] EXCEPT !.id = Latest]]
            OBVIOUS
        <3>3. QED
            BY <1>2, <1>3, <2>3, <3>1, <3>2 DEF ListFiles, Steps
    <2>4. CASE GetSnapshot(w)
        BY <1>1, <1>2, <1>3, <2>4 DEF GetSnapshot, Steps
    <2>5. CASE CheckTarget(w)
        <3> DEFINE next == [job[w] EXCEPT !.id = @ + 1, !.version = fresh + 1]
        <3>1. fresh + 1 \in Version
            BY <2>5 DEF CheckTarget, Version
        <3>2. next \in Job
            <4>1. job[w].id + 1 \in 0..MaxId
                BY <1>4, <2>5 DEF Job, CheckTarget
            <4>2. QED
                BY <1>4, <3>1, <4>1, JobUpdates, Zenon
        <3>3. [job EXCEPT ![w].id = @ + 1, ![w].version = fresh + 1] = [job EXCEPT ![w] = next]
            BY Zenon
        <3>4. job' \in [Writers -> Job]
            BY <1>1, <1>3, <2>5, <3>2, <3>3 DEF CheckTarget, Refuse
        <3>5. pc' \in [Writers -> Steps]
            BY <1>2, <2>5 DEF CheckTarget, Refuse, Steps
        <3>6. refused' \subseteq Version /\ fresh' \in Version
            BY <2>5, <3>1 DEF CheckTarget, Refuse
        <3>7. QED
            BY <2>5, <3>4, <3>5, <3>6 DEF CheckTarget
    <2>6. CASE Rename(w) \/ RenameAnswerLost(w) \/ WriteTarget(w)
        <3>1. job[w].version \in Version
            BY <1>4 DEF Job
        <3>2. snaps' \in [Ids -> Version]
            BY <2>6, <3>1 DEF Rename, RenameAnswerLost, WriteTarget
        <3>3. QED
            BY <1>2, <2>6, <3>2 DEF Rename, RenameAnswerLost, WriteTarget, Steps
    <2>7. CASE RenameFails(w)
        BY <1>2, <2>7 DEF RenameFails, Steps
    <2>8. CASE Recheck(w)
        <3>1. job[w].version \in Version
            BY <1>4 DEF Job
        <3>2. QED
            BY <1>1, <1>2, <1>3, <2>8, <3>1 DEF Recheck, Refuse, Steps
    <2>9. CASE BeginHint(w)
        BY <1>2, <2>9 DEF BeginHint, Steps
    <2>10. CASE EndHint(w)
        <3>1. job[w].id \in 0..MaxId
            BY <1>4 DEF Job
        <3>2. QED
            BY <1>1, <1>2, <1>3, <2>10, <3>1 DEF EndHint, Steps
    <2>11. CASE HintFails(w) \/ Crash(w)
        BY <1>1, <1>2, <1>3, <2>11 DEF HintFails, Crash, Steps
    <2>12. QED
        BY <1>6, <2>1, <2>2, <2>3, <2>4, <2>5, <2>6, <2>7, <2>8, <2>9, <2>10, <2>11 DEF Step
<1>7. CASE UNCHANGED vars
    BY <1>7 DEF vars
<1>8. QED
    BY <1>6, <1>7 DEF Next

--------------------------------------------------------------------------------
(* The directory *)

LEMMA InitDirectory == Init => DirectoryInv
<1> SUFFICES ASSUME Init PROVE DirectoryInv
    OBVIOUS
<1> USE SnapshotConstants
<1>1. Live = First..Last
    BY DEF Init, Live, Ids
<1>2. LiveInterval
    BY <1>1 DEF LiveInterval
<1>3. \A w \in Writers : WriterInv(w)
    BY DEF Init, WriterInv, NoJob
<1>4. QED
    BY <1>1, <1>2, <1>3 DEF Init, DirectoryInv

(* A writer is not disturbed by what others publish. *)
LEMMA OthersGrow ==
    ASSUME NEW w \in Writers, WriterInv(w), pc'[w] = pc[w], job'[w] = job[w],
           Live \subseteq Live', Live = {} => Live' = {} \/ 1 \in Live'
    PROVE  WriterInv(w)'
BY DEF WriterInv, Publishable

(* A publishable id extends the interval, or is in it already. *)
LEMMA PublicationGrows ==
    ASSUME TypeOK, LiveInterval, NEW i \in Ids, NEW v \in Version, v # 0, Publishable(i),
           snaps' = [snaps EXCEPT ![i] = v]
    PROVE  /\ Live' = Live \cup {i}
           /\ LiveInterval'
           /\ Live = {} => 1 \in Live'
<1>1. Live' = Live \cup {i}
    BY DEF Live, TypeOK
<1>2. PICK a \in Nat \ {0}, b \in Nat : Live = a..b
    BY DEF LiveInterval
<1>3. i \in Nat \ {0}
    BY SnapshotConstants DEF Ids
<1>4. CASE i - 1 \in Live
    <2>1. Live' = a..(IF i > b THEN i ELSE b)
        BY <1>1, <1>2, <1>3, <1>4
    <2>2. QED
        BY <1>1, <1>2, <1>3, <1>4, <2>1 DEF LiveInterval
<1>5. CASE i = 1 /\ Live = {}
    <2>1. Live' = 1..1
        BY <1>1, <1>5
    <2>2. QED
        BY <1>1, <1>5, <2>1 DEF LiveInterval
<1>6. CASE i = 1 /\ 1 \in Live
    BY <1>1, <1>2, <1>6 DEF LiveInterval
<1>7. QED
    BY <1>4, <1>5, <1>6 DEF Publishable

(* Every step keeps the invariant. *)
LEMMA StepDirectory ==
    ASSUME TypeOK, DirectoryInv, [Next]_vars
    PROVE  DirectoryInv'
<1> USE SnapshotConstants DEF Goto, Return
<1>1. PICK a \in Nat \ {0}, b \in Nat : Live = a..b
    BY DEF DirectoryInv, LiveInterval
<1>2. Latest \in 0..MaxId /\ (Latest # 0 => Latest \in Live) /\ (Latest = 0 => Live = {})
    BY LatestTyped
<1>3. Latest = IF a <= b THEN b ELSE 0
    BY <1>1, LatestIsLast
<1>4. \A i : Exists(i) <=> i \in Live
    BY DEF Exists, Live
<1>5. \A w \in Writers : WriterInv(w) /\ job[w] \in Job
    BY DEF DirectoryInv, TypeOK
<1>6. ASSUME UNCHANGED <<snaps, hint>>, NEW w \in Writers, WriterInv(w)',
             \A u \in Writers \ {w} : pc'[u] = pc[u] /\ job'[u] = job[u]
      PROVE  DirectoryInv'
    <2>1. Live' = Live /\ LiveInterval'
        BY <1>6 DEF Live, LiveInterval, DirectoryInv
    <2>2. \A u \in Writers : WriterInv(u)'
        BY <1>5, <1>6, <2>1, OthersGrow
    <2>3. QED
        BY <1>6, <2>1, <2>2 DEF DirectoryInv
<1>7. ASSUME NEW w \in Writers, Step(w)
      PROVE  DirectoryInv'
    <2> USE <1>7 DEF TypeOK
    <2>1. CASE ReadHint(w)
        <3>1. job'[w] = [NoJob EXCEPT !.hint = hint, !.floor = Latest]
            BY <2>1 DEF ReadHint
        <3>2. NoJob \in Job
            BY DEF NoJob, Job, Version
        <3>3. job'[w].hint = hint /\ job'[w].floor = Latest
            <4> HIDE DEF TypeOK
            <4>1. [NoJob EXCEPT !.hint = hint, !.floor = Latest].hint = hint
                BY DEF NoJob
            <4>2. [NoJob EXCEPT !.hint = hint, !.floor = Latest].floor = Latest
                BY DEF NoJob
            <4>3. QED
                BY <3>1, <4>1, <4>2
        <3>4. pc'[w] = (IF hint > 0 THEN "next" ELSE "list") /\ Live' = Live
            BY <2>1 DEF ReadHint, Live
        <3>5. WriterInv(w)'
            BY <1>2, <3>3, <3>4 DEF WriterInv, DirectoryInv
        <3>6. QED
            BY <1>6, <2>1, <3>5 DEF ReadHint
    <2>2. CASE CheckNext(w)
        <3>1. pc[w] = "next" /\ job[w].hint \in Live /\ Live' = Live
            BY <1>5, <2>2 DEF CheckNext, WriterInv, Live
        <3>2. CASE Exists(job[w].hint + 1)
            <4>1. WriterInv(w)'
                BY <1>5, <2>2, <3>1, <3>2 DEF CheckNext, WriterInv
            <4>2. QED
                BY <1>6, <2>2, <3>2, <4>1 DEF CheckNext
        <3>3. CASE ~Exists(job[w].hint + 1)
            <4>1. pc'[w] = "get" /\ job'[w].id = job[w].hint /\ job'[w].floor = job[w].floor
                BY <1>5, <2>2, <3>3 DEF CheckNext, Job
            <4>2. job[w].hint = b
                BY <1>1, <1>4, <3>1, <3>3
            <4>3. job[w].floor # 0 => job[w].floor \in Live
                BY <1>5 DEF WriterInv
            <4>4. job[w].floor <= b
                BY <1>1, <4>3
            <4>5. WriterInv(w)'
                BY <1>1, <3>1, <4>1, <4>2, <4>3, <4>4 DEF WriterInv
            <4>6. QED
                BY <1>6, <2>2, <3>3, <4>5 DEF CheckNext
        <3>4. QED
            BY <3>2, <3>3
    <2>3. CASE ListFiles(w)
        <3>1. /\ pc'[w] = (IF Latest = 0 THEN "check" ELSE "get") /\ Live' = Live
              /\ job'[w].id = Latest /\ job'[w].floor = job[w].floor
            BY <1>5, <2>3 DEF ListFiles, Job, Live
        <3>2. job[w].floor # 0 => job[w].floor \in Live
            BY <1>5 DEF WriterInv
        <3>3. job[w].floor # 0 => job[w].floor <= Latest
            BY <1>1, <1>3, <3>2
        <3>4. Latest >= job[w].floor
            BY <1>2, <3>3
        <3>5. WriterInv(w)'
            BY <1>2, <3>1, <3>2, <3>4 DEF WriterInv, Publishable
        <3>6. QED
            BY <1>6, <2>3, <3>5 DEF ListFiles
    <2>4. CASE GetSnapshot(w)
        <3>1. pc[w] = "get" /\ job[w].id \in Live /\ Live' = Live
            BY <1>5, <2>4 DEF GetSnapshot, WriterInv, Live
        <3>2. job[w].id + 1 - 1 \in Live
            BY <1>1, <3>1
        <3>3. ASSUME Return(w) PROVE WriterInv(w)'
            BY <3>3 DEF WriterInv, NoJob
        <3>4. ASSUME pc'[w] = "check", job' = job PROVE WriterInv(w)'
            <4>1. Publishable(job[w].id + 1)'
                BY <1>1, <3>1, <3>2, <3>4 DEF Publishable
            <4>2. QED
                BY <1>5, <3>1, <3>4, <4>1 DEF WriterInv
        <3>5. WriterInv(w)'
            BY <2>4, <3>3, <3>4 DEF GetSnapshot
        <3>6. QED
            BY <1>6, <2>4, <3>5 DEF GetSnapshot
    <2>5. CASE CheckTarget(w)
        <3>1. pc[w] = "check" /\ Publishable(job[w].id + 1) /\ Live' = Live
            BY <1>5, <2>5 DEF CheckTarget, WriterInv, Live
        <3>2. CASE Exists(job[w].id + 1)
            <4>1. WriterInv(w)'
                BY <2>5, <3>2 DEF CheckTarget, Refuse, WriterInv, NoJob
            <4>2. QED
                BY <1>6, <2>5, <3>2, <4>1 DEF CheckTarget, Refuse
        <3>3. CASE ~Exists(job[w].id + 1)
            <4> DEFINE next == [job[w] EXCEPT !.id = job[w].id + 1, !.version = fresh + 1]
            <4>1. job' = [job EXCEPT ![w] = next] /\ pc'[w] = "rename"
                BY <2>5, <3>3, Zenon DEF CheckTarget
            <4>2. job[w].id + 1 \in Ids /\ fresh + 1 \in Version /\ fresh + 1 # 0
                <5>1. job[w].id \in 0..MaxId /\ fresh \in Version
                    BY <1>5 DEF Job
                <5>2. job[w].id < MaxId /\ fresh < Last + MaxCommits
                    BY <2>5 DEF CheckTarget
                <5>3. QED
                    BY <5>1, <5>2 DEF Ids, Version
            <4>3. next.floor = job[w].floor /\ next.id = job[w].id + 1 /\ next.version = fresh + 1
                <5> HIDE DEF TypeOK
                <5>1. next.floor = job[w].floor
                    BY <1>5 DEF Job
                <5>2. next.id = job[w].id + 1
                    BY <1>5 DEF Job
                <5>3. next.version = fresh + 1
                    BY <1>5 DEF Job
                <5>4. QED
                    BY <5>1, <5>2, <5>3
            <4>4. job'[w] = next
                BY <4>1
            <4>5. WriterInv(w)'
                BY <1>5, <3>1, <4>1, <4>2, <4>3, <4>4 DEF WriterInv, Publishable
            <4>6. \A u \in Writers \ {w} : job'[u] = job[u]
                BY <4>1
            <4>7. QED
                BY <1>6, <2>5, <3>3, <4>5, <4>6 DEF CheckTarget
        <3>4. QED
            BY <3>2, <3>3
    <2>6. CASE Rename(w) \/ RenameAnswerLost(w) \/ WriteTarget(w)
        <3>1. /\ job[w].id \in Ids /\ job[w].version # 0 /\ Publishable(job[w].id)
              /\ job[w].version \in Version
            BY <1>5, <2>6 DEF Rename, RenameAnswerLost, WriteTarget, WriterInv, Job
        <3>2. /\ Live' = Live \cup {job[w].id}
              /\ LiveInterval'
              /\ Live = {} => 1 \in Live'
            BY <2>6, <3>1, PublicationGrows
            DEF Rename, RenameAnswerLost, WriteTarget, DirectoryInv
        <3>3. job' = job /\ hint' = hint /\ pc'[w] \in {"hint", "recheck"}
            BY <2>6 DEF Rename, RenameAnswerLost, WriteTarget
        <3>4. job[w].id - 1 \in Live \/ (job[w].id = 1 /\ 1 \in Live')
            BY <3>1, <3>2 DEF Publishable
        <3>5. WriterInv(w)'
            BY <1>5, <3>1, <3>2, <3>3, <3>4 DEF WriterInv, Publishable
        <3>6. \A u \in Writers : WriterInv(u)'
            BY <1>5, <2>6, <3>2, <3>3, <3>5, OthersGrow DEF Rename, RenameAnswerLost, WriteTarget
        <3>7. QED
            BY <3>2, <3>3, <3>6 DEF DirectoryInv
    <2>7. CASE RenameFails(w)
        <3>1. WriterInv(w)'
            BY <1>5, <2>7 DEF RenameFails, WriterInv, Publishable, Live
        <3>2. QED
            BY <1>6, <2>7, <3>1 DEF RenameFails
    <2>8. CASE Recheck(w)
        <3>1. WriterInv(w)'
            BY <1>5, <2>8 DEF Recheck, Refuse, WriterInv, Publishable, Live, NoJob
        <3>2. QED
            BY <1>6, <2>8, <3>1 DEF Recheck, Refuse
    <2>9. CASE BeginHint(w) \/ EndHint(w)
        <3>1. Live' = Live /\ LiveInterval'
            BY <2>9 DEF BeginHint, EndHint, Live, LiveInterval, DirectoryInv
        <3>2. job[w].id \in Live
            BY <1>5, <2>9 DEF BeginHint, EndHint, WriterInv
        <3>3. WriterInv(w)'
            BY <1>5, <2>9, <3>1, <3>2 DEF BeginHint, EndHint, WriterInv, NoJob
        <3>4. \A u \in Writers : WriterInv(u)'
            BY <1>5, <2>9, <3>1, <3>3, OthersGrow DEF BeginHint, EndHint
        <3>5. QED
            BY <2>9, <3>1, <3>2, <3>4 DEF BeginHint, EndHint, DirectoryInv
    <2>10. CASE HintFails(w) \/ Crash(w)
        <3>1. WriterInv(w)'
            BY <2>10 DEF HintFails, Crash, WriterInv, NoJob
        <3>2. QED
            BY <1>6, <2>10, <3>1 DEF HintFails, Crash
    <2>11. QED
        BY <2>1, <2>2, <2>3, <2>4, <2>5, <2>6, <2>7, <2>8, <2>9, <2>10 DEF Step
<1>8. CASE UNCHANGED vars
    <2>1. Live' = Live /\ LiveInterval'
        BY <1>8 DEF vars, Live, LiveInterval, DirectoryInv
    <2>2. \A u \in Writers : WriterInv(u)'
        BY <1>5, <1>8, <2>1, OthersGrow DEF vars
    <2>3. QED
        BY <1>8, <2>1, <2>2 DEF vars, DirectoryInv
<1>9. QED
    BY <1>7, <1>8 DEF Next

--------------------------------------------------------------------------------
(* Refused commits *)

Pending == {"rename", "recheck", "direct"}

(* The snapshots that hold a refused version, or one that will be refused if  *)
(* its writer goes on: only a rename that reported an error puts one there.   *)
Doubtful ==
    {i \in Ids : \/ snaps[i] \in refused
                 \/ \E w \in Writers : pc[w] = "recheck" /\ snaps[i] = job[w].version}

(* Versions are used once: no two writers have the same one, a refused one is *)
(* nobody's, and before its publication a version is in no snapshot.          *)
VersionInv ==
    /\ \A i \in Ids : snaps[i] <= fresh
    /\ refused \subseteq 1..fresh
    /\ \A w \in Writers :
           pc[w] \in Pending =>
               /\ job[w].version \in 1..fresh /\ job[w].version \notin refused
               /\ \A u \in Writers : u # w /\ pc[u] \in Pending => job[u].version # job[w].version
    /\ \A w \in Writers, i \in Ids :
           snaps[i] = job[w].version =>
               /\ pc[w] \notin {"rename", "direct"}
               /\ pc[w] = "recheck" => i = job[w].id
    /\ Cardinality(Doubtful) <= lost

(* Fewer doubtful snapshots, and one more of them. *)
LEMMA FewerDoubtful ==
    ASSUME NEW S \in SUBSET Ids, NEW T \in SUBSET Ids, NEW n \in Nat, Cardinality(T) <= n
    PROVE  /\ S \subseteq T => Cardinality(S) <= n
           /\ \A i \in Ids : S \subseteq T \cup {i} => Cardinality(S) <= n + 1
<1>1. IsFiniteSet(Ids)
    BY SnapshotConstants, FS_Interval DEF Ids
<1>2. IsFiniteSet(S) /\ IsFiniteSet(T)
    BY <1>1, FS_Subset
<1>3. Cardinality(S) \in Nat /\ Cardinality(T) \in Nat
    BY <1>2, FS_CardinalityType
<1>4. ASSUME S \subseteq T PROVE Cardinality(S) <= n
    <2>1. Cardinality(S) <= Cardinality(T)
        BY <1>2, <1>4, FS_Subset
    <2>2. QED
        BY <1>3, <2>1
<1>5. ASSUME NEW i \in Ids, S \subseteq T \cup {i} PROVE Cardinality(S) <= n + 1
    <2>1. /\ IsFiniteSet(T \cup {i})
          /\ Cardinality(T \cup {i}) = Cardinality(T) \/ Cardinality(T \cup {i}) = Cardinality(T) + 1
        BY <1>2, FS_AddElement
    <2>2. Cardinality(S) <= Cardinality(T \cup {i})
        BY <1>5, <2>1, FS_Subset
    <2>3. QED
        BY <1>3, <2>1, <2>2
<1>6. QED
    BY <1>4, <1>5

LEMMA InitVersions == Init => VersionInv
<1> SUFFICES ASSUME Init PROVE VersionInv
    OBVIOUS
<1>1. Doubtful = {}
    BY DEF Init, Doubtful
<1>2. Cardinality(Doubtful) = 0
    BY <1>1, FS_EmptySet
<1>3. QED
    BY <1>2, SnapshotConstants DEF Init, VersionInv, Pending, Ids, NoJob

(* Every step keeps the invariant. *)
LEMMA StepVersions ==
    ASSUME TypeOK, TypeOK', DirectoryInv, VersionInv, [Next]_vars
    PROVE  VersionInv'
<1> USE SnapshotConstants DEF Goto, Return
<1>1. fresh \in Nat /\ lost \in Nat /\ \A i \in Ids : snaps[i] \in Nat
    BY DEF TypeOK, Version
<1>2. \A w \in Writers : job[w] \in Job /\ job[w].version \in Nat
    BY DEF TypeOK, Job, Version
<1>3. Doubtful \subseteq Ids /\ Doubtful' \subseteq Ids /\ Cardinality(Doubtful) <= lost
    BY DEF Doubtful, VersionInv, Ids
<1>4. Doubtful' \subseteq Doubtful => Cardinality(Doubtful') <= lost
    BY <1>1, <1>3, FewerDoubtful
<1>5. ASSUME NEW w \in Writers, UNCHANGED <<snaps, refused, fresh, lost>>,
             pc'[w] \notin Pending, \A u \in Writers \ {w} : pc'[u] = pc[u] /\ job'[u] = job[u]
      PROVE  VersionInv'
    <2>1. Doubtful' \subseteq Doubtful
        BY <1>5 DEF Doubtful, Pending
    <2>2. QED
        BY <1>4, <1>5, <2>1 DEF VersionInv, Pending
<1>6. ASSUME NEW w \in Writers, Step(w)
      PROVE  VersionInv'
    <2>1. CASE ReadHint(w)
        BY <1>5, <2>1 DEF ReadHint, Pending, TypeOK
    <2>2. CASE CheckNext(w)
        BY <1>5, <2>2 DEF CheckNext, Pending, TypeOK
    <2>3. CASE ListFiles(w)
        BY <1>5, <2>3 DEF ListFiles, Pending, TypeOK
    <2>4. CASE GetSnapshot(w)
        BY <1>5, <2>4 DEF GetSnapshot, Pending, TypeOK
    <2>5. CASE BeginHint(w)
        BY <1>5, <2>5 DEF BeginHint, Pending, TypeOK
    <2>6. CASE EndHint(w)
        BY <1>5, <2>6 DEF EndHint, Pending, TypeOK
    <2>7. CASE HintFails(w) \/ Crash(w)
        BY <1>5, <2>7 DEF HintFails, Crash, Pending, TypeOK
    <2>8. CASE CheckTarget(w) /\ Exists(job[w].id + 1)
        <3>1. /\ snaps' = snaps /\ lost' = lost /\ fresh' = fresh + 1
              /\ refused' = refused \cup {fresh + 1} /\ pc'[w] = "idle"
              /\ \A u \in Writers \ {w} : pc'[u] = pc[u] /\ job'[u] = job[u]
            BY <2>8 DEF CheckTarget, Refuse, TypeOK
        <3>2. Doubtful' \subseteq Doubtful
            BY <1>1, <3>1 DEF Doubtful, VersionInv
        <3>3. QED
            BY <1>1, <1>2, <1>4, <3>1, <3>2 DEF VersionInv, Pending
    <2>9. CASE CheckTarget(w) /\ ~Exists(job[w].id + 1)
        <3>1. /\ snaps' = snaps /\ lost' = lost /\ fresh' = fresh + 1 /\ refused' = refused
              /\ pc'[w] = "rename"
              /\ \A u \in Writers \ {w} : pc'[u] = pc[u] /\ job'[u] = job[u]
            BY <2>9 DEF CheckTarget, TypeOK
        <3>2. job'[w].version = fresh + 1
            BY <1>2, <2>9 DEF CheckTarget, TypeOK, Job
        <3>3. Doubtful' \subseteq Doubtful
            BY <3>1 DEF Doubtful
        <3>4. QED
            BY <1>1, <1>2, <1>4, <3>1, <3>2, <3>3 DEF VersionInv, Pending
    <2>10. CASE RenameFails(w)
        <3>1. /\ snaps' = snaps /\ job' = job /\ lost' = lost /\ fresh' = fresh
              /\ refused' = refused /\ pc[w] = "rename" /\ pc'[w] = "recheck"
              /\ \A u \in Writers \ {w} : pc'[u] = pc[u]
            BY <2>10 DEF RenameFails, TypeOK
        <3>2. Doubtful' \subseteq Doubtful
            BY <3>1 DEF Doubtful, VersionInv
        <3>3. QED
            BY <1>4, <3>1, <3>2 DEF VersionInv, Pending
    <2>11. CASE Rename(w) \/ RenameAnswerLost(w) \/ WriteTarget(w)
        <3> DEFINE i == job[w].id
        <3>1. /\ i \in Ids /\ pc[w] \in {"rename", "direct"} /\ pc'[w] \in {"hint", "recheck"}
              /\ job' = job /\ fresh' = fresh /\ refused' = refused
              /\ \A u \in Writers \ {w} : pc'[u] = pc[u]
              /\ \A k \in Ids : snaps'[k] = IF k = i THEN job[w].version ELSE snaps[k]
            BY <2>11 DEF Rename, RenameAnswerLost, WriteTarget, TypeOK, DirectoryInv, WriterInv
        <3>2. Cardinality(Doubtful') <= lost'
            <4>1. CASE pc'[w] = "hint"
                <5>1. lost' = lost
                    BY <2>11, <4>1 DEF Rename, RenameAnswerLost, WriteTarget, TypeOK
                <5>2. Doubtful' \subseteq Doubtful
                    BY <3>1, <4>1 DEF Doubtful, VersionInv, Pending
                <5>3. QED
                    BY <1>4, <5>1, <5>2
            <4>2. CASE pc'[w] = "recheck"
                <5>1. lost' = lost + 1
                    BY <2>11, <4>2 DEF Rename, RenameAnswerLost, WriteTarget, TypeOK
                <5>2. Doubtful' \subseteq Doubtful \cup {i}
                    BY <3>1, <4>2 DEF Doubtful, VersionInv, Pending
                <5>3. QED
                    BY <1>1, <1>3, <3>1, <5>1, <5>2, FewerDoubtful
            <4>3. QED
                BY <3>1, <4>1, <4>2
        <3>3. QED
            BY <1>1, <1>2, <3>1, <3>2 DEF VersionInv, Pending
    <2>12. CASE Recheck(w) /\ Exists(job[w].id)
        <3>1. /\ snaps' = snaps /\ lost' = lost /\ fresh' = fresh
              /\ refused' = refused \cup {job[w].version}
              /\ pc[w] = "recheck" /\ pc'[w] = "idle"
              /\ \A u \in Writers \ {w} : pc'[u] = pc[u] /\ job'[u] = job[u]
            BY <2>12 DEF Recheck, Refuse, TypeOK
        <3>2. Doubtful' \subseteq Doubtful
            BY <3>1 DEF Doubtful, VersionInv
        <3>3. refused' \subseteq 1..fresh
            BY <3>1, Zenon DEF VersionInv, Pending
        <3>4. \A u \in Writers : pc'[u] \in Pending =>
                  /\ u # w /\ job'[u] = job[u] /\ pc[u] \in Pending
                  /\ job[u].version \notin refused'
            BY <3>1 DEF VersionInv, Pending
        <3>5. \A u \in Writers : pc'[u] \in Pending =>
                  /\ job'[u].version \in 1..fresh /\ job'[u].version \notin refused'
                  /\ \A x \in Writers : x # u /\ pc'[x] \in Pending => job'[x].version # job'[u].version
            BY <3>1, <3>4 DEF VersionInv
        <3>6. \A u \in Writers, i \in Ids :
                  snaps'[i] = job'[u].version =>
                      /\ pc'[u] \notin {"rename", "direct"}
                      /\ pc'[u] = "recheck" => i = job'[u].id
            BY <3>1 DEF VersionInv
        <3>7. QED
            BY <1>4, <3>1, <3>2, <3>3, <3>5, <3>6 DEF VersionInv
    <2>13. CASE Recheck(w) /\ ~Exists(job[w].id)
        <3>1. /\ snaps' = snaps /\ job' = job /\ lost' = lost /\ fresh' = fresh
              /\ refused' = refused /\ pc[w] = "recheck" /\ pc'[w] = "direct"
              /\ \A u \in Writers \ {w} : pc'[u] = pc[u]
            BY <2>13 DEF Recheck, TypeOK
        <3>2. \A k \in Ids : snaps[k] # job[w].version
            BY <1>1, <2>13, <3>1 DEF VersionInv, Pending, Exists
        <3>3. Doubtful' \subseteq Doubtful
            BY <3>1 DEF Doubtful
        <3>4. QED
            BY <1>4, <3>1, <3>2, <3>3 DEF VersionInv, Pending
    <2>14. QED
        BY <1>6, <2>1, <2>2, <2>3, <2>4, <2>5, <2>6, <2>7, <2>8, <2>9, <2>10, <2>11, <2>12, <2>13
        DEF Step
<1>7. CASE UNCHANGED vars
    <2>1. Doubtful' \subseteq Doubtful
        BY <1>7 DEF vars, Doubtful
    <2>2. QED
        BY <1>4, <1>7, <2>1 DEF vars, VersionInv
<1>8. QED
    BY <1>6, <1>7 DEF Next

--------------------------------------------------------------------------------
(* The theorems *)

(* The inductive invariant holds for ever. *)
LEMMA Inductive == Spec => [](TypeOK /\ DirectoryInv /\ VersionInv)
<1>1. Init => TypeOK /\ DirectoryInv /\ VersionInv
    BY InitTyped, InitDirectory, InitVersions
<1>2. TypeOK /\ DirectoryInv /\ VersionInv /\ [Next]_vars
          => (TypeOK /\ DirectoryInv /\ VersionInv)'
    BY StepTyped, StepDirectory, StepVersions
<1>3. QED
    BY <1>1, <1>2, PTL DEF Spec

(* The state of the publisher is well typed: no id or version leaves its      *)
(* range, whatever is lost or crashes.                                        *)
THEOREM TypeCorrect == Spec => []TypeOK
BY Inductive, PTL

(* commit_snapshot never leaves a gap in the ids, however its writers         *)
(* interleave, fail over from rename to a direct write, or crash.             *)
THEOREM IdsHaveNoGap == Spec => []NoGaps
<1>1. TypeOK /\ DirectoryInv /\ VersionInv => NoGaps
    BY DEF DirectoryInv, LiveInterval, NoGaps
<1>2. QED
    BY <1>1, Inductive, PTL

(* latest_snapshot_id_from_filesystem, which trusts the hint if the id after  *)
(* it is free, finds the newest snapshot in every state of the directory.     *)
THEOREM LookupCorrect == Spec => []LookupFindsLatest
<1>1. ASSUME TypeOK, DirectoryInv PROVE LookupFindsLatest
    <2>1. PICK a \in Nat \ {0}, b \in Nat : Live = a..b
        BY <1>1 DEF DirectoryInv, LiveInterval
    <2>2. Latest = IF a <= b THEN b ELSE 0
        BY <2>1, LatestIsLast
    <2>3. hint \in Nat /\ (hint # 0 => hint \in a..b)
        BY <1>1, <2>1, SnapshotConstants DEF TypeOK, DirectoryInv
    <2>4. \A i : Exists(i) <=> i \in a..b
        BY <2>1 DEF Exists, Live
    <2>5. QED
        BY <2>1, <2>2, <2>3, <2>4 DEF LookupFindsLatest, LookupId
<1>2. QED
    BY <1>1, Inductive, PTL

(* A lookup that races with publications returns a snapshot that exists and   *)
(* is no older than the newest one when it began.                             *)
THEOREM LookupFresh == Spec => []LookupIsFresh
<1>1. TypeOK /\ DirectoryInv /\ VersionInv => LookupIsFresh
    BY DEF DirectoryInv, WriterInv, LookupIsFresh, Exists, Live
<1>2. QED
    BY <1>1, Inductive, PTL

(* Ok(false) is wrong at most as often as a rename took effect with an error. *)
THEOREM RefusalsAreTrue == Spec => []RefusedOnlyByLostAnswer
<1>1. ASSUME TypeOK, VersionInv PROVE RefusedOnlyByLostAnswer
    <2> DEFINE S == {i \in Ids : snaps[i] \in refused}
    <2>1. S \subseteq Doubtful /\ S \subseteq Ids /\ Doubtful \subseteq Ids
        BY DEF Doubtful
    <2>2. lost \in Nat /\ Cardinality(Doubtful) <= lost
        BY <1>1, SnapshotConstants DEF TypeOK, VersionInv
    <2>3. Cardinality(S) <= lost
        BY <2>1, <2>2, FewerDoubtful
    <2>4. QED
        BY <2>3 DEF RefusedOnlyByLostAnswer
<1>2. QED
    BY <1>1, Inductive, PTL

================================================================================
