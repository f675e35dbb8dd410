----------------------------- MODULE RollbackProofs ----------------------------
(***************************************************************************)
(* Proofs about Rollback, for any numbers of writers, snapshots, tags,     *)
(* rollbacks and faults, when the calls do not overlap.                    *)
(***************************************************************************)
EXTENDS Rollback, SnapshotManagerProofs

RollbackSteps ==
    {"idle", "hint", "hinting", "list", "delete", "untag", "exists", "check", "rename", "restored",
     "rehinting", "earliest", "done"}

RollbackState ==
    [pc : RollbackSteps, kind : {"snapshot", "tag", "timestamp"}, target : 0..MaxId,
     version : Version, todo : SUBSET Ids]

RollbackTyped ==
    /\ TypeOK
    /\ tags \in [Ids -> Version]
    /\ earliest \in 0..MaxId
    /\ rb \in RollbackState
    /\ rollbacks \in 0..MaxRollbacks

(* One call at a time. *)
Alone ==
    \A w \in Writers : pc[w] # "idle" => rb.pc = "idle" /\ \A u \in Writers \ {w} : pc[u] = "idle"

Publishing == {"rename", "recheck", "direct"}

(* What a writer knows, with the directory to itself. *)
LookedUp(w) ==
    /\ pc[w] = "next" => hint > 0 /\ job[w].hint = hint
    /\ pc[w] = "list" => hint = 0 \/ Live # {}
    /\ pc[w] = "get" => job[w].id > 0 /\ ~Exists(job[w].id + 1)
    /\ pc[w] = "check" =>
           IF job[w].id = 0 THEN Live = {} /\ hint = 0
           ELSE job[w].id \in Live /\ ~Exists(job[w].id + 1)
    /\ pc[w] \in Publishing =>
           /\ job[w].id \in Ids /\ job[w].version # 0
           /\ \/ job[w].id - 1 \in Live
              \/ job[w].id = 1 /\ Live \subseteq {1} /\ hint = 0
    /\ pc[w] \in {"hint", "hinting"} => job[w].id \in Live

(* How far a rollback is. *)
Hinted == {"list", "delete", "untag", "exists", "check", "rename"}

Restoring == {"restored", "rehinting", "earliest"}

Cut == {"untag", "exists", "check", "rename", "done"} \cup Restoring

Untagged == Cut \ {"untag"}

RollbackInv ==
    rb.pc # "idle" =>
        /\ rb.target \in Live \cup Tagged /\ rb.version # 0
        /\ Exists(rb.target) =>
               \/ snaps[rb.target] = rb.version
               \/ rb.kind # "snapshot" /\ tags[rb.target] = rb.version /\ faults > 0
        /\ ~Exists(rb.target) => tags[rb.target] = rb.version
        /\ rb.pc \in Hinted => hint = rb.target
        /\ rb.pc \in Restoring \cup {"done"} => hint \in {0, rb.target}
        /\ rb.pc = "delete" => rb.todo = {i \in Live : i > rb.target}
        /\ rb.pc \in Cut => \A i \in Live : i <= rb.target
        /\ rb.pc = "untag" => rb.todo = {i \in Tagged : i > rb.target}
        /\ rb.pc \in Untagged => \A i \in Tagged : i <= rb.target
        /\ rb.pc \in Untagged /\ rb.kind = "timestamp" => rb.pc = "done"
        /\ rb.pc = "done" /\ ~Exists(rb.target) => rb.kind = "timestamp" /\ hint = rb.target
        /\ rb.pc \in {"check", "rename"} => ~Exists(rb.target)
        /\ rb.pc \in Restoring => Exists(rb.target)

(* What no rollback that died has left behind. *)
CleanInv ==
    faults = 0 =>
        /\ \A i \in Live \cap Tagged : tags[i] = snaps[i]
        /\ \A i, j \in Live : i < j => j - 1 \in Live
        /\ rb.pc \notin Restoring => \A i \in Live : earliest <= i
        /\ rb.pc \in Restoring => Live \subseteq {rb.target}
        /\ rb.pc \in {"idle", "hint", "done"} =>
               IF Live = {} THEN hint # 0 /\ \A t \in Tagged : t <= hint
               ELSE \A t \in Tagged : \E i \in Live : t <= i
        /\ rb.pc # "idle" /\ ~Exists(rb.target) => \A i \in Live : i > rb.target
        /\ \A w \in Writers : pc[w] \in Publishing =>
               (\A i \in Live : i <= job[w].id) /\ (\A t \in Tagged : t < job[w].id)

Inv ==
    /\ RollbackTyped
    /\ Alone
    /\ \A w \in Writers : LookedUp(w)
    /\ RollbackInv
    /\ hint # 0 => hint \in Live \cup Tagged
    /\ GapOnlyBelowRestored
    /\ CleanInv

--------------------------------------------------------------------------------
(* Snapshot files and tags as sets of ids. *)

LEMMA Files ==
    /\ Live \subseteq Ids /\ Tagged \subseteq Ids
    /\ \A i : Exists(i) <=> i \in Live
    /\ Live' \subseteq Ids /\ Tagged' \subseteq Ids
    /\ \A i : Exists(i)' <=> i \in Live'
BY DEF Live, Tagged, Exists, Ids

LEMMA IdsArePositive == \A i \in Ids : i \in Nat /\ i > 0 /\ i \in 0..MaxId
BY SnapshotConstants DEF Ids

LEMMA FilesStay ==
    /\ snaps' = snaps => Live' = Live
    /\ tags' = tags => Tagged' = Tagged
BY DEF Live, Tagged

LEMMA FileWritten ==
    ASSUME TypeOK, NEW i \in Ids, NEW v \in Version, v # 0, snaps' = [snaps EXCEPT ![i] = v]
    PROVE  /\ Live' = Live \cup {i} /\ snaps'[i] = v
           /\ \A k \in Ids : k # i => snaps'[k] = snaps[k]
BY DEF TypeOK, Live

LEMMA FileDeleted ==
    ASSUME TypeOK, NEW i \in Ids, snaps' = [snaps EXCEPT ![i] = 0]
    PROVE  /\ Live' = Live \ {i}
           /\ \A k \in Ids : k # i => snaps'[k] = snaps[k]
BY DEF TypeOK, Live

(* GapOnlyBelowRestored, of a set of snapshots and a set of tags. *)
Gap(live, tagged, n) ==
    \A i, k \in live : k < i /\ i - 1 \notin live => i \in tagged /\ n > 0

LEMMA GapIs ==
    /\ GapOnlyBelowRestored <=> Gap(Live, Tagged, faults)
    /\ GapOnlyBelowRestored' <=> Gap(Live', Tagged', faults')
BY DEF GapOnlyBelowRestored, Gap, Live, Tagged, Exists

(* The id that follows a live one, or the first id, leaves no new gap. *)
LEMMA NoNewGap ==
    ASSUME NEW live \in SUBSET Ids, NEW tagged, NEW n, Gap(live, tagged, n),
           NEW i \in Ids, i - 1 \in live \/ (i = 1 /\ live \subseteq {1})
    PROVE  Gap(live \cup {i}, tagged, n)
<1> SUFFICES ASSUME NEW j \in live \cup {i}, NEW k \in live \cup {i}, k < j,
                    j - 1 \notin live \cup {i}
             PROVE  j \in tagged /\ n > 0
    BY DEF Gap
<1>1. i \in Nat /\ j \in Nat /\ k \in Nat /\ i > 0 /\ k > 0
    BY SnapshotConstants DEF Ids
<1>2. j \in live /\ j - 1 \notin live
    BY <1>1
<1>3. CASE k \in live
    BY <1>2, <1>3 DEF Gap
<1>4. CASE k = i /\ i - 1 \in live
    <2>1. i - 1 < j
        BY <1>1, <1>4
    <2> QED
        BY <1>2, <1>4, <2>1 DEF Gap
<1>5. CASE k = i /\ i = 1 /\ live \subseteq {1}
    BY <1>1, <1>2, <1>5
<1> QED
    BY <1>3, <1>4, <1>5

(* The newest snapshot goes. *)
LEMMA NewestGoes ==
    ASSUME NEW live \in SUBSET Ids, NEW tagged, NEW n, Gap(live, tagged, n),
           NEW i \in live, \A k \in live : k <= i
    PROVE  Gap(live \ {i}, tagged, n)
BY SnapshotConstants DEF Gap, Ids

(* Without a gap, a snapshot that none follows is the newest. *)
LEMMA NoGapAbove ==
    ASSUME NEW S \in SUBSET Ids, \A i, k \in S : i < k => k - 1 \in S,
           NEW a \in S, a + 1 \notin S
    PROVE  \A k \in S : k <= a
<1>0. S \subseteq Nat
    BY SnapshotConstants DEF Ids
<1> SUFFICES ASSUME NEW k \in S, k > a PROVE FALSE
    BY <1>0
<1> DEFINE T == {i \in S : i > a}
<1>1. T \in SUBSET Nat /\ T # {}
    <2>1. k \in T
        OBVIOUS
    <2>2. T \subseteq Nat
        BY <1>0, Zenon
    <2> QED
        BY <2>1, <2>2
<1>2. PICK t \in T : \A u \in T : t <= u
    BY <1>1, HasLeast, Zenon
<1>3. t \in S /\ t \in Nat /\ a \in Nat /\ t > a /\ t - 1 \in S
    BY <1>1, <1>2 DEF Ids
<1>4. t - 1 \notin T
    BY <1>2, <1>3
<1>5. t - 1 = a
    BY <1>3, <1>4
<1> QED
    BY <1>3, <1>5

--------------------------------------------------------------------------------
(* The writers. *)

LEMMA WriterAlone ==
    ASSUME ~Overlap, Inv, NEW w \in Writers, WriterStep(w)
    PROVE  /\ rb.pc \in {"idle", "done"} /\ (pc[w] # "idle" => rb.pc = "idle")
           /\ \A u \in Writers \ {w} : pc[u] = "idle"
           /\ rb' \in RollbackState /\ rb'.pc = "idle"
           /\ Step(w) /\ UNCHANGED <<tags, earliest, rollbacks>>
           /\ TypeOK'
<1>1. /\ Step(w) /\ UNCHANGED <<tags, earliest, rollbacks>>
      /\ rb' = IF rb.pc = "done" THEN NoRollback ELSE rb
    BY DEF WriterStep
<1>2. rb.pc \in {"idle", "done"} /\ (pc[w] # "idle" => rb.pc = "idle")
    BY DEF WriterStep, Quiet, Inv, Alone
<1>3. \A u \in Writers \ {w} : pc[u] = "idle"
    BY DEF WriterStep, Quiet, Inv, Alone
<1>4. NoRollback \in RollbackState /\ NoRollback.pc = "idle"
    BY SnapshotConstants DEF NoRollback, RollbackState, RollbackSteps, Version
<1>5. rb' \in RollbackState /\ rb'.pc = "idle"
    BY <1>1, <1>2, <1>4 DEF Inv, RollbackTyped
<1>6. TypeOK'
    BY <1>1, StepTyped DEF Next, Inv, RollbackTyped
<1> QED
    BY <1>1, <1>2, <1>3, <1>5, <1>6, Zenon

LEMMA WriterKeeps ==
    ASSUME ~Overlap, Inv, NEW w \in Writers, WriterStep(w), LookedUp(w)',
           \A u \in Writers \ {w} : pc'[u] = pc[u],
           hint' # 0 => hint' \in Live' \cup Tagged,
           Gap(Live', Tagged, faults'), CleanInv'
    PROVE  Inv'
<1>1. /\ \A u \in Writers \ {w} : pc[u] = "idle"
      /\ rb' \in RollbackState /\ rb'.pc = "idle"
      /\ UNCHANGED <<tags, earliest, rollbacks>> /\ TypeOK'
    BY WriterAlone
<1>2. RollbackTyped'
    BY <1>1 DEF Inv, RollbackTyped
<1>3. Alone'
    BY <1>1 DEF Alone
<1>4. \A u \in Writers : LookedUp(u)'
    BY <1>1 DEF LookedUp, Publishing
<1>5. RollbackInv'
    BY <1>1 DEF RollbackInv
<1>6. Tagged' = Tagged
    BY <1>1, FilesStay
<1>7. GapOnlyBelowRestored'
    BY <1>6, GapIs
<1> QED
    BY <1>2, <1>3, <1>4, <1>5, <1>6, <1>7, Zenon DEF Inv

(* A step that leaves the files and the hint alone. *)
LEMMA WriterOnly ==
    ASSUME ~Overlap, Inv, NEW w \in Writers, WriterStep(w), LookedUp(w)',
           \A u \in Writers \ {w} : pc'[u] = pc[u],
           UNCHANGED <<snaps, hint>>, faults' \in {faults, faults + 1},
           faults = 0 /\ pc'[w] \in Publishing =>
               (\A i \in Live : i <= job'[w].id) /\ (\A t \in Tagged : t < job'[w].id)
    PROVE  Inv'
<1>1. /\ \A u \in Writers \ {w} : pc[u] = "idle"
      /\ rb'.pc = "idle" /\ rb.pc \in {"idle", "done"}
      /\ UNCHANGED <<tags, earliest, rollbacks>>
    BY WriterAlone
<1>2. Live' = Live /\ Tagged' = Tagged
    BY <1>1, FilesStay
<1>3. faults \in Nat
    BY SnapshotConstants DEF Inv, RollbackTyped, TypeOK
<1>4. Gap(Live', Tagged, faults')
    BY <1>2, <1>3, GapIs DEF Inv, Gap
<1>5. CleanInv'
    <2> SUFFICES ASSUME faults' = 0 PROVE CleanInv'
        BY DEF CleanInv
    <2>1. faults = 0
        BY <1>3
    <2>2. /\ \A i \in Live \cap Tagged : tags[i] = snaps[i]
          /\ \A i, j \in Live : i < j => j - 1 \in Live
          /\ \A i \in Live : earliest <= i
          /\ IF Live = {} THEN hint # 0 /\ \A t \in Tagged : t <= hint
             ELSE \A t \in Tagged : \E i \in Live : t <= i
        BY <1>1, <2>1 DEF Inv, CleanInv, Restoring
    <2>3. \A u \in Writers : pc'[u] \in Publishing =>
              (\A i \in Live : i <= job'[u].id) /\ (\A t \in Tagged : t < job'[u].id)
        BY <1>1, <2>1 DEF Publishing
    <2> QED
        BY <1>1, <1>2, <2>2, <2>3, Zenon DEF CleanInv, Restoring
<1> QED
    BY <1>1, <1>2, <1>4, <1>5, WriterKeeps, Zenon DEF Inv

(* The lookup. *)
LEMMA LookupSteps ==
    ASSUME ~Overlap, Inv, NEW w \in Writers, WriterStep(w),
           ReadHint(w) \/ CheckNext(w) \/ ListFiles(w) \/ GetSnapshot(w)
    PROVE  Inv'
<1>1. pc \in [Writers -> Steps] /\ job \in [Writers -> Job] /\ hint \in Nat
    BY SnapshotConstants DEF Inv, RollbackTyped, TypeOK
<1>2. job[w] \in Job /\ LookedUp(w)
    BY <1>1 DEF Inv
<1>3. UNCHANGED <<snaps, hint, faults>> /\ \A u \in Writers \ {w} : pc'[u] = pc[u]
    BY <1>1 DEF ReadHint, CheckNext, ListFiles, GetSnapshot, Goto, Return
<1>4. Live' = Live
    BY <1>3, FilesStay
<1>5. LookedUp(w)' /\ pc'[w] \notin Publishing
    <2>1. CASE ReadHint(w)
        <3> DEFINE j == [NoJob EXCEPT !.hint = hint, !.floor = Latest]
        <3>1. /\ job' = [job EXCEPT ![w] = j] /\ j.hint = hint
              /\ pc' = [pc EXCEPT ![w] = IF hint > 0 THEN "next" ELSE "list"]
            BY <2>1 DEF ReadHint, Goto, NoJob
        <3> HIDE DEF j
        <3>2. /\ job'[w].hint = hint
              /\ pc'[w] = IF hint > 0 THEN "next" ELSE "list"
            BY <1>1, <3>1
        <3> QED
            BY <1>1, <1>3, <3>2 DEF LookedUp, Publishing
    <2>2. CASE CheckNext(w)
        <3>1. hint > 0 /\ job[w].hint = hint /\ pc[w] = "next"
            BY <1>2, <2>2 DEF CheckNext, LookedUp
        <3>2. CASE Exists(hint + 1)
            BY <1>1, <1>3, <1>4, <2>2, <3>1, <3>2, Files, Zenon DEF CheckNext, Goto, LookedUp, Publishing
        <3>3. CASE ~Exists(hint + 1)
            <4>1. pc'[w] = "get" /\ job'[w].id = hint
                BY <1>1, <1>2, <2>2, <3>1, <3>3, Zenon DEF CheckNext, Goto, Job
            <4> QED
                BY <1>1, <1>3, <1>4, <3>1, <3>3, <4>1, Files, Zenon DEF LookedUp, Publishing
        <3> QED
            BY <3>2, <3>3
    <2>3. CASE ListFiles(w)
        <3>1. /\ hint = 0 \/ Live # {}
              /\ job'[w].id = Latest /\ pc'[w] = IF Latest = 0 THEN "check" ELSE "get"
            BY <1>1, <1>2, <2>3, Zenon DEF ListFiles, Goto, LookedUp, Job
        <3>2. /\ Latest \in Nat /\ (Latest = 0 => Live = {}) /\ \A i \in Live : i <= Latest
            BY LatestTyped, SnapshotConstants
        <3>3. ~Exists(job[w].id + 1)'
            <4>1. Latest + 1 \notin Live
                BY <3>2
            <4> QED
                BY <1>4, <3>1, <4>1, Files, Zenon
        <3> QED
            BY <1>3, <1>4, <3>1, <3>2, <3>3 DEF LookedUp, Publishing
    <2>4. CASE GetSnapshot(w)
        <3>1. CASE pc'[w] = "idle"
            BY <3>1, Zenon DEF LookedUp, Publishing
        <3>2. CASE Exists(job[w].id) /\ pc'[w] = "check" /\ job' = job
            <4>1. job[w].id > 0 /\ ~Exists(job[w].id + 1)
                BY <1>2, <2>4, Zenon DEF GetSnapshot, LookedUp
            <4>2. job[w].id \in Live' /\ ~Exists(job[w].id + 1)' /\ job[w].id # 0
                BY <1>4, <3>2, <4>1, Files DEF Ids
            <4> QED
                BY <3>2, <4>2, Zenon DEF LookedUp, Publishing
        <3> QED
            BY <1>1, <2>4, <3>1, <3>2, Zenon DEF GetSnapshot, Goto, Return
    <2> QED
        BY <2>1, <2>2, <2>3, <2>4, Zenon
<1> QED
    BY <1>3, <1>5, WriterOnly

(* Between the check of the target and its publication. *)
LEMMA CheckSteps ==
    ASSUME ~Overlap, Inv, NEW w \in Writers, WriterStep(w),
           CheckTarget(w) \/ RenameFails(w) \/ Recheck(w)
    PROVE  Inv'
<1>1. pc \in [Writers -> Steps] /\ job \in [Writers -> Job] /\ faults \in Nat
    BY SnapshotConstants DEF Inv, RollbackTyped, TypeOK
<1>2. job[w] \in Job /\ LookedUp(w) /\ pc[w] # "idle"
    BY <1>1 DEF Inv, CheckTarget, RenameFails, Recheck
<1>3. UNCHANGED <<snaps, hint, faults>> /\ \A u \in Writers \ {w} : pc'[u] = pc[u]
    BY <1>1 DEF CheckTarget, RenameFails, Recheck, Refuse, Goto, Return
<1>4. Live' = Live /\ rb.pc = "idle"
    BY <1>2, <1>3, FilesStay, WriterAlone, Zenon
<1>5. CASE pc'[w] = "idle"
    <2>1. LookedUp(w)' /\ pc'[w] \notin Publishing
        BY <1>5, Zenon DEF LookedUp, Publishing
    <2> QED
        BY <1>3, <2>1, WriterOnly, Zenon
<1>6. CASE pc[w] \in Publishing /\ pc'[w] \in Publishing /\ job' = job
    <2>1. LookedUp(w)'
        BY <1>2, <1>3, <1>4, <1>6, Zenon DEF LookedUp, Publishing
    <2>2. faults = 0 => (\A i \in Live : i <= job[w].id) /\ (\A t \in Tagged : t < job[w].id)
        BY <1>6, Zenon DEF Inv, CleanInv
    <2> QED
        BY <1>3, <1>6, <2>1, <2>2, WriterOnly, Zenon
<1>7. CASE CheckTarget(w) /\ ~Exists(job[w].id + 1)
    <2> DEFINE id == job[w].id
    <2>1. id \in Nat /\ id < MaxId /\ fresh \in Nat
        BY <1>2, <1>7, SnapshotConstants DEF CheckTarget, Job, Inv, RollbackTyped, TypeOK, Version
    <2>2. IF id = 0 THEN Live = {} /\ hint = 0 ELSE id \in Live /\ id + 1 \notin Live
        BY <1>2, <1>7, Files, Zenon DEF CheckTarget, LookedUp
    <2>3. /\ pc'[w] = "rename" /\ job'[w].id = id + 1 /\ job'[w].version = fresh + 1
        <3> DEFINE j == [job[w] EXCEPT !.id = @ + 1, !.version = fresh + 1]
        <3>1. j.id = id + 1 /\ j.version = fresh + 1
            BY <1>2 DEF Job
        <3>2. job' = [job EXCEPT ![w] = j] /\ pc' = [pc EXCEPT ![w] = "rename"]
            BY <1>1, <1>7, Zenon DEF CheckTarget, Goto
        <3> HIDE DEF j
        <3> QED
            BY <1>1, <3>1, <3>2
    <2> HIDE DEF id
    <2>4. LookedUp(w)'
        <3>1. id + 1 \in Ids /\ fresh + 1 # 0 /\ (id + 1) - 1 = id
            BY <2>1, SnapshotConstants DEF Ids
        <3>2. \/ job'[w].id - 1 \in Live'
              \/ job'[w].id = 1 /\ Live' \subseteq {1} /\ hint' = 0
            BY <1>3, <1>4, <2>2, <2>3, <3>1
        <3> QED
            BY <2>3, <3>1, <3>2 DEF LookedUp, Publishing
    <2>5. ASSUME faults = 0
          PROVE  (\A i \in Live : i <= id + 1) /\ (\A t \in Tagged : t < id + 1)
        <3>1. /\ \A i, k \in Live : i < k => k - 1 \in Live
              /\ IF Live = {} THEN hint # 0 ELSE \A t \in Tagged : \E i \in Live : t <= i
            BY <1>4, <2>5 DEF Inv, CleanInv
        <3>2. id \in Live /\ id + 1 \notin Live
            BY <2>2, <3>1
        <3>3. Live \in SUBSET Ids /\ Tagged \subseteq Ids
            BY Files
        <3>4. \A i \in Live : i <= id
            BY <3>1, <3>2, <3>3, NoGapAbove
        <3>5. \A t \in Tagged : \E i \in Live : t <= i /\ i <= id
            BY <3>1, <3>2, <3>4, Zenon
        <3> QED
            BY <2>1, <3>3, <3>4, <3>5 DEF Ids
    <2> QED
        BY <1>3, <2>3, <2>4, <2>5, WriterOnly, Zenon
<1> QED
    BY <1>1, <1>5, <1>6, <1>7, Zenon
    DEF CheckTarget, RenameFails, Recheck, Refuse, Goto, Return, Publishing

LEMMA PublishSteps ==
    ASSUME ~Overlap, Inv, NEW w \in Writers, WriterStep(w),
           Rename(w) \/ RenameAnswerLost(w) \/ WriteTarget(w)
    PROVE  Inv'
<1> DEFINE id == job[w].id
<1>1. pc \in [Writers -> Steps] /\ job[w] \in Job /\ TypeOK
    BY Zenon DEF Inv, RollbackTyped, TypeOK
<1>2. pc[w] \in Publishing /\ LookedUp(w)
    BY Zenon DEF Inv, Rename, RenameAnswerLost, WriteTarget, Publishing
<1>3. /\ id \in Ids /\ job[w].version \in Version /\ job[w].version # 0
      /\ id - 1 \in Live \/ (id = 1 /\ Live \subseteq {1} /\ hint = 0)
    BY <1>1, <1>2, Zenon DEF LookedUp, Job
<1>4. /\ snaps' = [snaps EXCEPT ![id] = job[w].version]
      /\ UNCHANGED <<hint, job, faults>>
      /\ pc'[w] \in {"hint", "recheck"} /\ \A u \in Writers \ {w} : pc'[u] = pc[u]
    BY <1>1 DEF Rename, RenameAnswerLost, WriteTarget, Goto
<1>5. /\ Live' = Live \cup {id} /\ \A k \in Ids : k # id => snaps'[k] = snaps[k]
    BY <1>1, <1>3, <1>4, FileWritten, ZenonT(30)
<1>6. /\ rb.pc = "idle" /\ rb'.pc = "idle" /\ UNCHANGED <<tags, earliest>>
      /\ \A u \in Writers \ {w} : pc[u] = "idle"
    BY <1>2, WriterAlone DEF Publishing
<1>7. Tagged' = Tagged /\ Live \in SUBSET Ids /\ Tagged \subseteq Ids
    BY <1>6, Files, FilesStay, Zenon
<1>8. LookedUp(w)'
    BY <1>3, <1>4, <1>5, Zenon DEF LookedUp, Publishing
<1>9. hint' # 0 => hint' \in Live' \cup Tagged
    BY <1>4, <1>5, Zenon DEF Inv
<1>10. Gap(Live', Tagged, faults')
    BY <1>3, <1>4, <1>5, <1>7, GapIs, NoNewGap, Zenon DEF Inv
<1>11. CleanInv'
    <2> SUFFICES ASSUME faults' = 0 PROVE CleanInv'
        BY Zenon DEF CleanInv
    <2>1. /\ \A i \in Live \cap Tagged : tags[i] = snaps[i]
          /\ \A i, k \in Live : i < k => k - 1 \in Live
          /\ \A i \in Live : earliest <= i
          /\ IF Live = {} THEN hint # 0 ELSE \A t \in Tagged : \E i \in Live : t <= i
          /\ \A i \in Live : i <= id
          /\ \A t \in Tagged : t < id
        BY <1>2, <1>4, <1>6, Zenon DEF Inv, CleanInv, Restoring
    <2>2. earliest \in Nat /\ id \in Nat /\ id > 0 /\ Live \subseteq Nat /\ Tagged \subseteq Nat
        <3>1. earliest \in 0..MaxId
            BY Zenon DEF Inv, RollbackTyped
        <3> QED
            BY <1>3, <1>7, <3>1, SnapshotConstants DEF Ids
    <2>3. Live # {}
        BY <1>3, <2>1
    <2>4. \A i \in Live' \cap Tagged : tags[i] = snaps'[i]
        BY <1>5, <1>7, <2>1, <2>2
    <2>5. \A i, k \in Live' : i < k => k - 1 \in Live'
        <3> SUFFICES ASSUME NEW i \in Live', NEW k \in Live', i < k PROVE k - 1 \in Live'
            OBVIOUS
        <3>0. i \in Nat /\ k \in Nat /\ i > 0 /\ k <= id
            <4>1. Live' \subseteq Ids
                BY Files, Zenon
            <4>2. k \in Live \/ k = id
                BY <1>5, Zenon
            <4> QED
                BY <2>1, <2>2, <4>1, <4>2 DEF Ids
        <3>1. CASE k = id
            BY <1>3, <1>5, <2>2, <3>0, <3>1
        <3>2. CASE k \in Live /\ i \in Live
            BY <1>5, <2>1, <3>2, Zenon
        <3>3. CASE k \in Live /\ i = id
            BY <2>2, <3>0, <3>3
        <3> QED
            BY <1>5, <3>1, <3>2, <3>3, Zenon
    <2>6. \A i \in Live' : earliest <= i
        <3>1. earliest <= id
            <4>1. PICK k \in Live : TRUE
                BY <2>3
            <4> QED
                BY <2>1, <2>2, <4>1
        <3> QED
            BY <1>5, <2>1, <3>1, Zenon
    <2>7. Live' # {} /\ \A t \in Tagged : \E i \in Live' : t <= i
        <3>1. id \in Live' /\ \A t \in Tagged : t <= id
            BY <1>5, <2>1, <2>2
        <3> QED
            BY <3>1, Zenon
    <2>8. \A i \in Live' : i <= id
        BY <1>5, <2>1, <2>2
    <2>9. \A u \in Writers : pc'[u] \in Publishing =>
              (\A i \in Live' : i <= job'[u].id) /\ (\A t \in Tagged : t < job'[u].id)
        BY <1>4, <1>6, <2>1, <2>8, Zenon DEF Publishing
    <2> QED
        BY <1>6, <1>7, <2>4, <2>5, <2>6, <2>7, <2>9, Zenon DEF CleanInv, Restoring
<1> QED
    BY <1>4, <1>8, <1>9, <1>10, <1>11, WriterKeeps, Zenon

LEMMA HintSteps ==
    ASSUME ~Overlap, Inv, NEW w \in Writers, WriterStep(w), BeginHint(w) \/ EndHint(w)
    PROVE  Inv'
<1>1. pc \in [Writers -> Steps]
    BY Zenon DEF Inv, RollbackTyped, TypeOK
<1>2. pc[w] \in {"hint", "hinting"} /\ job[w].id \in Live
    BY DEF Inv, LookedUp, BeginHint, EndHint
<1>3. /\ UNCHANGED <<snaps, faults>> /\ hint' \in {0, job[w].id}
      /\ pc'[w] = "idle" \/ (pc'[w] = "hinting" /\ job' = job)
      /\ \A u \in Writers \ {w} : pc'[u] = pc[u]
    BY <1>1, Zenon DEF BeginHint, EndHint, Goto, Return
<1>4. /\ rb.pc = "idle" /\ rb'.pc = "idle" /\ UNCHANGED <<tags, earliest>>
      /\ \A u \in Writers \ {w} : pc[u] = "idle"
    BY <1>2, WriterAlone, Zenon
<1>5. Live' = Live /\ Tagged' = Tagged
    BY <1>3, <1>4, FilesStay, Zenon
<1>6. LookedUp(w)'
    BY <1>2, <1>3, <1>5, Zenon DEF LookedUp, Publishing
<1>7. Gap(Live', Tagged, faults')
    BY <1>3, <1>5, GapIs, Zenon DEF Inv
<1>8. CleanInv'
    <2> SUFFICES ASSUME faults' = 0 PROVE CleanInv'
        BY Zenon DEF CleanInv
    <2>1. /\ \A i \in Live \cap Tagged : tags[i] = snaps[i]
          /\ \A i, k \in Live : i < k => k - 1 \in Live
          /\ \A i \in Live : earliest <= i
          /\ Live # {} /\ \A t \in Tagged : \E i \in Live : t <= i
        BY <1>2, <1>3, <1>4, Zenon DEF Inv, CleanInv, Restoring
    <2>2. \A u \in Writers : pc'[u] \notin Publishing
        BY <1>3, <1>4, Zenon DEF Publishing
    <2> QED
        BY <1>3, <1>4, <1>5, <2>1, <2>2, Zenon DEF CleanInv, Restoring
<1> QED
    BY <1>2, <1>3, <1>5, <1>6, <1>7, <1>8, WriterKeeps, Zenon

LEMMA WriterFails ==
    ASSUME ~Overlap, Inv, NEW w \in Writers, WriterStep(w), HintFails(w) \/ Crash(w)
    PROVE  Inv'
<1>1. pc \in [Writers -> Steps]
    BY DEF Inv, RollbackTyped, TypeOK
<1>2. /\ UNCHANGED <<snaps, hint>> /\ faults' = faults + 1 /\ pc'[w] = "idle"
      /\ \A u \in Writers \ {w} : pc'[u] = pc[u]
    BY <1>1, Zenon DEF HintFails, Crash, Goto, Return
<1>3. LookedUp(w)' /\ pc'[w] \notin Publishing
    BY <1>2, Zenon DEF LookedUp, Publishing
<1> QED
    BY <1>2, <1>3, WriterOnly, Zenon

LEMMA WriterStepKeeps ==
    ASSUME ~Overlap, Inv, NEW w \in Writers, WriterStep(w)
    PROVE  Inv'
<1>1. Step(w)
    BY WriterAlone
<1> QED
    BY <1>1, LookupSteps, CheckSteps, PublishSteps, HintSteps, WriterFails, Zenon DEF Step

--------------------------------------------------------------------------------
(* The rollbacks. *)

LEMMA ProceedTyped ==
    ASSUME rb \in RollbackState, NEW step \in RollbackSteps, Proceed(step)
    PROVE  /\ rb' \in RollbackState
           /\ rb'.pc = step /\ rb'.kind = rb.kind /\ rb'.target = rb.target
           /\ rb'.version = rb.version /\ rb'.todo = rb.todo
BY DEF Proceed, RollbackState

LEMMA TodoTyped ==
    ASSUME rb \in RollbackState, NEW step \in RollbackSteps, NEW ids \in SUBSET Ids,
           rb' = [rb EXCEPT !.pc = step, !.todo = ids]
    PROVE  /\ rb' \in RollbackState
           /\ rb'.pc = step /\ rb'.kind = rb.kind /\ rb'.target = rb.target
           /\ rb'.version = rb.version /\ rb'.todo = ids
BY Zenon DEF RollbackState

LEMMA RollbackAlone ==
    ASSUME Inv, rb.pc \notin {"idle", "done"}
    PROVE  \A w \in Writers : pc[w] = "idle"
BY DEF Inv, Alone

LEMMA RollbackKeeps ==
    ASSUME Inv, \A w \in Writers : pc[w] = "idle", pc' = pc, RollbackTyped', RollbackInv',
           hint' # 0 => hint' \in Live' \cup Tagged', Gap(Live', Tagged', faults'), CleanInv'
    PROVE  Inv'
<1>1. Alone'
    BY DEF Alone
<1>2. \A w \in Writers : LookedUp(w)'
    BY DEF LookedUp, Publishing
<1> QED
    BY <1>1, <1>2, GapIs, Zenon DEF Inv

(* A step that leaves the files and the tags alone, and may write the hint. *)
LEMMA RollbackOnly ==
    ASSUME Inv, \A w \in Writers : pc[w] = "idle", rb' \in RollbackState, RollbackInv',
           UNCHANGED <<snaps, pc, job, refused, fresh, lost, tags>>,
           hint' \in 0..MaxId, hint' # 0 => hint' \in Live \cup Tagged,
           earliest' \in 0..MaxId, rollbacks' \in 0..MaxRollbacks,
           faults' \in {faults, faults + 1}, faults' <= MaxFaults, CleanInv'
    PROVE  Inv'
<1>1. Live' = Live /\ Tagged' = Tagged
    BY FilesStay, Zenon
<1>2. faults \in Nat /\ faults' \in 0..MaxFaults
    BY SnapshotConstants DEF Inv, RollbackTyped, TypeOK
<1>3. RollbackTyped'
    BY <1>2, Zenon DEF Inv, RollbackTyped, TypeOK
<1>4. Gap(Live', Tagged', faults')
    BY <1>1, <1>2, GapIs DEF Inv, Gap
<1> QED
    BY <1>1, <1>3, <1>4, RollbackKeeps, Zenon

(* Without a gap, the ids between two snapshots are snapshots. *)
LEMMA NoGapBetween ==
    ASSUME NEW S \in SUBSET Ids, \A i, k \in S : i < k => k - 1 \in S,
           NEW a \in S, NEW b \in S, NEW x \in Ids, a <= x, x <= b
    PROVE  x \in S
<1>0. S \subseteq Nat /\ x \in Nat
    BY SnapshotConstants DEF Ids
<1> DEFINE T == {i \in S : i >= x}
<1>1. b \in T /\ T \in SUBSET Nat
    BY <1>0, Zenon
<1>2. PICK t \in T : \A u \in T : t <= u
    BY <1>1, HasLeast, Zenon
<1>3. t \in S /\ t \in Nat /\ a \in Nat /\ t >= x
    BY <1>0, <1>2
<1>4. CASE t = x
    BY <1>3, <1>4
<1>5. CASE t > x
    <2>1. t - 1 \in S /\ t - 1 >= x
        BY <1>0, <1>3, <1>5
    <2>2. t - 1 \in T
        BY <2>1
    <2>3. t <= t - 1
        BY <1>2, <2>2, Zenon
    <2> QED
        BY <1>3, <2>3
<1> QED
    BY <1>0, <1>3, <1>4, <1>5

LEMMA StartKeeps ==
    ASSUME ~Overlap, Inv, NEW kind \in {"snapshot", "tag", "timestamp"}, NEW id \in Live \cup Tagged,
           NEW version \in Version, version # 0, Start(kind, id, version),
           id \in Live => \/ snaps[id] = version
                          \/ kind # "snapshot" /\ tags[id] = version /\ faults > 0,
           id \notin Live => tags[id] = version
    PROVE  Inv'
<1>1. /\ rb.pc \in {"idle", "done"} /\ \A w \in Writers : pc[w] = "idle"
      /\ rollbacks' = rollbacks + 1 /\ rollbacks < MaxRollbacks
      /\ rb' = [pc |-> "hint", kind |-> kind, target |-> id, version |-> version, todo |-> {}]
      /\ UNCHANGED <<snaps, hint, pc, job, refused, fresh, faults, lost, tags, earliest>>
    BY DEF Start, Quiet, vars
<1>2. id \in Ids /\ id \in 0..MaxId
    BY Files, SnapshotConstants DEF Ids
<1>3. rb' \in RollbackState
    BY <1>1, <1>2, Zenon DEF RollbackState, RollbackSteps
<1>4. rb'.pc = "hint" /\ rb'.kind = kind /\ rb'.target = id /\ rb'.version = version
    BY <1>1, Zenon
<1>5. Live' = Live /\ Tagged' = Tagged
    BY <1>1, FilesStay, Zenon
<1>6. RollbackInv'
    <2>1. Exists(rb.target)' <=> id \in Live
        BY <1>4, <1>5, Files, Zenon
    <2> QED
        BY <1>1, <1>4, <1>5, <2>1, Zenon DEF RollbackInv, Hinted, Restoring, Cut, Untagged
<1>7. CleanInv'
    <2> SUFFICES ASSUME faults' = 0 PROVE CleanInv'
        BY Zenon DEF CleanInv
    <2>1. /\ \A i \in Live \cap Tagged : tags[i] = snaps[i]
          /\ \A i, j \in Live : i < j => j - 1 \in Live
          /\ \A i \in Live : earliest <= i
          /\ IF Live = {} THEN hint # 0 /\ \A t \in Tagged : t <= hint
             ELSE \A t \in Tagged : \E i \in Live : t <= i
        BY <1>1, Zenon DEF Inv, CleanInv, Restoring
    <2>2. ASSUME id \notin Live, NEW i \in Live PROVE i > id
        <3>1. PICK k \in Live : id <= k
            BY <2>1, <2>2, Zenon
        <3>2. Live \in SUBSET Ids /\ i \in Nat /\ id \in Nat
            BY <1>2, Files, SnapshotConstants DEF Ids
        <3>3. ~ (i <= id)
            BY <1>2, <2>1, <2>2, <3>1, <3>2, NoGapBetween, Zenon
        <3> QED
            BY <3>2, <3>3
    <2>3. ~Exists(rb.target)' => \A i \in Live : i > id
        BY <1>4, <1>5, <2>2, Files, Zenon
    <2> QED
        BY <1>1, <1>4, <1>5, <2>1, <2>3, Zenon DEF CleanInv, Restoring, Publishing
<1>8. rollbacks' \in 0..MaxRollbacks /\ hint' \in 0..MaxId /\ earliest' \in 0..MaxId
      /\ faults' <= MaxFaults
    BY <1>1, RollbackConstants, SnapshotConstants DEF Inv, RollbackTyped, TypeOK
<1> QED
    BY <1>1, <1>3, <1>6, <1>7, <1>8, RollbackOnly, Zenon DEF Inv

LEMMA StartSteps ==
    ASSUME ~Overlap, Inv, RollbackToSnapshot \/ RollbackToTag \/ RollbackToTimestamp
    PROVE  Inv'
<1>1. /\ \A i \in Live : snaps[i] \in Version /\ snaps[i] # 0
      /\ \A i \in Tagged : tags[i] \in Version /\ tags[i] # 0
    BY Zenon DEF Inv, RollbackTyped, TypeOK, Live, Tagged
<1>2. \A i \in Live \cap Tagged : tags[i] = snaps[i] \/ faults > 0
    <2>1. faults = 0 \/ faults > 0
        BY DEF Inv, RollbackTyped, TypeOK
    <2> QED
        BY <2>1, Zenon DEF Inv, CleanInv
<1>3. ASSUME NEW id \in Live, NEW kind \in {"snapshot", "timestamp"}, Start(kind, id, snaps[id])
      PROVE  Inv'
    BY <1>1, <1>3, StartKeeps, Zenon
<1>4. ASSUME NEW id \in Tagged, NEW kind \in {"tag", "timestamp"}, Start(kind, id, tags[id])
      PROVE  Inv'
    <2>1. id \in Live => \/ snaps[id] = tags[id]
                         \/ kind # "snapshot" /\ tags[id] = tags[id] /\ faults > 0
        BY <1>2, <1>4, Zenon
    <2> QED
        BY <1>1, <1>4, <2>1, StartKeeps, Zenon
<1>5. CASE RollbackToSnapshot
    <2>1. PICK id \in Live \cup Tagged :
              Start("snapshot", id, IF Exists(id) THEN snaps[id] ELSE tags[id])
        BY <1>5, Zenon DEF RollbackToSnapshot
    <2>2. Exists(id) <=> id \in Live
        BY Files, Zenon
    <2>3. CASE id \in Live
        <3>1. Start("snapshot", id, snaps[id])
            BY <2>1, <2>2, <2>3, Zenon
        <3> QED
            BY <1>3, <2>3, <3>1, Zenon
    <2>4. CASE id \notin Live
        <3>1. Start("snapshot", id, tags[id])
            BY <2>1, <2>2, <2>4, Zenon
        <3> QED
            BY <1>1, <2>4, <3>1, StartKeeps, Zenon
    <2> QED
        BY <2>3, <2>4, Zenon
<1>6. CASE RollbackToTag
    BY <1>4, <1>6, Zenon DEF RollbackToTag
<1>7. CASE RollbackToTimestamp
    BY <1>3, <1>4, <1>7, Zenon DEF RollbackToTimestamp
<1> QED
    BY <1>5, <1>6, <1>7, Zenon

(* The hint first: BeginLatestHint, EndLatestHint, ListNewer. *)
LEMMA LatestHintSteps ==
    ASSUME ~Overlap, Inv, BeginLatestHint \/ EndLatestHint
    PROVE  Inv'
<1>1. /\ rb \in RollbackState /\ rb.pc \in {"hint", "hinting"}
      /\ UNCHANGED <<snaps, pc, job, refused, fresh, faults, lost, tags, earliest, rollbacks>>
      /\ \/ rb.pc = "hint" /\ hint' = 0 /\ Proceed("hinting")
         \/ hint' = rb.target /\ Proceed("list")
    BY DEF Inv, RollbackTyped, BeginLatestHint, EndLatestHint
<1>2. \A w \in Writers : pc[w] = "idle"
    BY <1>1, RollbackAlone, Zenon
<1>3. /\ rb' \in RollbackState /\ rb'.kind = rb.kind /\ rb'.target = rb.target
      /\ rb'.version = rb.version
      /\ (rb'.pc = "hinting" /\ hint' = 0) \/ (rb'.pc = "list" /\ hint' = rb.target)
    <2>1. {"hinting", "list"} \subseteq RollbackSteps
        BY Zenon DEF RollbackSteps
    <2> QED
        BY <1>1, <2>1, ProceedTyped, Zenon
<1>4. /\ Live' = Live /\ Tagged' = Tagged
      /\ Exists(rb.target)' <=> Exists(rb.target)
    BY <1>1, <1>3, FilesStay, Files, Zenon
<1>5. RollbackInv'
    BY <1>1, <1>3, <1>4, ZenonT(30) DEF Inv, RollbackInv, Hinted, Restoring, Cut, Untagged
<1>6. CleanInv'
    BY <1>1, <1>2, <1>3, <1>4, Zenon DEF Inv, CleanInv, Restoring, Publishing
<1>7. rb.target \in Live \cup Tagged
    BY <1>1, Zenon DEF Inv, RollbackInv
<1>8. hint' \in 0..MaxId /\ (hint' # 0 => hint' \in Live \cup Tagged)
    BY <1>1, <1>3, <1>7, SnapshotConstants DEF RollbackState
<1>9. earliest' \in 0..MaxId /\ rollbacks' \in 0..MaxRollbacks /\ faults' <= MaxFaults
    BY <1>1 DEF Inv, RollbackTyped, TypeOK
<1> QED
    BY <1>1, <1>2, <1>3, <1>5, <1>6, <1>8, <1>9, RollbackOnly, Zenon

LEMMA ListSteps ==
    ASSUME ~Overlap, Inv, ListNewer \/ ListNewerTags
    PROVE  Inv'
<1>1. /\ rb \in RollbackState
      /\ UNCHANGED <<snaps, hint, pc, job, refused, fresh, faults, lost, tags, earliest, rollbacks>>
      /\ \/ /\ rb.pc = "list"
            /\ rb' = [rb EXCEPT !.pc = "delete", !.todo = {i \in Live : i > rb.target}]
         \/ /\ rb.pc = "delete" /\ rb.todo = {}
            /\ rb' = [rb EXCEPT !.pc = "untag", !.todo = {i \in Tagged : i > rb.target}]
    BY DEF Inv, RollbackTyped, ListNewer, ListNewerTags, vars
<1>2. \A w \in Writers : pc[w] = "idle"
    BY <1>1, RollbackAlone
<1>3. /\ rb' \in RollbackState /\ rb'.kind = rb.kind /\ rb'.target = rb.target
      /\ rb'.version = rb.version
      /\ \/ rb'.pc = "delete" /\ rb'.todo = {i \in Live : i > rb.target}
         \/ /\ rb.pc = "delete" /\ rb.todo = {}
            /\ rb'.pc = "untag" /\ rb'.todo = {i \in Tagged : i > rb.target}
    <2>1. {"delete", "untag"} \subseteq RollbackSteps
        BY DEF RollbackSteps
    <2>2. /\ {i \in Live : i > rb.target} \in SUBSET Ids
          /\ {i \in Tagged : i > rb.target} \in SUBSET Ids
        BY Files
    <2> QED
        BY <1>1, <2>1, <2>2, TodoTyped, ZenonT(30)
<1>4. /\ Live' = Live /\ Tagged' = Tagged
      /\ Exists(rb.target)' <=> Exists(rb.target)
    BY <1>1, <1>3, FilesStay, Files, Zenon
<1>5. rb'.pc = "untag" => \A i \in Live : i <= rb.target
    <2> SUFFICES ASSUME rb.pc = "delete", rb.todo = {}, NEW i \in Live PROVE i <= rb.target
        BY <1>1, <1>3
    <2>1. i \in Nat /\ rb.target \in Nat
        BY <1>1, Files, SnapshotConstants DEF Ids, RollbackState
    <2>2. ~ (i > rb.target)
        BY DEF Inv, RollbackInv
    <2> QED
        BY <2>1, <2>2
<1>6. RollbackInv'
    BY <1>1, <1>3, <1>4, <1>5, Zenon DEF Inv, RollbackInv, Hinted, Restoring, Cut, Untagged
<1>7. CleanInv'
    BY <1>1, <1>2, <1>3, <1>4, Zenon DEF Inv, CleanInv, Restoring, Publishing
<1>8. /\ hint' \in 0..MaxId /\ (hint' # 0 => hint' \in Live \cup Tagged)
      /\ earliest' \in 0..MaxId /\ rollbacks' \in 0..MaxRollbacks /\ faults' <= MaxFaults
    BY <1>1 DEF Inv, RollbackTyped, TypeOK
<1> QED
    BY <1>1, <1>2, <1>3, <1>6, <1>7, <1>8, RollbackOnly, Zenon

LEMMA DeleteSteps ==
    ASSUME ~Overlap, Inv, DeleteSnapshot
    PROVE  Inv'
<1> DEFINE id == Max(rb.todo)
<1>1. /\ rb \in RollbackState /\ rb.pc = "delete" /\ rb.todo # {}
      /\ snaps' = [snaps EXCEPT ![id] = 0] /\ rb' = [rb EXCEPT !.todo = @ \ {id}]
      /\ UNCHANGED <<hint, pc, job, refused, fresh, faults, lost, tags, earliest, rollbacks>>
    BY Zenon DEF Inv, RollbackTyped, DeleteSnapshot, NextToDelete
<1>2. /\ \A w \in Writers : pc[w] = "idle"
      /\ rb.todo = {i \in Live : i > rb.target}
    BY <1>1, RollbackAlone, Zenon DEF Inv, RollbackInv
<1>3. id \in rb.todo /\ \A i \in rb.todo : id >= i
    BY <1>1, MaxOfIds, Zenon DEF RollbackState
<1> HIDE DEF id
<1>4. id \in Live /\ id \in Ids /\ id > rb.target /\ \A i \in Live : i <= id
    <2>1. id \in Live /\ id \in Ids /\ id > rb.target
        BY <1>2, <1>3, Files, Zenon
    <2>2. ASSUME NEW i \in Live PROVE i <= id
        <3>1. i \in Nat /\ id \in Nat /\ rb.target \in Nat
            BY <1>1, <2>1, Files, SnapshotConstants DEF Ids, RollbackState
        <3>2. i > rb.target => i <= id
            BY <1>2, <1>3, <3>1, Zenon
        <3> QED
            BY <2>1, <3>1, <3>2
    <2> QED
        BY <2>1, <2>2, Zenon
<1>5. /\ Live' = Live \ {id} /\ Tagged' = Tagged
      /\ \A k \in Ids : k # id => snaps'[k] = snaps[k]
    BY <1>1, <1>4, FileDeleted, FilesStay, Zenon DEF Inv, RollbackTyped
<1>6. /\ rb' \in RollbackState /\ rb'.kind = rb.kind /\ rb'.target = rb.target /\ rb'.pc = "delete"
      /\ rb'.version = rb.version /\ rb'.todo = rb.todo \ {id}
    BY <1>1, Zenon DEF RollbackState
<1>7. rb.target # id /\ rb.target \in Live \cup Tagged /\ rb.target \in Ids
    BY <1>1, <1>4, Files, SnapshotConstants DEF Inv, RollbackInv, RollbackState, Ids
<1>8. Exists(rb.target)' <=> Exists(rb.target)
    BY <1>5, <1>6, <1>7, Files, Zenon
<1>9. RollbackInv'
    <2>1. rb'.todo = {i \in Live' : i > rb.target}
        BY <1>2, <1>5, <1>6, Zenon
    <2>2. snaps'[rb.target] = snaps[rb.target]
        BY <1>5, <1>7, Zenon
    <2>3. rb.target \in Live' \cup Tagged
        BY <1>5, <1>7, Zenon
    <2> QED
        BY <1>1, <1>5, <1>6, <1>8, <2>1, <2>2, <2>3, Zenon
        DEF Inv, RollbackInv, Hinted, Restoring, Cut, Untagged
<1>10. hint' = rb.target /\ hint' \in Live' \cup Tagged'
    BY <1>1, <1>5, <1>7, Zenon DEF Inv, RollbackInv, Hinted
<1>11. Gap(Live', Tagged', faults')
    BY <1>1, <1>4, <1>5, Files, GapIs, NewestGoes, Zenon DEF Inv
<1>12. CleanInv'
    <2> SUFFICES ASSUME faults' = 0 PROVE CleanInv'
        BY DEF CleanInv
    <2>1. /\ \A i \in Live \cap Tagged : tags[i] = snaps[i]
          /\ \A i, j \in Live : i < j => j - 1 \in Live
          /\ \A i \in Live : earliest <= i
          /\ ~Exists(rb.target) => \A i \in Live : i > rb.target
        BY <1>1, Zenon DEF Inv, CleanInv, Restoring
    <2>2. \A i \in Live' \cap Tagged : tags[i] = snaps'[i]
        BY <1>5, <2>1, Files, Zenon
    <2>3. ASSUME NEW i \in Live', NEW j \in Live', i < j PROVE j - 1 \in Live'
        <3>1. j - 1 \in Live /\ j <= id /\ j \in Nat /\ id \in Nat
            BY <1>4, <1>5, <2>1, <2>3, Files, SnapshotConstants DEF Ids
        <3> QED
            BY <1>5, <3>1
    <2> QED
        BY <1>1, <1>2, <1>5, <1>6, <1>8, <2>1, <2>2, <2>3, Zenon DEF CleanInv, Restoring, Publishing
<1>13. RollbackTyped'
    <2>1. 0 \in Version
        BY SnapshotConstants DEF Version
    <2>2. snaps' \in [Ids -> Version]
        BY <1>1, <2>1, Zenon DEF Inv, RollbackTyped, TypeOK
    <2> QED
        BY <1>1, <1>6, <2>2, Zenon DEF Inv, RollbackTyped, TypeOK
<1> QED
    BY <1>1, <1>2, <1>9, <1>10, <1>11, <1>12, <1>13, RollbackKeeps, Zenon

LEMMA DeleteTagSteps ==
    ASSUME ~Overlap, Inv, DeleteTag
    PROVE  Inv'
<1>1. PICK id \in rb.todo : tags' = [tags EXCEPT ![id] = 0] /\ rb' = [rb EXCEPT !.todo = @ \ {id}]
    BY Zenon DEF DeleteTag
<1>2. /\ rb \in RollbackState /\ rb.pc = "untag"
      /\ UNCHANGED <<snaps, hint, pc, job, refused, fresh, faults, lost, earliest, rollbacks>>
    BY Zenon DEF Inv, RollbackTyped, DeleteTag, vars
<1>3. /\ \A w \in Writers : pc[w] = "idle"
      /\ rb.todo = {i \in Tagged : i > rb.target} /\ \A i \in Live : i <= rb.target
    BY <1>2, RollbackAlone, Zenon DEF Inv, RollbackInv, Cut
<1>4. id \in Tagged /\ id \in Ids /\ id > rb.target /\ id \notin Live /\ id # rb.target
    <2>1. id \in Tagged /\ id \in Ids /\ id > rb.target
        BY <1>1, <1>3, Files, Zenon
    <2>2. id \in Nat /\ rb.target \in Nat
        BY <1>2, <2>1, SnapshotConstants DEF Ids, RollbackState
    <2> QED
        BY <1>3, <2>1, <2>2
<1>5. /\ Live' = Live /\ Tagged' = Tagged \ {id} /\ tags' \in [Ids -> Version]
      /\ \A k \in Ids : k # id => tags'[k] = tags[k]
    <2>1. 0 \in Version
        BY SnapshotConstants DEF Version
    <2> QED
        BY <1>1, <1>2, <1>4, <2>1, FilesStay, Zenon DEF Inv, RollbackTyped, Tagged
<1>6. /\ rb' \in RollbackState /\ rb'.kind = rb.kind /\ rb'.target = rb.target /\ rb'.pc = "untag"
      /\ rb'.version = rb.version /\ rb'.todo = rb.todo \ {id}
    BY <1>1, <1>2, Zenon DEF RollbackState
<1>7. rb.target \in Live' \cup Tagged' /\ rb.target \in Ids
    BY <1>2, <1>4, <1>5, Files, Zenon DEF Inv, RollbackInv
<1>8. Exists(rb.target)' <=> Exists(rb.target)
    BY <1>5, <1>6, Files, Zenon
<1>9. RollbackInv'
    <2>1. rb'.todo = {i \in Tagged' : i > rb.target}
        BY <1>3, <1>5, <1>6, Zenon
    <2>2. tags'[rb.target] = tags[rb.target]
        BY <1>4, <1>5, <1>7, Zenon
    <2> QED
        BY <1>2, <1>5, <1>6, <1>7, <1>8, <2>1, <2>2, ZenonT(30)
        DEF Inv, RollbackInv, Hinted, Restoring, Cut, Untagged
<1>10. hint' \in Live' \cup Tagged'
    BY <1>2, <1>7, Zenon DEF Inv, RollbackInv, Hinted
<1>11. Gap(Live', Tagged', faults')
    BY <1>2, <1>4, <1>5, GapIs, Zenon DEF Inv, Gap
<1>12. CleanInv'
    <2> SUFFICES ASSUME faults' = 0 PROVE CleanInv'
        BY Zenon DEF CleanInv
    <2>1. /\ \A i \in Live \cap Tagged : tags[i] = snaps[i]
          /\ \A i, j \in Live : i < j => j - 1 \in Live
          /\ \A i \in Live : earliest <= i
          /\ ~Exists(rb.target) => \A i \in Live : i > rb.target
        BY <1>2, Zenon DEF Inv, CleanInv, Restoring
    <2>2. \A i \in Live' \cap Tagged' : tags'[i] = snaps[i]
        BY <1>5, <2>1, Files, Zenon
    <2> QED
        BY <1>2, <1>3, <1>5, <1>6, <1>8, <2>1, <2>2, Zenon DEF CleanInv, Restoring, Publishing
<1>13. RollbackTyped'
    BY <1>2, <1>5, <1>6, Zenon DEF Inv, RollbackTyped, TypeOK
<1> QED
    BY <1>2, <1>3, <1>9, <1>10, <1>11, <1>12, <1>13, RollbackKeeps, Zenon

(* The newer snapshots and tags are gone: Cleaned, TargetExists, RestoreCheck. *)
LEMMA CleanedSteps ==
    ASSUME ~Overlap, Inv, Cleaned \/ TargetExists \/ RestoreCheck
    PROVE  Inv'
<1>1. /\ rb \in RollbackState /\ rb.pc \in {"untag", "exists", "check"}
      /\ UNCHANGED <<snaps, hint, pc, job, refused, fresh, faults, lost, tags, earliest, rollbacks>>
      /\ rb.pc = "untag" => rb.todo = {}
      /\ \/ /\ rb.pc = "untag" /\ rb.kind = "timestamp" /\ Proceed("done")
         \/ /\ rb.pc = "untag" /\ rb.kind # "timestamp" /\ Proceed("exists")
         \/ /\ rb.pc = "exists" /\ Exists(rb.target) /\ Proceed("done")
         \/ /\ rb.pc = "exists" /\ ~Exists(rb.target) /\ Proceed("check")
         \/ /\ rb.pc = "check" /\ Proceed("rename")
    BY Zenon DEF Inv, RollbackTyped, RollbackInv, Cleaned, TargetExists, RestoreCheck, vars
<1>2. \A w \in Writers : pc[w] = "idle"
    BY <1>1, RollbackAlone, Zenon
<1>3. /\ rb' \in RollbackState /\ rb'.kind = rb.kind /\ rb'.target = rb.target
      /\ rb'.version = rb.version
      /\ \/ /\ rb.pc = "untag" /\ rb.kind = "timestamp" /\ rb'.pc = "done"
         \/ /\ rb.pc = "untag" /\ rb.kind # "timestamp" /\ rb'.pc = "exists"
         \/ /\ rb.pc = "exists" /\ Exists(rb.target) /\ rb'.pc = "done"
         \/ /\ rb.pc = "exists" /\ ~Exists(rb.target) /\ rb'.pc = "check"
         \/ /\ rb.pc = "check" /\ rb'.pc = "rename"
    <2>1. {"exists", "check", "rename", "done"} \subseteq RollbackSteps
        BY Zenon DEF RollbackSteps
    <2> QED
        BY <1>1, <2>1, ProceedTyped, Zenon
<1>4. /\ Live' = Live /\ Tagged' = Tagged
      /\ Exists(rb.target)' <=> Exists(rb.target)
    BY <1>1, <1>3, FilesStay, Files, Zenon
<1>5. /\ rb.target \in Ids /\ rb.target \in Nat /\ rb.target > 0 /\ hint = rb.target
      /\ \A i \in Live : i \in Nat /\ i <= rb.target
    <2>1. hint = rb.target /\ rb.target \in Live \cup Tagged /\ \A i \in Live : i <= rb.target
        BY <1>1, Zenon DEF Inv, RollbackInv, Hinted, Cut
    <2> QED
        BY <2>1, Files, IdsArePositive, Zenon
<1>6. \A i \in Tagged : i <= rb.target
    <2>1. CASE rb.pc = "untag"
        <3> SUFFICES ASSUME NEW i \in Tagged PROVE i <= rb.target
            BY Zenon
        <3>1. i \in Nat
            BY Files, SnapshotConstants DEF Ids
        <3>2. ~ (i > rb.target)
            BY <1>1, <2>1, Zenon DEF Inv, RollbackInv
        <3> QED
            BY <1>5, <3>1, <3>2
    <2>2. CASE rb.pc # "untag"
        BY <1>1, <2>2, Zenon DEF Inv, RollbackInv, Untagged, Cut
    <2> QED
        BY <2>1, <2>2, Zenon
<1>7. RollbackInv'
    <2>1. rb.pc # "untag" => rb.kind # "timestamp"
        BY <1>1, Zenon DEF Inv, RollbackInv, Untagged, Cut
    <2> QED
        BY <1>1, <1>3, <1>4, <1>5, <1>6, <2>1, ZenonT(30)
        DEF Inv, RollbackInv, Hinted, Restoring, Cut, Untagged
<1>8. CleanInv'
    <2> SUFFICES ASSUME faults' = 0 PROVE CleanInv'
        BY Zenon DEF CleanInv
    <2>1. /\ \A i \in Live \cap Tagged : tags[i] = snaps[i]
          /\ \A i, j \in Live : i < j => j - 1 \in Live
          /\ \A i \in Live : earliest <= i
          /\ ~Exists(rb.target) => \A i \in Live : i > rb.target
        BY <1>1, Zenon DEF Inv, CleanInv, Restoring
    <2>2. IF Live = {} THEN hint # 0 /\ \A t \in Tagged : t <= hint
          ELSE \A t \in Tagged : \E i \in Live : t <= i
        <3>1. CASE Exists(rb.target)
            BY <1>6, <3>1, Files, Zenon
        <3>2. CASE ~Exists(rb.target)
            <4>1. Live = {}
                BY <1>5, <2>1, <3>2
            <4> QED
                BY <1>5, <1>6, <4>1
        <3> QED
            BY <3>1, <3>2, Zenon
    <2> QED
        BY <1>1, <1>2, <1>3, <1>4, <2>1, <2>2, Zenon DEF CleanInv, Restoring, Publishing
<1>9. hint' \in 0..MaxId /\ (hint' # 0 => hint' \in Live \cup Tagged)
      /\ earliest' \in 0..MaxId /\ rollbacks' \in 0..MaxRollbacks /\ faults' <= MaxFaults
    BY <1>1 DEF Inv, RollbackTyped, TypeOK
<1> QED
    BY <1>1, <1>2, <1>3, <1>7, <1>8, <1>9, RollbackOnly, Zenon

LEMMA RestoreFileSteps ==
    ASSUME ~Overlap, Inv, RestoreFile
    PROVE  Inv'
<1>1. /\ rb \in RollbackState /\ rb.pc = "rename"
      /\ snaps' = [snaps EXCEPT ![rb.target] = rb.version] /\ Proceed("restored")
      /\ UNCHANGED <<hint, pc, job, refused, fresh, faults, lost, tags, earliest, rollbacks>>
    BY Zenon DEF Inv, RollbackTyped, RestoreFile
<1>2. \A w \in Writers : pc[w] = "idle"
    BY <1>1, RollbackAlone, Zenon
<1>3. /\ rb' \in RollbackState /\ rb'.kind = rb.kind /\ rb'.target = rb.target
      /\ rb'.version = rb.version /\ rb'.pc = "restored"
    <2>1. "restored" \in RollbackSteps
        BY Zenon DEF RollbackSteps
    <2> QED
        BY <1>1, <2>1, ProceedTyped, Zenon
<1>4. /\ rb.target \in Tagged \ Live /\ rb.target \in Ids /\ rb.target \in Nat
      /\ rb.version \in Version /\ rb.version # 0 /\ tags[rb.target] = rb.version
      /\ hint = rb.target /\ rb.kind # "timestamp"
      /\ \A i \in Live : i \in Nat /\ i <= rb.target
      /\ \A i \in Tagged : i <= rb.target
    <2>1. ~Exists(rb.target) /\ rb.target \in Live \cup Tagged
        BY <1>1, Zenon DEF Inv, RollbackInv
    <2>2. /\ rb.target \in Tagged \ Live /\ rb.target \in Ids /\ rb.target \in Nat
          /\ \A i \in Live : i \in Nat
        BY <2>1, Files, IdsArePositive, Zenon
    <2>3. rb.version \in Version /\ rb.version # 0 /\ tags[rb.target] = rb.version
        BY <1>1, <2>1, Zenon DEF Inv, RollbackInv, RollbackState
    <2>4. /\ hint = rb.target /\ rb.kind # "timestamp"
          /\ \A i \in Live : i <= rb.target
          /\ \A i \in Tagged : i <= rb.target
        BY <1>1, Zenon DEF Inv, RollbackInv, Hinted, Cut, Untagged
    <2> QED
        BY <2>2, <2>3, <2>4, Zenon
<1>5. /\ Live' = Live \cup {rb.target} /\ Tagged' = Tagged /\ snaps'[rb.target] = rb.version
      /\ \A k \in Ids : k # rb.target => snaps'[k] = snaps[k]
    BY <1>1, <1>4, FileWritten, FilesStay, ZenonT(30) DEF Inv, RollbackTyped
<1>6. Exists(rb.target)'
    BY <1>3, <1>5, Files, Zenon
<1>7. RollbackInv'
    BY <1>1, <1>3, <1>4, <1>5, <1>6, Zenon DEF RollbackInv, Hinted, Restoring, Cut, Untagged
<1>8. faults = 0 => Live = {}
    BY <1>1, <1>4, Files DEF Inv, CleanInv
<1>9. Gap(Live', Tagged', faults')
    <2> SUFFICES ASSUME NEW i \in Live', NEW k \in Live', k < i, i - 1 \notin Live'
                 PROVE  i \in Tagged /\ faults > 0
        BY <1>1, <1>5, Zenon DEF Gap
    <2>1. faults \in Nat
        BY SnapshotConstants DEF Inv, RollbackTyped, TypeOK
    <2>2. k \in Live
        BY <1>4, <1>5
    <2>3. faults > 0
        BY <1>8, <2>1, <2>2
    <2>4. CASE i \in Live
        BY <1>5, <2>2, <2>4, GapIs, Zenon DEF Inv, Gap
    <2>5. CASE i = rb.target
        BY <1>4, <2>3, <2>5, Zenon
    <2> QED
        BY <1>5, <2>4, <2>5, Zenon
<1>10. CleanInv'
    <2> SUFFICES ASSUME faults' = 0 PROVE CleanInv'
        BY DEF CleanInv
    <2>1. Live' = {rb.target}
        BY <1>1, <1>5, <1>8, Zenon
    <2> QED
        BY <1>1, <1>2, <1>3, <1>4, <1>5, <1>6, <2>1 DEF CleanInv, Restoring, Publishing
<1>11. RollbackTyped'
    BY <1>1, <1>3, <1>4, ZenonT(30) DEF Inv, RollbackTyped, TypeOK
<1> QED
    BY <1>1, <1>2, <1>4, <1>5, <1>7, <1>9, <1>10, <1>11, RollbackKeeps, Zenon

LEMMA RestoreHintSteps ==
    ASSUME ~Overlap, Inv, BeginRestoreHint \/ EndRestoreHint \/ RestoreHintFails \/ WriteEarliestHint
    PROVE  Inv'
<1>1. /\ rb \in RollbackState /\ rb.pc \in Restoring
      /\ UNCHANGED <<snaps, pc, job, refused, fresh, faults, lost, tags, rollbacks>>
      /\ hint' \in {0, rb.target, hint} /\ earliest' \in {earliest, rb.target}
      /\ \/ Proceed("rehinting")
         \/ Proceed("earliest")
         \/ Proceed("done") /\ earliest' = rb.target
    BY Zenon DEF Inv, RollbackTyped, BeginRestoreHint, EndRestoreHint, RestoreHintFails, WriteEarliestHint,
           vars, Restoring
<1>2. \A w \in Writers : pc[w] = "idle"
    BY <1>1, RollbackAlone, Zenon DEF Restoring
<1>3. /\ rb' \in RollbackState /\ rb'.kind = rb.kind /\ rb'.target = rb.target
      /\ rb'.version = rb.version
      /\ rb'.pc \in Restoring \/ (rb'.pc = "done" /\ earliest' = rb.target)
    <2>1. {"rehinting", "earliest", "done"} \subseteq RollbackSteps
        BY Zenon DEF RollbackSteps
    <2> QED
        BY <1>1, <2>1, ProceedTyped, Zenon DEF Restoring
<1>4. /\ Live' = Live /\ Tagged' = Tagged
      /\ Exists(rb.target)' <=> Exists(rb.target)
    BY <1>1, <1>3, FilesStay, Files, Zenon
<1>5. /\ Exists(rb.target) /\ rb.target \in Live /\ rb.target \in 0..MaxId /\ rb.kind # "timestamp"
      /\ hint \in {0, rb.target} /\ rb.version # 0
      /\ (\A i \in Live : i <= rb.target) /\ (\A i \in Tagged : i <= rb.target)
    <2>1. Exists(rb.target) /\ rb.version # 0 /\ hint \in {0, rb.target}
        BY <1>1, Zenon DEF Inv, RollbackInv, Restoring
    <2>2. /\ (\A i \in Live : i <= rb.target) /\ (\A i \in Tagged : i <= rb.target)
          /\ rb.kind # "timestamp"
        BY <1>1, Zenon DEF Inv, RollbackInv, Restoring, Cut, Untagged
    <2> QED
        BY <1>1, <2>1, <2>2, Files, Zenon DEF RollbackState
<1>6. RollbackInv'
    <2>1. \/ snaps[rb.target] = rb.version
          \/ rb.kind # "snapshot" /\ tags[rb.target] = rb.version /\ faults > 0
        BY <1>1, <1>5, Zenon DEF Inv, RollbackInv, Restoring
    <2> QED
        BY <1>1, <1>3, <1>4, <1>5, <2>1, Zenon DEF RollbackInv, Hinted, Restoring, Cut, Untagged
<1>7. CleanInv'
    <2> SUFFICES ASSUME faults' = 0 PROVE CleanInv'
        BY ZenonT(30) DEF CleanInv
    <2>1. /\ \A i \in Live \cap Tagged : tags[i] = snaps[i]
          /\ \A i, j \in Live : i < j => j - 1 \in Live
          /\ Live \subseteq {rb.target}
        BY <1>1, SMTT(30) DEF Inv, CleanInv
    <2>2. rb'.pc = "done" => \A i \in Live : earliest' <= i
        BY <1>3, <1>5, <2>1, SnapshotConstants, Zenon DEF Restoring
    <2> QED
        BY <1>1, <1>2, <1>3, <1>4, <1>5, <2>1, <2>2, Zenon DEF CleanInv, Restoring, Publishing
<1>8. hint' \in 0..MaxId /\ (hint' # 0 => hint' \in Live \cup Tagged)
    <2>1. hint' \in {0, rb.target} /\ 0 \in 0..MaxId
        BY <1>1, <1>5, SnapshotConstants
    <2> QED
        BY <1>5, <2>1, Zenon
<1>9. earliest' \in 0..MaxId /\ rollbacks' \in 0..MaxRollbacks /\ faults' <= MaxFaults
    BY <1>1, <1>5 DEF Inv, RollbackTyped, TypeOK
<1> QED
    BY <1>1, <1>2, <1>3, <1>6, <1>7, <1>8, <1>9, RollbackOnly, Zenon

LEMMA CrashSteps ==
    ASSUME ~Overlap, Inv, CrashRollback
    PROVE  Inv'
<1>1. /\ rb' = NoRollback /\ faults' = faults + 1 /\ faults' <= MaxFaults /\ faults \in Nat
      /\ UNCHANGED <<snaps, hint, pc, job, refused, fresh, lost, tags, earliest, rollbacks>>
      /\ \A w \in Writers : pc[w] = "idle"
    BY RollbackAlone, SnapshotConstants DEF Inv, RollbackTyped, TypeOK, CrashRollback
<1>2. rb' \in RollbackState
    BY <1>1, SnapshotConstants DEF NoRollback, RollbackState, RollbackSteps, Version
<1>3. RollbackInv' /\ CleanInv'
    <2>1. rb'.pc = "idle" /\ faults' # 0
        BY <1>1 DEF NoRollback
    <2> QED
        BY <2>1, Zenon DEF RollbackInv, CleanInv
<1> QED
    BY <1>1, <1>2, <1>3, RollbackOnly, Zenon DEF Inv, RollbackTyped, TypeOK

LEMMA CreateTagSteps ==
    ASSUME ~Overlap, Inv, CreateTag
    PROVE  Inv'
<1>1. PICK id \in Live \ Tagged : tags' = [tags EXCEPT ![id] = snaps[id]]
    BY ZenonT(30) DEF CreateTag
<1>2. /\ rb.pc \in {"idle", "done"} /\ \A w \in Writers : pc[w] = "idle"
      /\ UNCHANGED <<snaps, hint, pc, job, refused, fresh, faults, lost, earliest, rb, rollbacks>>
    BY Zenon DEF CreateTag, Quiet, vars
<1>3. id \in Ids /\ snaps[id] \in Version /\ snaps[id] # 0 /\ id <= id
    BY <1>1, SnapshotConstants DEF Live, Inv, RollbackTyped, TypeOK, Ids
<1>4. /\ Live' = Live /\ Tagged' = Tagged \cup {id} /\ tags' \in [Ids -> Version]
      /\ tags'[id] = snaps[id] /\ \A k \in Ids : k # id => tags'[k] = tags[k]
    BY <1>1, <1>2, <1>3, FilesStay, Zenon DEF Inv, RollbackTyped, Tagged
<1>5. Exists(rb.target)' <=> Exists(rb.target)
    BY <1>2, <1>4, Files, Zenon
<1>6. RollbackInv'
    <2>1. rb.pc # "idle" /\ ~Exists(rb.target) => tags'[rb.target] = tags[rb.target]
        BY <1>1, <1>4, Files, Zenon DEF Inv, RollbackInv
    <2>2. rb.pc = "done" => \A i \in Tagged' : i <= rb.target
        BY <1>1, <1>4, Zenon DEF Inv, RollbackInv, Cut, Untagged
    <2>3. ASSUME rb.pc # "idle", tags[rb.target] = rb.version
          PROVE  tags'[rb.target] = rb.version
        <3>1. rb.target \in Live \cup Tagged /\ rb.version # 0
            BY <2>3, Zenon DEF Inv, RollbackInv
        <3>2. rb.target \in Ids /\ rb.target \in Tagged
            BY <2>3, <3>1, Files, Zenon DEF Tagged
        <3> QED
            BY <1>1, <1>4, <2>3, <3>2, Zenon
    <2>4. rb.pc # "idle" /\ Exists(rb.target) =>
              \/ snaps[rb.target] = rb.version
              \/ rb.kind # "snapshot" /\ tags'[rb.target] = rb.version /\ faults > 0
        BY <2>3, Zenon DEF Inv, RollbackInv
    <2>5. UNCHANGED <<rb, snaps, faults>>
        BY <1>2, Zenon
    <2> QED
        BY <1>2, <1>4, <1>5, <2>1, <2>2, <2>4, <2>5, ZenonT(30)
        DEF Inv, RollbackInv, Hinted, Restoring, Cut, Untagged
<1>7. CleanInv'
    <2> SUFFICES ASSUME faults' = 0 PROVE CleanInv'
        BY DEF CleanInv
    <2>1. /\ \A i \in Live \cap Tagged : tags[i] = snaps[i]
          /\ \A i, j \in Live : i < j => j - 1 \in Live
          /\ \A i \in Live : earliest <= i
          /\ \A t \in Tagged : \E i \in Live : t <= i
          /\ rb.pc # "idle" /\ ~Exists(rb.target) => \A i \in Live : i > rb.target
        BY <1>1, <1>2, ZenonT(30) DEF Inv, CleanInv, Restoring
    <2>2. \A i \in Live \cap Tagged' : tags'[i] = snaps[i]
        BY <1>4, <2>1, Files, ZenonT(30)
    <2>3. Live # {} /\ \A t \in Tagged' : \E i \in Live : t <= i
        BY <1>1, <1>3, <1>4, <2>1, Zenon
    <2> QED
        BY <1>2, <1>4, <1>5, <2>1, <2>2, <2>3, Zenon DEF CleanInv, Restoring, Publishing
<1>8. RollbackTyped'
    BY <1>2, <1>4, Zenon DEF Inv, RollbackTyped, TypeOK
<1>9. Gap(Live', Tagged', faults')
    BY <1>2, <1>4, GapIs, Zenon DEF Inv, Gap
<1>10. hint' # 0 => hint' \in Live' \cup Tagged'
    BY <1>2, <1>4, Zenon DEF Inv
<1> QED
    BY <1>2, <1>6, <1>7, <1>8, <1>9, <1>10, RollbackKeeps, Zenon

--------------------------------------------------------------------------------

LEMMA RollbackInitially ==
    ASSUME RollbackInit
    PROVE  Inv
<1>1. /\ snaps = [i \in Ids |-> IF i \in First..Last THEN i ELSE 0]
      /\ tags = [i \in Ids |-> IF i \in InitialTags THEN i ELSE 0]
      /\ hint \in {0} \cup First..Last /\ earliest \in {0, First} /\ rb = NoRollback
      /\ pc = [w \in Writers |-> "idle"] /\ rollbacks = 0 /\ faults = 0
    BY DEF RollbackInit, Init
<1>2. TypeOK
    BY InitTyped, Zenon DEF RollbackInit
<1>3. Live = First..Last /\ Tagged = InitialTags /\ First..Last \subseteq 1..Last
    <2>1. First..Last \subseteq Ids /\ InitialTags \subseteq Ids /\ \A i \in Ids : i # 0
        BY SnapshotConstants, RollbackConstants DEF Ids
    <2> QED
        BY <1>1, <2>1, SnapshotConstants DEF Live, Tagged
<1>4. \A i \in 1..Last : i \in Version /\ i \in 0..MaxId
    BY SnapshotConstants DEF Version
<1>5. RollbackTyped
    <2>1. tags \in [Ids -> Version]
        <3>1. 0 \in Version /\ \A i \in InitialTags : i \in Version
            BY <1>4, RollbackConstants, SnapshotConstants DEF Version
        <3> QED
            BY <1>1, <3>1, Zenon
    <2>2. rb \in RollbackState
        BY <1>1, SnapshotConstants DEF NoRollback, RollbackState, RollbackSteps, Version
    <2>3. earliest \in 0..MaxId /\ rollbacks \in 0..MaxRollbacks
        BY <1>1, SnapshotConstants, RollbackConstants
    <2> QED
        BY <1>2, <2>1, <2>2, <2>3, Zenon DEF RollbackTyped
<1>6. Alone /\ \A w \in Writers : LookedUp(w)
    BY <1>1, Zenon DEF Alone, LookedUp, Publishing
<1>7. RollbackInv /\ (hint # 0 => hint \in Live \cup Tagged)
    BY <1>1, <1>3, Zenon DEF RollbackInv, NoRollback
<1>8. \A i, k \in Live : k < i => i - 1 \in Live
    BY <1>3, SnapshotConstants
<1>9. GapOnlyBelowRestored
    BY <1>8, GapIs, Zenon DEF Gap
<1>10. CleanInv
    <2>1. rb.pc = "idle"
        BY <1>1, Zenon DEF NoRollback
    <2>2. \A i \in Live \cap Tagged : tags[i] = snaps[i]
        BY <1>1, <1>3, Files, Zenon
    <2>3. \A i \in Live : earliest <= i
        BY <1>1, <1>3, SnapshotConstants
    <2>4. Last \in Live /\ \A t \in Tagged : t <= Last
        BY <1>3, SnapshotConstants, RollbackConstants
    <2>5. \A w \in Writers : pc[w] \notin Publishing
        BY <1>1, Zenon DEF Publishing
    <2> QED
        BY <1>8, <2>1, <2>2, <2>3, <2>4, <2>5, Zenon DEF CleanInv, Restoring
<1> QED
    BY <1>5, <1>6, <1>7, <1>9, <1>10, Zenon DEF Inv

LEMMA RollbackStutters ==
    ASSUME Inv, UNCHANGED <<vars, rvars>>
    PROVE  Inv'
<1>1. UNCHANGED <<snaps, hint, pc, job, refused, fresh, faults, lost, tags, earliest, rb, rollbacks>>
    BY Zenon DEF vars, rvars
<1>2. Live' = Live /\ Tagged' = Tagged /\ \A i : Exists(i)' <=> Exists(i)
    BY <1>1, FilesStay, Files, Zenon
<1>3. RollbackTyped'
    BY <1>1, Zenon DEF Inv, RollbackTyped, TypeOK
<1>4. Alone' /\ \A w \in Writers : LookedUp(w)'
    BY <1>1, <1>2, Zenon DEF Inv, Alone, LookedUp
<1>5. RollbackInv'
    BY <1>1, <1>2, ZenonT(30) DEF Inv, RollbackInv
<1>6. CleanInv'
    BY <1>1, <1>2, Zenon DEF Inv, CleanInv
<1>7. GapOnlyBelowRestored' /\ (hint' # 0 => hint' \in Live' \cup Tagged')
    BY <1>1, <1>2, Zenon DEF Inv, GapOnlyBelowRestored
<1> QED
    BY <1>3, <1>4, <1>5, <1>6, <1>7, Zenon DEF Inv

LEMMA RollbackInductive ==
    ASSUME ~Overlap, Inv, [RollbackNext]_<<vars, rvars>>
    PROVE  Inv'
BY WriterStepKeeps, CreateTagSteps, StartSteps, LatestHintSteps, ListSteps, DeleteSteps,
   DeleteTagSteps, CleanedSteps, RestoreFileSteps, RestoreHintSteps, CrashSteps, RollbackStutters, Zenon
   DEF RollbackNext

LEMMA ReachesTarget ==
    ASSUME Inv
    PROVE  RollbackReachesTarget
<1> SUFFICES ASSUME rb.pc = "done", rb.kind = "timestamp" => Exists(rb.target)
             PROVE  /\ Exists(rb.target)
                    /\ LookupId = rb.target
                    /\ \/ snaps[rb.target] = rb.version
                       \/ rb.kind # "snapshot" /\ tags[rb.target] = rb.version /\ faults > 0
    BY Zenon DEF RollbackReachesTarget
<1>1. /\ Exists(rb.target) /\ hint \in {0, rb.target} /\ \A i \in Live : i <= rb.target
      /\ \/ snaps[rb.target] = rb.version
         \/ rb.kind # "snapshot" /\ tags[rb.target] = rb.version /\ faults > 0
    BY Zenon DEF Inv, RollbackInv, Cut
<1>2. rb.target \in Live /\ rb.target \in Nat /\ rb.target > 0
    BY <1>1, Files, IdsArePositive, Zenon
<1>3. ~Exists(rb.target + 1)
    BY <1>1, <1>2, Files
<1>4. CASE hint = rb.target
    BY <1>1, <1>2, <1>3, <1>4, Zenon DEF LookupId
<1>5. CASE hint = 0
    <2>1. LookupId = Latest
        BY <1>5 DEF LookupId
    <2>2. Latest \in Live /\ Latest >= rb.target /\ Latest \in Nat
        BY <1>2, LatestTyped, Files, IdsArePositive, Zenon
    <2>3. Latest <= rb.target
        BY <1>1, <2>2, Zenon
    <2> QED
        BY <1>1, <1>2, <2>1, <2>2, <2>3
<1> QED
    BY <1>1, <1>4, <1>5, Zenon

LEMMA NeverStale ==
    ASSUME Inv
    PROVE  LookupNeverStale
<1>1. ASSUME hint # 0, ~Exists(hint) PROVE tags[hint] # 0
    BY <1>1, Files, Zenon DEF Inv, Tagged
<1>2. ASSUME Live # {}, Exists(LookupId), LookupId # Latest
      PROVE  faults > 0 /\ \E i \in Live \cap Tagged : i > LookupId /\ ~Exists(i - 1)
    <2>1. hint > 0 /\ ~Exists(hint + 1) /\ LookupId = hint
        BY <1>2, Zenon DEF LookupId
    <2>2. hint \in Live /\ hint \in Nat /\ hint + 1 \notin Live /\ Live \subseteq Nat
        BY <1>2, <2>1, Files, IdsArePositive, Zenon
    <2>3. Latest \in Live /\ Latest \in Nat /\ hint <= Latest
        BY <1>2, <2>2, LatestTyped
    <2> DEFINE T == {i \in Live : i > hint}
    <2>4. T \in SUBSET Nat /\ Latest \in T
        <3>1. Latest # hint
            BY <1>2, <2>1, Zenon
        <3>2. Latest > hint
            BY <2>2, <2>3, <3>1
        <3> QED
            BY <2>2, <2>3, <3>2, Zenon
    <2>5. PICK t \in T : \A u \in T : t <= u
        BY <2>4, HasLeast, Zenon
    <2>6. t \in Live /\ t \in Nat /\ t > hint /\ t # hint + 1
        BY <2>2, <2>5, Zenon
    <2>7. t - 1 \notin Live
        <3>1. t - 1 > hint /\ ~ (t <= t - 1)
            BY <2>2, <2>6
        <3>2. t - 1 \notin T
            BY <2>5, <3>1, Zenon
        <3> QED
            BY <3>1, <3>2, Zenon
    <2>8. t \in Tagged /\ faults > 0
        BY <2>2, <2>6, <2>7, GapIs, Zenon DEF Inv, Gap
    <2> QED
        BY <2>1, <2>6, <2>7, <2>8, Files, Zenon
<1> QED
    BY <1>1, <1>2, Zenon DEF LookupNeverStale

LEMMA IsClean ==
    ASSUME Inv
    PROVE  RollbackIsClean
<1> SUFFICES ASSUME rb.pc \in {"idle", "done"}, faults = 0
             PROVE  /\ Live # {} => EarliestId = Min(Live)
                    /\ \A i \in Live \cap Tagged : tags[i] = snaps[i]
    BY Zenon DEF RollbackIsClean
<1>1. (\A i \in Live \cap Tagged : tags[i] = snaps[i]) /\ \A i \in Live : earliest <= i
    BY Zenon DEF Inv, CleanInv, Restoring
<1>2. Exists(earliest) => Min(Live) = earliest
    <2> SUFFICES ASSUME earliest \in Live PROVE Min(Live) = earliest
        BY Files
    <2>1. Live \subseteq Nat
        BY Files, IdsArePositive, Zenon
    <2>2. Min(Live) \in Live /\ \A y \in Live : Min(Live) <= y
        BY <1>1 DEF Min
    <2> DEFINE m == Min(Live)
    <2>3. m <= earliest /\ earliest <= m
        BY <1>1, <2>2, Zenon
    <2>4. m \in Nat /\ earliest \in Nat
        BY <2>1, <2>2, Zenon
    <2> HIDE DEF m
    <2>5. m = earliest
        BY <2>3, <2>4
    <2> QED
        BY <2>5, Zenon DEF m
<1> QED
    BY <1>1, <1>2, Zenon DEF EarliestId

(* When calls do not overlap, the inductive invariant holds in every state of *)
(* the rollback procedures (proc_rollback_to, proc_rollback_to_timestamp),    *)
(* the tags and the commits, for any number of each and of crashes.           *)
THEOREM RollbackInvariant == ASSUME ~Overlap PROVE RollbackSpec => []Inv
<1>1. RollbackInit => Inv
    BY RollbackInitially
<1>2. Inv /\ [RollbackNext]_<<vars, rvars>> => Inv'
    BY RollbackInductive
<1> QED
    BY <1>1, <1>2, PTL DEF RollbackSpec

(* A rollback that returns leaves the id it was asked for as the one that     *)
(* get_latest_snapshot_id finds, wherever earlier ones died, and under it the *)
(* snapshot it was asked for.  The exceptions are those of the property: a    *)
(* time that resolves to a snapshot only a tag has, and a rollback, by name   *)
(* or by time, to a tag left by one that died whose id was used again.        *)
THEOREM ReachesTargetAlways == ASSUME ~Overlap PROVE RollbackSpec => []RollbackReachesTarget
<1>1. Inv => RollbackReachesTarget
    BY ReachesTarget, Zenon
<1> QED
    BY <1>1, RollbackInvariant, PTL

(* No state between two storage calls of clean_larger_than, and none that a   *)
(* crash leaves, makes a lookup return an older snapshot than the newest,     *)
(* but below a gap that a restored tag closes from above.                     *)
THEOREM LookupNeverStaleAlways == ASSUME ~Overlap PROVE RollbackSpec => []LookupNeverStale
<1>1. Inv => LookupNeverStale
    BY NeverStale, Zenon
<1> QED
    BY <1>1, RollbackInvariant, PTL

(* Deleting newest first, clean_larger_than never leaves a gap in the ids;    *)
(* only restoring a tag after a crash does, and that snapshot has its tag.    *)
THEOREM GapOnlyBelowRestoredAlways == ASSUME ~Overlap PROVE RollbackSpec => []GapOnlyBelowRestored
<1>1. Inv => GapOnlyBelowRestored
    BY DEF Inv
<1> QED
    BY <1>1, RollbackInvariant, PTL

(* Without crashes, rollbacks leave nothing of what they removed: the oldest  *)
(* snapshot is found through EARLIEST or by listing, and each tag is a copy   *)
(* of the snapshot with its id.                                               *)
THEOREM RollbackIsCleanAlways == ASSUME ~Overlap PROVE RollbackSpec => []RollbackIsClean
<1>1. Inv => RollbackIsClean
    BY IsClean
<1> QED
    BY <1>1, RollbackInvariant, PTL

================================================================================
