----------------------------- MODULE CommitProofs ------------------------------
(***************************************************************************)
(* The lemmas about TableCommit, one per action and property.              *)
(*                                                                         *)
(* Publication is idempotent: the commits of one user appear at most once  *)
(* and in order, an acknowledged commit is in the history, and one that    *)
(* failed without a doubt is not (IdempotenceInv, next to TypeOK).         *)
(*                                                                         *)
(* What is published fits: every delta fits the snapshot it lands on, an   *)
(* overwrite replaces what it says, and the files of every snapshot are in *)
(* storage.                                                                *)
(***************************************************************************)
EXTENDS TableCommit, TLAPS

--------------------------------------------------------------------------------
(* Types *)

(* What the proofs use of the size of sets of data files.  The law is about   *)
(* File alone; FilesCount, in TableCommitProofs, proves it.                   *)
FilesAreCounted ==
    /\ Cardinality({}) = 0
    /\ \A S \in SUBSET File : Cardinality(S) \in Nat
    /\ \A B \in SUBSET File, D \in SUBSET File, A \in SUBSET File :
         D \subseteq B /\ A \cap B = {}
         => Cardinality((B \ D) \cup A) = Cardinality(B) + Cardinality(A) - Cardinality(D)

(* What a snapshot lists as live is a set of data files. *)
LEMMA LiveTyped ==
    ASSUME TypeOK, NEW n \in 0..Len(hist)
    PROVE  LiveAt(n) \subseteq File /\ TotalAt(n) \in Int
<1>1. CASE n = 0
    BY <1>1 DEF LiveAt, TotalAt
<1>2. CASE n # 0
    <2>1. hist[n] \in Snapshot
        BY <1>2 DEF TypeOK
    <2>2. QED
        BY <1>2, <2>1 DEF LiveAt, TotalAt, Live, Snapshot
<1>3. QED
    BY <1>1, <1>2

(* The plans a caller may submit are well formed. *)
LEMMA PlansTyped ==
    ASSUME TypeOK, NEW c \in Committers, op[c] < MaxOps, NEW a \in NewFiles(c)
    PROVE  /\ \A d \in Replaceable, e \in {0, Len(hist)} : DirectPlan(a, d, e) \in Plan
           /\ \A o \in Filters : OverwritePlan(a, o) \in Plan
<1>1. Len(hist) \in Nat
    BY DEF TypeOK
<1>2. LiveAt(Len(hist)) \subseteq File
    BY <1>1, LiveTyped
<1>3. op[c] + 1 \in Op
    BY ConstantsAssumption DEF TypeOK, Op
<1>4. a \subseteq File
    BY <1>3 DEF NewFiles, NewFile, File
<1>5. \A d \in Replaceable : d \subseteq File
    BY <1>2 DEF Replaceable
<1>6. \A o \in Filters : o \subseteq Partitions
    BY Zenon DEF Filters
<1>7. QED
    BY <1>1, <1>4, <1>5, <1>6 DEF DirectPlan, OverwritePlan, Plan

(* The snapshot a committer asks to publish is well formed. *)
LEMMA NewSnapshotTyped ==
    ASSUME FilesAreCounted, TypeOK, NEW c \in Committers, call[c].snap <= Len(hist)
    PROVE  NewSnapshot(c) \in Snapshot
<1>1. plan[c] \in Plan /\ call[c] \in Call /\ op[c] \in Op
    BY DEF TypeOK
<1>2. LiveAt(call[c].snap) \subseteq File /\ TotalAt(call[c].snap) \in Int
    <2>1. call[c].snap \in 0..Len(hist)
        BY <1>1 DEF TypeOK, Call
    <2>2. QED
        BY <2>1, LiveTyped, Zenon
<1>3. KindOf(plan[c]) \in Kind
    BY DEF KindOf, Kind
<1>4. Cardinality(plan[c].adds) \in Nat /\ Cardinality(call[c].dels) \in Nat
    <2>1. plan[c].adds \in SUBSET File /\ call[c].dels \in SUBSET File
        BY <1>1, Zenon DEF Plan, Call
    <2>2. QED
        BY <2>1 DEF FilesAreCounted
<1>5. QED
    <2>1. /\ plan[c].adds \in SUBSET File /\ plan[c].over \in SUBSET Partitions
          /\ plan[c].expect \in Nat
        BY <1>1 DEF Plan
    <2>2. call[c].dels \in SUBSET File
        BY <1>1, Zenon DEF Call
    <2>3. TotalAt(call[c].snap) + Cardinality(plan[c].adds) - Cardinality(call[c].dels) \in Int
        BY <1>2, <1>4
    <2>4. QED
        BY <1>1, <1>2, <1>3, <2>1, <2>2, <2>3, Zenon DEF NewSnapshot, Snapshot

--------------------------------------------------------------------------------
(* Type correctness *)

(* A call starts with well-formed locals. *)
LEMMA NewCallTyped ==
    ASSUME NEW filter \in BOOLEAN
    PROVE  NewCall(filter) \in Call
BY DEF NewCall, Call

(* Ending a call keeps the types. *)
LEMMA EndTyped ==
    ASSUME TypeOK, NEW c \in Committers, NEW result \in Ended, End(c, result)
    PROVE  /\ status' \in [Committers -> InCall \cup Ended]
           /\ call' \in [Committers -> Call]
BY NewCallTyped, Zenon DEF TypeOK, End

(* Ending a call with an error, in doubt or not, keeps the types. *)
LEMMA EndWithErrorTyped ==
    ASSUME TypeOK, NEW c \in Committers, NEW uncertain \in BOOLEAN,
           NEW plain \in {"failed", "unknown"},
           EndWithError(c, uncertain, plain)
    PROVE  /\ status' \in [Committers -> InCall \cup Ended]
           /\ call' \in [Committers -> Call]
           /\ doubted' \in [Committers -> BOOLEAN]
<1>1. (IF uncertain THEN "unknown" ELSE plain) \in Ended
    BY DEF Ended
<1>2. QED
    BY <1>1, EndTyped DEF EndWithError, TypeOK

(* What the loop resolves is made of data files. *)
LEMMA ResolvedTyped ==
    ASSUME TypeOK, NEW c \in Committers
    PROVE  ResolvedDels(c) \subseteq File /\ ConflictBase(c) \subseteq File
<1>1. plan[c] \in Plan /\ call[c] \in Call /\ Len(hist) \in Nat
    BY DEF TypeOK
<1>2. LiveAt(Len(hist)) \subseteq File
    BY <1>1, LiveTyped
<1>3. ResolvedDels(c) \subseteq File
    BY <1>1, <1>2, Zenon DEF ResolvedDels, OverwriteEntries, In, Plan, Call
<1>4. \A k \in 1..Len(hist) : hist[k].adds \subseteq File
    <2>1. \A k \in 1..Len(hist) : hist[k] \in Snapshot
        BY DEF TypeOK
    <2>2. QED
        BY <2>1 DEF Snapshot
<1>5. IncrementalBase(c) \subseteq File
    BY <1>1, <1>4 DEF IncrementalBase, In, Call
<1>6. QED
    BY <1>2, <1>3, <1>5, Zenon DEF ConflictBase, In

(* A new operation with a well-formed plan keeps the types. *)
LEMMA SubmitTyped ==
    ASSUME TypeOK, NEW c \in Committers, NEW p \in Plan, NEW filter \in BOOLEAN,
           Submit(c, p, filter)
    PROVE  TypeOK'
<1>1. op[c] + 1 \in Op
    BY ConstantsAssumption DEF Submit, TypeOK, Op
<1>2. NewCall(filter /\ ~EarlyReturn(p)) \in Call
    BY NewCallTyped, Zenon
<1>3. p.adds \subseteq File
    BY DEF Plan
<1>4. QED
    BY <1>1, <1>2, <1>3 DEF Submit, TypeOK, InCall, Ended

(* Going round the loop, or giving up, keeps the types. *)
LEMMA RetryTyped ==
    ASSUME TypeOK, NEW c \in Committers, NEW uncertain \in BOOLEAN,
           RetryOrGiveUp(c, uncertain)
    PROVE  /\ status' \in [Committers -> InCall \cup Ended]
           /\ call' \in [Committers -> Call]
           /\ doubted' \in [Committers -> BOOLEAN]
<1>1. CASE EndWithError(c, uncertain, "failed")
    BY <1>1, EndWithErrorTyped, Zenon
<1>2. CASE ~EndWithError(c, uncertain, "failed")
    <2>1. call[c] \in Call
        BY DEF TypeOK
    <2>2. call' = [call EXCEPT ![c] =
                    [call[c] EXCEPT !.retries = @ + 1, !.uncertain = uncertain,
                                    !.dupStart = IF @ = 0 THEN call[c].snap + 1 ELSE @,
                                    !.prevSnap = call[c].snap, !.prevHas = call[c].hasBase,
                                    !.prevBase = call[c].base]]
        BY <1>2, <2>1, Zenon DEF RetryOrGiveUp, TypeOK, Call
    <2>3. [call[c] EXCEPT !.retries = @ + 1, !.uncertain = uncertain,
                          !.dupStart = IF @ = 0 THEN call[c].snap + 1 ELSE @,
                          !.prevSnap = call[c].snap, !.prevHas = call[c].hasBase,
                          !.prevBase = call[c].base] \in Call
        <3>1. call[c].retries + 1 \in Nat /\ call[c].snap + 1 \in Nat
            BY <2>1 DEF Call
        <3>2. QED
            BY <2>1, <3>1, Zenon DEF Call
    <2>4. QED
        BY <1>2, <2>2, <2>3, Zenon DEF RetryOrGiveUp, TypeOK, InCall
<1>3. QED
    BY <1>1, <1>2

(* A request that may still be applied is well formed. *)
LEMMA LoseAnswerTyped ==
    ASSUME FilesAreCounted, TypeOK, NEW c \in Committers, LoseAnswer(c)
    PROVE  late' \subseteq [id : Nat, snapshot : Snapshot]
<1>1. CASE Len(hist) = call[c].snap
    <2>1. call[c].snap <= Len(hist) /\ call[c].snap \in Nat
        BY <1>1 DEF TypeOK
    <2>2. NewSnapshot(c) \in Snapshot
        BY <2>1, NewSnapshotTyped, Zenon
    <2>3. Request(c) \in [id : Nat, snapshot : Snapshot]
        BY <2>1, <2>2 DEF Request
    <2>4. QED
        BY <1>1, <2>3, Zenon DEF LoseAnswer, TypeOK
<1>2. CASE Len(hist) # call[c].snap
    BY <1>2, Zenon DEF LoseAnswer, TypeOK
<1>3. QED
    BY <1>1, <1>2, Zenon

(* Publishing a snapshot keeps the types of the history and of `late`. *)
LEMMA PublishTyped ==
    ASSUME TypeOK, NEW s \in Snapshot, Publish(s)
    PROVE  /\ hist' \in Seq(Snapshot)
           /\ late' \subseteq [id : Nat, snapshot : Snapshot]
BY DEF TypeOK, Publish

(* The initial state is well formed. *)
LEMMA TypeInit == Init => TypeOK
<1> SUFFICES ASSUME Init PROVE TypeOK
    OBVIOUS
<1>1. NewCall(FALSE) \in Call
    BY NewCallTyped, Zenon
<1>2. NoPlan \in Plan
    BY DEF NoPlan, Plan
<1>3. 0 \in Op
    BY ConstantsAssumption DEF Op
<1>4. hist \in Seq(Snapshot) /\ files \subseteq File /\ faults \in Nat
      /\ late \subseteq [id : Nat, snapshot : Snapshot]
    BY DEF Init
<1>5. status \in [Committers -> InCall \cup Ended]
    BY DEF Init, Ended
<1>6. /\ op \in [Committers -> Op]
      /\ plan \in [Committers -> Plan]
      /\ call \in [Committers -> Call]
      /\ doubted \in [Committers -> BOOLEAN]
    BY <1>1, <1>2, <1>3, Zenon DEF Init
<1>7. QED
    BY <1>4, <1>5, <1>6, Zenon DEF TypeOK

(* Every step keeps the types, action by action. *)
LEMMA TypeStep ==
    ASSUME FilesAreCounted, TypeOK, [Next]_vars
    PROVE  TypeOK'
<1> USE DEF Fault
<1>1. ASSUME NEW c \in Committers, SubmitDirect(c) PROVE TypeOK'
    <2>1. PICK a \in NewFiles(c), d \in Replaceable, filter \in BOOLEAN :
            Submit(c, DirectPlan(a, d, 0), filter)
        BY <1>1, Zenon DEF SubmitDirect
    <2>2. DirectPlan(a, d, 0) \in Plan
        BY <2>1, PlansTyped DEF Submit
    <2>3. QED
        BY <2>1, <2>2, SubmitTyped, Zenon
<1>2. ASSUME NEW c \in Committers, SubmitExpected(c) PROVE TypeOK'
    <2>1. PICK a \in NewFiles(c), d \in Replaceable :
            Submit(c, DirectPlan(a, d, Len(hist)), FALSE)
        BY <1>2, Zenon DEF SubmitExpected
    <2>2. DirectPlan(a, d, Len(hist)) \in Plan
        BY <2>1, PlansTyped, Zenon DEF Submit
    <2>3. QED
        BY <2>1, <2>2, SubmitTyped, Zenon
<1>3. ASSUME NEW c \in Committers, SubmitOverwrite(c) PROVE TypeOK'
    <2>1. PICK a \in NewFiles(c), o \in Filters, filter \in BOOLEAN :
            Submit(c, OverwritePlan(a, o), filter)
        BY <1>3, Zenon DEF SubmitOverwrite
    <2>2. OverwritePlan(a, o) \in Plan
        BY <2>1, PlansTyped DEF Submit
    <2>3. QED
        BY <2>1, <2>2, SubmitTyped, Zenon
<1>4. ASSUME NEW c \in Committers, Resubmit(c) PROVE TypeOK'
    BY <1>4, NewCallTyped, Zenon DEF Resubmit, TypeOK, InCall
<1>5. ASSUME NEW c \in Committers, Abort(c) PROVE TypeOK'
    BY <1>5, Zenon DEF Abort, TypeOK, Ended
<1>6. ASSUME NEW c \in Committers, CleanOrphans(c) PROVE TypeOK'
    BY <1>6, Zenon DEF CleanOrphans, TypeOK
<1>7. ASSUME NEW c \in Committers, AttemptFiltered(c) \/ AttemptDuplicate(c) PROVE TypeOK'
    <2>1. End(c, "ok") /\ "ok" \in Ended
        BY <1>7, Zenon DEF AttemptFiltered, AttemptDuplicate, Ended
    <2>2. QED
        BY <1>7, <2>1, EndTyped, Zenon DEF AttemptFiltered, AttemptDuplicate, TypeOK
<1>8. ASSUME NEW c \in Committers,
             \/ AttemptMissingFiles(c)
             \/ AttemptRejected(c)
             \/ AttemptError(c)
             \/ AttemptDuplicateCallbackFails(c)
      PROVE  TypeOK'
    <2>1. call[c].uncertain \in BOOLEAN
        BY Zenon DEF TypeOK, Call
    <2>2. EndWithError(c, call[c].uncertain, "failed")
        BY <1>8 DEF AttemptMissingFiles, AttemptRejected, AttemptError,
                    AttemptDuplicateCallbackFails
    <2>3. /\ status' \in [Committers -> InCall \cup Ended]
          /\ call' \in [Committers -> Call]
          /\ doubted' \in [Committers -> BOOLEAN]
        BY <2>1, <2>2, EndWithErrorTyped, Zenon
    <2>4. QED
        BY <1>8, <2>3 DEF AttemptMissingFiles, AttemptRejected, AttemptError,
                          AttemptDuplicateCallbackFails, TypeOK
<1>9. ASSUME NEW c \in Committers, AttemptSend(c) PROVE TypeOK'
    <2> DEFINE sent == [call[c] EXCEPT
                !.filter = FALSE, !.snap = Len(hist), !.dels = ResolvedDels(c),
                !.hasBase = DetectConflicts(c),
                !.base = IF DetectConflicts(c) THEN ConflictBase(c) ELSE {},
                !.cacheSnap = IF plan[c].mode = "overwrite" THEN Len(hist) ELSE 0,
                !.cache = IF plan[c].mode = "overwrite" THEN ResolvedDels(c) ELSE {}]
    <2>1. call[c] \in Call /\ Len(hist) \in Nat
        BY DEF TypeOK
    <2>2. ResolvedDels(c) \in SUBSET File /\ ConflictBase(c) \in SUBSET File
        BY ResolvedTyped
    <2>3. DetectConflicts(c) \in BOOLEAN
        BY <2>1, Zenon DEF DetectConflicts, Call
    <2>4. sent \in Call
        BY <2>1, <2>2, <2>3, Zenon DEF Call
    <2>5. call' = [call EXCEPT ![c] = sent]
        BY <1>9, <2>1, Zenon DEF AttemptSend, TypeOK, Call
    <2>6. QED
        BY <1>9, <2>4, <2>5 DEF AttemptSend, TypeOK, InCall
<1>10. ASSUME NEW c \in Committers, PublishWins(c) PROVE TypeOK'
    <2>1. NewSnapshot(c) \in Snapshot
        <3>1. call[c].snap <= Len(hist)
            BY <1>10 DEF PublishWins, TypeOK
        <3>2. QED
            BY <3>1, NewSnapshotTyped, Zenon
    <2>2. "ok" \in Ended
        BY Zenon DEF Ended
    <2>3. QED
        BY <1>10, <2>1, <2>2, PublishTyped, EndTyped DEF PublishWins, TypeOK
<1>11. ASSUME NEW c \in Committers, PublishWinsCallbackFails(c) PROVE TypeOK'
    <2>1. NewSnapshot(c) \in Snapshot
        <3>1. call[c].snap <= Len(hist)
            BY <1>11 DEF PublishWinsCallbackFails, TypeOK
        <3>2. QED
            BY <3>1, NewSnapshotTyped
    <2>2. call[c].uncertain \in BOOLEAN
        BY Zenon DEF TypeOK, Call
    <2>3. QED
        BY <1>11, <2>1, <2>2, PublishTyped, EndWithErrorTyped
        DEF PublishWinsCallbackFails, TypeOK
<1>12. ASSUME NEW c \in Committers, PublishLoses(c) PROVE TypeOK'
    <2>1. call[c].uncertain \in BOOLEAN
        BY DEF TypeOK, Call
    <2>2. QED
        BY <1>12, <2>1, RetryTyped, Zenon DEF PublishLoses, TypeOK
<1>13. ASSUME NEW c \in Committers, PublishErrors(c) PROVE TypeOK'
    <2>1. RetryOrGiveUp(c, TRUE) /\ LoseAnswer(c)
        BY <1>13, Zenon DEF PublishErrors
    <2>2. late' \subseteq [id : Nat, snapshot : Snapshot]
        BY <2>1, LoseAnswerTyped, Zenon
    <2>3. /\ status' \in [Committers -> InCall \cup Ended]
          /\ call' \in [Committers -> Call]
          /\ doubted' \in [Committers -> BOOLEAN]
        <3>1. TRUE \in BOOLEAN
            BY Zenon
        <3>2. QED
            BY <2>1, <3>1, RetryTyped, Zenon
    <2>4. QED
        BY <1>13, <2>2, <2>3 DEF PublishErrors, TypeOK
<1>14. ASSUME NEW c \in Committers, Crash(c) PROVE TypeOK'
    <2>1. late' \subseteq [id : Nat, snapshot : Snapshot]
        BY <1>14, LoseAnswerTyped, Zenon DEF Crash, TypeOK
    <2>2. QED
        <3>1. EndWithError(c, TRUE, "unknown") /\ TRUE \in BOOLEAN
              /\ "unknown" \in {"failed", "unknown"}
            BY <1>14, Zenon DEF Crash
        <3>2. /\ status' \in [Committers -> InCall \cup Ended]
              /\ call' \in [Committers -> Call]
              /\ doubted' \in [Committers -> BOOLEAN]
            BY <3>1, EndWithErrorTyped, Zenon
        <3>3. QED
            BY <1>14, <2>1, <3>2 DEF Crash, TypeOK
<1>15. ASSUME DeliverLate PROVE TypeOK'
    <2>1. PICK r \in late : Publish(r.snapshot)
        BY <1>15, Zenon DEF DeliverLate
    <2>2. r.snapshot \in Snapshot
        BY Zenon DEF TypeOK
    <2>3. QED
        BY <1>15, <2>1, <2>2, PublishTyped, Zenon DEF DeliverLate, TypeOK
<1>16. ASSUME UNCHANGED vars PROVE TypeOK'
    BY <1>16 DEF vars, TypeOK
<1>17. QED
    BY <1>1, <1>2, <1>3, <1>4, <1>5, <1>6, <1>7, <1>8, <1>9, <1>10, <1>11, <1>12,
       <1>13, <1>14, <1>15, <1>16, Zenon
    DEF Next, Step, Attempt, Answer

--------------------------------------------------------------------------------
(* The fields of the locals after the two actions that update some of them *)

(* What a sent request leaves in the locals of the loop. *)
LEMMA SendFields ==
    ASSUME TypeOK, NEW c \in Committers, AttemptSend(c)
    PROVE  /\ call'[c].filter = FALSE
           /\ call'[c].snap = Len(hist)
           /\ call'[c].dels = ResolvedDels(c)
           /\ call'[c].hasBase = DetectConflicts(c)
           /\ call'[c].base = (IF DetectConflicts(c) THEN ConflictBase(c) ELSE {})
           /\ call'[c].cacheSnap = (IF plan[c].mode = "overwrite" THEN Len(hist) ELSE 0)
           /\ call'[c].cache = (IF plan[c].mode = "overwrite" THEN ResolvedDels(c) ELSE {})
           /\ call'[c].check = call[c].check
           /\ call'[c].dupStart = call[c].dupStart
           /\ call'[c].uncertain = call[c].uncertain
           /\ call'[c].prevSnap = call[c].prevSnap
           /\ call'[c].prevHas = call[c].prevHas
           /\ call'[c].prevBase = call[c].prevBase
<1> DEFINE sent == [call[c] EXCEPT
                !.filter = FALSE, !.snap = Len(hist), !.dels = ResolvedDels(c),
                !.hasBase = DetectConflicts(c),
                !.base = IF DetectConflicts(c) THEN ConflictBase(c) ELSE {},
                !.cacheSnap = IF plan[c].mode = "overwrite" THEN Len(hist) ELSE 0,
                !.cache = IF plan[c].mode = "overwrite" THEN ResolvedDels(c) ELSE {}]
<1>1. call[c] \in Call
    BY DEF TypeOK
<1>2. call' = [call EXCEPT ![c] = sent]
    BY <1>1, Zenon DEF AttemptSend, TypeOK, Call
<1>3. call'[c] = sent
    BY <1>2 DEF TypeOK
<1>4. QED
    BY <1>1, <1>3, ZenonT(30) DEF Call

(* What a retry leaves in the locals of the loop. *)
LEMMA RetryFields ==
    ASSUME TypeOK, NEW c \in Committers, NEW uncertain \in BOOLEAN,
           RetryOrGiveUp(c, uncertain), ~EndWithError(c, uncertain, "failed")
    PROVE  /\ status' = [status EXCEPT ![c] = "running"]
           /\ doubted' = doubted
           /\ call'[c].uncertain = uncertain
           /\ call'[c].dupStart = (IF call[c].dupStart = 0 THEN call[c].snap + 1
                                                           ELSE call[c].dupStart)
           /\ call'[c].prevSnap = call[c].snap
           /\ call'[c].prevHas = call[c].hasBase
           /\ call'[c].prevBase = call[c].base
           /\ call'[c].filter = call[c].filter
           /\ call'[c].check = call[c].check
           /\ call'[c].snap = call[c].snap
           /\ call'[c].dels = call[c].dels
           /\ call'[c].hasBase = call[c].hasBase
           /\ call'[c].base = call[c].base
           /\ call'[c].cacheSnap = call[c].cacheSnap
           /\ call'[c].cache = call[c].cache
<1> DEFINE again == [call[c] EXCEPT
                !.retries = @ + 1, !.uncertain = uncertain,
                !.dupStart = IF @ = 0 THEN call[c].snap + 1 ELSE @,
                !.prevSnap = call[c].snap, !.prevHas = call[c].hasBase,
                !.prevBase = call[c].base]
<1>1. call[c] \in Call
    BY DEF TypeOK
<1>2. call' = [call EXCEPT ![c] = again]
    BY <1>1, Zenon DEF RetryOrGiveUp, TypeOK, Call
<1>3. call'[c] = again
    BY <1>2 DEF TypeOK
<1>4. status' = [status EXCEPT ![c] = "running"] /\ doubted' = doubted
    BY Zenon DEF RetryOrGiveUp
<1>5. QED
    BY <1>1, <1>3, <1>4 DEF Call

--------------------------------------------------------------------------------
(* Publication is idempotent *)

(* What another committer, or the arrival of an old request, may do to the    *)
(* state that the invariant of committer d speaks of.                         *)
Undisturbed(d) ==
    /\ op'[d] = op[d] /\ plan'[d] = plan[d] /\ status'[d] = status[d]
    /\ call'[d] = call[d] /\ doubted'[d] = doubted[d]
    /\ \/ hist' = hist
       \/ \E s \in Snapshot :
            /\ hist' = Append(hist, s)
            /\ s.user # d \/ \E r \in late : s = r.snapshot
    /\ \A r \in late' : r \in late \/ r.snapshot.user # d

(* An appended snapshot is the last element, and changes no other. *)
LEMMA AppendFacts ==
    ASSUME NEW h \in Seq(Snapshot), NEW s \in Snapshot, NEW g, g = Append(h, s)
    PROVE  /\ Len(g) = Len(h) + 1 /\ Len(h) \in Nat
           /\ g[Len(g)] = s
           /\ \A i \in 1..Len(h) : g[i] = h[i]
           /\ g \in Seq(Snapshot)
OBVIOUS

(* An operation that is nowhere stays nowhere when others move. *)
LEMMA UnpublishedStays ==
    ASSUME TypeOK, NEW d \in Committers, Undisturbed(d), Unpublished(d)
    PROVE  Unpublished(d)'
<1>1. CASE hist' = hist
    BY <1>1, Zenon DEF Undisturbed, Unpublished, PublishedAs, RequestedAs
<1>2. ASSUME NEW s \in Snapshot, hist' = Append(hist, s),
             s.user # d \/ \E r \in late : s = r.snapshot
      PROVE  Unpublished(d)'
    <2>1. /\ Len(hist') = Len(hist) + 1 /\ Len(hist) \in Nat
          /\ hist'[Len(hist')] = s
          /\ \A i \in 1..Len(hist) : hist'[i] = hist[i]
        BY <1>2, AppendFacts DEF TypeOK
    <2>2. ~(s.user = d /\ s.op = op[d])
        BY <1>2 DEF Unpublished, RequestedAs
    <2>3. QED
        BY <2>1, <2>2 DEF Undisturbed, Unpublished, PublishedAs, RequestedAs
<1>3. QED
    BY <1>1, <1>2, Zenon DEF Undisturbed

(* What the invariant says of what a committer published or asked for. *)
LEMMA OwnKind ==
    ASSUME NEW c \in Committers, OwnCommitInv(c)
    PROVE  /\ \A i \in 1..Len(hist) : PublishedAs(c, op[c], i) => hist[i].kind = KindOf(plan[c])
           /\ \A r \in late : RequestedAs(c, op[c], r) => r.snapshot.kind = KindOf(plan[c])
BY Zenon DEF OwnCommitInv

(* What the invariant says of a committer that waits for its publication. *)
LEMMA OwnPublishing ==
    ASSUME NEW c \in Committers, OwnCommitInv(c), status[c] = "publishing"
    PROVE  /\ ~call[c].filter
           /\ call[c].snap <= Len(hist)
           /\ call[c].dupStart <= call[c].snap + 1
           /\ \A i \in 1..call[c].snap : ~PublishedAs(c, op[c], i)
BY Zenon DEF OwnCommitInv

(* The invariant of a committer survives the steps of the others. *)
LEMMA OwnFrame ==
    ASSUME TypeOK, NEW d \in Committers, Undisturbed(d), OwnCommitInv(d), DoubtInv(d)
    PROVE  OwnCommitInv(d)' /\ DoubtInv(d)'
<1>1. call[d].snap \in Nat /\ call[d].dupStart \in Nat /\ Len(hist) \in Nat
    BY DEF TypeOK, Call
<1>2. DoubtInv(d)'
    BY UnpublishedStays DEF DoubtInv, Undisturbed
<1>3. CASE hist' = hist
    <2>1. OwnCommitInv(d)'
        BY <1>3, UnpublishedStays, Zenon DEF OwnCommitInv, Undisturbed, PublishedAs, RequestedAs
    <2>2. QED
        BY <1>2, <2>1, Zenon
<1>4. ASSUME NEW s \in Snapshot, hist' = Append(hist, s),
             s.user # d \/ \E r \in late : s = r.snapshot
      PROVE  OwnCommitInv(d)'
    <2>1. /\ Len(hist') = Len(hist) + 1
          /\ hist'[Len(hist')] = s
          /\ \A i \in 1..Len(hist) : hist'[i] = hist[i]
        BY <1>4, AppendFacts DEF TypeOK
    <2>2. s.user = d /\ s.op = op[d] => s.kind = KindOf(plan[d])
        BY <1>4, Zenon DEF OwnCommitInv, RequestedAs
    <2>3. \A i \in 1..Len(hist') : i \in 1..Len(hist) \/ i = Len(hist) + 1
        BY <1>1, <2>1
    <2>4. \A i \in 1..Len(hist') :
            PublishedAs(d, op[d], i)' => hist'[i].kind = KindOf(plan[d])
        BY <2>1, <2>2, <2>3, Zenon DEF OwnCommitInv, PublishedAs, Undisturbed
    <2>5. status[d] = "publishing" =>
            /\ ~call[d].filter
            /\ call[d].snap <= Len(hist')
            /\ call[d].dupStart <= call[d].snap + 1
            /\ \A i \in 1..call[d].snap : ~PublishedAs(d, op[d], i)'
        <3> SUFFICES ASSUME status[d] = "publishing"
                     PROVE  /\ ~call[d].filter
                            /\ call[d].snap <= Len(hist')
                            /\ call[d].dupStart <= call[d].snap + 1
                            /\ \A i \in 1..call[d].snap : ~PublishedAs(d, op[d], i)'
            BY Zenon
        <3>1. /\ ~call[d].filter
              /\ call[d].snap <= Len(hist)
              /\ call[d].dupStart <= call[d].snap + 1
              /\ \A i \in 1..call[d].snap : ~PublishedAs(d, op[d], i)
            BY OwnPublishing, Zenon
        <3>2. call[d].snap <= Len(hist') /\ \A i \in 1..call[d].snap : i \in 1..Len(hist)
            BY <1>1, <2>1, <3>1
        <3>3. \A i \in 1..call[d].snap : ~PublishedAs(d, op[d], i)'
            BY <2>1, <3>1, <3>2, Zenon DEF PublishedAs, Undisturbed
        <3>4. QED
            BY <3>1, <3>2, <3>3, Zenon
    <2>6. status[d] = "running" /\ call[d].dupStart # 0 =>
            /\ call[d].dupStart <= Len(hist') + 1
            /\ \A i \in 1..Len(hist') : PublishedAs(d, op[d], i)' => i >= call[d].dupStart
        <3> SUFFICES ASSUME status[d] = "running", call[d].dupStart # 0
                     PROVE  /\ call[d].dupStart <= Len(hist') + 1
                            /\ \A i \in 1..Len(hist') :
                                 PublishedAs(d, op[d], i)' => i >= call[d].dupStart
            BY Zenon
        <3>1. /\ call[d].dupStart <= Len(hist) + 1
              /\ \A i \in 1..Len(hist) : PublishedAs(d, op[d], i) => i >= call[d].dupStart
            BY Zenon DEF OwnCommitInv
        <3>2. call[d].dupStart <= Len(hist') + 1 /\ Len(hist) + 1 >= call[d].dupStart
            BY <1>1, <2>1, <3>1
        <3>3. \A i \in 1..Len(hist) : PublishedAs(d, op[d], i)' => i >= call[d].dupStart
            BY <2>1, <3>1, Zenon DEF PublishedAs, Undisturbed
        <3>4. QED
            BY <2>3, <3>2, <3>3, Zenon
    <2>7. \A r \in late' : RequestedAs(d, op[d], r) => r.snapshot.kind = KindOf(plan[d])
        BY Zenon DEF OwnCommitInv, RequestedAs, Undisturbed
    <2>8. Undisturbed(d) /\ OwnCommitInv(d) => OwnCommitInv(d)'
        BY <2>4, <2>5, <2>6, <2>7, UnpublishedStays, Zenon
        DEF OwnCommitInv, Undisturbed, PublishedAs, RequestedAs
    <2>9. QED
        BY <2>8, Zenon
<1>5. QED
    BY <1>2, <1>3, <1>4, Zenon DEF Undisturbed

--------------------------------------------------------------------------------
(* Identifiers only grow *)

(* Appending a snapshot above all earlier ones of its user keeps the order. *)
LEMMA AppendOrder ==
    ASSUME TypeOK, OrderInv, NEW s \in Snapshot, Publish(s), op' = op,
           s.op <= op[s.user],
           \A i \in 1..Len(hist) : hist[i].user = s.user => hist[i].op < s.op
    PROVE  OrderInv'
<1>1. /\ Len(hist') = Len(hist) + 1 /\ Len(hist) \in Nat
      /\ hist'[Len(hist')] = s
      /\ \A i \in 1..Len(hist) : hist'[i] = hist[i]
    BY AppendFacts DEF TypeOK, Publish
<1>2. \A i \in 1..Len(hist') : i \in 1..Len(hist) \/ i = Len(hist) + 1
    BY <1>1
<1>3. CommitsOnceInOrder'
    <2> SUFFICES ASSUME NEW i \in 1..Len(hist'), NEW j \in 1..Len(hist'), i < j,
                        hist'[i].user = hist'[j].user
                 PROVE  hist'[i].op < hist'[j].op
        BY Zenon DEF CommitsOnceInOrder
    <2>1. i \in 1..Len(hist)
        BY <1>1
    <2>2. CASE j \in 1..Len(hist)
        BY <1>1, <2>1, <2>2, Zenon DEF OrderInv, CommitsOnceInOrder
    <2>3. CASE j = Len(hist) + 1
        BY <1>1, <2>1, <2>3, Zenon
    <2>4. QED
        BY <1>2, <2>2, <2>3, Zenon
<1>4. \A i \in 1..Len(hist') : hist'[i].op <= op[hist'[i].user]
    BY <1>1, <1>2, Zenon DEF OrderInv
<1>5. QED
    BY <1>3, <1>4, Zenon DEF OrderInv, Publish

(* The request of a committer is above everything its user has published. *)
LEMMA RequestIsNewest ==
    ASSUME FilesAreCounted, TypeOK, OrderInv, NEW c \in Committers, OwnCommitInv(c),
           status[c] = "publishing", Len(hist) = call[c].snap
    PROVE  /\ NewSnapshot(c) \in Snapshot
           /\ NewSnapshot(c).user = c /\ NewSnapshot(c).op = op[c]
           /\ NewSnapshot(c).kind = KindOf(plan[c])
           /\ \A i \in 1..Len(hist) : hist[i].user = c => hist[i].op < op[c]
<1>1. call[c].snap <= Len(hist) /\ Len(hist) \in Nat
    BY DEF TypeOK
<1>2. NewSnapshot(c) \in Snapshot
    BY <1>1, NewSnapshotTyped, Zenon
<1>3. ASSUME NEW i \in 1..Len(hist), hist[i].user = c
      PROVE  hist[i].op < op[c]
    <2>1. hist[i].op <= op[c] /\ hist[i].op # op[c]
        BY <1>3, Zenon DEF OrderInv, OwnCommitInv, PublishedAs
    <2>2. hist[i] \in Snapshot
        BY DEF TypeOK
    <2>3. hist[i].op \in Int /\ op[c] \in Int
        BY <2>2 DEF Snapshot, TypeOK, Op
    <2>4. QED
        BY <2>1, <2>3
<1>4. QED
    BY <1>2, <1>3, Zenon DEF NewSnapshot

(* A request whose answer is lost keeps the order of the operations: it is    *)
(* newer than all that its user has published.                                *)
LEMMA LoseAnswerOrder ==
    ASSUME FilesAreCounted, TypeOK, OrderInv, NEW c \in Committers, OwnCommitInv(c),
           status[c] = "publishing", LoseAnswer(c), UNCHANGED <<hist, op>>
    PROVE  OrderInv'
<1>1. CASE Len(hist) = call[c].snap
    <2>1. late' = late \cup {Request(c)}
        BY <1>1 DEF LoseAnswer
    <2>2. op[c] \in Int
        BY DEF TypeOK, Op
    <2>3. /\ Request(c).id = Len(hist) + 1
          /\ Request(c).snapshot.user = c
          /\ Request(c).snapshot.op <= op[c]
          /\ \A i \in 1..Len(hist) :
                hist[i].user = c => hist[i].op < Request(c).snapshot.op
        BY <1>1, <2>2, RequestIsNewest DEF Request
    <2>4. QED
        BY <2>1, <2>3, ZenonT(30) DEF OrderInv, CommitsOnceInOrder
<1>2. CASE Len(hist) # call[c].snap
    BY <1>2, Zenon DEF LoseAnswer, OrderInv, CommitsOnceInOrder
<1>3. QED
    BY <1>1, <1>2, Zenon

(* No step breaks the order of identifiers. *)
LEMMA OrderStep ==
    ASSUME FilesAreCounted, TypeOK, IdempotenceInv, [Next]_vars
    PROVE  OrderInv'
<1> USE DEF IdempotenceInv
<1>1. ASSUME UNCHANGED <<hist, late, op>> PROVE OrderInv'
    BY <1>1, Zenon DEF OrderInv, CommitsOnceInOrder
<1>2. ASSUME NEW c \in Committers, NEW p, NEW filter, Submit(c, p, filter)
      PROVE  OrderInv'
    <2>1. \A d \in Committers : op[d] \in Int /\ op'[d] \in Int /\ op[d] <= op'[d]
        BY <1>2 DEF Submit, TypeOK, Op
    <2>2. \A i \in 1..Len(hist) : hist[i] \in Snapshot
        BY DEF TypeOK
    <2>3. \A i \in 1..Len(hist) : hist[i].user \in Committers /\ hist[i].op \in Int
        BY <2>2 DEF Snapshot, Op
    <2>4. \A r \in late : r.snapshot.user \in Committers /\ r.snapshot.op \in Int
        <3>1. \A r \in late : r.snapshot \in Snapshot
            BY Zenon DEF TypeOK
        <3>2. QED
            BY <3>1 DEF Snapshot, Op
    <2>5. UNCHANGED <<hist, late>>
        BY <1>2, Zenon DEF Submit
    <2>6. \A i \in 1..Len(hist) : hist[i].op <= op'[hist[i].user]
        BY <2>1, <2>3 DEF OrderInv
    <2>7. \A r \in late : r.snapshot.op <= op'[r.snapshot.user]
        BY <2>1, <2>4 DEF OrderInv
    <2>8. QED
        BY <2>5, <2>6, <2>7, Zenon DEF OrderInv, CommitsOnceInOrder
<1>3. ASSUME NEW c \in Committers, PublishWins(c) \/ PublishWinsCallbackFails(c)
      PROVE  OrderInv'
    <2>1. /\ status[c] = "publishing" /\ Len(hist) = call[c].snap
          /\ Publish(NewSnapshot(c)) /\ op' = op
        BY <1>3, Zenon DEF PublishWins, PublishWinsCallbackFails
    <2>2. op[c] \in Int
        BY DEF TypeOK, Op
    <2>3. QED
        BY <2>1, <2>2, RequestIsNewest, AppendOrder
<1>4. ASSUME NEW c \in Committers, PublishErrors(c) PROVE OrderInv'
    BY <1>4, LoseAnswerOrder, Zenon DEF PublishErrors
<1>5. ASSUME NEW c \in Committers, Crash(c) PROVE OrderInv'
    <2>1. CASE status[c] = "publishing"
        BY <1>5, <2>1, LoseAnswerOrder, Zenon DEF Crash
    <2>2. CASE status[c] # "publishing"
        BY <1>1, <1>5, <2>2, Zenon DEF Crash
    <2>3. QED
        BY <2>1, <2>2, Zenon
<1>6. ASSUME DeliverLate PROVE OrderInv'
    <2>1. PICK r \in late : Publish(r.snapshot) /\ op' = op
        BY <1>6, Zenon DEF DeliverLate
    <2>2. r.snapshot \in Snapshot
        BY DEF TypeOK
    <2>3. QED
        BY <2>1, <2>2, AppendOrder, Zenon DEF OrderInv
<1>7. ASSUME NEW c \in Committers, SubmitDirect(c) \/ SubmitExpected(c) \/ SubmitOverwrite(c)
      PROVE  OrderInv'
    BY <1>2, <1>7, Zenon DEF SubmitDirect, SubmitExpected, SubmitOverwrite
<1>8. ASSUME NEW c \in Committers,
             \/ Resubmit(c) \/ Abort(c) \/ CleanOrphans(c) \/ Attempt(c) \/ PublishLoses(c)
             \/ AttemptDuplicateCallbackFails(c) \/ AttemptError(c)
      PROVE  OrderInv'
    <2>1. UNCHANGED <<hist, late, op>>
        BY <1>8, ZenonT(30) DEF Resubmit, Abort, CleanOrphans, Attempt, AttemptFiltered,
            AttemptMissingFiles, AttemptDuplicate, AttemptRejected, AttemptSend, PublishLoses,
            AttemptDuplicateCallbackFails, AttemptError
    <2>2. QED
        BY <1>1, <2>1, Zenon
<1>9. ASSUME UNCHANGED vars PROVE OrderInv'
    BY <1>1, <1>9, Zenon DEF vars
<1>10. QED
    BY <1>3, <1>4, <1>5, <1>6, <1>7, <1>8, <1>9, Zenon DEF Next, Step, Answer

--------------------------------------------------------------------------------
(* A committer finds its own commit *)

(* A step of one committer does not disturb the others. *)
LEMMA OthersUndisturbed ==
    ASSUME FilesAreCounted, TypeOK, OrderInv, NEW c \in Committers, OwnCommitInv(c), Step(c),
           NEW d \in Committers, d # c
    PROVE  Undisturbed(d)
<1> USE DEF TypeOK, Undisturbed
<1>1. ASSUME NEW p, NEW filter, Submit(c, p, filter) PROVE Undisturbed(d)
    BY <1>1, Zenon DEF Submit
<1>2. CASE SubmitDirect(c) \/ SubmitExpected(c) \/ SubmitOverwrite(c)
    BY <1>1, <1>2, Zenon DEF SubmitDirect, SubmitExpected, SubmitOverwrite
<1>3. CASE Resubmit(c) \/ Abort(c) \/ CleanOrphans(c)
    BY <1>3, Zenon DEF Resubmit, Abort, CleanOrphans
<1>4. CASE Attempt(c) \/ AttemptDuplicateCallbackFails(c) \/ AttemptError(c)
    BY <1>4, ZenonT(30) DEF Attempt, AttemptFiltered, AttemptMissingFiles, AttemptDuplicate,
        AttemptRejected, AttemptSend, AttemptDuplicateCallbackFails, AttemptError,
        End, EndWithError
<1>5. CASE PublishWins(c) \/ PublishWinsCallbackFails(c)
    <2>1. status[c] = "publishing" /\ Len(hist) = call[c].snap
        BY <1>5 DEF PublishWins, PublishWinsCallbackFails
    <2>2. NewSnapshot(c) \in Snapshot /\ NewSnapshot(c).user # d
        BY <2>1, RequestIsNewest
    <2>3. hist' = Append(hist, NewSnapshot(c)) /\ late' = {}
        BY <1>5, Zenon DEF PublishWins, PublishWinsCallbackFails, Publish
    <2>4. QED
        BY <1>5, <2>2, <2>3, Zenon DEF PublishWins, PublishWinsCallbackFails, End, EndWithError
<1>6. CASE PublishLoses(c)
    BY <1>6, Zenon DEF PublishLoses, RetryOrGiveUp, End, EndWithError
<1>7. ASSUME LoseAnswer(c), status[c] = "publishing"
      PROVE  \A r \in late' : r \in late \/ r.snapshot.user # d
    BY <1>7, RequestIsNewest DEF LoseAnswer, Request
<1>8. CASE PublishErrors(c)
    BY <1>7, <1>8, Zenon DEF PublishErrors, RetryOrGiveUp, End, EndWithError
<1>9. CASE Crash(c)
    BY <1>7, <1>9, Zenon DEF Crash, End, EndWithError
<1>10. QED
    BY <1>2, <1>3, <1>4, <1>5, <1>6, <1>8, <1>9, Zenon DEF Step, Answer

(* The filter recognises a published operation: the newest commit of the user *)
(* is at least as new, and no commit of the user is newer than the operation. *)
LEMMA FilterFinds ==
    ASSUME TypeOK, OrderInv, NEW c \in Committers,
           NEW i \in 1..Len(hist), PublishedAs(c, op[c], i)
    PROVE  IsCommitted(c)
<1>1. op[c] \in Int
    BY DEF TypeOK, Op
<1>2. ASSUME NEW j \in (i + 1)..Len(hist) PROVE hist[j].user # c
    <2>1. j \in 1..Len(hist) /\ i < j
        OBVIOUS
    <2>2. hist[j] \in Snapshot
        BY <2>1 DEF TypeOK
    <2>3. hist[j].op \in Int
        BY <2>2 DEF Snapshot, Op
    <2>4. QED
        BY <1>1, <2>1, <2>3 DEF OrderInv, CommitsOnceInOrder, PublishedAs
<1>3. QED
    BY <1>1, <1>2 DEF IsCommitted, PublishedAs

(* And what it recognises is the operation itself. *)
LEMMA FilterIsExact ==
    ASSUME TypeOK, OrderInv, NEW c \in Committers, IsCommitted(c)
    PROVE  \E i \in 1..Len(hist) : PublishedAs(c, op[c], i)
<1>1. PICK i \in 1..Len(hist) : hist[i].user = c /\ op[c] <= hist[i].op
    BY Zenon DEF IsCommitted
<1>2. hist[i] \in Snapshot
    BY DEF TypeOK
<1>3. hist[i].op \in Int /\ op[c] \in Int
    BY <1>2 DEF Snapshot, TypeOK, Op
<1>4. QED
    BY <1>1, <1>3 DEF OrderInv, PublishedAs

(* A commit that is sent is not in the history. *)
LEMMA SendIsFresh ==
    ASSUME TypeOK, OrderInv, NEW c \in Committers, OwnCommitInv(c), AttemptSend(c)
    PROVE  \A i \in 1..Len(hist) : ~PublishedAs(c, op[c], i)
<1> SUFFICES ASSUME NEW i \in 1..Len(hist), PublishedAs(c, op[c], i)
             PROVE  FALSE
    OBVIOUS
<1>1. ~call[c].filter
    <2>1. IsCommitted(c)
        BY FilterFinds, Zenon
    <2>2. PassesFilter(c)
        BY Zenon DEF AttemptSend
    <2>3. QED
        BY <2>1, <2>2, Zenon DEF PassesFilter
<1>2. call[c].dupStart # 0
    BY <1>1, Zenon DEF AttemptSend, OwnCommitInv, Unpublished
<1>3. call[c].dupStart \in Nat /\ Len(hist) \in Nat
    BY DEF TypeOK, Call
<1>4. i \in call[c].dupStart..Len(hist)
    <2>1. status[c] = "running"
        BY DEF AttemptSend
    <2>2. i >= call[c].dupStart
        BY <1>2, <2>1, Zenon DEF OwnCommitInv
    <2>3. QED
        BY <1>3, <2>2
<1>5. FindDuplicate(c)
    BY <1>2, <1>4, Zenon DEF FindDuplicate, OwnCommitInv, PublishedAs
<1>6. QED
    BY <1>5, Zenon DEF AttemptSend

(* The invariant of the committer that moves, action by action. *)
LEMMA ActorStep ==
    ASSUME FilesAreCounted, TypeOK, OrderInv, NEW c \in Committers, OwnCommitInv(c), DoubtInv(c), Step(c)
    PROVE  OwnCommitInv(c)' /\ DoubtInv(c)'
<1>0. /\ call[c].snap \in Nat /\ call[c].dupStart \in Nat /\ Len(hist) \in Nat
      /\ op[c] \in Int
    BY DEF TypeOK, Call, Op
<1>1. ASSUME NEW p, NEW filter, Submit(c, p, filter)
      PROVE  OwnCommitInv(c)' /\ DoubtInv(c)'
    <2>1. op'[c] = op[c] + 1 /\ hist' = hist /\ late' = late
        BY <1>1, Zenon DEF Submit, TypeOK
    <2>2. Unpublished(c)'
        <3>1. ASSUME NEW i \in 1..Len(hist) PROVE ~PublishedAs(c, op[c] + 1, i)
            BY <1>0 DEF OrderInv, PublishedAs
        <3>2. ASSUME NEW r \in late PROVE ~RequestedAs(c, op[c] + 1, r)
            BY <1>0 DEF OrderInv, RequestedAs
        <3>3. QED
            BY <2>1, <3>1, <3>2, Zenon DEF Unpublished, PublishedAs, RequestedAs
    <2>3. status'[c] \in {"ok", "running"} /\ call'[c].dupStart = 0
        BY <1>1, Zenon DEF Submit, TypeOK, NewCall
    <2>4. QED
        BY <2>2, <2>3, Zenon DEF OwnCommitInv, DoubtInv, Unpublished
<1>2. CASE SubmitDirect(c) \/ SubmitExpected(c) \/ SubmitOverwrite(c)
    BY <1>1, <1>2, ZenonT(30) DEF SubmitDirect, SubmitExpected, SubmitOverwrite
<1>3. CASE Resubmit(c)
    <2>1. /\ status'[c] = "running" /\ call'[c].filter /\ call'[c].dupStart = 0
          /\ UNCHANGED <<hist, late, op, plan, doubted>>
        BY <1>3, Zenon DEF Resubmit, TypeOK, NewCall
    <2>2. c \notin Callbacks /\ ~doubted[c] => Unpublished(c)
        BY <1>3, Zenon DEF Resubmit, DoubtInv
    <2>3. QED
        BY <2>1, <2>2, Zenon DEF OwnCommitInv, DoubtInv, Unpublished, PublishedAs
<1>4. CASE Abort(c)
    BY <1>4, Zenon DEF Abort, TypeOK, OwnCommitInv, DoubtInv, Unpublished, PublishedAs, InCall
<1>5. CASE CleanOrphans(c)
    BY <1>5, Zenon DEF CleanOrphans, OwnCommitInv, DoubtInv, Unpublished, PublishedAs
<1>6. ASSUME End(c, "ok"), UNCHANGED <<hist, late, op, plan, doubted>>
      PROVE  OwnCommitInv(c)' /\ DoubtInv(c)'
    BY <1>6, Zenon DEF End, TypeOK, OwnCommitInv, DoubtInv, PublishedAs, InCall
<1>7. ASSUME EndWithError(c, call[c].uncertain, "failed"), status[c] \in InCall,
             UNCHANGED <<hist, late, op, plan>>
      PROVE  OwnCommitInv(c)' /\ DoubtInv(c)'
    <2>1. CASE call[c].uncertain
        <3>1. status'[c] = "unknown" /\ doubted'[c]
            BY <1>7, <2>1, Zenon DEF EndWithError, End, TypeOK
        <3>2. QED
            BY <1>7, <3>1, Zenon DEF OwnCommitInv, DoubtInv, PublishedAs, InCall
    <2>2. CASE ~call[c].uncertain
        <3>1. status'[c] = "failed"
            BY <1>7, <2>2, Zenon DEF EndWithError, End, TypeOK
        <3>2. ~doubted'[c] => ~doubted[c]
            BY <1>7, Zenon DEF EndWithError, TypeOK
        <3>3. c \notin Callbacks /\ ~doubted'[c] => Unpublished(c)
            BY <1>7, <2>2, <3>2, Zenon DEF DoubtInv
        <3>4. QED
            BY <1>7, <3>1, <3>3, Zenon DEF OwnCommitInv, DoubtInv, Unpublished, PublishedAs, InCall
    <2>3. QED
        BY <2>1, <2>2, Zenon
<1>8. ASSUME EndWithError(c, TRUE, "failed") \/ EndWithError(c, TRUE, "unknown"),
             hist' = hist, op' = op, plan' = plan,
             late' = late \/ (status[c] = "publishing" /\ LoseAnswer(c))
      PROVE  OwnCommitInv(c)' /\ DoubtInv(c)'
    <2>1. status'[c] = "unknown" /\ doubted'[c]
        BY <1>8, Zenon DEF EndWithError, End, TypeOK
    <2>2. \A r \in late' : RequestedAs(c, op[c], r) => r.snapshot.kind = KindOf(plan[c])
        <3>1. late' \subseteq late \cup {Request(c)}
            BY <1>8, Zenon DEF LoseAnswer
        <3>2. Request(c).snapshot.kind = KindOf(plan[c])
            BY Zenon DEF Request, NewSnapshot
        <3>3. QED
            BY <3>1, <3>2, OwnKind, Zenon
    <2>3. QED
        BY <1>8, <2>1, <2>2, Zenon DEF OwnCommitInv, DoubtInv, PublishedAs, RequestedAs, InCall
<1>9. CASE AttemptFiltered(c) \/ AttemptDuplicate(c)
    BY <1>6, <1>9, Zenon DEF AttemptFiltered, AttemptDuplicate
<1>10. CASE AttemptMissingFiles(c) \/ AttemptRejected(c) \/ AttemptError(c)
    BY <1>7, <1>10, Zenon DEF AttemptMissingFiles, AttemptRejected, AttemptError, InCall
<1>11. CASE AttemptDuplicateCallbackFails(c)
    <2>1. c \in Callbacks /\ (status'[c] = "failed" \/ (status'[c] = "unknown" /\ doubted'[c]))
        BY <1>11, Zenon DEF AttemptDuplicateCallbackFails, EndWithError, End, TypeOK
    <2>2. QED
        BY <1>11, <2>1, Zenon
        DEF AttemptDuplicateCallbackFails, OwnCommitInv, DoubtInv, PublishedAs, InCall
<1>12. CASE AttemptSend(c)
    <2>1. \A i \in 1..Len(hist) : ~PublishedAs(c, op[c], i)
        BY <1>12, SendIsFresh, Zenon
    <2>2. UNCHANGED <<hist, late, op, plan, doubted>> /\ status'[c] = "publishing"
          /\ status[c] = "running"
        BY <1>12, Zenon DEF AttemptSend, TypeOK
    <2>3. /\ ~call'[c].filter /\ call'[c].snap = Len(hist)
          /\ call'[c].dupStart = call[c].dupStart /\ call'[c].uncertain = call[c].uncertain
        BY <1>12, SendFields, ZenonT(30)
    <2>4. call[c].dupStart <= Len(hist) + 1
        BY <1>0, <2>2 DEF OwnCommitInv
    <2>5. OwnCommitInv(c)'
        <3>1. call'[c].snap <= Len(hist') /\ call'[c].dupStart <= call'[c].snap + 1
            BY <1>0, <2>2, <2>3, <2>4
        <3>2. \A i \in 1..call'[c].snap : ~PublishedAs(c, op[c], i)'
            BY <2>1, <2>2, <2>3, Zenon DEF PublishedAs
        <3>3. /\ \A i \in 1..Len(hist') :
                    PublishedAs(c, op[c], i)' => hist'[i].kind = KindOf(plan'[c])
              /\ \A r \in late' : RequestedAs(c, op[c], r) => r.snapshot.kind = KindOf(plan'[c])
            BY <2>2, OwnKind, Zenon DEF PublishedAs
        <3>4. QED
            BY <2>2, <2>3, <3>1, <3>2, <3>3, Zenon DEF OwnCommitInv, PublishedAs, RequestedAs
    <2>6. DoubtInv(c)'
        BY <2>2, <2>3, Zenon DEF DoubtInv, Unpublished, PublishedAs, InCall
    <2>7. QED
        BY <2>5, <2>6, Zenon
<1>13. CASE PublishWins(c) \/ PublishWinsCallbackFails(c)
    <2>1. status[c] = "publishing" /\ Len(hist) = call[c].snap
        BY <1>13, Zenon DEF PublishWins, PublishWinsCallbackFails
    <2>2. hist' = Append(hist, NewSnapshot(c)) /\ late' = {} /\ op' = op /\ plan' = plan
        BY <1>13, Zenon DEF PublishWins, PublishWinsCallbackFails, Publish
    <2>3. /\ Len(hist') = Len(hist) + 1
          /\ hist'[Len(hist')] = NewSnapshot(c)
          /\ \A i \in 1..Len(hist) : hist'[i] = hist[i]
        BY <2>1, <2>2, RequestIsNewest, AppendFacts DEF TypeOK
    <2>4. \A i \in 1..Len(hist') :
            PublishedAs(c, op[c], i)' => hist'[i].kind = KindOf(plan[c])
        <3>1. \A i \in 1..Len(hist') : i \in 1..Len(hist) \/ i = Len(hist')
            BY <1>0, <2>3
        <3>2. QED
            <4>1. NewSnapshot(c).kind = KindOf(plan[c])
                BY Zenon DEF NewSnapshot
            <4>2. \A i \in 1..Len(hist) : PublishedAs(c, op[c], i)' => hist'[i].kind = KindOf(plan[c])
                BY <2>2, <2>3, OwnKind, Zenon DEF PublishedAs
            <4>3. QED
                BY <2>3, <3>1, <4>1, <4>2, Zenon
    <2>5. \/ status'[c] = "ok"
          \/ c \in Callbacks /\ status'[c] = "failed"
          \/ status'[c] = "unknown" /\ doubted'[c]
        BY <1>13, Zenon
        DEF PublishWins, PublishWinsCallbackFails, EndWithError, End, TypeOK
    <2>6. QED
        BY <2>2, <2>4, <2>5, Zenon DEF OwnCommitInv, DoubtInv, PublishedAs, InCall
<1>14. ASSUME NEW uncertain \in BOOLEAN, status[c] = "publishing",
              RetryOrGiveUp(c, uncertain), ~EndWithError(c, uncertain, "failed"),
              UNCHANGED <<hist, op, plan>>,
              \/ uncertain = call[c].uncertain /\ late' = late
              \/ uncertain = TRUE /\ LoseAnswer(c)
      PROVE  OwnCommitInv(c)' /\ DoubtInv(c)'
    <2>1. status'[c] = "running" /\ doubted' = doubted
        BY <1>14, RetryFields, Zenon DEF TypeOK
    <2>2. /\ call'[c].filter = call[c].filter /\ call'[c].uncertain = uncertain
          /\ call'[c].dupStart = IF call[c].dupStart = 0 THEN call[c].snap + 1
                                                         ELSE call[c].dupStart
        BY <1>14, RetryFields, Zenon
    <2>3. ~call'[c].filter
        BY <1>14, <2>2, OwnPublishing, Zenon
    <2>4. call'[c].dupStart # 0 /\ call'[c].dupStart <= call[c].snap + 1
        BY <1>0, <1>14, <2>2, OwnPublishing
    <2>5. call'[c].dupStart \in Nat
        BY <1>0, <2>2
    <2>6. call'[c].dupStart <= Len(hist) + 1
        BY <1>0, <1>14, <2>4, <2>5, OwnPublishing
    <2>7. ASSUME NEW i \in 1..Len(hist), PublishedAs(c, op[c], i)
          PROVE  i >= call'[c].dupStart
        <3>1. i \notin 1..call[c].snap
            BY <1>14, <2>7, OwnPublishing, Zenon
        <3>2. QED
            BY <1>0, <2>4, <2>5, <3>1
    <2>8. \A r \in late' : RequestedAs(c, op[c], r) => r.snapshot.kind = KindOf(plan[c])
        <3>1. late' \subseteq late \cup {Request(c)}
            BY <1>14, Zenon DEF LoseAnswer
        <3>2. Request(c).snapshot.kind = KindOf(plan[c])
            BY Zenon DEF Request, NewSnapshot
        <3>3. QED
            BY <3>1, <3>2, OwnKind, Zenon
    <2>9. OwnCommitInv(c)'
        BY <1>14, <2>1, <2>3, <2>4, <2>6, <2>7, <2>8, ZenonT(30) DEF OwnCommitInv, PublishedAs, RequestedAs
    <2>10. DoubtInv(c)'
        BY <1>14, <2>1, <2>2, Zenon DEF DoubtInv, Unpublished, PublishedAs, InCall
    <2>11. QED
        BY <2>9, <2>10, Zenon
<1>15. CASE PublishLoses(c)
    <2>1. call[c].uncertain \in BOOLEAN
        BY Zenon DEF TypeOK, Call
    <2>2. CASE EndWithError(c, call[c].uncertain, "failed")
        BY <1>7, <1>15, <2>2, Zenon DEF PublishLoses, InCall
    <2>3. CASE ~EndWithError(c, call[c].uncertain, "failed")
        BY <1>14, <1>15, <2>1, <2>3, Zenon DEF PublishLoses
    <2>4. QED
        BY <2>2, <2>3, Zenon
<1>16. CASE PublishErrors(c)
    <2>1. CASE EndWithError(c, TRUE, "failed")
        BY <1>8, <1>16, <2>1, Zenon DEF PublishErrors
    <2>2. CASE ~EndWithError(c, TRUE, "failed")
        <3>1. TRUE \in BOOLEAN /\ RetryOrGiveUp(c, TRUE)
            BY <1>16, Zenon DEF PublishErrors
        <3>2. QED
            BY <1>14, <1>16, <2>2, <3>1, Zenon DEF PublishErrors
    <2>3. QED
        BY <2>1, <2>2, Zenon
<1>17. CASE Crash(c)
    BY <1>8, <1>17, Zenon DEF Crash
<1>18. QED
    BY <1>2, <1>3, <1>4, <1>5, <1>9, <1>10, <1>11, <1>12, <1>13, <1>15, <1>16, <1>17, Zenon
    DEF Step, Attempt, Answer

--------------------------------------------------------------------------------
(* An acknowledged commit is in the history *)

Acknowledged(c) ==
    status[c] = "ok" /\ ~EarlyReturn(plan[c])
    => \E i \in 1..Len(hist) : PublishedAs(c, op[c], i)

(* What is published stays published. *)
LEMMA AcknowledgedStays ==
    ASSUME TypeOK, NEW d \in Committers, Undisturbed(d), Acknowledged(d)
    PROVE  Acknowledged(d)'
<1>1. CASE hist' = hist
    BY <1>1 DEF Undisturbed, Acknowledged, PublishedAs, EarlyReturn, EmptyMessages
<1>2. ASSUME NEW s \in Snapshot, hist' = Append(hist, s) PROVE Acknowledged(d)'
    <2>1. /\ Len(hist') = Len(hist) + 1 /\ Len(hist) \in Nat
          /\ \A i \in 1..Len(hist) : hist'[i] = hist[i]
        BY <1>2, AppendFacts DEF TypeOK
    <2>2. \A i \in 1..Len(hist) : i \in 1..Len(hist')
        BY <2>1
    <2>3. QED
        BY <2>1, <2>2, Zenon DEF Undisturbed, Acknowledged, PublishedAs, EarlyReturn, EmptyMessages
<1>3. QED
    BY <1>1, <1>2, Zenon DEF Undisturbed

(* A call acknowledges only what it published, or found published. *)
LEMMA AcknowledgeStep ==
    ASSUME FilesAreCounted, TypeOK, OrderInv, NEW c \in Committers, OwnCommitInv(c), Acknowledged(c), Step(c)
    PROVE  Acknowledged(c)'
<1> USE DEF Acknowledged
<1>1. ASSUME NEW p, NEW filter, Submit(c, p, filter) PROVE Acknowledged(c)'
    <2>1. CASE EarlyReturn(p)
        BY <1>1, <2>1, Zenon DEF Submit, TypeOK, EarlyReturn, EmptyMessages
    <2>2. CASE ~EarlyReturn(p)
        <3>1. status'[c] = "running"
            BY <1>1, <2>2, Zenon DEF Submit, TypeOK
        <3>2. QED
            BY <3>1, Zenon
    <2>3. QED
        BY <2>1, <2>2, Zenon
<1>2. CASE SubmitDirect(c) \/ SubmitExpected(c) \/ SubmitOverwrite(c)
    BY <1>1, <1>2, Zenon DEF SubmitDirect, SubmitExpected, SubmitOverwrite
<1>3. ASSUME status'[c] # "ok" PROVE Acknowledged(c)'
    BY <1>3, Zenon
<1>4. CASE Resubmit(c) \/ Abort(c) \/ AttemptSend(c) \/ Crash(c)
    <2>1. status'[c] # "ok"
        BY <1>4, Zenon DEF Resubmit, Abort, AttemptSend, Crash, EndWithError, End, TypeOK
    <2>2. QED
        BY <1>3, <2>1, Zenon
<1>5. CASE AttemptMissingFiles(c) \/ AttemptRejected(c) \/ AttemptError(c)
           \/ PublishLoses(c) \/ PublishErrors(c)
    <2>1. status'[c] # "ok"
        BY <1>5, ZenonT(30) DEF AttemptMissingFiles, AttemptRejected, AttemptError, PublishLoses,
            PublishErrors, RetryOrGiveUp, EndWithError, End, TypeOK
    <2>2. QED
        BY <1>3, <2>1
<1>6. CASE CleanOrphans(c)
    <2>1. status'[c] = "unknown"
        BY <1>6 DEF CleanOrphans
    <2>2. QED
        BY <1>3, <2>1
<1>7. CASE AttemptFiltered(c)
    BY <1>7, FilterIsExact, Zenon DEF AttemptFiltered, PublishedAs
<1>8. CASE AttemptDuplicate(c) \/ AttemptDuplicateCallbackFails(c)
    <2>1. UNCHANGED <<hist, op>> /\ FindDuplicate(c)
        BY <1>8, Zenon DEF AttemptDuplicate, AttemptDuplicateCallbackFails
    <2>2. PICK i \in call[c].dupStart..Len(hist) : PublishedAs(c, op[c], i)
        BY <2>1, Zenon DEF FindDuplicate, PublishedAs
    <2>3. call[c].dupStart \in Nat /\ call[c].dupStart # 0
        BY <2>1, Zenon DEF FindDuplicate, TypeOK, Call
    <2>4. i \in 1..Len(hist)
        BY <2>3 DEF TypeOK
    <2>5. QED
        BY <2>1, <2>2, <2>4, Zenon DEF PublishedAs
<1>9. CASE PublishWins(c) \/ PublishWinsCallbackFails(c)
    <2>1. /\ status[c] = "publishing" /\ Len(hist) = call[c].snap
          /\ hist' = Append(hist, NewSnapshot(c)) /\ op' = op
        BY <1>9, Zenon DEF PublishWins, PublishWinsCallbackFails, Publish
    <2>2. /\ Len(hist') = Len(hist) + 1 /\ Len(hist) \in Nat
          /\ hist'[Len(hist')] = NewSnapshot(c)
        <3>1. NewSnapshot(c) \in Snapshot /\ hist \in Seq(Snapshot)
            BY <2>1, RequestIsNewest DEF TypeOK
        <3> DEFINE n == NewSnapshot(c)
                   g == hist'
        <3>2. n \in Snapshot /\ g = Append(hist, n)
            BY <2>1, <3>1, Zenon
        <3> HIDE DEF n, g
        <3>3. Len(g) = Len(hist) + 1 /\ Len(hist) \in Nat /\ g[Len(g)] = n
            BY <3>1, <3>2
        <3> QED
            BY <3>3, Zenon DEF n, g
    <2>3. Len(hist') \in 1..Len(hist')
        BY <2>2
    <2>4. PublishedAs(c, op[c], Len(hist))'
        BY <2>1, <2>2, RequestIsNewest, ZenonT(30) DEF PublishedAs
    <2>5. QED
        BY <2>3, <2>4, Zenon DEF PublishedAs
<1>10. QED
    BY <1>2, <1>4, <1>5, <1>6, <1>7, <1>8, <1>9, Zenon DEF Step, Attempt, Answer

--------------------------------------------------------------------------------
(* The theorems *)

(* The invariant holds initially: nothing is published or requested. *)
LEMMA IdempotenceInit == Init => IdempotenceInv
<1> SUFFICES ASSUME Init PROVE IdempotenceInv
    OBVIOUS
<1>1. Len(hist) = 0 /\ late = {} /\ \A c \in Committers : status[c] = "new"
    BY DEF Init
<1>2. QED
    BY <1>1 DEF IdempotenceInv, OrderInv, CommitsOnceInOrder, OwnCommitInv, DoubtInv,
        AcknowledgedIsPublished, InCall

(* The invariant survives the arrival of an old request, and stuttering. *)
LEMMA QuietUndisturbed ==
    ASSUME TypeOK, DeliverLate \/ UNCHANGED vars, NEW d \in Committers
    PROVE  Undisturbed(d)
<1>1. CASE UNCHANGED vars
    BY <1>1 DEF vars, Undisturbed
<1>2. CASE DeliverLate
    <2>1. PICK r \in late : Publish(r.snapshot)
        BY <1>2 DEF DeliverLate
    <2>2. r.snapshot \in Snapshot
        BY DEF TypeOK
    <2>3. QED
        BY <1>2, <2>1, <2>2, Zenon DEF DeliverLate, Undisturbed, Publish
<1>3. QED
    BY <1>1, <1>2, Zenon

(* The invariant is inductive. *)
LEMMA IdempotenceStep ==
    ASSUME FilesAreCounted, TypeOK, IdempotenceInv, [Next]_vars
    PROVE  IdempotenceInv'
<1>1. OrderInv /\ \A d \in Committers : OwnCommitInv(d) /\ DoubtInv(d) /\ Acknowledged(d)
    BY DEF IdempotenceInv, AcknowledgedIsPublished, Acknowledged
<1>2. OrderInv'
    BY OrderStep
<1>3. ASSUME NEW d \in Committers PROVE OwnCommitInv(d)' /\ DoubtInv(d)' /\ Acknowledged(d)'
    <2>1. CASE DeliverLate \/ UNCHANGED vars
        BY <1>1, <2>1, QuietUndisturbed, OwnFrame, AcknowledgedStays
    <2>2. ASSUME NEW c \in Committers, Step(c)
          PROVE  OwnCommitInv(d)' /\ DoubtInv(d)' /\ Acknowledged(d)'
        <3>1. CASE d = c
            BY <1>1, <2>2, <3>1, ActorStep, AcknowledgeStep
        <3>2. CASE d # c
            BY <1>1, <2>2, <3>2, OthersUndisturbed, OwnFrame, AcknowledgedStays
        <3>3. QED
            BY <3>1, <3>2
    <2>3. QED
        BY <2>1, <2>2 DEF Next
<1>4. QED
    BY <1>2, <1>3, Zenon DEF IdempotenceInv, AcknowledgedIsPublished, Acknowledged

--------------------------------------------------------------------------------
(* What is published *)

(* A snapshot that may become the next one. *)
Prepared(s) ==
    /\ s \in Snapshot
    /\ FitsOn(s, Len(hist))
    /\ s.adds \subseteq files
    /\ \A f \in s.adds : f.user = s.user /\ f.op = s.op

(* Earlier snapshots stay what they are. *)
LEMMA LiveStays ==
    ASSUME TypeOK, NEW s \in Snapshot, hist' = Append(hist, s)
    PROVE  /\ Len(hist') = Len(hist) + 1 /\ Len(hist) \in Nat
           /\ \A i \in 1..Len(hist) : hist'[i] = hist[i]
           /\ hist'[Len(hist) + 1] = s
           /\ \A n \in 0..Len(hist) : LiveAt(n)' = LiveAt(n) /\ TotalAt(n)' = TotalAt(n)
           /\ \A n : n = Len(hist) + 1 => LiveAt(n)' = Live(s)
<1>1. /\ Len(hist') = Len(hist) + 1 /\ Len(hist) \in Nat
      /\ hist'[Len(hist')] = s
      /\ \A i \in 1..Len(hist) : hist'[i] = hist[i]
    BY AppendFacts DEF TypeOK
<1>2. \A n \in 0..Len(hist) : LiveAt(n)' = LiveAt(n) /\ TotalAt(n)' = TotalAt(n)
    <2> SUFFICES ASSUME NEW n \in 0..Len(hist)
                 PROVE  LiveAt(n)' = LiveAt(n) /\ TotalAt(n)' = TotalAt(n)
        OBVIOUS
    <2>1. CASE n = 0
        BY <2>1 DEF LiveAt, TotalAt
    <2>2. CASE n # 0
        <3>1. n \in 1..Len(hist)
            BY <1>1, <2>2
        <3>2. hist'[n] = hist[n]
            BY <1>1, <3>1, Zenon
        <3> QED
            BY <2>2, <3>2 DEF LiveAt, TotalAt, Live
    <2> QED
        BY <2>1, <2>2
<1>3. \A n : n = Len(hist) + 1 => LiveAt(n)' = Live(s)
    BY <1>1 DEF LiveAt, Live
<1> QED
    BY <1>1, <1>2, <1>3

LEMMA FitsStays ==
    ASSUME TypeOK, NEW s \in Snapshot, hist' = Append(hist, s),
           NEW t, NEW n \in 0..Len(hist), FitsOn(t, n)
    PROVE  FitsOn(t, n)'
<1>1. LiveAt(n)' = LiveAt(n)
    BY LiveStays, Zenon
<1> QED
    BY <1>1, Zenon DEF FitsOn, In, PartsOf, Live

--------------------------------------------------------------------------------
(* How a step changes the history *)

LEMMA RequestIsPrepared ==
    ASSUME FilesAreCounted, IInv, NEW c \in Committers, status[c] = "publishing", Len(hist) = call[c].snap
    PROVE  Prepared(NewSnapshot(c))
<1>1. NewSnapshot(c) \in Snapshot
    BY RequestIsNewest, Zenon DEF IInv, IdempotenceInv
<1>2. NewSnapshot(c).adds = plan[c].adds /\ NewSnapshot(c).user = c /\ NewSnapshot(c).op = op[c]
    BY Zenon DEF NewSnapshot
<1>3. OwnFilesInv(c) /\ OwnContentInv(c)
    BY Zenon DEF IInv, FileInv, ContentInv
<1>4. FitsOn(NewSnapshot(c), Len(hist))
    BY <1>3, Zenon DEF OwnContentInv
<1>5. plan[c].adds \subseteq files /\ \A f \in plan[c].adds : f.user = c /\ f.op = op[c]
    BY <1>3, Zenon DEF OwnFilesInv
<1> QED
    BY <1>1, <1>2, <1>4, <1>5, Zenon DEF Prepared

LEMMA LateIsPrepared ==
    ASSUME IInv, NEW r \in late
    PROVE  r.id = Len(hist) + 1 /\ Prepared(r.snapshot)
<1>1. r.id = Len(hist) + 1 /\ Len(hist) \in Nat /\ r.snapshot \in Snapshot
    BY DEF IInv, IdempotenceInv, OrderInv, TypeOK
<1>2. r.id - 1 = Len(hist)
    BY <1>1
<1>3. FitsOn(r.snapshot, Len(hist))
    BY <1>2, Zenon DEF IInv, ContentInv
<1>4. r.snapshot.adds \subseteq files
      /\ \A f \in r.snapshot.adds : f.user = r.snapshot.user /\ f.op = r.snapshot.op
    BY Zenon DEF IInv, FileInv
<1> QED
    BY <1>1, <1>3, <1>4, Zenon DEF Prepared

(* A step leaves the history alone, publishes a snapshot that fits, or leaves *)
(* a request that fits.                                                       *)
Quiet == hist' = hist /\ late' = late

Publishes == files' = files /\ \E s : Prepared(s) /\ Publish(s)

Requests ==
    /\ hist' = hist /\ files' = files
    /\ \E s : Prepared(s) /\ late' = late \cup {[id |-> Len(hist) + 1, snapshot |-> s]}

LEMMA LoseAnswerRequests ==
    ASSUME FilesAreCounted, IInv, NEW c \in Committers, status[c] = "publishing", LoseAnswer(c),
           UNCHANGED <<hist, files>>
    PROVE  Quiet \/ Requests
<1>1. CASE Len(hist) = call[c].snap
    <2>1. late' = late \cup {[id |-> Len(hist) + 1, snapshot |-> NewSnapshot(c)]}
        BY <1>1, Zenon DEF LoseAnswer, Request
    <2> QED
        BY <1>1, <2>1, RequestIsPrepared, Zenon DEF Requests
<1>2. CASE Len(hist) # call[c].snap
    BY <1>2, Zenon DEF LoseAnswer, Quiet
<1> QED
    BY <1>1, <1>2, Zenon

LEMMA HistorySteps ==
    ASSUME FilesAreCounted, IInv, [Next]_vars
    PROVE  Quiet \/ Publishes \/ Requests
<1>1. ASSUME NEW c \in Committers, PublishWins(c) \/ PublishWinsCallbackFails(c) PROVE Publishes
    BY <1>1, RequestIsPrepared, Zenon DEF PublishWins, PublishWinsCallbackFails, Publishes
<1>2. ASSUME NEW c \in Committers, PublishErrors(c) PROVE Quiet \/ Requests
    BY <1>2, LoseAnswerRequests, Zenon DEF PublishErrors
<1>3. ASSUME NEW c \in Committers, Crash(c) PROVE Quiet \/ Requests
    BY <1>3, LoseAnswerRequests, Zenon DEF Crash, Quiet
<1>4. ASSUME DeliverLate PROVE Publishes
    BY <1>4, LateIsPrepared, Zenon DEF DeliverLate, Publishes
<1>5. ASSUME NEW c \in Committers, Step(c),
             ~PublishWins(c), ~PublishWinsCallbackFails(c), ~PublishErrors(c), ~Crash(c)
      PROVE  Quiet
    BY <1>5, Zenon DEF Step, Attempt, Answer, SubmitDirect, SubmitExpected, SubmitOverwrite, Submit,
                Resubmit, Abort, CleanOrphans, AttemptFiltered, AttemptMissingFiles,
                AttemptDuplicate, AttemptRejected, AttemptSend, PublishLoses,
                AttemptDuplicateCallbackFails, AttemptError, Quiet
<1>6. CASE UNCHANGED vars
    BY <1>6, Zenon DEF vars, Quiet
<1> QED
    BY <1>1, <1>2, <1>3, <1>4, <1>5, <1>6, Zenon DEF Next

--------------------------------------------------------------------------------
(* What the deltas amount to *)

LEMMA MergeStep ==
    ASSUME FilesAreCounted, IInv, [Next]_vars
    PROVE  MergeInv'
<1>1. CASE hist' = hist
    <2>1. \A n : LiveAt(n)' = LiveAt(n)
        BY <1>1, Zenon DEF LiveAt, Live
    <2>2. MergeInv
        BY Zenon DEF IInv
    <2> QED
        BY <1>1, <2>1, <2>2, Zenon DEF MergeInv
<1>2. CASE Publishes
    <2>1. PICK s : Prepared(s) /\ hist' = Append(hist, s)
        BY <1>2, Zenon DEF Publishes, Publish
    <2>2. TypeOK /\ s \in Snapshot /\ s.base = LiveAt(Len(hist))
        BY <2>1, Zenon DEF Prepared, FitsOn, IInv
    <2>3. /\ Len(hist') = Len(hist) + 1 /\ Len(hist) \in Nat
          /\ \A i \in 1..Len(hist) : hist'[i] = hist[i]
          /\ hist'[Len(hist) + 1] = s
          /\ \A n \in 0..Len(hist) : LiveAt(n)' = LiveAt(n)
          /\ \A n : n = Len(hist) + 1 => LiveAt(n)' = Live(s)
        BY <2>1, <2>2, LiveStays, Zenon
    <2> SUFFICES ASSUME NEW n \in 0..Len(hist'), NEW m \in 0..n, NEW f \in File
                 PROVE  f \in LiveAt(n)' <=>
                            \/ f \in LiveAt(m)' /\ \A j \in (m + 1)..n : f \notin hist'[j].dels
                            \/ \E k \in (m + 1)..n :
                                f \in hist'[k].adds /\ \A j \in (k + 1)..n : f \notin hist'[j].dels
        BY Zenon DEF MergeInv
    <2>4. CASE n \in 0..Len(hist)
        <3>1. m \in 0..Len(hist) /\ \A j \in (m + 1)..n : hist'[j] = hist[j]
            BY <2>3, <2>4
        <3>2. \A k \in (m + 1)..n : \A j \in (k + 1)..n : hist'[j] = hist[j]
            BY <2>3, <2>4
        <3>3. LiveAt(n)' = LiveAt(n) /\ LiveAt(m)' = LiveAt(m)
            BY <2>3, <2>4, <3>1, Zenon
        <3>4. f \in LiveAt(n) <=>
                  \/ f \in LiveAt(m) /\ \A j \in (m + 1)..n : f \notin hist[j].dels
                  \/ \E k \in (m + 1)..n :
                      f \in hist[k].adds /\ \A j \in (k + 1)..n : f \notin hist[j].dels
            BY <2>4, Zenon DEF IInv, MergeInv
        <3> QED
            BY <3>1, <3>2, <3>3, <3>4, Zenon
    <2>5. CASE n = Len(hist) + 1 /\ m = n
        BY <2>3, <2>5
    <2>6. CASE n = Len(hist) + 1 /\ m # n
        <3> DEFINE N == Len(hist)
        <3>1. m \in 0..N /\ N \in 0..N /\ N \in Nat /\ m \in Nat
            BY <2>3, <2>6
        <3>2. f \in LiveAt(n)' <=> f \in s.adds \/ (f \in LiveAt(N) /\ f \notin s.dels)
            BY <2>2, <2>3, <2>6, ZenonT(30) DEF Live
        <3>3. f \in LiveAt(N) <=>
                  \/ f \in LiveAt(m) /\ \A j \in (m + 1)..N : f \notin hist[j].dels
                  \/ \E k \in (m + 1)..N :
                      f \in hist[k].adds /\ \A j \in (k + 1)..N : f \notin hist[j].dels
            BY <3>1, Zenon DEF IInv, MergeInv
        <3>4. LiveAt(m)' = LiveAt(m)
            BY <2>3, <3>1, Zenon
        <3>5. /\ \A j \in (m + 1)..N : hist'[j] = hist[j]
              /\ \A k \in (m + 1)..N : \A j \in (k + 1)..N : hist'[j] = hist[j]
            BY <2>3, <3>1
        <3>6. (\A j \in (m + 1)..n : f \notin hist'[j].dels) <=>
                  (\A j \in (m + 1)..N : f \notin hist[j].dels) /\ f \notin s.dels
            BY <2>3, <2>6, <3>1, <3>5
        <3>7. \A k \in (m + 1)..N :
                  (\A j \in (k + 1)..n : f \notin hist'[j].dels) <=>
                      (\A j \in (k + 1)..N : f \notin hist[j].dels) /\ f \notin s.dels
            BY <2>3, <2>6, <3>1, <3>5
        <3>8. (\E k \in (m + 1)..n :
                   f \in hist'[k].adds /\ \A j \in (k + 1)..n : f \notin hist'[j].dels) <=>
                  \/ f \in s.adds
                  \/ \E k \in (m + 1)..N :
                      /\ f \in hist[k].adds /\ f \notin s.dels
                      /\ \A j \in (k + 1)..N : f \notin hist[j].dels
            <4>1. n \in (m + 1)..n /\ hist'[n] = s /\ \A j \in (n + 1)..n : FALSE
                BY <2>3, <2>6, <3>1
            <4>2. \A k \in (m + 1)..n : k = n \/ k \in (m + 1)..N
                BY <2>3, <2>6, <3>1
            <4>3. (m + 1)..N \subseteq (m + 1)..n
                BY <2>3, <2>6, <3>1
            <4> QED
                BY <3>5, <3>7, <4>1, <4>2, <4>3, Zenon
        <3> QED
            BY <3>2, <3>3, <3>4, <3>6, <3>8, Zenon
    <2> QED
        BY <2>3, <2>4, <2>5, <2>6
<1> QED
    BY <1>1, <1>2, HistorySteps, Zenon DEF Quiet, Requests

--------------------------------------------------------------------------------
(* The data files *)

Removes(c) == Abort(c) \/ CleanOrphans(c)

(* Neither abort nor the cleaning of orphans meets a file in use. *)
LEMMA RemovesUnused ==
    ASSUME IInv, NEW c \in Committers, Removes(c)
    PROVE  /\ files' = files \ plan[c].adds
           /\ UNCHANGED <<hist, late, op, plan, call>> /\ status'[c] \notin InCall
           /\ \A d \in Committers \ {c} : status'[d] = status[d]
           /\ \A i \in 1..Len(hist) : plan[c].adds \cap Live(hist[i]) = {}
           /\ \A r \in late : plan[c].adds \cap r.snapshot.adds = {}
<1>1. /\ files' = files \ plan[c].adds
      /\ UNCHANGED <<hist, late, op, plan, call>> /\ status'[c] \notin InCall
      /\ \A d \in Committers \ {c} : status'[d] = status[d]
    BY Zenon DEF Removes, Abort, CleanOrphans, IInv, TypeOK, InCall
<1>2. CASE CleanOrphans(c)
    BY <1>1, <1>2, Zenon DEF CleanOrphans
<1>3. CASE Abort(c)
    <2>1. Unpublished(c)
        BY <1>3, Zenon DEF Abort, IInv, IdempotenceInv, DoubtInv
    <2>2. \A f \in plan[c].adds : f.user = c /\ f.op = op[c]
        BY Zenon DEF IInv, FileInv, OwnFilesInv
    <2>3. ASSUME NEW i \in 1..Len(hist), NEW f \in plan[c].adds, f \in Live(hist[i]) PROVE FALSE
        <3>1. PICK j \in 1..i : PublishedAs(f.user, f.op, j)
            BY <2>3, Zenon DEF IInv, FileInv
        <3>2. j \in 1..Len(hist) /\ PublishedAs(c, op[c], j)
            BY <2>2, <2>3, <3>1 DEF IInv, TypeOK
        <3> QED
            BY <2>1, <3>2, Zenon DEF Unpublished
    <2>4. ASSUME NEW r \in late, NEW f \in plan[c].adds, f \in r.snapshot.adds PROVE FALSE
        <3>1. RequestedAs(c, op[c], r)
            BY <2>2, <2>4 DEF IInv, FileInv, RequestedAs
        <3> QED
            BY <2>1, <2>4, <3>1, Zenon DEF Unpublished
    <2> QED
        BY <1>1, <2>3, <2>4, Zenon
<1> QED
    BY <1>2, <1>3, Zenon DEF Removes

LEMMA FilesStay ==
    ASSUME [Next]_vars, \A c \in Committers : ~Removes(c)
    PROVE  files \subseteq files'
<1>1. ASSUME NEW c \in Committers, NEW p, NEW filter, Submit(c, p, filter) PROVE files \subseteq files'
    BY <1>1, Zenon DEF Submit
<1>2. ASSUME NEW c \in Committers, SubmitDirect(c) \/ SubmitExpected(c) \/ SubmitOverwrite(c)
      PROVE  files \subseteq files'
    BY <1>1, <1>2, Zenon DEF SubmitDirect, SubmitExpected, SubmitOverwrite
<1>3. ASSUME NEW c \in Committers, Resubmit(c) \/ Attempt(c) \/ Answer(c) PROVE files' = files
    BY <1>3, Zenon DEF Resubmit, Attempt, Answer, AttemptFiltered, AttemptMissingFiles, AttemptDuplicate,
                AttemptRejected, AttemptSend, PublishWins, PublishLoses
<1>4. ASSUME NEW c \in Committers,
             \/ AttemptDuplicateCallbackFails(c) \/ AttemptError(c) \/ PublishWinsCallbackFails(c)
             \/ PublishErrors(c) \/ Crash(c)
      PROVE  files' = files
    BY <1>4, Zenon DEF PublishWinsCallbackFails, PublishErrors, AttemptDuplicateCallbackFails, AttemptError,
                Crash
<1>5. ASSUME DeliverLate \/ UNCHANGED vars PROVE files' = files
    BY <1>5, Zenon DEF DeliverLate, vars
<1> QED
    BY <1>2, <1>3, <1>4, <1>5, Zenon DEF Next, Step, Removes

(* What the history and the requests name is in storage. *)
Referenced ==
    /\ LiveFilesExist
    /\ \A i \in 1..Len(hist) : \A f \in Live(hist[i]) :
        \E j \in 1..i : PublishedAs(f.user, f.op, j)
    /\ \A r \in late : r.snapshot.adds \subseteq files
    /\ \A r \in late : \A f \in r.snapshot.adds :
        f.user = r.snapshot.user /\ f.op = r.snapshot.op

LEMMA ReferencedStep ==
    ASSUME FilesAreCounted, IInv, [Next]_vars
    PROVE  Referenced'
<1>0. Referenced
    BY Zenon DEF IInv, FileInv, Referenced
<1>1. ASSUME NEW c \in Committers, Removes(c) PROVE Referenced'
    <2>1. /\ files' = files \ plan[c].adds /\ UNCHANGED <<hist, late>>
          /\ \A i \in 1..Len(hist) : plan[c].adds \cap Live(hist[i]) = {}
          /\ \A r \in late : plan[c].adds \cap r.snapshot.adds = {}
        BY <1>1, RemovesUnused, Zenon
    <2> QED
        BY <1>0, <2>1 DEF Referenced, LiveFilesExist, PublishedAs, Live
<1>2. ASSUME files \subseteq files', Quiet PROVE Referenced'
    BY <1>0, <1>2 DEF Quiet, Referenced, LiveFilesExist, PublishedAs, Live
<1>3. ASSUME Requests PROVE Referenced'
    <2>1. PICK s : /\ Prepared(s) /\ hist' = hist /\ files' = files
                   /\ late' = late \cup {[id |-> Len(hist) + 1, snapshot |-> s]}
        BY <1>3, Zenon DEF Requests
    <2>2. \A r \in late' : r \in late \/ r.snapshot = s
        BY <2>1
    <2>3. s.adds \subseteq files /\ \A f \in s.adds : f.user = s.user /\ f.op = s.op
        BY <2>1, Zenon DEF Prepared
    <2> QED
        BY <1>0, <2>1, <2>2, <2>3 DEF Referenced, LiveFilesExist, PublishedAs, Live
<1>4. ASSUME Publishes PROVE Referenced'
    <2>1. PICK s : Prepared(s) /\ hist' = Append(hist, s) /\ late' = {} /\ files' = files
        BY <1>4, Zenon DEF Publishes, Publish
    <2>2. /\ s \in Snapshot /\ s.base = LiveAt(Len(hist)) /\ s.adds \subseteq files
          /\ \A f \in s.adds : f.user = s.user /\ f.op = s.op
        BY <2>1, Zenon DEF Prepared, FitsOn
    <2>3. /\ Len(hist') = Len(hist) + 1 /\ Len(hist) \in Nat
          /\ \A i \in 1..Len(hist) : hist'[i] = hist[i]
          /\ hist'[Len(hist) + 1] = s
        BY <2>1, <2>2, LiveStays, Zenon DEF IInv
    <2>4. \A f \in Live(s) : f \in s.adds \/ (Len(hist) # 0 /\ f \in Live(hist[Len(hist)]))
        BY <2>2, Zenon DEF Live, LiveAt
    <2>5. Live(s) \subseteq files
        BY <1>0, <2>2, <2>3, <2>4 DEF Referenced, LiveFilesExist
    <2>6. LiveFilesExist'
        <3> SUFFICES ASSUME NEW i \in 1..Len(hist') PROVE Live(hist'[i]) \subseteq files
            BY <2>1, Zenon DEF LiveFilesExist, Live
        <3>1. CASE i = Len(hist) + 1
            BY <2>3, <2>5, <3>1, Zenon
        <3>2. CASE i # Len(hist) + 1
            BY <1>0, <2>3, <3>2 DEF Referenced, LiveFilesExist
        <3> QED
            BY <3>1, <3>2, Zenon
    <2>7. ASSUME NEW i \in 1..Len(hist'), NEW f \in Live(hist'[i])
          PROVE  \E j \in 1..i : hist'[j].user = f.user /\ hist'[j].op = f.op
        <3>1. ASSUME NEW k \in 1..Len(hist), f \in Live(hist[k])
              PROVE  \E j \in 1..k : hist'[j].user = f.user /\ hist'[j].op = f.op
            <4>1. PICK j \in 1..k : PublishedAs(f.user, f.op, j)
                BY <1>0, <3>1, Zenon DEF Referenced
            <4>2. hist'[j] = hist[j]
                BY <2>3
            <4> QED
                BY <4>1, <4>2, Zenon DEF PublishedAs
        <3>2. CASE i # Len(hist) + 1
            BY <2>3, <3>1, <3>2
        <3>3. CASE i = Len(hist) + 1 /\ f \in s.adds
            BY <2>2, <2>3, <3>3, Zenon
        <3>4. CASE i = Len(hist) + 1 /\ f \notin s.adds
            <4>1. Len(hist) \in 1..Len(hist) /\ f \in Live(hist[Len(hist)])
                BY <2>3, <2>4, <3>4
            <4> QED
                BY <2>3, <3>1, <3>4, <4>1
        <3> QED
            BY <3>2, <3>3, <3>4, Zenon
    <2> QED
        BY <2>1, <2>6, <2>7, Zenon DEF Referenced, PublishedAs, Live
<1>5. CASE \A c \in Committers : ~Removes(c)
    BY <1>2, <1>3, <1>4, <1>5, FilesStay, HistorySteps, Zenon
<1> QED
    BY <1>1, <1>5, Zenon

LEMMA OwnFilesStep ==
    ASSUME FilesAreCounted, IInv, [Next]_vars, NEW d \in Committers
    PROVE  OwnFilesInv(d)'
<1>0. /\ TypeOK /\ OrderInv /\ \A c \in Committers : OwnFilesInv(c) /\ OwnCommitInv(c)
      /\ op[d] \in Op
    BY Zenon DEF IInv, IdempotenceInv, FileInv, TypeOK
<1>1. ASSUME NEW c \in Committers, Removes(c) PROVE OwnFilesInv(d)'
    <2>1. /\ files' = files \ plan[c].adds
          /\ UNCHANGED <<op, plan, call>> /\ status'[c] \notin InCall
          /\ \A e \in Committers \ {c} : status'[e] = status[e]
        BY <1>1, RemovesUnused, Zenon
    <2>2. CASE d = c
        BY <1>0, <2>1, <2>2, Zenon DEF OwnFilesInv, InCall
    <2>3. CASE d # c
        <3>1. plan[d].adds \cap plan[c].adds = {}
            BY <1>0, <2>3, ZenonT(30) DEF OwnFilesInv
        <3> QED
            BY <1>0, <2>1, <2>3, <3>1, Zenon DEF OwnFilesInv
    <2> QED
        BY <2>2, <2>3, Zenon
<1>2. ASSUME files \subseteq files', Undisturbed(d) PROVE OwnFilesInv(d)'
    BY <1>0, <1>2, Zenon DEF OwnFilesInv, Undisturbed
<1>3. ASSUME NEW p, NEW filter, Submit(d, p, filter),
             \A f \in p.adds : f.user = d /\ f.op = op[d] + 1
      PROVE  OwnFilesInv(d)'
    <2>1. op'[d] = op[d] + 1 /\ plan'[d] = p /\ p.adds \subseteq files'
        BY <1>0, <1>3, Zenon DEF Submit, TypeOK
    <2> QED
        BY <1>3, <2>1, Zenon DEF OwnFilesInv
<1>4. ASSUME SubmitDirect(d) \/ SubmitExpected(d) \/ SubmitOverwrite(d) PROVE OwnFilesInv(d)'
    <2>1. \A a \in NewFiles(d) : \A f \in a : f.user = d /\ f.op = op[d] + 1
        BY DEF NewFiles, NewFile
    <2>2. /\ \A a, x, e : DirectPlan(a, x, e).adds = a
          /\ \A a, o : OverwritePlan(a, o).adds = a
        BY Zenon DEF DirectPlan, OverwritePlan
    <2>3. CASE SubmitDirect(d)
        <3>1. PICK a \in NewFiles(d), x \in Replaceable, filter \in BOOLEAN :
                  Submit(d, DirectPlan(a, x, 0), filter)
            BY <2>3, Zenon DEF SubmitDirect
        <3> QED
            BY <1>3, <2>1, <2>2, <3>1
    <2>4. CASE SubmitExpected(d)
        <3>1. PICK a \in NewFiles(d), x \in Replaceable : Submit(d, DirectPlan(a, x, Len(hist)), FALSE)
            BY <2>4, Zenon DEF SubmitExpected
        <3>2. DirectPlan(a, x, Len(hist)).adds = a
            BY Zenon DEF DirectPlan
        <3>3. \A f \in DirectPlan(a, x, Len(hist)).adds : f.user = d /\ f.op = op[d] + 1
            BY <2>1, <3>1, <3>2, Zenon
        <3> QED
            BY <1>3, <3>1, <3>3, Zenon
    <2>5. CASE SubmitOverwrite(d)
        <3>1. PICK a \in NewFiles(d), o \in Filters, filter \in BOOLEAN :
                  Submit(d, OverwritePlan(a, o), filter)
            BY <2>5, Zenon DEF SubmitOverwrite
        <3> QED
            BY <1>3, <2>1, <2>2, <3>1
    <2> QED
        BY <1>4, <2>3, <2>4, <2>5, Zenon
<1>5. ASSUME UNCHANGED <<op, plan, files>>, status'[d] \notin InCall PROVE OwnFilesInv(d)'
    BY <1>0, <1>5, Zenon DEF OwnFilesInv, InCall
<1>6. ASSUME Resubmit(d) PROVE OwnFilesInv(d)'
    <2>1. UNCHANGED <<op, plan, files>> /\ status'[d] = "running" /\ call'[d].filter
        BY <1>0, <1>6, Zenon DEF Resubmit, TypeOK, NewCall
    <2> QED
        BY <1>0, <2>1, Zenon DEF OwnFilesInv
<1>7. ASSUME NEW result \in Ended, End(d, result) PROVE status'[d] \notin InCall
    BY <1>0, <1>7, Zenon DEF End, TypeOK, Ended, InCall
<1>8. ASSUME NEW uncertain, NEW plain \in {"failed", "unknown"},
             EndWithError(d, uncertain, plain)
      PROVE  status'[d] \notin InCall
    <2>1. (IF uncertain THEN "unknown" ELSE plain) \in Ended
        BY Zenon DEF Ended
    <2> QED
        BY <1>7, <1>8, <2>1, Zenon DEF EndWithError
<1>9. ASSUME AttemptSend(d) PROVE OwnFilesInv(d)'
    <2>1. plan[d].adds \subseteq files
        BY <1>0, <1>9, Zenon DEF AttemptSend, PassesFilter, OwnFilesInv
    <2>2. UNCHANGED <<op, plan, files>>
        BY <1>9, Zenon DEF AttemptSend
    <2> QED
        BY <1>0, <2>1, <2>2, Zenon DEF OwnFilesInv
<1>10. ASSUME AttemptFiltered(d) \/ AttemptDuplicate(d) \/ PublishWins(d) PROVE OwnFilesInv(d)'
    <2>1. End(d, "ok") /\ UNCHANGED <<op, plan, files>> /\ "ok" \in Ended
        BY <1>10, Zenon DEF AttemptFiltered, AttemptDuplicate, PublishWins, Ended
    <2> QED
        BY <1>5, <1>7, <2>1, Zenon
<1>11. ASSUME \/ AttemptMissingFiles(d) \/ AttemptRejected(d) \/ AttemptDuplicateCallbackFails(d)
              \/ AttemptError(d) \/ PublishWinsCallbackFails(d) \/ Crash(d)
       PROVE  OwnFilesInv(d)'
    <2>1. UNCHANGED <<op, plan, files>>
        BY <1>11, Zenon DEF AttemptMissingFiles, AttemptRejected, AttemptDuplicateCallbackFails,
                     AttemptError, PublishWinsCallbackFails, Crash
    <2>2. \E u : \E plain \in {"failed", "unknown"} : EndWithError(d, u, plain)
        BY <1>11, Zenon DEF AttemptMissingFiles, AttemptRejected, AttemptDuplicateCallbackFails,
                     AttemptError, PublishWinsCallbackFails, Crash
    <2> QED
        BY <1>5, <1>8, <2>1, <2>2, Zenon
<1>12. ASSUME PublishLoses(d) \/ PublishErrors(d) PROVE OwnFilesInv(d)'
    <2>1. UNCHANGED <<op, plan, files>> /\ status[d] = "publishing"
        BY <1>12, Zenon DEF PublishLoses, PublishErrors
    <2> QED
        BY <1>0, <2>1, Zenon DEF OwnFilesInv
<1>13. CASE \A c \in Committers : ~Removes(c)
    <2>1. files \subseteq files'
        BY <1>13, FilesStay, Zenon
    <2>2. ASSUME NEW c \in Committers, Step(c), c # d PROVE OwnFilesInv(d)'
        BY <1>0, <1>2, <2>1, <2>2, OthersUndisturbed, Zenon
    <2>3. ASSUME DeliverLate \/ UNCHANGED vars PROVE OwnFilesInv(d)'
        BY <1>0, <1>2, <2>1, <2>3, QuietUndisturbed, Zenon
    <2>4. ASSUME Step(d) PROVE OwnFilesInv(d)'
        BY <1>4, <1>6, <1>9, <1>10, <1>11, <1>12, <1>13, <2>4, Zenon DEF Step, Attempt, Answer, Removes
    <2> QED
        BY <2>2, <2>3, <2>4, Zenon DEF Next
<1> QED
    BY <1>1, <1>13, Zenon

LEMMA FileStep ==
    ASSUME FilesAreCounted, IInv, [Next]_vars
    PROVE  FileInv'
BY ReferencedStep, OwnFilesStep, Zenon DEF Referenced, FileInv

--------------------------------------------------------------------------------
(* The overwrite cache and the conflict base *)

(* The history has a length, and a call counts snapshots. *)
LEMMA HistoryTyped ==
    ASSUME TypeOK
    PROVE  hist \in Seq(Snapshot) /\ Len(hist) \in Nat
<1>1. hist \in Seq(Snapshot)
    BY Zenon DEF TypeOK
<1> QED
    BY <1>1

LEMMA CallTyped ==
    ASSUME TypeOK, NEW c \in Committers
    PROVE  /\ call[c] \in Call /\ call[c].snap \in Nat /\ call[c].prevSnap \in Nat
           /\ call[c].cacheSnap \in Nat /\ plan[c] \in Plan
<1>1. call[c] \in Call /\ plan[c] \in Plan
    BY Zenon DEF TypeOK
<1> QED
    BY <1>1, Zenon DEF Call

(* A cache that only appends elsewhere have followed is still exact. *)
LEMMA CacheIsExact ==
    ASSUME IInv, NEW c \in Committers, plan[c].mode = "overwrite"
    PROVE  OverwriteEntries(c) = In(LiveAt(Len(hist)), plan[c].over)
<1>0. TypeOK /\ Len(hist) \in Nat /\ OwnContentInv(c) /\ call[c].cacheSnap \in Nat
    BY HistoryTyped, CallTyped, Zenon DEF IInv, ContentInv
<1>1. CASE ~CacheUsable(c)
    BY <1>1, Zenon DEF OverwriteEntries
<1>2. CASE CacheUsable(c)
    <2> DEFINE m == call[c].cacheSnap
               N == Len(hist)
    <2>1. /\ m \in 0..N /\ N \in 0..N /\ call[c].cache = In(LiveAt(m), plan[c].over)
          /\ OverwriteEntries(c) = call[c].cache
        BY <1>0, <1>2 DEF CacheUsable, OverwriteEntries, OwnContentInv
    <2>2. CASE m = N
        BY <2>1, <2>2, Zenon
    <2>3. CASE m # N
        <3>1. \A k \in (m + 1)..N : In(hist[k].adds \cup hist[k].dels, plan[c].over) = {}
            BY <1>2, <2>3, Zenon DEF CacheUsable, CanUseOverwriteCache
        <3>2. \A k \in (m + 1)..N : \A f \in hist[k].adds \cup hist[k].dels : f.part \notin plan[c].over
            BY <3>1, Zenon DEF In
        <3>3. ASSUME NEW f \in File, f.part \in plan[c].over
              PROVE  f \in LiveAt(N) <=> f \in LiveAt(m)
            <4>1. f \in LiveAt(N) <=>
                      \/ f \in LiveAt(m) /\ \A j \in (m + 1)..N : f \notin hist[j].dels
                      \/ \E k \in (m + 1)..N :
                          f \in hist[k].adds /\ \A j \in (k + 1)..N : f \notin hist[j].dels
                BY <2>1, Zenon DEF IInv, MergeInv
            <4> QED
                BY <3>2, <3>3, <4>1, Zenon
        <3>4. LiveAt(N) \subseteq File /\ LiveAt(m) \subseteq File
            BY <1>0, <2>1, LiveTyped, Zenon
        <3> QED
            BY <2>1, <3>3, <3>4, Zenon DEF In
    <2> QED
        BY <2>2, <2>3, Zenon
<1> QED
    BY <1>1, <1>2, Zenon

LEMMA ScopeIsPlanned ==
    ASSUME NEW c \in Committers, plan[c].mode = "direct"
    PROVE  ResolvedDels(c) = plan[c].dels /\ ChangedPartitions(c) = ScopeOf(plan[c])
BY Zenon DEF ResolvedDels, ChangedPartitions, ScopeOf

(* Replaying the deltas on an old base gives what a scan gives. *)
LEMMA IncrementalIsExact ==
    ASSUME IInv, NEW c \in Committers, plan[c].mode = "direct", call[c].prevHas
    PROVE  IncrementalBase(c) = In(LiveAt(Len(hist)), ScopeOf(plan[c]))
<1> DEFINE m == call[c].prevSnap
           N == Len(hist)
           P == ScopeOf(plan[c])
           Kept(f, k) == \A j \in (k + 1)..N : f \notin hist[j].dels
<1>0. TypeOK /\ N \in Nat /\ m \in Nat /\ OwnContentInv(c)
    BY HistoryTyped, CallTyped, Zenon DEF IInv, ContentInv
<1>1. m \in 0..N /\ N \in 0..N /\ call[c].prevBase = In(LiveAt(m), P)
    BY <1>0 DEF OwnContentInv
<1>2. /\ LiveAt(N) \subseteq File /\ LiveAt(m) \subseteq File
      /\ \A k \in (m + 1)..N : hist[k].adds \subseteq File
    <2>1. \A k \in (m + 1)..N : hist[k] \in Snapshot
        BY <1>0, <1>1 DEF TypeOK
    <2>2. \A k \in (m + 1)..N : hist[k].adds \subseteq File
        BY <2>1, Zenon DEF Snapshot
    <2> QED
        BY <1>0, <1>1, <2>2, LiveTyped, Zenon
<1>3. \A f : f \in IncrementalBase(c) <=>
          \/ f \in call[c].prevBase /\ ~(f.part \in P /\ ~Kept(f, m))
          \/ \E k \in (m + 1)..N :
              f \in In(hist[k].adds, P) /\ ~(f.part \in P /\ ~Kept(f, k))
    BY ScopeIsPlanned DEF IncrementalBase
<1>4. \A f : f \in IncrementalBase(c) <=>
          \/ f \in LiveAt(m) /\ f.part \in P /\ Kept(f, m)
          \/ \E k \in (m + 1)..N : f \in hist[k].adds /\ f.part \in P /\ Kept(f, k)
    <2> HIDE DEF Kept, P
    <2> QED
        BY <1>1, <1>3, Zenon DEF In
<1>5. \A f \in File : f \in LiveAt(N) <=>
          \/ f \in LiveAt(m) /\ Kept(f, m)
          \/ \E k \in (m + 1)..N : f \in hist[k].adds /\ Kept(f, k)
    BY <1>1, Zenon DEF IInv, MergeInv
<1>6. \A f : f \in IncrementalBase(c) <=> f \in LiveAt(N) /\ f.part \in P
    <2> HIDE DEF Kept, P
    <2> QED
        BY <1>2, <1>4, <1>5, Zenon
<1>7. \A f : f \in In(LiveAt(N), P) <=> f \in LiveAt(N) /\ f.part \in P
    BY Zenon DEF In
<1> QED
    BY <1>6, <1>7, Zenon

LEMMA ConflictBaseIsExact ==
    ASSUME IInv, NEW c \in Committers, plan[c].mode = "direct"
    PROVE  ConflictBase(c) = In(LiveAt(Len(hist)), ScopeOf(plan[c]))
BY IncrementalIsExact, ScopeIsPlanned, Zenon DEF ConflictBase

--------------------------------------------------------------------------------
(* What is sent fits *)

(* A total that was right stays right. *)
LEMMA TotalIsRight ==
    ASSUME FilesAreCounted, IInv
    PROVE  TotalAt(Len(hist)) = Cardinality(LiveAt(Len(hist)))
<1>1. TypeOK /\ Len(hist) \in Nat
    BY DEF IInv, TypeOK
<1>2. CASE Len(hist) = 0
    BY <1>2, Zenon DEF TotalAt, LiveAt, FilesAreCounted
<1>3. CASE Len(hist) # 0
    <2>1. FitsOn(hist[Len(hist)], Len(hist) - 1)
        BY <1>1, <1>3 DEF IInv, ContentInv
    <2> QED
        BY <1>3, <2>1, Zenon DEF FitsOn, TotalAt, LiveAt
<1> QED
    BY <1>2, <1>3, Zenon

(* The files of an operation that is not published are in no snapshot. *)
LEMMA SentIsNew ==
    ASSUME IInv, NEW c \in Committers, AttemptSend(c)
    PROVE  plan[c].adds \cap LiveAt(Len(hist)) = {}
<1> SUFFICES ASSUME NEW f \in plan[c].adds, f \in LiveAt(Len(hist)) PROVE FALSE
    BY Zenon
<1>1. TypeOK /\ Len(hist) \in Nat /\ Len(hist) # 0 /\ f \in Live(hist[Len(hist)])
    BY HistoryTyped, Zenon DEF IInv, LiveAt
<1>2. PICK j \in 1..Len(hist) : PublishedAs(f.user, f.op, j)
    BY <1>1 DEF IInv, FileInv
<1>3. f.user = c /\ f.op = op[c]
    BY Zenon DEF IInv, FileInv, OwnFilesInv
<1>4. ~PublishedAs(c, op[c], j)
    BY SendIsFresh, Zenon DEF IInv, IdempotenceInv
<1> QED
    BY <1>2, <1>3, <1>4, Zenon

LEMMA SentDelsFit ==
    ASSUME IInv, NEW c \in Committers, AttemptSend(c)
    PROVE  /\ ResolvedDels(c) \subseteq LiveAt(Len(hist))
           /\ plan[c].mode = "overwrite" => ResolvedDels(c) = In(LiveAt(Len(hist)), plan[c].over)
           /\ DetectConflicts(c) => ResolvedDels(c) \subseteq ConflictBase(c)
<1>1. ~Conflict(c) /\ plan[c] \in Plan
    BY DEF AttemptSend, IInv, TypeOK
<1>2. DetectConflicts(c) => ResolvedDels(c) \subseteq ConflictBase(c)
    BY <1>1, Zenon DEF Conflict
<1>3. CASE plan[c].mode = "overwrite"
    <2>1. ResolvedDels(c) = In(LiveAt(Len(hist)), plan[c].over)
        BY <1>3, CacheIsExact, Zenon DEF ResolvedDels
    <2> QED
        BY <1>2, <2>1, Zenon DEF In
<1>4. CASE plan[c].mode # "overwrite"
    <2>1. plan[c].mode = "direct"
        BY <1>1, <1>4, Zenon DEF Plan
    <2>2. ResolvedDels(c) = plan[c].dels
        BY <2>1, ScopeIsPlanned, Zenon
    <2>3. CASE plan[c].dels = {}
        BY <1>2, <1>4, <2>2, <2>3, Zenon
    <2>4. CASE plan[c].dels # {}
        <3>1. DetectConflicts(c)
            BY <2>4, Zenon DEF DetectConflicts, KindOf
        <3>2. ResolvedDels(c) \subseteq In(LiveAt(Len(hist)), ScopeOf(plan[c]))
            BY <1>2, <2>1, <3>1, ConflictBaseIsExact, Zenon
        <3> QED
            BY <1>2, <1>4, <3>2, Zenon DEF In
    <2> QED
        BY <2>3, <2>4, Zenon
<1> QED
    BY <1>3, <1>4, Zenon

(* The snapshot that is asked for when a request goes out. *)
Sent(c) ==
    [user |-> c, op |-> op[c], kind |-> KindOf(plan[c]), base |-> LiveAt(Len(hist)),
     adds |-> plan[c].adds, dels |-> ResolvedDels(c),
     total |-> TotalAt(Len(hist)) + Cardinality(plan[c].adds) - Cardinality(ResolvedDels(c)),
     over |-> plan[c].over, expect |-> plan[c].expect]

LEMMA SentFits ==
    ASSUME FilesAreCounted, IInv, NEW c \in Committers, AttemptSend(c)
    PROVE  FitsOn(Sent(c), Len(hist))
<1> DEFINE B == LiveAt(Len(hist))
           D == ResolvedDels(c)
           A == plan[c].adds
<1>1. TypeOK /\ OwnContentInv(c) /\ plan[c] \in Plan /\ Len(hist) \in Nat
    BY HistoryTyped, CallTyped, Zenon DEF IInv, ContentInv
<1>2. B \subseteq File /\ A \subseteq File /\ D \subseteq B /\ A \cap B = {}
    BY <1>1, LiveTyped, SentDelsFit, SentIsNew DEF Plan
<1>3. Cardinality((B \ D) \cup A) = Cardinality(B) + Cardinality(A) - Cardinality(D)
    BY <1>2, Zenon DEF FilesAreCounted
<1>4. /\ Sent(c).base = B /\ Sent(c).adds = A /\ Sent(c).dels = D
      /\ Sent(c).total = TotalAt(Len(hist)) + Cardinality(A) - Cardinality(D)
      /\ Sent(c).over = plan[c].over /\ Sent(c).expect = plan[c].expect
    BY Zenon DEF Sent
<1>5. Live(Sent(c)) = (B \ D) \cup A
    BY <1>4, Zenon DEF Live
<1>6. Sent(c).total = Cardinality(Live(Sent(c)))
    BY <1>3, <1>4, <1>5, TotalIsRight, Zenon
<1>7. plan[c].over # {} => In(B, plan[c].over) = D /\ PartsOf(A) \subseteq plan[c].over
    <2> SUFFICES ASSUME plan[c].over # {}
                 PROVE  In(B, plan[c].over) = D /\ PartsOf(A) \subseteq plan[c].over
        BY Zenon
    <2>1. plan[c].mode = "overwrite"
        BY <1>1, Zenon DEF OwnContentInv, Plan
    <2> QED
        BY <1>1, <2>1, SentDelsFit, Zenon DEF OwnContentInv, ValidPlan
<1>8. plan[c].expect # 0 => plan[c].expect = Len(hist)
    BY Zenon DEF AttemptSend, ExpectedLatest
<1> QED
    BY <1>2, <1>4, <1>6, <1>7, <1>8, Zenon DEF FitsOn

--------------------------------------------------------------------------------
(* The content invariant, committer by committer *)

(* The clauses about the plan alone, and those about the locals of the loop. *)
PlanFits(p) ==
    /\ ValidPlan(p)
    /\ p.mode = "direct" <=> p.over = {}
    /\ p.mode = "overwrite" => p.dels = {} /\ p.expect = 0
    /\ p.mode = "overwrite" /\ ~Partitioned => p.over = Partitions

(* Outside a publication, only the cache and the bases matter. *)
LEMMA ResetContent ==
    ASSUME NEW c \in Committers, NEW filter, PlanFits(plan'[c]), call'[c] = NewCall(filter),
           status'[c] # "publishing"
    PROVE  OwnContentInv(c)'
<1>1. /\ call'[c].cacheSnap = 0 /\ ~call'[c].prevHas /\ ~call'[c].hasBase
    BY DEF NewCall
<1> QED
    BY <1>1, Zenon DEF OwnContentInv, PlanFits, ValidPlan, PartsOf

LEMMA SubmitContent ==
    ASSUME TypeOK, NEW c \in Committers, NEW p, NEW filter, Submit(c, p, filter), PlanFits(p)
    PROVE  OwnContentInv(c)'
<1>1. /\ plan'[c] = p /\ call'[c] = NewCall(filter /\ ~EarlyReturn(p))
      /\ status'[c] \in {"ok", "running"}
    BY Zenon DEF Submit, TypeOK
<1> QED
    BY <1>1, ResetContent, Zenon

LEMMA PlansFit ==
    ASSUME NEW c \in Committers, NEW a \in NewFiles(c)
    PROVE  /\ \A d, e : PlanFits(DirectPlan(a, d, e))
           /\ \A o \in Filters :
                  ValidPlan(OverwritePlan(a, o)) => PlanFits(OverwritePlan(a, o))
<1>1. \A d, e : PlanFits(DirectPlan(a, d, e))
    BY Zenon DEF PlanFits, DirectPlan, ValidPlan
<1>2. \A o \in Filters : o # {} /\ (~Partitioned => o = Partitions)
    BY ConstantsAssumption, Zenon DEF Filters
<1>3. ASSUME NEW o \in Filters, ValidPlan(OverwritePlan(a, o)) PROVE PlanFits(OverwritePlan(a, o))
    BY <1>2, <1>3, Zenon DEF PlanFits, OverwritePlan
<1> QED
    BY <1>1, <1>3, Zenon

LEMMA SubmitsContent ==
    ASSUME TypeOK, NEW c \in Committers, SubmitDirect(c) \/ SubmitExpected(c) \/ SubmitOverwrite(c)
    PROVE  OwnContentInv(c)'
<1>1. CASE SubmitDirect(c)
    <2>1. PICK a \in NewFiles(c), d \in Replaceable, filter \in BOOLEAN :
              Submit(c, DirectPlan(a, d, 0), filter)
        BY <1>1, Zenon DEF SubmitDirect
    <2>2. PlanFits(DirectPlan(a, d, 0))
        BY PlansFit, Zenon
    <2> QED
        BY <2>1, <2>2, SubmitContent, Zenon
<1>2. CASE SubmitExpected(c)
    <2>1. PICK a \in NewFiles(c), d \in Replaceable : Submit(c, DirectPlan(a, d, Len(hist)), FALSE)
        BY <1>2, ZenonT(30) DEF SubmitExpected
    <2>2. PlanFits(DirectPlan(a, d, Len(hist)))
        BY PlansFit, Zenon
    <2> QED
        BY <2>1, <2>2, SubmitContent, Zenon
<1>3. CASE SubmitOverwrite(c)
    <2>1. PICK a \in NewFiles(c), o \in Filters, filter \in BOOLEAN :
              Submit(c, OverwritePlan(a, o), filter)
        BY <1>3, Zenon DEF SubmitOverwrite
    <2>2. PlanFits(OverwritePlan(a, o))
        BY <2>1, PlansFit, Zenon DEF Submit
    <2> QED
        BY <2>1, <2>2, SubmitContent, Zenon
<1> QED
    BY <1>1, <1>2, <1>3, Zenon

LEMMA PlanStaysFit ==
    ASSUME NEW c \in Committers, OwnContentInv(c), plan'[c] = plan[c]
    PROVE  PlanFits(plan'[c])
BY Zenon DEF OwnContentInv, PlanFits

(* How a call ends. *)
LEMMA EndContent ==
    ASSUME TypeOK, NEW c \in Committers, OwnContentInv(c), plan'[c] = plan[c],
           NEW result \in Ended, End(c, result)
    PROVE  OwnContentInv(c)'
<1>1. call'[c] = NewCall(FALSE) /\ status'[c] # "publishing"
    BY Zenon DEF End, TypeOK, Ended
<1> QED
    BY <1>1, PlanStaysFit, ResetContent, Zenon

LEMMA EndWithErrorContent ==
    ASSUME TypeOK, NEW c \in Committers, OwnContentInv(c), plan'[c] = plan[c], NEW uncertain,
           NEW plain \in {"failed", "unknown"}, EndWithError(c, uncertain, plain)
    PROVE  OwnContentInv(c)'
<1>1. (IF uncertain THEN "unknown" ELSE plain) \in Ended
    BY Zenon DEF Ended
<1> QED
    BY <1>1, EndContent, Zenon DEF EndWithError

(* The locals of a call that goes round the loop. *)
LEMMA RetryContent ==
    ASSUME TypeOK, NEW c \in Committers, OwnContentInv(c), plan' = plan, hist' = hist,
           NEW uncertain \in BOOLEAN, RetryOrGiveUp(c, uncertain)
    PROVE  OwnContentInv(c)'
<1>1. CASE EndWithError(c, uncertain, "failed")
    BY <1>1, EndWithErrorContent, Zenon
<1>2. CASE ~EndWithError(c, uncertain, "failed")
    <2>1. /\ status'[c] = "running"
          /\ call'[c].prevSnap = call[c].snap /\ call'[c].prevHas = call[c].hasBase
          /\ call'[c].prevBase = call[c].base
          /\ call'[c].snap = call[c].snap /\ call'[c].hasBase = call[c].hasBase
          /\ call'[c].base = call[c].base
          /\ call'[c].cacheSnap = call[c].cacheSnap /\ call'[c].cache = call[c].cache
        BY <1>2, RetryFields, ZenonT(30) DEF TypeOK
    <2>2. \A n : LiveAt(n)' = LiveAt(n)
        BY DEF LiveAt, Live
    <2> QED
        BY <2>1, <2>2, Zenon DEF OwnContentInv, ValidPlan, PartsOf, In, ScopeOf
<1> QED
    BY <1>1, <1>2, Zenon

LEMMA SendContent ==
    ASSUME FilesAreCounted, IInv, NEW c \in Committers, AttemptSend(c)
    PROVE  OwnContentInv(c)'
<1>1. TypeOK /\ OwnContentInv(c) /\ Len(hist) \in Nat /\ plan[c] \in Plan
    BY HistoryTyped, CallTyped, Zenon DEF IInv, ContentInv
<1>2. /\ call'[c].snap = Len(hist)
      /\ call'[c].dels = ResolvedDels(c)
      /\ call'[c].hasBase = DetectConflicts(c)
      /\ call'[c].base = (IF DetectConflicts(c) THEN ConflictBase(c) ELSE {})
      /\ call'[c].cacheSnap = (IF plan[c].mode = "overwrite" THEN Len(hist) ELSE 0)
      /\ call'[c].cache = (IF plan[c].mode = "overwrite" THEN ResolvedDels(c) ELSE {})
      /\ call'[c].prevSnap = call[c].prevSnap
      /\ call'[c].prevHas = call[c].prevHas
      /\ call'[c].prevBase = call[c].prevBase
    BY <1>1, SendFields, Zenon
<1>3. UNCHANGED <<hist, plan, op>>
    BY Zenon DEF AttemptSend
<1>4. \A n : LiveAt(n)' = LiveAt(n) /\ TotalAt(n)' = TotalAt(n)
    BY <1>3, Zenon DEF LiveAt, TotalAt, Live
<1>5. FitsOn(NewSnapshot(c), call[c].snap)'
    <2>1. NewSnapshot(c)' = Sent(c)
        BY <1>2, <1>3, <1>4, Zenon DEF NewSnapshot, Sent
    <2>2. FitsOn(Sent(c), Len(hist))
        BY SentFits, Zenon
    <2> QED
        BY <1>2, <1>4, <2>1, <2>2, Zenon DEF FitsOn, In, PartsOf, Live
<1>6. /\ call'[c].hasBase => call'[c].dels \subseteq call'[c].base
      /\ plan[c].mode = "direct" => call'[c].dels = plan[c].dels
    BY <1>2, SentDelsFit, ScopeIsPlanned, Zenon
<1>7. call'[c].cacheSnap # 0 =>
          /\ call'[c].cacheSnap <= Len(hist) /\ plan[c].mode = "overwrite"
          /\ call'[c].cache = In(LiveAt(call'[c].cacheSnap), plan[c].over)
    <2>1. Len(hist) <= Len(hist)
        BY <1>1
    <2> QED
        BY <1>2, <2>1, SentDelsFit, Zenon
<1>8. plan[c].mode = "direct" /\ call'[c].hasBase =>
          /\ call'[c].snap <= Len(hist)
          /\ call'[c].base = In(LiveAt(call'[c].snap), ScopeOf(plan[c]))
    BY <1>1, <1>2, ConflictBaseIsExact
<1>9. plan[c].mode = "direct" /\ call'[c].prevHas =>
          /\ call'[c].prevSnap <= Len(hist)
          /\ call'[c].prevBase = In(LiveAt(call'[c].prevSnap), ScopeOf(plan[c]))
    BY <1>1, <1>2, Zenon DEF OwnContentInv
<1>10. PlanFits(plan'[c])
    BY <1>1, <1>3, PlanStaysFit, Zenon
<1> QED
    BY <1>3, <1>4, <1>5, <1>6, <1>7, <1>8, <1>9, <1>10, ZenonT(30)
    DEF OwnContentInv, PlanFits, ValidPlan, PartsOf, In, ScopeOf

LEMMA ActorContent ==
    ASSUME FilesAreCounted, IInv, NEW c \in Committers, Step(c)
    PROVE  OwnContentInv(c)'
<1>0. TypeOK /\ OwnContentInv(c)
    BY Zenon DEF IInv, ContentInv
<1>1. ASSUME AttemptFiltered(c) \/ AttemptDuplicate(c) \/ PublishWins(c) PROVE OwnContentInv(c)'
    <2>1. End(c, "ok") /\ plan' = plan /\ "ok" \in Ended
        BY <1>1, Zenon DEF AttemptFiltered, AttemptDuplicate, PublishWins, Ended
    <2> QED
        BY <1>0, <2>1, EndContent, Zenon
<1>2. ASSUME \/ AttemptMissingFiles(c) \/ AttemptRejected(c) \/ AttemptDuplicateCallbackFails(c)
             \/ AttemptError(c) \/ PublishWinsCallbackFails(c) \/ Crash(c)
      PROVE  OwnContentInv(c)'
    <2>1. plan' = plan
        BY <1>2, Zenon DEF AttemptMissingFiles, AttemptRejected, AttemptDuplicateCallbackFails,
                    AttemptError, PublishWinsCallbackFails, Crash
    <2>2. \E u : \E plain \in {"failed", "unknown"} : EndWithError(c, u, plain)
        BY <1>2, Zenon DEF AttemptMissingFiles, AttemptRejected, AttemptDuplicateCallbackFails,
                    AttemptError, PublishWinsCallbackFails, Crash
    <2> QED
        BY <1>0, <2>1, <2>2, EndWithErrorContent, Zenon
<1>3. ASSUME PublishLoses(c) \/ PublishErrors(c) PROVE OwnContentInv(c)'
    <2>1. plan' = plan /\ hist' = hist
        BY <1>3, Zenon DEF PublishLoses, PublishErrors
    <2>2. \E u \in BOOLEAN : RetryOrGiveUp(c, u)
        <3>1. call[c].uncertain \in BOOLEAN
            BY <1>0, Zenon DEF TypeOK, Call
        <3> QED
            BY <1>3, <3>1, Zenon DEF PublishLoses, PublishErrors
    <2> QED
        BY <1>0, <2>1, <2>2, RetryContent, Zenon
<1>4. ASSUME Resubmit(c) PROVE OwnContentInv(c)'
    <2>1. plan' = plan /\ call'[c] = NewCall(TRUE) /\ status'[c] = "running"
        BY <1>0, <1>4, Zenon DEF Resubmit, TypeOK
    <2> QED
        BY <1>0, <2>1, PlanStaysFit, ResetContent, Zenon
<1>5. ASSUME Removes(c) PROVE OwnContentInv(c)'
    <2>1. UNCHANGED <<hist, plan, call>> /\ status'[c] # "publishing"
        BY <1>5, RemovesUnused, Zenon DEF InCall
    <2> QED
        BY <1>0, <2>1, Zenon DEF OwnContentInv, ValidPlan, PartsOf, In, ScopeOf, LiveAt, Live
<1> QED
    BY <1>0, <1>1, <1>2, <1>3, <1>4, <1>5, SubmitsContent, SendContent, Zenon
    DEF Step, Attempt, Answer, Removes

(* Another committer's steps, and a late delivery. *)
LEMMA OthersContent ==
    ASSUME TypeOK, NEW d \in Committers, Undisturbed(d), OwnContentInv(d), OwnCommitInv(d)
    PROVE  OwnContentInv(d)'
<1>0. /\ Len(hist) \in Nat /\ call[d].snap \in Nat /\ call[d].prevSnap \in Nat
      /\ call[d].cacheSnap \in Nat
    BY HistoryTyped, CallTyped, Zenon
<1>1. /\ op'[d] = op[d] /\ plan'[d] = plan[d] /\ status'[d] = status[d] /\ call'[d] = call[d]
      /\ Len(hist') \in Nat /\ Len(hist') >= Len(hist)
      /\ \A n \in 0..Len(hist) : LiveAt(n)' = LiveAt(n) /\ TotalAt(n)' = TotalAt(n)
    <2>1. CASE hist' = hist
        <3>1. Len(hist') \in Nat /\ Len(hist') >= Len(hist)
            BY <1>0, <2>1
        <3> QED
            BY <2>1, <3>1, Zenon DEF Undisturbed, LiveAt, TotalAt, Live
    <2>2. CASE \E s \in Snapshot : hist' = Append(hist, s)
        BY <1>0, <2>2, LiveStays DEF Undisturbed
    <2> QED
        BY <2>1, <2>2, Zenon DEF Undisturbed
<1>1a. \A n \in Nat : n <= Len(hist) => n <= Len(hist') /\ LiveAt(n)' = LiveAt(n)
    BY <1>0, <1>1
<1>2. status[d] = "publishing" => FitsOn(NewSnapshot(d), call[d].snap)'
    <2> SUFFICES ASSUME status[d] = "publishing" PROVE FitsOn(NewSnapshot(d), call[d].snap)'
        BY Zenon
    <2>1. call[d].snap \in 0..Len(hist)
        BY <1>0 DEF OwnCommitInv
    <2>2. NewSnapshot(d)' = NewSnapshot(d) /\ LiveAt(call[d].snap)' = LiveAt(call[d].snap)
        BY <1>1, <2>1, Zenon DEF NewSnapshot
    <2>3. FitsOn(NewSnapshot(d), call[d].snap)
        BY Zenon DEF OwnContentInv
    <2> QED
        BY <1>1, <2>2, <2>3, Zenon DEF FitsOn, In, PartsOf, Live
<1>3. call[d].cacheSnap # 0 =>
          /\ call[d].cacheSnap <= Len(hist') /\ plan[d].mode = "overwrite"
          /\ call[d].cache = In(LiveAt(call[d].cacheSnap)', plan[d].over)
    BY <1>0, <1>1, <1>1a, Zenon DEF OwnContentInv
<1>4. plan[d].mode = "direct" /\ call[d].prevHas =>
          /\ call[d].prevSnap <= Len(hist')
          /\ call[d].prevBase = In(LiveAt(call[d].prevSnap)', ScopeOf(plan[d]))
    BY <1>0, <1>1, <1>1a, Zenon DEF OwnContentInv
<1>5. plan[d].mode = "direct" /\ call[d].hasBase =>
          /\ call[d].snap <= Len(hist')
          /\ call[d].base = In(LiveAt(call[d].snap)', ScopeOf(plan[d]))
    BY <1>0, <1>1, <1>1a, Zenon DEF OwnContentInv
<1>6. PlanFits(plan'[d])
    BY <1>1, PlanStaysFit, Zenon
<1>7. status[d] = "publishing" =>
          /\ call[d].hasBase => call[d].dels \subseteq call[d].base
          /\ plan[d].mode = "direct" => call[d].dels = plan[d].dels
    BY Zenon DEF OwnContentInv
<1> QED
    BY <1>1, <1>2, <1>3, <1>4, <1>5, <1>6, <1>7, ZenonT(30)
    DEF OwnContentInv, PlanFits, ValidPlan, PartsOf, In, ScopeOf

(* What every request and every snapshot fits. *)
LEMMA FittingStep ==
    ASSUME FilesAreCounted, IInv, [Next]_vars
    PROVE  /\ \A i \in 1..Len(hist') : FitsOn(hist[i], i - 1)'
           /\ \A r \in late' : FitsOn(r.snapshot, r.id - 1)'
<1>0. /\ TypeOK /\ Len(hist) \in Nat
      /\ \A i \in 1..Len(hist) : FitsOn(hist[i], i - 1)
      /\ \A r \in late : FitsOn(r.snapshot, r.id - 1)
    BY DEF IInv, TypeOK, ContentInv
<1>1. CASE hist' = hist
    <2>1. \A s, n : FitsOn(s, n) => FitsOn(s, n)'
        <3>1. \A n : LiveAt(n)' = LiveAt(n) /\ TotalAt(n)' = TotalAt(n)
            BY <1>1, Zenon DEF LiveAt, TotalAt, Live
        <3> QED
            BY <3>1, Zenon DEF FitsOn, Live, In, PartsOf
    <2>2. \A i \in 1..Len(hist') : FitsOn(hist[i], i - 1)'
        <3> SUFFICES ASSUME NEW i \in 1..Len(hist) PROVE FitsOn(hist[i], i - 1)'
            BY <1>1, Zenon
        <3>1. FitsOn(hist[i], i - 1)
            BY <1>0, Zenon
        <3> QED
            BY <1>1, <3>1, Zenon DEF FitsOn, LiveAt, Live, In, PartsOf
    <2>3. ASSUME NEW r \in late' PROVE FitsOn(r.snapshot, r.id - 1)'
        <3>1. CASE r \in late
            BY <1>0, <2>1, <3>1, Zenon
        <3>2. ASSUME NEW s, Prepared(s), r = [id |-> Len(hist) + 1, snapshot |-> s]
              PROVE  FitsOn(r.snapshot, r.id - 1)'
            <4>1. r.snapshot = s /\ r.id - 1 = Len(hist)
                BY <1>0, <3>2
            <4>2. FitsOn(r.snapshot, r.id - 1)
                BY <3>2, <4>1, Zenon DEF Prepared
            <4> QED
                BY <2>1, <4>2, Zenon
        <3>3. r \in late \/ \E s : Prepared(s) /\ r = [id |-> Len(hist) + 1, snapshot |-> s]
            BY <1>1, HistorySteps, Zenon DEF Quiet, Publishes, Publish, Requests
        <3> QED
            BY <3>1, <3>2, <3>3, Zenon
    <2> QED
        BY <2>2, <2>3, Zenon
<1>2. CASE Publishes
    <2>1. PICK s : Prepared(s) /\ hist' = Append(hist, s) /\ late' = {}
        BY <1>2, Zenon DEF Publishes, Publish
    <2>2. /\ s \in Snapshot /\ Len(hist') = Len(hist) + 1
          /\ \A i \in 1..Len(hist) : hist'[i] = hist[i]
          /\ hist'[Len(hist) + 1] = s
        BY <1>0, <2>1 DEF Prepared, TypeOK
    <2>3. ASSUME NEW i \in 1..Len(hist') PROVE FitsOn(hist[i], i - 1)'
        <3>1. i - 1 \in 0..Len(hist)
            BY <1>0, <2>2
        <3>2. FitsOn(hist'[i], i - 1)
            <4>1. CASE i \in 1..Len(hist)
                BY <1>0, <2>2, <4>1, Zenon
            <4>2. CASE i = Len(hist) + 1
                <5>1. i - 1 = Len(hist)
                    BY <1>0, <4>2
                <5> QED
                    BY <2>1, <2>2, <4>2, <5>1, Zenon DEF Prepared
            <4> QED
                BY <1>0, <2>2, <4>1, <4>2
        <3>3. LiveAt(i - 1)' = LiveAt(i - 1)
            BY <1>0, <2>1, <2>2, <3>1, LiveStays, Zenon
        <3> QED
            BY <3>2, <3>3, Zenon DEF FitsOn, In, PartsOf, Live
    <2> QED
        BY <2>1, <2>3, Zenon
<1> QED
    BY <1>1, <1>2, HistorySteps, Zenon DEF Quiet, Requests

LEMMA ContentStep ==
    ASSUME FilesAreCounted, IInv, [Next]_vars
    PROVE  ContentInv'
<1>0. TypeOK /\ OrderInv /\ \A d \in Committers : OwnContentInv(d) /\ OwnCommitInv(d)
    BY Zenon DEF IInv, IdempotenceInv, ContentInv
<1>1. ASSUME NEW d \in Committers PROVE OwnContentInv(d)'
    <2>1. CASE DeliverLate \/ UNCHANGED vars
        BY <1>0, <2>1, QuietUndisturbed, OthersContent, Zenon
    <2>2. ASSUME NEW c \in Committers, Step(c) PROVE OwnContentInv(d)'
        <3>1. CASE d = c
            BY <2>2, <3>1, ActorContent, Zenon
        <3>2. CASE d # c
            BY <1>0, <2>2, <3>2, OthersUndisturbed, OthersContent, Zenon
        <3> QED
            BY <3>1, <3>2, Zenon
    <2> QED
        BY <2>1, <2>2, Zenon DEF Next
<1> QED
    BY <1>1, FittingStep, Zenon DEF ContentInv

--------------------------------------------------------------------------------
(* The theorems *)

LEMMA ContentInit == Init => FileInv /\ MergeInv /\ ContentInv
<1> SUFFICES ASSUME Init PROVE FileInv /\ MergeInv /\ ContentInv
    BY Zenon
<1>1. /\ Len(hist) = 0 /\ late = {}
      /\ \A c \in Committers : /\ status[c] = "new" /\ plan[c] = NoPlan
                               /\ call[c] = NewCall(FALSE)
    BY Zenon DEF Init
<1>2. FileInv
    <2>1. NoPlan.adds = {}
        BY DEF NoPlan
    <2>2. \A c \in Committers : OwnFilesInv(c)
        BY <1>1, <2>1, Zenon DEF OwnFilesInv
    <2> QED
        BY <1>1, <2>2 DEF FileInv, LiveFilesExist
<1>3. MergeInv
    BY <1>1 DEF MergeInv, LiveAt
<1>4. PlanFits(NoPlan)
    <2>1. NoPlan.mode = "direct" /\ NoPlan.over = {}
        BY Zenon DEF NoPlan
    <2> QED
        BY <2>1, Zenon DEF PlanFits, ValidPlan
<1>5. /\ NewCall(FALSE).cacheSnap = 0 /\ NewCall(FALSE).prevHas = FALSE
      /\ NewCall(FALSE).hasBase = FALSE
    BY Zenon DEF NewCall
<1>6. ASSUME NEW c \in Committers PROVE OwnContentInv(c)
    <2>1. /\ call[c].cacheSnap = 0 /\ ~call[c].prevHas /\ ~call[c].hasBase
        BY <1>1, <1>5, Zenon
    <2>2. PlanFits(plan[c]) /\ status[c] # "publishing"
        BY <1>1, <1>4, Zenon
    <2> QED
        BY <2>1, <2>2, Zenon DEF OwnContentInv, PlanFits
<1> QED
    BY <1>1, <1>2, <1>3, <1>6 DEF ContentInv

================================================================================
