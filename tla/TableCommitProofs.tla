--------------------------- MODULE TableCommitProofs ---------------------------
(***************************************************************************)
(* The theorems about TableCommit: its invariants, from the lemmas of      *)
(* CommitProofs, and the refinement.  The mapping of CommitRefinement      *)
(* takes every step of the commit protocol to a step of AtomicTable, whose *)
(* requests are applied whole, or to none.                                 *)
(***************************************************************************)
EXTENDS CommitRefinement, CommitProofs, FiniteSetTheorems

--------------------------------------------------------------------------------
(* Counting data files *)

(* Any set of data files is finite. *)
LEMMA FilesFinite ==
    ASSUME NEW S \in SUBSET File
    PROVE  IsFiniteSet(S) /\ Cardinality(S) \in Nat
<1> DEFINE Triples == Committers \X (Op \X Partitions)
           Split == [f \in File |-> <<f.user, <<f.op, f.part>>>>]
<1>1. IsFiniteSet(Op)
    BY ConstantsAssumption, FS_Interval DEF Op
<1>2. IsFiniteSet(Op \X Partitions)
    BY <1>1, ConstantsAssumption, FS_Product, Zenon
<1>3. IsFiniteSet(Triples)
    BY <1>2, ConstantsAssumption, FS_Product, Zenon
<1>4. Split \in Injection(File, Triples)
    BY DEF Injection, IsInjective, File
<1>5. IsFiniteSet(File)
    BY <1>3, <1>4, FS_Injection, Zenon
<1>6. QED
    BY <1>5, FS_Subset, FS_CardinalityType, Zenon

(* The rows of a snapshot: those of its base, less the deleted, plus the new. *)
LEMMA CountsRows ==
    ASSUME NEW B \in SUBSET File, NEW D \in SUBSET B, NEW A \in SUBSET File, A \cap B = {}
    PROVE  Cardinality((B \ D) \cup A) = Cardinality(B) + Cardinality(A) - Cardinality(D)
<1>1. /\ IsFiniteSet(A) /\ IsFiniteSet(B) /\ IsFiniteSet(D) /\ IsFiniteSet(B \ D)
      /\ Cardinality(A) \in Nat /\ Cardinality(B) \in Nat /\ Cardinality(D) \in Nat
      /\ Cardinality(B \ D) \in Nat
    <2>1. D \in SUBSET File /\ B \ D \in SUBSET File
        OBVIOUS
    <2> QED
        BY <2>1, FilesFinite, Zenon
<1>2. Cardinality(B \ D) = Cardinality(B) - Cardinality(D)
    <2>1. Cardinality(B \ D) = Cardinality(B) - Cardinality(B \cap D)
        BY <1>1, FS_Difference, Zenon
    <2>2. B \cap D = D
        OBVIOUS
    <2> QED
        BY <2>1, <2>2, Zenon
<1>3. (B \ D) \cap A = {}
    OBVIOUS
<1>4. Cardinality((B \ D) \cup A) =
          Cardinality(B \ D) + Cardinality(A) - Cardinality((B \ D) \cap A)
    BY <1>1, FS_Union, Zenon
<1>5. Cardinality((B \ D) \cap A) = 0
    BY <1>3, FS_EmptySet, Zenon
<1>6. Cardinality((B \ D) \cup A) = Cardinality(B \ D) + Cardinality(A)
    BY <1>1, <1>4, <1>5
<1> QED
    BY <1>1, <1>2, <1>6

(* The law that the lemmas about the commit protocol assume. *)
LEMMA FilesCount == FilesAreCounted
<1>1. Cardinality({}) = 0
    BY FS_EmptySet
<1>2. \A S \in SUBSET File : Cardinality(S) \in Nat
    BY FilesFinite
<1>3. ASSUME NEW B \in SUBSET File, NEW D \in SUBSET File, NEW A \in SUBSET File,
             D \subseteq B, A \cap B = {}
      PROVE  Cardinality((B \ D) \cup A) = Cardinality(B) + Cardinality(A) - Cardinality(D)
    BY <1>3, CountsRows
<1>4. QED
    BY <1>1, <1>2, <1>3, Zenon DEF FilesAreCounted

--------------------------------------------------------------------------------
(* The last commit of a user *)

Open(c) == status[c] \in InCall \/ InDoubt(c)

OwnAt(c) == {i \in 1..Len(hist) : hist[i].user = c}

LastOf(S) == CHOOSE i \in S : \A j \in S : j <= i

LEMMA LastExists ==
    ASSUME NEW n \in Nat, NEW S \in SUBSET (1..n), S # {}
    PROVE  LastOf(S) \in S /\ \A j \in S : j <= LastOf(S)
<1> DEFINE T == {n - i : i \in S}
<1>1. T \in SUBSET Nat /\ T # {}
    <2>1. \A i \in S : n - i \in Nat
        OBVIOUS
    <2> QED
        BY <2>1, Zenon
<1> HIDE DEF T
<1>2. PICK t \in T : \A u \in T : ~ (<<u, t>> \in OpToRel(<, Nat))
    BY <1>1, NatLessThanWellFounded, WFMin, Zenon
<1>3. \A u \in T : ~ (u < t)
    BY <1>1, <1>2, Zenon DEF OpToRel
<1> USE DEF T
<1>4. PICK i \in S : t = n - i
    OBVIOUS
<1>5. \A j \in S : ~ (n - j < n - i)
    BY <1>3, <1>4, Zenon
<1>6. \A j \in S : j <= i
    BY <1>5
<1> QED
    BY <1>6, Zenon DEF LastOf

LEMMA AppliedIs ==
    ASSUME NEW c
    PROVE  AppliedTo(c) = IF OwnAt(c) = {} THEN 0 ELSE hist[LastOf(OwnAt(c))].op
BY Zenon DEF AppliedTo, OwnAt, LastOf

(* It is the greatest identifier of the user's commits. *)
LEMMA AppliedIsGreatest ==
    ASSUME TypeOK, CommitsOnceInOrder, NEW c \in Committers
    PROVE  /\ AppliedTo(c) \in Nat
           /\ \A i \in 1..Len(hist) : hist[i].user = c => hist[i].op <= AppliedTo(c)
           /\ AppliedTo(c) = 0 \/ \E i \in 1..Len(hist) : PublishedAs(c, AppliedTo(c), i)
<1>1. /\ Len(hist) \in Nat
      /\ \A i \in 1..Len(hist) : hist[i].op \in Nat
    <2>1. Len(hist) \in Nat /\ \A i \in 1..Len(hist) : hist[i] \in Snapshot
        BY DEF TypeOK
    <2>2. \A s \in Snapshot : s.op \in Nat
        BY ConstantsAssumption DEF Snapshot, Op
    <2> QED
        BY <2>1, <2>2, Zenon
<1>2. CASE OwnAt(c) = {}
    BY <1>2, AppliedIs, Zenon DEF OwnAt
<1>3. CASE OwnAt(c) # {}
    <2> DEFINE m == LastOf(OwnAt(c))
    <2>1. m \in OwnAt(c) /\ \A j \in OwnAt(c) : j <= m
        BY <1>1, <1>3, LastExists, Zenon DEF OwnAt
    <2>2. AppliedTo(c) = hist[m].op
        BY <1>3, AppliedIs, Zenon
    <2> HIDE DEF m
    <2>3. m \in 1..Len(hist) /\ hist[m].user = c
        BY <2>1, Zenon DEF OwnAt
    <2>4. ASSUME NEW i \in 1..Len(hist), hist[i].user = c PROVE hist[i].op <= hist[m].op
        <3>1. i <= m
            BY <2>1, <2>4, Zenon DEF OwnAt
        <3>2. i < m => hist[i].op < hist[m].op
            BY <2>3, <2>4, Zenon DEF CommitsOnceInOrder
        <3> QED
            BY <1>1, <2>3, <3>1, <3>2
    <2> QED
        BY <1>1, <2>2, <2>3, <2>4, Zenon DEF PublishedAs
<1> QED
    BY <1>2, <1>3, Zenon

(* An appended snapshot is the last commit of its user, and of nobody else. *)
LEMMA AppliedAppend ==
    ASSUME TypeOK, NEW s \in Snapshot, hist' = Append(hist, s), NEW c \in Committers
    PROVE  AppliedTo(c)' = IF c = s.user THEN s.op ELSE AppliedTo(c)
<1>1. /\ Len(hist') = Len(hist) + 1 /\ Len(hist) \in Nat
      /\ \A i \in 1..Len(hist) : hist'[i] = hist[i]
      /\ hist'[Len(hist) + 1] = s
    BY DEF TypeOK
<1>2. AppliedTo(c)' = IF OwnAt(c)' = {} THEN 0 ELSE hist'[LastOf(OwnAt(c)')].op
    BY DEF AppliedTo, OwnAt, LastOf
<1>3. CASE c = s.user
    <2>1. Len(hist) + 1 \in OwnAt(c)' /\ OwnAt(c)' \subseteq 1..(Len(hist) + 1)
        <3>1. OwnAt(c)' = {i \in 1..(Len(hist) + 1) : hist'[i].user = c}
            BY <1>1, Zenon DEF OwnAt
        <3> QED
            BY <1>1, <1>3, <3>1
    <2>2. LastOf(OwnAt(c)') \in OwnAt(c)' /\ Len(hist) + 1 <= LastOf(OwnAt(c)')
        <3> DEFINE S == OwnAt(c)'
                   n == Len(hist) + 1
        <3>1. n \in Nat /\ S \in SUBSET (1..n) /\ S # {}
            BY <1>1, <2>1
        <3> HIDE DEF S, n
        <3>2. LastOf(S) \in S /\ \A j \in S : j <= LastOf(S)
            BY <3>1, LastExists, ZenonT(30)
        <3> QED
            BY <2>1, <3>2, Zenon DEF S, n
    <2>3. LastOf(OwnAt(c)') = Len(hist) + 1
        BY <1>1, <2>1, <2>2
    <2> QED
        BY <1>1, <1>2, <1>3, <2>1, <2>3, ZenonT(30)
<1>4. CASE c # s.user
    <2>1. OwnAt(c)' = OwnAt(c)
        BY <1>1, <1>4 DEF OwnAt
    <2>2. OwnAt(c) # {} => LastOf(OwnAt(c)) \in 1..Len(hist)
        BY <1>1, LastExists, ZenonT(30) DEF OwnAt
    <2> QED
        BY <1>1, <1>2, <1>4, <2>1, <2>2, AppliedIs, ZenonT(30)
<1> QED
    BY <1>3, <1>4, Zenon

--------------------------------------------------------------------------------
(* Requests *)

(* Operations that were asked for have positive identifiers. *)
StartedInv ==
    /\ \A c \in Committers : status[c] # "new" => op[c] > 0
    /\ \A r \in late : r.snapshot.op > 0

(* What storage is asked to publish is what the caller asked for. *)
LEMMA SentAsAsked ==
    ASSUME IInv, NEW c \in Committers, status[c] = "publishing"
    PROVE  SentAs(NewSnapshot(c)) = AskedFor(c)
<1>1. OwnContentInv(c) /\ plan[c] \in Plan
    BY Zenon DEF IInv, ContentInv, TypeOK
<1>2. (IF plan[c].over = {} THEN call[c].dels ELSE {}) = plan[c].dels
    BY <1>1, Zenon DEF OwnContentInv, Plan
<1>3. /\ NewSnapshot(c).user = c /\ NewSnapshot(c).op = op[c]
      /\ NewSnapshot(c).adds = plan[c].adds /\ NewSnapshot(c).dels = call[c].dels
      /\ NewSnapshot(c).over = plan[c].over /\ NewSnapshot(c).expect = plan[c].expect
    BY Zenon DEF NewSnapshot
<1> QED
    BY <1>2, <1>3, Zenon DEF SentAs, AskedFor

LEMMA PublishingIsPending ==
    ASSUME IInv, StartedInv, NEW c \in Committers, status[c] = "publishing",
           Len(hist) = call[c].snap
    PROVE  AppliedTo(c) < op[c] /\ AskedFor(c) \in Pending
<1>1. TypeOK /\ CommitsOnceInOrder /\ OrderInv /\ OwnCommitInv(c)
    BY DEF IInv, IdempotenceInv, OrderInv
<1>2. op[c] \in Nat /\ op[c] > 0
    BY <1>1, ConstantsAssumption DEF TypeOK, Op, StartedInv
<1>3. AppliedTo(c) \in Nat /\ AppliedTo(c) # op[c] /\ AppliedTo(c) <= op[c]
    <2>1. \A i \in 1..Len(hist) : ~PublishedAs(c, op[c], i)
        BY <1>1, Zenon DEF OwnCommitInv
    <2>2. \A i \in 1..Len(hist) : hist[i].user = c => hist[i].op <= op[c]
        BY <1>1, Zenon DEF OrderInv
    <2> QED
        BY <1>1, <1>2, <2>1, <2>2, AppliedIsGreatest DEF PublishedAs
<1>4. AppliedTo(c) < op[c]
    BY <1>2, <1>3
<1> QED
    BY <1>4 DEF Pending, InCall

LEMMA StartedInit == Init => StartedInv
BY Zenon DEF Init, StartedInv

LEMMA StartedStep ==
    ASSUME IInv, StartedInv, [Next]_vars
    PROVE  StartedInv'
<1>0. /\ TypeOK /\ \A c \in Committers : op[c] \in Nat
      /\ \A c \in Committers : op'[c] \in Nat
    BY FilesCount, TypeStep, ConstantsAssumption DEF IInv, TypeOK, Op
<1>1. ASSUME NEW c \in Committers, SubmitDirect(c) \/ SubmitExpected(c) \/ SubmitOverwrite(c)
      PROVE  StartedInv'
    <2>1. late' = late /\ \A d \in Committers : IF d = c THEN op'[d] = op[d] + 1
                                               ELSE op'[d] = op[d] /\ status'[d] = status[d]
        <3>1. \E p, filter : Submit(c, p, filter)
            BY <1>1, Zenon DEF SubmitDirect, SubmitExpected, SubmitOverwrite
        <3>2. late' = late /\ op' = [op EXCEPT ![c] = @ + 1]
            BY <3>1, Zenon DEF Submit
        <3>3. \E v : status' = [status EXCEPT ![c] = v]
            BY <3>1, Zenon DEF Submit
        <3> QED
            BY <1>0, <3>2, <3>3, Zenon DEF TypeOK
    <2> QED
        BY <1>0, <2>1 DEF StartedInv
<1>2. ASSUME NEW c \in Committers, PublishErrors(c) \/ Crash(c)
      PROVE  StartedInv'
    <2>1. /\ op' = op /\ status[c] # "new"
          /\ \A d \in Committers \ {c} : status'[d] = status[d]
        <3>1. op' = op /\ status[c] # "new" /\ Step(c)
            BY <1>2, Zenon DEF PublishErrors, Crash, InCall, Step
        <3> QED
            BY <1>0, <3>1, FilesCount, OthersUndisturbed, ZenonT(30) DEF IInv, IdempotenceInv, Undisturbed
    <2>2. \A r \in late' : r \in late \/ r.snapshot.op = op[c]
        <3>1. late' \subseteq late \cup {Request(c)}
            BY <1>2, Zenon DEF PublishErrors, Crash, LoseAnswer
        <3>2. Request(c).snapshot.op = op[c]
            BY Zenon DEF Request, NewSnapshot
        <3> QED
            BY <3>1, <3>2, Zenon
    <2> QED
        BY <2>1, <2>2, Zenon DEF StartedInv
<1>3. ASSUME NEW c \in Committers, Step(c), ~PublishErrors(c), ~Crash(c),
             ~SubmitDirect(c), ~SubmitExpected(c), ~SubmitOverwrite(c)
      PROVE  StartedInv'
    <2>1. op' = op /\ late' \subseteq late /\ status[c] # "new"
        BY <1>3, Zenon DEF Step, Attempt, Answer, Resubmit, Abort, CleanOrphans, AttemptFiltered,
            AttemptMissingFiles, AttemptDuplicate, AttemptRejected, AttemptSend, PublishWins,
            PublishLoses, AttemptDuplicateCallbackFails, AttemptError, PublishWinsCallbackFails,
            Publish
    <2>2. \A d \in Committers \ {c} : status'[d] = status[d]
        BY <1>0, <1>3, FilesCount, OthersUndisturbed, ZenonT(30) DEF IInv, IdempotenceInv, Undisturbed
    <2> QED
        BY <2>1, <2>2, Zenon DEF StartedInv
<1>4. ASSUME DeliverLate PROVE StartedInv'
    BY <1>4, Zenon DEF DeliverLate, Publish, StartedInv
<1>5. ASSUME UNCHANGED vars PROVE StartedInv'
    BY <1>5, Zenon DEF vars, StartedInv
<1> QED
    BY <1>1, <1>2, <1>3, <1>4, <1>5, ZenonT(30) DEF Next

--------------------------------------------------------------------------------
(* Steps of AtomicTable *)

LEMMA PendingIs ==
    ASSUME NEW q
    PROVE  q \in Pending <=>
               \/ \E c \in Committers : Open(c) /\ AppliedTo(c) < op[c] /\ q = AskedFor(c)
               \/ \E r \in late : q = SentAs(r.snapshot)
BY Zenon DEF Pending, Open

(* The same in the next state. *)
LEMMA PendingIsNext ==
    ASSUME NEW q
    PROVE  q \in Pending' <=>
               \/ \E c \in Committers : Open(c)' /\ AppliedTo(c)' < op'[c] /\ q = AskedFor(c)'
               \/ \E r \in late' : q = SentAs(r.snapshot)
BY Zenon DEF Pending, Open, SentAs

LEMMA SameTable ==
    ASSUME hist' = hist
    PROVE  /\ LiveAt(Len(hist))' = LiveAt(Len(hist)) /\ Len(hist)' = Len(hist)
           /\ \A c \in Committers : AppliedTo(c)' = AppliedTo(c)
           /\ [c \in Committers |-> AppliedTo(c)]' = [c \in Committers |-> AppliedTo(c)]
<1>1. \A c \in Committers : AppliedTo(c)' = AppliedTo(c)
    BY DEF AppliedTo
<1> QED
    BY <1>1, Zenon DEF LiveAt, Live

(* Nothing new is asked for: requests may be given up. *)
LEMMA DropStep ==
    ASSUME UNCHANGED <<hist, op, plan>>, \A d \in Committers : Open(d)' => Open(d),
           \A r \in late' : SentAs(r.snapshot) \in Pending
    PROVE  Atomic!Drop
<1>1. ASSUME NEW q \in Pending' PROVE q \in Pending
    <2>1. ASSUME NEW c \in Committers, Open(c)', AppliedTo(c)' < op'[c], q = AskedFor(c)'
          PROVE  q \in Pending
        <3>1. Open(c) /\ AppliedTo(c) < op[c] /\ q = AskedFor(c)
            BY <2>1, SameTable, Zenon DEF AskedFor
        <3> QED
            BY <3>1, PendingIs, Zenon
    <2> QED
        BY <1>1, <2>1, PendingIsNext, Zenon
<1> QED
    BY <1>1, SameTable, Zenon DEF Atomic!Drop

(* A committer asks for an operation. *)
LEMMA AskStep ==
    ASSUME UNCHANGED <<hist, late>>, NEW c \in Committers, AppliedTo(c) < op'[c], Open(c)',
           \A d \in Committers \ {c} :
               op'[d] = op[d] /\ plan'[d] = plan[d] /\ (Open(d)' <=> Open(d))
    PROVE  Atomic!Ask
<1> DEFINE a == AskedFor(c)'
<1>1. a.op = op'[c] /\ a.user = c
    BY Zenon DEF AskedFor
<1>2. AppliedTo(c)' = AppliedTo(c) /\ a \in Pending'
    BY SameTable, PendingIsNext, Zenon
<1>3. \A d \in Committers \ {c} : AskedFor(d)' = AskedFor(d) /\ AppliedTo(d)' = AppliedTo(d)
    BY SameTable, Zenon DEF AskedFor
<1>4. \A d \in Committers : AskedFor(d).user = d
    BY Zenon DEF AskedFor
<1> HIDE DEF a
<1>5. ASSUME NEW q \in Pending' PROVE q \in Pending \cup {a}
    BY <1>3, <1>5, PendingIs, PendingIsNext, ZenonT(30) DEF a
<1>6. ASSUME NEW q \in Pending \ Pending' PROVE q.user = c
    BY <1>3, <1>4, <1>6, PendingIs, PendingIsNext, ZenonT(30)
<1>7. [d \in Committers |-> AppliedTo(d)][a.user] = AppliedTo(c)
    BY <1>1, Zenon
<1>8. a.op > [d \in Committers |-> AppliedTo(d)][a.user]
    BY <1>1, <1>7, Zenon
<1> QED
    BY <1>1, <1>2, <1>5, <1>6, <1>8, SameTable, ZenonT(30) DEF Atomic!Ask

(* A request that fits is applied. *)
LEMMA ApplyStep ==
    ASSUME IInv, NEW s, Prepared(s), hist' = Append(hist, s), late' = {},
           SentAs(s) \in Pending, AppliedTo(s.user) < s.op, UNCHANGED <<op, plan>>,
           \A d \in Committers : Open(d)' => Open(d)
    PROVE  Atomic!Apply
<1> DEFINE q == SentAs(s)
           applied == [c \in Committers |-> AppliedTo(c)]
<1>0. TypeOK /\ s \in Snapshot /\ FitsOn(s, Len(hist)) /\ s.user \in Committers
    BY Zenon DEF IInv, Prepared, Snapshot
<1>1. /\ q.user = s.user /\ q.op = s.op /\ q.adds = s.adds /\ q.over = s.over
      /\ q.expect = s.expect /\ q.dels = IF s.over = {} THEN s.dels ELSE {}
    BY Zenon DEF SentAs
<1> HIDE DEF q
<1>2. Len(hist') = Len(hist) + 1 /\ LiveAt(Len(hist))' = Live(s)
    BY <1>0 DEF TypeOK, LiveAt, Live
<1>3. /\ s.base = LiveAt(Len(hist)) /\ s.dels \subseteq LiveAt(Len(hist))
      /\ s.adds \cap LiveAt(Len(hist)) = {}
      /\ s.over # {} => In(LiveAt(Len(hist)), s.over) = s.dels
      /\ s.expect # 0 => s.expect = Len(hist)
    BY <1>0, Zenon DEF FitsOn
<1>4. applied[q.user] = AppliedTo(s.user)
    BY <1>0, <1>1, Zenon
<1>5. Atomic!Fits(q)
    BY <1>1, <1>3, <1>4, Zenon DEF Atomic!Fits
<1>6. LiveAt(Len(hist))' = Atomic!Effect(q)
    BY <1>1, <1>2, <1>3, Zenon DEF Atomic!Effect, Atomic!InParts, Live, In
<1>7. \A c \in Committers : AppliedTo(c)' = IF c = s.user THEN s.op ELSE AppliedTo(c)
    BY <1>0, AppliedAppend, Zenon
<1>8. applied' = [applied EXCEPT ![q.user] = q.op]
    BY <1>0, <1>1, <1>7, ZenonT(30)
<1>9. ASSUME NEW p \in Pending' PROVE p \in Pending \ {q}
    <2>1. PICK c \in Committers : Open(c)' /\ AppliedTo(c)' < op'[c] /\ p = AskedFor(c)'
        BY <1>9, PendingIsNext, Zenon
    <2>2. p = AskedFor(c) /\ p.user = c /\ p.op = op[c]
        BY <2>1, Zenon DEF AskedFor
    <2>3. AppliedTo(c) < op[c] /\ (c = s.user => s.op < op[c])
        <3>1. op[c] \in Nat /\ s.op \in Nat /\ AppliedTo(c) \in Nat
            BY <1>0, ConstantsAssumption, AppliedIsGreatest
            DEF TypeOK, Op, Snapshot, IInv, IdempotenceInv, OrderInv
        <3> QED
            BY <1>7, <2>1, <3>1
    <2>4. p # q
        BY <1>0, <1>1, <2>2, <2>3, ConstantsAssumption DEF Snapshot, Op
    <2> QED
        BY <2>1, <2>2, <2>3, <2>4, PendingIs, ZenonT(30)
<1> QED
    BY <1>2, <1>5, <1>6, <1>8, <1>9, ZenonT(30) DEF Atomic!Apply, q

--------------------------------------------------------------------------------
(* Every step is a step of AtomicTable *)

LEMMA PublishApplies ==
    ASSUME IInv, StartedInv, NEW c \in Committers, PublishWins(c) \/ PublishWinsCallbackFails(c)
    PROVE  Atomic!Apply
<1>1. /\ status[c] = "publishing" /\ Len(hist) = call[c].snap
      /\ hist' = Append(hist, NewSnapshot(c)) /\ late' = {} /\ UNCHANGED <<op, plan>>
    BY Zenon DEF PublishWins, PublishWinsCallbackFails, Publish
<1>2. Prepared(NewSnapshot(c))
    BY <1>1, FilesCount, RequestIsPrepared, Zenon
<1>3. SentAs(NewSnapshot(c)) \in Pending /\ AppliedTo(c) < op[c]
    BY <1>1, SentAsAsked, PublishingIsPending, Zenon
<1>4. NewSnapshot(c).user = c /\ NewSnapshot(c).op = op[c]
    BY Zenon DEF NewSnapshot
<1>5. ASSUME NEW d \in Committers, Open(d)' PROVE Open(d)
    <2>1. CASE d = c
        BY <1>1, <2>1, Zenon DEF Open, InCall
    <2>2. CASE d # c
        <3>1. Step(c)
            BY Zenon DEF Step, Answer
        <3>2. status'[d] = status[d] /\ doubted'[d] = doubted[d]
            BY <2>2, <3>1, FilesCount, OthersUndisturbed, ZenonT(30) DEF IInv, IdempotenceInv, Undisturbed
        <3> QED
            BY <1>5, <3>2, Zenon DEF Open, InDoubt
    <2> QED
        BY <2>1, <2>2, Zenon
<1> QED
    BY <1>1, <1>2, <1>3, <1>4, <1>5, ApplyStep, Zenon

LEMMA DeliverApplies ==
    ASSUME IInv, StartedInv, DeliverLate
    PROVE  Atomic!Apply
<1>1. PICK r \in late : Publish(r.snapshot)
    BY Zenon DEF DeliverLate
<1>2. /\ hist' = Append(hist, r.snapshot) /\ late' = {}
      /\ UNCHANGED <<op, plan, status, doubted>>
    BY <1>1, Zenon DEF DeliverLate, Publish
<1>3. Prepared(r.snapshot) /\ SentAs(r.snapshot) \in Pending
    BY LateIsPrepared, PendingIs, Zenon
<1>4. AppliedTo(r.snapshot.user) < r.snapshot.op
    <2>1. /\ TypeOK /\ CommitsOnceInOrder /\ r.snapshot \in Snapshot
          /\ r.snapshot.user \in Committers /\ r.snapshot.op \in Nat
        BY ConstantsAssumption DEF IInv, IdempotenceInv, OrderInv, TypeOK, Snapshot, Op
    <2>2. /\ r.snapshot.op > 0
          /\ \A i \in 1..Len(hist) :
                hist[i].user = r.snapshot.user => hist[i].op < r.snapshot.op
        BY Zenon DEF StartedInv, IInv, IdempotenceInv, OrderInv
    <2> QED
        BY <2>1, <2>2, AppliedIsGreatest, Zenon DEF PublishedAs
<1>5. \A d \in Committers : Open(d)' => Open(d)
    BY <1>2, Zenon DEF Open, InDoubt
<1> QED
    BY <1>2, <1>3, <1>4, <1>5, ApplyStep, ZenonT(30)

LEMMA SubmitAsks ==
    ASSUME IInv, NEW c \in Committers,
           SubmitDirect(c) \/ SubmitExpected(c) \/ SubmitOverwrite(c)
    PROVE  Atomic!Ask \/ Atomic!Drop
<1>1. PICK p, filter : Submit(c, p, filter)
    BY Zenon DEF SubmitDirect, SubmitExpected, SubmitOverwrite
<1>2. /\ UNCHANGED <<hist, late>> /\ op' = [op EXCEPT ![c] = @ + 1]
      /\ plan' = [plan EXCEPT ![c] = p] /\ doubted' = [doubted EXCEPT ![c] = FALSE]
      /\ status' = [status EXCEPT ![c] = IF EarlyReturn(p) THEN "ok" ELSE "running"]
    BY <1>1, Zenon DEF Submit
<1>3. TypeOK /\ CommitsOnceInOrder /\ OrderInv
    BY Zenon DEF IInv, IdempotenceInv, OrderInv
<1>4. /\ op'[c] = op[c] + 1
      /\ status'[c] = IF EarlyReturn(p) THEN "ok" ELSE "running"
      /\ \A d \in Committers \ {c} :
            op'[d] = op[d] /\ plan'[d] = plan[d] /\ (Open(d)' <=> Open(d))
    BY <1>2, <1>3, Zenon DEF TypeOK, Open, InDoubt
<1>5. AppliedTo(c) <= op[c] /\ AppliedTo(c) \in Nat /\ op[c] \in Nat
    <2>1. op[c] \in Nat
        BY <1>3, ConstantsAssumption DEF TypeOK, Op
    <2>2. \A i \in 1..Len(hist) : hist[i].user = c => hist[i].op <= op[c]
        BY <1>3, Zenon DEF OrderInv
    <2> QED
        BY <1>3, <2>1, <2>2, AppliedIsGreatest DEF PublishedAs
<1>6. CASE ~EarlyReturn(p)
    BY <1>2, <1>4, <1>5, <1>6, AskStep DEF Open, InCall
<1>7. CASE EarlyReturn(p)
    <2>1. ~Open(c)'
        BY <1>4, <1>7, Zenon DEF Open, InDoubt, InCall
    <2>2. ASSUME NEW q \in Pending' PROVE q \in Pending
        <3>1. \A d \in Committers \ {c} :
                AskedFor(d)' = AskedFor(d) /\ AppliedTo(d)' = AppliedTo(d)
            BY <1>2, <1>4, SameTable, Zenon DEF AskedFor
        <3> QED
            BY <1>2, <1>4, <2>1, <2>2, <3>1, PendingIs, PendingIsNext
    <2> QED
        BY <1>2, <2>2, SameTable, Zenon DEF Atomic!Drop
<1> QED
    BY <1>6, <1>7, Zenon

LEMMA ResubmitAsks ==
    ASSUME IInv, NEW c \in Committers, Resubmit(c)
    PROVE  Atomic!Ask \/ Atomic!Drop
<1>1. /\ UNCHANGED <<hist, late, op, plan, doubted>> /\ status'[c] = "running"
      /\ \A d \in Committers \ {c} : status'[d] = status[d]
    BY Zenon DEF Resubmit, IInv, TypeOK
<1>2. \A d \in Committers \ {c} : Open(d)' <=> Open(d)
    BY <1>1, Zenon DEF Open, InDoubt
<1>3. Open(c)'
    BY <1>1, Zenon DEF Open, InCall
<1>4. CASE AppliedTo(c) < op[c]
    BY <1>1, <1>2, <1>3, <1>4, AskStep, ZenonT(30)
<1>5. CASE ~(AppliedTo(c) < op[c])
    <2>1. \A d \in Committers : AskedFor(d)' = AskedFor(d) /\ AppliedTo(d)' = AppliedTo(d)
        BY <1>1, SameTable, Zenon DEF AskedFor
    <2>2. ASSUME NEW q \in Pending' PROVE q \in Pending
        BY <1>1, <1>2, <1>5, <2>1, <2>2, PendingIs, PendingIsNext, ZenonT(30)
    <2> QED
        BY <1>1, <2>2, SameTable, Zenon DEF Atomic!Drop
<1> QED
    BY <1>4, <1>5, Zenon

LEMMA OtherStepsDrop ==
    ASSUME IInv, StartedInv, NEW c \in Committers, Step(c), ~Resubmit(c),
           ~SubmitDirect(c), ~SubmitExpected(c), ~SubmitOverwrite(c),
           ~PublishWins(c), ~PublishWinsCallbackFails(c)
    PROVE  Atomic!Drop
<1>1. UNCHANGED <<hist, op, plan>>
    BY Zenon DEF Step, Attempt, Answer, Abort, CleanOrphans, AttemptFiltered, AttemptMissingFiles,
        AttemptDuplicate, AttemptRejected, AttemptSend, PublishLoses,
        AttemptDuplicateCallbackFails, AttemptError, PublishErrors, Crash
<1>2. \A d \in Committers \ {c} : status'[d] = status[d] /\ doubted'[d] = doubted[d]
    BY FilesCount, OthersUndisturbed, Zenon DEF IInv, IdempotenceInv, Undisturbed
<1>3. Open(c)' => Open(c)
    <2>1. CASE Abort(c)
        BY <2>1, Zenon DEF Abort, Open, InDoubt, InCall, IInv, TypeOK
    <2>2. CASE CleanOrphans(c)
        BY <2>2, Zenon DEF CleanOrphans, Open, InDoubt
    <2>3. CASE ~Abort(c) /\ ~CleanOrphans(c)
        <3>1. status[c] \in InCall
            BY <2>3, Zenon DEF Step, Attempt, Answer, AttemptFiltered, AttemptMissingFiles,
                AttemptDuplicate, AttemptRejected, AttemptSend, PublishLoses,
                AttemptDuplicateCallbackFails, AttemptError, PublishErrors, Crash, InCall
        <3> QED
            BY <3>1, Zenon DEF Open
    <2> QED
        BY <2>1, <2>2, <2>3, Zenon
<1>4. \A d \in Committers : Open(d)' => Open(d)
    BY <1>2, <1>3, Zenon DEF Open, InDoubt
<1>5. ASSUME NEW r \in late' PROVE SentAs(r.snapshot) \in Pending
    <2>1. CASE r \in late
        BY <2>1, PendingIs, Zenon
    <2>2. CASE r \notin late
        <3>1. status[c] = "publishing" /\ Len(hist) = call[c].snap /\ r = Request(c)
            BY <1>5, <2>2, ZenonT(30) DEF Step, Attempt, Answer, Abort, CleanOrphans, AttemptFiltered,
                AttemptMissingFiles, AttemptDuplicate, AttemptRejected, AttemptSend,
                PublishLoses, AttemptDuplicateCallbackFails, AttemptError, PublishErrors,
                Crash, LoseAnswer
        <3>2. r.snapshot = NewSnapshot(c)
            BY <3>1, Zenon DEF Request
        <3> QED
            BY <3>1, <3>2, SentAsAsked, PublishingIsPending, ZenonT(30)
    <2> QED
        BY <2>1, <2>2, Zenon
<1> QED
    BY <1>1, <1>4, <1>5, DropStep, Zenon

LEMMA AtomicInit == Init => Atomic!Init
<1> SUFFICES ASSUME Init PROVE Atomic!Init
    BY Zenon
<1>1. Len(hist) = 0 /\ late = {} /\ \A c \in Committers : status[c] = "new"
    BY Zenon DEF Init
<1>2. \A c \in Committers : AppliedTo(c) = 0
    BY <1>1 DEF AppliedTo
<1>3. \A q : q \notin Pending
    BY <1>1, PendingIs, Zenon DEF Open, InDoubt, InCall
<1> QED
    BY <1>1, <1>2, <1>3, Zenon DEF Atomic!Init, LiveAt

LEMMA AtomicStep == IInv /\ StartedInv /\ [Next]_vars => [Atomic!Next]_(Atomic!vars)
<1> SUFFICES ASSUME IInv, StartedInv, [Next]_vars PROVE [Atomic!Next]_(Atomic!vars)
    OBVIOUS
<1>1. ASSUME NEW c \in Committers, Step(c) PROVE Atomic!Next
    BY <1>1, PublishApplies, SubmitAsks, ResubmitAsks, OtherStepsDrop, ZenonT(30) DEF Atomic!Next
<1>2. ASSUME DeliverLate PROVE Atomic!Next
    BY <1>2, DeliverApplies, Zenon DEF Atomic!Next
<1>3. ASSUME UNCHANGED vars PROVE UNCHANGED Atomic!vars
    <2>1. \A c \in Committers :
            /\ AppliedTo(c)' = AppliedTo(c) /\ AskedFor(c)' = AskedFor(c)
            /\ Open(c)' <=> Open(c)
        BY <1>3 DEF vars, AppliedTo, AskedFor, Open, InDoubt
    <2>2. \A q : q \in Pending' <=> q \in Pending
        BY <1>3, <2>1, PendingIs, PendingIsNext, ZenonT(30) DEF vars
    <2>3. Pending' = Pending
        BY <2>2, Zenon
    <2> QED
        BY <1>3, <2>3, SameTable, Zenon DEF vars, Atomic!vars
<1> QED
    BY <1>1, <1>2, <1>3, Zenon DEF Next

--------------------------------------------------------------------------------
(* The invariants *)

(* Every step keeps the types. *)
LEMMA TypeInductive == TypeOK /\ [Next]_vars => TypeOK'
BY FilesCount, TypeStep, Zenon

(* Every step keeps the idempotence invariant. *)
LEMMA IdempotenceInductive == TypeOK /\ IdempotenceInv /\ [Next]_vars => IdempotenceInv'
BY FilesCount, IdempotenceStep, Zenon

(* Every step keeps the invariant of try_commit. *)
LEMMA InvariantInductive == IInv /\ [Next]_vars => IInv'
BY FilesCount, TypeStep, IdempotenceStep, FileStep, MergeStep, ContentStep, ZenonT(30) DEF IInv

(* The state of the commit protocol is always well formed: what is published, *)
(* requested and resolved consists of data files of the table.                *)
THEOREM TypeCorrect == Spec => []TypeOK
<1>1. QED
    BY TypeInit, TypeInductive, PTL DEF Spec

(* Type correctness and the invariant hold in every reachable state. *)
THEOREM Idempotence == Spec => [](TypeOK /\ IdempotenceInv)
<1>1. QED
    BY TypeInit, TypeInductive, IdempotenceInit, IdempotenceInductive, PTL DEF Spec

(* Whatever is lost, retried, delivered late or resubmitted, the commits of   *)
(* one commit_user are published at most once each, in identifier order.      *)
THEOREM CommitOnce == Spec => []CommitsOnceInOrder
<1>1. IdempotenceInv => CommitsOnceInOrder
    BY Zenon DEF IdempotenceInv, OrderInv
<1>2. QED
    BY <1>1, Idempotence, PTL

(* A call that try_commit lets return Ok left its operation in the history.   *)
THEOREM AcknowledgedCommit == Spec => []AcknowledgedIsPublished
<1>1. IdempotenceInv => AcknowledgedIsPublished
    BY Zenon DEF IdempotenceInv
<1>2. QED
    BY <1>1, Idempotence, PTL

(* A failure of a committer without callbacks that no call for the operation  *)
(* marked as uncertain left nothing in the history.                           *)
THEOREM PlainFailure == Spec => []PlainFailureIsNotPublished
<1>1. IdempotenceInv => PlainFailureIsNotPublished
    BY DEF IdempotenceInv, DoubtInv, Unpublished, PlainFailureIsNotPublished
<1>2. QED
    BY <1>1, Idempotence, PTL

(* The inductive invariant of try_commit holds in every reachable state. *)
THEOREM CommitInvariant == Spec => []IInv
<1>1. Init => IInv
    BY TypeInit, IdempotenceInit, ContentInit, Zenon DEF IInv
<1> QED
    BY <1>1, InvariantInductive, PTL DEF Spec

(* No abort and no cleaning of orphans removes a file that a snapshot names.  *)
THEOREM LiveFilesExistAlways == Spec => []LiveFilesExist
<1>1. IInv => LiveFilesExist
    BY Zenon DEF IInv, FileInv
<1> QED
    BY <1>1, CommitInvariant, PTL

(* Whatever is retried, every delta fits the snapshot it is published on, and *)
(* the total_record_count that is added up counts the rows of the live files. *)
THEOREM DeltaFitsBaseAlways == Spec => []DeltaFitsBase
<1>1. IInv => DeltaFitsBase
    BY DEF IInv, ContentInv, FitsOn, DeltaFitsBase
<1> QED
    BY <1>1, CommitInvariant, PTL

(* An overwrite leaves exactly its own files in the partitions it replaces,   *)
(* also when provide_overwrite_entries answers from its cache.                *)
THEOREM OverwriteReplacesAlways == Spec => []OverwriteReplaces
<1>1. ASSUME IInv, NEW i \in 1..Len(hist), hist[i].over # {}
      PROVE  In(Live(hist[i]), hist[i].over) = hist[i].adds
    <2>1. /\ hist[i].base = LiveAt(i - 1)
          /\ In(LiveAt(i - 1), hist[i].over) = hist[i].dels
          /\ PartsOf(hist[i].adds) \subseteq hist[i].over
        BY <1>1, Zenon DEF IInv, ContentInv, FitsOn
    <2> QED
        BY <2>1, Zenon DEF Live, In, PartsOf
<1>2. IInv => OverwriteReplaces
    BY <1>1, Zenon DEF OverwriteReplaces
<1> QED
    BY <1>2, CommitInvariant, PTL

(* The incremental conflict base of a retry misses no live file of the        *)
(* partitions that the commit changes, and for the caller's own entries it is *)
(* what a full scan would return.                                             *)
THEOREM ConflictBaseSoundAlways == Spec => []ConflictBaseSound
<1>1. ASSUME IInv, NEW c \in Committers, status[c] = "publishing", call[c].hasBase,
             NEW parts, parts = IF Partitioned THEN PartsOf(plan[c].adds \cup call[c].dels)
                                ELSE Partitions
      PROVE  /\ In(LiveAt(call[c].snap), parts) \subseteq call[c].base
             /\ plan[c].mode = "direct" => call[c].base = In(LiveAt(call[c].snap), parts)
    <2>1. OwnContentInv(c) /\ plan[c] \in Plan
        BY <1>1, Zenon DEF IInv, ContentInv, TypeOK
    <2>2. CASE plan[c].mode = "direct"
        <3>1. parts = ScopeOf(plan[c])
            BY <1>1, <2>1, <2>2, ZenonT(30) DEF OwnContentInv, ScopeOf
        <3> QED
            BY <1>1, <2>1, <2>2, <3>1, ZenonT(30) DEF OwnContentInv
    <2>3. CASE plan[c].mode # "direct"
        <3>1. plan[c].mode = "overwrite" /\ plan[c].over # {}
            BY <2>1, <2>3, Zenon DEF OwnContentInv, Plan
        <3>2. FitsOn(NewSnapshot(c), call[c].snap) /\ call[c].dels \subseteq call[c].base
            BY <1>1, <2>1, Zenon DEF OwnContentInv
        <3>3. /\ NewSnapshot(c).over = plan[c].over /\ NewSnapshot(c).dels = call[c].dels
              /\ NewSnapshot(c).adds = plan[c].adds
            BY Zenon DEF NewSnapshot
        <3>4. /\ In(LiveAt(call[c].snap), plan[c].over) = call[c].dels
              /\ PartsOf(plan[c].adds) \subseteq plan[c].over
            BY <3>1, <3>2, <3>3, Zenon DEF FitsOn
        <3>5. parts \subseteq plan[c].over
            <4>1. CASE Partitioned
                BY <1>1, <3>4, <4>1, Zenon DEF In, PartsOf
            <4>2. CASE ~Partitioned
                BY <1>1, <2>1, <3>1, <4>2, ZenonT(30) DEF OwnContentInv
            <4> QED
                BY <4>1, <4>2, Zenon
        <3> QED
            BY <2>3, <3>2, <3>4, <3>5 DEF In
    <2> QED
        BY <2>2, <2>3, Zenon
<1>2. IInv => ConflictBaseSound
    BY <1>1, Zenon DEF ConflictBaseSound
<1> QED
    BY <1>2, CommitInvariant, PTL

(* commit_if_latest_snapshot publishes on the expected snapshot or not at all. *)
THEOREM ExpectedSnapshotIsBaseAlways == Spec => []ExpectedSnapshotIsBase
<1>1. IInv => ExpectedSnapshotIsBase
    BY DEF IInv, ContentInv, FitsOn, ExpectedSnapshotIsBase
<1> QED
    BY <1>1, CommitInvariant, PTL

--------------------------------------------------------------------------------
(* The refinement *)

(* try_commit with its retries, caches, lost answers, late deliveries and     *)
(* crashes implements the atomic table: whole requests are applied, at most   *)
(* once each, to the table as it is at that moment.                           *)
THEOREM CommitIsAtomic == Spec => CommitsAreAtomic
<1>1. Init => IInv /\ StartedInv
    BY TypeInit, IdempotenceInit, ContentInit, StartedInit, Zenon DEF IInv
<1>2. IInv /\ StartedInv /\ [Next]_vars => IInv' /\ StartedInv'
    BY InvariantInductive, StartedStep, Zenon
<1> QED
    BY <1>1, <1>2, AtomicInit, AtomicStep, PTL DEF Spec, CommitsAreAtomic, Atomic!Spec

================================================================================
