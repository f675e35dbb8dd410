------------------------------ MODULE TableCommit ------------------------------
(***************************************************************************)
(* The optimistic commit of a Paimon table: TableCommit::try_commit and    *)
(* the calls it makes (table/table_commit.rs), run by several committers   *)
(* against one snapshot history.                                           *)
(*                                                                         *)
(* A committer is one TableCommit with a commit_user of its own; its k-th  *)
(* operation carries the commit identifier k (identifiers of one user      *)
(* increase).  An operation is a plan: data-file entries to add and to     *)
(* delete (Direct), or the partitions to replace (Overwrite).              *)
(*                                                                         *)
(* Publication follows the contract of the SnapshotCommit trait: a request *)
(* for snapshot id n+1 is granted to one writer, and the others get false. *)
(* The request or its answer may be lost, and a lost request may still be  *)
(* applied later (`late`).  Module SnapshotManager models the file-system  *)
(* publisher step by step.                                                 *)
(*                                                                         *)
(* Snapshots and manifests are never changed once published, so one loop   *)
(* iteration up to the publication request reads the table once and is one *)
(* action.  A data file is named by who wrote it and holds one row.        *)
(***************************************************************************)
EXTENDS Integers, Sequences, FiniteSets

CONSTANTS
    Committers,         \* TableCommit instances, one commit_user each
    Callbacks,          \* the committers that have commit callbacks
    Partitions,         \* partitions of the table
    Partitioned,        \* does the schema have partition fields?
    IgnoreEmptyCommit,  \* with_ignore_empty_commit
    Shapes,             \* bound: the kinds of operation that callers submit
    MaxRetries,         \* commit.max-retries
    MaxOps,             \* bound: operations per committer
    MaxFaults           \* bound: lost answers, I/O errors, callback errors and crashes

ASSUME ConstantsAssumption ==
    /\ IsFiniteSet(Committers)
    /\ Callbacks \subseteq Committers
    /\ IsFiniteSet(Partitions)
    /\ Partitions # {}
    /\ Partitioned \in BOOLEAN
    /\ IgnoreEmptyCommit \in BOOLEAN
    /\ Shapes \subseteq {"append", "rewrite", "empty", "expected", "overwrite", "truncate"}
    /\ MaxRetries \in Nat
    /\ MaxOps \in Nat
    /\ MaxFaults \in Nat

VARIABLES
    hist,     \* the published snapshots: hist[i] is the content of snapshot-i
    files,    \* data files present in storage
    late,     \* publication requests whose answer was lost, not applied so far
    op,       \* op[c]: commit identifier of c's current operation, 0 before the first
    plan,     \* plan[c]: the CommitEntriesPlan of that operation
    status,   \* status[c]: where c's current call is, or how its last call ended
    call,     \* call[c]: the locals of try_commit
    doubted,  \* doubted[c]: the caller once could not tell if the operation was published
    faults    \* faults injected so far

vars == <<hist, files, late, op, plan, status, call, doubted, faults>>

--------------------------------------------------------------------------------
(* Data files, snapshots, plans *)

Op == 0..MaxOps

File == [user : Committers, op : Op, part : Partitions]

NewFile(c, k, p) == [user |-> c, op |-> k, part |-> p]

In(fs, ps) == {f \in fs : f.part \in ps}

PartsOf(fs) == {f.part : f \in fs}

Kind == {"APPEND", "OVERWRITE"}

(* `base` is what the base manifest list holds after merge_active_entries,  *)
(* adds and dels the delta manifest list, total the total_record_count;    *)
(* over and expect record the request, for the properties only.            *)
Snapshot ==
    [user : Committers, op : Op, kind : Kind, base : SUBSET File,
     adds : SUBSET File, dels : SUBSET File, total : Int,
     over : SUBSET Partitions, expect : Nat]

(* spec/manifest.rs merge_active_entries over base and delta entries. *)
Live(s) == (s.base \ s.dels) \cup s.adds

LiveAt(n) == IF n = 0 THEN {} ELSE Live(hist[n])

TotalAt(n) == IF n = 0 THEN 0 ELSE hist[n].total

(* mode "direct": entries given by the caller; expect is the snapshot id of *)
(* commit_if_latest_snapshot, 0 for none.  mode "overwrite": `over` is the  *)
(* partition filter, all partitions when the table is unpartitioned.        *)
Plan ==
    [mode : {"direct", "overwrite"}, adds : SUBSET File, dels : SUBSET File,
     over : SUBSET Partitions, expect : Nat]

NoPlan == [mode |-> "direct", adds |-> {}, dels |-> {}, over |-> {}, expect |-> 0]

(* commit_kind_hint and direct_commit_kind. *)
KindOf(p) == IF p.mode = "overwrite" \/ p.dels # {} THEN "OVERWRITE" ELSE "APPEND"

(* The data files a new operation may have written: none, or one. *)
NewFiles(c) == {{}} \cup {{NewFile(c, op[c] + 1, p)} : p \in Partitions}

(* Files of the latest snapshot that a copy-on-write rewrite may replace. *)
Replaceable == {{}} \cup {{f} : f \in LiveAt(Len(hist))}

(* The filters of overwrite, truncate_partitions and truncate_table. *)
Filters == IF Partitioned THEN (SUBSET Partitions) \ {{}} ELSE {Partitions}

DirectPlan(a, d, e) == [mode |-> "direct", adds |-> a, dels |-> d, over |-> {}, expect |-> e]

OverwritePlan(a, o) == [mode |-> "overwrite", adds |-> a, dels |-> {}, over |-> o, expect |-> 0]

(* validate_static_overwrite_entries: new files lie in the replaced part.   *)
ValidPlan(p) == p.mode = "overwrite" => PartsOf(p.adds) \subseteq p.over

Shape(p) ==
    CASE p.mode = "overwrite" /\ p.adds # {} -> "overwrite"
      [] p.mode = "overwrite" /\ p.adds = {} -> "truncate"
      [] p.mode = "direct" /\ p.expect # 0 -> "expected"
      [] p.mode = "direct" /\ p.expect = 0 /\ p.dels # {} -> "rewrite"
      [] p.mode = "direct" /\ p.expect = 0 /\ p.dels = {} /\ p.adds # {} -> "append"
      [] OTHER -> "empty"

EmptyMessages(p) == p.mode = "direct" /\ p.adds = {} /\ p.dels = {}

--------------------------------------------------------------------------------
(* The locals of try_commit *)

Call ==
    [filter : BOOLEAN,        \* filter_committed
     check : BOOLEAN,         \* check_append_files
     dupStart : Nat,          \* duplicate_check_start_snapshot_id, 0 for None
     retries : Nat,           \* retry_count
     uncertain : BOOLEAN,     \* publication_uncertain
     prevSnap : Nat,          \* retry_state.latest_snapshot, 0 for None
     prevHas : BOOLEAN,       \* retry_state.base_data_files is Some
     prevBase : SUBSET File,
     cacheSnap : Nat,         \* the overwrite plan's cached_snapshot, 0 for None
     cache : SUBSET File,
     snap : Nat,              \* latest_snapshot of this iteration
     dels : SUBSET File,      \* the resolved DELETE entries
     hasBase : BOOLEAN,       \* resolved.base_data_files is Some
     base : SUBSET File]

NewCall(filter) ==
    [filter |-> filter, check |-> filter, dupStart |-> 0, retries |-> 0,
     uncertain |-> FALSE, prevSnap |-> 0, prevHas |-> FALSE, prevBase |-> {},
     cacheSnap |-> 0, cache |-> {}, snap |-> 0, dels |-> {}, hasBase |-> FALSE,
     base |-> {}]

InCall == {"running", "publishing"}

Ended == {"new", "ok", "failed", "unknown", "aborted"}

TypeOK ==
    /\ hist \in Seq(Snapshot)
    /\ files \subseteq File
    /\ late \subseteq [id : Nat, snapshot : Snapshot]
    /\ op \in [Committers -> Op]
    /\ plan \in [Committers -> Plan]
    /\ status \in [Committers -> InCall \cup Ended]
    /\ call \in [Committers -> Call]
    /\ doubted \in [Committers -> BOOLEAN]
    /\ faults \in Nat

Init ==
    /\ hist = <<>>
    /\ files = {}
    /\ late = {}
    /\ op = [c \in Committers |-> 0]
    /\ plan = [c \in Committers |-> NoPlan]
    /\ status = [c \in Committers |-> "new"]
    /\ call = [c \in Committers |-> NewCall(FALSE)]
    /\ doubted = [c \in Committers |-> FALSE]
    /\ faults = 0

--------------------------------------------------------------------------------
(* How a call ends *)

End(c, result) ==
    /\ status' = [status EXCEPT ![c] = result]
    /\ call' = [call EXCEPT ![c] = NewCall(FALSE)]

(* Mutation: the error of the last attempt hides that an earlier one was in doubt. *)
EndWithErrorCertain(c, uncertain, plain) == End(c, plain) /\ UNCHANGED doubted

(* An error is reported as "outcome may be unknown" when some publication of *)
(* this call ended in an error, and as it is otherwise: the error of a commit *)
(* callback, which comes after the publication, looks like any other.         *)
EndWithError(c, uncertain, plain) ==
    /\ End(c, IF uncertain THEN "unknown" ELSE plain)
    /\ doubted' = [doubted EXCEPT ![c] = @ \/ uncertain]

Fault == faults < MaxFaults /\ faults' = faults + 1

--------------------------------------------------------------------------------
(* The caller *)

(* commit_if_latest_snapshot drops empty messages whatever the option says. *)
EarlyReturn(p) == EmptyMessages(p) /\ (IgnoreEmptyCommit \/ p.expect # 0)

(* A new operation with plan p, whose files were written before. *)
Submit(c, p, filter) ==
    /\ status[c] \in Ended
    /\ op[c] < MaxOps
    /\ Shape(p) \in Shapes
    /\ ValidPlan(p)
    /\ op' = [op EXCEPT ![c] = @ + 1]
    /\ plan' = [plan EXCEPT ![c] = p]
    /\ files' = files \cup p.adds
    /\ status' = [status EXCEPT ![c] = IF EarlyReturn(p) THEN "ok" ELSE "running"]
    /\ call' = [call EXCEPT ![c] = NewCall(filter /\ ~EarlyReturn(p))]
    /\ doubted' = [doubted EXCEPT ![c] = FALSE]
    /\ UNCHANGED <<hist, late, faults>>

(* commit_with_identifier, filter_and_commit_with_identifier: an append or a  *)
(* copy-on-write rewrite of a file of the latest snapshot.                    *)
SubmitDirect(c) ==
    \E a \in NewFiles(c), d \in Replaceable, filter \in BOOLEAN :
        Submit(c, DirectPlan(a, d, 0), filter)

(* commit_if_latest_snapshot_with_identifier, after reading the latest one.   *)
SubmitExpected(c) ==
    /\ Len(hist) # 0
    /\ \E a \in NewFiles(c), d \in Replaceable : Submit(c, DirectPlan(a, d, Len(hist)), FALSE)

(* overwrite (static or dynamic), overwrite_with_identifier, and, without new *)
(* files, truncate_partitions, drop_partitions and truncate_table.            *)
SubmitOverwrite(c) ==
    \E a \in NewFiles(c), o \in Filters, filter \in BOOLEAN :
        Submit(c, OverwritePlan(a, o), filter)

(* The caller retries an operation whose call did not succeed, with the same *)
(* identifier and messages: filter_and_commit_with_identifier, or            *)
(* overwrite_with_identifier.  There is no such call with an expected id.    *)
Resubmit(c) ==
    /\ status[c] \in {"unknown", "failed"}
    /\ plan[c].expect = 0
    /\ status' = [status EXCEPT ![c] = "running"]
    /\ call' = [call EXCEPT ![c] = NewCall(TRUE)]
    /\ UNCHANGED <<hist, files, late, op, plan, doubted, faults>>

(* abort: delete the new files of a write known not to be committed.  With    *)
(* callbacks the caller cannot know it from an error: it may be a callback's. *)
Abort(c) ==
    /\ c \notin Callbacks
    /\ status[c] = "failed"
    /\ ~doubted[c]
    /\ files' = files \ plan[c].adds
    /\ status' = [status EXCEPT ![c] = "aborted"]
    /\ UNCHANGED <<hist, late, op, plan, call, doubted, faults>>

(* Orphan-file cleaning, by another tool: it removes files that no snapshot   *)
(* references, long after the operation that wrote them went silent.          *)
CleanOrphans(c) ==
    /\ status[c] = "unknown"
    /\ ~\E i \in 1..Len(hist) : plan[c].adds \cap Live(hist[i]) # {}
    /\ ~\E r \in late : plan[c].adds \cap r.snapshot.adds # {}
    /\ files' = files \ plan[c].adds
    /\ UNCHANGED <<hist, late, op, plan, status, call, doubted, faults>>

--------------------------------------------------------------------------------
(* One iteration of try_commit, up to the publication request *)

(* Mutation: any commit of the user counts. *)
IsCommittedAnyIdentifier(c) == \E i \in 1..Len(hist) : hist[i].user = c

(* The newest snapshot of the same user decides. *)
IsCommitted(c) ==
    \E i \in 1..Len(hist) :
        /\ hist[i].user = c
        /\ \A j \in (i + 1)..Len(hist) : hist[j].user # c
        /\ op[c] <= hist[i].op

(* Mutation: the files of recovered messages are not looked for. *)
PassesFilterUnchecked(c) == call[c].filter => ~IsCommitted(c)

(* filter_committed passes: check_recovered_files_exist found every file. *)
PassesFilter(c) == call[c].filter => ~IsCommitted(c) /\ plan[c].adds \subseteq files

(* Mutation: the search for an own commit starts one snapshot too late. *)
FindDuplicateLate(c) ==
    /\ call[c].dupStart # 0
    /\ \E i \in (call[c].dupStart + 1)..Len(hist) :
        hist[i].user = c /\ hist[i].op = op[c] /\ hist[i].kind = KindOf(plan[c])

FindDuplicate(c) ==
    /\ call[c].dupStart # 0
    /\ \E i \in call[c].dupStart..Len(hist) :
        /\ hist[i].user = c
        /\ hist[i].op = op[c]
        /\ hist[i].kind = KindOf(plan[c])

(* Mutation: the expected snapshot is compared before the first attempt only. *)
ExpectedLatestOnce(c) ==
    plan[c].expect # 0 /\ call[c].retries = 0 => plan[c].expect = Len(hist)

(* validate_expected_latest_snapshot *)
ExpectedLatest(c) == plan[c].expect # 0 => plan[c].expect = Len(hist)

(* Mutation: any append since then is taken to be outside the filter. *)
CanUseOverwriteCacheAfterAppends(c) ==
    Partitioned /\ \A k \in (call[c].cacheSnap + 1)..Len(hist) : hist[k].kind = "APPEND"

(* can_use_overwrite_cache: only appends outside the filter since then. *)
CanUseOverwriteCache(c) ==
    /\ Partitioned
    /\ \A k \in (call[c].cacheSnap + 1)..Len(hist) :
        /\ hist[k].kind = "APPEND"
        /\ In(hist[k].adds \cup hist[k].dels, plan[c].over) = {}

CacheUsable(c) ==
    /\ call[c].cacheSnap # 0
    /\ call[c].cacheSnap = Len(hist) \/ CanUseOverwriteCache(c)

(* provide_overwrite_entries: the files to delete. *)
OverwriteEntries(c) ==
    IF CacheUsable(c) THEN call[c].cache ELSE In(LiveAt(Len(hist)), plan[c].over)

ResolvedDels(c) == IF plan[c].mode = "overwrite" THEN OverwriteEntries(c) ELSE plan[c].dels

(* build_entries_partition_filter *)
ChangedPartitions(c) ==
    IF Partitioned THEN PartsOf(plan[c].adds \cup ResolvedDels(c)) ELSE Partitions

(* merge_active_entries over previous_base and the deltas of the snapshots    *)
(* since: a file is active if no later delta deletes it.                      *)
IncrementalBase(c) ==
    LET from == call[c].prevSnap
        Kept(f, k) == \A j \in (k + 1)..Len(hist) : f \notin hist[j].dels
        Added(k) == In(hist[k].adds, ChangedPartitions(c))
        DeletedLater(f, k) == f.part \in ChangedPartitions(c) /\ ~Kept(f, k)
    IN {f \in call[c].prevBase : ~DeletedLater(f, from)}
       \cup UNION {{f \in Added(k) : ~DeletedLater(f, k)} : k \in (from + 1)..Len(hist)}

(* resolve_conflict_base_entries *)
ConflictBase(c) ==
    IF call[c].prevHas /\ call[c].prevSnap # 0
    THEN IncrementalBase(c)
    ELSE In(LiveAt(Len(hist)), ChangedPartitions(c))

(* Mutation: conflicts are looked for in recovered commits only. *)
DetectConflictsRecovered(c) == call[c].check

DetectConflicts(c) == call[c].check \/ KindOf(plan[c]) = "OVERWRITE"

(* validate_file_entries, check_delete_entries_against_base *)
Conflict(c) ==
    \/ plan[c].adds \cap ResolvedDels(c) # {}
    \/ /\ DetectConflicts(c)
       /\ \/ ~(ResolvedDels(c) \subseteq ConflictBase(c))
          \/ plan[c].adds \cap ConflictBase(c) # {}

(* The identifier is filtered: success without publishing or notifying. *)
AttemptFiltered(c) ==
    /\ status[c] = "running"
    /\ call[c].filter
    /\ IsCommitted(c)
    /\ End(c, "ok")
    /\ UNCHANGED <<hist, files, late, op, plan, doubted, faults>>

(* A file of the recovered messages is gone. *)
AttemptMissingFiles(c) ==
    /\ status[c] = "running"
    /\ call[c].filter
    /\ ~IsCommitted(c)
    /\ ~(plan[c].adds \subseteq files)
    /\ EndWithError(c, call[c].uncertain, "failed")
    /\ UNCHANGED <<hist, files, late, op, plan, faults>>

(* An earlier attempt of this call was published after all. *)
AttemptDuplicate(c) ==
    /\ status[c] = "running"
    /\ PassesFilter(c)
    /\ FindDuplicate(c)
    /\ End(c, "ok")
    /\ UNCHANGED <<hist, files, late, op, plan, doubted, faults>>

(* The same, and a replayed commit callback, or reading its entries, fails. *)
AttemptDuplicateCallbackFails(c) ==
    /\ c \in Callbacks
    /\ status[c] = "running"
    /\ PassesFilter(c)
    /\ FindDuplicate(c)
    /\ Fault
    /\ EndWithError(c, call[c].uncertain, "failed")
    /\ UNCHANGED <<hist, files, late, op, plan>>

(* Mutation: a conflict sends the call round the loop instead of ending it. *)
AttemptRejectedConflictRetried(c) ==
    /\ status[c] = "running"
    /\ PassesFilter(c)
    /\ ~FindDuplicate(c)
    /\ ~ExpectedLatest(c)
    /\ EndWithError(c, call[c].uncertain, "failed")
    /\ UNCHANGED <<hist, files, late, op, plan, faults>>

(* The expected latest snapshot or the entries no longer fit the table. *)
AttemptRejected(c) ==
    /\ status[c] = "running"
    /\ PassesFilter(c)
    /\ ~FindDuplicate(c)
    /\ ~ExpectedLatest(c) \/ Conflict(c)
    /\ EndWithError(c, call[c].uncertain, "failed")
    /\ UNCHANGED <<hist, files, late, op, plan, faults>>

(* Reading the table or writing the new manifests fails. *)
AttemptError(c) ==
    /\ status[c] = "running"
    /\ Fault
    /\ EndWithError(c, call[c].uncertain, "failed")
    /\ UNCHANGED <<hist, files, late, op, plan>>

(* prepare_snapshot succeeds and the publication request is sent. *)
AttemptSend(c) ==
    /\ status[c] = "running"
    /\ PassesFilter(c)
    /\ ~FindDuplicate(c)
    /\ ExpectedLatest(c)
    /\ ~Conflict(c)
    /\ status' = [status EXCEPT ![c] = "publishing"]
    /\ call' = [call EXCEPT ![c].filter = FALSE,
                            ![c].snap = Len(hist),
                            ![c].dels = ResolvedDels(c),
                            ![c].hasBase = DetectConflicts(c),
                            ![c].base = IF DetectConflicts(c) THEN ConflictBase(c) ELSE {},
                            ![c].cacheSnap = IF plan[c].mode = "overwrite" THEN Len(hist) ELSE 0,
                            ![c].cache = IF plan[c].mode = "overwrite" THEN ResolvedDels(c) ELSE {}]
    /\ UNCHANGED <<hist, files, late, op, plan, doubted, faults>>

--------------------------------------------------------------------------------
(* Publication and its answers *)

(* The snapshot that prepare_snapshot built on call[c].snap. *)
NewSnapshot(c) ==
    [user |-> c, op |-> op[c], kind |-> KindOf(plan[c]), base |-> LiveAt(call[c].snap),
     adds |-> plan[c].adds, dels |-> call[c].dels,
     total |-> TotalAt(call[c].snap) + Cardinality(plan[c].adds) - Cardinality(call[c].dels),
     over |-> plan[c].over, expect |-> plan[c].expect]

Request(c) == [id |-> call[c].snap + 1, snapshot |-> NewSnapshot(c)]

(* Every request in `late` is for the next id: once that id exists, all of    *)
(* them are refused and have no further effect.                               *)
Publish(s) == hist' = Append(hist, s) /\ late' = {}

PublishWins(c) ==
    /\ status[c] = "publishing"
    /\ Len(hist) = call[c].snap
    /\ Publish(NewSnapshot(c))
    /\ End(c, "ok")
    /\ UNCHANGED <<files, op, plan, doubted, faults>>

(* Published, then a commit callback fails: its error is returned. *)
PublishWinsCallbackFails(c) ==
    /\ c \in Callbacks
    /\ status[c] = "publishing"
    /\ Len(hist) = call[c].snap
    /\ Publish(NewSnapshot(c))
    /\ Fault
    /\ EndWithError(c, call[c].uncertain, "failed")
    /\ UNCHANGED <<files, op, plan>>

(* Mutation: the second retry keeps the base of the first attempt. *)
RetryOrGiveUpFirstBase(c, uncertain) ==
    \/ EndWithError(c, uncertain, "failed")
    \/ /\ call[c].retries < MaxRetries
       /\ status' = [status EXCEPT ![c] = "running"]
       /\ call' = [call EXCEPT ![c].retries = @ + 1,
                               ![c].uncertain = uncertain,
                               ![c].dupStart = IF @ = 0 THEN call[c].snap + 1 ELSE @,
                               ![c].prevSnap = call[c].snap,
                               ![c].prevHas = call[c].hasBase,
                               ![c].prevBase = IF call[c].prevHas THEN @ ELSE call[c].base]
       /\ UNCHANGED doubted

(* CommitAttemptResult::Retry: give up when the time or the retries are used *)
(* up, otherwise wait and go round the loop.                                 *)
RetryOrGiveUp(c, uncertain) ==
    \/ EndWithError(c, uncertain, "failed")
    \/ /\ call[c].retries < MaxRetries
       /\ status' = [status EXCEPT ![c] = "running"]
       /\ call' = [call EXCEPT ![c].retries = @ + 1,
                               ![c].uncertain = uncertain,
                               ![c].dupStart = IF @ = 0 THEN call[c].snap + 1 ELSE @,
                               ![c].prevSnap = call[c].snap,
                               ![c].prevHas = call[c].hasBase,
                               ![c].prevBase = call[c].base]
       /\ UNCHANGED doubted

(* Another writer won the race for the id. *)
PublishLoses(c) ==
    /\ status[c] = "publishing"
    /\ Len(hist) # call[c].snap
    /\ RetryOrGiveUp(c, call[c].uncertain)
    /\ UNCHANGED <<hist, files, late, op, plan, faults>>

(* Whoever waits for the answer never gets it; the request may still arrive. *)
LoseAnswer(c) ==
    late' = IF Len(hist) = call[c].snap THEN late \cup {Request(c)} ELSE late

(* The publication returns an error, whatever became of the request. *)
PublishErrors(c) ==
    /\ status[c] = "publishing"
    /\ Fault
    /\ LoseAnswer(c)
    /\ RetryOrGiveUp(c, TRUE)
    /\ UNCHANGED <<hist, files, op, plan>>

(* A request whose answer was lost is applied. *)
DeliverLate ==
    \E r \in late :
        /\ r.id = Len(hist) + 1
        /\ Publish(r.snapshot)
        /\ UNCHANGED <<files, op, plan, status, call, doubted, faults>>

(* The process dies inside a call; messages and identifier are checkpointed. *)
Crash(c) ==
    /\ status[c] \in InCall
    /\ Fault
    /\ IF status[c] = "publishing" THEN LoseAnswer(c) ELSE UNCHANGED late
    /\ EndWithError(c, TRUE, "unknown")
    /\ UNCHANGED <<hist, files, op, plan>>

--------------------------------------------------------------------------------

Attempt(c) ==
    \/ AttemptFiltered(c)
    \/ AttemptMissingFiles(c)
    \/ AttemptDuplicate(c)
    \/ AttemptRejected(c)
    \/ AttemptSend(c)

Answer(c) == PublishWins(c) \/ PublishLoses(c)

(* What a committer, its caller and its faults do. *)
Step(c) ==
    \/ SubmitDirect(c)
    \/ SubmitExpected(c)
    \/ SubmitOverwrite(c)
    \/ Resubmit(c)
    \/ Abort(c)
    \/ CleanOrphans(c)
    \/ Attempt(c)
    \/ Answer(c)
    \/ AttemptDuplicateCallbackFails(c)
    \/ AttemptError(c)
    \/ PublishWinsCallbackFails(c)
    \/ PublishErrors(c)
    \/ Crash(c)

Next ==
    \/ \E c \in Committers : Step(c)
    \/ DeliverLate

(* A call in progress is polled by its executor, and every publication is     *)
(* answered (an error is an answer too): no fairness for callers or faults.   *)
Fairness == \A c \in Committers : WF_vars(Attempt(c)) /\ WF_vars(Answer(c))

Spec == Init /\ [][Next]_vars

FairSpec == Spec /\ Fairness

--------------------------------------------------------------------------------
(* Properties *)

PublishedAs(c, k, i) == hist[i].user = c /\ hist[i].op = k

(* The commits of one commit_user appear in the history at most once each and *)
(* in the order of their identifiers, whatever is lost, retried, delivered    *)
(* late or resubmitted: is_committed_identifier and find_duplicate_commit     *)
(* together make publication idempotent.                                      *)
CommitsOnceInOrder ==
    \A i, j \in 1..Len(hist) :
        i < j /\ hist[i].user = hist[j].user => hist[i].op < hist[j].op

(* A call that returns Ok left its operation in the history (an ignored empty *)
(* commit has nothing to leave), also one that repeats a call whose callback  *)
(* failed: neither the filter nor the duplicate check mistakes another commit *)
(* for this one.                                                              *)
AcknowledgedIsPublished ==
    \A c \in Committers :
        status[c] = "ok" /\ ~EarlyReturn(plan[c])
        => \E i \in 1..Len(hist) : PublishedAs(c, op[c], i)

(* Without commit callbacks, an error that try_commit does not mark as        *)
(* "outcome may be unknown" means that the operation is not in the history,   *)
(* if no earlier call for it was in doubt: this is what makes abort usable at *)
(* all.  With callbacks it means nothing: a callback that fails after the     *)
(* publication returns an unmarked error as well.                             *)
PlainFailureIsNotPublished ==
    \A c \in Committers \ Callbacks :
        status[c] \in {"failed", "aborted"} /\ ~doubted[c]
        => \A i \in 1..Len(hist) : ~PublishedAs(c, op[c], i)

(* Every data file that some snapshot's merged manifests name is in storage:  *)
(* no abort ever removes a file a snapshot references.                        *)
LiveFilesExist == \A i \in 1..Len(hist) : Live(hist[i]) \subseteq files

(* A delta fits the snapshot it was published on: it deletes only live files, *)
(* adds only new ones, its base is the whole previous table, and so the       *)
(* total_record_count, maintained by addition and subtraction over the        *)
(* deltas, counts the rows of the live files.                                 *)
DeltaFitsBase ==
    \A i \in 1..Len(hist) :
        /\ hist[i].base = LiveAt(i - 1)
        /\ hist[i].dels \subseteq hist[i].base
        /\ hist[i].adds \cap hist[i].base = {}
        /\ hist[i].total = Cardinality(Live(hist[i]))

(* An overwrite leaves in the partitions it replaces exactly its own files,   *)
(* also when its entries come from the overwrite cache of an earlier attempt  *)
(* and other writers committed in between.                                    *)
OverwriteReplaces ==
    \A i \in 1..Len(hist) :
        hist[i].over # {} => In(Live(hist[i]), hist[i].over) = hist[i].adds

(* The base that conflicts are checked against on a retry, the old base plus  *)
(* the deltas since, misses no live file of the partitions the commit         *)
(* changes, and for caller-provided entries it is exactly that set.           *)
ConflictBaseSound ==
    \A c \in Committers :
        status[c] = "publishing" /\ call[c].hasBase
        => LET parts == IF Partitioned THEN PartsOf(plan[c].adds \cup call[c].dels) ELSE Partitions
               scan == In(LiveAt(call[c].snap), parts)
           IN scan \subseteq call[c].base /\ (plan[c].mode = "direct" => call[c].base = scan)

(* commit_if_latest_snapshot publishes only directly on the expected          *)
(* snapshot, although its call may go round the loop.                         *)
ExpectedSnapshotIsBase ==
    \A i \in 1..Len(hist) : hist[i].expect # 0 => hist[i].expect = i - 1

(* Every call returns: retries are bounded and no branch of the loop spins.   *)
CallsReturn ==
    \A c \in Committers : (status[c] \in InCall) ~> (status[c] \notin InCall)

--------------------------------------------------------------------------------
(* The inductive invariant behind the safety properties *)

RequestedAs(c, k, r) == r.snapshot.user = c /\ r.snapshot.op = k

Unpublished(c) ==
    /\ \A i \in 1..Len(hist) : ~PublishedAs(c, op[c], i)
    /\ \A r \in late : ~RequestedAs(c, op[c], r)

(* Identifiers only grow, in the history and in what may still be applied.    *)
OrderInv ==
    /\ CommitsOnceInOrder
    /\ \A i \in 1..Len(hist) : hist[i].op <= op[hist[i].user]
    /\ \A r \in late :
        /\ r.id = Len(hist) + 1
        /\ r.snapshot.op <= op[r.snapshot.user]
        /\ \A i \in 1..Len(hist) :
            hist[i].user = r.snapshot.user => hist[i].op < r.snapshot.op

(* A committer in the loop finds its own commit where it looks for it: above  *)
(* dupStart after a retry, through the filter in a resubmission, nowhere in a *)
(* fresh call.                                                                *)
OwnCommitInv(c) ==
    /\ \A i \in 1..Len(hist) : PublishedAs(c, op[c], i) => hist[i].kind = KindOf(plan[c])
    /\ \A r \in late : RequestedAs(c, op[c], r) => r.snapshot.kind = KindOf(plan[c])
    /\ status[c] = "publishing" =>
        /\ ~call[c].filter
        /\ call[c].snap <= Len(hist)
        /\ call[c].dupStart <= call[c].snap + 1
        /\ \A i \in 1..call[c].snap : ~PublishedAs(c, op[c], i)
    /\ status[c] = "running" /\ call[c].filter => call[c].dupStart = 0
    /\ status[c] = "running" /\ ~call[c].filter /\ call[c].dupStart = 0 => Unpublished(c)
    /\ status[c] = "running" /\ call[c].dupStart # 0 =>
        /\ call[c].dupStart <= Len(hist) + 1
        /\ \A i \in 1..Len(hist) : PublishedAs(c, op[c], i) => i >= call[c].dupStart

(* As long as nothing was in doubt the operation of a call that has not       *)
(* succeeded is nowhere, unless a callback may have failed.                   *)
DoubtInv(c) ==
    /\ status[c] = "unknown" => doubted[c]
    /\ status[c] = "aborted" => c \notin Callbacks
    /\ c \notin Callbacks /\ status[c] \in {"failed", "aborted"} /\ ~doubted[c] => Unpublished(c)
    /\ c \notin Callbacks /\ status[c] \in InCall /\ ~call[c].uncertain /\ ~doubted[c] =>
           Unpublished(c)

(* What makes publication idempotent. *)
IdempotenceInv ==
    /\ OrderInv
    /\ \A c \in Committers : OwnCommitInv(c) /\ DoubtInv(c)
    /\ AcknowledgedIsPublished

(* A committer that may publish has its files in storage. *)
OwnFilesInv(c) ==
    /\ \A f \in plan[c].adds : f.user = c /\ f.op = op[c]
    /\ status[c] = "publishing" => plan[c].adds \subseteq files
    /\ status[c] = "running" /\ ~call[c].filter => plan[c].adds \subseteq files

(* Files carry their origin, and those of a request are in storage.           *)
FileInv ==
    /\ LiveFilesExist
    /\ \A i \in 1..Len(hist) : \A f \in Live(hist[i]) :
        \E j \in 1..i : PublishedAs(f.user, f.op, j)
    /\ \A r \in late : r.snapshot.adds \subseteq files
    /\ \A r \in late : \A f \in r.snapshot.adds :
        f.user = r.snapshot.user /\ f.op = r.snapshot.op
    /\ \A c \in Committers : OwnFilesInv(c)

(* What the deltas between two snapshots amount to: a file is live in         *)
(* snapshot n iff it was live in m, or added since, and not deleted later.    *)
MergeInv ==
    \A n \in 0..Len(hist) : \A m \in 0..n : \A f \in File :
        f \in LiveAt(n) <=>
            \/ f \in LiveAt(m) /\ \A j \in (m + 1)..n : f \notin hist[j].dels
            \/ \E k \in (m + 1)..n :
                f \in hist[k].adds /\ \A j \in (k + 1)..n : f \notin hist[j].dels

(* What a snapshot to be published on snapshot n must satisfy. *)
FitsOn(s, n) ==
    /\ s.base = LiveAt(n)
    /\ s.dels \subseteq LiveAt(n)
    /\ s.adds \cap LiveAt(n) = {}
    /\ s.over # {} => In(LiveAt(n), s.over) = s.dels /\ PartsOf(s.adds) \subseteq s.over
    /\ s.expect # 0 => s.expect = n
    /\ s.total = Cardinality(Live(s))

ScopeOf(p) == IF Partitioned THEN PartsOf(p.adds \cup p.dels) ELSE Partitions

(* The overwrite cache and the base of a direct plan are exact for the        *)
(* snapshot they belong to.                                                   *)
OwnContentInv(c) ==
    /\ ValidPlan(plan[c])
    /\ plan[c].mode = "direct" <=> plan[c].over = {}
    /\ plan[c].mode = "overwrite" => plan[c].dels = {} /\ plan[c].expect = 0
    /\ plan[c].mode = "overwrite" /\ ~Partitioned => plan[c].over = Partitions
    /\ status[c] = "publishing" => FitsOn(NewSnapshot(c), call[c].snap)
    /\ status[c] = "publishing" /\ call[c].hasBase => call[c].dels \subseteq call[c].base
    /\ status[c] = "publishing" /\ plan[c].mode = "direct" => call[c].dels = plan[c].dels
    /\ call[c].cacheSnap # 0 =>
        /\ call[c].cacheSnap <= Len(hist)
        /\ plan[c].mode = "overwrite"
        /\ call[c].cache = In(LiveAt(call[c].cacheSnap), plan[c].over)
    /\ plan[c].mode = "direct" /\ call[c].prevHas =>
        /\ call[c].prevSnap <= Len(hist)
        /\ call[c].prevBase = In(LiveAt(call[c].prevSnap), ScopeOf(plan[c]))
    /\ plan[c].mode = "direct" /\ call[c].hasBase =>
        /\ call[c].snap <= Len(hist)
        /\ call[c].base = In(LiveAt(call[c].snap), ScopeOf(plan[c]))

(* Every request fits the snapshot it was prepared on. *)
ContentInv ==
    /\ \A i \in 1..Len(hist) : FitsOn(hist[i], i - 1)
    /\ \A r \in late : FitsOn(r.snapshot, r.id - 1)
    /\ \A c \in Committers : OwnContentInv(c)

IInv ==
    TypeOK /\ IdempotenceInv /\ FileInv /\ MergeInv /\ ContentInv

================================================================================
