------------------------------- MODULE StreamScan ------------------------------
(***************************************************************************)
(* Continuous reading (table/stream_table_scan.rs): StreamTableScan::plan, *)
(* the caller that processes its plans and acknowledges its checkpoint,    *)
(* and the consumer file (table/consumer_manager.rs), while other          *)
(* processes commit snapshots, expire old ones and roll the table back.    *)
(*                                                                         *)
(* A snapshot is "event" when a follow-up plan of it has splits, "empty"   *)
(* when that plan has none, "other" when follow-ups skip it (a commit that *)
(* is no APPEND, or has no changelog).  Every snapshot ever committed has  *)
(* a version of its own.  The table is looked at by one storage call per   *)
(* step; the lookup of the latest and the earliest snapshot is modelled in *)
(* SnapshotManager and Rollback, and is one step here.                     *)
(***************************************************************************)
EXTENDS Integers, Sequences, FiniteSets

CONSTANTS
    HasConsumer,   \* is a consumer id set?
    PollPeriod,    \* misses between two looks at the range of snapshots (16 in the code)
    MaxId,         \* bound: snapshot ids
    MaxRollbacks,  \* bound: rollbacks of the table
    MaxFaults      \* bound: restarts and failed calls

ASSUME StreamConstants ==
    /\ HasConsumer \in BOOLEAN
    /\ PollPeriod \in Nat \ {0}
    /\ MaxId \in Nat /\ MaxRollbacks \in Nat /\ MaxFaults \in Nat

VARIABLES
    log,        \* log[i]: what was committed as snapshot i
    first,      \* the oldest snapshot that has not expired
    pc,         \* the next storage call of the scan or its caller
    next,       \* next_snapshot_id, 0 for None
    restored,   \* consumer_restored
    polls,      \* missing_snapshot_polls
    local,      \* the id of the snapshot just read, or the earliest id just read
    reading,    \* the versions a plan of that snapshot covers
    held,       \* the versions of the plan that the caller has not processed
    done,       \* the versions that the caller has processed
    consumer,   \* the consumer file: 0 for none, Torn while it is being written
    outcome,    \* what the last call of plan returned
    rollbacks,
    faults

table == <<log, first, rollbacks>>

scan == <<next, restored, polls>>

vars == <<log, first, pc, next, restored, polls, local, reading, held, done, consumer, outcome,
          rollbacks, faults>>

Torn == -1

Kinds == {"event", "empty", "other"}

Snapshot == [kind : Kinds, version : Nat]

Steps == {"idle", "consumer", "latest", "initial", "fetch", "delta", "earliest", "outside", "acking"}

TypeOK ==
    /\ log \in Seq(Snapshot)
    /\ Len(log) <= MaxId
    /\ first \in Nat \ {0}
    /\ pc \in Steps
    /\ next \in Nat
    /\ restored \in BOOLEAN
    /\ polls \in 0..(PollPeriod - 1)
    /\ local \in Nat
    /\ reading \subseteq Nat
    /\ held \subseteq Nat
    /\ done \subseteq Nat
    /\ consumer \in Nat \cup {Torn}
    /\ outcome \in {"none", "plan", "wait", "outside", "error"}
    /\ rollbacks \in 0..MaxRollbacks
    /\ faults \in 0..MaxFaults

Init ==
    /\ log = <<>>
    /\ first = 1
    /\ pc = "idle"
    /\ next = 0
    /\ restored = FALSE
    /\ polls = 0
    /\ local = 0
    /\ reading = {}
    /\ held = {}
    /\ done = {}
    /\ consumer = 0
    /\ outcome = "none"
    /\ rollbacks = 0
    /\ faults = 0

--------------------------------------------------------------------------------
(* The other processes *)

Fresh == Len(log) + 1 + rollbacks * MaxId

Commit ==
    /\ Len(log) < MaxId
    /\ \E kind \in Kinds : log' = Append(log, [kind |-> kind, version |-> Fresh])
    /\ UNCHANGED <<first, pc, scan, local, reading, held, done, consumer, outcome, rollbacks, faults>>

(* The latest snapshot never expires. *)
Expire ==
    /\ first < Len(log)
    /\ first' = first + 1
    /\ UNCHANGED <<log, pc, scan, local, reading, held, done, consumer, outcome, rollbacks, faults>>

RollbackTable ==
    /\ rollbacks < MaxRollbacks
    /\ rollbacks' = rollbacks + 1
    /\ \E target \in first..(Len(log) - 1) : log' = SubSeq(log, 1, target)
    /\ UNCHANGED <<first, pc, scan, local, reading, held, done, consumer, outcome, faults>>

Present(id) == id \in first..Len(log)

(* The events that the full state of snapshot id contains. *)
UpTo(id) == {log[i].version : i \in {j \in 1..id : log[j].kind = "event"}}

--------------------------------------------------------------------------------
(* StreamTableScan::plan *)

Returns(result) == pc' = "idle" /\ outcome' = result

Fails ==
    /\ faults < MaxFaults
    /\ faults' = faults + 1
    /\ Returns("error")

(* The caller polls once it has processed the last plan. *)
Poll ==
    /\ pc = "idle"
    /\ held = {}
    /\ pc' = CASE next # 0 -> "fetch"
               [] next = 0 /\ ~restored /\ HasConsumer -> "consumer"
               [] next = 0 /\ (restored \/ ~HasConsumer) -> "latest"
    /\ restored' = (restored \/ (next = 0 /\ ~HasConsumer))
    /\ UNCHANGED <<table, next, polls, local, reading, held, done, consumer, outcome, faults>>

(* consumer_manager().get: a file that cannot be parsed is an error after the *)
(* retries of read_path.                                                      *)
ReadConsumer ==
    /\ pc = "consumer"
    /\ IF consumer = Torn
       THEN Returns("error") /\ UNCHANGED scan
       ELSE /\ next' = consumer
            /\ restored' = TRUE
            /\ polls' = IF consumer = 0 THEN polls ELSE 0
            /\ pc' = IF consumer = 0 THEN "latest" ELSE "fetch"
            /\ UNCHANGED outcome
    /\ UNCHANGED <<table, local, reading, held, done, consumer, faults>>

ReadLatest ==
    /\ pc = "latest"
    /\ IF log = <<>>
       THEN Returns("wait") /\ UNCHANGED <<local, reading>>
       ELSE /\ local' = Len(log)
            /\ reading' = UpTo(Len(log))
            /\ pc' = "initial"
            /\ UNCHANGED outcome
    /\ UNCHANGED <<table, scan, held, done, consumer, faults>>

PlanInitial ==
    /\ pc = "initial"
    /\ next' = local + 1
    /\ held' = reading
    /\ Returns("plan")
    /\ UNCHANGED <<table, restored, polls, local, reading, done, consumer, faults>>

(* Mutation: the checkpoint moves on before the plan is made. *)
FetchFoundEager ==
    /\ pc = "fetch"
    /\ Present(next)
    /\ polls' = 0
    /\ next' = next + 1
    /\ IF log[next].kind = "other"
       THEN UNCHANGED <<pc, local, reading>>
       ELSE /\ local' = next
            /\ reading' = IF log[next].kind = "event" THEN {log[next].version} ELSE {}
            /\ pc' = "delta"
    /\ UNCHANGED <<table, restored, held, done, consumer, outcome, faults>>

(* Mutation: a snapshot that is not scanned is waited for. *)
FetchFoundWaits ==
    /\ pc = "fetch"
    /\ Present(next)
    /\ polls' = 0
    /\ IF log[next].kind = "other"
       THEN Returns("wait") /\ UNCHANGED <<local, reading>>
       ELSE /\ local' = next
            /\ reading' = IF log[next].kind = "event" THEN {log[next].version} ELSE {}
            /\ pc' = "delta"
            /\ UNCHANGED outcome
    /\ UNCHANGED <<table, next, restored, held, done, consumer, faults>>

(* get_snapshot finds the next snapshot; one that is not scanned is skipped. *)
FetchFound ==
    /\ pc = "fetch"
    /\ Present(next)
    /\ polls' = 0
    /\ IF log[next].kind = "other"
       THEN next' = next + 1 /\ UNCHANGED <<pc, local, reading>>
       ELSE /\ local' = next
            /\ reading' = IF log[next].kind = "event" THEN {log[next].version} ELSE {}
            /\ pc' = "delta"
            /\ UNCHANGED next
    /\ UNCHANGED <<table, restored, held, done, consumer, outcome, faults>>

(* It does not: every PollPeriod-th time the range of snapshots is looked at. *)
FetchMissing ==
    /\ pc = "fetch"
    /\ ~Present(next)
    /\ polls' = (polls + 1) % PollPeriod
    /\ IF polls + 1 = PollPeriod
       THEN pc' = "earliest" /\ UNCHANGED outcome
       ELSE Returns("wait")
    /\ UNCHANGED <<table, next, restored, local, reading, held, done, consumer, faults>>

(* Mutation: the checkpoint stays. *)
PlanDeltaStays ==
    /\ pc = "delta"
    /\ held' = reading
    /\ IF reading = {} THEN pc' = "fetch" /\ UNCHANGED outcome ELSE Returns("plan")
    /\ UNCHANGED <<table, scan, local, reading, done, consumer, faults>>

(* The checkpoint moves past a snapshot only when its plan is made. *)
PlanDelta ==
    /\ pc = "delta"
    /\ next' = local + 1
    /\ held' = reading
    /\ IF reading = {} THEN pc' = "fetch" /\ UNCHANGED outcome ELSE Returns("plan")
    /\ UNCHANGED <<table, restored, polls, local, reading, done, consumer, faults>>

ReadEarliest ==
    /\ pc = "earliest"
    /\ local' = IF log = <<>> THEN 0 ELSE first
    /\ pc' = "outside"
    /\ UNCHANGED <<table, scan, reading, held, done, consumer, outcome, faults>>

(* Mutation: the snapshot after the latest is outside. *)
IsOutsideAtEnd(earliest, latest) == earliest > next \/ next > latest

(* Mutation: only a checkpoint beyond the latest snapshot is outside. *)
IsOutsideBeyond(earliest, latest) == next > latest + 1

(* Is the checkpoint outside what was seen of the range? *)
IsOutside(earliest, latest) ==
    \/ earliest # 0 /\ earliest > next
    \/ latest # 0 /\ next > latest + 1
    \/ latest = 0 /\ next > 1

CheckOutside ==
    /\ pc = "outside"
    /\ Returns(IF IsOutside(local, Len(log)) THEN "outside" ELSE "wait")
    /\ UNCHANGED <<table, scan, local, reading, held, done, consumer, faults>>

(* A storage call or planning fails: the error is returned. *)
PlanFails ==
    /\ pc \in {"consumer", "latest", "initial", "fetch", "delta", "earliest", "outside"}
    /\ Fails
    /\ UNCHANGED <<table, scan, local, reading, held, done, consumer>>

--------------------------------------------------------------------------------
(* The caller *)

Process ==
    /\ pc = "idle"
    /\ held # {}
    /\ done' = done \cup held
    /\ held' = {}
    /\ UNCHANGED <<table, pc, scan, local, reading, consumer, outcome, faults>>

(* notify_checkpoint_complete(checkpoint()), after processing: ConsumerManager *)
(* reset truncates the file and writes it.                                    *)
BeginAck ==
    /\ pc = "idle"
    /\ HasConsumer
    /\ held = {}
    /\ next # 0
    /\ consumer # next
    /\ consumer' = Torn
    /\ pc' = "acking"
    /\ UNCHANGED <<table, scan, local, reading, held, done, outcome, faults>>

EndAck ==
    /\ pc = "acking"
    /\ consumer' = next
    /\ pc' = "idle"
    /\ UNCHANGED <<table, scan, local, reading, held, done, outcome, faults>>

(* The process dies and a new scan is made, or restore is called, with None   *)
(* or with the acknowledged checkpoint: what was processed remains, what was  *)
(* only planned does not.                                                     *)
Restart ==
    /\ faults < MaxFaults
    /\ faults' = faults + 1
    /\ pc' = "idle"
    /\ next' \in {0} \cup (IF consumer > 0 THEN {consumer} ELSE {})
    /\ restored' = (next' # 0)
    /\ polls' = 0
    /\ local' = 0
    /\ reading' = {}
    /\ held' = {}
    /\ outcome' = "none"
    /\ UNCHANGED <<table, done, consumer>>

--------------------------------------------------------------------------------

Scan ==
    \/ Poll
    \/ ReadConsumer
    \/ ReadLatest
    \/ PlanInitial
    \/ FetchFound
    \/ FetchMissing
    \/ PlanDelta
    \/ ReadEarliest
    \/ CheckOutside
    \/ Process
    \/ EndAck

Next ==
    \/ Commit
    \/ Expire
    \/ RollbackTable
    \/ Scan
    \/ PlanFails
    \/ BeginAck
    \/ Restart

Spec == Init /\ [][Next]_vars

(* "clients can poll": the caller keeps polling and processing, and a call    *)
(* that is polled makes progress.                                             *)
FairSpec == Spec /\ WF_vars(Scan)

--------------------------------------------------------------------------------
(* Properties *)

EventsBefore(id) == {log[i].version : i \in {j \in 1..Len(log) : j < id /\ log[j].kind = "event"}}

(* Everything before the checkpoint has been handed to the caller, and        *)
(* everything before the acknowledged checkpoint has been processed, whatever *)
(* fails, restarts, expires or is skipped: a restored reader misses nothing.  *)
(* (A rollback followed by commits past the checkpoint is not noticed.)       *)
NothingMissed ==
    rollbacks = 0 =>
        /\ next # 0 => EventsBefore(next) \subseteq done \cup held
        /\ consumer > 0 => EventsBefore(consumer) \subseteq done

(* As long as nothing restarts or fails, a plan holds only events that have   *)
(* not been processed: every event is handed out once, by the initial plan or *)
(* by one follow-up.                                                          *)
NoRepeats == [][faults = 0 /\ held' # held /\ held' # {} => held' \cap done = {}]_vars

(* The error about a checkpoint outside the snapshots is never raised for one *)
(* that is merely waiting for the next commit, although the two ends of the   *)
(* range are read one after the other.                                        *)
NoFalseAlarm ==
    [][outcome' = "outside" /\ outcome # "outside" => ~(next \in first..(Len(log) + 1))]_vars

(* A checkpoint whose snapshot has expired, or that a rollback has left       *)
(* beyond the end of the table, is reported: the reader does not wait for     *)
(* ever for what cannot come.                                                 *)
OutsideIsReported ==
    LET Outside == next # 0 /\ ~(next \in first..(Len(log) + 1))
    IN Outside ~> (outcome = "outside" \/ ~Outside)

(* Every event arrives, unless the reader is told that it fell behind the     *)
(* expired snapshots, its consumer file is torn or the table is rolled back   *)
(* (larger versions are those committed after a rollback).                    *)
EventsArrive ==
    \A v \in 1..MaxId :
        (v \in EventsBefore(Len(log) + 1))
        ~> (v \in done \/ outcome = "outside" \/ consumer = Torn \/ rollbacks > 0)

================================================================================
