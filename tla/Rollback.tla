-------------------------------- MODULE Rollback -------------------------------
(***************************************************************************)
(* Rolling a file-system table back (sys.rollback_to and                   *)
(* sys.rollback_to_timestamp of integrations/datafusion/src/procedures.rs) *)
(* on the snapshot directory of module SnapshotManager, with the tags of   *)
(* table/tag_manager.rs.  One storage call per step; the process may die   *)
(* between any two of them.                                                *)
(*                                                                         *)
(* A tag file is a copy of a snapshot.  There is at most one tag per       *)
(* snapshot id, and tags are deleted by rollbacks only.  The version of a  *)
(* snapshot stands for its time_millis: each snapshot that is written has  *)
(* a later one than those before it, and a copy keeps it.                  *)
(***************************************************************************)
EXTENDS SnapshotManager

CONSTANTS
    Kinds,        \* the rollback procedures that are called
    Overlap,      \* do calls overlap, or does each begin when no other is running?
    InitialTags,  \* ids of the snapshots that have a tag at the start
    MaxRollbacks  \* bound: rollbacks

ASSUME RollbackConstants ==
    /\ Kinds \subseteq {"snapshot", "tag", "timestamp"}
    /\ Overlap \in BOOLEAN
    /\ First <= Last /\ InitialTags \subseteq 1..Last
    /\ MaxRollbacks \in Nat

VARIABLES
    tags,      \* tags[i]: the version of snapshot i that its tag holds, 0 if it has no tag
    earliest,  \* the id in the EARLIEST file, 0 if there is none
    rb,        \* the locals of the rollback
    rollbacks

rvars == <<tags, earliest, rb, rollbacks>>

NoRollback == [pc |-> "idle", kind |-> "snapshot", target |-> 0, version |-> 0, todo |-> {}]

RollbackInit ==
    /\ Init
    /\ tags = [i \in Ids |-> IF i \in InitialTags THEN i ELSE 0]
    /\ earliest \in {0, First}
    /\ rb = NoRollback
    /\ rollbacks = 0

Tagged == {i \in Ids : tags[i] # 0}

Quiet == rb.pc \in {"idle", "done"} /\ \A w \in Writers : pc[w] = "idle"

Proceed(step) == rb' = [rb EXCEPT !.pc = step]

--------------------------------------------------------------------------------
(* proc_rollback_to, proc_rollback_to_timestamp: which snapshot? *)

Start(kind, id, version) ==
    /\ kind \in Kinds
    /\ rb.pc \in {"idle", "done"}
    /\ Overlap \/ Quiet
    /\ rollbacks < MaxRollbacks
    /\ rollbacks' = rollbacks + 1
    /\ rb' = [pc |-> "hint", kind |-> kind, target |-> id, version |-> version, todo |-> {}]
    /\ UNCHANGED <<vars, tags, earliest>>

(* resolve_snapshot_by_id: the snapshot file, or a tag of that snapshot. *)
RollbackToSnapshot ==
    \E id \in Live \cup Tagged :
        Start("snapshot", id, IF Exists(id) THEN snaps[id] ELSE tags[id])

RollbackToTag == \E id \in Tagged : Start("tag", id, tags[id])

(* earlier_or_equal_time_millis, a binary search over the ids that exist: it  *)
(* ends at a snapshot of exactly that time, or at one before it with a later  *)
(* one, or none, above.  Where a tag of before was restored on top of newer   *)
(* snapshots there may be several such places.                                *)
NoneEarlier(time) == \A i \in Live : (\A j \in Live : i <= j) => snaps[i] > time

EarlierOrEqual(id, time) ==
    /\ ~NoneEarlier(time)
    /\ id \in Live /\ snaps[id] <= time
    /\ snaps[id] < time =>
           \A i \in Live : i > id /\ (\A j \in Live : j > id => i <= j) => snaps[i] > time

(* earlier_or_equal_from_all: the latest tag not after the time, unless a     *)
(* snapshot file found for it is as late.                                     *)
LatestTag(id, time) ==
    /\ id \in Tagged /\ tags[id] <= time
    /\ \A i \in Tagged : tags[i] <= time => tags[i] <= tags[id]

RollbackToTimestamp ==
    \E time \in Version :
        \/ \E id \in Live :
               /\ EarlierOrEqual(id, time)
               /\ \A i \in Tagged : tags[i] <= time => tags[i] <= snaps[id]
               /\ Start("timestamp", id, snaps[id])
        \/ \E id \in Tagged :
               /\ LatestTag(id, time)
               /\ NoneEarlier(time) \/ \E i \in Live : EarlierOrEqual(i, time) /\ snaps[i] < tags[id]
               /\ Start("timestamp", id, tags[id])

--------------------------------------------------------------------------------
(* clean_larger_than *)

BeginLatestHint ==
    /\ rb.pc = "hint"
    /\ hint' = 0
    /\ Proceed("hinting")
    /\ UNCHANGED <<snaps, pc, job, refused, fresh, faults, lost, tags, earliest, rollbacks>>

(* Mutation: the hint keeps naming the newest snapshot. *)
EndLatestHintNewest ==
    /\ rb.pc = "hinting"
    /\ hint' = Latest
    /\ Proceed("list")
    /\ UNCHANGED <<snaps, pc, job, refused, fresh, faults, lost, tags, earliest, rollbacks>>

EndLatestHint ==
    /\ rb.pc = "hinting"
    /\ hint' = rb.target
    /\ Proceed("list")
    /\ UNCHANGED <<snaps, pc, job, refused, fresh, faults, lost, tags, earliest, rollbacks>>

ListNewer ==
    /\ rb.pc = "list"
    /\ rb' = [rb EXCEPT !.pc = "delete", !.todo = {i \in Live : i > rb.target}]
    /\ UNCHANGED <<vars, tags, earliest, rollbacks>>

(* Mutation: oldest first. *)
OldestToDelete(todo) == Min(todo)

(* Newest first. *)
NextToDelete(todo) == Max(todo)

DeleteSnapshot ==
    /\ rb.pc = "delete"
    /\ rb.todo # {}
    /\ LET id == NextToDelete(rb.todo) IN
        /\ snaps' = [snaps EXCEPT ![id] = 0]
        /\ rb' = [rb EXCEPT !.todo = @ \ {id}]
    /\ UNCHANGED <<hint, pc, job, refused, fresh, faults, lost, tags, earliest, rollbacks>>

(* Mutation: tags are left alone. *)
ListNoTags ==
    /\ rb.pc = "delete"
    /\ rb.todo = {}
    /\ Proceed("untag")
    /\ UNCHANGED <<vars, tags, earliest, rollbacks>>

(* The tags of newer snapshots; they go in the order of their names, backwards, *)
(* which may be any order of their ids.                                         *)
ListNewerTags ==
    /\ rb.pc = "delete"
    /\ rb.todo = {}
    /\ rb' = [rb EXCEPT !.pc = "untag", !.todo = {i \in Tagged : i > rb.target}]
    /\ UNCHANGED <<vars, tags, earliest, rollbacks>>

DeleteTag ==
    /\ rb.pc = "untag"
    /\ \E id \in rb.todo :
        /\ tags' = [tags EXCEPT ![id] = 0]
        /\ rb' = [rb EXCEPT !.todo = @ \ {id}]
    /\ UNCHANGED <<vars, earliest, rollbacks>>

(* The timestamp procedure is done here. *)
Cleaned ==
    /\ rb.pc = "untag"
    /\ rb.todo = {}
    /\ Proceed(IF rb.kind = "timestamp" THEN "done" ELSE "exists")
    /\ UNCHANGED <<vars, tags, earliest, rollbacks>>

--------------------------------------------------------------------------------
(* Restoring a snapshot that only a tag has: commit_snapshot, whose result    *)
(* the procedure ignores, then the EARLIEST hint                              *)

(* Mutation: a snapshot that only a tag has is not restored. *)
TargetAssumed ==
    /\ rb.pc = "exists"
    /\ Proceed("done")
    /\ UNCHANGED <<vars, tags, earliest, rollbacks>>

TargetExists ==
    /\ rb.pc = "exists"
    /\ Proceed(IF Exists(rb.target) THEN "done" ELSE "check")
    /\ UNCHANGED <<vars, tags, earliest, rollbacks>>

RestoreCheck ==
    /\ rb.pc = "check"
    /\ Proceed(IF Exists(rb.target) THEN "earliest" ELSE "rename")
    /\ UNCHANGED <<vars, tags, earliest, rollbacks>>

RestoreFile ==
    /\ rb.pc = "rename"
    /\ snaps' = [snaps EXCEPT ![rb.target] = rb.version]
    /\ Proceed("restored")
    /\ UNCHANGED <<hint, pc, job, refused, fresh, faults, lost, tags, earliest, rollbacks>>

BeginRestoreHint ==
    /\ rb.pc = "restored"
    /\ hint' = 0
    /\ Proceed("rehinting")
    /\ UNCHANGED <<snaps, pc, job, refused, fresh, faults, lost, tags, earliest, rollbacks>>

EndRestoreHint ==
    /\ rb.pc = "rehinting"
    /\ hint' = rb.target
    /\ Proceed("earliest")
    /\ UNCHANGED <<snaps, pc, job, refused, fresh, faults, lost, tags, earliest, rollbacks>>

(* The hint of commit_snapshot is best effort here as well. *)
RestoreHintFails ==
    /\ rb.pc \in {"restored", "rehinting"}
    /\ Proceed("earliest")
    /\ UNCHANGED <<vars, tags, earliest, rollbacks>>

WriteEarliestHint ==
    /\ rb.pc = "earliest"
    /\ earliest' = rb.target
    /\ Proceed("done")
    /\ UNCHANGED <<vars, tags, rollbacks>>

--------------------------------------------------------------------------------

(* The process dies, or a storage call fails and the procedure stops. *)
CrashRollback ==
    /\ rb.pc \notin {"idle", "done"}
    /\ faults < MaxFaults
    /\ faults' = faults + 1
    /\ rb' = NoRollback
    /\ UNCHANGED <<snaps, hint, pc, job, refused, fresh, lost, tags, earliest, rollbacks>>

(* proc_create_tag, of a snapshot that has no tag, where tags are in use. *)
CreateTag ==
    /\ "tag" \in Kinds
    /\ Overlap \/ Quiet
    /\ \E id \in Live \ Tagged : tags' = [tags EXCEPT ![id] = snaps[id]]
    /\ UNCHANGED <<vars, earliest, rb, rollbacks>>

(* A writer's step; the rollback is no longer the last thing that happened. *)
WriterStep(w) ==
    /\ pc[w] = "idle" => Overlap \/ Quiet
    /\ Step(w)
    /\ rb' = IF rb.pc = "done" THEN NoRollback ELSE rb
    /\ UNCHANGED <<tags, earliest, rollbacks>>

RollbackNext ==
    \/ \E w \in Writers : WriterStep(w)
    \/ CreateTag
    \/ RollbackToSnapshot
    \/ RollbackToTag
    \/ RollbackToTimestamp
    \/ BeginLatestHint
    \/ EndLatestHint
    \/ ListNewer
    \/ DeleteSnapshot
    \/ ListNewerTags
    \/ DeleteTag
    \/ Cleaned
    \/ TargetExists
    \/ RestoreCheck
    \/ RestoreFile
    \/ BeginRestoreHint
    \/ EndRestoreHint
    \/ RestoreHintFails
    \/ WriteEarliestHint
    \/ CrashRollback

RollbackSpec == RollbackInit /\ [][RollbackNext]_<<vars, rvars>>

--------------------------------------------------------------------------------
(* Properties *)

(* When a rollback procedure returns, a lookup finds the id it was asked for, *)
(* whatever earlier rollbacks and commits did, those that died included; and  *)
(* it is the snapshot that was asked for.  There are two exceptions.  A time  *)
(* may resolve to a snapshot that only a tag has (TimestampReachesTarget).    *)
(* And a tag that a rollback left behind when it died may be of a snapshot    *)
(* whose id has been used again since: a rollback that resolves to such a     *)
(* tag, by its name or by its time, leaves the newer snapshot of that id.     *)
RollbackReachesTarget ==
    rb.pc = "done" /\ (rb.kind = "timestamp" => Exists(rb.target)) =>
        /\ Exists(rb.target)
        /\ LookupId = rb.target
        /\ \/ snaps[rb.target] = rb.version
           \/ rb.kind # "snapshot" /\ tags[rb.target] = rb.version /\ faults > 0

(* The snapshot that a time resolves to is the latest afterwards: "Rollback a *)
(* table to a specific timestamp" (sql.md).                                   *)
TimestampReachesTarget ==
    rb.pc = "done" /\ rb.kind = "timestamp" => snaps[rb.target] = rb.version

(* At every step of a rollback, and wherever one died, a lookup finds the     *)
(* newest snapshot or fails because the hint names a missing one: it never    *)
(* returns an older snapshot, on which a writer would commit.  The exception  *)
(* is a snapshot below a gap (GapOnlyBelowRestored): rolling back to it       *)
(* writes the hint while the snapshots above the gap are still there.  A      *)
(* missing snapshot that the hint names is one that a tag still has, so the   *)
(* rollback that left it can be repeated.                                     *)
LookupNeverStale ==
    /\ Live # {} /\ Exists(LookupId) /\ LookupId # Latest =>
           faults > 0 /\ \E i \in Live \cap Tagged : i > LookupId /\ ~Exists(i - 1)
    /\ hint # 0 /\ ~Exists(hint) => tags[hint] # 0

(* Wherever a rollback died, ids have no gap, except below a snapshot that a  *)
(* tag has: a rollback that died before it deleted the newer tags lets a      *)
(* later one restore such a tag on top of what is left.                       *)
GapOnlyBelowRestored ==
    \A i \in Live : (\E k \in Live : k < i) /\ ~Exists(i - 1) => tags[i] # 0 /\ faults > 0

EarliestId == IF Exists(earliest) THEN earliest ELSE IF Live = {} THEN 0 ELSE Min(Live)

(* When no rollback is under way or has died, nothing of the removed          *)
(* snapshots is left: the oldest snapshot is found although the EARLIEST hint *)
(* may be old, and a tag and the snapshot file of its id are the same         *)
(* snapshot.  Ids come back, below the hint when a tag is restored and above  *)
(* it when commits follow, and they meet no tag from before.                  *)
RollbackIsClean ==
    rb.pc \in {"idle", "done"} /\ faults = 0 =>
        /\ Live # {} => EarliestId = Min(Live)
        /\ \A i \in Live \cap Tagged : tags[i] = snaps[i]

================================================================================
