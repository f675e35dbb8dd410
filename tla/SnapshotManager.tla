---------------------------- MODULE SnapshotManager ----------------------------
(***************************************************************************)
(* The snapshot directory of a file-system table (table/                   *)
(* snapshot_manager.rs): the files snapshot-<id>, the LATEST hint, the     *)
(* lookup of the latest snapshot and commit_snapshot, one storage call per *)
(* step, run by several writers.  The REST server runs the same two calls  *)
(* for its clients.                                                        *)
(*                                                                         *)
(* A snapshot file holds a version: a number that no other attempt has.    *)
(* A hint file that is being rewritten reads as no hint, like a missing    *)
(* one (read_hint returns None), and is 0 here.                            *)
(***************************************************************************)
EXTENDS Integers, FiniteSets, FiniteSetsExt

CONSTANTS
    Writers,    \* processes that look up the latest snapshot and commit the next one
    First,      \* the oldest snapshot id at the start, the ones before it have expired
    Last,       \* the newest snapshot id at the start
    MaxId,      \* bound: snapshot ids
    MaxCommits, \* bound: calls of commit_snapshot
    MaxFaults,  \* bound: crashes, I/O errors and hints not written
    MaxLost     \* bound: renames that take effect and report an error

ASSUME SnapshotConstants ==
    /\ First \in Nat \ {0} /\ Last \in Nat /\ First <= Last + 1
    /\ MaxId \in Nat /\ Last < MaxId
    /\ MaxCommits \in Nat /\ MaxFaults \in Nat /\ MaxLost \in Nat

VARIABLES
    snaps,    \* snaps[i]: the version in snapshot-i, 0 if there is no such file
    hint,     \* the id in the LATEST file, 0 if it cannot be read
    pc,       \* pc[w]: the next storage call of w
    job,      \* job[w]: the locals of w's calls
    refused,  \* the versions commit_snapshot answered Ok(false) to
    fresh,    \* versions handed out so far
    faults,
    lost

vars == <<snaps, hint, pc, job, refused, fresh, faults, lost>>

Ids == 1..MaxId

Version == 0..(Last + MaxCommits)

Exists(i) == i \in Ids /\ snaps[i] # 0

Live == {i \in Ids : snaps[i] # 0}

Latest == IF Live = {} THEN 0 ELSE Max(Live)

Steps == {"idle", "next", "list", "get", "check", "rename", "recheck", "direct", "hint", "hinting"}

(* floor: the latest snapshot when the lookup began, for the properties only. *)
Job == [hint : 0..MaxId, floor : 0..MaxId, id : 0..MaxId, version : Version]

NoJob == [hint |-> 0, floor |-> 0, id |-> 0, version |-> 0]

TypeOK ==
    /\ snaps \in [Ids -> Version]
    /\ hint \in 0..MaxId
    /\ pc \in [Writers -> Steps]
    /\ job \in [Writers -> Job]
    /\ refused \subseteq Version
    /\ fresh \in Version
    /\ faults \in 0..MaxFaults
    /\ lost \in 0..MaxLost

(* A table with some snapshots, the hint possibly behind or missing. *)
Init ==
    /\ snaps = [i \in Ids |-> IF i \in First..Last THEN i ELSE 0]
    /\ hint \in {0} \cup First..Last
    /\ pc = [w \in Writers |-> "idle"]
    /\ job = [w \in Writers |-> NoJob]
    /\ refused = {}
    /\ fresh = Last
    /\ faults = 0
    /\ lost = 0

Goto(w, step) == pc' = [pc EXCEPT ![w] = step]

Return(w) == Goto(w, "idle") /\ job' = [job EXCEPT ![w] = NoJob]

--------------------------------------------------------------------------------
(* latest_snapshot_id_from_filesystem and get_latest_snapshot *)

ReadHint(w) ==
    /\ pc[w] = "idle"
    /\ job' = [job EXCEPT ![w] = [NoJob EXCEPT !.hint = hint, !.floor = Latest]]
    /\ Goto(w, IF hint > 0 THEN "next" ELSE "list")
    /\ UNCHANGED <<snaps, hint, refused, fresh, faults, lost>>

(* Mutation: the hint is trusted. *)
CheckNextTrusting(w) ==
    /\ pc[w] = "next"
    /\ Goto(w, "get")
    /\ job' = [job EXCEPT ![w].id = job[w].hint]
    /\ UNCHANGED <<snaps, hint, refused, fresh, faults, lost>>

(* The hint counts unless the next snapshot exists; its own file is not read. *)
CheckNext(w) ==
    /\ pc[w] = "next"
    /\ IF Exists(job[w].hint + 1)
       THEN Goto(w, "list") /\ UNCHANGED job
       ELSE Goto(w, "get") /\ job' = [job EXCEPT ![w].id = job[w].hint]
    /\ UNCHANGED <<snaps, hint, refused, fresh, faults, lost>>

(* find_by_list_files(max).  With no snapshot at all there is nothing to get. *)
ListFiles(w) ==
    /\ pc[w] = "list"
    /\ job' = [job EXCEPT ![w].id = Latest]
    /\ Goto(w, IF Latest = 0 THEN "check" ELSE "get")
    /\ UNCHANGED <<snaps, hint, refused, fresh, faults, lost>>

(* get_snapshot.  A reader stops here; a writer goes on to commit.  A missing *)
(* file is the error SnapshotNotExist.                                        *)
GetSnapshot(w) ==
    /\ pc[w] = "get"
    /\ \/ Return(w)
       \/ /\ Exists(job[w].id)
          /\ Goto(w, "check")
          /\ UNCHANGED job
    /\ UNCHANGED <<snaps, hint, refused, fresh, faults, lost>>

--------------------------------------------------------------------------------
(* commit_snapshot; the temporary file has a name no listing parses *)

Refuse(w, version) == refused' = refused \cup {version} /\ Return(w)

(* Mutation: the hint is written before the snapshot is there. *)
CheckTargetHintFirst(w) ==
    /\ pc[w] = "check"
    /\ job[w].id < MaxId
    /\ fresh < Last + MaxCommits
    /\ fresh' = fresh + 1
    /\ IF Exists(job[w].id + 1)
       THEN Refuse(w, fresh + 1) /\ UNCHANGED hint
       ELSE /\ job' = [job EXCEPT ![w].id = @ + 1, ![w].version = fresh + 1]
            /\ Goto(w, "rename")
            /\ hint' = job[w].id + 1
            /\ UNCHANGED refused
    /\ UNCHANGED <<snaps, faults, lost>>

(* Mutation: the new id is one too high. *)
CheckTargetSkipsId(w) ==
    /\ pc[w] = "check"
    /\ job[w].id + 1 < MaxId
    /\ fresh < Last + MaxCommits
    /\ fresh' = fresh + 1
    /\ IF Exists(job[w].id + 2)
       THEN Refuse(w, fresh + 1)
       ELSE /\ job' = [job EXCEPT ![w].id = @ + 2, ![w].version = fresh + 1]
            /\ Goto(w, "rename")
            /\ UNCHANGED refused
    /\ UNCHANGED <<snaps, hint, faults, lost>>

(* The temporary file is written; is the target there already? *)
CheckTarget(w) ==
    /\ pc[w] = "check"
    /\ job[w].id < MaxId
    /\ fresh < Last + MaxCommits
    /\ fresh' = fresh + 1
    /\ IF Exists(job[w].id + 1)
       THEN Refuse(w, fresh + 1)
       ELSE /\ job' = [job EXCEPT ![w].id = @ + 1, ![w].version = fresh + 1]
            /\ Goto(w, "rename")
            /\ UNCHANGED refused
    /\ UNCHANGED <<snaps, hint, faults, lost>>

(* rename replaces the target, whatever is there. *)
Rename(w) ==
    /\ pc[w] = "rename"
    /\ snaps' = [snaps EXCEPT ![job[w].id] = job[w].version]
    /\ Goto(w, "hint")
    /\ UNCHANGED <<hint, job, refused, fresh, faults, lost>>

(* Mutation: a rename that fails has copied the file all the same. *)
RenameFailsCopied(w) ==
    /\ pc[w] = "rename"
    /\ snaps' = [snaps EXCEPT ![job[w].id] = job[w].version]
    /\ Goto(w, "recheck")
    /\ UNCHANGED <<hint, job, refused, fresh, faults, lost>>

(* The backend does not support rename, or it fails: the target is looked at  *)
(* again.                                                                     *)
RenameFails(w) ==
    /\ pc[w] = "rename"
    /\ Goto(w, "recheck")
    /\ UNCHANGED <<snaps, hint, job, refused, fresh, faults, lost>>

(* The rename takes effect and reports an error, which is not told apart. *)
RenameAnswerLost(w) ==
    /\ pc[w] = "rename"
    /\ lost < MaxLost
    /\ lost' = lost + 1
    /\ snaps' = [snaps EXCEPT ![job[w].id] = job[w].version]
    /\ Goto(w, "recheck")
    /\ UNCHANGED <<hint, job, refused, fresh, faults>>

Recheck(w) ==
    /\ pc[w] = "recheck"
    /\ IF Exists(job[w].id)
       THEN Refuse(w, job[w].version)
       ELSE Goto(w, "direct") /\ UNCHANGED <<job, refused>>
    /\ UNCHANGED <<snaps, hint, fresh, faults, lost>>

WriteTarget(w) ==
    /\ pc[w] = "direct"
    /\ snaps' = [snaps EXCEPT ![job[w].id] = job[w].version]
    /\ Goto(w, "hint")
    /\ UNCHANGED <<hint, job, refused, fresh, faults, lost>>

(* write_latest_hint: the file is truncated, then it has its content. *)
BeginHint(w) ==
    /\ pc[w] = "hint"
    /\ hint' = 0
    /\ Goto(w, "hinting")
    /\ UNCHANGED <<snaps, job, refused, fresh, faults, lost>>

EndHint(w) ==
    /\ pc[w] = "hinting"
    /\ hint' = job[w].id
    /\ Return(w)
    /\ UNCHANGED <<snaps, refused, fresh, faults, lost>>

(* The hint is best effort: its error is dropped. *)
HintFails(w) ==
    /\ pc[w] \in {"hint", "hinting"}
    /\ faults < MaxFaults
    /\ faults' = faults + 1
    /\ Return(w)
    /\ UNCHANGED <<snaps, hint, refused, fresh, lost>>

(* The process dies, or a storage call fails and its error is returned. *)
Crash(w) ==
    /\ pc[w] # "idle"
    /\ faults < MaxFaults
    /\ faults' = faults + 1
    /\ Return(w)
    /\ UNCHANGED <<snaps, hint, refused, fresh, lost>>

--------------------------------------------------------------------------------

Step(w) ==
    \/ ReadHint(w)
    \/ CheckNext(w)
    \/ ListFiles(w)
    \/ GetSnapshot(w)
    \/ CheckTarget(w)
    \/ Rename(w)
    \/ RenameFails(w)
    \/ RenameAnswerLost(w)
    \/ Recheck(w)
    \/ WriteTarget(w)
    \/ BeginHint(w)
    \/ EndHint(w)
    \/ HintFails(w)
    \/ Crash(w)

Next == \E w \in Writers : Step(w)

Spec == Init /\ [][Next]_vars

--------------------------------------------------------------------------------
(* Properties *)

(* What get_latest_snapshot finds when it runs undisturbed: an id, or 0.      *)
LookupId == IF hint > 0 /\ ~Exists(hint + 1) THEN hint ELSE Latest

(* Whatever the hint says, a lookup that runs undisturbed finds the newest    *)
(* snapshot: a hint that is behind, missing, half written or written late by  *)
(* a slow committer is recognised as such.                                    *)
LookupFindsLatest == Live # {} => LookupId = Latest

(* A lookup never returns less than what was there when it began, and what it *)
(* returns exists: a commit that was acknowledged is seen by every lookup     *)
(* that begins after it, although publications move on between its steps.     *)
LookupIsFresh ==
    \A w \in Writers : pc[w] = "get" => job[w].id >= job[w].floor /\ Exists(job[w].id)

(* Snapshot ids have no gap: incremental readers go from one id to the next.  *)
NoGaps == \A i, j \in Live : \A k \in i..j : k \in Live

(* A commit that got Ok(false) is not in the table: try_commit treats false   *)
(* as a publication that did not happen ("false if another writer won the     *)
(* race", snapshot_commit.rs).  The one exception is a rename that took       *)
(* effect with an error: no more refused commits are in the table than that   *)
(* happened, whichever way the file was to be written and whoever else wrote. *)
RefusedOnlyByLostAnswer == Cardinality({i \in Ids : snaps[i] \in refused}) <= lost

================================================================================
