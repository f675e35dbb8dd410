---------------------------- MODULE DiskCacheProofs ----------------------------
(***************************************************************************)
(* Theorems about DiskCache: a hit of the persistent block store is as new *)
(* as the last invalidation that returned before the lookup began, for any *)
(* numbers of blocks, tasks, versions and faults, any sizes and any        *)
(* limits.  The index is what makes a file count: a file may stay behind   *)
(* that an invalidation could not delete, but no entry points to it, and   *)
(* the next put of its block replaces the file before it adds the entry.   *)
(* Gets and puts may run beside the purge of a path: the puts among them   *)
(* carry what storage held when the purge began, or newer content.         *)
(***************************************************************************)
EXTENDS DiskCache, TLAPS

--------------------------------------------------------------------------------
(* The inductive invariant. *)

\* The steps of the calls.
Steps ==
    {"idle", "enter", "lookup", "read", "touch", "hit", "forget", "check", "rename", "record",
     "barrier", "purge", "ack", "end"}

CallNames == {"none", "get", "put", "remove", "recover", "invalidate_path", "invalidate_prefix"}

TaskState ==
    [call : CallNames, pc : Steps, keys : SUBSET Keys,
     todo : SUBSET Keys, version : Nat \cup {Torn}, floor : [Keys -> Nat]]

Typed ==
    /\ storage \in [Keys -> Nat] /\ floor \in [Keys -> Nat] /\ acked \in [Keys -> Nat]
    /\ files \in [Keys -> Nat \cup {Torn, NoFile}]
    /\ entries \subseteq Keys /\ recovered \in BOOLEAN
    /\ late \subseteq [key : Keys, version : Nat \cup {Torn}]

\* A task runs the steps of its call, on at least one key, and a lookup or a put on one only.
Shape(s) ==
    /\ s \in TaskState
    /\ s.keys = {} \/ s.call = "none" => s = Idle
    /\ s.call \in {"get", "put"} => \A j \in s.keys, k \in s.keys : j = k
    /\ s.pc \in {"lookup", "read", "touch", "hit"} => s.call = "get"
    /\ s.pc \in {"check", "rename", "record"} => s.call = "put"
    /\ s.pc = "barrier" => s.call = "recover"
    /\ s.pc \in {"purge", "ack"} => s.call \in Invalidations

\* The file of k holds nothing older than f, or what a dropped put has left.
Sound(k, f) == files[k] \in {NoFile, Torn} \/ files[k] >= f \/ k \in landed

\* What a call relies on: a put that its content is as new as the floor, an invalidation that the
\* floor is not below its own, a get that its own is acknowledged; and, once they have looked at
\* the index or the files, that the file they found or wrote is as new.
TaskInv(s) ==
    /\ s.call = "put" => \A k \in s.keys : floor[k] <= s.version
    /\ s.call \in Invalidations => \A k \in s.keys : s.floor[k] <= floor[k]
    /\ s.call = "get" => \A k \in s.keys : s.floor[k] <= acked[k]
    /\ s.pc = "read" => \A k \in s.keys : Sound(k, s.floor[k])
    /\ s.pc = "record" => \A k \in s.keys : Sound(k, floor[k])
    /\ s.pc \in {"touch", "hit"} => \A k \in s.keys : s.version >= s.floor[k]
    /\ s.pc = "ack" => \A k \in s.keys \cap entries : Sound(k, s.floor[k])
    /\ s.pc \notin {"idle", "enter"} => recovered

Calls ==
    /\ task \in [Tasks -> TaskState]
    /\ \A t \in Tasks : Shape(task[t])

Index ==
    /\ \A k \in Keys : acked[k] <= floor[k] /\ floor[k] <= storage[k]
    /\ paths = entries
    /\ ~ recovered => entries = {} /\ \A k \in Keys : acked[k] = 0
    /\ \A k \in entries : Sound(k, acked[k])

DiskInv == Typed /\ Calls /\ Index /\ \A t \in Tasks : TaskInv(task[t])

--------------------------------------------------------------------------------
(* The task that takes a step, and the others. *)

LEMMA IdleShape == Shape(Idle) /\ TaskInv(Idle) /\ Idle.call = "none" /\ Idle.keys = {}
<1>1. Idle \in TaskState
    BY DEF TaskState, CallNames, Steps, Idle, None, Torn
<1>2. Idle.call = "none" /\ Idle.keys = {} /\ Idle.pc = "idle"
    BY DEF Idle
<1>3. Shape(Idle)
    BY <1>1, <1>2, Zenon DEF Shape
<1>4. TaskInv(Idle)
    BY <1>2 DEF TaskInv, Invalidations
<1> QED
    BY <1>2, <1>3, <1>4, Zenon

LEMMA TaskTyped ==
    ASSUME DiskInv, NEW t \in Tasks
    PROVE  task[t] \in TaskState /\ Shape(task[t]) /\ TaskInv(task[t])
BY Zenon DEF DiskInv, Calls

(* A step that belongs to every call, or the same step, leaves the shape of the task. *)
LEMMA ShapeKeeps ==
    ASSUME NEW s, Shape(s), s.keys # {}, s.call # "none",
           NEW u \in TaskState, u.call = s.call, u.keys = s.keys, u.pc = s.pc \/ u.pc = "end"
    PROVE  Shape(u)
<1>1. u.call \in {"get", "put"} => \A j \in u.keys, k \in u.keys : j = k
    BY Zenon DEF Shape
<1>2. CASE u.pc = s.pc
    BY <1>1, <1>2, Zenon DEF Shape
<1>3. CASE u.pc = "end"
    BY <1>1, <1>3, Zenon DEF Shape
<1> QED
    BY <1>2, <1>3, Zenon

LEMMA KeyIsIts ==
    ASSUME DiskInv, NEW t \in Tasks, task[t].pc # "idle"
    PROVE  KeyOf(t) \in task[t].keys /\ KeyOf(t) \in Keys /\ task[t].call # "none"
<1>1. task[t].keys # {} /\ task[t].call # "none"
    BY TaskTyped DEF Shape, Idle
<1>2. task[t].keys \subseteq Keys
    BY TaskTyped, Zenon DEF TaskState
<1> QED
    BY <1>1, <1>2, Zenon DEF KeyOf

LEMMA OneKey ==
    ASSUME DiskInv, NEW t \in Tasks, task[t].call \in {"get", "put"}
    PROVE  \A k \in task[t].keys : k = KeyOf(t)
<1>1. task[t].keys # {} => KeyOf(t) \in task[t].keys
    BY Zenon DEF KeyOf
<1> QED
    BY <1>1, TaskTyped, Zenon DEF Shape

(* The tasks, after one of them has stepped. *)
LEMMA CallsKept ==
    ASSUME DiskInv, NEW t \in Tasks, NEW s, task' = [task EXCEPT ![t] = s], Shape(s)
    PROVE  Calls'
<1>1. s \in TaskState /\ task \in [Tasks -> TaskState] /\ \A x \in Tasks : Shape(task[x])
    BY Zenon DEF DiskInv, Calls, Shape
<1>2. /\ task' \in [Tasks -> TaskState] /\ task'[t] = s
      /\ \A x \in Tasks : x # t => task'[x] = task[x]
    BY <1>1, Zenon
<1>3. \A x \in Tasks : Shape(task'[x])
    BY <1>1, <1>2, Zenon
<1> QED
    BY <1>2, <1>3, Zenon DEF Calls

(* A step that changes nothing but the task. *)
LEMMA TaskOnly ==
    ASSUME DiskInv, NEW t \in Tasks, NEW s, task' = [task EXCEPT ![t] = s], Shape(s),
           TaskInv(s),
           UNCHANGED <<storage, floor, acked, files, entries, paths, recovered, landed>>,
           late' \subseteq [key : Keys, version : Nat \cup {Torn}]
    PROVE  DiskInv'
<1>1. Calls'
    BY CallsKept, Zenon
<1>2. Typed' /\ Index'
    BY Zenon DEF DiskInv, Typed, Index, Sound
<1>3. \A x \in Tasks : TaskInv(task'[x])
    BY DEF DiskInv, Calls
<1>4. \A x \in Tasks : TaskInv(task[x])'
    BY <1>3, Zenon DEF TaskInv, Sound
<1> QED
    BY <1>1, <1>2, <1>4, Zenon DEF DiskInv

(* Settled ends a call or lets it go on. *)
LEMMA TaskOnlySet ==
    ASSUME DiskInv, NEW t \in Tasks, NEW s, Set(t, s), Shape(s),
           TaskInv(s),
           UNCHANGED <<storage, floor, acked, files, entries, paths, recovered, landed>>,
           late' \subseteq [key : Keys, version : Nat \cup {Torn}]
    PROVE  DiskInv'
<1>1. CASE Settled(s) = s
    BY <1>1, TaskOnly, Zenon DEF Set
<1>2. CASE Settled(s) = Idle
    BY <1>2, TaskOnly, IdleShape, Zenon DEF Set
<1> QED
    BY <1>1, <1>2 DEF Settled

LEMMA GotoStep ==
    ASSUME DiskInv, NEW t \in Tasks, task[t].pc # "idle", NEW pc \in Steps, Goto(t, pc),
           pc \in {"lookup", "read", "touch", "hit"} => task[t].call = "get",
           pc \in {"check", "rename", "record"} => task[t].call = "put",
           pc \notin {"barrier", "purge", "ack", "idle", "touch", "hit", "record"}, recovered,
           pc = "read" => \A k \in task[t].keys : Sound(k, task[t].floor[k]),
           UNCHANGED <<storage, floor, acked, files, entries, paths, recovered, landed, late>>
    PROVE  DiskInv'
<1> DEFINE s == [task[t] EXCEPT !.pc = pc]
<1>1. /\ s \in TaskState /\ s.call = task[t].call /\ s.keys = task[t].keys /\ s.pc = pc
      /\ s.version = task[t].version /\ s.floor = task[t].floor
      /\ task[t].keys # {} /\ task[t].call # "none"
    BY TaskTyped DEF TaskState, Shape, Idle
<1>2. Set(t, s)
    BY Zenon DEF Goto
<1> HIDE DEF s
<1>3. Shape(s)
    BY <1>1, TaskTyped, ZenonT(30) DEF Shape
<1>4. TaskInv(s)
    BY <1>1, TaskTyped, Zenon DEF TaskInv
<1>5. late' \subseteq [key : Keys, version : Nat \cup {Torn}]
    BY DEF DiskInv, Typed
<1> QED
    BY <1>1, <1>2, <1>3, <1>4, <1>5, TaskOnlySet, ZenonT(30)

--------------------------------------------------------------------------------
(* The steps that change no file and no entry. *)

(* A file that is new enough for f is so for what is not above f. *)
LEMMA SoundBelow ==
    ASSUME DiskInv, NEW t \in Tasks, NEW k \in Keys, task[t].floor[k] <= acked[k],
           Sound(k, acked[k])
    PROVE  Sound(k, task[t].floor[k])
<1>1. task[t].floor[k] \in Nat /\ acked[k] \in Nat /\ files[k] \in Nat \cup {Torn, NoFile}
    BY TaskTyped DEF DiskInv, Typed, TaskState
<1> QED
    BY <1>1 DEF Sound, Torn, NoFile

LEMMA LookupStep ==
    ASSUME DiskInv, NEW t \in Tasks, Lookup(t)
    PROVE  DiskInv'
<1>1. /\ task[t].pc = "lookup" /\ task[t].call = "get" /\ recovered
      /\ UNCHANGED <<storage, floor, acked, files, entries, paths, recovered, landed, late>>
      /\ Goto(t, IF IsActive(KeyOf(t)) THEN "read" ELSE "end")
    BY TaskTyped, Zenon DEF Lookup, At, Shape, TaskInv, world, disk, index, dropped
<1>2. KeyOf(t) \in task[t].keys
    BY <1>1, KeyIsIts, Zenon
<1>3. CASE ~ IsActive(KeyOf(t))
    <2>1. Goto(t, "end")
        BY <1>1, <1>3, Zenon
    <2> QED
        BY <1>1, <2>1, GotoStep, Zenon DEF Steps
<1>4. CASE IsActive(KeyOf(t))
    <2>1. Goto(t, "read")
        BY <1>1, <1>4, Zenon
    <2>2. \A k \in task[t].keys : Sound(k, task[t].floor[k])
        <3>1. Sound(KeyOf(t), acked[KeyOf(t)])
            BY <1>4, Zenon DEF DiskInv, Index, IsActive
        <3>2. Sound(KeyOf(t), task[t].floor[KeyOf(t)])
            BY <1>1, <1>2, <3>1, SoundBelow, TaskTyped, KeyIsIts DEF TaskInv
        <3> QED
            BY <1>1, <3>2, OneKey, Zenon
    <2> QED
        BY <1>1, <2>1, <2>2, GotoStep, Zenon DEF Steps
<1> QED
    BY <1>3, <1>4, Zenon

LEMMA ReadFileStep ==
    ASSUME DiskInv, NEW t \in Tasks, ReadFile(t)
    PROVE  DiskInv'
<1> DEFINE k == KeyOf(t)
           v == files[k]
           f == IF k \in landed THEN None ELSE task[t].floor
           s == [task[t] EXCEPT !.pc = IF v = Torn THEN "forget" ELSE "touch", !.version = v,
                                !.floor = f]
<1>1. /\ task[t].pc = "read" /\ task[t].call = "get" /\ recovered
      /\ UNCHANGED <<storage, floor, acked, files, entries, paths, recovered, landed, late>>
      /\ Goto(t, "forget") \/ Goto(t, "end") \/ (v # NoFile /\ Set(t, s))
      /\ \A x \in task[t].keys : Sound(x, task[t].floor[x]) /\ task[t].floor[x] <= acked[x]
    BY TaskTyped, Zenon DEF ReadFile, At, Shape, TaskInv, HasFile, world, disk, index, dropped
<1>2. k \in task[t].keys /\ k \in Keys /\ \A x \in task[t].keys : x = k
    BY <1>1, KeyIsIts, OneKey, Zenon
<1>3. CASE Goto(t, "forget") \/ Goto(t, "end")
    BY <1>1, <1>3, GotoStep, Zenon DEF Steps
<1>4. CASE v # NoFile /\ Set(t, s)
    <2>1. v \in Nat \cup {Torn} /\ acked[k] \in Nat /\ task[t].floor \in [Keys -> Nat]
        <3>0. acked \in [Keys -> Nat] /\ files \in [Keys -> Nat \cup {Torn, NoFile}]
            BY Zenon DEF DiskInv, Typed
        <3>1. v \in Nat \cup {Torn} /\ acked[k] \in Nat
            BY <1>2, <1>4, <3>0
        <3>2. task[t].floor \in [Keys -> Nat]
            BY TaskTyped DEF TaskState
        <3> QED
            BY <3>1, <3>2, Zenon
    <2>2. /\ f \in [Keys -> Nat] /\ f[k] <= acked[k]
          /\ v # Torn => v >= f[k]
        <3>1. CASE k \in landed
            BY <1>2, <2>1, <3>1 DEF None
        <3>2. CASE k \notin landed
            BY <1>1, <1>2, <1>4, <2>1, <3>2 DEF Sound
        <3> QED
            BY <3>1, <3>2, Zenon
    <2> HIDE DEF f
    <2>3. /\ s \in TaskState /\ s.call = "get" /\ s.keys = task[t].keys /\ s.version = v
          /\ s.pc = (IF v = Torn THEN "forget" ELSE "touch") /\ s.floor = f
        BY <1>1, <2>1, <2>2, TaskTyped, Zenon DEF TaskState, Steps
    <2> HIDE DEF s, k, v
    <2>4. Shape(s)
        BY <1>2, <2>3 DEF Shape
    <2>5. TaskInv(s)
        BY <1>1, <1>2, <2>2, <2>3 DEF TaskInv, Invalidations
    <2>6. late' \subseteq [key : Keys, version : Nat \cup {Torn}]
        BY <1>1, Zenon DEF DiskInv, Typed
    <2> QED
        BY <1>1, <1>4, <2>4, <2>5, <2>6, TaskOnlySet, ZenonT(30)
<1> QED
    BY <1>1, <1>3, <1>4, Zenon

LEMMA TouchEntryStep ==
    ASSUME DiskInv, NEW t \in Tasks, TouchEntry(t)
    PROVE  DiskInv'
<1> DEFINE s == [task[t] EXCEPT !.pc = "hit"]
<1>1. /\ task[t].pc = "touch" /\ task[t].call = "get" /\ recovered
      /\ UNCHANGED <<storage, floor, acked, files, entries, paths, recovered, landed, late>>
      /\ Goto(t, "hit") \/ Goto(t, "end")
    BY TaskTyped, Zenon DEF TouchEntry, At, Shape, TaskInv, world, disk, dropped
<1>2. CASE Goto(t, "end")
    BY <1>1, <1>2, GotoStep, Zenon DEF Steps
<1>3. CASE Goto(t, "hit")
    <2>1. Set(t, s)
        BY <1>3, Zenon DEF Goto
    <2>2. /\ s \in TaskState /\ s.call = task[t].call /\ s.keys = task[t].keys
          /\ s.version = task[t].version /\ s.pc = "hit" /\ s.floor = task[t].floor
          /\ task[t].keys # {}
        BY <1>1, TaskTyped DEF TaskState, Steps, Shape, Idle
    <2> HIDE DEF s
    <2>3. Shape(s)
        BY <1>1, <2>2, TaskTyped, Zenon DEF Shape
    <2>4. TaskInv(s)
        BY <1>1, <2>2, TaskTyped, Zenon DEF TaskInv
    <2>5. late' \subseteq [key : Keys, version : Nat \cup {Torn}]
        BY <1>1, Zenon DEF DiskInv, Typed
    <2> QED
        BY <1>1, <2>1, <2>2, <2>3, <2>4, <2>5, TaskOnlySet, ZenonT(30)
<1> QED
    BY <1>1, <1>2, <1>3, Zenon

LEMMA CheckSizeStep ==
    ASSUME DiskInv, NEW t \in Tasks, CheckSize(t) \/ PutFails(t)
    PROVE  DiskInv'
<1>1. /\ task[t].pc \in {"check", "rename"} /\ task[t].call = "put" /\ recovered
      /\ UNCHANGED <<storage, floor, acked, files, entries, paths, recovered, landed, late>>
      /\ Goto(t, "end") \/ Goto(t, "rename")
    BY TaskTyped, Zenon DEF CheckSize, PutFails, At, Shape, TaskInv, world, disk, index, dropped
<1> QED
    BY <1>1, GotoStep, Zenon DEF Steps

(* The end of a call; a rename under way is still to happen. *)
LEMMA EndStep ==
    ASSUME DiskInv, NEW t \in Tasks, Hit(t) \/ Cancel(t)
    PROVE  DiskInv'
<1> DEFINE f == [key |-> KeyOf(t), version |-> task[t].version]
<1>1. /\ task[t] # Idle /\ Set(t, Idle) /\ (late' = late \/ late' = late \cup {f})
      /\ UNCHANGED <<storage, floor, acked, files, entries, paths, recovered, landed>>
    BY DEF Hit, Cancel, At, Idle, world, disk, index, dropped
<1>2. KeyOf(t) \in Keys
    <2>1. task[t].keys # {} /\ task[t].keys \subseteq Keys
        BY <1>1, TaskTyped, Zenon DEF Shape, TaskState
    <2> QED
        BY <2>1, Zenon DEF KeyOf
<1>3. task[t].version \in Nat \cup {Torn}
    BY TaskTyped, Zenon DEF TaskState
<1>4. late' \subseteq [key : Keys, version : Nat \cup {Torn}]
    BY <1>1, <1>2, <1>3 DEF DiskInv, Typed
<1> QED
    BY <1>1, <1>4, TaskOnlySet, IdleShape, Zenon

--------------------------------------------------------------------------------
(* The steps that change the index. *)

(* What a step may do to the index: remove entries, and add the one of a put that has written *)
(* its file, which is as new as every invalidation of its block that has its gate.            *)
LEMMA IndexChange ==
    ASSUME DiskInv, NEW t \in Tasks, NEW s, Set(t, s), Shape(s),
           s.call = task[t].call, s.keys = task[t].keys, s.version = task[t].version,
           s.floor = task[t].floor, s.pc \notin {"read", "record", "touch", "hit"},
           s.pc = "ack" => s.keys \cap entries' = {},
           UNCHANGED <<storage, floor, acked, files, recovered, landed, late>>, recovered,
           paths' = entries', entries' \subseteq Keys,
           \A k \in entries' : k \in entries \/ (task[t].pc = "record" /\ k \in task[t].keys)
    PROVE  DiskInv'
<1> DEFINE u == Settled(s)
<1>1. u = s \/ u = Idle
    BY Zenon DEF Settled
<1>2. task' = [task EXCEPT ![t] = u] /\ Shape(u) /\ TaskInv(u)'
    <2>1. CASE u = s
        <3>1. TaskInv(s)'
            BY TaskTyped, Zenon DEF TaskInv
        <3> QED
            BY <2>1, <3>1, Zenon DEF Set
    <2>2. CASE u = Idle
        <3>1. TaskInv(Idle)'
            BY IdleShape DEF TaskInv, Idle, Invalidations
        <3> QED
            BY <2>2, <3>1, IdleShape, Zenon DEF Set
    <2> QED
        BY <1>1, <2>1, <2>2, Zenon
<1> HIDE DEF u
<1>3. Calls'
    BY <1>2, CallsKept, Zenon
<1>4. Typed'
    BY Zenon DEF DiskInv, Typed
<1>5. \A k \in entries' : k \in entries \/ Sound(k, floor[k])
    BY TaskTyped, Zenon DEF TaskInv
<1>6. ASSUME NEW k \in Keys, NEW f \in Nat, f <= floor[k], Sound(k, floor[k])
      PROVE  Sound(k, f)
    <2>1. floor[k] \in Nat /\ files[k] \in Nat \cup {Torn, NoFile}
        BY DEF DiskInv, Typed
    <2> QED
        BY <1>6, <2>1 DEF Sound, Torn, NoFile
<1>7. Index'
    <2>1. ASSUME NEW k \in entries' PROVE Sound(k, acked[k])
        <3>1. k \in Keys /\ acked[k] \in Nat /\ acked[k] <= floor[k]
            BY Zenon DEF DiskInv, Typed, Index
        <3> QED
            BY <1>5, <1>6, <3>1, Zenon DEF DiskInv, Index
    <2> QED
        BY <2>1, Zenon DEF DiskInv, Index, Sound
<1>8. ASSUME NEW x \in Tasks, x # t PROVE TaskInv(task[x])'
    <2>1. task'[x] = task[x] /\ TaskInv(task[x]) /\ Shape(task[x])
        BY <1>2, <1>8, TaskTyped, Zenon DEF DiskInv, Calls
    <2>2. ASSUME task[x].pc = "ack", NEW k \in task[x].keys \cap entries'
          PROVE  Sound(k, task[x].floor[k])
        <3>1. k \in Keys /\ task[x].floor[k] \in Nat
            BY TaskTyped, Zenon DEF TaskState
        <3>2. task[x].floor[k] <= floor[k]
            BY <2>1, <2>2, Zenon DEF Shape, TaskInv
        <3>3. k \in entries => Sound(k, task[x].floor[k])
            BY <2>1, <2>2, Zenon DEF TaskInv
        <3> QED
            BY <1>5, <1>6, <3>1, <3>2, <3>3, Zenon
    <2> QED
        BY <2>1, <2>2, Zenon DEF TaskInv, Sound
<1>9. TaskInv(task[t])'
    <2>1. task'[t] = u
        BY <1>2, Zenon DEF DiskInv, Calls
    <2> QED
        BY <1>2, <2>1, Zenon DEF TaskInv, Sound
<1> QED
    BY <1>3, <1>4, <1>7, <1>8, <1>9, Zenon DEF DiskInv

LEMMA EnterStep ==
    ASSUME DiskInv, NEW t \in Tasks, Enter(t)
    PROVE  DiskInv'
<1> DEFINE pc == CASE task[t].call = "get" -> "lookup"
                   [] task[t].call = "put" -> "check"
                   [] task[t].call = "remove" -> "forget"
                   [] task[t].call = "recover" -> "barrier"
                   [] task[t].call \in Invalidations -> "purge"
           cut == Evictions(order, used)
           evicted == {k \in entries \cup {} : \E i \in 1..cut : order[i] = k}
           s == [task[t] EXCEPT !.pc = pc, !.todo = evicted]
<1>1. /\ recovered /\ task[t].pc = "enter"
      /\ UNCHANGED <<storage, floor, acked, files, recovered, landed, late>>
      /\ CutTo(t, {}, order, used, cut, pc)
    BY Zenon DEF Enter, EvictTo, At, world, disk, dropped
<1>2. /\ entries' = (entries \cup {}) \ evicted /\ paths' = (paths \cup {}) \ evicted
      /\ Set(t, s)
    BY <1>1, Zenon DEF CutTo
<1> HIDE DEF cut
<1>3. evicted \subseteq entries /\ evicted \subseteq Keys
    BY DEF DiskInv, Typed
<1> HIDE DEF evicted
<1>4. /\ task[t].call \in CallNames \ {"none"}
      /\ task[t].keys # {} /\ task[t] \in TaskState
    BY <1>1, TaskTyped DEF Shape, Idle, TaskState
<1>5. /\ pc \in Steps
      /\ pc = "lookup" => task[t].call = "get"
      /\ pc = "check" => task[t].call = "put"
      /\ pc = "barrier" => task[t].call = "recover"
      /\ pc = "purge" => task[t].call \in Invalidations
      /\ pc \in {"lookup", "check", "forget", "barrier", "purge"}
    BY <1>4 DEF Steps, CallNames, Invalidations
<1> HIDE DEF pc
<1>6. /\ s \in TaskState /\ s.call = task[t].call /\ s.keys = task[t].keys /\ s.pc = pc
      /\ s.version = task[t].version /\ s.floor = task[t].floor
    BY <1>3, <1>4, <1>5, ZenonT(30) DEF TaskState
<1> HIDE DEF s
<1>7. Shape(s)
    BY <1>4, <1>5, <1>6, TaskTyped DEF Shape
<1>8. entries' \subseteq entries /\ entries' \subseteq Keys /\ paths' = entries'
    BY <1>2 DEF DiskInv, Typed, Index
<1> QED
    BY <1>1, <1>2, <1>5, <1>6, <1>7, <1>8, IndexChange, ZenonT(30)

LEMMA RecordEntryStep ==
    ASSUME DiskInv, NEW t \in Tasks, RecordEntry(t)
    PROVE  DiskInv'
<1> DEFINE k == KeyOf(t)
           es == Refreshed(order, k)
           n == IF IsActive(k) THEN used ELSE used + Size[k]
           cut == Evictions(es, n)
           evicted == {x \in entries \cup {k} : \E i \in 1..cut : es[i] = x}
           s == [task[t] EXCEPT !.pc = "end", !.todo = evicted]
<1>1. /\ task[t].pc = "record"
      /\ UNCHANGED <<storage, floor, acked, files, recovered, landed, late>>
      /\ CutTo(t, {k}, es, n, cut, "end")
    BY Zenon DEF RecordEntry, EvictTo, At, world, disk, dropped
<1>2. /\ entries' = (entries \cup {k}) \ evicted /\ paths' = (paths \cup {k}) \ evicted
      /\ Set(t, s)
    BY <1>1, Zenon DEF CutTo
<1> HIDE DEF cut, n, es
<1>3. k \in task[t].keys /\ k \in Keys /\ recovered /\ task[t].call # "none"
    BY <1>1, KeyIsIts, TaskTyped, Zenon DEF TaskInv
<1>4. evicted \subseteq Keys
    BY <1>3, Zenon DEF DiskInv, Typed
<1> HIDE DEF evicted, k
<1>6. /\ s \in TaskState /\ s.call = task[t].call /\ s.keys = task[t].keys /\ s.pc = "end"
      /\ s.version = task[t].version /\ s.floor = task[t].floor
    BY <1>4, TaskTyped, Zenon DEF TaskState, Steps
<1> HIDE DEF s
<1>7. Shape(s)
    BY <1>3, <1>6, TaskTyped DEF Shape
<1>8. /\ \A x \in entries' : x \in entries \/ x \in task[t].keys
      /\ entries' \subseteq Keys /\ paths' = entries'
    BY <1>2, <1>3 DEF DiskInv, Typed, Index
<1> QED
    BY <1>1, <1>2, <1>3, <1>6, <1>7, <1>8, IndexChange, ZenonT(30)

LEMMA ForgetEntryStep ==
    ASSUME DiskInv, NEW t \in Tasks, ForgetEntry(t)
    PROVE  DiskInv'
<1> DEFINE k == KeyOf(t)
           todo == IF task[t].call = "remove" \/ task[t].version = Torn THEN {k} ELSE {}
           s == [task[t] EXCEPT !.pc = "end", !.todo = todo]
<1>1. /\ task[t].pc = "forget" /\ recovered
      /\ UNCHANGED <<storage, floor, acked, files, recovered, landed, late>>
      /\ ForgetEntries({k}) /\ Set(t, s)
    BY TaskTyped, Zenon DEF ForgetEntry, At, TaskInv, world, disk, dropped
<1>2. k \in task[t].keys /\ k \in Keys /\ task[t].call # "none"
    BY <1>1, KeyIsIts, Zenon
<1>3. todo \subseteq Keys
    BY <1>2, Zenon
<1>4. entries' = entries \ {k} /\ paths' = paths \ ({k} \cap entries)
    BY <1>1, Zenon DEF ForgetEntries
<1> HIDE DEF todo, k
<1>6. /\ s \in TaskState /\ s.call = task[t].call /\ s.keys = task[t].keys /\ s.pc = "end"
      /\ s.version = task[t].version /\ s.floor = task[t].floor
    <2>1. task[t] \in TaskState /\ "end" \in Steps
        BY TaskTyped, Zenon DEF Steps
    <2> QED
        BY <1>3, <2>1, Zenon DEF TaskState
<1> HIDE DEF s
<1>7. Shape(s)
    <2>1. Shape(task[t]) /\ task[t].keys # {} /\ task[t].call # "none"
        BY <1>2, TaskTyped, Zenon
    <2> QED
        BY <1>6, <2>1, ShapeKeeps, Zenon
<1>8. entries' \subseteq entries /\ entries' \subseteq Keys /\ paths' = entries'
    BY <1>4, Zenon DEF DiskInv, Typed, Index
<1> QED
    BY <1>1, <1>6, <1>7, <1>8, IndexChange, ZenonT(30)

(* The index by path holds every entry, so that an invalidation leaves none behind. *)
LEMMA PurgeStep ==
    ASSUME DiskInv, NEW t \in Tasks, Purge(t)
    PROVE  DiskInv'
<1> DEFINE ks == task[t].keys
           s == [task[t] EXCEPT !.pc = "ack", !.todo = ks \cap paths]
<1>1. /\ task[t].pc = "purge" /\ task[t].call \in Invalidations /\ recovered
      /\ UNCHANGED <<storage, floor, acked, files, recovered, landed, late>>
      /\ ForgetEntries(ks \cap paths) /\ Set(t, s)
    BY TaskTyped, Zenon DEF Purge, At, TaskInv, Shape, world, disk, dropped
<1>2. ks # {} /\ ks \subseteq Keys
    BY <1>1, TaskTyped DEF Shape, Idle, TaskState
<1>4. entries' = entries \ (ks \cap paths) /\ paths' = paths \ ((ks \cap paths) \cap entries)
    BY <1>1, Zenon DEF ForgetEntries
<1>6. /\ s \in TaskState /\ s.call = task[t].call /\ s.keys = ks /\ s.pc = "ack"
      /\ s.version = task[t].version /\ s.floor = task[t].floor
    BY <1>2, TaskTyped, Zenon DEF TaskState, Steps
<1> HIDE DEF s
<1>7. Shape(s)
    BY <1>1, <1>2, <1>6, TaskTyped DEF Shape, Invalidations
<1>8. /\ entries' \subseteq entries /\ entries' \subseteq Keys /\ paths' = entries'
      /\ ks \cap entries' = {}
    BY <1>4 DEF DiskInv, Typed, Index
<1> QED
    BY <1>1, <1>6, <1>7, <1>8, IndexChange, ZenonT(30)

--------------------------------------------------------------------------------
(* The steps that change the files. *)

(* What a step may do to the files: any file it changes is gone, as new as the floor, or that *)
(* of a put that was dropped.                                                                 *)
LEMMA FileChange ==
    ASSUME DiskInv, UNCHANGED <<storage, floor, acked, entries, paths, recovered>>,
           files' \in [Keys -> Nat \cup {Torn, NoFile}], late' \subseteq late,
           \A k \in Keys :
               \/ files'[k] = files[k] /\ (k \in landed => k \in landed')
               \/ files'[k] = NoFile \/ files'[k] >= floor[k] \/ k \in landed'
    PROVE  /\ Typed' /\ Index'
           /\ \A s : Shape(s) /\ TaskInv(s) => TaskInv(s)'
<1>1. ASSUME NEW k \in Keys, NEW f \in Nat, f <= floor[k], Sound(k, f) PROVE Sound(k, f)'
    <2>1. /\ floor[k] \in Nat /\ files[k] \in Nat \cup {Torn, NoFile}
          /\ files'[k] \in Nat \cup {Torn, NoFile}
        BY Zenon DEF DiskInv, Typed
    <2>2. CASE files'[k] = files[k] /\ (k \in landed => k \in landed')
        BY <1>1, <2>2, Zenon DEF Sound
    <2>3. CASE files'[k] = NoFile \/ k \in landed'
        BY <2>3, Zenon DEF Sound
    <2>4. CASE files'[k] >= floor[k]
        <3>1. files'[k] \in {NoFile, Torn} \/ files'[k] >= f
            BY <1>1, <2>1, <2>4
        <3> QED
            BY <3>1, Zenon DEF Sound
    <2> QED
        BY <2>2, <2>3, <2>4, Zenon
<1>2. Typed'
    BY Zenon DEF DiskInv, Typed
<1>3. \A k \in Keys : acked[k] \in Nat /\ acked[k] <= floor[k] /\ floor[k] \in Nat
    BY Zenon DEF DiskInv, Typed, Index
<1>4. Index'
    BY <1>1, <1>3, Zenon DEF DiskInv, Typed, Index
<1>5. ASSUME NEW s, Shape(s), TaskInv(s) PROVE TaskInv(s)'
    <2>1. s.keys \subseteq Keys /\ \A k \in s.keys : s.floor[k] \in Nat
        BY <1>5, Zenon DEF Shape, TaskState
    <2>2. ASSUME s.pc \in {"read", "ack"}, NEW k \in s.keys PROVE s.floor[k] <= floor[k]
        <3>1. s.call = "get" \/ s.call \in Invalidations
            BY <1>5, <2>2, Zenon DEF Shape
        <3>2. CASE s.call = "get"
            BY <1>3, <1>5, <2>1, <3>2 DEF TaskInv
        <3>3. CASE s.call \in Invalidations
            BY <1>5, <3>3, Zenon DEF TaskInv
        <3> QED
            BY <3>1, <3>2, <3>3, Zenon
    <2>3. /\ s.pc = "read" => \A k \in s.keys : Sound(k, s.floor[k])'
          /\ s.pc = "ack" => \A k \in s.keys \cap entries : Sound(k, s.floor[k])'
        BY <1>1, <1>5, <2>1, <2>2, Zenon DEF TaskInv
    <2>4. s.pc = "record" => \A k \in s.keys : Sound(k, floor[k])'
        <3> SUFFICES ASSUME s.pc = "record", NEW k \in s.keys PROVE Sound(k, floor[k])'
            BY Zenon
        <3>1. Sound(k, floor[k]) /\ k \in Keys /\ floor[k] \in Nat
            BY <1>3, <1>5, <2>1, Zenon DEF TaskInv
        <3>2. PICK f : f = floor[k]
            BY Zenon
        <3>3. f <= floor[k]
            BY <3>1, <3>2
        <3>4. Sound(k, f)'
            BY <1>1, <3>1, <3>2, <3>3, Zenon
        <3> QED
            BY <3>2, <3>4, Zenon DEF Sound
    <2> QED
        BY <1>5, <2>3, <2>4, Zenon DEF TaskInv, Sound
<1> QED
    BY <1>2, <1>4, <1>5, ZenonT(30)

(* The tasks after one of them has stepped. *)
LEMMA TasksKept ==
    ASSUME DiskInv, NEW t \in Tasks, NEW s, task' = [task EXCEPT ![t] = s], TaskInv(s)',
           \A x : Shape(x) /\ TaskInv(x) => TaskInv(x)'
    PROVE  \A x \in Tasks : TaskInv(task[x])'
<1> SUFFICES ASSUME NEW x \in Tasks PROVE TaskInv(task[x])'
    BY Zenon
<1>1. PICK o : o = task'[x]
    BY Zenon
<1>2. o = s \/ o = task[x]
    BY <1>1, Zenon DEF DiskInv, Calls
<1>3. TaskInv(o)'
    BY <1>2, TaskTyped, Zenon
<1> QED
    BY <1>1, <1>3, Zenon DEF TaskInv, Sound

LEMMA DeleteFileStep ==
    ASSUME DiskInv, NEW t \in Tasks, DeleteFile(t)
    PROVE  DiskInv'
<1>1. PICK k \in task[t].todo :
          /\ \/ files' = [files EXCEPT ![k] = NoFile] /\ landed' = landed \ {k}
             \/ files' = files /\ landed' = landed
          /\ Set(t, [task[t] EXCEPT !.todo = @ \ {k}])
          /\ UNCHANGED <<storage, floor, acked, entries, paths, recovered, late>>
    BY Zenon DEF DeleteFile, RemoveFile, world, disk, index, dropped
<1> DEFINE e == [task[t] EXCEPT !.todo = task[t].todo \ {k}]
<1>2. PICK s : s = Settled(e)
    OBVIOUS
<1>3. task' = [task EXCEPT ![t] = s]
    BY <1>1, <1>2 DEF Set
<1>4. /\ e \in TaskState /\ e.call = task[t].call /\ e.keys = task[t].keys /\ e.pc = task[t].pc
      /\ e.version = task[t].version /\ e.floor = task[t].floor
    BY TaskTyped, Zenon DEF TaskState
<1>5. task[t].keys # {} /\ task[t].call # "none"
    BY <1>1, TaskTyped DEF Shape, Idle
<1> HIDE DEF e
<1>6. Shape(e) /\ TaskInv(e)
    <2>1. Shape(task[t]) /\ TaskInv(task[t])
        BY TaskTyped, Zenon
    <2>2. Shape(e)
        BY <1>4, <1>5, <2>1, ShapeKeeps, Zenon
    <2>3. TaskInv(e)
        BY <1>4, <2>1, Zenon DEF TaskInv
    <2> QED
        BY <2>2, <2>3, Zenon
<1>7. Shape(s) /\ TaskInv(s)
    BY <1>2, <1>6, IdleShape, ZenonT(30) DEF Settled
<1>8. Calls'
    BY <1>3, <1>7, CallsKept, Zenon
<1>9. k \in Keys /\ files \in [Keys -> Nat \cup {Torn, NoFile}]
    BY <1>1, TaskTyped DEF TaskState, DiskInv, Typed
<1>10. /\ files' \in [Keys -> Nat \cup {Torn, NoFile}]
       /\ \A x \in Keys : \/ files'[x] = files[x] /\ (x \in landed => x \in landed')
                         \/ files'[x] = NoFile
    BY <1>1, <1>9
<1>11. /\ Typed' /\ Index'
       /\ \A x : Shape(x) /\ TaskInv(x) => TaskInv(x)'
    BY <1>1, <1>10, FileChange, ZenonT(30)
<1>12. \A x \in Tasks : TaskInv(task[x])'
    BY <1>3, <1>7, <1>11, TasksKept, ZenonT(30)
<1> QED
    BY <1>8, <1>11, <1>12, Zenon DEF DiskInv

LEMMA RenameFileStep ==
    ASSUME DiskInv, NEW t \in Tasks, RenameFile(t)
    PROVE  DiskInv'
<1>0. PICK k : k = KeyOf(t)
    BY Zenon
<1> DEFINE v == task[t].version
           e == [task[t] EXCEPT !.pc = "record"]
<1>1. /\ task[t].pc = "rename" /\ task[t].call = "put" /\ recovered
      /\ files' = [files EXCEPT ![k] = v] /\ Set(t, e)
      /\ landed' = landed \ {k}
      /\ UNCHANGED <<storage, floor, acked, entries, paths, recovered, late>>
    BY <1>0, TaskTyped, Zenon DEF RenameFile, At, Shape, TaskInv, WriteFile, Goto, world, disk, index, dropped
<1>2. /\ k \in task[t].keys /\ k \in Keys
      /\ v \in Nat \cup {Torn} /\ floor[k] <= v /\ \A x \in task[t].keys : x = k
    BY <1>0, <1>1, KeyIsIts, OneKey, TaskTyped, ZenonT(30) DEF TaskInv, TaskState
<1>3. floor[k] \in Nat
    BY <1>2, Zenon DEF DiskInv, Typed
<1>4. v \in Nat /\ v >= floor[k]
    BY <1>2, <1>3 DEF Torn
<1>5. /\ e \in TaskState /\ e.call = "put" /\ e.keys = task[t].keys /\ e.pc = "record"
      /\ e.version = v
    BY <1>1, TaskTyped, Zenon DEF TaskState, Steps
<1> HIDE DEF v
<1>6. PICK s : s = e
    BY Zenon
<1> HIDE DEF e
<1>7. task' = [task EXCEPT ![t] = s]
    BY <1>1, <1>5, <1>6 DEF Set, Settled
<1>8. Shape(s)
    BY <1>2, <1>5, <1>6 DEF Shape
<1>9. Calls'
    BY <1>7, <1>8, CallsKept, ZenonT(30)
<1>10. /\ files' \in [Keys -> Nat \cup {Torn, NoFile}] /\ files'[k] = v
       /\ \A x \in Keys : x # k => files'[x] = files[x] /\ (x \in landed => x \in landed')
    BY <1>1, <1>2, <1>4 DEF DiskInv, Typed
<1>11. Sound(k, floor[k])'
    BY <1>1, <1>4, <1>10, ZenonT(30) DEF Sound
<1>12. /\ Typed' /\ Index'
       /\ \A x : Shape(x) /\ TaskInv(x) => TaskInv(x)'
    <2>1. \A x \in Keys : \/ files'[x] = files[x] /\ (x \in landed => x \in landed')
                         \/ files'[x] >= floor[x]
        BY <1>4, <1>10, Zenon
    <2> QED
        BY <1>1, <1>10, <2>1, FileChange, ZenonT(30)
<1>13. TaskInv(s)'
    BY <1>1, <1>2, <1>5, <1>6, <1>11, ZenonT(30) DEF TaskInv, Invalidations
<1>14. \A x \in Tasks : TaskInv(task[x])'
    BY <1>7, <1>12, <1>13, TasksKept, ZenonT(30)
<1> QED
    BY <1>9, <1>12, <1>14, Zenon DEF DiskInv

LEMMA LateRenameStep ==
    ASSUME DiskInv, LateRename
    PROVE  DiskInv'
<1>1. PICK f \in late :
          /\ files' = [files EXCEPT ![f.key] = f.version]
          /\ late' = late \ {f} /\ landed' = landed \cup {f.key}
          /\ UNCHANGED <<storage, floor, acked, entries, paths, recovered, task>>
    BY Zenon DEF LateRename, WriteFile, world, index
<1>2. f.key \in Keys /\ f.version \in Nat \cup {Torn}
    BY DEF DiskInv, Typed
<1>3. /\ files' \in [Keys -> Nat \cup {Torn, NoFile}]
      /\ \A x \in Keys : \/ files'[x] = files[x] /\ (x \in landed => x \in landed')
                        \/ x \in landed'
    BY <1>1, <1>2 DEF DiskInv, Typed
<1>4. /\ Typed' /\ Index'
      /\ \A x : Shape(x) /\ TaskInv(x) => TaskInv(x)'
    BY <1>1, <1>3, FileChange
<1>5. Calls'
    BY <1>1, Zenon DEF DiskInv, Calls
<1>6. ASSUME NEW x \in Tasks PROVE TaskInv(task[x])'
    <2>1. PICK s : s = task[x]
        BY Zenon
    <2>2. Shape(s) /\ TaskInv(s)
        BY <2>1, TaskTyped, Zenon
    <2>3. TaskInv(s)' /\ s = task'[x]
        BY <1>1, <1>4, <2>1, <2>2, ZenonT(30)
    <2> QED
        BY <2>3, Zenon DEF TaskInv, Sound
<1> QED
    BY <1>4, <1>5, <1>6, Zenon DEF DiskInv

--------------------------------------------------------------------------------
(* The beginning and the end of calls. *)

LEMMA BeginStep ==
    ASSUME DiskInv, NEW t \in Tasks, NEW call \in CallNames \ {"none"},
           NEW ks \in SUBSET Keys, ks # {}, NEW v \in Nat, NEW f \in [Keys -> Nat],
           Begin(t, call, ks, v, f),
           call \in {"get", "put"} => \A j \in ks, k \in ks : j = k
    PROVE  /\ Calls' /\ task'[t].call = call /\ task'[t].keys = ks
           /\ task'[t].pc = "enter" /\ task'[t].version = v /\ task'[t].floor = f
           /\ \A x \in Tasks : x # t => task'[x] = task[x]
           /\ UNCHANGED <<storage, acked, files, entries, paths, recovered, late, landed>>
<1> DEFINE s == [call |-> call, pc |-> "enter", keys |-> ks, todo |-> {}, version |-> v,
                 floor |-> f]
<1>1. /\ task' = [task EXCEPT ![t] = s]
      /\ UNCHANGED <<storage, acked, files, entries, paths, recovered, late, landed>>
    BY Zenon DEF Begin, disk, index, dropped
<1>2. /\ s \in TaskState /\ s.call = call /\ s.keys = ks /\ s.pc = "enter" /\ s.version = v
      /\ s.floor = f
    BY Zenon DEF TaskState, Steps
<1> HIDE DEF s
<1>3. Shape(s)
    BY <1>2, Zenon DEF Shape
<1>4. /\ task'[t] = s /\ \A x \in Tasks : x # t => task'[x] = task[x]
    BY <1>1, Zenon DEF DiskInv, Calls
<1>5. Calls'
    BY <1>1, <1>3, CallsKept, Zenon
<1> QED
    BY <1>1, <1>2, <1>4, <1>5, ZenonT(30)

(* The calls that leave the floor alone. *)
LEMMA CallStep ==
    ASSUME DiskInv, NEW t \in Tasks, NEW call \in CallNames \ {"none"},
           NEW ks \in SUBSET Keys, ks # {}, NEW v \in Nat, NEW f \in [Keys -> Nat],
           Begin(t, call, ks, v, f), UNCHANGED floor, call \notin Invalidations,
           call \in {"get", "put"} => \A j \in ks, k \in ks : j = k,
           call = "put" => \A k \in ks : floor[k] <= v,
           call = "get" => f = acked
    PROVE  DiskInv'
<1>1. /\ Calls' /\ task'[t].call = call /\ task'[t].keys = ks
      /\ task'[t].pc = "enter" /\ task'[t].version = v /\ task'[t].floor = f
      /\ \A x \in Tasks : x # t => task'[x] = task[x]
      /\ UNCHANGED <<storage, acked, files, entries, paths, recovered, late, landed>>
    BY BeginStep, ZenonT(30)
<1>2. Typed' /\ Index'
    BY <1>1, Zenon DEF DiskInv, Typed, Index, Sound
<1>3. TaskInv(task[t])'
    <2>1. \A k \in Keys : acked[k] <= acked[k]
        BY DEF DiskInv, Typed
    <2> QED
        BY <1>1, <2>1, Zenon DEF TaskInv
<1>4. ASSUME NEW x \in Tasks, x # t PROVE TaskInv(task[x])'
    BY <1>1, <1>4, TaskTyped, Zenon DEF TaskInv, Sound
<1> QED
    BY <1>1, <1>2, <1>3, <1>4, Zenon DEF DiskInv

LEMMA GetStep ==
    ASSUME DiskInv, NEW t \in Tasks, NEW k \in Keys, Get(t, k) \/ Put(t, k) \/ RemoveBlock(t, k)
    PROVE  DiskInv'
<1>1. PICK ks : ks = {k}
    BY Zenon
<1>2. ks \in SUBSET Keys /\ ks # {} /\ \A i \in ks, j \in ks : i = j
    BY <1>1, Zenon
<1>3. /\ None \in [Keys -> Nat] /\ acked \in [Keys -> Nat] /\ 0 \in Nat
      /\ floor[k] \in Nat /\ storage[k] \in Nat
    BY DEF None, DiskInv, Typed
<1>4. /\ {"get", "put", "remove"} \subseteq CallNames \ {"none"}
      /\ \A c \in {"get", "put", "remove"} : c \notin Invalidations
    BY DEF CallNames, Invalidations
<1>5. CASE Get(t, k)
    <2>1. Begin(t, "get", ks, 0, acked) /\ UNCHANGED floor
        BY <1>1, <1>5, Zenon DEF Get
    <2> QED
        BY <1>2, <1>3, <1>4, <2>1, CallStep, Zenon
<1>6. CASE Put(t, k)
    <2>1. PICK v \in floor[k]..storage[k] : Begin(t, "put", ks, v, None)
        BY <1>1, <1>6, Zenon DEF Put
    <2>2. UNCHANGED floor
        BY <1>6, Zenon DEF Put
    <2>3. v \in Nat /\ floor[k] <= v
        BY <1>3, <2>1
    <2>4. \A i \in ks : floor[i] <= v
        BY <1>1, <2>3, Zenon
    <2> QED
        BY <1>2, <1>3, <1>4, <2>1, <2>2, <2>3, <2>4, CallStep, Zenon
<1>7. CASE RemoveBlock(t, k)
    <2>1. Begin(t, "remove", ks, 0, None) /\ UNCHANGED floor
        BY <1>1, <1>7, Zenon DEF RemoveBlock
    <2> QED
        BY <1>2, <1>3, <1>4, <2>1, CallStep, Zenon
<1> QED
    BY <1>5, <1>6, <1>7, Zenon

LEMMA InvalidatePrefixStep ==
    ASSUME DiskInv, NEW t \in Tasks, NEW ks \in (SUBSET Keys) \ {{}}, InvalidatePrefix(t, ks)
    PROVE  DiskInv'
<1>1. Begin(t, "recover", ks, 0, None) /\ UNCHANGED floor
    BY Zenon DEF InvalidatePrefix
<1>2. None \in [Keys -> Nat] /\ 0 \in Nat /\ ks \in SUBSET Keys /\ ks # {}
    BY DEF None
<1>3. "recover" \in CallNames \ {"none"} /\ "recover" \notin Invalidations
    BY DEF CallNames, Invalidations
<1> QED
    BY <1>1, <1>2, <1>3, CallStep, Zenon

(* An invalidation raises the floor of keys that no put is under way for. *)
LEMMA FloorRaised ==
    ASSUME DiskInv, NEW ks \in SUBSET Keys, floor' = Raised(ks),
           UNCHANGED <<storage, acked, files, entries, paths, recovered, late, landed>>
    PROVE  /\ Typed' /\ Index' /\ floor' \in [Keys -> Nat]
           /\ \A s : /\ Shape(s) /\ TaskInv(s)
                     /\ s.call = "put" => s.keys \cap ks = {}
                     => TaskInv(s)'
<1>1. /\ floor' \in [Keys -> Nat]
      /\ \A k \in Keys : /\ floor[k] <= floor'[k] /\ acked[k] <= floor'[k]
                         /\ floor'[k] <= storage[k] /\ floor[k] \in Nat
      /\ \A k \in Keys \ ks : floor'[k] = floor[k]
    BY DEF DiskInv, Typed, Index, Raised
<1>2. Typed'
    BY <1>1, Zenon DEF DiskInv, Typed
<1>3. Index'
    BY <1>1, Zenon DEF DiskInv, Index, Sound
<1>4. ASSUME NEW s, Shape(s), TaskInv(s), s.call = "put" => s.keys \cap ks = {}
      PROVE  TaskInv(s)'
    <2>1. s.keys \subseteq Keys /\ \A k \in s.keys : s.floor[k] \in Nat
        BY <1>4, Zenon DEF Shape, TaskState
    <2>2. s.call = "put" => \A k \in s.keys : floor'[k] = floor[k]
        BY <1>1, <1>4, <2>1, Zenon
    <2>3. s.call \in Invalidations => \A k \in s.keys : s.floor[k] <= floor'[k]
        <3> SUFFICES ASSUME s.call \in Invalidations, NEW k \in s.keys
                     PROVE  s.floor[k] <= floor'[k]
            BY Zenon
        <3>1. s.floor[k] <= floor[k] /\ k \in Keys /\ s.floor[k] \in Nat
            BY <1>4, <2>1, Zenon DEF TaskInv
        <3>2. floor[k] <= floor'[k] /\ floor[k] \in Nat /\ floor'[k] \in Nat
            BY <1>1, <3>1, Zenon
        <3> QED
            BY <3>1, <3>2
    <2>4. s.pc = "record" => s.call = "put"
        BY <1>4, Zenon DEF Shape
    <2>5. s.pc = "record" => \A k \in s.keys : Sound(k, floor[k])'
        BY <1>4, <2>2, <2>4, Zenon DEF TaskInv, Sound
    <2> QED
        BY <1>4, <2>2, <2>3, <2>5, Zenon DEF TaskInv, Sound
<1> QED
    BY <1>1, <1>2, <1>3, <1>4, ZenonT(30)

(* What an invalidation that has its gate leaves. *)
LEMMA GateStep ==
    ASSUME DiskInv, NEW t \in Tasks, NEW ks \in SUBSET Keys, floor' = Raised(ks), Calls',
           UNCHANGED <<storage, acked, files, entries, paths, recovered, late, landed>>,
           task'[t].call \in Invalidations, task'[t].keys = ks, task'[t].pc = "enter",
           task'[t].floor = floor',
           \A x \in Tasks : x # t => task'[x] = task[x],
           \A x \in Tasks : task[x].call = "put" => task[x].keys \cap ks = {}
    PROVE  DiskInv'
<1>1. /\ Typed' /\ Index' /\ floor' \in [Keys -> Nat]
      /\ \A s : /\ Shape(s) /\ TaskInv(s)
                /\ s.call = "put" => s.keys \cap ks = {}
                => TaskInv(s)'
    BY FloorRaised, Zenon
<1>2. TaskInv(task[t])'
    <2>1. \A k \in Keys : floor'[k] <= floor'[k]
        BY <1>1
    <2>2. task'[t].call # "put" /\ task'[t].call # "get"
        BY DEF Invalidations
    <2> QED
        BY <2>1, <2>2, Zenon DEF TaskInv
<1>3. ASSUME NEW x \in Tasks, x # t PROVE TaskInv(task[x])'
    <2>1. PICK s : s = task[x]
        BY Zenon
    <2>2. TaskInv(s)' /\ s = task'[x]
        BY <1>1, <1>3, <2>1, TaskTyped, Zenon
    <2> QED
        BY <2>2, Zenon DEF TaskInv, Sound
<1> QED
    BY <1>1, <1>2, <1>3, Zenon DEF DiskInv

LEMMA InvalidatePathStep ==
    ASSUME DiskInv, NEW t \in Tasks, NEW k \in Keys, InvalidatePath(t, k)
    PROVE  DiskInv'
<1>1. PICK ks : ks = {k}
    BY Zenon
<1>2. /\ Begin(t, "invalidate_path", ks, 0, Raised(ks)) /\ ks \in SUBSET Keys /\ ks # {}
      /\ floor' = Raised(ks) /\ "invalidate_path" \in CallNames \ {"none"}
      /\ \A x \in Tasks : task[x].call = "put" => task[x].keys \cap ks = {}
    BY <1>1, Zenon DEF InvalidatePath, Underway, CallNames
<1>3. Raised(ks) \in [Keys -> Nat]
    BY <1>2, Zenon DEF Raised, DiskInv, Typed
<1>4. /\ Calls' /\ task'[t].call = "invalidate_path" /\ task'[t].keys = ks
      /\ task'[t].pc = "enter" /\ task'[t].floor = Raised(ks)
      /\ \A x \in Tasks : x # t => task'[x] = task[x]
      /\ UNCHANGED <<storage, acked, files, entries, paths, recovered, late, landed>>
    <2>1. PICK f : f = Raised(ks)
        BY Zenon
    <2>2. PICK c : c = "invalidate_path"
        BY Zenon
    <2>3. /\ Begin(t, c, ks, 0, f) /\ f \in [Keys -> Nat] /\ 0 \in Nat
          /\ c \in CallNames \ {"none"}
        BY <1>2, <1>3, <2>1, <2>2, Zenon
    <2>4. \A i \in ks, j \in ks : i = j
        BY <1>1, Zenon
    <2>5. /\ Calls' /\ task'[t].call = c /\ task'[t].keys = ks
          /\ task'[t].pc = "enter" /\ task'[t].version = 0 /\ task'[t].floor = f
          /\ \A x \in Tasks : x # t => task'[x] = task[x]
          /\ UNCHANGED <<storage, acked, files, entries, paths, recovered, late, landed>>
        BY <1>2, <2>3, <2>4, BeginStep, ZenonT(30)
    <2> QED
        BY <2>1, <2>2, <2>5, Zenon
<1> QED
    BY <1>2, <1>4, GateStep, Zenon DEF Invalidations

LEMMA TakeBarrierStep ==
    ASSUME DiskInv, NEW t \in Tasks, TakeBarrier(t)
    PROVE  DiskInv'
<1> DEFINE ks == task[t].keys
           s == [task[t] EXCEPT !.call = "invalidate_prefix", !.pc = "enter", !.floor = Raised(ks)]
<1>1. /\ task[t].pc = "barrier" /\ Set(t, s) /\ floor' = Raised(ks)
      /\ \A u \in Tasks : task[u].call \in {"none", "remove", "recover"}
      /\ UNCHANGED <<storage, acked, files, entries, paths, recovered, late, landed>>
    BY Zenon DEF TakeBarrier, At, disk, index, dropped
<1>2. ks \in SUBSET Keys /\ ks # {}
    BY <1>1, TaskTyped DEF Shape, Idle, TaskState
<1>3. Raised(ks) \in [Keys -> Nat]
    BY <1>2, Zenon DEF Raised, DiskInv, Typed
<1>4. /\ s \in TaskState /\ s.call = "invalidate_prefix" /\ s.keys = ks /\ s.pc = "enter"
      /\ s.floor = Raised(ks)
    BY <1>3, TaskTyped, Zenon DEF TaskState, Steps, CallNames
<1> HIDE DEF s
<1>5. Shape(s)
    BY <1>2, <1>4, Zenon DEF Shape
<1>6. task' = [task EXCEPT ![t] = s]
    BY <1>1, <1>4, Zenon DEF Set, Settled
<1>7. Calls'
    BY <1>5, <1>6, CallsKept, Zenon
<1>8. task'[t] = s /\ \A x \in Tasks : x # t => task'[x] = task[x]
    BY <1>6, Zenon DEF DiskInv, Calls
<1>9. \A x \in Tasks : task[x].call = "put" => task[x].keys \cap ks = {}
    BY <1>1, Zenon
<1> HIDE DEF ks
<1>10. task'[t].call \in Invalidations
    BY <1>4, <1>8, Zenon DEF Invalidations
<1> QED
    BY <1>1, <1>2, <1>4, <1>7, <1>8, <1>9, <1>10, GateStep, ZenonT(30) DEF ks

(* When an invalidation returns, an entry of its keys is one that a newer put has added. *)
LEMMA AckStep ==
    ASSUME DiskInv, NEW t \in Tasks, Ack(t)
    PROVE  DiskInv'
<1>1. PICK r : r = task[t]
    BY Zenon
<1>2. /\ r.pc = "ack" /\ Set(t, Idle)
      /\ acked' = [k \in Keys |-> IF k \in r.keys /\ acked[k] < r.floor[k]
                                   THEN r.floor[k] ELSE acked[k]]
      /\ UNCHANGED <<storage, floor, files, entries, paths, recovered, late, landed>>
    BY <1>1, Zenon DEF Ack, At, disk, index, dropped
<1>3. /\ r.call \in Invalidations /\ r.keys \subseteq Keys /\ recovered /\ r.floor \in [Keys -> Nat]
      /\ \A k \in r.keys \cap entries : Sound(k, r.floor[k])
      /\ \A k \in r.keys : r.floor[k] <= floor[k]
    BY <1>1, <1>2, TaskTyped, Zenon DEF Shape, TaskInv, TaskState
<1>4. \A k \in Keys : /\ acked'[k] = acked[k] \/ (k \in r.keys /\ acked'[k] = r.floor[k])
                     /\ acked[k] <= acked'[k]
    BY <1>2, <1>3 DEF DiskInv, Typed
<1>5. /\ acked' \in [Keys -> Nat] /\ \A k \in Keys : acked'[k] <= floor[k]
    BY <1>2, <1>3 DEF DiskInv, Typed, Index
<1>6. task' = [task EXCEPT ![t] = Idle]
    BY <1>2, Zenon DEF Set, Settled, Idle
<1>7. Calls'
    BY <1>6, CallsKept, IdleShape, ZenonT(30)
<1>8. Typed'
    BY <1>2, <1>5, Zenon DEF DiskInv, Typed
<1>9. Index'
    <2>1. \A k \in entries : Sound(k, acked'[k])
        BY <1>3, <1>4, Zenon DEF DiskInv, Typed, Index
    <2> QED
        BY <1>2, <1>3, <1>5, <2>1, Zenon DEF DiskInv, Index, Sound
<1>10. ASSUME NEW x \in Tasks PROVE TaskInv(task[x])'
    <2>1. PICK s : s = task'[x]
        BY Zenon
    <2>2. s = task[x] \/ s = Idle
        BY <1>6, <2>1, Zenon DEF DiskInv, Calls
    <2>3. Shape(s) /\ TaskInv(s)
        BY <2>2, IdleShape, TaskTyped, Zenon
    <2>4. s.call = "get" => \A k \in s.keys : s.floor[k] <= acked'[k]
        <3> SUFFICES ASSUME s.call = "get", NEW k \in s.keys PROVE s.floor[k] <= acked'[k]
            BY Zenon
        <3>1. k \in Keys /\ s.floor[k] \in Nat /\ s.floor[k] <= acked[k]
            BY <2>3, Zenon DEF Shape, TaskState, TaskInv
        <3>2. acked[k] \in Nat /\ acked'[k] \in Nat /\ acked[k] <= acked'[k]
            BY <1>4, <1>5, <3>1, Zenon DEF DiskInv, Typed
        <3> QED
            BY <3>1, <3>2
    <2>5. TaskInv(s)'
        BY <1>2, <2>3, <2>4, Zenon DEF TaskInv, Sound
    <2> QED
        BY <2>1, <2>5, Zenon DEF TaskInv, Sound
<1> QED
    BY <1>7, <1>8, <1>9, <1>10, Zenon DEF DiskInv

--------------------------------------------------------------------------------
(* The process and the storage. *)

(* Nothing is acknowledged before the directory has been read, so that every file counts. *)
LEMMA RecoverStep ==
    ASSUME DiskInv, Recover
    PROVE  DiskInv'
<1>1. /\ ~ recovered /\ recovered' = TRUE
      /\ files' \in {files, [k \in Keys |-> IF files[k] = Torn THEN NoFile ELSE files[k]]}
      /\ entries' = {k \in Keys : files'[k] # NoFile} /\ paths' = entries'
      /\ UNCHANGED <<storage, floor, acked, late, landed, task>>
    BY Zenon DEF Recover, dropped
<1>2. files' \in [Keys -> Nat \cup {Torn, NoFile}]
    BY <1>1, Zenon DEF DiskInv, Typed
<1>3. Typed'
    BY <1>1, <1>2, Zenon DEF DiskInv, Typed
<1>4. \A k \in Keys : Sound(k, acked[k])'
    BY <1>1, <1>2 DEF DiskInv, Index, Sound, Torn, NoFile
<1>5. Index'
    BY <1>1, <1>4, Zenon DEF DiskInv, Index
<1>6. Calls'
    BY <1>1, Zenon DEF DiskInv, Calls
<1>7. ASSUME NEW x \in Tasks PROVE TaskInv(task[x])'
    <2>1. task'[x] = task[x] /\ task[x].pc \in {"idle", "enter"}
        BY <1>1, TaskTyped, Zenon DEF TaskInv
    <2> QED
        BY <1>1, <2>1, TaskTyped, Zenon DEF TaskInv
<1> QED
    BY <1>3, <1>5, <1>6, <1>7, ZenonT(30) DEF DiskInv

(* The next process has acknowledged nothing. *)
LEMMA RestartStep ==
    ASSUME DiskInv, Restart
    PROVE  DiskInv'
<1>1. /\ files' = files \/ files' = [files EXCEPT ![Last(written)] = Torn]
      /\ task' = [t \in Tasks |-> Idle] /\ entries' = {} /\ paths' = {} /\ recovered' = FALSE
      /\ late' = {} /\ landed' = {} /\ floor' = storage /\ acked' = None
      /\ storage' = storage
    BY Zenon DEF Restart, disk
<1>2. files' \in [Keys -> Nat \cup {Torn, NoFile}]
    BY <1>1, Zenon DEF DiskInv, Typed
<1>3. Typed'
    BY <1>1, <1>2, Zenon DEF DiskInv, Typed, None
<1>4. Index'
    BY <1>1 DEF DiskInv, Typed, Index, None
<1>5. Calls' /\ \A x \in Tasks : TaskInv(task[x])'
    <2>1. task' \in [Tasks -> TaskState] /\ \A x \in Tasks : task'[x] = Idle
        BY <1>1, IdleShape, Zenon DEF Shape
    <2>2. \A x \in Tasks : Shape(task'[x])
        BY <2>1, IdleShape, Zenon
    <2>3. ASSUME NEW x \in Tasks PROVE TaskInv(task[x])'
        BY <2>1 DEF TaskInv, Idle, Invalidations
    <2> QED
        BY <2>1, <2>2, <2>3, Zenon DEF Calls
<1> QED
    BY <1>3, <1>4, <1>5, Zenon DEF DiskInv

LEMMA OutsideStep ==
    ASSUME DiskInv, (\E k \in Keys : ChangeFile(k)) \/ TightenMaxSize \/ UNCHANGED vars
    PROVE  DiskInv'
<1>1. /\ UNCHANGED <<floor, acked, files, entries, paths, recovered, late, landed, task>>
      /\ storage' \in [Keys -> Nat] /\ \A k \in Keys : storage[k] <= storage'[k]
    BY DEF ChangeFile, TightenMaxSize, vars, disk, index, dropped, DiskInv, Typed
<1>2. Typed' /\ Index'
    BY <1>1 DEF DiskInv, Typed, Index, Sound
<1>3. Calls' /\ \A x \in Tasks : TaskInv(task[x])'
    BY <1>1, Zenon DEF DiskInv, Calls, TaskInv, Sound
<1> QED
    BY <1>2, <1>3, Zenon DEF DiskInv

--------------------------------------------------------------------------------
(* The theorem. *)

LEMMA DiskInit == Init => DiskInv
<1> SUFFICES ASSUME Init PROVE DiskInv
    BY Zenon
<1>1. /\ storage = [k \in Keys |-> 1] /\ floor = storage /\ acked = None
      /\ files = [k \in Keys |-> NoFile] /\ entries = {} /\ paths = {} /\ recovered = FALSE
      /\ late = {} /\ landed = {} /\ task = [t \in Tasks |-> Idle]
    BY Zenon DEF Init
<1>2. Typed
    BY <1>1, Zenon DEF Typed, None
<1>6. Index
    <2>1. \A k \in Keys : acked[k] = 0 /\ floor[k] = 1 /\ storage[k] = 1
        BY <1>1 DEF None
    <2> QED
        BY <1>1, <2>1 DEF Index
<1>3. task \in [Tasks -> TaskState] /\ \A x \in Tasks : task[x] = Idle
    BY <1>1, IdleShape DEF Shape
<1>4. \A x \in Tasks : Shape(task[x]) /\ TaskInv(task[x])
    BY <1>3, IdleShape, Zenon
<1> QED
    BY <1>2, <1>3, <1>4, <1>6, ZenonT(30) DEF DiskInv, Calls

LEMMA DiskNext == DiskInv /\ [Next]_vars => DiskInv'
<1> SUFFICES ASSUME DiskInv, [Next]_vars PROVE DiskInv'
    BY Zenon
<1>1. ASSUME NEW t \in Tasks,
             \/ \E k \in Keys : Get(t, k)
             \/ \E k \in Keys : Put(t, k)
             \/ \E k \in Keys : RemoveBlock(t, k)
             \/ \E k \in Keys : InvalidatePath(t, k)
             \/ \E ks \in (SUBSET Keys) \ {{}} : InvalidatePrefix(t, ks)
             \/ TakeBarrier(t)
             \/ Enter(t) \/ DeleteFile(t) \/ Lookup(t) \/ ReadFile(t) \/ TouchEntry(t) \/ Hit(t)
             \/ ForgetEntry(t) \/ CheckSize(t) \/ RenameFile(t) \/ PutFails(t) \/ RecordEntry(t)
             \/ Purge(t) \/ Ack(t) \/ Cancel(t)
      PROVE  DiskInv'
    BY <1>1, GetStep, InvalidatePathStep, InvalidatePrefixStep, TakeBarrierStep, EnterStep, DeleteFileStep, LookupStep, ReadFileStep,
       TouchEntryStep, EndStep, ForgetEntryStep, CheckSizeStep, RenameFileStep, RecordEntryStep,
       PurgeStep, AckStep, Zenon
<1> QED
    BY <1>1, RecoverStep, LateRenameStep, RestartStep, OutsideStep, Zenon DEF Next

(* A hit of get_block is never older than the last invalidation of its block that returned    *)
(* before the lookup began, unless it reads what a dropped put has left: FreshHits, for any   *)
(* blocks, tasks, versions, faults, sizes and limits, with gets and puts beside the purge of  *)
(* a path.  The entry goes before the file, and the file of a put comes before its entry.     *)
THEOREM HitsAreFresh == Spec => []FreshHits
<1>1. DiskInv => FreshHits
    <2> SUFFICES ASSUME DiskInv, NEW t \in Tasks, At(t, "hit")
                 PROVE  task[t].version >= task[t].floor[KeyOf(t)]
        BY Zenon DEF FreshHits
    <2>1. task[t].pc = "hit"
        BY Zenon DEF At
    <2> QED
        BY <2>1, KeyIsIts, TaskTyped, Zenon DEF TaskInv
<1> QED
    BY <1>1, DiskInit, DiskNext, PTL DEF Spec

(* The two indexes of the store hold the same blocks, so that an invalidation, which searches *)
(* the one by path, misses no entry that a lookup would use.                                  *)
THEOREM IndexesAgree == Spec => [](paths = entries)
<1>1. DiskInv => paths = entries
    BY DEF DiskInv, Index
<1> QED
    BY <1>1, DiskInit, DiskNext, PTL DEF Spec

================================================================================
