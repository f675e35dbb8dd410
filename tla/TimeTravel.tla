------------------------------- MODULE TimeTravel ------------------------------
(***************************************************************************)
(* The binary searches of table/snapshot_manager.rs that time travel,      *)
(* incremental reads and rollback resolve a time with:                     *)
(* later_or_equal_time_millis, earlier_or_equal_time_millis and            *)
(* later_or_equal_watermark.                                               *)
(*                                                                         *)
(* The snapshots are the positions 0..count-1 of the listing, oldest       *)
(* first.  key[i] is the commit time, or the watermark, of snapshot i; it  *)
(* does not decrease from one snapshot to the next, and it may be equal.   *)
(* A snapshot may have no watermark.  lo and hi are usize: a value below   *)
(* zero would be an overflow.                                              *)
(***************************************************************************)
EXTENDS Integers

CONSTANTS
    MaxSnapshots,  \* bound: snapshots in the listing
    MaxKey         \* bound: times and watermarks

ASSUME SearchConstants == MaxSnapshots \in Nat /\ MaxKey \in Nat

VARIABLES
    search,  \* the function that runs
    count,   \* the number of snapshots listed
    key,     \* their commit times or watermarks
    want,    \* the time asked for
    lo, hi,  \* the range that is left
    found,   \* the position to return, or None
    stage

searchVars == <<search, count, key, want, lo, hi, found, stage>>

None == -1

NoWatermark == -1

Searches == {"later", "earlier", "watermark"}

Key == 0..MaxKey

(* Keys do not decrease, snapshots without one left aside. *)
Ordered(k, m) ==
    \A i, j \in 0..(m - 1) : i <= j /\ k[i] # NoWatermark /\ k[j] # NoWatermark => k[i] <= k[j]

SearchTypeOK ==
    /\ search \in Searches
    /\ count \in 0..MaxSnapshots
    /\ key \in [0..(count - 1) -> Key \cup {NoWatermark}]
    /\ want \in Key
    /\ lo \in 0..count
    /\ hi \in 0..count
    /\ found \in {None} \cup 0..(count - 1)
    /\ stage \in {"start", "first", "loop", "done"}

SearchInit ==
    /\ search \in Searches
    /\ count \in 0..MaxSnapshots
    /\ key \in [0..(count - 1) -> Key \cup (IF search = "watermark" THEN {NoWatermark} ELSE {})]
    /\ Ordered(key, count)
    /\ want \in Key
    /\ lo = 0
    /\ hi = 0
    /\ found = None
    /\ stage = "start"

Mid == lo + (hi - lo) \div 2

Done(r) == found' = r /\ stage' = "done" /\ UNCHANGED <<lo, hi>>

Input == <<search, count, key, want>>

--------------------------------------------------------------------------------
(* The two searches by time begin with the snapshot that would answer "none". *)
StartByTime ==
    /\ stage = "start"
    /\ search \in {"later", "earlier"}
    /\ IF \/ count = 0
          \/ search = "later" /\ key[count - 1] < want
          \/ search = "earlier" /\ key[0] > want
       THEN Done(None)
       ELSE lo' = 0 /\ hi' = count - 1 /\ stage' = "loop" /\ UNCHANGED found
    /\ UNCHANGED Input

(* while lo <= hi *)
LeaveLoop ==
    /\ stage = "loop"
    /\ lo > hi
    /\ Done(found)
    /\ UNCHANGED Input

(* Mutation: the candidate is not kept when the search goes on below it. *)
LaterStepForgets ==
    /\ stage = "loop"
    /\ search = "later"
    /\ lo <= hi
    /\ \/ key[Mid] < want /\ lo' = Mid + 1 /\ UNCHANGED <<hi, found, stage>>
       \/ key[Mid] > want /\ Mid # 0 /\ hi' = Mid - 1 /\ UNCHANGED <<lo, found, stage>>
       \/ key[Mid] = want /\ Done(Mid)
    /\ UNCHANGED Input

(* Mutation: the lower end stays at mid. *)
LaterStepStuck ==
    /\ stage = "loop"
    /\ search = "later"
    /\ lo <= hi
    /\ \/ key[Mid] < want /\ lo' = Mid /\ UNCHANGED <<hi, found, stage>>
       \/ key[Mid] >= want /\ Done(Mid)
    /\ UNCHANGED Input

LaterStep ==
    /\ stage = "loop"
    /\ search = "later"
    /\ lo <= hi
    /\ \/ /\ key[Mid] < want
          /\ lo' = Mid + 1
          /\ UNCHANGED <<hi, found, stage>>
       \/ /\ key[Mid] > want
          /\ IF Mid = 0
             THEN Done(Mid)
             ELSE hi' = Mid - 1 /\ found' = Mid /\ UNCHANGED <<lo, stage>>
       \/ /\ key[Mid] = want
          /\ Done(Mid)
    /\ UNCHANGED Input

EarlierStep ==
    /\ stage = "loop"
    /\ search = "earlier"
    /\ lo <= hi
    /\ \/ /\ key[Mid] > want
          /\ IF Mid = 0
             THEN Done(found)
             ELSE hi' = Mid - 1 /\ UNCHANGED <<lo, found, stage>>
       \/ /\ key[Mid] < want
          /\ lo' = Mid + 1
          /\ found' = Mid
          /\ UNCHANGED <<hi, stage>>
       \/ /\ key[Mid] = want
          /\ Done(Mid)
    /\ UNCHANGED Input

--------------------------------------------------------------------------------
(* later_or_equal_watermark *)

StartByWatermark ==
    /\ stage = "start"
    /\ search = "watermark"
    /\ IF count = 0
       THEN Done(None)
       ELSE lo' = 0 /\ stage' = "first" /\ UNCHANGED <<hi, found>>
    /\ UNCHANGED Input

(* The loop that looks for the first snapshot with a watermark. *)
FirstWatermark ==
    /\ stage = "first"
    /\ IF lo >= count
       THEN Done(None)
       ELSE IF key[lo] = NoWatermark
            THEN lo' = lo + 1 /\ UNCHANGED <<hi, found, stage>>
            ELSE IF key[lo] >= want
                 THEN Done(lo)
                 ELSE hi' = count - 1 /\ stage' = "loop" /\ UNCHANGED <<lo, found>>
    /\ UNCHANGED Input

(* Mutation: the inner loop is missing. *)
NearestIsMid(p) == p = Mid

(* The inner loop: back from mid to a snapshot with a watermark, not below lo. *)
Nearest(p) ==
    /\ p \in lo..Mid
    /\ key[p] # NoWatermark \/ p = lo
    /\ \A i \in (p + 1)..Mid : key[i] = NoWatermark

WatermarkStep ==
    /\ stage = "loop"
    /\ search = "watermark"
    /\ lo <= hi
    /\ \E p \in 0..(count - 1) :
        /\ Nearest(p)
        /\ \/ /\ key[p] = NoWatermark \/ key[p] < want
              /\ lo' = Mid + 1
              /\ UNCHANGED <<hi, found, stage>>
           \/ /\ key[p] # NoWatermark
              /\ key[p] >= want
              /\ IF p = 0
                 THEN Done(p)
                 ELSE hi' = p - 1 /\ found' = p /\ UNCHANGED <<lo, stage>>
    /\ UNCHANGED Input

--------------------------------------------------------------------------------

SearchNext ==
    \/ StartByTime
    \/ LeaveLoop
    \/ LaterStep
    \/ EarlierStep
    \/ StartByWatermark
    \/ FirstWatermark
    \/ WatermarkStep

SearchSpec == SearchInit /\ [][SearchNext]_searchVars

(* A search is a loop of its caller's task: it is polled until it returns. *)
FairSearch == SearchSpec /\ WF_searchVars(SearchNext)

--------------------------------------------------------------------------------
(* Properties *)

Position == 0..(count - 1)

(* What later_or_equal_time_millis returns has the smallest commit time not   *)
(* before the one asked for, and None means that every snapshot is older.     *)
LaterFindsTime ==
    stage = "done" /\ search = "later" =>
        IF found = None
        THEN \A i \in Position : key[i] < want
        ELSE key[found] >= want /\ \A i \in Position : key[i] >= want => key[i] >= key[found]

(* What earlier_or_equal_time_millis returns has the largest commit time not  *)
(* after the one asked for, and None means that every snapshot is newer.      *)
EarlierFindsTime ==
    stage = "done" /\ search = "earlier" =>
        IF found = None
        THEN \A i \in Position : key[i] > want
        ELSE key[found] <= want /\ \A i \in Position : key[i] <= want => key[i] <= key[found]

(* Both searches by time find the right commit time.  Which of several        *)
(* snapshots of that time they return is another matter (TimeFindsFirst).     *)
TimeIsFound == LaterFindsTime /\ EarlierFindsTime

(* later_or_equal_time_millis "Returns the first snapshot whose commit time   *)
(* is later than or equal to the given `timestamp_millis`" (its doc comment). *)
TimeFindsFirst ==
    stage = "done" /\ search = "later" =>
        LET late == {i \in Position : key[i] >= want}
        IN IF found = None THEN late = {} ELSE found \in late /\ \A i \in late : found <= i

(* later_or_equal_watermark returns the first snapshot whose own watermark is *)
(* late enough, however the snapshots without a watermark are spread.         *)
WatermarkFindsFirst ==
    stage = "done" /\ search = "watermark" =>
        LET late == {i \in Position : key[i] # NoWatermark /\ key[i] >= want}
        IN IF found = None THEN late = {} ELSE found \in late /\ \A i \in late : found <= i

(* No step of a search indexes outside the listing or goes below zero.        *)
InBounds == stage = "loop" /\ lo <= hi => Mid \in Position

(* Every search ends. *)
Terminates == <>(stage = "done")

--------------------------------------------------------------------------------
(* The loop invariants *)

TooEarly(i) == key[i] = NoWatermark \/ key[i] < want

(* Everything below lo is too early, and the answer so far is just above hi.  *)
LaterLoop ==
    /\ count > 0
    /\ \A i \in Position : i < lo => TooEarly(i)
    /\ found = None => hi = count - 1
    /\ found # None => found = hi + 1 /\ ~TooEarly(found)

(* Everything above hi is too late, and the answer so far is just below lo.   *)
EarlierLoop ==
    /\ count > 0
    /\ \A i \in Position : i > hi => key[i] > want
    /\ found = None => lo = 0
    /\ found # None => found = lo - 1 /\ key[found] < want

SearchInv ==
    /\ Ordered(key, count)
    /\ stage = "start" => found = None
    /\ search # "watermark" => stage # "first" /\ \A i \in Position : key[i] # NoWatermark
    /\ stage = "first" => (\A i \in Position : i < lo => TooEarly(i)) /\ found = None /\ count > 0
    /\ stage = "loop" => hi < count
    /\ stage = "loop" /\ search \in {"later", "watermark"} => LaterLoop
    /\ stage = "loop" /\ search = "later" => key[count - 1] >= want
    /\ stage = "loop" /\ search = "earlier" => EarlierLoop /\ key[0] <= want
    /\ stage = "done" => LaterFindsTime /\ EarlierFindsTime /\ WatermarkFindsFirst

================================================================================
