---------------------------- MODULE CommitRefinement ---------------------------
(***************************************************************************)
(* The commit protocol of module TableCommit implements module AtomicTable.*)
(*                                                                         *)
(* The table is what the newest snapshot's manifests merge to.  A request  *)
(* is pending while its call runs, while its caller cannot tell what       *)
(* became of it, and while storage may still apply it.                     *)
(***************************************************************************)
EXTENDS TableCommit

AskedFor(c) ==
    [user |-> c, op |-> op[c], adds |-> plan[c].adds, dels |-> plan[c].dels,
     over |-> plan[c].over, expect |-> plan[c].expect]

SentAs(s) ==
    [user |-> s.user, op |-> s.op, adds |-> s.adds,
     dels |-> IF s.over = {} THEN s.dels ELSE {}, over |-> s.over, expect |-> s.expect]

AppliedTo(c) ==
    LET own == {i \in 1..Len(hist) : hist[i].user = c}
    IN IF own = {} THEN 0 ELSE hist[CHOOSE i \in own : \A j \in own : j <= i].op

InDoubt(c) == status[c] = "unknown" \/ (status[c] = "failed" /\ doubted[c])

Pending ==
    {AskedFor(c) : c \in {d \in Committers :
        (status[d] \in InCall \/ InDoubt(d)) /\ AppliedTo(d) < op[d]}}
    \cup {SentAs(r.snapshot) : r \in late}

Atomic == INSTANCE AtomicTable WITH
    User <- Committers,
    table <- LiveAt(Len(hist)),
    version <- Len(hist),
    applied <- [c \in Committers |-> AppliedTo(c)],
    pending <- Pending

(* Whatever the committers, their callers, lost answers and crashes do, the   *)
(* table changes by whole requests that were pending, each at most once, on   *)
(* the table as it is at that moment: try_commit with its retries, caches and *)
(* incremental checks is one atomic step.                                     *)
CommitsAreAtomic == Atomic!Spec

================================================================================
