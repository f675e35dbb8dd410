------------------------------ MODULE AtomicTable ------------------------------
(***************************************************************************)
(* What committing promises: the table is one set of files, and a commit   *)
(* is one atomic change of it.                                             *)
(*                                                                         *)
(* A request is pending from the moment that it is asked for until it is   *)
(* applied or dropped.  It is applied at most once, whole, to the table as *)
(* it is at that moment, and the requests of one user in the order of      *)
(* their identifiers.  A request that was asked for may never be applied.  *)
(***************************************************************************)
EXTENDS Integers

CONSTANT User  \* commit users

VARIABLES
    table,    \* the files of the table
    version,  \* how many requests have been applied
    applied,  \* applied[u]: the identifier of u's last request that was applied
    pending   \* requests that may still be applied

vars == <<table, version, applied, pending>>

InParts(fs, ps) == {f \in fs : f.part \in ps}

(* over: the partitions to replace, none for a request that names its files. *)
Fits(r) ==
    /\ r.dels \subseteq table
    /\ r.adds \cap table = {}
    /\ r.expect # 0 => r.expect = version
    /\ r.op > applied[r.user]

Effect(r) ==
    (table \ (IF r.over = {} THEN r.dels ELSE InParts(table, r.over))) \cup r.adds

Init ==
    /\ table = {}
    /\ version = 0
    /\ applied = [u \in User |-> 0]
    /\ pending = {}

(* A user asks, possibly again, for a change that has not been applied; their *)
(* earlier requests may be given up.                                          *)
Ask ==
    /\ \E r \in pending' :
        /\ r.op > applied[r.user]
        /\ pending' \subseteq pending \cup {r}
        /\ \A q \in pending \ pending' : q.user = r.user
    /\ UNCHANGED <<table, version, applied>>

(* One request is applied; others may be given up. *)
Apply ==
    \E r \in pending :
        /\ Fits(r)
        /\ table' = Effect(r)
        /\ version' = version + 1
        /\ applied' = [applied EXCEPT ![r.user] = r.op]
        /\ pending' \subseteq pending \ {r}

(* Requests are given up. *)
Drop ==
    /\ pending' \subseteq pending
    /\ UNCHANGED <<table, version, applied>>

Next == Ask \/ Apply \/ Drop

Spec == Init /\ [][Next]_vars

================================================================================
