----------------------------- MODULE DataEvolution -----------------------------
(***************************************************************************)
(* Statements on a data-evolution table: a table with row ids, where an    *)
(* UPDATE adds a file holding only the changed columns of a row-id range,  *)
(* a DELETE replaces deletion vectors, and a global index covers a range   *)
(* of row ids (table/data_evolution_writer.rs, table_update_delete.rs,     *)
(* table_merge_into.rs, sorted_global_index_build_builder.rs).             *)
(*                                                                         *)
(* Each committer prepares one statement from a snapshot it pins and then  *)
(* commits it with the checks of TableCommit::resolve_commit against the   *)
(* latest snapshot, losing the publication race and retrying as in module  *)
(* TableCommit, which models faults, duplicate detection and the cached    *)
(* conflict base.  Row ids and sequence numbers are assigned by every      *)
(* attempt anew (table_commit/row_tracking.rs).                            *)
(*                                                                         *)
(* A value is <<who wrote it, which of its rows>>; each partition has one  *)
(* bucket.  COMPACT commits are rejected by this implementation and absent.*)
(***************************************************************************)
EXTENDS Integers, Sequences, FiniteSets, SequencesExt, FiniteSetsExt

CONSTANTS
    Committers,      \* one statement each, numbered as they are submitted
    Seed,            \* the writer of the first snapshot
    SeedShape,       \* the files of the first snapshot
    Shapes,          \* bound: the files an INSERT may write
    Statements,      \* bound: the kinds of statement submitted
    Columns,         \* columns kept in normal files
    BlobColumn,      \* column kept in blob files
    VectorColumn,    \* column kept in vector-store files
    UpdateTargets,   \* bound: the row ids that UPDATE and MERGE INTO may set
    DeleteTargets,   \* bound: the row ids that DELETE and MERGE INTO may delete
    UpdateColumns,   \* bound: the column sets that UPDATE statements set
    MergeColumns,    \* bound: the column sets that MERGE INTO statements set
    Indexed,         \* bound: the columns that get a global index
    DropIndex,       \* global-index.column-update-action: drop, else throw
    PartitionGroup,  \* row-tracking.partition-group-on-commit
    MaxRetries       \* commit.max-retries

ASSUME DataEvolutionConstants ==
    /\ Committers \subseteq Nat
    /\ Seed \in Nat \ Committers
    /\ DropIndex \in BOOLEAN
    /\ PartitionGroup \in BOOLEAN
    /\ MaxRetries \in Nat
    /\ Statements \subseteq {"insert", "update", "delete", "merge", "drop", "overwrite", "index"}

VARIABLES
    hist,    \* the published snapshots
    plan,    \* plan[c]: the CommitEntriesPlan of c's statement
    status,  \* status[c]: where the commit of the statement is, or how it ended
    base,    \* base[c]: the snapshot id the prepared request builds on
    retries  \* retries[c]: retry_count

vars == <<hist, plan, status, base, retries>>

--------------------------------------------------------------------------------
(* Data files *)

NoRow == -1       \* first_row_id: None
NoCheck == -1     \* check_from_snapshot: None
Null == <<Seed, 0>>  \* the value of a column that no file holds

AllColumns == Columns \cup {BlobColumn, VectorColumn}

IsNormal(f) == f.kind = "normal"

Normal(fs) == {f \in fs : IsNormal(f)}

RowCount(f) == Len(f.rows)

(* DataFileMeta::row_id_range, as the set of its row ids. *)
RowIds(f) == IF f.first = NoRow THEN {} ELSE f.first .. (f.first + Len(f.rows) - 1)

LastRow(f) == f.first + RowCount(f) - 1

HasRow(f, r) == f.first # NoRow /\ f.first <= r /\ r <= LastRow(f)

(* ranges_overlap *)
Overlap(f, g) ==
    f.first # NoRow /\ g.first # NoRow /\ f.first <= LastRow(g) /\ g.first <= LastRow(f)

NameOf(f) == <<f.op, f.idx>>

ColumnsOf(kind) ==
    CASE kind = "normal" -> Columns
      [] kind = "blob" -> {BlobColumn}
      [] kind = "vector" -> {VectorColumn}

(* The files that TableWrite hands over: in each group of a partition the  *)
(* normal file, then its blob files, then its vector file (close_group).   *)
(* rows[i] maps the columns of the file to the values of its i-th row.     *)
InsertFiles(c, shape) ==
    [i \in DOMAIN shape |->
        [op |-> c, idx |-> i, part |-> shape[i].part, kind |-> shape[i].kind,
         cols |-> ColumnsOf(shape[i].kind), first |-> NoRow, seq |-> 0,
         rows |-> [j \in DOMAIN shape[i].labels |->
                      [col \in ColumnsOf(shape[i].kind) |-> <<c, shape[i].labels[j]>>]]]]

--------------------------------------------------------------------------------
(* Assignment of row ids and sequence numbers: row_tracking.rs *)

(* group_by_partition: partitions in the order of their first entry. *)
GroupByPartition(entries) ==
    LET parts == FoldLeft(LAMBDA ps, f : IF f.part \in ToSet(ps) THEN ps ELSE Append(ps, f.part),
                          <<>>, entries)
    IN  FoldLeft(LAMBDA es, p : es \o SelectSeq(entries, LAMBDA f : f.part = p), <<>>, parts)

AssignOne(sid, a, f0) ==
    LET f == [f0 EXCEPT !.seq = IF @ = 0 THEN sid ELSE @]
        At(n) == [f EXCEPT !.first = n]
    IN  CASE f.first # NoRow ->
               [a EXCEPT !.out = Append(@, f)]
          [] f.first = NoRow /\ f.kind = "blob" ->
               [a EXCEPT !.out = Append(@, At(a.blob)), !.blob = @ + RowCount(f),
                         !.ok = @ /\ a.blob < a.start]
          [] f.first = NoRow /\ f.kind = "vector" ->
               [a EXCEPT !.out = Append(@, At(a.vector)), !.vector = @ + RowCount(f),
                         !.ok = @ /\ a.vector < a.start]
          [] f.first = NoRow /\ f.kind = "normal" ->
               [a EXCEPT !.out = Append(@, At(a.start)), !.blob = a.start,
                         !.start = @ + RowCount(f)]

(* assign_row_tracking for one blob column: `blob` is its counter, reset to *)
(* the start of each normal file; `vector` runs on through the commit.      *)
AssignRowTracking(sid, start, entries) ==
    FoldLeft(LAMBDA a, f : AssignOne(sid, a, f),
             [out |-> <<>>, start |-> start, blob |-> start, vector |-> start, ok |-> TRUE],
             entries)

--------------------------------------------------------------------------------
(* Snapshots and what a reader sees in them *)

LiveAt(n) == IF n = 0 THEN {} ELSE hist[n].live

NextRowAt(n) == IF n = 0 THEN 0 ELSE hist[n].next

IndexAt(n) == IF n = 0 THEN {} ELSE hist[n].index

DvOf(index) == {e \in index : e.kind = "dv"}

GlobalOf(index) == {e \in index : e.kind = "global"}

(* group_by_normal_row_id: the files joined with the normal file f. *)
GroupOf(files, f) == {g \in files : g.part = f.part /\ Overlap(f, g)}

(* data_evolution_anchor_file: the oldest normal file of the group. *)
Anchor(group) == CHOOSE f \in Normal(group) : \A g \in Normal(group) : f.seq <= g.seq

(* build_source_plan: a column comes from the newest file that holds it. *)
ReadCell(group, col, r) ==
    LET holders == {g \in group : col \in g.cols /\ HasRow(g, r)}
        newest == CHOOSE g \in holders : \A h \in holders : h.seq <= g.seq
    IN  IF holders = {} THEN Null ELSE newest.rows[r - newest.first + 1][col]

RowsOf(files) == UNION {RowIds(f) : f \in Normal(files)}

FileWith(files, r) == CHOOSE f \in files : IsNormal(f) /\ HasRow(f, r)

(* read_anchor_deletion_vector *)
Deleted(files, index, r) ==
    LET a == Anchor(GroupOf(files, FileWith(files, r)))
    IN  \E e \in DvOf(index) : e.part = a.part /\ <<NameOf(a), r - a.first>> \in e.dv

VisibleRows(n) == {r \in RowsOf(LiveAt(n)) : ~Deleted(LiveAt(n), IndexAt(n), r)}

ReadRow(n, r) ==
    LET group == GroupOf(LiveAt(n), FileWith(LiveAt(n), r))
    IN  [part |-> FileWith(LiveAt(n), r).part,
         cells |-> [col \in AllColumns |-> ReadCell(group, col, r)]]

(* The table as a reader of snapshot n sees it. *)
ReadTable(n) == [r \in VisibleRows(n) |-> ReadRow(n, r)]

--------------------------------------------------------------------------------
(* Statements, prepared from the pinned snapshot n *)

(* check is check_from_snapshot; over the partitions an INSERT OVERWRITE    *)
(* replaces; set, gone and cols record the rows matched, for the properties.*)
NoPlan ==
    [adds |-> <<>>, dels |-> {}, over |-> {}, ixAdd |-> {}, ixDel |-> {},
     check |-> NoCheck, set |-> {}, cols |-> {}, gone |-> {}]

(* DataEvolutionWriter::prepare_commit: for each matched file group one file *)
(* with the updated columns of all its rows, the unmatched ones copied.     *)
UpdateFile(c, n, set, cols, f) ==
    [op |-> c, idx |-> -(f.first + 1), part |-> f.part, kind |-> "normal", cols |-> cols,
     first |-> f.first, seq |-> 0,
     rows |-> [j \in DOMAIN f.rows |->
                 [col \in cols |->
                    IF f.first + j - 1 \in set THEN <<c, 0>>
                    ELSE ReadCell(GroupOf(LiveAt(n), f), col, f.first + j - 1)]]]

UpdateFiles(c, n, set, cols) ==
    {UpdateFile(c, n, set, cols, Anchor(GroupOf(LiveAt(n), FileWith(LiveAt(n), r)))) : r \in set}

(* DataEvolutionDeleteWriter: the deletion vectors of a bucket are merged   *)
(* into one new index file that replaces all the bucket had.                *)
DvIn(n, p) == {e \in DvOf(IndexAt(n)) : e.part = p}

DeletedParts(n, gone) == {FileWith(LiveAt(n), r).part : r \in gone}

DvPosition(n, r) ==
    LET a == Anchor(GroupOf(LiveAt(n), FileWith(LiveAt(n), r)))
    IN  <<NameOf(a), r - a.first>>

NewDv(c, n, gone, p) ==
    [kind |-> "dv", op |-> c, part |-> p,
     dv |-> UNION {e.dv : e \in DvIn(n, p)}
            \cup {DvPosition(n, r) : r \in {s \in gone : FileWith(LiveAt(n), s).part = p}}]

(* table_merge_into.rs merge_into: updates, deletes and inserts in one commit. *)
MergePlan(c, n, set, cols, gone, shape) ==
    [NoPlan EXCEPT
        !.adds = SetToSeq(UpdateFiles(c, n, set, cols)) \o InsertFiles(c, shape),
        !.ixAdd = {NewDv(c, n, gone, p) : p \in DeletedParts(n, gone)},
        !.ixDel = UNION {DvIn(n, p) : p \in DeletedParts(n, gone)},
        !.check = IF set \cup gone = {} THEN NoCheck ELSE n,
        !.set = set, !.cols = cols, !.gone = gone]

(* table_update_delete.rs delete_partitions *)
DropPlan(n, p) ==
    LET files == {f \in LiveAt(n) : f.part = p}
    IN  [NoPlan EXCEPT !.dels = files, !.ixDel = {e \in IndexAt(n) : e.part = p},
                       !.check = n, !.gone = RowsOf(files)]

OverwritePlan(c, shape) ==
    [NoPlan EXCEPT !.adds = InsertFiles(c, shape),
                   !.over = {shape[i].part : i \in DOMAIN shape}]

(* plan_sorted_index_shards: the runs of row ids of a partition that no     *)
(* index file of the column covers.                                         *)
Unindexed(n, col, p) ==
    RowsOf({f \in LiveAt(n) : f.part = p})
        \ UNION {e.ids : e \in {g \in GlobalOf(IndexAt(n)) : g.col = col}}

Runs(s) == {r \in {i .. j : i, j \in s} : /\ r # {} /\ r \subseteq s
                                         /\ Min(r) - 1 \notin s /\ Max(r) + 1 \notin s}

IndexFile(c, n, col, p, run) ==
    [kind |-> "global", op |-> c, part |-> p, col |-> col, ids |-> run, src |-> n,
     cells |-> [r \in run \cap VisibleRows(n) |-> ReadRow(n, r).cells[col]]]

IndexPlan(c, n, col) ==
    [NoPlan EXCEPT !.ixAdd = UNION {{IndexFile(c, n, col, p, run) : run \in Runs(Unindexed(n, col, p))} :
                                    p \in {f.part : f \in LiveAt(n)}}]

--------------------------------------------------------------------------------
(* The checks of one commit attempt of plan p against snapshot n *)

(* Mutant: an overwrite leaves the dedicated files of a partition. *)
DelsOfNormal(p, n) ==
    IF p.over = {} THEN p.dels ELSE {f \in Normal(LiveAt(n)) : f.part \in p.over}

DelsOf(p, n) == IF p.over = {} THEN p.dels ELSE {f \in LiveAt(n) : f.part \in p.over}

Entries(p, n) == ToSet(p.adds) \cup DelsOf(p, n)

Merged(p, n) == (LiveAt(n) \ DelsOf(p, n)) \cup ToSet(p.adds)

(* check_row_id_existence *)
RowIdsExist(p, n) ==
    \A f \in ToSet(p.adds) :
        f.first # NoRow /\ f.first < NextRowAt(n)
            => \E g \in Normal(LiveAt(n)) : /\ g.part = f.part
                                            /\ g.first = f.first
                                            /\ RowCount(g) = RowCount(f)

(* check_row_id_range_conflicts and check_dedicated_row_id_ranges *)
RangesAgree(p, n) ==
    LET files == {f \in Merged(p, n) : f.first # NoRow}
    IN  /\ \A f, g \in Normal(files) : Overlap(f, g) => f.first = g.first /\ LastRow(f) = LastRow(g)
        /\ \A f \in files \ Normal(files) :
               \E g \in Normal(files) : g.part = f.part /\ RowIds(f) \subseteq RowIds(g)

(* Mutant: only the latest snapshot is compared. *)
NoNewerWritesInLatest(p, n) ==
    \A i \in {n} \ 0 .. p.check : \A e \in hist[i].adds \cup hist[i].dels : \A f \in Entries(p, n) :
        ~(Overlap(e, f) /\ e.cols \cap f.cols # {} /\ e.first < NextRowAt(p.check))

(* Mutant: the columns are not compared. *)
NoNewerWritesAnyColumn(p, n) ==
    \A i \in p.check + 1 .. n : \A e \in hist[i].adds \cup hist[i].dels : \A f \in Entries(p, n) :
        ~(Overlap(e, f) /\ e.first < NextRowAt(p.check))

(* check_row_id_from_snapshot: no commit after the pinned snapshot wrote a  *)
(* column of a range that this commit writes.                               *)
NoNewerWrites(p, n) ==
    \A i \in p.check + 1 .. n : \A e \in hist[i].adds \cup hist[i].dels : \A f \in Entries(p, n) :
        ~ /\ Overlap(e, f)
          /\ e.cols \cap f.cols # {}
          /\ e.first < NextRowAt(p.check)

(* check_commit_conflicts, when a row-id baseline or an overwrite asks for it *)
FilesAllowed(p, n) ==
    /\ DelsOf(p, n) \subseteq LiveAt(n)
    /\ RowIdsExist(p, n)
    /\ p.check # NoCheck => RangesAgree(p, n) /\ NoNewerWrites(p, n)

(* Mutant: the rows must be there, but the commits since are not looked at. *)
SourcesPresent(p, n) ==
    \A g \in GlobalOf(p.ixAdd) :
        g.ids \subseteq UNION {RowIds(f) : f \in {h \in Merged(p, n) : h.part = g.part}}

(* check_global_index_sources *)
SourcesUnchanged(p, n) ==
    \A g \in GlobalOf(p.ixAdd) :
        /\ g.ids \subseteq UNION {RowIds(f) : f \in {h \in Merged(p, n) : h.part = g.part}}
        /\ \A i \in g.src + 1 .. n : \A e \in hist[i].adds \cup hist[i].dels :
               ~(e.part = g.part /\ RowIds(e) \cap g.ids # {} /\ g.col \in e.cols)

(* global_index_update_entries: the index files whose column is updated. *)
IndexesHit(p, n) ==
    LET updates == {f \in ToSet(p.adds) : f.first # NoRow}
    IN  {e \in GlobalOf(IndexAt(n)) \ p.ixDel :
            /\ e.part \in {f.part : f \in updates}
            /\ e.col \in UNION {f.cols : f \in updates}}

Retained(p, n) ==
    IF p.over # {} THEN {e \in IndexAt(n) : e.part \notin p.over}
    ELSE IndexAt(n) \ (p.ixDel \cup IndexesHit(p, n))

(* merge_index_entries and validate_global_index_overlap *)
IndexesMerge(p, n) ==
    /\ DvOf(p.ixDel) \subseteq IndexAt(n)
    /\ \A e \in GlobalOf(Retained(p, n)), g \in GlobalOf(p.ixAdd) :
           e.col = g.col => e.ids \cap g.ids = {}
    /\ \A e \in DvOf(Retained(p, n)), g \in DvOf(p.ixAdd) :
           e.part = g.part => {x[1] : x \in e.dv} \cap {x[1] : x \in g.dv} = {}

(* Mutant: the retained vectors of files that the commit deletes are not checked. *)
VectorsAddedHaveFiles(p, n) ==
    \A e \in DvOf(p.ixAdd) : \A x \in e.dv :
        x[1] \in {NameOf(f) : f \in {g \in Merged(p, n) : g.part = e.part}}

(* check_deletion_vector_references *)
VectorsHaveFiles(p, n) ==
    \A e \in DvOf(Retained(p, n) \cup p.ixAdd) : \A x \in e.dv :
        e \in p.ixAdd \/ x[1] \in {NameOf(f) : f \in DelsOf(p, n)}
            => x[1] \in {NameOf(f) : f \in {g \in Merged(p, n) : g.part = e.part}}

(* resolve_commit *)
Allowed(p, n) ==
    /\ p.check # NoCheck \/ p.over # {} => FilesAllowed(p, n)
    /\ SourcesUnchanged(p, n)
    /\ p.over = {} => DropIndex \/ IndexesHit(p, n) = {}
    /\ IndexesMerge(p, n)
    /\ VectorsHaveFiles(p, n)

--------------------------------------------------------------------------------
(* prepare_snapshot: what the attempt publishes on top of snapshot n *)

(* Mutant: ids continue from the pinned snapshot, not from the latest. *)
AssignedFromPinned(p, n) ==
    AssignRowTracking(n + 1, NextRowAt(IF p.check = NoCheck THEN n ELSE p.check),
                      IF PartitionGroup THEN GroupByPartition(p.adds) ELSE p.adds)

Assigned(p, n) ==
    AssignRowTracking(n + 1, NextRowAt(n), IF PartitionGroup THEN GroupByPartition(p.adds) ELSE p.adds)

NewSnapshot(c, p, n) ==
    LET adds == ToSet(Assigned(p, n).out)
    IN  [by |-> c, adds |-> adds, dels |-> DelsOf(p, n),
         live |-> (LiveAt(n) \ DelsOf(p, n)) \cup adds,
         index |-> Retained(p, n) \cup p.ixAdd,
         next |-> Assigned(p, n).start]

SeedSnapshot ==
    LET a == AssignRowTracking(1, 0, InsertFiles(Seed, SeedShape))
    IN  [by |-> Seed, adds |-> ToSet(a.out), dels |-> {}, live |-> ToSet(a.out),
         index |-> {}, next |-> a.start]

Init ==
    /\ hist = <<SeedSnapshot>>
    /\ plan = [c \in Committers |-> NoPlan]
    /\ status = [c \in Committers |-> "idle"]
    /\ base = [c \in Committers |-> 0]
    /\ retries = [c \in Committers |-> 0]

Latest == Len(hist)

Prepare(c, stmt, p) ==
    /\ status[c] = "idle"
    /\ stmt \in Statements
    /\ \A d \in Committers : d < c => status[d] # "idle"
    /\ plan' = [plan EXCEPT ![c] = p]
    /\ status' = [status EXCEPT ![c] = "commit"]
    /\ UNCHANGED <<hist, base, retries>>

Matchable(targets) == VisibleRows(Latest) \cap targets

Insert(c) == \E shape \in Shapes : Prepare(c, "insert", MergePlan(c, Latest, {}, {}, {}, shape))

Update(c) ==
    \E r \in Matchable(UpdateTargets), cols \in UpdateColumns :
        Prepare(c, "update", MergePlan(c, Latest, {r}, cols, {}, <<>>))

Delete(c) ==
    \E r \in Matchable(DeleteTargets) : Prepare(c, "delete", MergePlan(c, Latest, {}, {}, {r}, <<>>))

MergeInto(c) ==
    \E r \in Matchable(UpdateTargets), s \in Matchable(DeleteTargets),
       cols \in MergeColumns, shape \in Shapes :
        r # s /\ Prepare(c, "merge", MergePlan(c, Latest, {r}, cols, {s}, shape))

DeletePartition(c) ==
    \E p \in {f.part : f \in LiveAt(Latest)} : Prepare(c, "drop", DropPlan(Latest, p))

Overwrite(c) == \E shape \in Shapes : Prepare(c, "overwrite", OverwritePlan(c, shape))

BuildIndex(c) ==
    \E col \in Indexed :
        LET p == IndexPlan(c, Latest, col)
        IN  p.ixAdd # {} /\ Prepare(c, "index", p)

(* One iteration of try_commit up to the publication request. *)
Attempt(c) ==
    /\ status[c] = "commit"
    /\ base' = [base EXCEPT ![c] = Latest]
    /\ status' = [status EXCEPT ![c] =
           IF Allowed(plan[c], Latest) /\ Assigned(plan[c], Latest).ok THEN "request" ELSE "conflict"]
    /\ UNCHANGED <<hist, plan, retries>>

(* SnapshotCommit::commit answers true: the request builds on the latest. *)
Publish(c) ==
    /\ status[c] = "request"
    /\ base[c] = Latest
    /\ hist' = Append(hist, NewSnapshot(c, plan[c], base[c]))
    /\ status' = [status EXCEPT ![c] = "done"]
    /\ UNCHANGED <<plan, base, retries>>

(* It answers false: retry, or give up after commit.max-retries. *)
LoseRace(c) ==
    /\ status[c] = "request"
    /\ base[c] # Latest
    /\ status' = [status EXCEPT ![c] = IF retries[c] >= MaxRetries THEN "gave up" ELSE "commit"]
    /\ retries' = [retries EXCEPT ![c] = @ + 1]
    /\ UNCHANGED <<hist, plan, base>>

Next ==
    \E c \in Committers :
        \/ Insert(c) \/ Update(c) \/ Delete(c) \/ MergeInto(c) \/ DeletePartition(c)
        \/ Overwrite(c) \/ BuildIndex(c)
        \/ Attempt(c) \/ Publish(c) \/ LoseRace(c)

Spec == Init /\ [][Next]_vars

--------------------------------------------------------------------------------
(* Properties *)

(* The rows a commit inserts, with every column of a row from one source row *)
Inserted(i) == {f \in Normal(hist[i].adds) : f.idx > 0}

InsertedRow(i, r) ==
    LET f == FileWith(Inserted(i), r)
        row == f.rows[r - f.first + 1]
    IN  [part |-> f.part, cells |-> [col \in AllColumns |-> row[CHOOSE x \in Columns : TRUE]]]

(* The statement of snapshot i run on the table t: it sets and deletes the  *)
(* rows it matched, replaces the partitions it overwrites, inserts its rows.*)
Apply(t, i) ==
    LET p == IF hist[i].by = Seed THEN NoPlan ELSE plan[hist[i].by]
        kept == {r \in DOMAIN t \ p.gone : t[r].part \notin p.over}
        changed == [r \in kept |->
                      [t[r] EXCEPT !.cells = [col \in AllColumns |->
                          IF r \in p.set /\ col \in p.cols THEN <<hist[i].by, 0>> ELSE @[col]]]]
    IN  [r \in kept \cup RowsOf(Inserted(i)) |->
            IF r \in kept THEN changed[r] ELSE InsertedRow(i, r)]

(* Every snapshot reads as the committed statements run one after the other *)
(* in commit order: no update is lost to a concurrent one that rewrote the  *)
(* same column range, no deleted row comes back because its deletion vector *)
(* was replaced or its anchor file changed, blob and vector files stay      *)
(* aligned with the rows they were written for.                             *)
ReadsAreSerial ==
    LET table[i \in 0 .. Len(hist)] == IF i = 0 THEN <<>> ELSE Apply(table[i - 1], i)
    IN  ReadTable(Len(hist)) = table[Len(hist)]

(* A row id names one row forever: no two commits insert rows under the     *)
(* same id, whatever was dropped or overwritten between them, although each *)
(* attempt of a retried commit assigns its ids anew from the latest         *)
(* snapshot's next_row_id.                                                  *)
RowIdsNeverReused ==
    \A i, j \in DOMAIN hist : i < j =>
        /\ RowsOf(Inserted(i)) \cap RowsOf(Inserted(j)) = {}
        /\ hist[i].next <= hist[j].next

(* Files that share a row id are column files of one range, and a blob or   *)
(* vector file lies within one normal file: the reader joins one such group *)
(* at a time and could not split it.                                        *)
GroupsAreAligned ==
    LET files == LiveAt(Len(hist))
    IN  /\ \A f, g \in Normal(files) : Overlap(f, g) => RowIds(f) = RowIds(g) /\ f.part = g.part
        /\ \A f \in files \ Normal(files) :
               \E g \in Normal(files) : g.part = f.part /\ RowIds(f) \subseteq RowIds(g)

(* A global index answers with the values the table has: for each row that  *)
(* is still visible the indexed value is the current one, although the      *)
(* index was built from an older snapshot and updates may commit first.     *)
IndexesAreFresh ==
    \A e \in GlobalOf(IndexAt(Len(hist))) : \A r \in e.ids \cap VisibleRows(Len(hist)) :
        r \in DOMAIN e.cells /\ e.cells[r] = ReadRow(Len(hist), r).cells[e.col]

(* A deletion vector belongs to the anchor file of a live group, and no     *)
(* file has two: a vector left behind by a dropped file, or a second one,   *)
(* would make the reader drop or keep the wrong rows.                       *)
VectorsAreAnchored ==
    LET files == LiveAt(Len(hist))
        vectors == DvOf(IndexAt(Len(hist)))
    IN  /\ \A e \in vectors : \A x \in e.dv :
               \E f \in Normal(files) : f.part = e.part /\ Anchor(GroupOf(files, f)) = f /\ NameOf(f) = x[1]
        /\ \A e, g \in vectors : e # g => {x[1] : x \in e.dv} \cap {x[1] : x \in g.dv} = {}

(* Snapshot i wrote or removed a file with the rows ids and the columns cols. *)
Wrote(i, ids, cols) ==
    \E f \in hist[i].adds \cup hist[i].dels : RowIds(f) \cap ids # {} /\ f.cols \cap cols # {}

Removed(i, ids) == \E f \in hist[i].dels : RowIds(f) \cap ids # {}

RedidVectors(i, parts) == \E e \in DvOf(IndexAt(i)) \ DvOf(IndexAt(i - 1)) : e.part \in parts

FileRows(n, ids) == UNION {RowIds(f) : f \in {g \in Normal(LiveAt(n)) : RowIds(g) \cap ids # {}}}

(* A commit is refused only for a reason: since the pinned snapshot another *)
(* commit wrote the columns of the files it updates, removed the files or   *)
(* redid the deletion vectors of the partition it deletes from, changed the *)
(* partition it drops, or indexed what it updates or changed or indexed     *)
(* what it indexes.  So INSERT and INSERT OVERWRITE are never refused, an   *)
(* update and a delete of the same rows both commit, and so do updates of   *)
(* different columns.                                                       *)
ConflictsAreReal ==
    \A c \in Committers : status[c] = "conflict" =>
        LET p == plan[c]
            n == base[c]
        IN  \/ \E i \in p.check + 1 .. n :
                  /\ p.check # NoCheck
                  /\ \/ Wrote(i, FileRows(p.check, p.set), p.cols)
                     \/ Removed(i, p.gone)
                     \/ p.gone # {} /\ RedidVectors(i, DeletedParts(p.check, p.gone))
                     \/ Wrote(i, RowsOf(p.dels), AllColumns)
            \/ p.set # {} /\ ~DropIndex /\ \E e \in GlobalOf(IndexAt(n)) : e.col \in p.cols
            \/ \E g \in GlobalOf(p.ixAdd) :
                  \/ \E i \in g.src + 1 .. n : Wrote(i, g.ids, {g.col})
                  \/ \E e \in GlobalOf(IndexAt(n)) : e.col = g.col /\ e.ids \cap g.ids # {}

================================================================================
