---------------------------- MODULE MCDataEvolution ----------------------------
(* Instances of DataEvolution for TLC. *)
EXTENDS DataEvolution

CONSTANTS x, y, p1, p2

File(p, k, labels) == [part |-> p, kind |-> k, labels |-> labels]

(* Two rows in one file, the blob column rolled into a file per row. *)
MCSeedShape ==
    <<File(p1, "normal", <<1, 2>>), File(p1, "blob", <<1>>), File(p1, "blob", <<2>>),
      File(p1, "vector", <<1, 2>>)>>

(* Parallel writers: the messages of p2 lie around the one of p1. *)
MCShapes ==
    {<<File(p2, "normal", <<1>>), File(p2, "blob", <<1>>), File(p2, "vector", <<1>>),
       File(p1, "normal", <<2>>), File(p1, "blob", <<2>>), File(p1, "vector", <<2>>),
       File(p2, "normal", <<3>>), File(p2, "blob", <<3>>), File(p2, "vector", <<3>>)>>}

MCUpdateColumns == {{x}, {x, y}}

MCMergeColumns == {{y}}

================================================================================
