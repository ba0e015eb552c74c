--------------------------- MODULE MCTaskManager ---------------------------
(* Small instances of TaskManager. *)
EXTENDS TaskManager

CONSTANTS t1, t2, c1, c2, w1, w2
=============================================================================
