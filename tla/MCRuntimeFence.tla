---- MODULE MCRuntimeFence ----
(***************************************************************************)
(* Values for RuntimeFence.  Processes share the fence and the queue's     *)
(* row.  One process meets every move of the fence, and the row whichever  *)
(* way an earlier life left it; MCProcesses adds the writes of another     *)
(* process to the row, which hold or release the queue of the first.       *)
(***************************************************************************)
EXTENDS RuntimeFence

CONSTANTS p1, p2

MCProcesses == {p1, p2}
MCOneProcess == {p1}
====
