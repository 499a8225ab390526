---- MODULE MCFenceOperations ----
(***************************************************************************)
(* Values for FenceOperations: two quiesces that are attempts of one       *)
(* operation, so that only the epoch tells them apart, and a resume.       *)
(***************************************************************************)
EXTENDS FenceOperations, TLC

CONSTANTS q1, q2, r1, opQ, opR

MCAttempts == {q1, q2, r1}
MCQuiesces == {q1, q2}
MCOperations == {opQ, opR}
MCOperationOf == q1 :> opQ @@ q2 :> opQ @@ r1 :> opR
====
