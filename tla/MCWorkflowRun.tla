---- MODULE MCWorkflowRun ----
(***************************************************************************)
(* A small workflow with every kind of edge the engine decides about.      *)
(***************************************************************************)
EXTENDS WorkflowRun

Step(agent, policy, deps, attempts) ==
    [agent |-> agent, policy |-> policy, deps |-> deps, attempts |-> attempts]

\* An agent whose failure is dropped and that may be tried twice, an independent node that may halt
\* the run, and a repairable node that needs the agent.
MCSteps == <<Step(TRUE, "drop", {}, 2), Step(FALSE, "fail", {}, 1),
             Step(FALSE, "repair", {1}, 1)>>

\* A larger workflow, for one pass at a time (MaxBeside = 0).
MCLongSteps == <<Step(TRUE, "drop", {}, 2), Step(FALSE, "fail", {}, 2),
                 Step(TRUE, "repair", {1}, 1), Step(FALSE, "quarantine", {1, 3}, 1)>>
====
