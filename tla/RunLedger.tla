------------------------------ MODULE RunLedger ------------------------------
(***************************************************************************)
(* What a durable agent run promises to whoever reads its ledger, without  *)
(* saying how: the status of the run, the rows its output produced, and    *)
(* the executions whose non-idempotent tools took effect.  DurableRun      *)
(* implements this as long as no lease lapses under a live execution and   *)
(* every header is readable.                                               *)
(***************************************************************************)
EXTENDS Naturals

CONSTANT Worker   \* who may execute the run

VARIABLES
  status,    \* "absent", "enqueued", "running", "completed" or "error"
  outputs,   \* how many rows the run wrote into its output store
  effects    \* the workers whose non-idempotent tools took effect

run == <<status, outputs, effects>>

Init == status = "absent" /\ outputs = 0 /\ effects = {}

\* The run is announced before its job exists.
Announce ==
  /\ status = "absent"
  /\ status' = "enqueued"
  /\ UNCHANGED <<outputs, effects>>

\* Only a run that nobody has started or ended can be withdrawn.
Withdraw ==
  /\ status = "enqueued"
  /\ status' = "absent"
  /\ UNCHANGED <<outputs, effects>>

Begin ==
  /\ status \in {"absent", "enqueued"}
  /\ status' = "running"
  /\ UNCHANGED <<outputs, effects>>

End ==
  /\ status \in {"enqueued", "running"}
  /\ status' = "error"
  /\ UNCHANGED <<outputs, effects>>

\* A run completes at most once, and what it produced is stored with it.  Its
\* own outcome may still replace an end that others recorded.
Complete ==
  /\ status \in {"running", "error"}
  /\ status' = "completed"
  /\ outputs' \in {outputs, outputs + 1}
  /\ UNCHANGED effects

\* Effects come from one execution: no other one may follow it.
Effect(w) ==
  /\ effects \subseteq {w}
  /\ effects' = {w}
  /\ UNCHANGED <<status, outputs>>

Next ==
  \/ Announce \/ Withdraw \/ Begin \/ End \/ Complete
  \/ \E w \in Worker : Effect(w)

Spec == Init /\ [][Next]_run
==============================================================================
