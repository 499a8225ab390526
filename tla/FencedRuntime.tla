---- MODULE FencedRuntime ----
(***************************************************************************)
(* The source fence as a whole: quiesce and resume (FenceOperations) over  *)
(* the runtime processes (RuntimeFence), which meet in the fence row and   *)
(* in the heartbeat rows that waitForDrain (fence-operations.ts) adds up.  *)
(* A step is a step of an operation or of a process; the drain of a        *)
(* quiesce reads the rows of the processes.                                *)
(***************************************************************************)
EXTENDS FenceOperations, RuntimeFence

systemVars == <<vars, processVars, reportVars>>

SystemInit == Init /\ RuntimeInit

\* aggregate() at the epoch this quiesce asked for: every fresh row is fenced at it.
AllDrained(a) ==
    \A p \in Processes : row[p] # NoRow => row[p] = [phase |-> "fenced", epoch |-> asked[a]]

\* waitForDrain(): a complete drain, or the deadline.  It is not under the guard, so the fence
\* may have been released or taken again by then; a report of another fence is of no use.
WaitForDrain(a) ==
    /\ Drain(a)
    /\ drained'[a] <=> AllDrained(a)
    /\ IF drained'[a] /\ fence = "fenced" /\ asked[a] = fenceEpoch
       THEN Report
       ELSE UNCHANGED <<processVars, reportVars>>

OperationStep ==
    /\ Next
    /\ \A a \in Quiesces : ~Drain(a)
    /\ UNCHANGED <<processVars, reportVars>>

ProcessStep ==
    /\ \E p \in Processes : ProcessNext(p)
    /\ UNCHANGED vars

SystemNext ==
    \/ OperationStep
    \/ \E a \in Quiesces : WaitForDrain(a)
    \/ ProcessStep

SystemSpec == SystemInit /\ [][SystemNext]_systemVars

----
\* A quiesce that succeeded: as long as its fence is held, no process that its drain counted
\* has admitted work in flight or admits any, nor runs a job while its queue is held.
SuccessMeansDrained ==
    \A a \in Quiesces :
        outcome[a] = "succeeded" /\ fence = "fenced" /\ asked[a] = fenceEpoch
            => reported = fenceEpoch /\ ReportMeansDrained

\* The database barrier is held only after a complete drain of the fence it stands behind: the
\* privileges are not taken from under the work of a process that the drain counted.
BarrierMeansDrained ==
    barriers.state = "held" => fence = "fenced" /\ reported = fenceEpoch /\ ReportMeansDrained
====
