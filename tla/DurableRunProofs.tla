------------------------- MODULE DurableRunProofs -------------------------
(***************************************************************************)
(* The types and the safety properties of DurableRun, for every set of     *)
(* executions, every deployment and every cap.  The types and what else    *)
(* needs no assumption on the faults come first, then what needs that no   *)
(* lease lapses under a live execution, and last what needs that the       *)
(* database answers as well.  Processes may stop between any two steps     *)
(* throughout.                                                             *)
(***************************************************************************)
EXTENDS DurableRun, TLAPS

USE DEF vars, ledger, lease, markers, content, job, worker, routes, history

-----------------------------------------------------------------------------
(* Types.  Each action is shown to type what it changes; the rest is framed. *)

\* Every program counter an action goes to is one.
LEMMA StepNames ==
  {"idle", "done", "dead", "check", "reserve", "cancel", "quarantine", "succeed",
   "fail", "claim", "lease", "move", "taint", "ended", "clear", "start",
   "recheck", "call", "boundEnd", "cancelEnd", "threw", "confirm", "complete",
   "transcript", "caught", "releaseOk", "releaseErr"} \subseteq Steps
  BY DEF Steps, Waiting, Holding, Renewing, Stopped

LedgerTypes ==
  /\ header \in {"absent"} \cup Open \cup Terminal
  /\ endSteps \subseteq {"cancelled", "bound", "failed"}
  /\ phase \in {"none"} \cup Phases

\* The guarded terminal transition writes statuses, steps and phases only.
LEMMA EndTypes ==
  ASSUME TypeOK, NEW kind \in {"cancelled", "bound", "failed"},
         NEW ph \in {"none"} \cup Phases, RecordRunEnded(kind, ph)
  PROVE  LedgerTypes'
  BY DEF RecordRunEnded, TypeOK, Terminal, LedgerTypes

LEMMA ObservedTypes ==
  ASSUME TypeOK, NEW ph \in Phases, RecordObservedCancel(ph)
  PROVE  LedgerTypes'
<1>1. CASE header # "error"
  BY <1>1, EndTypes DEF RecordObservedCancel
<1>2. CASE header = "error"
  BY <1>2 DEF RecordObservedCancel, RecordRunEnded, LedgerTypes, TypeOK
<1> QED BY <1>1, <1>2

\* So does the record of a run that was given up, in time or late.
LEMMA RecordedTypes ==
  ASSUME TypeOK, NEW e \in Exec, NEW kind \in {"bound", "cancelled"},
         EndRecorded(e, kind)
  PROVE  LedgerTypes'
<1>1. CASE kind = "bound"
  BY <1>1, EndTypes DEF EndRecorded
<1>2. CASE kind = "cancelled" /\ cancelled
  <2>1. PICK ph \in ObservedPhases(e) : RecordObservedCancel(ph)
    BY <1>2 DEF EndRecorded
  <2>2. ph \in Phases
    BY DEF ObservedPhases, Phases
  <2> QED BY <2>1, <2>2, ObservedTypes
<1>3. CASE kind = "cancelled" /\ ~cancelled
  BY <1>3 DEF EndRecorded, LedgerTypes, TypeOK
<1> QED BY <1>1, <1>2, <1>3

\* Giving a run up types the registry, the record and the late record.
LEMMA RecordEndTypes ==
  ASSUME TypeOK, NEW e \in Exec, NEW kind \in {"bound", "cancelled"},
         RecordEnd(e, kind)
  PROVE  TypeOK'
<1>1. LedgerTypes'
  BY RecordedTypes DEF RecordEnd, LedgerTypes, TypeOK
<1>2. pc' \in [Exec -> Steps] /\ liveRun' \in Local \cup {NoExec}
  BY StepNames DEF RecordEnd, Dispose, Goto, TypeOK
<1>3. late' \in [Exec -> {"none", "bound", "cancelled"}]
  BY DEF RecordEnd, TypeOK
<1> QED BY <1>1, <1>2, <1>3 DEF RecordEnd, TypeOK, LedgerTypes

\* An aborted execution remembers the signal or goes on to record its end.
LEMMA AbortTypes ==
  ASSUME TypeOK, NEW e \in Exec, Abort(e)
  PROVE  pc' \in [Exec -> Steps] /\ stop' \in [Exec -> BOOLEAN]
<1>1. pc \in [Exec -> Steps] /\ stop \in [Exec -> BOOLEAN]
  BY DEF TypeOK
<1>2. \/ pc' = [pc EXCEPT ![e] = "cancelEnd"] /\ stop' = stop
      \/ pc' = pc /\ stop' = [stop EXCEPT ![e] = TRUE]
  BY DEF Abort, Goto
<1>3. "cancelEnd" \in Steps
  BY StepNames
<1> QED BY <1>1, <1>2, <1>3

\* The record of a run that was given up ends an open run or leaves the header
\* alone.
LEMMA EndedOrLeft ==
  ASSUME NEW e \in Exec, NEW kind, EndRecorded(e, kind)
  PROVE  UNCHANGED header \/ (header \in Open /\ header' = "error")
  BY DEF EndRecorded, RecordObservedCancel, RecordRunEnded

\* Every variable keeps its type: no handler invents a status, a phase, a
\* holder or a step of its own.
THEOREM TypeCorrect == Spec => []TypeOK
<1>init. Init => TypeOK
  <2> SUFFICES ASSUME Init PROVE TypeOK
    OBVIOUS
  <2> QED BY StepNames DEF Init, TypeOK
<1>InsertEnqueuedHeader. ASSUME TypeOK, InsertEnqueuedHeader PROVE TypeOK'
  BY <1>InsertEnqueuedHeader DEF InsertEnqueuedHeader, TypeOK, Open
<1>EnqueueJob. ASSUME TypeOK, EnqueueJob PROVE TypeOK'
  BY <1>EnqueueJob DEF EnqueueJob, TypeOK
<1>EnqueueRefused. ASSUME TypeOK, EnqueueRefused PROVE TypeOK'
  BY <1>EnqueueRefused DEF EnqueueRefused, TypeOK
<1>WithdrawHeader. ASSUME TypeOK, WithdrawHeader PROVE TypeOK'
  BY <1>WithdrawHeader DEF WithdrawHeader, TypeOK
<1>DeadLetter. ASSUME TypeOK, DeadLetter PROVE TypeOK'
  BY <1>DeadLetter DEF DeadLetter, TypeOK, EngineEnded
<1>LeaseExpires. ASSUME TypeOK, LeaseExpires PROVE TypeOK'
  <2>1. live' \in BOOLEAN
    BY <1>LeaseExpires DEF LeaseExpires
  <2> QED BY <1>LeaseExpires, <2>1 DEF LeaseExpires, TypeOK
<1>LeaseLapses. ASSUME TypeOK, LeaseLapses PROVE TypeOK'
  <2>1. live' \in BOOLEAN
    BY <1>LeaseLapses DEF LeaseLapses
  <2> QED BY <1>LeaseLapses, <2>1 DEF LeaseLapses, TypeOK
<1>ReadHeaderPhase. ASSUME TypeOK, ReadHeaderPhase PROVE TypeOK'
  BY <1>ReadHeaderPhase DEF ReadHeaderPhase, TypeOK, Phases
<1>MarkRunCancelled. ASSUME TypeOK, MarkRunCancelled PROVE TypeOK'
  BY <1>MarkRunCancelled DEF MarkRunCancelled, TypeOK
<1>SignalRunCancelled. ASSUME TypeOK, SignalRunCancelled PROVE TypeOK'
  <2>1. pc' \in [Exec -> Steps] /\ stop' \in [Exec -> BOOLEAN]
    BY <1>SignalRunCancelled, StepNames DEF SignalRunCancelled, Abort, Goto, TypeOK
  <2>2. route' = "engine"
    BY <1>SignalRunCancelled DEF SignalRunCancelled
  <2> QED BY <1>SignalRunCancelled, <2>1, <2>2 DEF SignalRunCancelled, TypeOK
<1>CancelJob. ASSUME TypeOK, CancelJob PROVE TypeOK'
  BY <1>CancelJob DEF CancelJob, TypeOK, EngineEnded
<1>RecordRouteCancelled. ASSUME TypeOK, RecordRouteCancelled PROVE TypeOK'
  <2>1. LedgerTypes'
    BY <1>RecordRouteCancelled, EndTypes DEF RecordRouteCancelled, TypeOK
  <2> QED BY <1>RecordRouteCancelled, <2>1 DEF RecordRouteCancelled, TypeOK, LedgerTypes
<1>RouteFails. ASSUME TypeOK, RouteFails PROVE TypeOK'
  BY <1>RouteFails DEF RouteFails, TypeOK
<1>Dispatch. ASSUME TypeOK, NEW e \in Exec, Dispatch(e) PROVE TypeOK'
  BY <1>Dispatch, StepNames DEF Dispatch, Goto, TypeOK
<1>CheckCancelled. ASSUME TypeOK, NEW e \in Exec, CheckCancelled(e) PROVE TypeOK'
  BY <1>CheckCancelled, StepNames DEF CheckCancelled, Goto, TypeOK
<1>RecordCancelled. ASSUME TypeOK, NEW e \in Exec, RecordCancelled(e) PROVE TypeOK'
  <2>1. LedgerTypes'
    BY <1>RecordCancelled, EndTypes DEF RecordCancelled
  <2>2. pc' \in [Exec -> Steps]
    BY <1>RecordCancelled, StepNames DEF RecordCancelled, Goto, TypeOK
  <2> QED BY <1>RecordCancelled, <2>1, <2>2 DEF RecordCancelled, TypeOK, LedgerTypes
<1>ReserveLease. ASSUME TypeOK, NEW e \in Exec, ReserveLease(e) PROVE TypeOK'
  <2>1. holder' \in Exec \cup {NoExec} /\ live' \in BOOLEAN
    BY <1>ReserveLease DEF ReserveLease, TypeOK
  <2>2. pc' \in [Exec -> Steps]
    BY <1>ReserveLease, StepNames DEF ReserveLease, Goto, TypeOK
  <2> QED BY <1>ReserveLease, <2>1, <2>2 DEF ReserveLease, TypeOK
<1>ClaimCheckCancelled. ASSUME TypeOK, NEW e \in Exec, ClaimCheckCancelled(e) PROVE TypeOK'
  BY <1>ClaimCheckCancelled, StepNames DEF ClaimCheckCancelled, Goto, TypeOK
<1>ReadLease. ASSUME TypeOK, NEW e \in Exec, ReadLease(e) PROVE TypeOK'
  BY <1>ReadLease, StepNames DEF ReadLease, Goto, TypeOK
<1>MoveLease. ASSUME TypeOK, NEW e \in Exec, MoveLease(e) PROVE TypeOK'
  <2>1. holder' \in Exec \cup {NoExec} /\ live' \in BOOLEAN
    BY <1>MoveLease DEF MoveLease, TypeOK
  <2>2. pc' \in [Exec -> Steps] /\ seen' \in [Exec -> Exec \cup {NoExec}]
    BY <1>MoveLease, StepNames DEF MoveLease, Goto, TypeOK
  <2> QED BY <1>MoveLease, <2>1, <2>2 DEF MoveLease, TypeOK
<1>ReadTaint. ASSUME TypeOK, NEW e \in Exec, ReadTaint(e) PROVE TypeOK'
  BY <1>ReadTaint, StepNames DEF ReadTaint, Goto, TypeOK
<1>ReadRunEnded. ASSUME TypeOK, NEW e \in Exec, ReadRunEnded(e) PROVE TypeOK'
  BY <1>ReadRunEnded, StepNames DEF ReadRunEnded, Goto, TypeOK
<1>ClearInterruptedAttempt. ASSUME TypeOK, NEW e \in Exec, ClearInterruptedAttempt(e) PROVE TypeOK'
  BY <1>ClearInterruptedAttempt, StepNames DEF ClearInterruptedAttempt, Goto, TypeOK
<1>StartRun. ASSUME TypeOK, NEW e \in Exec, StartRun(e) PROVE TypeOK'
  BY <1>StartRun, StepNames DEF StartRun, Goto, TypeOK, Open
<1>CallBackend. ASSUME TypeOK, NEW e \in Exec, CallBackend(e) PROVE TypeOK'
  BY <1>CallBackend, StepNames DEF CallBackend, Goto, TypeOK
<1>CallReturns. ASSUME TypeOK, NEW e \in Exec, CallReturns(e) PROVE TypeOK'
  BY <1>CallReturns, StepNames DEF CallReturns, Goto, TypeOK, Dispose
<1>CallThrows. ASSUME TypeOK, NEW e \in Exec, CallThrows(e) PROVE TypeOK'
  BY <1>CallThrows, StepNames DEF CallThrows, Goto, TypeOK, Dispose
<1>BoundFires. ASSUME TypeOK, NEW e \in Exec, BoundFires(e) PROVE TypeOK'
  BY <1>BoundFires, StepNames DEF BoundFires, Goto, TypeOK
<1>RecordFailed. ASSUME TypeOK, NEW e \in Exec, RecordFailed(e) PROVE TypeOK'
  <2>1. LedgerTypes'
    BY <1>RecordFailed, EndTypes DEF RecordFailed, LedgerTypes, TypeOK
  <2>2. pc' \in [Exec -> Steps]
    BY <1>RecordFailed, StepNames DEF RecordFailed, Goto, TypeOK
  <2> QED BY <1>RecordFailed, <2>1, <2>2 DEF RecordFailed, TypeOK, LedgerTypes
<1>RecordTimedOut. ASSUME TypeOK, NEW e \in Exec, RecordTimedOut(e) PROVE TypeOK'
  BY <1>RecordTimedOut, RecordEndTypes DEF RecordTimedOut
<1>RecordCancelEnd. ASSUME TypeOK, NEW e \in Exec, RecordCancelEnd(e) PROVE TypeOK'
  BY <1>RecordCancelEnd, RecordEndTypes DEF RecordCancelEnd
<1>LandRecord. ASSUME TypeOK, NEW e \in Exec, LandRecord(e) PROVE TypeOK'
  <2>1. late[e] \in {"bound", "cancelled"}
    BY <1>LandRecord DEF LandRecord, TypeOK
  <2>2. LedgerTypes'
    BY <1>LandRecord, <2>1, RecordedTypes DEF LandRecord
  <2>3. late' \in [Exec -> {"none", "bound", "cancelled"}]
    BY <1>LandRecord DEF LandRecord, TypeOK
  <2> QED BY <1>LandRecord, <2>2, <2>3 DEF LandRecord, TypeOK, LedgerTypes
<1>ConfirmNotCancelled. ASSUME TypeOK, NEW e \in Exec, ConfirmNotCancelled(e) PROVE TypeOK'
  <2>1. LedgerTypes'
    BY <1>ConfirmNotCancelled, ObservedTypes DEF ConfirmNotCancelled, Phases, LedgerTypes, TypeOK
  <2>2. pc' \in [Exec -> Steps]
    BY <1>ConfirmNotCancelled, StepNames DEF ConfirmNotCancelled, Goto, TypeOK
  <2> QED BY <1>ConfirmNotCancelled, <2>1, <2>2 DEF ConfirmNotCancelled, TypeOK, LedgerTypes
<1>CompleteRun. ASSUME TypeOK, NEW e \in Exec, CompleteRun(e) PROVE TypeOK'
  BY <1>CompleteRun, StepNames DEF CompleteRun, Goto, TypeOK, Terminal
<1>InsertTranscript. ASSUME TypeOK, NEW e \in Exec, InsertTranscript(e) PROVE TypeOK'
  BY <1>InsertTranscript, StepNames DEF InsertTranscript, Goto, TypeOK
<1>CatchRun. ASSUME TypeOK, NEW e \in Exec, CatchRun(e) PROVE TypeOK'
  <2>1. LedgerTypes'
    BY <1>CatchRun, EndTypes DEF CatchRun, LedgerTypes, TypeOK
  <2>2. pc' \in [Exec -> Steps] /\ stop' \in [Exec -> BOOLEAN]
    BY <1>CatchRun, StepNames DEF CatchRun, Goto, TypeOK
  <2> QED BY <1>CatchRun, <2>1, <2>2 DEF CatchRun, TypeOK, LedgerTypes
<1>ReleaseLease. ASSUME TypeOK, NEW e \in Exec, ReleaseLease(e) PROVE TypeOK'
  <2>1. live' \in BOOLEAN
    BY <1>ReleaseLease DEF ReleaseLease, TypeOK
  <2>2. pc' \in [Exec -> Steps]
    BY <1>ReleaseLease, StepNames DEF ReleaseLease, Goto, TypeOK
  <2> QED BY <1>ReleaseLease, <2>1, <2>2 DEF ReleaseLease, TypeOK
<1>FinishJob. ASSUME TypeOK, NEW e \in Exec, FinishJob(e) PROVE TypeOK'
  BY <1>FinishJob, StepNames DEF FinishJob, Goto, TypeOK, EngineEnded
<1>Deny. ASSUME TypeOK, NEW e \in Exec, Deny(e) PROVE TypeOK'
  BY <1>Deny, StepNames DEF Deny, Goto, TypeOK
<1>StepThrows. ASSUME TypeOK, NEW e \in Exec, StepThrows(e) PROVE TypeOK'
  BY <1>StepThrows, StepNames DEF StepThrows, Goto, TypeOK
<1>PreflightRefuses. ASSUME TypeOK, NEW e \in Exec, PreflightRefuses(e) PROVE TypeOK'
  BY <1>PreflightRefuses, StepNames DEF PreflightRefuses, Goto, TypeOK
<1>LoseLease. ASSUME TypeOK, NEW e \in Exec, LoseLease(e) PROVE TypeOK'
  <2>1. pc' \in [Exec -> Steps] /\ stop' \in [Exec -> BOOLEAN]
    BY <1>LoseLease, AbortTypes DEF LoseLease
  <2> QED BY <1>LoseLease, <2>1 DEF LoseLease, TypeOK
<1>PollCancelled. ASSUME TypeOK, NEW e \in Exec, PollCancelled(e) PROVE TypeOK'
  BY <1>PollCancelled, StepNames DEF PollCancelled, Goto, TypeOK
<1>RenewLease. ASSUME TypeOK, NEW e \in Exec, RenewLease(e) PROVE TypeOK'
  <2>1. live' \in BOOLEAN
    BY <1>RenewLease DEF RenewLease
  <2> QED BY <1>RenewLease, <2>1 DEF RenewLease, TypeOK
<1>AdmitTool. ASSUME TypeOK, NEW e \in Exec, AdmitTool(e) PROVE TypeOK'
  BY <1>AdmitTool, StepNames DEF AdmitTool, Goto, TypeOK
<1>MarkRunTainted. ASSUME TypeOK, NEW e \in Exec, MarkRunTainted(e) PROVE TypeOK'
  <2>1. taint' \in BOOLEAN /\ tool' \in [Exec -> {"idle", "admitted", "marked"}]
    BY <1>MarkRunTainted DEF MarkRunTainted, TypeOK
  <2> QED BY <1>MarkRunTainted, <2>1 DEF MarkRunTainted, TypeOK
<1>RunHandler. ASSUME TypeOK, NEW e \in Exec, RunHandler(e) PROVE TypeOK'
  BY <1>RunHandler, StepNames DEF RunHandler, Goto, TypeOK
<1>Crash. ASSUME TypeOK, NEW P \in Processes, Crash(P) PROVE TypeOK'
  <2>1. pc' \in [Exec -> Steps]
    BY <1>Crash, StepNames DEF Crash, TypeOK
  <2>2. /\ tool' \in [Exec -> {"idle", "admitted", "marked"}]
        /\ seen' \in [Exec -> Exec \cup {NoExec}]
        /\ stop' \in [Exec -> BOOLEAN]
    BY <1>Crash DEF Crash, TypeOK
  <2>3. /\ liveRun' \in Local \cup {NoExec}
        /\ enqueue' \in {"header", "job", "withdraw", "done", "dead"}
        /\ route' \in {"idle", "mark", "signal", "engine", "record", "done", "dead"}
        /\ routePhase' \in {"none"} \cup Phases
    BY <1>Crash DEF Crash, TypeOK
  <2>4. late' \in [Exec -> {"none", "bound", "cancelled"}]
    BY <1>Crash DEF Crash, TypeOK
  <2> QED BY <1>Crash, <2>1, <2>2, <2>3, <2>4 DEF Crash, TypeOK
<1>stutter. ASSUME TypeOK, UNCHANGED vars PROVE TypeOK'
  BY <1>stutter DEF TypeOK
<1>step. TypeOK /\ [Next]_vars => TypeOK'
  BY <1>InsertEnqueuedHeader, <1>EnqueueJob, <1>EnqueueRefused,
     <1>WithdrawHeader, <1>DeadLetter, <1>LeaseExpires, <1>LeaseLapses,
     <1>ReadHeaderPhase, <1>MarkRunCancelled, <1>SignalRunCancelled,
     <1>CancelJob, <1>RecordRouteCancelled, <1>RouteFails, <1>Dispatch,
     <1>CheckCancelled, <1>RecordCancelled, <1>ReserveLease,
     <1>ClaimCheckCancelled, <1>ReadLease, <1>MoveLease, <1>ReadTaint,
     <1>ReadRunEnded, <1>ClearInterruptedAttempt, <1>StartRun,
     <1>CallBackend, <1>CallReturns, <1>CallThrows, <1>BoundFires,
     <1>RecordFailed, <1>RecordTimedOut, <1>RecordCancelEnd,
     <1>ConfirmNotCancelled, <1>CompleteRun, <1>InsertTranscript,
     <1>CatchRun, <1>ReleaseLease, <1>FinishJob, <1>Deny, <1>StepThrows,
     <1>PreflightRefuses, <1>LoseLease, <1>PollCancelled, <1>RenewLease,
     <1>AdmitTool, <1>MarkRunTainted, <1>RunHandler, <1>LandRecord,
     <1>Crash, <1>stutter
     DEF Next, EnqueueStep, RouteStep, Advance, Interrupt, ToolStep
<1> QED BY <1>init, <1>step, PTL DEF Spec


-----------------------------------------------------------------------------
(* Whatever fails.  Order relates each actor's progress to the rows it has  *)
(* already written.                                                        *)

\* Every step keeps the order: an actor moves on only after its write.
LEMMA OrderStep ==
  ASSUME TypeOK, Order, [Next]_vars
  PROVE  Order'
<1> USE DEF Fresh, Waiting, InCall, Started, Uncalled, Open
<1>frame. ASSUME \/ LeaseExpires \/ LeaseLapses \/ ReadHeaderPhase
                 \/ RouteFails
                 \/ \E e \in Exec : \/ RenewLease(e) \/ AdmitTool(e)
                                    \/ MarkRunTainted(e) \/ RunHandler(e)
          PROVE  Order'
  <2>1. UNCHANGED <<barred, called, cancelled, engine, enqueue, header, pc>>
    BY <1>frame DEF LeaseExpires, LeaseLapses, ReadHeaderPhase, RouteFails,
       RenewLease, AdmitTool, MarkRunTainted, RunHandler
  <2> QED BY <2>1 DEF Order
<1>InsertEnqueuedHeader. ASSUME InsertEnqueuedHeader PROVE Order'
  BY <1>InsertEnqueuedHeader DEF InsertEnqueuedHeader, Order, TypeOK
<1>EnqueueJob. ASSUME EnqueueJob PROVE Order'
  BY <1>EnqueueJob DEF EnqueueJob, Order, TypeOK
<1>EnqueueRefused. ASSUME EnqueueRefused PROVE Order'
  BY <1>EnqueueRefused DEF EnqueueRefused, Order, TypeOK
<1>WithdrawHeader. ASSUME WithdrawHeader PROVE Order'
  BY <1>WithdrawHeader DEF WithdrawHeader, Order, TypeOK
<1>DeadLetter. ASSUME DeadLetter PROVE Order'
  BY <1>DeadLetter DEF DeadLetter, Order, TypeOK
<1>MarkRunCancelled. ASSUME MarkRunCancelled PROVE Order'
  BY <1>MarkRunCancelled DEF MarkRunCancelled, Order, TypeOK
<1>SignalRunCancelled. ASSUME SignalRunCancelled PROVE Order'
  BY <1>SignalRunCancelled DEF SignalRunCancelled, Abort, Abortable, Goto,
       Order, TypeOK
<1>CancelJob. ASSUME CancelJob PROVE Order'
  BY <1>CancelJob DEF CancelJob, Order, TypeOK
<1>RecordRouteCancelled. ASSUME RecordRouteCancelled PROVE Order'
  BY <1>RecordRouteCancelled DEF RecordRouteCancelled, RecordRunEnded, Order,
       TypeOK
<1>Dispatch. ASSUME NEW e \in Exec, Dispatch(e) PROVE Order'
  BY <1>Dispatch DEF Dispatch, Goto, Order, TypeOK
<1>CheckCancelled. ASSUME NEW e \in Exec, CheckCancelled(e) PROVE Order'
  BY <1>CheckCancelled DEF CheckCancelled, Goto, Order, TypeOK
<1>RecordCancelled. ASSUME NEW e \in Exec, RecordCancelled(e) PROVE Order'
  BY <1>RecordCancelled DEF RecordCancelled, RecordRunEnded, Goto, Order,
       TypeOK
<1>ReserveLease. ASSUME NEW e \in Exec, ReserveLease(e) PROVE Order'
  BY <1>ReserveLease DEF ReserveLease, Goto, Order, TypeOK
<1>ClaimCheckCancelled. ASSUME NEW e \in Exec, ClaimCheckCancelled(e) PROVE Order'
  BY <1>ClaimCheckCancelled DEF ClaimCheckCancelled, Goto, Order, TypeOK
<1>ReadLease. ASSUME NEW e \in Exec, ReadLease(e) PROVE Order'
  BY <1>ReadLease DEF ReadLease, Goto, Order, TypeOK
<1>MoveLease. ASSUME NEW e \in Exec, MoveLease(e) PROVE Order'
  BY <1>MoveLease DEF MoveLease, Goto, Order, TypeOK
<1>ReadTaint. ASSUME NEW e \in Exec, ReadTaint(e) PROVE Order'
  BY <1>ReadTaint DEF ReadTaint, Goto, Order, TypeOK
<1>ReadRunEnded. ASSUME NEW e \in Exec, ReadRunEnded(e) PROVE Order'
  BY <1>ReadRunEnded DEF ReadRunEnded, Goto, Order, TypeOK
<1>ClearInterruptedAttempt. ASSUME NEW e \in Exec, ClearInterruptedAttempt(e) PROVE Order'
  BY <1>ClearInterruptedAttempt DEF ClearInterruptedAttempt, Goto, Order,
       TypeOK
<1>StartRun. ASSUME NEW e \in Exec, StartRun(e) PROVE Order'
  BY <1>StartRun DEF StartRun, Goto, Order, TypeOK
<1>CallBackend. ASSUME NEW e \in Exec, CallBackend(e) PROVE Order'
  BY <1>CallBackend DEF CallBackend, Goto, Order, TypeOK
<1>CallReturns. ASSUME NEW e \in Exec, CallReturns(e) PROVE Order'
  BY <1>CallReturns DEF CallReturns, Goto, Order, TypeOK
<1>CallThrows. ASSUME NEW e \in Exec, CallThrows(e) PROVE Order'
  BY <1>CallThrows DEF CallThrows, Goto, Order, TypeOK
<1>BoundFires. ASSUME NEW e \in Exec, BoundFires(e) PROVE Order'
  BY <1>BoundFires DEF BoundFires, Goto, Order, TypeOK
<1>RecordFailed. ASSUME NEW e \in Exec, RecordFailed(e) PROVE Order'
  BY <1>RecordFailed DEF RecordFailed, RecordRunEnded, Goto, Order, TypeOK
<1>RecordTimedOut. ASSUME NEW e \in Exec, RecordTimedOut(e) PROVE Order'
  BY <1>RecordTimedOut, EndedOrLeft DEF RecordTimedOut, RecordEnd, Goto,
       Order, TypeOK
<1>RecordCancelEnd. ASSUME NEW e \in Exec, RecordCancelEnd(e) PROVE Order'
  BY <1>RecordCancelEnd, EndedOrLeft DEF RecordCancelEnd, RecordEnd, Goto,
       Order, TypeOK
<1>LandRecord. ASSUME NEW e \in Exec, LandRecord(e) PROVE Order'
  BY <1>LandRecord, EndedOrLeft DEF LandRecord, Order, Started, TypeOK
<1>ConfirmNotCancelled. ASSUME NEW e \in Exec, ConfirmNotCancelled(e) PROVE Order'
  BY <1>ConfirmNotCancelled DEF ConfirmNotCancelled, RecordObservedCancel,
       RecordRunEnded, Goto, Order, TypeOK
<1>CompleteRun. ASSUME NEW e \in Exec, CompleteRun(e) PROVE Order'
  BY <1>CompleteRun DEF CompleteRun, Goto, Order, TypeOK
<1>InsertTranscript. ASSUME NEW e \in Exec, InsertTranscript(e) PROVE Order'
  BY <1>InsertTranscript DEF InsertTranscript, Goto, Order, TypeOK
<1>CatchRun. ASSUME NEW e \in Exec, CatchRun(e) PROVE Order'
  BY <1>CatchRun DEF CatchRun, RecordRunEnded, Goto, Order, TypeOK
<1>ReleaseLease. ASSUME NEW e \in Exec, ReleaseLease(e) PROVE Order'
  BY <1>ReleaseLease DEF ReleaseLease, Goto, Order, TypeOK
<1>FinishJob. ASSUME NEW e \in Exec, FinishJob(e) PROVE Order'
  BY <1>FinishJob DEF FinishJob, Goto, Order, TypeOK
<1>Deny. ASSUME NEW e \in Exec, Deny(e) PROVE Order'
  BY <1>Deny DEF Deny, Goto, Order, TypeOK
<1>StepThrows. ASSUME NEW e \in Exec, StepThrows(e) PROVE Order'
  BY <1>StepThrows DEF StepThrows, Goto, Order, TypeOK
<1>PreflightRefuses. ASSUME NEW e \in Exec, PreflightRefuses(e) PROVE Order'
  BY <1>PreflightRefuses DEF PreflightRefuses, Goto, Order, TypeOK
<1>LoseLease. ASSUME NEW e \in Exec, LoseLease(e) PROVE Order'
  BY <1>LoseLease DEF LoseLease, Abort, Abortable, Goto, Order, TypeOK
<1>PollCancelled. ASSUME NEW e \in Exec, PollCancelled(e) PROVE Order'
  BY <1>PollCancelled DEF PollCancelled, Goto, Order, TypeOK
<1>Crash. ASSUME NEW P \in Processes, Crash(P) PROVE Order'
  BY <1>Crash DEF Crash, Running, Stopped, Requests, Order, TypeOK
<1>stutter. ASSUME UNCHANGED vars PROVE Order'
  BY <1>stutter DEF Order
<1> QED BY <1>frame, <1>InsertEnqueuedHeader, <1>EnqueueJob, <1>EnqueueRefused,
       <1>WithdrawHeader, <1>DeadLetter, <1>MarkRunCancelled,
       <1>SignalRunCancelled, <1>CancelJob, <1>RecordRouteCancelled,
       <1>Dispatch, <1>CheckCancelled, <1>RecordCancelled, <1>ReserveLease,
       <1>ClaimCheckCancelled, <1>ReadLease, <1>MoveLease, <1>ReadTaint,
       <1>ReadRunEnded, <1>ClearInterruptedAttempt, <1>StartRun,
       <1>CallBackend, <1>CallReturns, <1>CallThrows, <1>BoundFires,
       <1>RecordFailed, <1>RecordTimedOut, <1>RecordCancelEnd,
       <1>ConfirmNotCancelled, <1>CompleteRun, <1>InsertTranscript,
       <1>CatchRun, <1>ReleaseLease, <1>FinishJob, <1>Deny, <1>StepThrows,
       <1>PreflightRefuses, <1>LoseLease, <1>PollCancelled, <1>LandRecord, <1>Crash,
       <1>stutter
     DEF Next, EnqueueStep, RouteStep, Advance, Interrupt, ToolStep

\* The rows and the actors keep the order in which the handlers write: the
\* header before the job, the job before a dispatch, the marker before a
\* dispatch it bars.
THEOREM OrderAlways == Spec => []Order
<1>1. Init => Order
  <2> SUFFICES ASSUME Init PROVE Order
    OBVIOUS
  <2> QED BY DEF Init, Order, Started, InCall
<1>2. TypeOK /\ Order /\ [Next]_vars => Order'
  BY OrderStep
<1> QED BY TypeCorrect, <1>1, <1>2, PTL DEF Spec

\* A cancelled run is not called by a later dispatch, whatever read or write
\* fails and whatever lease lapses.
THEOREM CancelledStaysUncalled == Spec => []BarredNeverCalls
<1>1. Order => BarredNeverCalls
  BY DEF Order, BarredNeverCalls
<1> QED BY OrderAlways, <1>1, PTL

-----------------------------------------------------------------------------
(* What a step does to the ledger, whatever fails: one step of RunLedger or *)
(* nothing, except that an effect's execution is not bound here.            *)

\* The end, the start, the withdrawal and the completion of the run are the
\* guarded transitions of RunLedger, whoever makes them.
LEMMA LedgerStep ==
  ASSUME TypeOK, Order, [Next]_vars
  PROVE  \/ UNCHANGED <<header, outputs, fired>>
         \/ Ledger!Announce \/ Ledger!Withdraw \/ Ledger!Begin
         \/ Ledger!End \/ Ledger!Complete
         \/ \E e \in Exec : RunHandler(e)
<1> DEFINE Goal == \/ UNCHANGED <<header, outputs, fired>>
                   \/ Ledger!Announce \/ Ledger!Withdraw \/ Ledger!Begin
                   \/ Ledger!End \/ Ledger!Complete
                   \/ \E e \in Exec : RunHandler(e)
<1> SUFFICES Goal
  OBVIOUS
<1> USE DEF Ledger!Announce, Ledger!Withdraw, Ledger!Begin, Ledger!End,
            Ledger!Complete
<1>frame. ASSUME \/ EnqueueJob \/ EnqueueRefused \/ DeadLetter
                 \/ LeaseExpires \/ LeaseLapses \/ ReadHeaderPhase
                 \/ MarkRunCancelled \/ SignalRunCancelled \/ CancelJob
                 \/ RouteFails
                 \/ \E e \in Exec : \/ Dispatch(e) \/ CheckCancelled(e)
                                    \/ ReserveLease(e) \/ ClaimCheckCancelled(e)
                                    \/ ReadLease(e) \/ MoveLease(e)
                                    \/ ReadTaint(e) \/ ReadRunEnded(e)
                                    \/ ClearInterruptedAttempt(e)
                                    \/ CallBackend(e) \/ CallReturns(e)
                                    \/ CallThrows(e) \/ BoundFires(e)
                                    \/ InsertTranscript(e) \/ ReleaseLease(e)
                                    \/ FinishJob(e) \/ Deny(e) \/ StepThrows(e)
                                    \/ PreflightRefuses(e) \/ LoseLease(e)
                                    \/ PollCancelled(e) \/ RenewLease(e)
                                    \/ AdmitTool(e) \/ MarkRunTainted(e)
          PROVE  Goal
  <2>1. UNCHANGED <<header, outputs, fired>>
    BY <1>frame DEF EnqueueJob, EnqueueRefused, DeadLetter, LeaseExpires,
       LeaseLapses, ReadHeaderPhase, MarkRunCancelled, SignalRunCancelled,
       CancelJob, RouteFails, Dispatch, CheckCancelled, ReserveLease,
       ClaimCheckCancelled, ReadLease, MoveLease, ReadTaint, ReadRunEnded,
       ClearInterruptedAttempt, CallBackend, CallReturns, CallThrows,
       BoundFires, InsertTranscript, ReleaseLease, FinishJob, Deny, StepThrows,
       PreflightRefuses, LoseLease, PollCancelled, RenewLease, AdmitTool,
       MarkRunTainted
  <2> QED BY <2>1
<1>InsertEnqueuedHeader. ASSUME InsertEnqueuedHeader PROVE Goal
  BY <1>InsertEnqueuedHeader DEF InsertEnqueuedHeader, Order
<1>WithdrawHeader. ASSUME WithdrawHeader PROVE Goal
  BY <1>WithdrawHeader DEF WithdrawHeader
<1>RecordRouteCancelled. ASSUME RecordRouteCancelled PROVE Goal
  BY <1>RecordRouteCancelled DEF RecordRouteCancelled, RecordRunEnded, Open
<1>RecordCancelled. ASSUME NEW e \in Exec, RecordCancelled(e) PROVE Goal
  BY <1>RecordCancelled DEF RecordCancelled, RecordRunEnded, Open
<1>StartRun. ASSUME NEW e \in Exec, StartRun(e) PROVE Goal
  BY <1>StartRun DEF StartRun, TypeOK, Order, Started, Open, Terminal
<1>RecordFailed. ASSUME NEW e \in Exec, RecordFailed(e) PROVE Goal
  BY <1>RecordFailed DEF RecordFailed, RecordRunEnded, Open
<1>RecordTimedOut. ASSUME NEW e \in Exec, RecordTimedOut(e) PROVE Goal
  BY <1>RecordTimedOut, EndedOrLeft DEF RecordTimedOut, RecordEnd, Open
<1>RecordCancelEnd. ASSUME NEW e \in Exec, RecordCancelEnd(e) PROVE Goal
  BY <1>RecordCancelEnd, EndedOrLeft DEF RecordCancelEnd, RecordEnd, Open
<1>LandRecord. ASSUME NEW e \in Exec, LandRecord(e) PROVE Goal
  BY <1>LandRecord, EndedOrLeft DEF LandRecord, Open
<1>ConfirmNotCancelled. ASSUME NEW e \in Exec, ConfirmNotCancelled(e) PROVE Goal
  BY <1>ConfirmNotCancelled DEF ConfirmNotCancelled, RecordObservedCancel,
       RecordRunEnded, Open
<1>CompleteRun. ASSUME NEW e \in Exec, CompleteRun(e) PROVE Goal
  BY <1>CompleteRun DEF CompleteRun, TypeOK, Order, Started, Open, Terminal
<1>CatchRun. ASSUME NEW e \in Exec, CatchRun(e) PROVE Goal
  BY <1>CatchRun DEF CatchRun, RecordRunEnded, Open
<1>RunHandler. ASSUME NEW e \in Exec, RunHandler(e) PROVE Goal
  BY <1>RunHandler
<1>Crash. ASSUME NEW P \in Processes, Crash(P) PROVE Goal
  BY <1>Crash DEF Crash
<1>stutter. ASSUME UNCHANGED vars PROVE Goal
  BY <1>stutter
<1> QED BY <1>frame, <1>InsertEnqueuedHeader, <1>WithdrawHeader,
       <1>RecordRouteCancelled, <1>RecordCancelled, <1>StartRun,
       <1>RecordFailed, <1>RecordTimedOut, <1>RecordCancelEnd,
       <1>ConfirmNotCancelled, <1>CompleteRun, <1>CatchRun, <1>RunHandler,
       <1>LandRecord, <1>Crash, <1>stutter
     DEF Next, EnqueueStep, RouteStep, Advance, Interrupt, ToolStep

\* The output row is written once, by the statement that completes the run.
THEOREM OutputAtMostOnce == Spec => []OutputOnce
<1> USE DEF OutputOnce
<1>1. Init => OutputOnce
  BY DEF Init
<1>2. TypeOK /\ Order /\ OutputOnce /\ [Next]_vars => OutputOnce'
  <2> SUFFICES ASSUME TypeOK, Order, OutputOnce, [Next]_vars
               PROVE  OutputOnce'
    OBVIOUS
  <2> USE DEF Ledger!Announce, Ledger!Withdraw, Ledger!Begin, Ledger!End,
              Ledger!Complete, RunHandler, TypeOK
  <2> QED BY LedgerStep
<1> QED BY TypeCorrect, OrderAlways, <1>1, <1>2, PTL DEF Spec

\* A completed run stays completed: no withdrawal, cancellation, failure or
\* second execution takes its header back.
THEOREM CompletedStays == Spec => CompletedIsFinal
<1>1. TypeOK /\ Order /\ [Next]_vars
        => [header = "completed" => header' = "completed"]_vars
  <2> SUFFICES ASSUME TypeOK, Order, [Next]_vars, header = "completed"
               PROVE  header' = "completed"
    OBVIOUS
  <2> USE DEF Ledger!Announce, Ledger!Withdraw, Ledger!Begin, Ledger!End,
              Ledger!Complete, RunHandler
  <2> QED BY LedgerStep
<1> QED BY TypeCorrect, OrderAlways, <1>1, PTL DEF Spec, CompletedIsFinal

-----------------------------------------------------------------------------
(* While no lease lapses under a live execution: reads and writes may fail.  *)

\* A lease moves only to who found it unheld or expired, and an expired lease
\* has nobody at work under it.
LEMMA MutexStep ==
  ASSUME "lapse" \notin Faults, TypeOK, Mutex, [Next]_vars
  PROVE  Mutex'
<1> USE DurableRunAssumption DEF Fresh, Waiting, Holding, Renewing
<1>frame. ASSUME \/ InsertEnqueuedHeader \/ EnqueueJob \/ EnqueueRefused
                 \/ WithdrawHeader \/ DeadLetter \/ ReadHeaderPhase
                 \/ MarkRunCancelled \/ CancelJob \/ RecordRouteCancelled
                 \/ RouteFails
                 \/ \E e \in Exec : \/ AdmitTool(e) \/ MarkRunTainted(e)
                                    \/ RunHandler(e) \/ LandRecord(e)
          PROVE  Mutex'
  <2>1. UNCHANGED <<holder, live, pc, seen>>
    BY <1>frame DEF InsertEnqueuedHeader, EnqueueJob, EnqueueRefused,
       WithdrawHeader, DeadLetter, ReadHeaderPhase, MarkRunCancelled,
       CancelJob, RecordRouteCancelled, RouteFails, AdmitTool, MarkRunTainted,
       RunHandler, LandRecord
  <2> QED BY <2>1 DEF Mutex
<1>LeaseExpires. ASSUME LeaseExpires PROVE Mutex'
  BY <1>LeaseExpires DEF LeaseExpires, Mutex, TypeOK
<1>LeaseLapses. ASSUME LeaseLapses PROVE Mutex'
  BY <1>LeaseLapses DEF LeaseLapses, Mutex, TypeOK
<1>SignalRunCancelled. ASSUME SignalRunCancelled PROVE Mutex'
  BY <1>SignalRunCancelled DEF SignalRunCancelled, Abort, Abortable, Goto,
       Mutex, TypeOK
<1>Dispatch. ASSUME NEW e \in Exec, Dispatch(e) PROVE Mutex'
  BY <1>Dispatch DEF Dispatch, Goto, Mutex, TypeOK
<1>CheckCancelled. ASSUME NEW e \in Exec, CheckCancelled(e) PROVE Mutex'
  BY <1>CheckCancelled DEF CheckCancelled, Goto, Mutex, TypeOK
<1>RecordCancelled. ASSUME NEW e \in Exec, RecordCancelled(e) PROVE Mutex'
  BY <1>RecordCancelled DEF RecordCancelled, RecordRunEnded, Goto, Mutex,
       TypeOK
<1>ReserveLease. ASSUME NEW e \in Exec, ReserveLease(e) PROVE Mutex'
  BY <1>ReserveLease DEF ReserveLease, Goto, Mutex, TypeOK
<1>ClaimCheckCancelled. ASSUME NEW e \in Exec, ClaimCheckCancelled(e) PROVE Mutex'
  BY <1>ClaimCheckCancelled DEF ClaimCheckCancelled, Goto, Mutex, TypeOK
<1>ReadLease. ASSUME NEW e \in Exec, ReadLease(e) PROVE Mutex'
  BY <1>ReadLease DEF ReadLease, Goto, Mutex, TypeOK
<1>MoveLease. ASSUME NEW e \in Exec, MoveLease(e) PROVE Mutex'
  BY <1>MoveLease DEF MoveLease, Goto, Mutex, TypeOK
<1>ReadTaint. ASSUME NEW e \in Exec, ReadTaint(e) PROVE Mutex'
  BY <1>ReadTaint DEF ReadTaint, Goto, Mutex, TypeOK
<1>ReadRunEnded. ASSUME NEW e \in Exec, ReadRunEnded(e) PROVE Mutex'
  BY <1>ReadRunEnded DEF ReadRunEnded, Goto, Mutex, TypeOK
<1>ClearInterruptedAttempt. ASSUME NEW e \in Exec, ClearInterruptedAttempt(e) PROVE Mutex'
  BY <1>ClearInterruptedAttempt DEF ClearInterruptedAttempt, Goto, Mutex,
       TypeOK
<1>StartRun. ASSUME NEW e \in Exec, StartRun(e) PROVE Mutex'
  BY <1>StartRun DEF StartRun, Goto, Mutex, TypeOK
<1>CallBackend. ASSUME NEW e \in Exec, CallBackend(e) PROVE Mutex'
  BY <1>CallBackend DEF CallBackend, Goto, Mutex, TypeOK
<1>CallReturns. ASSUME NEW e \in Exec, CallReturns(e) PROVE Mutex'
  BY <1>CallReturns DEF CallReturns, Goto, Mutex, TypeOK
<1>CallThrows. ASSUME NEW e \in Exec, CallThrows(e) PROVE Mutex'
  BY <1>CallThrows DEF CallThrows, Goto, Mutex, TypeOK
<1>BoundFires. ASSUME NEW e \in Exec, BoundFires(e) PROVE Mutex'
  BY <1>BoundFires DEF BoundFires, Goto, Mutex, TypeOK
<1>RecordFailed. ASSUME NEW e \in Exec, RecordFailed(e) PROVE Mutex'
  BY <1>RecordFailed DEF RecordFailed, RecordRunEnded, Goto, Mutex, TypeOK
<1>RecordTimedOut. ASSUME NEW e \in Exec, RecordTimedOut(e) PROVE Mutex'
  BY <1>RecordTimedOut DEF RecordTimedOut, RecordEnd, Goto, Mutex, TypeOK
<1>RecordCancelEnd. ASSUME NEW e \in Exec, RecordCancelEnd(e) PROVE Mutex'
  BY <1>RecordCancelEnd DEF RecordCancelEnd, RecordEnd, Goto, Mutex, TypeOK
<1>ConfirmNotCancelled. ASSUME NEW e \in Exec, ConfirmNotCancelled(e) PROVE Mutex'
  BY <1>ConfirmNotCancelled DEF ConfirmNotCancelled, RecordObservedCancel,
       RecordRunEnded, Goto, Mutex, TypeOK
<1>CompleteRun. ASSUME NEW e \in Exec, CompleteRun(e) PROVE Mutex'
  BY <1>CompleteRun DEF CompleteRun, Goto, Mutex, TypeOK
<1>InsertTranscript. ASSUME NEW e \in Exec, InsertTranscript(e) PROVE Mutex'
  BY <1>InsertTranscript DEF InsertTranscript, Goto, Mutex, TypeOK
<1>CatchRun. ASSUME NEW e \in Exec, CatchRun(e) PROVE Mutex'
  BY <1>CatchRun DEF CatchRun, RecordRunEnded, Goto, Mutex, TypeOK
<1>ReleaseLease. ASSUME NEW e \in Exec, ReleaseLease(e) PROVE Mutex'
  BY <1>ReleaseLease DEF ReleaseLease, Goto, Mutex, TypeOK
<1>FinishJob. ASSUME NEW e \in Exec, FinishJob(e) PROVE Mutex'
  BY <1>FinishJob DEF FinishJob, Goto, Mutex, TypeOK
<1>Deny. ASSUME NEW e \in Exec, Deny(e) PROVE Mutex'
  BY <1>Deny DEF Deny, Goto, Mutex, TypeOK
<1>StepThrows. ASSUME NEW e \in Exec, StepThrows(e) PROVE Mutex'
  BY <1>StepThrows DEF StepThrows, Goto, Mutex, TypeOK
<1>PreflightRefuses. ASSUME NEW e \in Exec, PreflightRefuses(e) PROVE Mutex'
  BY <1>PreflightRefuses DEF PreflightRefuses, Goto, Mutex, TypeOK
<1>LoseLease. ASSUME NEW e \in Exec, LoseLease(e) PROVE Mutex'
  BY <1>LoseLease DEF LoseLease, Abort, Abortable, Goto, Mutex, TypeOK
<1>PollCancelled. ASSUME NEW e \in Exec, PollCancelled(e) PROVE Mutex'
  BY <1>PollCancelled DEF PollCancelled, Goto, Mutex, TypeOK
<1>RenewLease. ASSUME NEW e \in Exec, RenewLease(e) PROVE Mutex'
  BY <1>RenewLease DEF RenewLease, Mutex, TypeOK
<1>Crash. ASSUME NEW P \in Processes, Crash(P) PROVE Mutex'
  BY <1>Crash DEF Crash, Running, Stopped, Mutex, TypeOK
<1>stutter. ASSUME UNCHANGED vars PROVE Mutex'
  BY <1>stutter DEF Mutex
<1> QED BY <1>frame, <1>LeaseExpires, <1>LeaseLapses, <1>SignalRunCancelled,
       <1>Dispatch, <1>CheckCancelled, <1>RecordCancelled, <1>ReserveLease,
       <1>ClaimCheckCancelled, <1>ReadLease, <1>MoveLease, <1>ReadTaint,
       <1>ReadRunEnded, <1>ClearInterruptedAttempt, <1>StartRun,
       <1>CallBackend, <1>CallReturns, <1>CallThrows, <1>BoundFires,
       <1>RecordFailed, <1>RecordTimedOut, <1>RecordCancelEnd,
       <1>ConfirmNotCancelled, <1>CompleteRun, <1>InsertTranscript,
       <1>CatchRun, <1>ReleaseLease, <1>FinishJob, <1>Deny, <1>StepThrows,
       <1>PreflightRefuses, <1>LoseLease, <1>PollCancelled, <1>RenewLease,
       <1>Crash, <1>stutter
     DEF Next, EnqueueStep, RouteStep, Advance, Interrupt, ToolStep

\* The lease marker names whoever executes the run.
THEOREM MutexAlways ==
  ASSUME "lapse" \notin Faults
  PROVE  Spec => []Mutex
<1>1. Init => Mutex
  <2> SUFFICES ASSUME Init PROVE Mutex
    OBVIOUS
  <2> QED BY DurableRunAssumption DEF Init, Mutex, Holding, Renewing, Waiting
<1>2. TypeOK /\ Mutex /\ [Next]_vars => Mutex'
  BY MutexStep
<1> QED BY TypeCorrect, <1>1, <1>2, PTL DEF Spec

\* However often the engine dispatches the run, one execution at a time is
\* between taking the lease and giving it up.
THEOREM NoTwoExecutions ==
  ASSUME "lapse" \notin Faults
  PROVE  Spec => []OneExecutionAtATime
<1>1. Mutex => OneExecutionAtATime
  BY DEF Mutex, OneExecutionAtATime, Executing
<1> QED BY MutexAlways, <1>1, PTL

\* An execution stops when the route signals it, when it reads the marker or
\* when it loses its lease; the first two follow the marker, the third cannot be.
LEMMA CancellingStep ==
  ASSUME "lapse" \notin Faults, TypeOK, Mutex, Cancelling, [Next]_vars
  PROVE  Cancelling'
<1> USE DEF Holding, Renewing, Mutex
<1>frame. ASSUME \/ InsertEnqueuedHeader \/ EnqueueJob \/ EnqueueRefused
                 \/ WithdrawHeader \/ DeadLetter \/ LeaseExpires
                 \/ LeaseLapses
                 \/ \E e \in Exec : \/ RenewLease(e) \/ AdmitTool(e)
                                    \/ MarkRunTainted(e) \/ RunHandler(e) \/ LandRecord(e)
          PROVE  Cancelling'
  <2>1. UNCHANGED <<cancelled, pc, route, stop>>
    BY <1>frame DEF InsertEnqueuedHeader, EnqueueJob, EnqueueRefused,
       WithdrawHeader, DeadLetter, LeaseExpires, LeaseLapses, RenewLease,
       AdmitTool, MarkRunTainted, RunHandler, LandRecord
  <2> QED BY <2>1 DEF Cancelling
<1>ReadHeaderPhase. ASSUME ReadHeaderPhase PROVE Cancelling'
  BY <1>ReadHeaderPhase DEF ReadHeaderPhase, Cancelling, TypeOK
<1>MarkRunCancelled. ASSUME MarkRunCancelled PROVE Cancelling'
  BY <1>MarkRunCancelled DEF MarkRunCancelled, Cancelling, TypeOK
<1>SignalRunCancelled. ASSUME SignalRunCancelled PROVE Cancelling'
  BY <1>SignalRunCancelled DEF SignalRunCancelled, Abort, Abortable, Goto,
       Cancelling, TypeOK
<1>CancelJob. ASSUME CancelJob PROVE Cancelling'
  BY <1>CancelJob DEF CancelJob, Cancelling, TypeOK
<1>RecordRouteCancelled. ASSUME RecordRouteCancelled PROVE Cancelling'
  BY <1>RecordRouteCancelled DEF RecordRouteCancelled, RecordRunEnded,
       Cancelling, TypeOK
<1>RouteFails. ASSUME RouteFails PROVE Cancelling'
  BY <1>RouteFails DEF RouteFails, Cancelling, TypeOK
<1>Dispatch. ASSUME NEW e \in Exec, Dispatch(e) PROVE Cancelling'
  BY <1>Dispatch DEF Dispatch, Goto, Cancelling, TypeOK
<1>CheckCancelled. ASSUME NEW e \in Exec, CheckCancelled(e) PROVE Cancelling'
  BY <1>CheckCancelled DEF CheckCancelled, Goto, Cancelling, TypeOK
<1>RecordCancelled. ASSUME NEW e \in Exec, RecordCancelled(e) PROVE Cancelling'
  BY <1>RecordCancelled DEF RecordCancelled, RecordRunEnded, Goto, Cancelling,
       TypeOK
<1>ReserveLease. ASSUME NEW e \in Exec, ReserveLease(e) PROVE Cancelling'
  BY <1>ReserveLease DEF ReserveLease, Goto, Cancelling, TypeOK
<1>ClaimCheckCancelled. ASSUME NEW e \in Exec, ClaimCheckCancelled(e) PROVE Cancelling'
  BY <1>ClaimCheckCancelled DEF ClaimCheckCancelled, Goto, Cancelling, TypeOK
<1>ReadLease. ASSUME NEW e \in Exec, ReadLease(e) PROVE Cancelling'
  BY <1>ReadLease DEF ReadLease, Goto, Cancelling, TypeOK
<1>MoveLease. ASSUME NEW e \in Exec, MoveLease(e) PROVE Cancelling'
  BY <1>MoveLease DEF MoveLease, Goto, Cancelling, TypeOK
<1>ReadTaint. ASSUME NEW e \in Exec, ReadTaint(e) PROVE Cancelling'
  BY <1>ReadTaint DEF ReadTaint, Goto, Cancelling, TypeOK
<1>ReadRunEnded. ASSUME NEW e \in Exec, ReadRunEnded(e) PROVE Cancelling'
  BY <1>ReadRunEnded DEF ReadRunEnded, Goto, Cancelling, TypeOK
<1>ClearInterruptedAttempt. ASSUME NEW e \in Exec, ClearInterruptedAttempt(e) PROVE Cancelling'
  BY <1>ClearInterruptedAttempt DEF ClearInterruptedAttempt, Goto, Cancelling,
       TypeOK
<1>StartRun. ASSUME NEW e \in Exec, StartRun(e) PROVE Cancelling'
  BY <1>StartRun DEF StartRun, Goto, Cancelling, TypeOK
<1>CallBackend. ASSUME NEW e \in Exec, CallBackend(e) PROVE Cancelling'
  BY <1>CallBackend DEF CallBackend, Goto, Cancelling, TypeOK
<1>CallReturns. ASSUME NEW e \in Exec, CallReturns(e) PROVE Cancelling'
  BY <1>CallReturns DEF CallReturns, Goto, Cancelling, TypeOK
<1>CallThrows. ASSUME NEW e \in Exec, CallThrows(e) PROVE Cancelling'
  BY <1>CallThrows DEF CallThrows, Goto, Cancelling, TypeOK
<1>BoundFires. ASSUME NEW e \in Exec, BoundFires(e) PROVE Cancelling'
  BY <1>BoundFires DEF BoundFires, Goto, Cancelling, TypeOK
<1>RecordFailed. ASSUME NEW e \in Exec, RecordFailed(e) PROVE Cancelling'
  BY <1>RecordFailed DEF RecordFailed, RecordRunEnded, Goto, Cancelling, TypeOK
<1>RecordTimedOut. ASSUME NEW e \in Exec, RecordTimedOut(e) PROVE Cancelling'
  BY <1>RecordTimedOut DEF RecordTimedOut, RecordEnd, Goto, Cancelling,
       TypeOK
<1>RecordCancelEnd. ASSUME NEW e \in Exec, RecordCancelEnd(e) PROVE Cancelling'
  BY <1>RecordCancelEnd DEF RecordCancelEnd, RecordEnd, Goto, Cancelling,
       TypeOK
<1>ConfirmNotCancelled. ASSUME NEW e \in Exec, ConfirmNotCancelled(e) PROVE Cancelling'
  BY <1>ConfirmNotCancelled DEF ConfirmNotCancelled, RecordObservedCancel,
       RecordRunEnded, Goto, Cancelling, TypeOK
<1>CompleteRun. ASSUME NEW e \in Exec, CompleteRun(e) PROVE Cancelling'
  BY <1>CompleteRun DEF CompleteRun, Goto, Cancelling, TypeOK
<1>InsertTranscript. ASSUME NEW e \in Exec, InsertTranscript(e) PROVE Cancelling'
  BY <1>InsertTranscript DEF InsertTranscript, Goto, Cancelling, TypeOK
<1>CatchRun. ASSUME NEW e \in Exec, CatchRun(e) PROVE Cancelling'
  BY <1>CatchRun DEF CatchRun, RecordRunEnded, Goto, Cancelling, TypeOK
<1>ReleaseLease. ASSUME NEW e \in Exec, ReleaseLease(e) PROVE Cancelling'
  BY <1>ReleaseLease DEF ReleaseLease, Goto, Cancelling, TypeOK
<1>FinishJob. ASSUME NEW e \in Exec, FinishJob(e) PROVE Cancelling'
  BY <1>FinishJob DEF FinishJob, Goto, Cancelling, TypeOK
<1>Deny. ASSUME NEW e \in Exec, Deny(e) PROVE Cancelling'
  BY <1>Deny DEF Deny, Goto, Cancelling, TypeOK
<1>StepThrows. ASSUME NEW e \in Exec, StepThrows(e) PROVE Cancelling'
  BY <1>StepThrows DEF StepThrows, Goto, Cancelling, TypeOK
<1>PreflightRefuses. ASSUME NEW e \in Exec, PreflightRefuses(e) PROVE Cancelling'
  BY <1>PreflightRefuses DEF PreflightRefuses, Goto, Cancelling, TypeOK
<1>LoseLease. ASSUME NEW e \in Exec, LoseLease(e) PROVE Cancelling'
  BY <1>LoseLease DEF LoseLease, Abort, Abortable, Goto, Cancelling, TypeOK
<1>PollCancelled. ASSUME NEW e \in Exec, PollCancelled(e) PROVE Cancelling'
  BY <1>PollCancelled DEF PollCancelled, Goto, Cancelling, TypeOK
<1>Crash. ASSUME NEW P \in Processes, Crash(P) PROVE Cancelling'
  BY <1>Crash DEF Crash, Running, Stopped, Requests, Cancelling, TypeOK
<1>stutter. ASSUME UNCHANGED vars PROVE Cancelling'
  BY <1>stutter DEF Cancelling
<1> QED BY <1>frame, <1>ReadHeaderPhase, <1>MarkRunCancelled,
       <1>SignalRunCancelled, <1>CancelJob, <1>RecordRouteCancelled,
       <1>RouteFails, <1>Dispatch, <1>CheckCancelled, <1>RecordCancelled,
       <1>ReserveLease, <1>ClaimCheckCancelled, <1>ReadLease, <1>MoveLease,
       <1>ReadTaint, <1>ReadRunEnded, <1>ClearInterruptedAttempt, <1>StartRun,
       <1>CallBackend, <1>CallReturns, <1>CallThrows, <1>BoundFires,
       <1>RecordFailed, <1>RecordTimedOut, <1>RecordCancelEnd,
       <1>ConfirmNotCancelled, <1>CompleteRun, <1>InsertTranscript,
       <1>CatchRun, <1>ReleaseLease, <1>FinishJob, <1>Deny, <1>StepThrows,
       <1>PreflightRefuses, <1>LoseLease, <1>PollCancelled, <1>Crash,
       <1>stutter
     DEF Next, EnqueueStep, RouteStep, Advance, Interrupt, ToolStep

\* An execution that was stopped was stopped by a cancellation.
THEOREM CancellingAlways ==
  ASSUME "lapse" \notin Faults
  PROVE  Spec => []Cancelling
<1>1. Init => Cancelling
  <2> SUFFICES ASSUME Init PROVE Cancelling
    OBVIOUS
  <2> QED BY DEF Init, Cancelling
<1>2. TypeOK /\ Mutex /\ Cancelling /\ [Next]_vars => Cancelling'
  BY CancellingStep
<1> QED BY TypeCorrect, MutexAlways, <1>1, <1>2, PTL DEF Spec

\* Every way out of the wait disposes of the registration.
LEMMA RegistryStep ==
  ASSUME "lapse" \notin Faults, TypeOK, Mutex, RegistryExact, [Next]_vars
  PROVE  RegistryExact'
<1> USE DurableRunAssumption DEF Holding, Renewing, Mutex
<1>frame. ASSUME \/ InsertEnqueuedHeader \/ EnqueueJob \/ EnqueueRefused
                 \/ WithdrawHeader \/ DeadLetter \/ LeaseExpires
                 \/ LeaseLapses \/ ReadHeaderPhase \/ MarkRunCancelled
                 \/ CancelJob \/ RecordRouteCancelled \/ RouteFails
                 \/ \E e \in Exec : \/ RenewLease(e) \/ AdmitTool(e)
                                    \/ MarkRunTainted(e) \/ RunHandler(e) \/ LandRecord(e)
          PROVE  RegistryExact'
  <2>1. UNCHANGED <<liveRun, pc>>
    BY <1>frame DEF InsertEnqueuedHeader, EnqueueJob, EnqueueRefused,
       WithdrawHeader, DeadLetter, LeaseExpires, LeaseLapses, ReadHeaderPhase,
       MarkRunCancelled, CancelJob, RecordRouteCancelled, RouteFails,
       RenewLease, AdmitTool, MarkRunTainted, RunHandler, LandRecord
  <2> QED BY <2>1 DEF RegistryExact
<1>SignalRunCancelled. ASSUME SignalRunCancelled PROVE RegistryExact'
  BY <1>SignalRunCancelled DEF SignalRunCancelled, Abort, Abortable, Goto,
       RegistryExact, TypeOK
<1>Dispatch. ASSUME NEW e \in Exec, Dispatch(e) PROVE RegistryExact'
  BY <1>Dispatch DEF Dispatch, Goto, RegistryExact, TypeOK
<1>CheckCancelled. ASSUME NEW e \in Exec, CheckCancelled(e) PROVE RegistryExact'
  BY <1>CheckCancelled DEF CheckCancelled, Goto, RegistryExact, TypeOK
<1>RecordCancelled. ASSUME NEW e \in Exec, RecordCancelled(e) PROVE RegistryExact'
  BY <1>RecordCancelled DEF RecordCancelled, RecordRunEnded, Goto,
       RegistryExact, TypeOK
<1>ReserveLease. ASSUME NEW e \in Exec, ReserveLease(e) PROVE RegistryExact'
  BY <1>ReserveLease DEF ReserveLease, Goto, RegistryExact, TypeOK
<1>ClaimCheckCancelled. ASSUME NEW e \in Exec, ClaimCheckCancelled(e) PROVE RegistryExact'
  BY <1>ClaimCheckCancelled DEF ClaimCheckCancelled, Goto, RegistryExact,
       TypeOK
<1>ReadLease. ASSUME NEW e \in Exec, ReadLease(e) PROVE RegistryExact'
  BY <1>ReadLease DEF ReadLease, Goto, RegistryExact, TypeOK
<1>MoveLease. ASSUME NEW e \in Exec, MoveLease(e) PROVE RegistryExact'
  BY <1>MoveLease DEF MoveLease, Goto, RegistryExact, TypeOK
<1>ReadTaint. ASSUME NEW e \in Exec, ReadTaint(e) PROVE RegistryExact'
  BY <1>ReadTaint DEF ReadTaint, Goto, RegistryExact, TypeOK
<1>ReadRunEnded. ASSUME NEW e \in Exec, ReadRunEnded(e) PROVE RegistryExact'
  BY <1>ReadRunEnded DEF ReadRunEnded, Goto, RegistryExact, TypeOK
<1>ClearInterruptedAttempt. ASSUME NEW e \in Exec, ClearInterruptedAttempt(e) PROVE RegistryExact'
  BY <1>ClearInterruptedAttempt DEF ClearInterruptedAttempt, Goto,
       RegistryExact, TypeOK
<1>StartRun. ASSUME NEW e \in Exec, StartRun(e) PROVE RegistryExact'
  BY <1>StartRun DEF StartRun, Goto, RegistryExact, TypeOK
<1>CallBackend. ASSUME NEW e \in Exec, CallBackend(e) PROVE RegistryExact'
  BY <1>CallBackend DEF CallBackend, Goto, RegistryExact, TypeOK
<1>CallReturns. ASSUME NEW e \in Exec, CallReturns(e) PROVE RegistryExact'
  BY <1>CallReturns DEF CallReturns, Goto, Dispose, RegistryExact, TypeOK
<1>CallThrows. ASSUME NEW e \in Exec, CallThrows(e) PROVE RegistryExact'
  BY <1>CallThrows DEF CallThrows, Goto, Dispose, RegistryExact, TypeOK
<1>BoundFires. ASSUME NEW e \in Exec, BoundFires(e) PROVE RegistryExact'
  BY <1>BoundFires DEF BoundFires, Goto, RegistryExact, TypeOK
<1>RecordFailed. ASSUME NEW e \in Exec, RecordFailed(e) PROVE RegistryExact'
  BY <1>RecordFailed DEF RecordFailed, RecordRunEnded, Goto, RegistryExact,
       TypeOK
<1>RecordTimedOut. ASSUME NEW e \in Exec, RecordTimedOut(e) PROVE RegistryExact'
  BY <1>RecordTimedOut DEF RecordTimedOut, RecordEnd, Goto, Dispose,
       RegistryExact, TypeOK
<1>RecordCancelEnd. ASSUME NEW e \in Exec, RecordCancelEnd(e) PROVE RegistryExact'
  BY <1>RecordCancelEnd DEF RecordCancelEnd, RecordEnd, Goto, Dispose,
       RegistryExact, TypeOK
<1>ConfirmNotCancelled. ASSUME NEW e \in Exec, ConfirmNotCancelled(e) PROVE RegistryExact'
  BY <1>ConfirmNotCancelled DEF ConfirmNotCancelled, RecordObservedCancel,
       RecordRunEnded, Goto, RegistryExact, TypeOK
<1>CompleteRun. ASSUME NEW e \in Exec, CompleteRun(e) PROVE RegistryExact'
  BY <1>CompleteRun DEF CompleteRun, Goto, RegistryExact, TypeOK
<1>InsertTranscript. ASSUME NEW e \in Exec, InsertTranscript(e) PROVE RegistryExact'
  BY <1>InsertTranscript DEF InsertTranscript, Goto, RegistryExact, TypeOK
<1>CatchRun. ASSUME NEW e \in Exec, CatchRun(e) PROVE RegistryExact'
  BY <1>CatchRun DEF CatchRun, RecordRunEnded, Goto, RegistryExact, TypeOK
<1>ReleaseLease. ASSUME NEW e \in Exec, ReleaseLease(e) PROVE RegistryExact'
  BY <1>ReleaseLease DEF ReleaseLease, Goto, RegistryExact, TypeOK
<1>FinishJob. ASSUME NEW e \in Exec, FinishJob(e) PROVE RegistryExact'
  BY <1>FinishJob DEF FinishJob, Goto, RegistryExact, TypeOK
<1>Deny. ASSUME NEW e \in Exec, Deny(e) PROVE RegistryExact'
  BY <1>Deny DEF Deny, Goto, RegistryExact, TypeOK
<1>StepThrows. ASSUME NEW e \in Exec, StepThrows(e) PROVE RegistryExact'
  BY <1>StepThrows DEF StepThrows, Goto, RegistryExact, TypeOK
<1>PreflightRefuses. ASSUME NEW e \in Exec, PreflightRefuses(e) PROVE RegistryExact'
  BY <1>PreflightRefuses DEF PreflightRefuses, Goto, RegistryExact, TypeOK
<1>LoseLease. ASSUME NEW e \in Exec, LoseLease(e) PROVE RegistryExact'
  BY <1>LoseLease DEF LoseLease, Abort, Abortable, Goto, RegistryExact, TypeOK
<1>PollCancelled. ASSUME NEW e \in Exec, PollCancelled(e) PROVE RegistryExact'
  BY <1>PollCancelled DEF PollCancelled, Goto, RegistryExact, TypeOK
<1>Crash. ASSUME NEW P \in Processes, Crash(P) PROVE RegistryExact'
  BY <1>Crash DEF Crash, Processes, Running, Stopped, RegistryExact, TypeOK
<1>stutter. ASSUME UNCHANGED vars PROVE RegistryExact'
  BY <1>stutter DEF RegistryExact
<1> QED BY <1>frame, <1>SignalRunCancelled, <1>Dispatch, <1>CheckCancelled,
       <1>RecordCancelled, <1>ReserveLease, <1>ClaimCheckCancelled,
       <1>ReadLease, <1>MoveLease, <1>ReadTaint, <1>ReadRunEnded,
       <1>ClearInterruptedAttempt, <1>StartRun, <1>CallBackend, <1>CallReturns,
       <1>CallThrows, <1>BoundFires, <1>RecordFailed, <1>RecordTimedOut,
       <1>RecordCancelEnd, <1>ConfirmNotCancelled, <1>CompleteRun,
       <1>InsertTranscript, <1>CatchRun, <1>ReleaseLease, <1>FinishJob,
       <1>Deny, <1>StepThrows, <1>PreflightRefuses, <1>LoseLease,
       <1>PollCancelled, <1>Crash, <1>stutter
     DEF Next, EnqueueStep, RouteStep, Advance, Interrupt, ToolStep

\* The registry of live runs is exact, so a cancellation served by the process
\* that executes the run always reaches it.
THEOREM RegistryAlways ==
  ASSUME "lapse" \notin Faults
  PROVE  Spec => []RegistryExact
<1>1. Init => RegistryExact
  <2> SUFFICES ASSUME Init PROVE RegistryExact
    OBVIOUS
  <2> QED BY DurableRunAssumption DEF Init, RegistryExact
<1>2. TypeOK /\ Mutex /\ RegistryExact /\ [Next]_vars => RegistryExact'
  BY RegistryStep
<1> QED BY TypeCorrect, MutexAlways, <1>1, <1>2, PTL DEF Spec

\* A run that is executing has no transcript yet: a takeover has cleared it.
TranscriptCleared ==
  /\ holder = NoExec => transcript = {}
  /\ \A e \in Exec : pc[e] \in {"start"} \cup Started => transcript = {}
  /\ TranscriptOfOneExecution

\* A second execution starts only through clearInterruptedAttempt.
LEMMA TranscriptStep ==
  ASSUME "lapse" \notin Faults, TypeOK, Mutex, TranscriptCleared, [Next]_vars
  PROVE  TranscriptCleared'
<1> USE DurableRunAssumption
    DEF Fresh, Waiting, Holding, Renewing, Started, InCall, Mutex,
        TranscriptOfOneExecution
<1>frame. ASSUME \/ InsertEnqueuedHeader \/ EnqueueJob \/ EnqueueRefused
                 \/ WithdrawHeader \/ DeadLetter \/ LeaseExpires
                 \/ LeaseLapses \/ ReadHeaderPhase \/ MarkRunCancelled
                 \/ CancelJob \/ RecordRouteCancelled \/ RouteFails
                 \/ \E e \in Exec : \/ RenewLease(e) \/ AdmitTool(e)
                                    \/ MarkRunTainted(e) \/ RunHandler(e) \/ LandRecord(e)
          PROVE  TranscriptCleared'
  <2>1. UNCHANGED <<holder, pc, transcript>>
    BY <1>frame DEF InsertEnqueuedHeader, EnqueueJob, EnqueueRefused,
       WithdrawHeader, DeadLetter, LeaseExpires, LeaseLapses, ReadHeaderPhase,
       MarkRunCancelled, CancelJob, RecordRouteCancelled, RouteFails,
       RenewLease, AdmitTool, MarkRunTainted, RunHandler, LandRecord
  <2> QED BY <2>1 DEF TranscriptCleared
<1>SignalRunCancelled. ASSUME SignalRunCancelled PROVE TranscriptCleared'
  BY <1>SignalRunCancelled DEF SignalRunCancelled, Abort, Abortable, Goto,
       TranscriptCleared, TypeOK
<1>Dispatch. ASSUME NEW e \in Exec, Dispatch(e) PROVE TranscriptCleared'
  BY <1>Dispatch DEF Dispatch, Goto, TranscriptCleared, TypeOK
<1>CheckCancelled. ASSUME NEW e \in Exec, CheckCancelled(e) PROVE TranscriptCleared'
  BY <1>CheckCancelled DEF CheckCancelled, Goto, TranscriptCleared, TypeOK
<1>RecordCancelled. ASSUME NEW e \in Exec, RecordCancelled(e) PROVE TranscriptCleared'
  BY <1>RecordCancelled DEF RecordCancelled, RecordRunEnded, Goto,
       TranscriptCleared, TypeOK
<1>ReserveLease. ASSUME NEW e \in Exec, ReserveLease(e) PROVE TranscriptCleared'
  BY <1>ReserveLease DEF ReserveLease, Goto, TranscriptCleared, TypeOK
<1>ClaimCheckCancelled. ASSUME NEW e \in Exec, ClaimCheckCancelled(e) PROVE TranscriptCleared'
  BY <1>ClaimCheckCancelled DEF ClaimCheckCancelled, Goto, TranscriptCleared,
       TypeOK
<1>ReadLease. ASSUME NEW e \in Exec, ReadLease(e) PROVE TranscriptCleared'
  BY <1>ReadLease DEF ReadLease, Goto, TranscriptCleared, TypeOK
<1>MoveLease. ASSUME NEW e \in Exec, MoveLease(e) PROVE TranscriptCleared'
  BY <1>MoveLease DEF MoveLease, Goto, TranscriptCleared, TypeOK
<1>ReadTaint. ASSUME NEW e \in Exec, ReadTaint(e) PROVE TranscriptCleared'
  BY <1>ReadTaint DEF ReadTaint, Goto, TranscriptCleared, TypeOK
<1>ReadRunEnded. ASSUME NEW e \in Exec, ReadRunEnded(e) PROVE TranscriptCleared'
  BY <1>ReadRunEnded DEF ReadRunEnded, Goto, TranscriptCleared, TypeOK
<1>ClearInterruptedAttempt. ASSUME NEW e \in Exec, ClearInterruptedAttempt(e) PROVE TranscriptCleared'
  BY <1>ClearInterruptedAttempt DEF ClearInterruptedAttempt, Goto,
       TranscriptCleared, TypeOK
<1>StartRun. ASSUME NEW e \in Exec, StartRun(e) PROVE TranscriptCleared'
  BY <1>StartRun DEF StartRun, Goto, TranscriptCleared, TypeOK
<1>CallBackend. ASSUME NEW e \in Exec, CallBackend(e) PROVE TranscriptCleared'
  BY <1>CallBackend DEF CallBackend, Goto, TranscriptCleared, TypeOK
<1>CallReturns. ASSUME NEW e \in Exec, CallReturns(e) PROVE TranscriptCleared'
  BY <1>CallReturns DEF CallReturns, Goto, TranscriptCleared, TypeOK
<1>CallThrows. ASSUME NEW e \in Exec, CallThrows(e) PROVE TranscriptCleared'
  BY <1>CallThrows DEF CallThrows, Goto, TranscriptCleared, TypeOK
<1>BoundFires. ASSUME NEW e \in Exec, BoundFires(e) PROVE TranscriptCleared'
  BY <1>BoundFires DEF BoundFires, Goto, TranscriptCleared, TypeOK
<1>RecordFailed. ASSUME NEW e \in Exec, RecordFailed(e) PROVE TranscriptCleared'
  BY <1>RecordFailed DEF RecordFailed, RecordRunEnded, Goto, TranscriptCleared,
       TypeOK
<1>RecordTimedOut. ASSUME NEW e \in Exec, RecordTimedOut(e) PROVE TranscriptCleared'
  BY <1>RecordTimedOut DEF RecordTimedOut, RecordEnd, Goto,
       TranscriptCleared, TypeOK
<1>RecordCancelEnd. ASSUME NEW e \in Exec, RecordCancelEnd(e) PROVE TranscriptCleared'
  BY <1>RecordCancelEnd DEF RecordCancelEnd, RecordEnd, Goto,
       TranscriptCleared, TypeOK
<1>ConfirmNotCancelled. ASSUME NEW e \in Exec, ConfirmNotCancelled(e) PROVE TranscriptCleared'
  BY <1>ConfirmNotCancelled DEF ConfirmNotCancelled, RecordObservedCancel,
       RecordRunEnded, Goto, TranscriptCleared, TypeOK
<1>CompleteRun. ASSUME NEW e \in Exec, CompleteRun(e) PROVE TranscriptCleared'
  BY <1>CompleteRun DEF CompleteRun, Goto, TranscriptCleared, TypeOK
<1>InsertTranscript. ASSUME NEW e \in Exec, InsertTranscript(e) PROVE TranscriptCleared'
  BY <1>InsertTranscript DEF InsertTranscript, Goto, TranscriptCleared, TypeOK
<1>CatchRun. ASSUME NEW e \in Exec, CatchRun(e) PROVE TranscriptCleared'
  BY <1>CatchRun DEF CatchRun, RecordRunEnded, Goto, TranscriptCleared, TypeOK
<1>ReleaseLease. ASSUME NEW e \in Exec, ReleaseLease(e) PROVE TranscriptCleared'
  BY <1>ReleaseLease DEF ReleaseLease, Goto, TranscriptCleared, TypeOK
<1>FinishJob. ASSUME NEW e \in Exec, FinishJob(e) PROVE TranscriptCleared'
  BY <1>FinishJob DEF FinishJob, Goto, TranscriptCleared, TypeOK
<1>Deny. ASSUME NEW e \in Exec, Deny(e) PROVE TranscriptCleared'
  BY <1>Deny DEF Deny, Goto, TranscriptCleared, TypeOK
<1>StepThrows. ASSUME NEW e \in Exec, StepThrows(e) PROVE TranscriptCleared'
  BY <1>StepThrows DEF StepThrows, Goto, TranscriptCleared, TypeOK
<1>PreflightRefuses. ASSUME NEW e \in Exec, PreflightRefuses(e) PROVE TranscriptCleared'
  BY <1>PreflightRefuses DEF PreflightRefuses, Goto, TranscriptCleared, TypeOK
<1>LoseLease. ASSUME NEW e \in Exec, LoseLease(e) PROVE TranscriptCleared'
  BY <1>LoseLease DEF LoseLease, Abort, Abortable, Goto, TranscriptCleared,
       TypeOK
<1>PollCancelled. ASSUME NEW e \in Exec, PollCancelled(e) PROVE TranscriptCleared'
  BY <1>PollCancelled DEF PollCancelled, Goto, TranscriptCleared, TypeOK
<1>Crash. ASSUME NEW P \in Processes, Crash(P) PROVE TranscriptCleared'
  BY <1>Crash DEF Crash, Running, Stopped, TranscriptCleared, TypeOK
<1>stutter. ASSUME UNCHANGED vars PROVE TranscriptCleared'
  BY <1>stutter DEF TranscriptCleared
<1> QED BY <1>frame, <1>SignalRunCancelled, <1>Dispatch, <1>CheckCancelled,
       <1>RecordCancelled, <1>ReserveLease, <1>ClaimCheckCancelled,
       <1>ReadLease, <1>MoveLease, <1>ReadTaint, <1>ReadRunEnded,
       <1>ClearInterruptedAttempt, <1>StartRun, <1>CallBackend, <1>CallReturns,
       <1>CallThrows, <1>BoundFires, <1>RecordFailed, <1>RecordTimedOut,
       <1>RecordCancelEnd, <1>ConfirmNotCancelled, <1>CompleteRun,
       <1>InsertTranscript, <1>CatchRun, <1>ReleaseLease, <1>FinishJob,
       <1>Deny, <1>StepThrows, <1>PreflightRefuses, <1>LoseLease,
       <1>PollCancelled, <1>Crash, <1>stutter
     DEF Next, EnqueueStep, RouteStep, Advance, Interrupt, ToolStep

\* The stored transcript never mixes the rows of two executions.
THEOREM TranscriptAlways ==
  ASSUME "lapse" \notin Faults
  PROVE  Spec => []TranscriptOfOneExecution
<1>1. Init => TranscriptCleared
  <2> SUFFICES ASSUME Init PROVE TranscriptCleared
    OBVIOUS
  <2> QED BY DEF Init, TranscriptCleared, TranscriptOfOneExecution, Started, InCall
<1>2. TypeOK /\ Mutex /\ TranscriptCleared /\ [Next]_vars => TranscriptCleared'
  BY TranscriptStep
<1>3. TranscriptCleared => TranscriptOfOneExecution
  BY DEF TranscriptCleared
<1> QED BY TypeCorrect, MutexAlways, <1>1, <1>2, <1>3, PTL DEF Spec

-----------------------------------------------------------------------------
(* While, besides, every read and write of the database succeeds.          *)

\* A takeover reads the taint marker and the end of the run, so it never runs
\* behind a non-idempotent tool that took or may still take effect.
LEMMA EffectsStep ==
  ASSUME Faults \subseteq {"crash"}, TypeOK, Order, Mutex, Cancelling, Effects,
         Ends, [Next]_vars
  PROVE  Effects'
<1> USE DurableRunAssumption
    DEF Fresh, Waiting, Holding, Renewing, InCall, Started, Uncalled, Open,
        Terminal, Order, Mutex, Cancelling, Ends
<1>frame. ASSUME \/ EnqueueJob \/ EnqueueRefused \/ DeadLetter
                 \/ LeaseExpires \/ LeaseLapses \/ ReadHeaderPhase
                 \/ MarkRunCancelled \/ CancelJob \/ RouteFails
                 \/ \E e \in Exec : \/ RenewLease(e)
          PROVE  Effects'
  <2>1. UNCHANGED <<fired, header, holder, pc, taint, tool>>
    BY <1>frame DEF EnqueueJob, EnqueueRefused, DeadLetter, LeaseExpires,
       LeaseLapses, ReadHeaderPhase, MarkRunCancelled, CancelJob, RouteFails,
       RenewLease
  <2> QED BY <2>1 DEF Effects, OneEffectExecution
<1>InsertEnqueuedHeader. ASSUME InsertEnqueuedHeader PROVE Effects'
  BY <1>InsertEnqueuedHeader DEF InsertEnqueuedHeader, Effects,
       OneEffectExecution, TypeOK
<1>WithdrawHeader. ASSUME WithdrawHeader PROVE Effects'
  BY <1>WithdrawHeader DEF WithdrawHeader, Effects, OneEffectExecution, TypeOK
<1>SignalRunCancelled. ASSUME SignalRunCancelled PROVE Effects'
  BY <1>SignalRunCancelled DEF SignalRunCancelled, Abort, Abortable, Goto,
       Effects, OneEffectExecution, TypeOK
<1>RecordRouteCancelled. ASSUME RecordRouteCancelled PROVE Effects'
  BY <1>RecordRouteCancelled DEF RecordRouteCancelled, RecordRunEnded, Effects,
       OneEffectExecution, TypeOK
<1>Dispatch. ASSUME NEW e \in Exec, Dispatch(e) PROVE Effects'
  BY <1>Dispatch DEF Dispatch, Goto, Effects, OneEffectExecution, TypeOK
<1>CheckCancelled. ASSUME NEW e \in Exec, CheckCancelled(e) PROVE Effects'
  BY <1>CheckCancelled DEF CheckCancelled, Goto, Effects, OneEffectExecution,
       TypeOK
<1>RecordCancelled. ASSUME NEW e \in Exec, RecordCancelled(e) PROVE Effects'
  BY <1>RecordCancelled DEF RecordCancelled, RecordRunEnded, Goto, Effects,
       OneEffectExecution, TypeOK
<1>ReserveLease. ASSUME NEW e \in Exec, ReserveLease(e) PROVE Effects'
  BY <1>ReserveLease DEF ReserveLease, Goto, Effects, OneEffectExecution,
       TypeOK
<1>ClaimCheckCancelled. ASSUME NEW e \in Exec, ClaimCheckCancelled(e) PROVE Effects'
  BY <1>ClaimCheckCancelled DEF ClaimCheckCancelled, Goto, Effects,
       OneEffectExecution, TypeOK
<1>ReadLease. ASSUME NEW e \in Exec, ReadLease(e) PROVE Effects'
  BY <1>ReadLease DEF ReadLease, Goto, Effects, OneEffectExecution, TypeOK
<1>MoveLease. ASSUME NEW e \in Exec, MoveLease(e) PROVE Effects'
  BY <1>MoveLease DEF MoveLease, Goto, Effects, OneEffectExecution, TypeOK
<1>ReadTaint. ASSUME NEW e \in Exec, ReadTaint(e) PROVE Effects'
  BY <1>ReadTaint DEF ReadTaint, Goto, Effects, OneEffectExecution, TypeOK
<1>ReadRunEnded. ASSUME NEW e \in Exec, ReadRunEnded(e) PROVE Effects'
  BY <1>ReadRunEnded DEF ReadRunEnded, Goto, Effects, OneEffectExecution,
       TypeOK
<1>ClearInterruptedAttempt. ASSUME NEW e \in Exec, ClearInterruptedAttempt(e) PROVE Effects'
  BY <1>ClearInterruptedAttempt DEF ClearInterruptedAttempt, Goto, Effects,
       OneEffectExecution, TypeOK
<1>StartRun. ASSUME NEW e \in Exec, StartRun(e) PROVE Effects'
  BY <1>StartRun DEF StartRun, Goto, Effects, OneEffectExecution, TypeOK
<1>CallBackend. ASSUME NEW e \in Exec, CallBackend(e) PROVE Effects'
  BY <1>CallBackend DEF CallBackend, Goto, Effects, OneEffectExecution, TypeOK
<1>CallReturns. ASSUME NEW e \in Exec, CallReturns(e) PROVE Effects'
  BY <1>CallReturns DEF CallReturns, Goto, Effects, OneEffectExecution, TypeOK
<1>CallThrows. ASSUME NEW e \in Exec, CallThrows(e) PROVE Effects'
  BY <1>CallThrows DEF CallThrows, Goto, Effects, OneEffectExecution, TypeOK
<1>BoundFires. ASSUME NEW e \in Exec, BoundFires(e) PROVE Effects'
  BY <1>BoundFires DEF BoundFires, Goto, Effects, OneEffectExecution, TypeOK
<1>RecordFailed. ASSUME NEW e \in Exec, RecordFailed(e) PROVE Effects'
  BY <1>RecordFailed DEF RecordFailed, RecordRunEnded, Goto, Effects,
       OneEffectExecution, TypeOK
<1>RecordEnd. ASSUME NEW e \in Exec, NEW kind \in {"bound", "cancelled"},
                     pc[e] \in {"boundEnd", "cancelEnd"},
                     kind = "cancelled" => cancelled, RecordEnd(e, kind)
              PROVE  Effects'
  <2>1. header' \in Terminal
    BY <1>RecordEnd DEF RecordEnd, EndRecorded, RecordObservedCancel,
       RecordRunEnded, TypeOK
  <2>2. /\ pc' = [pc EXCEPT ![e] = "caught"]
        /\ UNCHANGED <<holder, taint, tool, fired>>
    BY <1>RecordEnd DEF RecordEnd, Goto
  <2> QED BY <1>RecordEnd, <2>1, <2>2 DEF Effects, OneEffectExecution, TypeOK
<1>RecordTimedOut. ASSUME NEW e \in Exec, RecordTimedOut(e) PROVE Effects'
  BY <1>RecordTimedOut, <1>RecordEnd DEF RecordTimedOut
<1>RecordCancelEnd. ASSUME NEW e \in Exec, RecordCancelEnd(e) PROVE Effects'
  BY <1>RecordCancelEnd, <1>RecordEnd DEF RecordCancelEnd
<1>LandRecord. ASSUME NEW e \in Exec, LandRecord(e) PROVE Effects'
  BY <1>LandRecord, EndedOrLeft DEF LandRecord, Effects, OneEffectExecution, TypeOK
<1>ConfirmNotCancelled. ASSUME NEW e \in Exec, ConfirmNotCancelled(e) PROVE Effects'
  BY <1>ConfirmNotCancelled DEF ConfirmNotCancelled, RecordObservedCancel,
       RecordRunEnded, Goto, Effects, OneEffectExecution, TypeOK
<1>CompleteRun. ASSUME NEW e \in Exec, CompleteRun(e) PROVE Effects'
  BY <1>CompleteRun DEF CompleteRun, Goto, Effects, OneEffectExecution, TypeOK
<1>InsertTranscript. ASSUME NEW e \in Exec, InsertTranscript(e) PROVE Effects'
  BY <1>InsertTranscript DEF InsertTranscript, Goto, Effects,
       OneEffectExecution, TypeOK
<1>CatchRun. ASSUME NEW e \in Exec, CatchRun(e) PROVE Effects'
  BY <1>CatchRun DEF CatchRun, RecordRunEnded, Goto, Effects,
       OneEffectExecution, TypeOK
<1>ReleaseLease. ASSUME NEW e \in Exec, ReleaseLease(e) PROVE Effects'
  BY <1>ReleaseLease DEF ReleaseLease, Goto, Effects, OneEffectExecution,
       TypeOK
<1>FinishJob. ASSUME NEW e \in Exec, FinishJob(e) PROVE Effects'
  BY <1>FinishJob DEF FinishJob, Goto, Effects, OneEffectExecution, TypeOK
<1>Deny. ASSUME NEW e \in Exec, Deny(e) PROVE Effects'
  BY <1>Deny DEF Deny, Goto, Effects, OneEffectExecution, TypeOK
<1>StepThrows. ASSUME NEW e \in Exec, StepThrows(e) PROVE Effects'
  BY <1>StepThrows DEF StepThrows, Goto, Effects, OneEffectExecution, TypeOK
<1>PreflightRefuses. ASSUME NEW e \in Exec, PreflightRefuses(e) PROVE Effects'
  BY <1>PreflightRefuses DEF PreflightRefuses, Goto, Effects,
       OneEffectExecution, TypeOK
<1>LoseLease. ASSUME NEW e \in Exec, LoseLease(e) PROVE Effects'
  BY <1>LoseLease DEF LoseLease, Abort, Abortable, Goto, Effects,
       OneEffectExecution, TypeOK
<1>PollCancelled. ASSUME NEW e \in Exec, PollCancelled(e) PROVE Effects'
  BY <1>PollCancelled DEF PollCancelled, Goto, Effects, OneEffectExecution,
       TypeOK
<1>AdmitTool. ASSUME NEW e \in Exec, AdmitTool(e) PROVE Effects'
  BY <1>AdmitTool DEF AdmitTool, Effects, OneEffectExecution, TypeOK
<1>MarkRunTainted. ASSUME NEW e \in Exec, MarkRunTainted(e) PROVE Effects'
  BY <1>MarkRunTainted DEF MarkRunTainted, Effects, OneEffectExecution, TypeOK
<1>RunHandler. ASSUME NEW e \in Exec, RunHandler(e) PROVE Effects'
  BY <1>RunHandler DEF RunHandler, Effects, OneEffectExecution, TypeOK
<1>Crash. ASSUME NEW P \in Processes, Crash(P) PROVE Effects'
  BY <1>Crash DEF Crash, Running, Stopped, Effects, OneEffectExecution, TypeOK
<1>stutter. ASSUME UNCHANGED vars PROVE Effects'
  BY <1>stutter DEF Effects, OneEffectExecution
<1> QED BY <1>frame, <1>InsertEnqueuedHeader, <1>WithdrawHeader,
       <1>SignalRunCancelled, <1>RecordRouteCancelled, <1>Dispatch,
       <1>CheckCancelled, <1>RecordCancelled, <1>ReserveLease,
       <1>ClaimCheckCancelled, <1>ReadLease, <1>MoveLease, <1>ReadTaint,
       <1>ReadRunEnded, <1>ClearInterruptedAttempt, <1>StartRun,
       <1>CallBackend, <1>CallReturns, <1>CallThrows, <1>BoundFires,
       <1>RecordFailed, <1>RecordTimedOut, <1>RecordCancelEnd,
       <1>ConfirmNotCancelled, <1>CompleteRun, <1>InsertTranscript,
       <1>CatchRun, <1>ReleaseLease, <1>FinishJob, <1>Deny, <1>StepThrows,
       <1>PreflightRefuses, <1>LoseLease, <1>PollCancelled, <1>AdmitTool,
       <1>MarkRunTainted, <1>RunHandler, <1>LandRecord, <1>Crash, <1>stutter
     DEF Next, EnqueueStep, RouteStep, Advance, Interrupt, ToolStep

\* A run ends before its lease is given up, so a takeover sees the end.
LEMMA EndsStep ==
  ASSUME Faults \subseteq {"crash"}, TypeOK, Order, Mutex, Cancelling, Ends,
         [Next]_vars
  PROVE  Ends'
<1> USE DurableRunAssumption
    DEF Fresh, Waiting, Holding, Renewing, InCall, Started, Open, Terminal,
        Order, Mutex, Cancelling
<1>frame. ASSUME \/ EnqueueJob \/ EnqueueRefused \/ DeadLetter
                 \/ LeaseExpires \/ LeaseLapses \/ ReadHeaderPhase
                 \/ CancelJob \/ RouteFails
                 \/ \E e \in Exec : \/ RenewLease(e) \/ AdmitTool(e)
                                    \/ MarkRunTainted(e) \/ RunHandler(e)
          PROVE  Ends'
  <2>1. UNCHANGED <<cancelled, header, holder, pc>>
    BY <1>frame DEF EnqueueJob, EnqueueRefused, DeadLetter, LeaseExpires,
       LeaseLapses, ReadHeaderPhase, CancelJob, RouteFails, RenewLease,
       AdmitTool, MarkRunTainted, RunHandler
  <2> QED BY <2>1 DEF Ends
<1>InsertEnqueuedHeader. ASSUME InsertEnqueuedHeader PROVE Ends'
  BY <1>InsertEnqueuedHeader DEF InsertEnqueuedHeader, Ends, TypeOK
<1>WithdrawHeader. ASSUME WithdrawHeader PROVE Ends'
  BY <1>WithdrawHeader DEF WithdrawHeader, Ends, TypeOK
<1>MarkRunCancelled. ASSUME MarkRunCancelled PROVE Ends'
  BY <1>MarkRunCancelled DEF MarkRunCancelled, Ends, TypeOK
<1>SignalRunCancelled. ASSUME SignalRunCancelled PROVE Ends'
  BY <1>SignalRunCancelled DEF SignalRunCancelled, Abort, Abortable, Goto,
       Ends, TypeOK
<1>RecordRouteCancelled. ASSUME RecordRouteCancelled PROVE Ends'
  BY <1>RecordRouteCancelled DEF RecordRouteCancelled, RecordRunEnded, Ends,
       TypeOK
<1>Dispatch. ASSUME NEW e \in Exec, Dispatch(e) PROVE Ends'
  BY <1>Dispatch DEF Dispatch, Goto, Ends, TypeOK
<1>CheckCancelled. ASSUME NEW e \in Exec, CheckCancelled(e) PROVE Ends'
  BY <1>CheckCancelled DEF CheckCancelled, Goto, Ends, TypeOK
<1>RecordCancelled. ASSUME NEW e \in Exec, RecordCancelled(e) PROVE Ends'
  BY <1>RecordCancelled DEF RecordCancelled, RecordRunEnded, Goto, Ends, TypeOK
<1>ReserveLease. ASSUME NEW e \in Exec, ReserveLease(e) PROVE Ends'
  BY <1>ReserveLease DEF ReserveLease, Goto, Ends, TypeOK
<1>ClaimCheckCancelled. ASSUME NEW e \in Exec, ClaimCheckCancelled(e) PROVE Ends'
  BY <1>ClaimCheckCancelled DEF ClaimCheckCancelled, Goto, Ends, TypeOK
<1>ReadLease. ASSUME NEW e \in Exec, ReadLease(e) PROVE Ends'
  BY <1>ReadLease DEF ReadLease, Goto, Ends, TypeOK
<1>MoveLease. ASSUME NEW e \in Exec, MoveLease(e) PROVE Ends'
  BY <1>MoveLease DEF MoveLease, Goto, Ends, TypeOK
<1>ReadTaint. ASSUME NEW e \in Exec, ReadTaint(e) PROVE Ends'
  BY <1>ReadTaint DEF ReadTaint, Goto, Ends, TypeOK
<1>ReadRunEnded. ASSUME NEW e \in Exec, ReadRunEnded(e) PROVE Ends'
  BY <1>ReadRunEnded DEF ReadRunEnded, Goto, Ends, TypeOK
<1>ClearInterruptedAttempt. ASSUME NEW e \in Exec, ClearInterruptedAttempt(e) PROVE Ends'
  BY <1>ClearInterruptedAttempt DEF ClearInterruptedAttempt, Goto, Ends, TypeOK
<1>StartRun. ASSUME NEW e \in Exec, StartRun(e) PROVE Ends'
  BY <1>StartRun DEF StartRun, Goto, Ends, TypeOK
<1>CallBackend. ASSUME NEW e \in Exec, CallBackend(e) PROVE Ends'
  BY <1>CallBackend DEF CallBackend, Goto, Ends, TypeOK
<1>CallReturns. ASSUME NEW e \in Exec, CallReturns(e) PROVE Ends'
  BY <1>CallReturns DEF CallReturns, Goto, Ends, TypeOK
<1>CallThrows. ASSUME NEW e \in Exec, CallThrows(e) PROVE Ends'
  BY <1>CallThrows DEF CallThrows, Goto, Ends, TypeOK
<1>BoundFires. ASSUME NEW e \in Exec, BoundFires(e) PROVE Ends'
  BY <1>BoundFires DEF BoundFires, Goto, Ends, TypeOK
<1>RecordFailed. ASSUME NEW e \in Exec, RecordFailed(e) PROVE Ends'
  BY <1>RecordFailed DEF RecordFailed, RecordRunEnded, Goto, Ends, TypeOK
<1>RecordTimedOut. ASSUME NEW e \in Exec, RecordTimedOut(e) PROVE Ends'
  BY <1>RecordTimedOut, EndedOrLeft DEF RecordTimedOut, RecordEnd, Goto,
       Ends, TypeOK
<1>RecordCancelEnd. ASSUME NEW e \in Exec, RecordCancelEnd(e) PROVE Ends'
  BY <1>RecordCancelEnd, EndedOrLeft DEF RecordCancelEnd, RecordEnd, Goto,
       Ends, TypeOK
<1>LandRecord. ASSUME NEW e \in Exec, LandRecord(e) PROVE Ends'
  BY <1>LandRecord DEF LandRecord
<1>ConfirmNotCancelled. ASSUME NEW e \in Exec, ConfirmNotCancelled(e) PROVE Ends'
  BY <1>ConfirmNotCancelled DEF ConfirmNotCancelled, RecordObservedCancel,
       RecordRunEnded, Goto, Ends, TypeOK
<1>CompleteRun. ASSUME NEW e \in Exec, CompleteRun(e) PROVE Ends'
  BY <1>CompleteRun DEF CompleteRun, Goto, Ends, TypeOK
<1>InsertTranscript. ASSUME NEW e \in Exec, InsertTranscript(e) PROVE Ends'
  BY <1>InsertTranscript DEF InsertTranscript, Goto, Ends, TypeOK
<1>CatchRun. ASSUME NEW e \in Exec, CatchRun(e) PROVE Ends'
  BY <1>CatchRun DEF CatchRun, RecordRunEnded, Goto, Ends, TypeOK
<1>ReleaseLease. ASSUME NEW e \in Exec, ReleaseLease(e) PROVE Ends'
  BY <1>ReleaseLease DEF ReleaseLease, Goto, Ends, TypeOK
<1>FinishJob. ASSUME NEW e \in Exec, FinishJob(e) PROVE Ends'
  BY <1>FinishJob DEF FinishJob, Goto, Ends, TypeOK
<1>Deny. ASSUME NEW e \in Exec, Deny(e) PROVE Ends'
  BY <1>Deny DEF Deny, Goto, Ends, TypeOK
<1>StepThrows. ASSUME NEW e \in Exec, StepThrows(e) PROVE Ends'
  BY <1>StepThrows DEF StepThrows, Goto, Ends, TypeOK
<1>PreflightRefuses. ASSUME NEW e \in Exec, PreflightRefuses(e) PROVE Ends'
  BY <1>PreflightRefuses DEF PreflightRefuses, Goto, Ends, TypeOK
<1>LoseLease. ASSUME NEW e \in Exec, LoseLease(e) PROVE Ends'
  BY <1>LoseLease DEF LoseLease, Abort, Abortable, Goto, Ends, TypeOK
<1>PollCancelled. ASSUME NEW e \in Exec, PollCancelled(e) PROVE Ends'
  BY <1>PollCancelled DEF PollCancelled, Goto, Ends, TypeOK
<1>Crash. ASSUME NEW P \in Processes, Crash(P) PROVE Ends'
  BY <1>Crash DEF Crash, Running, Stopped, Ends, TypeOK
<1>stutter. ASSUME UNCHANGED vars PROVE Ends'
  BY <1>stutter DEF Ends
<1> QED BY <1>frame, <1>InsertEnqueuedHeader, <1>WithdrawHeader,
       <1>MarkRunCancelled, <1>SignalRunCancelled, <1>RecordRouteCancelled,
       <1>Dispatch, <1>CheckCancelled, <1>RecordCancelled, <1>ReserveLease,
       <1>ClaimCheckCancelled, <1>ReadLease, <1>MoveLease, <1>ReadTaint,
       <1>ReadRunEnded, <1>ClearInterruptedAttempt, <1>StartRun,
       <1>CallBackend, <1>CallReturns, <1>CallThrows, <1>BoundFires,
       <1>RecordFailed, <1>RecordTimedOut, <1>RecordCancelEnd,
       <1>ConfirmNotCancelled, <1>CompleteRun, <1>InsertTranscript,
       <1>CatchRun, <1>ReleaseLease, <1>FinishJob, <1>Deny, <1>StepThrows,
       <1>PreflightRefuses, <1>LoseLease, <1>PollCancelled, <1>LandRecord, <1>Crash,
       <1>stutter
     DEF Next, EnqueueStep, RouteStep, Advance, Interrupt, ToolStep

\* The invariant the takeover rests on.
THEOREM InductiveAlways ==
  ASSUME Faults \subseteq {"crash"}
  PROVE  Spec => []Inductive
<1>1. "lapse" \notin Faults
  OBVIOUS
<1>2. Init => Effects /\ Ends
  <2> SUFFICES ASSUME Init PROVE Effects /\ Ends
    OBVIOUS
  <2> QED BY DEF Init, Effects, Ends, OneEffectExecution, Renewing, InCall,
                 Terminal
<1>3. /\ TypeOK /\ Order /\ Mutex /\ Cancelling /\ Effects /\ Ends
      /\ [Next]_vars
      => Effects' /\ Ends'
  BY EffectsStep, EndsStep
<1> QED BY TypeCorrect, OrderAlways, MutexAlways, CancellingAlways,
           <1>1, <1>2, <1>3, PTL DEF Spec, Inductive

\* The non-idempotent tools of one execution only ever take effect.
THEOREM EffectsOfOneExecution ==
  ASSUME Faults \subseteq {"crash"}
  PROVE  Spec => []OneEffectExecution
<1>1. Inductive => OneEffectExecution
  BY DEF Inductive, Effects
<1> QED BY InductiveAlways, <1>1, PTL

\* Only CallBackend calls a backend.
LEMMA CallStep ==
  ASSUME [Next]_vars
  PROVE  UNCHANGED called \/ \E e \in Exec : CallBackend(e)
<1>frame. ASSUME \/ InsertEnqueuedHeader \/ EnqueueJob \/ EnqueueRefused
                 \/ WithdrawHeader \/ DeadLetter \/ LeaseExpires
                 \/ LeaseLapses \/ ReadHeaderPhase \/ MarkRunCancelled
                 \/ SignalRunCancelled \/ CancelJob \/ RecordRouteCancelled
                 \/ RouteFails
                 \/ \E e \in Exec : \/ Dispatch(e) \/ CheckCancelled(e)
                                    \/ RecordCancelled(e) \/ ReserveLease(e)
                                    \/ ClaimCheckCancelled(e) \/ ReadLease(e)
                                    \/ MoveLease(e) \/ ReadTaint(e)
                                    \/ ReadRunEnded(e)
                                    \/ ClearInterruptedAttempt(e) \/ StartRun(e)
                                    \/ CallReturns(e) \/ CallThrows(e)
                                    \/ BoundFires(e) \/ RecordFailed(e)
                                    \/ ConfirmNotCancelled(e) \/ CompleteRun(e)
                                    \/ InsertTranscript(e) \/ CatchRun(e)
                                    \/ ReleaseLease(e) \/ FinishJob(e)
                                    \/ Deny(e) \/ StepThrows(e)
                                    \/ PreflightRefuses(e) \/ LoseLease(e)
                                    \/ PollCancelled(e) \/ RenewLease(e)
                                    \/ AdmitTool(e) \/ MarkRunTainted(e)
                                    \/ RunHandler(e)
          PROVE  UNCHANGED called
  BY <1>frame DEF InsertEnqueuedHeader, EnqueueJob, EnqueueRefused,
       WithdrawHeader, DeadLetter, LeaseExpires, LeaseLapses, ReadHeaderPhase,
       MarkRunCancelled, SignalRunCancelled, CancelJob, RecordRouteCancelled,
       RouteFails, Dispatch, CheckCancelled, RecordCancelled, ReserveLease,
       ClaimCheckCancelled, ReadLease, MoveLease, ReadTaint, ReadRunEnded,
       ClearInterruptedAttempt, StartRun, CallReturns, CallThrows, BoundFires,
       RecordFailed, ConfirmNotCancelled, CompleteRun, InsertTranscript,
       CatchRun, ReleaseLease, FinishJob, Deny, StepThrows, PreflightRefuses,
       LoseLease, PollCancelled, RenewLease, AdmitTool, MarkRunTainted,
       RunHandler
<1>ends. ASSUME NEW e \in Exec, RecordTimedOut(e) \/ RecordCancelEnd(e) \/ LandRecord(e)
         PROVE  UNCHANGED called
  BY <1>ends DEF RecordTimedOut, RecordCancelEnd, RecordEnd, LandRecord
<1>crash. ASSUME NEW P \in Processes, Crash(P) PROVE UNCHANGED called
  BY <1>crash DEF Crash
<1>stutter. ASSUME UNCHANGED vars PROVE UNCHANGED called
  BY <1>stutter
<1> QED BY <1>frame, <1>ends, <1>crash, <1>stutter
     DEF Next, EnqueueStep, RouteStep, Advance, Interrupt, ToolStep

\* No execution calls the backend of a run that has already ended.
THEOREM EndedIsNotCalled ==
  ASSUME Faults \subseteq {"crash"}
  PROVE  Spec => NoCallAfterEnd
<1>1. /\ TypeOK /\ Inductive /\ [Next]_vars
      => [\A e \in Exec : e \in called' \ called => header \notin Terminal]_vars
  <2> SUFFICES ASSUME TypeOK, Inductive, [Next]_vars,
                      NEW e \in Exec, e \in called' \ called
               PROVE  header \notin Terminal
    OBVIOUS
  <2>1. CallBackend(e)
    BY CallStep DEF CallBackend
  <2> QED BY <2>1 DEF CallBackend, Inductive, Ends, Cancelling
<1> QED BY TypeCorrect, InductiveAlways, <1>1, PTL DEF Spec, NoCallAfterEnd

\* The run implements its ledger: nothing a reader of RunLedger relies on is
\* lost to the number of executions, their crashes and their takeovers.
THEOREM LedgerImplemented ==
  ASSUME Faults \subseteq {"crash"}
  PROVE  Spec => ImplementsLedger
<1>1. Init => Ledger!Init
  BY DEF Init, Ledger!Init
<1>2. TypeOK /\ Inductive /\ [Next]_vars => [Ledger!Next]_(Ledger!run)
  <2> SUFFICES ASSUME TypeOK, Inductive, [Next]_vars
               PROVE  [Ledger!Next]_(Ledger!run)
    OBVIOUS
  <2>1. ASSUME NEW e \in Exec, RunHandler(e) PROVE Ledger!Effect(e)
    BY <2>1 DEF RunHandler, Ledger!Effect, Inductive, Effects
  <2> QED BY <2>1, LedgerStep DEF Ledger!Next, Ledger!run, Inductive
<1> QED BY TypeCorrect, InductiveAlways, <1>1, <1>2, PTL
        DEF Spec, ImplementsLedger, Ledger!Spec

=============================================================================
