-------------------------- MODULE IdempotentRunsProofs --------------------------
(***************************************************************************)
(* The safety properties of IdempotentRuns, for any number of requests,    *)
(* bodies and processes, any bound and any faults.                         *)
(***************************************************************************)
EXTENDS IdempotentRuns, FiniteSetTheorems, TLAPS

USE DEF vars, request, asked, record, exec, cancel, history,
        Terminal, Executing, Winning, Handling

-----------------------------------------------------------------------------
(* Types.                                                                  *)

\* Every step keeps the types.
LEMMA TypeStep ==
  ASSUME TypeOK, [Next]_vars
  PROVE  TypeOK'
<1>Reserve. ASSUME NEW r \in Request, Reserve(r) PROVE TypeOK'
  BY <1>Reserve, IdempotentRunsAssumption DEF Reserve, GoTo, TypeOK
<1>FindPrior. ASSUME NEW r \in Request, FindPrior(r) PROVE TypeOK'
  BY <1>FindPrior, IdempotentRunsAssumption DEF FindPrior, SameBody, Respond, GoTo, TypeOK
<1>Replay. ASSUME NEW r \in Request, Replay(r) PROVE TypeOK'
  BY <1>Replay, IdempotentRunsAssumption DEF Replay, Respond, GoTo, TypeOK
<1>FreeKey. ASSUME NEW r \in Request, FreeKey(r) PROVE TypeOK'
  BY <1>FreeKey, IdempotentRunsAssumption DEF FreeKey, Release, GoTo, TypeOK
<1>AcquireSlot. ASSUME NEW r \in Request, AcquireSlot(r) PROVE TypeOK'
  BY <1>AcquireSlot DEF AcquireSlot, GoTo, TypeOK
<1>RunSettles. ASSUME NEW r \in Request, RunSettles(r) PROVE TypeOK'
  BY <1>RunSettles, IdempotentRunsAssumption DEF RunSettles, GoTo, TypeOK
<1>RequestTimesOut. ASSUME NEW r \in Request, RequestTimesOut(r) PROVE TypeOK'
  BY <1>RequestTimesOut DEF RequestTimesOut, GoTo, TypeOK
<1>ReadOwnTaint. ASSUME NEW r \in Request, ReadOwnTaint(r) PROVE TypeOK'
  BY <1>ReadOwnTaint DEF ReadOwnTaint, GoTo, TypeOK
<1>InsertHeader. ASSUME NEW r \in Request, InsertHeader(r) PROVE TypeOK'
  BY <1>InsertHeader DEF InsertHeader, GoTo, TypeOK
<1>Enqueue. ASSUME NEW r \in Request, Enqueue(r) PROVE TypeOK'
  BY <1>Enqueue, IdempotentRunsAssumption DEF Enqueue, Respond, GoTo, TypeOK
<1>ProbeJob. ASSUME NEW r \in Request, ProbeJob(r) PROVE TypeOK'
  BY <1>ProbeJob DEF ProbeJob, GoTo, TypeOK
<1>UndoReservation. ASSUME NEW r \in Request, UndoReservation(r) PROVE TypeOK'
  BY <1>UndoReservation, IdempotentRunsAssumption DEF UndoReservation, GoTo, TypeOK
<1>WithdrawHeader. ASSUME NEW r \in Request, WithdrawHeader(r) PROVE TypeOK'
  BY <1>WithdrawHeader DEF WithdrawHeader, GoTo, TypeOK
<1>StartRun. ASSUME NEW r \in Request, StartRun(r) PROVE TypeOK'
  BY <1>StartRun DEF StartRun, Settle, TypeOK
<1>CallBackend. ASSUME NEW r \in Request, CallBackend(r) PROVE TypeOK'
  BY <1>CallBackend DEF CallBackend, TypeOK
<1>CallReturns. ASSUME NEW r \in Request, CallReturns(r) PROVE TypeOK'
  BY <1>CallReturns DEF CallReturns, TypeOK
<1>CallFails. ASSUME NEW r \in Request, CallFails(r) PROVE TypeOK'
  BY <1>CallFails DEF CallFails, TypeOK
<1>RecordFailed. ASSUME NEW r \in Request, RecordFailed(r) PROVE TypeOK'
  BY <1>RecordFailed DEF RecordFailed, EndHeader, Settle, TypeOK
<1>RecordStop. ASSUME NEW r \in Request, RecordStop(r) PROVE TypeOK'
  BY <1>RecordStop DEF RecordStop, StopHeader, EndHeader, Settle, TypeOK
<1>ConfirmNotCancelled. ASSUME NEW r \in Request, ConfirmNotCancelled(r) PROVE TypeOK'
  BY <1>ConfirmNotCancelled DEF ConfirmNotCancelled, StopHeader, EndHeader, Settle, TypeOK
<1>CompleteRun. ASSUME NEW r \in Request, CompleteRun(r) PROVE TypeOK'
  BY <1>CompleteRun DEF CompleteRun, Settle, TypeOK
<1>AdmitTool. ASSUME NEW r \in Request, AdmitTool(r) PROVE TypeOK'
  BY <1>AdmitTool DEF AdmitTool, TypeOK
<1>MarkRunTainted. ASSUME NEW r \in Request, MarkRunTainted(r) PROVE TypeOK'
  BY <1>MarkRunTainted DEF MarkRunTainted, TypeOK
<1>RunHandler. ASSUME NEW r \in Request, RunHandler(r) PROVE TypeOK'
  BY <1>RunHandler DEF RunHandler, TypeOK
<1>StartJob. ASSUME NEW r \in Request, StartJob(r) PROVE TypeOK'
  BY <1>StartJob DEF StartJob, StopHeader, EndHeader, TypeOK
<1>JobFires. ASSUME NEW r \in Request, JobFires(r) PROVE TypeOK'
  BY <1>JobFires DEF JobFires, TypeOK
<1>EndJob. ASSUME NEW r \in Request, EndJob(r) PROVE TypeOK'
  BY <1>EndJob DEF EndJob, TypeOK
<1>PollCancelled. ASSUME NEW r \in Request, PollCancelled(r) PROVE TypeOK'
  BY <1>PollCancelled DEF PollCancelled, TypeOK
<1>RequestCancel. ASSUME NEW r \in Request, RequestCancel(r) PROVE TypeOK'
  BY <1>RequestCancel DEF RequestCancel, TypeOK
<1>MarkRunCancelled. ASSUME MarkRunCancelled PROVE TypeOK'
  BY <1>MarkRunCancelled DEF MarkRunCancelled, TypeOK
<1>SignalRunCancelled. ASSUME SignalRunCancelled PROVE TypeOK'
  BY <1>SignalRunCancelled DEF SignalRunCancelled, TypeOK
<1>CancelJob. ASSUME CancelJob PROVE TypeOK'
  BY <1>CancelJob DEF CancelJob, TypeOK
<1>RecordRouteCancelled. ASSUME RecordRouteCancelled PROVE TypeOK'
  BY <1>RecordRouteCancelled DEF RecordRouteCancelled, StopHeader, EndHeader, TypeOK
<1>Crash. ASSUME NEW p \in Process, Crash(p) PROVE TypeOK'
  BY <1>Crash DEF Crash, SlotsOf, TypeOK
<1>stutter. ASSUME UNCHANGED vars PROVE TypeOK'
  BY <1>stutter DEF TypeOK
<1> QED BY <1>Reserve, <1>FindPrior, <1>Replay, <1>FreeKey, <1>AcquireSlot, <1>RunSettles,
     <1>RequestTimesOut, <1>ReadOwnTaint, <1>InsertHeader, <1>Enqueue, <1>ProbeJob,
     <1>UndoReservation, <1>WithdrawHeader, <1>StartRun, <1>CallBackend, <1>CallReturns,
     <1>CallFails, <1>RecordFailed, <1>RecordStop, <1>ConfirmNotCancelled, <1>CompleteRun,
     <1>AdmitTool, <1>MarkRunTainted, <1>RunHandler, <1>StartJob, <1>JobFires, <1>EndJob,
     <1>PollCancelled, <1>RequestCancel, <1>MarkRunCancelled, <1>SignalRunCancelled,
     <1>CancelJob, <1>RecordRouteCancelled, <1>Crash, <1>stutter
     DEF Next, HandlerStep, RunStep

\* Every row, request, run and job keeps its type.
THEOREM TypeCorrect == Spec => []TypeOK
<1>1. Init => TypeOK
  <2> SUFFICES ASSUME Init PROVE TypeOK
    OBVIOUS
  <2> QED BY DEF Init, TypeOK
<1>2. TypeOK /\ [Next]_vars => TypeOK'
  BY TypeStep
<1> QED BY <1>1, <1>2, PTL DEF Spec

-----------------------------------------------------------------------------
(* Who may hold the key.                                                   *)

\* Where a request and its run are: a loser has never held the row; a run
\* executes only behind the slot and a job only behind the enqueue; a run
\* about to be released without being let go has nothing left to do.
Life ==
  \A r \in Request :
    /\ pc[r] \in {"new", "find", "replay"} => key # r
    /\ pc[r] \in {"new", "find", "replay", "slot"} \cup {"header", "submit", "probe", "undo", "withdraw"}
         => run[r] = "none"
    /\ pc[r] \notin {"probe", "done", "kept", "dead"} => job[r] = "none"
    /\ run[r] = "none" \/ job[r] = "none"
    /\ run[r] = "none" => tool[r] = "idle"
    /\ run[r] = "none" /\ job[r] = "none" => r \notin tainted
    /\ tool[r] = "marked" \/ r \in fired => r \in tainted
    /\ pc[r] = "free" /\ r \notin letGo =>
         run[r] \notin Executing /\ tool[r] = "idle" /\ r \notin tainted

KeyInv == Life /\ Ownership /\ JobKeepsKey

\* Every step keeps the owner of the key.
LEMMA KeyStep ==
  ASSUME TypeOK, KeyInv, [Next]_vars
  PROVE  KeyInv'
<1>frame. ASSUME \/ MarkRunCancelled \/ RecordRouteCancelled
                 \/ \E r \in Request : \/ RequestCancel(r)
          PROVE  KeyInv'
  <2>1. UNCHANGED <<fired, job, key, letGo, pc, run, tainted, tool>>
    BY <1>frame DEF RequestCancel, MarkRunCancelled, RecordRouteCancelled
  <2> QED BY <2>1 DEF KeyInv, Life, Ownership, JobKeepsKey, AtWork, TypeOK
<1>Reserve. ASSUME NEW r \in Request, Reserve(r) PROVE KeyInv'
  BY <1>Reserve, IdempotentRunsAssumption DEF Reserve, GoTo, KeyInv, Life, Ownership,
     JobKeepsKey, AtWork, TypeOK
<1>FindPrior. ASSUME NEW r \in Request, FindPrior(r) PROVE KeyInv'
  BY <1>FindPrior DEF FindPrior, SameBody, Respond, GoTo, KeyInv, Life, Ownership, JobKeepsKey,
     AtWork, TypeOK
<1>Replay. ASSUME NEW r \in Request, Replay(r) PROVE KeyInv'
  BY <1>Replay DEF Replay, Respond, GoTo, KeyInv, Life, Ownership, JobKeepsKey, AtWork, TypeOK
<1>FreeKey. ASSUME NEW r \in Request, FreeKey(r) PROVE KeyInv'
  BY <1>FreeKey, IdempotentRunsAssumption DEF FreeKey, Release, GoTo, KeyInv, Life, Ownership,
     JobKeepsKey, AtWork, TypeOK
<1>AcquireSlot. ASSUME NEW r \in Request, AcquireSlot(r) PROVE KeyInv'
  BY <1>AcquireSlot DEF AcquireSlot, GoTo, KeyInv, Life, Ownership, JobKeepsKey, AtWork, TypeOK
<1>RunSettles. ASSUME NEW r \in Request, RunSettles(r) PROVE KeyInv'
  BY <1>RunSettles DEF RunSettles, GoTo, KeyInv, Life, Ownership, JobKeepsKey, AtWork, TypeOK
<1>RequestTimesOut. ASSUME NEW r \in Request, RequestTimesOut(r) PROVE KeyInv'
  BY <1>RequestTimesOut DEF RequestTimesOut, GoTo, KeyInv, Life, Ownership, JobKeepsKey, AtWork,
     TypeOK
<1>ReadOwnTaint. ASSUME NEW r \in Request, ReadOwnTaint(r) PROVE KeyInv'
  BY <1>ReadOwnTaint DEF ReadOwnTaint, GoTo, KeyInv, Life, Ownership, JobKeepsKey, AtWork,
     TypeOK
<1>InsertHeader. ASSUME NEW r \in Request, InsertHeader(r) PROVE KeyInv'
  BY <1>InsertHeader DEF InsertHeader, GoTo, KeyInv, Life, Ownership, JobKeepsKey, AtWork,
     TypeOK
<1>Enqueue. ASSUME NEW r \in Request, Enqueue(r) PROVE KeyInv'
  BY <1>Enqueue DEF Enqueue, Respond, GoTo, KeyInv, Life, Ownership, JobKeepsKey, AtWork, TypeOK
<1>ProbeJob. ASSUME NEW r \in Request, ProbeJob(r) PROVE KeyInv'
  BY <1>ProbeJob DEF ProbeJob, GoTo, KeyInv, Life, Ownership, JobKeepsKey, AtWork, TypeOK
<1>UndoReservation. ASSUME NEW r \in Request, UndoReservation(r) PROVE KeyInv'
  BY <1>UndoReservation, IdempotentRunsAssumption DEF UndoReservation, GoTo, KeyInv, Life,
     Ownership, JobKeepsKey, AtWork, TypeOK
<1>WithdrawHeader. ASSUME NEW r \in Request, WithdrawHeader(r) PROVE KeyInv'
  BY <1>WithdrawHeader DEF WithdrawHeader, GoTo, KeyInv, Life, Ownership, JobKeepsKey, AtWork,
     TypeOK
<1>StartRun. ASSUME NEW r \in Request, StartRun(r) PROVE KeyInv'
  BY <1>StartRun DEF StartRun, Settle, KeyInv, Life, Ownership, JobKeepsKey, AtWork, TypeOK
<1>CallBackend. ASSUME NEW r \in Request, CallBackend(r) PROVE KeyInv'
  BY <1>CallBackend DEF CallBackend, KeyInv, Life, Ownership, JobKeepsKey, AtWork, TypeOK
<1>CallReturns. ASSUME NEW r \in Request, CallReturns(r) PROVE KeyInv'
  BY <1>CallReturns DEF CallReturns, KeyInv, Life, Ownership, JobKeepsKey, AtWork, TypeOK
<1>CallFails. ASSUME NEW r \in Request, CallFails(r) PROVE KeyInv'
  BY <1>CallFails DEF CallFails, KeyInv, Life, Ownership, JobKeepsKey, AtWork, TypeOK
<1>RecordFailed. ASSUME NEW r \in Request, RecordFailed(r) PROVE KeyInv'
  BY <1>RecordFailed DEF RecordFailed, EndHeader, Settle, KeyInv, Life, Ownership, JobKeepsKey,
     AtWork, TypeOK
<1>RecordStop. ASSUME NEW r \in Request, RecordStop(r) PROVE KeyInv'
  BY <1>RecordStop DEF RecordStop, StopHeader, EndHeader, Settle, KeyInv, Life, Ownership,
     JobKeepsKey, AtWork, TypeOK
<1>ConfirmNotCancelled. ASSUME NEW r \in Request, ConfirmNotCancelled(r) PROVE KeyInv'
  BY <1>ConfirmNotCancelled DEF ConfirmNotCancelled, StopHeader, EndHeader, Settle, KeyInv,
     Life, Ownership, JobKeepsKey, AtWork, TypeOK
<1>CompleteRun. ASSUME NEW r \in Request, CompleteRun(r) PROVE KeyInv'
  BY <1>CompleteRun DEF CompleteRun, Settle, KeyInv, Life, Ownership, JobKeepsKey, AtWork,
     TypeOK
<1>AdmitTool. ASSUME NEW r \in Request, AdmitTool(r) PROVE KeyInv'
  BY <1>AdmitTool DEF AdmitTool, KeyInv, Life, Ownership, JobKeepsKey, AtWork, TypeOK
<1>MarkRunTainted. ASSUME NEW r \in Request, MarkRunTainted(r) PROVE KeyInv'
  BY <1>MarkRunTainted DEF MarkRunTainted, KeyInv, Life, Ownership, JobKeepsKey, AtWork, TypeOK
<1>RunHandler. ASSUME NEW r \in Request, RunHandler(r) PROVE KeyInv'
  BY <1>RunHandler DEF RunHandler, KeyInv, Life, Ownership, JobKeepsKey, AtWork, TypeOK
<1>StartJob. ASSUME NEW r \in Request, StartJob(r) PROVE KeyInv'
  BY <1>StartJob DEF StartJob, StopHeader, EndHeader, KeyInv, Life, Ownership, JobKeepsKey,
     AtWork, TypeOK
<1>JobFires. ASSUME NEW r \in Request, JobFires(r) PROVE KeyInv'
  BY <1>JobFires DEF JobFires, KeyInv, Life, Ownership, JobKeepsKey, AtWork, TypeOK
<1>EndJob. ASSUME NEW r \in Request, EndJob(r) PROVE KeyInv'
  BY <1>EndJob DEF EndJob, KeyInv, Life, Ownership, JobKeepsKey, AtWork, TypeOK
<1>PollCancelled. ASSUME NEW r \in Request, PollCancelled(r) PROVE KeyInv'
  BY <1>PollCancelled DEF PollCancelled, KeyInv, Life, Ownership, JobKeepsKey, AtWork, TypeOK
<1>SignalRunCancelled. ASSUME SignalRunCancelled PROVE KeyInv'
  BY <1>SignalRunCancelled DEF SignalRunCancelled, KeyInv, Life, Ownership, JobKeepsKey, AtWork,
     TypeOK
<1>CancelJob. ASSUME CancelJob PROVE KeyInv'
  BY <1>CancelJob DEF CancelJob, KeyInv, Life, Ownership, JobKeepsKey, AtWork, TypeOK
<1>Crash. ASSUME NEW p \in Process, Crash(p) PROVE KeyInv'
  BY <1>Crash DEF Crash, SlotsOf, KeyInv, Life, Ownership, JobKeepsKey, AtWork, TypeOK
<1>stutter. ASSUME UNCHANGED vars PROVE KeyInv'
  BY <1>stutter DEF KeyInv, Life, Ownership, JobKeepsKey, AtWork, TypeOK
<1> QED BY <1>frame, <1>Reserve, <1>FindPrior, <1>Replay, <1>FreeKey, <1>AcquireSlot,
     <1>RunSettles, <1>RequestTimesOut, <1>ReadOwnTaint, <1>InsertHeader, <1>Enqueue,
     <1>ProbeJob, <1>UndoReservation, <1>WithdrawHeader, <1>StartRun, <1>CallBackend,
     <1>CallReturns, <1>CallFails, <1>RecordFailed, <1>RecordStop, <1>ConfirmNotCancelled,
     <1>CompleteRun, <1>AdmitTool, <1>MarkRunTainted, <1>RunHandler, <1>StartJob, <1>JobFires,
     <1>EndJob, <1>PollCancelled, <1>SignalRunCancelled, <1>CancelJob, <1>Crash, <1>stutter
     DEF Next, HandlerStep, RunStep

LEMMA KeyAlways == Spec => []KeyInv
<1>1. Init => KeyInv
  <2> SUFFICES ASSUME Init PROVE KeyInv
    OBVIOUS
  <2> QED BY IdempotentRunsAssumption DEF Init, KeyInv, Life, Ownership, JobKeepsKey, AtWork
<1>2. TypeOK /\ KeyInv /\ [Next]_vars => KeyInv'
  BY KeyStep
<1> QED BY <1>1, <1>2, TypeCorrect, PTL DEF Spec

\* The row of the key is the run's that works or has bound itself to the key,
\* unless its handler let it go.
THEOREM OwnershipAlways == Spec => []Ownership
<1>1. KeyInv => Ownership
  BY DEF KeyInv
<1> QED BY <1>1, KeyAlways, PTL

\* No two runs of the key are at work together unless one was let go.
THEOREM OneRunAlways == Spec => []OneRunAtATime
<1>1. KeyInv => OneRunAtATime
  BY DEF KeyInv, Ownership, OneRunAtATime
<1> QED BY <1>1, KeyAlways, PTL

\* Side effects take place in one run of the key unless one was let go.
THEOREM OneEffectAlways == Spec => []OneEffectRun
<1>1. TypeOK /\ KeyInv => OneEffectRun
  BY DEF KeyInv, Life, Ownership, OneEffectRun, TypeOK
<1> QED BY <1>1, KeyAlways, TypeCorrect, PTL

\* A job the engine has keeps the key, whatever its enqueue reported.
THEOREM JobKeepsKeyAlways == Spec => []JobKeepsKey
<1>1. KeyInv => JobKeepsKey
  BY DEF KeyInv
<1> QED BY <1>1, KeyAlways, PTL

\* Although the delete names no run, no request frees the row of another.
THEOREM OwnReleases == Spec => ReleasesOwn
<1> DEFINE Own == key # NoRun /\ key' # key => key' = NoRun /\ pc'[key] # pc[key]
<1>1. TypeOK /\ KeyInv /\ [Next]_vars => [Own]_vars
  <2> SUFFICES ASSUME TypeOK, KeyInv, [Next]_vars PROVE Own
    OBVIOUS
  <2>1. ASSUME NEW r \in Request, Reserve(r) PROVE Own
    BY <2>1 DEF Reserve
  <2>2. ASSUME NEW r \in Request, FreeKey(r) PROVE Own
    BY <2>2 DEF FreeKey, Release, GoTo, KeyInv, Ownership, TypeOK
  <2>3. ASSUME NEW r \in Request, UndoReservation(r) PROVE Own
    BY <2>3 DEF UndoReservation, GoTo, KeyInv, Ownership, TypeOK
  <2>4. ASSUME UNCHANGED key PROVE Own
    BY <2>4
  <2>5. ASSUME \/ MarkRunCancelled \/ SignalRunCancelled \/ CancelJob \/ RecordRouteCancelled
               \/ \E p \in Process : Crash(p)
               \/ \E r \in Request : \/ FindPrior(r) \/ Replay(r) \/ AcquireSlot(r)
                                   \/ RunSettles(r) \/ RequestTimesOut(r) \/ ReadOwnTaint(r)
                                   \/ InsertHeader(r) \/ Enqueue(r) \/ ProbeJob(r)
                                   \/ WithdrawHeader(r) \/ StartRun(r) \/ CallBackend(r)
                                   \/ CallReturns(r) \/ CallFails(r) \/ RecordFailed(r)
                                   \/ RecordStop(r) \/ ConfirmNotCancelled(r) \/ CompleteRun(r)
                                   \/ AdmitTool(r) \/ MarkRunTainted(r) \/ RunHandler(r)
                                   \/ StartJob(r) \/ JobFires(r) \/ EndJob(r)
                                   \/ PollCancelled(r) \/ RequestCancel(r)
        PROVE  Own
    BY <2>5 DEF FindPrior, Replay, AcquireSlot, RunSettles, RequestTimesOut, ReadOwnTaint,
       InsertHeader, Enqueue, ProbeJob, WithdrawHeader, StartRun, CallBackend, CallReturns,
       CallFails, RecordFailed, RecordStop, ConfirmNotCancelled, CompleteRun, AdmitTool,
       MarkRunTainted, RunHandler, StartJob, JobFires, EndJob, PollCancelled, RequestCancel,
       MarkRunCancelled, SignalRunCancelled, CancelJob, RecordRouteCancelled, Crash
  <2> QED BY <2>1, <2>2, <2>3, <2>4, <2>5 DEF Next, HandlerStep, RunStep
<1> QED BY <1>1, KeyAlways, TypeCorrect, PTL DEF Spec, ReleasesOwn

-----------------------------------------------------------------------------
(* What callers have been told.                                            *)

\* A header is not there before its writer, is there while the run executes,
\* and is terminal once the run settled with an answer of its backend.
Headers ==
  \A r \in Request :
    /\ run[r] = "start" \/ pc[r] \in {"new", "find", "replay", "slot", "header"} => status[r] = "absent"
    /\ run[r] \in Executing \ {"start"} => status[r] # "absent"
    /\ run[r] \in {"confirm", "complete"} => result[r] \in {"completed", "terminal", "transient"}
    /\ run[r] = "settled" => result[r] # "none"
    /\ run[r] = "settled" /\ result[r] \in {"completed", "terminal", "transient"} => status[r] \in Terminal

\* A response names the request's own run or one of the same body that has
\* ended; a request given a stable outcome of its own run never releases it.
Answers ==
  \A r \in Request :
    /\ pc[r] \in {"header", "submit", "probe", "undo", "withdraw"} => mode[r] = "queued"
    /\ pc[r] = "replay" => prior[r] \in Request /\ body[prior[r]] = body[r]
    /\ answer[r] # NoRun => pc[r] \in {"done", "taint", "free", "kept", "dead"}
    /\ answer[r] = r => run[r] = "settled" \/ job[r] # "none"
    /\ answer[r] = r /\ pc[r] \in {"taint", "free"} => result[r] = "transient"
    /\ pc[r] = "done" /\ key = r =>
         \/ job[r] # "none" \/ r \in tainted
         \/ run[r] = "settled" /\ result[r] \in {"completed", "terminal", "cancelled"}

AnswerInv == Headers /\ Answers /\ AnswersMatch /\ AnswerKeepsKey

\* Every step keeps what callers have been told.
LEMMA AnswerStep ==
  ASSUME TypeOK, KeyInv, AnswerInv, [Next]_vars
  PROVE  AnswerInv'
<1>frame. ASSUME \/ MarkRunCancelled
                 \/ \E r \in Request : \/ AdmitTool(r) \/ RunHandler(r)
                                     \/ RequestCancel(r)
          PROVE  AnswerInv'
  <2>1. UNCHANGED <<answer, body, job, key, mode, pc, prior, result, run, status, tainted>>
    BY <1>frame DEF AdmitTool, RunHandler, RequestCancel, MarkRunCancelled
  <2> QED BY <2>1 DEF AnswerInv, Headers, Answers, AnswersMatch, AnswerKeepsKey, KeyInv, Life, Ownership, JobKeepsKey, TypeOK
<1>Reserve. ASSUME NEW r \in Request, Reserve(r) PROVE AnswerInv'
  BY <1>Reserve, IdempotentRunsAssumption DEF Reserve, GoTo, AnswerInv, Headers, Answers,
     AnswersMatch, AnswerKeepsKey, KeyInv, Life, Ownership, JobKeepsKey, TypeOK
<1>FindPrior. ASSUME NEW r \in Request, FindPrior(r) PROVE AnswerInv'
  BY <1>FindPrior, IdempotentRunsAssumption DEF FindPrior, SameBody, Respond, GoTo, AnswerInv,
     Headers, Answers, AnswersMatch, AnswerKeepsKey, KeyInv, Life, Ownership, JobKeepsKey,
     TypeOK
<1>Replay. ASSUME NEW r \in Request, Replay(r) PROVE AnswerInv'
  BY <1>Replay, IdempotentRunsAssumption DEF Replay, Respond, GoTo, AnswerInv, Headers, Answers,
     AnswersMatch, AnswerKeepsKey, KeyInv, Life, Ownership, JobKeepsKey, TypeOK
<1>FreeKey. ASSUME NEW r \in Request, FreeKey(r) PROVE AnswerInv'
  BY <1>FreeKey, IdempotentRunsAssumption DEF FreeKey, Release, GoTo, AnswerInv, Headers,
     Answers, AnswersMatch, AnswerKeepsKey, KeyInv, Life, Ownership, JobKeepsKey, TypeOK
<1>AcquireSlot. ASSUME NEW r \in Request, AcquireSlot(r) PROVE AnswerInv'
  BY <1>AcquireSlot DEF AcquireSlot, GoTo, AnswerInv, Headers, Answers, AnswersMatch,
     AnswerKeepsKey, KeyInv, Life, Ownership, JobKeepsKey, TypeOK
<1>RunSettles. ASSUME NEW r \in Request, RunSettles(r) PROVE AnswerInv'
  BY <1>RunSettles, IdempotentRunsAssumption DEF RunSettles, GoTo, AnswerInv, Headers, Answers,
     AnswersMatch, AnswerKeepsKey, KeyInv, Life, Ownership, JobKeepsKey, TypeOK
<1>RequestTimesOut. ASSUME NEW r \in Request, RequestTimesOut(r) PROVE AnswerInv'
  BY <1>RequestTimesOut DEF RequestTimesOut, GoTo, AnswerInv, Headers, Answers, AnswersMatch,
     AnswerKeepsKey, KeyInv, Life, Ownership, JobKeepsKey, TypeOK
<1>ReadOwnTaint. ASSUME NEW r \in Request, ReadOwnTaint(r) PROVE AnswerInv'
  BY <1>ReadOwnTaint DEF ReadOwnTaint, GoTo, AnswerInv, Headers, Answers, AnswersMatch,
     AnswerKeepsKey, KeyInv, Life, Ownership, JobKeepsKey, TypeOK
<1>InsertHeader. ASSUME NEW r \in Request, InsertHeader(r) PROVE AnswerInv'
  BY <1>InsertHeader DEF InsertHeader, GoTo, AnswerInv, Headers, Answers, AnswersMatch,
     AnswerKeepsKey, KeyInv, Life, Ownership, JobKeepsKey, TypeOK
<1>Enqueue. ASSUME NEW r \in Request, Enqueue(r) PROVE AnswerInv'
  BY <1>Enqueue, IdempotentRunsAssumption DEF Enqueue, Respond, GoTo, AnswerInv, Headers,
     Answers, AnswersMatch, AnswerKeepsKey, KeyInv, Life, Ownership, JobKeepsKey, TypeOK
<1>ProbeJob. ASSUME NEW r \in Request, ProbeJob(r) PROVE AnswerInv'
  BY <1>ProbeJob DEF ProbeJob, GoTo, AnswerInv, Headers, Answers, AnswersMatch, AnswerKeepsKey,
     KeyInv, Life, Ownership, JobKeepsKey, TypeOK
<1>UndoReservation. ASSUME NEW r \in Request, UndoReservation(r) PROVE AnswerInv'
  BY <1>UndoReservation, IdempotentRunsAssumption DEF UndoReservation, GoTo, AnswerInv, Headers,
     Answers, AnswersMatch, AnswerKeepsKey, KeyInv, Life, Ownership, JobKeepsKey, TypeOK
<1>WithdrawHeader. ASSUME NEW r \in Request, WithdrawHeader(r) PROVE AnswerInv'
  BY <1>WithdrawHeader DEF WithdrawHeader, GoTo, AnswerInv, Headers, Answers, AnswersMatch,
     AnswerKeepsKey, KeyInv, Life, Ownership, JobKeepsKey, TypeOK
<1>StartRun. ASSUME NEW r \in Request, StartRun(r) PROVE AnswerInv'
  BY <1>StartRun DEF StartRun, Settle, AnswerInv, Headers, Answers, AnswersMatch,
     AnswerKeepsKey, KeyInv, Life, Ownership, JobKeepsKey, TypeOK
<1>CallBackend. ASSUME NEW r \in Request, CallBackend(r) PROVE AnswerInv'
  BY <1>CallBackend DEF CallBackend, AnswerInv, Headers, Answers, AnswersMatch, AnswerKeepsKey,
     KeyInv, Life, Ownership, JobKeepsKey, TypeOK
<1>CallReturns. ASSUME NEW r \in Request, CallReturns(r) PROVE AnswerInv'
  BY <1>CallReturns DEF CallReturns, AnswerInv, Headers, Answers, AnswersMatch, AnswerKeepsKey,
     KeyInv, Life, Ownership, JobKeepsKey, TypeOK
<1>CallFails. ASSUME NEW r \in Request, CallFails(r) PROVE AnswerInv'
  BY <1>CallFails DEF CallFails, AnswerInv, Headers, Answers, AnswersMatch, AnswerKeepsKey,
     KeyInv, Life, Ownership, JobKeepsKey, TypeOK
<1>RecordFailed. ASSUME NEW r \in Request, RecordFailed(r) PROVE AnswerInv'
  BY <1>RecordFailed DEF RecordFailed, EndHeader, Settle, AnswerInv, Headers, Answers,
     AnswersMatch, AnswerKeepsKey, KeyInv, Life, Ownership, JobKeepsKey, TypeOK
<1>RecordStop. ASSUME NEW r \in Request, RecordStop(r) PROVE AnswerInv'
  BY <1>RecordStop DEF RecordStop, StopHeader, EndHeader, Settle, AnswerInv, Headers, Answers,
     AnswersMatch, AnswerKeepsKey, KeyInv, Life, Ownership, JobKeepsKey, TypeOK
<1>ConfirmNotCancelled. ASSUME NEW r \in Request, ConfirmNotCancelled(r) PROVE AnswerInv'
  BY <1>ConfirmNotCancelled DEF ConfirmNotCancelled, StopHeader, EndHeader, Settle, AnswerInv,
     Headers, Answers, AnswersMatch, AnswerKeepsKey, KeyInv, Life, Ownership, JobKeepsKey,
     TypeOK
<1>CompleteRun. ASSUME NEW r \in Request, CompleteRun(r) PROVE AnswerInv'
  BY <1>CompleteRun DEF CompleteRun, Settle, AnswerInv, Headers, Answers, AnswersMatch,
     AnswerKeepsKey, KeyInv, Life, Ownership, JobKeepsKey, TypeOK
<1>MarkRunTainted. ASSUME NEW r \in Request, MarkRunTainted(r) PROVE AnswerInv'
  BY <1>MarkRunTainted DEF MarkRunTainted, AnswerInv, Headers, Answers, AnswersMatch,
     AnswerKeepsKey, KeyInv, Life, Ownership, JobKeepsKey, TypeOK
<1>StartJob. ASSUME NEW r \in Request, StartJob(r) PROVE AnswerInv'
  BY <1>StartJob DEF StartJob, StopHeader, EndHeader, AnswerInv, Headers, Answers, AnswersMatch,
     AnswerKeepsKey, KeyInv, Life, Ownership, JobKeepsKey, TypeOK
<1>JobFires. ASSUME NEW r \in Request, JobFires(r) PROVE AnswerInv'
  BY <1>JobFires DEF JobFires, AnswerInv, Headers, Answers, AnswersMatch, AnswerKeepsKey,
     KeyInv, Life, Ownership, JobKeepsKey, TypeOK
<1>EndJob. ASSUME NEW r \in Request, EndJob(r) PROVE AnswerInv'
  BY <1>EndJob DEF EndJob, AnswerInv, Headers, Answers, AnswersMatch, AnswerKeepsKey, KeyInv,
     Life, Ownership, JobKeepsKey, TypeOK
<1>PollCancelled. ASSUME NEW r \in Request, PollCancelled(r) PROVE AnswerInv'
  BY <1>PollCancelled DEF PollCancelled, AnswerInv, Headers, Answers, AnswersMatch,
     AnswerKeepsKey, KeyInv, Life, Ownership, JobKeepsKey, TypeOK
<1>SignalRunCancelled. ASSUME SignalRunCancelled PROVE AnswerInv'
  BY <1>SignalRunCancelled DEF SignalRunCancelled, AnswerInv, Headers, Answers, AnswersMatch,
     AnswerKeepsKey, KeyInv, Life, Ownership, JobKeepsKey, TypeOK
<1>CancelJob. ASSUME CancelJob PROVE AnswerInv'
  BY <1>CancelJob DEF CancelJob, AnswerInv, Headers, Answers, AnswersMatch, AnswerKeepsKey,
     KeyInv, Life, Ownership, JobKeepsKey, TypeOK
<1>RecordRouteCancelled. ASSUME RecordRouteCancelled PROVE AnswerInv'
  BY <1>RecordRouteCancelled DEF RecordRouteCancelled, StopHeader, EndHeader, AnswerInv,
     Headers, Answers, AnswersMatch, AnswerKeepsKey, KeyInv, Life, Ownership, JobKeepsKey,
     TypeOK
<1>Crash. ASSUME NEW p \in Process, Crash(p) PROVE AnswerInv'
  BY <1>Crash DEF Crash, SlotsOf, AnswerInv, Headers, Answers, AnswersMatch, AnswerKeepsKey,
     KeyInv, Life, Ownership, JobKeepsKey, TypeOK
<1>stutter. ASSUME UNCHANGED vars PROVE AnswerInv'
  BY <1>stutter DEF AnswerInv, Headers, Answers, AnswersMatch, AnswerKeepsKey, KeyInv, Life, Ownership, JobKeepsKey, TypeOK
<1> QED BY <1>frame, <1>Reserve, <1>FindPrior, <1>Replay, <1>FreeKey, <1>AcquireSlot,
     <1>RunSettles, <1>RequestTimesOut, <1>ReadOwnTaint, <1>InsertHeader, <1>Enqueue,
     <1>ProbeJob, <1>UndoReservation, <1>WithdrawHeader, <1>StartRun, <1>CallBackend,
     <1>CallReturns, <1>CallFails, <1>RecordFailed, <1>RecordStop, <1>ConfirmNotCancelled,
     <1>CompleteRun, <1>MarkRunTainted, <1>StartJob, <1>JobFires, <1>EndJob, <1>PollCancelled,
     <1>SignalRunCancelled, <1>CancelJob, <1>RecordRouteCancelled, <1>Crash, <1>stutter
     DEF Next, HandlerStep, RunStep

LEMMA AnswerAlways == Spec => []AnswerInv
<1>1. Init => AnswerInv
  <2> SUFFICES ASSUME Init PROVE AnswerInv
    OBVIOUS
  <2> QED BY IdempotentRunsAssumption
          DEF Init, AnswerInv, Headers, Answers, AnswersMatch, AnswerKeepsKey
<1>2. TypeOK /\ KeyInv /\ AnswerInv /\ [Next]_vars => AnswerInv'
  BY AnswerStep
<1> QED BY <1>1, <1>2, TypeCorrect, KeyAlways, PTL DEF Spec

\* A run whose stable outcome its caller was given keeps the key for ever.
THEOREM AnswerKeepsKeyAlways == Spec => []AnswerKeepsKey
<1>1. AnswerInv => AnswerKeepsKey
  BY DEF AnswerInv
<1> QED BY <1>1, AnswerAlways, PTL

\* A response is about the same body, and in a request about an ended run.
THEOREM AnswersMatchAlways == Spec => []AnswersMatch
<1>1. AnswerInv => AnswersMatch
  BY DEF AnswerInv
<1> QED BY <1>1, AnswerAlways, PTL

\* What may be retried has its key free when its request has ended.
THEOREM FreedForRetryAlways == Spec => []FreedForRetry
<1>1. AnswerInv => FreedForRetry
  BY DEF AnswerInv, Answers, FreedForRetry
<1> QED BY <1>1, AnswerAlways, PTL

-----------------------------------------------------------------------------
(* The in-request bound.                                                   *)

\* A run has its slot exactly while it executes, and the slots of a process
\* stay within the bound.
Slots ==
  /\ \A r \in Request : r \in slot <=> run[r] \in Executing
  /\ \A p \in Process : IsFiniteSet(SlotsOf(p)) /\ Cardinality(SlotsOf(p)) <= MaxHeld

\* A step that takes no slot keeps the bound.
LEMMA FewerSlots ==
  ASSUME Slots, slot' \subseteq slot, UNCHANGED home
  PROVE  \A p \in Process : /\ IsFiniteSet(SlotsOf(p)')
                            /\ Cardinality(SlotsOf(p)') <= MaxHeld
<1> SUFFICES ASSUME NEW p \in Process
             PROVE  IsFiniteSet(SlotsOf(p)') /\ Cardinality(SlotsOf(p)') <= MaxHeld
  OBVIOUS
<1>1. SlotsOf(p)' \subseteq SlotsOf(p)
  BY DEF SlotsOf
<1>2. IsFiniteSet(SlotsOf(p)) /\ Cardinality(SlotsOf(p)) <= MaxHeld
  BY DEF Slots
<1>3. IsFiniteSet(SlotsOf(p)') /\ Cardinality(SlotsOf(p)') <= Cardinality(SlotsOf(p))
  BY <1>1, <1>2, FS_Subset
<1>4. Cardinality(SlotsOf(p)) \in Nat /\ Cardinality(SlotsOf(p)') \in Nat
  BY <1>2, <1>3, FS_CardinalityType
<1> QED BY <1>2, <1>3, <1>4, IdempotentRunsAssumption

\* A step that takes one slot below the bound keeps it.
LEMMA OneMoreSlot ==
  ASSUME Slots, NEW r \in Request, slot' = slot \cup {r}, UNCHANGED home,
         Cardinality(SlotsOf(home[r])) < MaxHeld
  PROVE  \A p \in Process : /\ IsFiniteSet(SlotsOf(p)')
                            /\ Cardinality(SlotsOf(p)') <= MaxHeld
<1> SUFFICES ASSUME NEW p \in Process
             PROVE  IsFiniteSet(SlotsOf(p)') /\ Cardinality(SlotsOf(p)') <= MaxHeld
  OBVIOUS
<1>1. IsFiniteSet(SlotsOf(p)) /\ Cardinality(SlotsOf(p)) <= MaxHeld
  BY DEF Slots
<1>2. CASE p # home[r]
  <2>1. SlotsOf(p)' = SlotsOf(p)
    BY <1>2 DEF SlotsOf
  <2> QED BY <1>1, <2>1
<1>3. CASE p = home[r]
  <2>1. SlotsOf(p)' = SlotsOf(p) \cup {r}
    BY <1>3 DEF SlotsOf
  <2>2. /\ IsFiniteSet(SlotsOf(p) \cup {r})
        /\ \/ Cardinality(SlotsOf(p) \cup {r}) = Cardinality(SlotsOf(p))
           \/ Cardinality(SlotsOf(p) \cup {r}) = Cardinality(SlotsOf(p)) + 1
    BY <1>1, FS_AddElement
  <2>3. Cardinality(SlotsOf(p)) \in Nat
    BY <1>1, FS_CardinalityType
  <2> QED BY <1>1, <1>3, <2>1, <2>2, <2>3, IdempotentRunsAssumption
<1> QED BY <1>2, <1>3

\* Every step keeps the bound.
LEMMA SlotsStep ==
  ASSUME TypeOK, Slots, [Next]_vars
  PROVE  Slots'
<1>frame. ASSUME \/ MarkRunCancelled \/ CancelJob \/ RecordRouteCancelled
                 \/ \E r \in Request : \/ Reserve(r) \/ FindPrior(r)
                                     \/ Replay(r) \/ FreeKey(r)
                                     \/ RunSettles(r) \/ RequestTimesOut(r)
                                     \/ ReadOwnTaint(r) \/ InsertHeader(r)
                                     \/ Enqueue(r) \/ ProbeJob(r)
                                     \/ UndoReservation(r) \/ WithdrawHeader(r)
                                     \/ AdmitTool(r) \/ MarkRunTainted(r)
                                     \/ RunHandler(r) \/ StartJob(r)
                                     \/ JobFires(r) \/ EndJob(r)
                                     \/ RequestCancel(r)
          PROVE  Slots'
  <2>1. UNCHANGED <<home, run, slot>>
    BY <1>frame DEF Reserve, FindPrior, Replay, FreeKey, RunSettles, RequestTimesOut,
      ReadOwnTaint, InsertHeader, Enqueue, ProbeJob, UndoReservation, WithdrawHeader, AdmitTool,
      MarkRunTainted, RunHandler, StartJob, JobFires, EndJob, RequestCancel, MarkRunCancelled,
      CancelJob, RecordRouteCancelled
  <2> QED BY <2>1 DEF Slots, SlotsOf
<1>AcquireSlot. ASSUME NEW r \in Request, AcquireSlot(r) PROVE Slots'
  <2>1. PICK others \in 0 .. MaxHeld :
          \/ /\ Cardinality(SlotsOf(home[r])) + others < MaxHeld
             /\ slot' = slot \cup {r}
             /\ run' = [run EXCEPT ![r] = "start"]
          \/ UNCHANGED <<slot, run>>
    BY <1>AcquireSlot DEF AcquireSlot
  <2>2. UNCHANGED home
    BY <1>AcquireSlot DEF AcquireSlot
  <2>3. CASE UNCHANGED <<slot, run>>
    BY <2>2, <2>3, FewerSlots DEF Slots
  <2>4. CASE /\ Cardinality(SlotsOf(home[r])) + others < MaxHeld
             /\ slot' = slot \cup {r}
             /\ run' = [run EXCEPT ![r] = "start"]
    <3>1. IsFiniteSet(SlotsOf(home[r])) /\ Cardinality(SlotsOf(home[r])) \in Nat
      BY FS_CardinalityType DEF Slots, TypeOK
    <3>2. Cardinality(SlotsOf(home[r])) < MaxHeld
      BY <2>4, <3>1, IdempotentRunsAssumption
    <3> QED BY <2>2, <2>4, <3>2, OneMoreSlot DEF Slots, TypeOK
  <2> QED BY <2>1, <2>3, <2>4
<1>StartRun. ASSUME NEW r \in Request, StartRun(r) PROVE Slots'
  <2>1. slot' \subseteq slot /\ UNCHANGED home
    BY <1>StartRun DEF StartRun, Settle
  <2>2. \A q \in Request : q \in slot' <=> run'[q] \in Executing
    BY <1>StartRun DEF StartRun, Settle, Slots, TypeOK
  <2> QED BY <2>1, <2>2, FewerSlots DEF Slots
<1>CallBackend. ASSUME NEW r \in Request, CallBackend(r) PROVE Slots'
  <2>1. slot' \subseteq slot /\ UNCHANGED home
    BY <1>CallBackend DEF CallBackend
  <2>2. \A q \in Request : q \in slot' <=> run'[q] \in Executing
    BY <1>CallBackend DEF CallBackend, Slots, TypeOK
  <2> QED BY <2>1, <2>2, FewerSlots DEF Slots
<1>CallReturns. ASSUME NEW r \in Request, CallReturns(r) PROVE Slots'
  <2>1. slot' \subseteq slot /\ UNCHANGED home
    BY <1>CallReturns DEF CallReturns
  <2>2. \A q \in Request : q \in slot' <=> run'[q] \in Executing
    BY <1>CallReturns DEF CallReturns, Slots, TypeOK
  <2> QED BY <2>1, <2>2, FewerSlots DEF Slots
<1>CallFails. ASSUME NEW r \in Request, CallFails(r) PROVE Slots'
  <2>1. slot' \subseteq slot /\ UNCHANGED home
    BY <1>CallFails DEF CallFails
  <2>2. \A q \in Request : q \in slot' <=> run'[q] \in Executing
    BY <1>CallFails DEF CallFails, Slots, TypeOK
  <2> QED BY <2>1, <2>2, FewerSlots DEF Slots
<1>RecordFailed. ASSUME NEW r \in Request, RecordFailed(r) PROVE Slots'
  <2>1. slot' \subseteq slot /\ UNCHANGED home
    BY <1>RecordFailed DEF RecordFailed, EndHeader, Settle
  <2>2. \A q \in Request : q \in slot' <=> run'[q] \in Executing
    BY <1>RecordFailed DEF RecordFailed, EndHeader, Settle, Slots, TypeOK
  <2> QED BY <2>1, <2>2, FewerSlots DEF Slots
<1>RecordStop. ASSUME NEW r \in Request, RecordStop(r) PROVE Slots'
  <2>1. slot' \subseteq slot /\ UNCHANGED home
    BY <1>RecordStop DEF RecordStop, StopHeader, EndHeader, Settle
  <2>2. \A q \in Request : q \in slot' <=> run'[q] \in Executing
    BY <1>RecordStop DEF RecordStop, StopHeader, EndHeader, Settle, Slots, TypeOK
  <2> QED BY <2>1, <2>2, FewerSlots DEF Slots
<1>ConfirmNotCancelled. ASSUME NEW r \in Request, ConfirmNotCancelled(r) PROVE Slots'
  <2>1. slot' \subseteq slot /\ UNCHANGED home
    BY <1>ConfirmNotCancelled DEF ConfirmNotCancelled, StopHeader, EndHeader, Settle
  <2>2. \A q \in Request : q \in slot' <=> run'[q] \in Executing
    BY <1>ConfirmNotCancelled DEF ConfirmNotCancelled, StopHeader, EndHeader, Settle, Slots,
       TypeOK
  <2> QED BY <2>1, <2>2, FewerSlots DEF Slots
<1>CompleteRun. ASSUME NEW r \in Request, CompleteRun(r) PROVE Slots'
  <2>1. slot' \subseteq slot /\ UNCHANGED home
    BY <1>CompleteRun DEF CompleteRun, Settle
  <2>2. \A q \in Request : q \in slot' <=> run'[q] \in Executing
    BY <1>CompleteRun DEF CompleteRun, Settle, Slots, TypeOK
  <2> QED BY <2>1, <2>2, FewerSlots DEF Slots
<1>PollCancelled. ASSUME NEW r \in Request, PollCancelled(r) PROVE Slots'
  <2>1. slot' \subseteq slot /\ UNCHANGED home
    BY <1>PollCancelled DEF PollCancelled
  <2>2. \A q \in Request : q \in slot' <=> run'[q] \in Executing
    BY <1>PollCancelled DEF PollCancelled, Slots, TypeOK
  <2> QED BY <2>1, <2>2, FewerSlots DEF Slots
<1>SignalRunCancelled. ASSUME SignalRunCancelled PROVE Slots'
  <2>1. slot' \subseteq slot /\ UNCHANGED home
    BY <1>SignalRunCancelled DEF SignalRunCancelled
  <2>2. \A q \in Request : q \in slot' <=> run'[q] \in Executing
    BY <1>SignalRunCancelled DEF SignalRunCancelled, Slots, TypeOK
  <2> QED BY <2>1, <2>2, FewerSlots DEF Slots
<1>Crash. ASSUME NEW p \in Process, Crash(p) PROVE Slots'
  <2>1. slot' \subseteq slot /\ UNCHANGED home
    BY <1>Crash DEF Crash, SlotsOf
  <2>2. \A q \in Request : q \in slot' <=> run'[q] \in Executing
    BY <1>Crash DEF Crash, SlotsOf, Slots, TypeOK
  <2> QED BY <2>1, <2>2, FewerSlots DEF Slots
<1>stutter. ASSUME UNCHANGED vars PROVE Slots'
  BY <1>stutter DEF Slots, SlotsOf
<1> QED BY <1>frame, <1>AcquireSlot, <1>StartRun, <1>CallBackend, <1>CallReturns, <1>CallFails,
     <1>RecordFailed, <1>RecordStop, <1>ConfirmNotCancelled, <1>CompleteRun, <1>PollCancelled,
     <1>SignalRunCancelled, <1>Crash, <1>stutter
     DEF Next, HandlerStep, RunStep

\* A process never executes more in-request runs than its bound, whatever
\* became of their requests.
THEOREM SlotsBoundRunsAlways == Spec => []SlotsBoundRuns
<1>1. Init => Slots
  <2> SUFFICES ASSUME Init PROVE Slots
    OBVIOUS
  <2>1. \A p \in Process : SlotsOf(p) = {}
    BY DEF Init, SlotsOf
  <2>2. \A p \in Process : IsFiniteSet(SlotsOf(p)) /\ Cardinality(SlotsOf(p)) <= MaxHeld
    BY <2>1, FS_EmptySet, IdempotentRunsAssumption
  <2>3. \A r \in Request : r \in slot <=> run[r] \in Executing
    BY DEF Init
  <2> QED BY <2>2, <2>3 DEF Slots
<1>2. TypeOK /\ Slots /\ [Next]_vars => Slots'
  BY SlotsStep
<1>3. TypeOK /\ Slots => SlotsBoundRuns
  <2> SUFFICES ASSUME TypeOK, Slots, NEW p \in Process
               PROVE  Cardinality({r \in Request : home[r] = p /\ run[r] \in Executing}) <= MaxHeld
    BY DEF SlotsBoundRuns
  <2>1. {r \in Request : home[r] = p /\ run[r] \in Executing} = SlotsOf(p)
    BY DEF SlotsOf, Slots, TypeOK
  <2> QED BY <2>1 DEF Slots
<1> QED BY <1>1, <1>2, <1>3, TypeCorrect, PTL DEF Spec

=============================================================================
