----------------------------- MODULE DurableRun -----------------------------
(***************************************************************************)
(* The life of ONE durable agent run: the enqueue path that hands its job  *)
(* to the engine, the job body that each dispatch executes                 *)
(* (durable-dbos executor.ts), the agent run inside it (platform           *)
(* run-core.ts), the dispatcher of non-idempotent tools (dispatch.ts) and  *)
(* the cancel route (api-auth runs.ts), all meeting in one database.       *)
(*                                                                         *)
(* A run has as many executions as the engine dispatches of its job.  Each *)
(* database statement that commits on its own is one step; what happens    *)
(* between two of them is visible to every other actor, and a process may  *)
(* stop there.  Runs do not interact below the queue (every marker, header *)
(* and lease is keyed by the run id), so one run is the whole component.   *)
(***************************************************************************)
EXTENDS Naturals, FiniteSets

CONSTANTS
  Exec,         \* the executions the engine may dispatch for the run
  Local,        \* those in the process that also serves the HTTP routes
  NoExec,       \* the holder of a lease marker that was never written
  MaxAttempts,  \* dispatches before the engine dead-letters the job
  CancelPoll,   \* is RAYSPEC_RUN_CANCEL_POLL_MS set?
  Faults        \* which of FaultKinds happen

FaultKinds ==
  { "crash",    \* a process stops between two of its steps
    "lapse",    \* no renewal of a live execution reaches the database for a ttl
    "dbRead",   \* a read fails on every one of its bounded retries
    "dbWrite" } \* a write the code treats as best-effort, or a run write, fails;
                \* the record of a run's end may also outlast its budget

ASSUME DurableRunAssumption ==
  /\ Local \subseteq Exec
  /\ NoExec \notin Exec
  /\ MaxAttempts \in Nat \ {0}
  /\ CancelPoll \in BOOLEAN
  /\ Faults \subseteq FaultKinds

VARIABLES
  \* The database rows of the run.
  header,      \* runs.status, or "absent"
  endSteps,    \* the terminal journal steps written by recordRunEnded
  phase,       \* the phase the cancellation step states
  holder,      \* run_started marker: the execution that holds the lease
  live,        \* run_started marker: leaseUntil lies in the future
  taint,       \* the run_taint marker exists
  cancelled,   \* the run_cancelled marker exists
  late,        \* the ends whose record outlasted its budget and may still land
  outputs,     \* rows written into the persistTo store for the run
  transcript,  \* executions whose conversation_items rows are stored
  \* The engine's record of the workflow.
  engine, attempts,
  \* The executions and the two routes.
  pc, seen, stop, tool, liveRun, enqueue, route, routePhase,
  \* History: who called the backend, whose non-idempotent tool ran, and who
  \* was dispatched after the run had been marked cancelled.
  called, fired, barred

ledger  == <<header, endSteps, phase>>
lease   == <<holder, live>>
markers == <<taint, cancelled, late>>
content == <<outputs, transcript>>
job     == <<engine, attempts>>
worker  == <<pc, seen, stop, liveRun>>
routes  == <<enqueue, route, routePhase>>
history == <<called, fired, barred>>
vars == <<ledger, lease, markers, content, job, worker, tool, routes, history>>

-----------------------------------------------------------------------------
Terminal == {"completed", "error"}
Open     == {"enqueued", "running"}
Phases   == {"before-call", "call-aborted", "after-call", "outcome-unknown"}

\* An execution between starting its renewal timer and stopping it.
Renewing == {"start", "recheck", "call", "boundEnd", "cancelEnd", "threw",
             "confirm", "complete", "transcript", "caught",
             "releaseOk", "releaseErr"}
\* An execution that has taken the lease and not given it up.
Holding == {"taint", "ended", "clear"} \cup Renewing
Waiting == {"claim", "lease", "move"}
Stopped == {"idle", "done", "dead"}
Steps   == {"check", "reserve", "cancel", "quarantine", "succeed", "fail"}
             \cup Waiting \cup Holding \cup Stopped

Running(e) == pc[e] \notin Stopped
Goto(e, p) == pc' = [pc EXCEPT ![e] = p]

\* The statuses of the engine's workflow row ("DEAD" is its
\* MAX_RECOVERY_ATTEMPTS_EXCEEDED).
EngineEnded == {"SUCCESS", "ERROR", "CANCELLED", "DEAD"}

TypeOK ==
  /\ header \in {"absent"} \cup Open \cup Terminal
  /\ endSteps \subseteq {"cancelled", "bound", "failed"}
  /\ phase \in {"none"} \cup Phases
  /\ holder \in Exec \cup {NoExec}
  /\ live \in BOOLEAN /\ taint \in BOOLEAN /\ cancelled \in BOOLEAN
  /\ late \in [Exec -> {"none", "bound", "cancelled"}]
  /\ outputs \in Nat
  /\ transcript \subseteq Exec
  /\ engine \in {"none", "ENQUEUED", "PENDING"} \cup EngineEnded
  /\ attempts \in Nat
  /\ pc \in [Exec -> Steps]
  /\ seen \in [Exec -> Exec \cup {NoExec}]
  /\ stop \in [Exec -> BOOLEAN]
  /\ tool \in [Exec -> {"idle", "admitted", "marked"}]
  /\ liveRun \in Local \cup {NoExec}
  /\ enqueue \in {"header", "job", "withdraw", "done", "dead"}
  /\ route \in {"idle", "mark", "signal", "engine", "record", "done", "dead"}
  /\ routePhase \in {"none"} \cup Phases
  /\ called \subseteq Exec /\ fired \subseteq Exec /\ barred \subseteq Exec

Init ==
  /\ header = "absent" /\ endSteps = {} /\ phase = "none"
  /\ holder = NoExec /\ live = FALSE
  /\ taint = FALSE /\ cancelled = FALSE
  /\ late = [e \in Exec |-> "none"]
  /\ outputs = 0 /\ transcript = {}
  /\ engine = "none" /\ attempts = 0
  /\ pc = [e \in Exec |-> "idle"]
  /\ seen = [e \in Exec |-> NoExec]
  /\ stop = [e \in Exec |-> FALSE]
  /\ tool = [e \in Exec |-> "idle"]
  /\ liveRun = NoExec
  /\ enqueue = "header" /\ route = "idle" /\ routePhase = "none"
  /\ called = {} /\ fired = {} /\ barred = {}

-----------------------------------------------------------------------------
(***************************************************************************)
(* The guarded terminal transition: an open header moves to `error` with   *)
(* one journal step saying why, in one transaction; anything else is left. *)
(***************************************************************************)
\* Mutant: the transition is not guarded on the run being open.
RecordRunEndedUnguarded(kind, ph) ==
  \/ /\ header # "absent"
     /\ header' = "error"
     /\ endSteps' = endSteps \cup {kind}
     /\ phase' = IF kind = "cancelled" THEN ph ELSE phase
  \/ header = "absent" /\ UNCHANGED ledger

\* Mutant: only a running header is ended.
RecordRunEndedIfRunning(kind, ph) ==
  \/ /\ header = "running"
     /\ header' = "error"
     /\ endSteps' = endSteps \cup {kind}
     /\ phase' = IF kind = "cancelled" THEN ph ELSE phase
  \/ header # "running" /\ UNCHANGED ledger

RecordRunEnded(kind, ph) ==
  \/ /\ header \in Open
     /\ header' = "error"
     /\ endSteps' = endSteps \cup {kind}
     /\ phase' = IF kind = "cancelled" THEN ph ELSE phase
  \/ header \notin Open /\ UNCHANGED ledger

\* The side that executed a cancelled run records the cancellation, or states
\* the phase it observed on the step somebody else recorded.
RecordObservedCancel(ph) ==
  \/ header # "error" /\ RecordRunEnded("cancelled", ph)
  \/ /\ header = "error"
     /\ phase' = IF "cancelled" \in endSteps THEN ph ELSE phase
     /\ UNCHANGED <<header, endSteps>>

-----------------------------------------------------------------------------
(***************************************************************************)
(* The enqueue path.                                                       *)
(***************************************************************************)

InsertEnqueuedHeader ==
  /\ enqueue = "header"
  /\ enqueue' = "job"
  /\ \/ header' = "enqueued"
     \/ "dbWrite" \in Faults /\ UNCHANGED header
  /\ UNCHANGED <<endSteps, phase, lease, markers, content, job, worker, tool,
                 route, routePhase, history>>

\* The engine persists the workflow (its call may still throw afterwards: the
\* probe then finds the job and keeps everything).
EnqueueJob ==
  /\ enqueue = "job"
  /\ engine' = "ENQUEUED"
  /\ enqueue' = "done"
  /\ UNCHANGED <<ledger, lease, markers, content, attempts, worker, tool,
                 route, routePhase, history>>

\* Admission refuses the job, or the enqueue throws before anything was
\* persisted and the status probe answers `unknown`.  With an unreadable
\* status nothing is undone.
EnqueueRefused ==
  /\ enqueue = "job"
  /\ \/ enqueue' = "withdraw"
     \/ "dbRead" \in Faults /\ enqueue' = "done"
  /\ UNCHANGED <<ledger, lease, markers, content, job, worker, tool,
                 route, routePhase, history>>

\* Mutant: the header is deleted whatever its status.
WithdrawAnyHeader ==
  /\ enqueue = "withdraw"
  /\ enqueue' = "done"
  /\ \/ header # "absent" /\ header' = "absent"
     \/ header = "absent" /\ UNCHANGED header
     \/ "dbWrite" \in Faults /\ UNCHANGED header
  /\ UNCHANGED <<endSteps, phase, lease, markers, content, job, worker, tool,
                 route, routePhase, history>>

WithdrawHeader ==
  /\ enqueue = "withdraw"
  /\ enqueue' = "done"
  /\ \/ header = "enqueued" /\ header' = "absent"
     \/ header # "enqueued" /\ UNCHANGED header
     \/ "dbWrite" \in Faults /\ UNCHANGED header
  /\ UNCHANGED <<endSteps, phase, lease, markers, content, job, worker, tool,
                 route, routePhase, history>>

-----------------------------------------------------------------------------
(***************************************************************************)
(* The engine: it claims the queued job, re-dispatches a job that is still *)
(* pending (after a crash, or alongside a live execution when a process    *)
(* boots under the same executor id), and dead-letters it.                 *)
(***************************************************************************)

Dispatch(e) ==
  /\ pc[e] = "idle"
  /\ attempts < MaxAttempts
  /\ engine \in {"ENQUEUED", "PENDING"}
  /\ engine' = "PENDING"
  /\ attempts' = attempts + 1
  /\ Goto(e, "check")
  /\ barred' = IF cancelled THEN barred \cup {e} ELSE barred
  /\ UNCHANGED <<ledger, lease, markers, content, seen, stop, liveRun, tool,
                 routes, called, fired>>

\* Mutant: the cap is checked one attempt too late.
DeadLetterTooLate ==
  /\ engine = "PENDING"
  /\ attempts > MaxAttempts
  /\ \A e \in Exec : ~Running(e)
  /\ engine' = "DEAD"
  /\ UNCHANGED <<ledger, lease, markers, content, attempts, worker, tool,
                 routes, history>>

DeadLetter ==
  /\ engine = "PENDING"
  /\ attempts = MaxAttempts
  /\ \A e \in Exec : ~Running(e)
  /\ engine' = "DEAD"
  /\ UNCHANGED <<ledger, lease, markers, content, attempts, worker, tool,
                 routes, history>>

\* The engine stores the step's outcome unless the workflow was ended first.
FinishJob(e) ==
  /\ pc[e] \in {"succeed", "fail", "quarantine"}
  /\ Goto(e, "done")
  /\ engine' = IF engine # "PENDING" THEN engine
               ELSE IF pc[e] = "succeed" THEN "SUCCESS" ELSE "ERROR"
  /\ UNCHANGED <<ledger, lease, markers, content, attempts, seen, stop,
                 liveRun, tool, routes, history>>

-----------------------------------------------------------------------------
(***************************************************************************)
(* The job body up to the run: the cancellation check, authorization, the  *)
(* started-once marker with its lease, and the takeover of a run that was  *)
(* started before.                                                         *)
(***************************************************************************)

\* Mutant: the marker is not consulted before the dispatch.
SkipCancelledCheck(e) ==
  /\ pc[e] = "check"
  /\ Goto(e, "reserve")
  /\ UNCHANGED <<ledger, lease, markers, content, job, seen, stop, liveRun,
                 tool, routes, history>>

CheckCancelled(e) ==
  /\ pc[e] = "check"
  /\ Goto(e, IF cancelled THEN "cancel" ELSE "reserve")
  /\ UNCHANGED <<ledger, lease, markers, content, job, seen, stop, liveRun,
                 tool, routes, history>>

RecordCancelled(e) ==
  /\ pc[e] = "cancel"
  /\ RecordRunEnded("cancelled", "none")
  /\ Goto(e, "succeed")
  /\ UNCHANGED <<lease, markers, content, job, seen, stop, liveRun, tool,
                 routes, history>>

\* The requester may no longer run it: marked cancelled before it is recorded.
Deny(e) ==
  /\ pc[e] = "reserve"
  /\ cancelled' = TRUE
  /\ Goto(e, "cancel")
  /\ UNCHANGED <<ledger, lease, taint, late, content, job, seen, stop, liveRun, tool,
                 routes, history>>

\* A statement of the job body outside runAgent throws out of the step: the
\* authorization check or the resolution of the agent, or a read or a write the
\* database refused.  A lease taken over just before is not given up.
StepThrows(e) ==
  /\ \/ pc[e] = "reserve"
     \/ pc[e] \in {"check", "claim", "lease", "taint"} /\ "dbRead" \in Faults
     \/ pc[e] \in {"cancel", "move", "clear"} /\ "dbWrite" \in Faults
  /\ Goto(e, "fail")
  /\ seen' = [seen EXCEPT ![e] = NoExec]
  /\ UNCHANGED <<ledger, lease, markers, content, job, stop, liveRun, tool,
                 routes, history>>

ReserveLease(e) ==
  /\ pc[e] = "reserve"
  /\ \/ /\ holder = NoExec
        /\ holder' = e /\ live' = TRUE
        /\ Goto(e, "start")
     \/ /\ holder # NoExec
        /\ Goto(e, "claim")
        /\ UNCHANGED lease
  /\ UNCHANGED <<ledger, markers, content, job, seen, stop, liveRun, tool,
                 routes, history>>

\* One turn of the claim loop: the marker, then the lease, then the
\* compare-and-set on the holder that was read.
ClaimCheckCancelled(e) ==
  /\ pc[e] = "claim"
  /\ Goto(e, IF cancelled THEN "cancel" ELSE "lease")
  /\ UNCHANGED <<ledger, lease, markers, content, job, seen, stop, liveRun,
                 tool, routes, history>>

\* Mutant: the expiry of the lease is not looked at.
IgnoreExpiry(e) ==
  /\ pc[e] = "lease"
  /\ \/ live /\ Goto(e, "claim") /\ UNCHANGED seen
     \/ Goto(e, "move") /\ seen' = [seen EXCEPT ![e] = holder]
  /\ UNCHANGED <<ledger, lease, markers, content, job, stop, liveRun, tool,
                 routes, history>>

ReadLease(e) ==
  /\ pc[e] = "lease"
  /\ \/ live /\ Goto(e, "claim") /\ UNCHANGED seen
     \/ ~live /\ Goto(e, "move") /\ seen' = [seen EXCEPT ![e] = holder]
  /\ UNCHANGED <<ledger, lease, markers, content, job, stop, liveRun, tool,
                 routes, history>>

MoveLease(e) ==
  /\ pc[e] = "move"
  /\ seen' = [seen EXCEPT ![e] = NoExec]
  /\ \/ /\ holder = seen[e]
        /\ holder' = e /\ live' = TRUE
        /\ Goto(e, "taint")
     \/ /\ holder # seen[e]
        /\ Goto(e, "claim")
        /\ UNCHANGED lease
  /\ UNCHANGED <<ledger, markers, content, job, stop, liveRun, tool, routes,
                 history>>

\* Mutant: a run started before is re-run whatever its tools did.
SkipTaintRead(e) ==
  /\ pc[e] = "taint"
  /\ Goto(e, "ended")
  /\ UNCHANGED <<ledger, lease, markers, content, job, seen, stop, liveRun,
                 tool, routes, history>>

ReadTaint(e) ==
  /\ pc[e] = "taint"
  /\ Goto(e, IF taint THEN "quarantine" ELSE "ended")
  /\ UNCHANGED <<ledger, lease, markers, content, job, seen, stop, liveRun,
                 tool, routes, history>>

\* An unreadable header falls through to the re-run.
ReadRunEnded(e) ==
  /\ pc[e] = "ended"
  /\ \/ Goto(e, IF header \in Terminal THEN "succeed" ELSE "clear")
     \/ "dbRead" \in Faults /\ Goto(e, "clear")
  /\ UNCHANGED <<ledger, lease, markers, content, job, seen, stop, liveRun,
                 tool, routes, history>>

ClearInterruptedAttempt(e) ==
  /\ pc[e] = "clear"
  /\ endSteps' = {} /\ phase' = "none"
  /\ transcript' = {}
  /\ Goto(e, "start")
  /\ UNCHANGED <<header, lease, markers, outputs, job, seen, stop, liveRun,
                 tool, routes, history>>

-----------------------------------------------------------------------------
(***************************************************************************)
(* The lease while the run executes: renewed by compare-and-set on the     *)
(* holder, whatever its expiry; lost when another execution holds it.      *)
(***************************************************************************)

\* Aborting a run's signal: before the backend call it is only remembered, in
\* the call it ends the wait, after it nothing listens any more.
Abortable(e) == pc[e] = "call" \/ (pc[e] \in {"start", "recheck"} /\ ~stop[e])

Abort(e) ==
  \/ pc[e] = "call" /\ Goto(e, "cancelEnd") /\ UNCHANGED stop
  \/ /\ pc[e] # "call"
     /\ stop' = [stop EXCEPT ![e] = TRUE]
     /\ UNCHANGED pc

RenewLease(e) ==
  /\ pc[e] \in Renewing
  /\ holder = e /\ ~live
  /\ live' = TRUE
  /\ UNCHANGED <<ledger, holder, markers, content, job, worker, tool, routes,
                 history>>

LoseLease(e) ==
  /\ holder # e
  /\ Abortable(e)
  /\ Abort(e)
  /\ UNCHANGED <<ledger, lease, markers, content, job, seen, liveRun, tool,
                 routes, history>>

\* The ttl of a lease passes whose holder has ended without giving it up.
LeaseExpires ==
  /\ live
  /\ pc[holder] \notin Holding
  /\ live' = FALSE
  /\ UNCHANGED <<ledger, holder, markers, content, job, worker, tool, routes,
                 history>>

\* The ttl passes while the holder is at work: three renewals in a row did not
\* reach the database, or it sits between its takeover and its first renewal.
LeaseLapses ==
  /\ "lapse" \in Faults
  /\ live
  /\ pc[holder] \in Holding
  /\ live' = FALSE
  /\ UNCHANGED <<ledger, holder, markers, content, job, worker, tool, routes,
                 history>>

-----------------------------------------------------------------------------
(***************************************************************************)
(* runAgent.                                                               *)
(***************************************************************************)

Dispose(e) == liveRun' = IF liveRun = e THEN NoExec ELSE liveRun

\* The auth preflight refuses the run before anything is written, or the
\* header write fails.
PreflightRefuses(e) ==
  /\ pc[e] = "start"
  /\ Goto(e, "caught")
  /\ UNCHANGED <<ledger, lease, markers, content, job, seen, stop, liveRun,
                 tool, routes, history>>

\* The header moves to `running`, then the run's AbortController is armed and
\* registered under the run id for the routes of this process.
StartRun(e) ==
  /\ pc[e] = "start"
  /\ header' = IF header \in {"absent", "enqueued"} THEN "running" ELSE header
  /\ liveRun' = IF e \in Local THEN e ELSE liveRun
  /\ Goto(e, "recheck")
  /\ UNCHANGED <<endSteps, phase, lease, markers, content, job, seen, stop,
                 tool, routes, history>>

\* The marker is read once more (no answer counts as no cancellation); a run
\* that is not stopped by now calls its backend.
CallBackend(e) ==
  /\ pc[e] = "recheck"
  /\ \/ /\ cancelled \/ stop[e]
        /\ Goto(e, "cancelEnd")
        /\ UNCHANGED called
     \/ /\ ~stop[e]
        /\ ~cancelled \/ "dbRead" \in Faults
        /\ Goto(e, "call")
        /\ called' = called \cup {e}
  /\ UNCHANGED <<ledger, lease, markers, content, job, seen, stop, liveRun,
                 tool, routes, fired, barred>>

\* RAYSPEC_RUN_CANCEL_POLL_MS: the run watches its own marker.
PollCancelled(e) ==
  /\ CancelPoll /\ cancelled
  /\ pc[e] = "call"
  /\ Goto(e, "cancelEnd")
  /\ UNCHANGED <<ledger, lease, markers, content, job, seen, stop, liveRun,
                 tool, routes, history>>

\* The wall-clock bound fires.
BoundFires(e) ==
  /\ pc[e] = "call"
  /\ Goto(e, "boundEnd")
  /\ UNCHANGED <<ledger, lease, markers, content, job, seen, stop, liveRun,
                 tool, routes, history>>

\* The backend answers once the tool calls it waited for are answered, a timed
\* out one while its handler still runs; then the event log is drained (a
\* persist that failed fails the run).
CallReturns(e) ==
  /\ pc[e] = "call" /\ tool[e] # "admitted"
  /\ Dispose(e)
  /\ \/ Goto(e, "confirm")
     \/ "dbWrite" \in Faults /\ Goto(e, "caught")
  /\ UNCHANGED <<ledger, lease, markers, content, job, seen, stop, tool,
                 routes, history>>

CallThrows(e) ==
  /\ pc[e] = "call"
  /\ Dispose(e)
  /\ Goto(e, "threw")
  /\ UNCHANGED <<ledger, lease, markers, content, job, seen, stop, tool,
                 routes, history>>

RecordFailed(e) ==
  /\ pc[e] = "threw"
  /\ Goto(e, "caught")
  /\ \/ RecordRunEnded("failed", "none")
     \/ "dbWrite" \in Faults /\ UNCHANGED ledger
  /\ UNCHANGED <<lease, markers, content, job, seen, stop, liveRun, tool,
                 routes, history>>

\* What became of the call run-core gave up on.
ObservedPhases(e) ==
  IF e \in called THEN Phases \ {"before-call"} ELSE {"before-call"}

\* The record of a run that was given up.  One stopped without a marker lost its
\* lease: it records nothing.
EndRecorded(e, kind) ==
  \/ kind = "bound" /\ RecordRunEnded("bound", "none")
  \/ /\ kind = "cancelled" /\ cancelled
     /\ \E ph \in ObservedPhases(e) : RecordObservedCancel(ph)
  \/ kind = "cancelled" /\ ~cancelled /\ UNCHANGED ledger

\* It races RUN_END_RECORD_BUDGET_MS: past it the run rejects without a record,
\* and the write goes on, on a connection of its own.
RecordEnd(e, kind) ==
  /\ Dispose(e)
  /\ Goto(e, "caught")
  /\ \/ EndRecorded(e, kind) /\ UNCHANGED late
     \/ /\ "dbWrite" \in Faults
        /\ late' \in {late, [late EXCEPT ![e] = kind]}
        /\ UNCHANGED ledger
  /\ UNCHANGED <<lease, taint, cancelled, content, job, seen, stop, tool,
                 routes, history>>

RecordTimedOut(e)  == pc[e] = "boundEnd" /\ RecordEnd(e, "bound")
RecordCancelEnd(e) == pc[e] = "cancelEnd" /\ RecordEnd(e, "cancelled")

\* The write that outlasted its budget commits, if it ever does.
LandRecord(e) ==
  /\ "dbWrite" \in Faults
  /\ late[e] # "none"
  /\ late' = [late EXCEPT ![e] = "none"]
  /\ EndRecorded(e, late[e])
  /\ UNCHANGED <<lease, taint, cancelled, content, job, worker, tool, routes,
                 history>>

\* A recorded cancellation is authoritative: the marker is read before the
\* completing write.
ConfirmNotCancelled(e) ==
  /\ pc[e] = "confirm"
  /\ \/ /\ cancelled
        /\ RecordObservedCancel("after-call")
        /\ Goto(e, "releaseOk")
     \/ /\ ~cancelled
        /\ Goto(e, "complete")
        /\ UNCHANGED ledger
     \/ "dbRead" \in Faults /\ Goto(e, "caught") /\ UNCHANGED ledger
  /\ UNCHANGED <<lease, markers, content, job, seen, stop, liveRun, tool,
                 routes, history>>

\* The completing upsert (setWhere status <> 'completed'), with the output row
\* in the same transaction when it took.  The output may violate a constraint
\* of its store: nothing is written then and the run throws.
CompleteRun(e) ==
  /\ pc[e] = "complete"
  /\ \/ /\ header # "completed"
        /\ \/ header' = "error" /\ UNCHANGED outputs
           \/ header' = "completed" /\ outputs' \in {outputs, outputs + 1}
        /\ Goto(e, "transcript")
     \/ /\ header = "completed"
        /\ Goto(e, "transcript")
        /\ UNCHANGED <<header, outputs>>
     \/ Goto(e, "caught") /\ UNCHANGED <<header, outputs>>
  /\ UNCHANGED <<endSteps, phase, lease, markers, transcript, job, seen, stop,
                 liveRun, tool, routes, history>>

InsertTranscript(e) ==
  /\ pc[e] = "transcript"
  /\ \/ transcript' = transcript \cup {e} /\ Goto(e, "releaseOk")
     \/ "dbWrite" \in Faults /\ Goto(e, "caught") /\ UNCHANGED transcript
  /\ UNCHANGED <<ledger, lease, markers, outputs, job, seen, stop, liveRun,
                 tool, routes, history>>

\* The executor's catch: a run that ended by rejecting is accounted for when
\* it was cancelled, and fails the job otherwise.
CatchRun(e) ==
  /\ pc[e] = "caught"
  /\ stop' = [stop EXCEPT ![e] = FALSE]
  /\ \/ cancelled /\ RecordRunEnded("cancelled", "none") /\ Goto(e, "releaseOk")
     \/ ~cancelled /\ Goto(e, "releaseErr") /\ UNCHANGED ledger
     \/ {"dbRead", "dbWrite"} \cap Faults # {} /\ Goto(e, "releaseErr") /\ UNCHANGED ledger
  /\ UNCHANGED <<lease, markers, content, job, seen, liveRun, tool, routes,
                 history>>

ReleaseLease(e) ==
  /\ pc[e] \in {"releaseOk", "releaseErr"}
  /\ Goto(e, IF pc[e] = "releaseOk" THEN "succeed" ELSE "fail")
  /\ \/ live' = IF holder = e THEN FALSE ELSE live
     \/ "dbWrite" \in Faults /\ UNCHANGED live
  /\ UNCHANGED <<ledger, holder, markers, content, job, seen, stop, liveRun,
                 tool, routes, history>>

-----------------------------------------------------------------------------
(***************************************************************************)
(* The dispatcher, for a tool that is not idempotent.  A call is refused   *)
(* only on entry: once admitted it marks the run and runs its handler even *)
(* when the run is given up meanwhile, and a handler that outlives its     *)
(* timeout takes effect whenever it ends.  tool[e] stands for the call of  *)
(* the execution that ends last: others only repeat its effect.            *)
(***************************************************************************)

AdmitTool(e) ==
  /\ pc[e] = "call" /\ tool[e] = "idle"
  /\ tool' = [tool EXCEPT ![e] = "admitted"]
  /\ UNCHANGED <<ledger, lease, markers, content, job, worker, routes, history>>

\* The marker is committed before the handler runs; if it cannot be, the
\* handler does not run.
MarkRunTainted(e) ==
  /\ tool[e] = "admitted"
  /\ \/ taint' = TRUE /\ tool' = [tool EXCEPT ![e] = "marked"]
     \/ "dbWrite" \in Faults /\ tool' = [tool EXCEPT ![e] = "idle"] /\ UNCHANGED taint
  /\ UNCHANGED <<ledger, lease, cancelled, late, content, job, worker, routes, history>>

RunHandler(e) ==
  /\ tool[e] = "marked"
  /\ tool' = [tool EXCEPT ![e] = "idle"]
  /\ fired' = fired \cup {e}
  /\ UNCHANGED <<ledger, lease, markers, content, job, worker, routes, called,
                 barred>>

-----------------------------------------------------------------------------
(***************************************************************************)
(* POST /v1/runs/{id}/cancel.                                              *)
(***************************************************************************)

ReadHeaderPhase ==
  /\ route = "idle"
  /\ header # "absent"
  /\ routePhase' = IF header = "enqueued" THEN "before-call" ELSE "outcome-unknown"
  /\ route' = "mark"
  /\ UNCHANGED <<ledger, lease, markers, content, job, worker, tool, enqueue,
                 history>>

MarkRunCancelled ==
  /\ route = "mark"
  /\ cancelled' = TRUE
  /\ route' = "signal"
  /\ UNCHANGED <<ledger, lease, taint, late, content, job, worker, tool, enqueue,
                 routePhase, history>>

\* Only the registry of the route's own process is asked.
SignalRunCancelled ==
  /\ route = "signal"
  /\ route' = "engine"
  /\ \/ liveRun # NoExec /\ Abortable(liveRun) /\ Abort(liveRun)
     \/ liveRun # NoExec /\ ~Abortable(liveRun) /\ UNCHANGED <<pc, stop>>
     \/ liveRun = NoExec /\ UNCHANGED <<pc, stop>>
  /\ UNCHANGED <<ledger, lease, markers, content, job, seen, liveRun, tool,
                 enqueue, routePhase, history>>

\* Best-effort; a workflow that is neither queued nor pending is left alone.
CancelJob ==
  /\ route = "engine"
  /\ route' = "record"
  /\ \/ engine' = IF engine \in {"ENQUEUED", "PENDING"} THEN "CANCELLED" ELSE engine
     \/ "dbWrite" \in Faults /\ UNCHANGED engine
  /\ UNCHANGED <<ledger, lease, markers, content, attempts, worker, tool,
                 enqueue, routePhase, history>>

RecordRouteCancelled ==
  /\ route = "record"
  /\ route' = "done"
  /\ RecordRunEnded("cancelled", routePhase)
  /\ routePhase' = "none"
  /\ UNCHANGED <<lease, markers, content, job, worker, tool, enqueue,
                 history>>

\* The marker or the record cannot be written: the request ends with an error.
RouteFails ==
  /\ "dbWrite" \in Faults
  /\ route \in {"mark", "record"}
  /\ route' = "dead"
  /\ routePhase' = "none"
  /\ UNCHANGED <<ledger, lease, markers, content, job, worker, tool, enqueue,
                 history>>

-----------------------------------------------------------------------------
(***************************************************************************)
(* A process stops: every execution in it, the handlers still running and, *)
(* in the process that serves the routes, the two requests.                *)
(***************************************************************************)

Processes == {Local} \cup {{e} : e \in Exec \ Local}
Requests  == [enqueue |-> enqueue \in {"header", "job", "withdraw"},
              route   |-> route \in {"mark", "signal", "engine", "record"}]

Crash(P) ==
  /\ "crash" \in Faults
  /\ \/ \E e \in P : Running(e) \/ tool[e] # "idle" \/ late[e] # "none"
     \/ P = Local /\ (Requests.enqueue \/ Requests.route)
  /\ pc' = [e \in Exec |-> IF e \in P /\ Running(e) THEN "dead" ELSE pc[e]]
  /\ tool' = [e \in Exec |-> IF e \in P THEN "idle" ELSE tool[e]]
  /\ seen' = [e \in Exec |-> IF e \in P THEN NoExec ELSE seen[e]]
  /\ stop' = [e \in Exec |-> IF e \in P THEN FALSE ELSE stop[e]]
  /\ late' = [e \in Exec |-> IF e \in P THEN "none" ELSE late[e]]
  /\ liveRun' = IF P = Local THEN NoExec ELSE liveRun
  /\ enqueue' = IF P = Local /\ Requests.enqueue THEN "dead" ELSE enqueue
  /\ route' = IF P = Local /\ Requests.route THEN "dead" ELSE route
  /\ routePhase' = IF P = Local /\ Requests.route THEN "none" ELSE routePhase
  /\ UNCHANGED <<ledger, lease, taint, cancelled, content, job, history>>

-----------------------------------------------------------------------------
EnqueueStep == InsertEnqueuedHeader \/ EnqueueJob \/ EnqueueRefused \/ WithdrawHeader

RouteStep == \/ MarkRunCancelled \/ SignalRunCancelled \/ CancelJob
             \/ RecordRouteCancelled

\* What an execution does when nobody interferes with it.
Advance(e) ==
  \/ CheckCancelled(e) \/ RecordCancelled(e) \/ ReserveLease(e)
  \/ ClaimCheckCancelled(e) \/ ReadLease(e) \/ MoveLease(e)
  \/ ReadTaint(e) \/ ReadRunEnded(e) \/ ClearInterruptedAttempt(e)
  \/ StartRun(e) \/ CallBackend(e)
  \/ CallReturns(e) \/ CallThrows(e) \/ BoundFires(e)
  \/ RecordFailed(e) \/ RecordTimedOut(e) \/ RecordCancelEnd(e)
  \/ ConfirmNotCancelled(e) \/ CompleteRun(e) \/ InsertTranscript(e)
  \/ CatchRun(e) \/ ReleaseLease(e) \/ FinishJob(e)

Interrupt(e) ==
  \/ Deny(e) \/ StepThrows(e) \/ PreflightRefuses(e)
  \/ LoseLease(e) \/ PollCancelled(e)

ToolStep(e) == MarkRunTainted(e) \/ RunHandler(e)

Next ==
  \/ EnqueueStep
  \/ DeadLetter
  \/ LeaseExpires \/ LeaseLapses
  \/ ReadHeaderPhase \/ RouteStep \/ RouteFails
  \/ \E e \in Exec : \/ Dispatch(e)
                     \/ Advance(e) \/ Interrupt(e) \/ RenewLease(e)
                     \/ AdmitTool(e) \/ ToolStep(e) \/ LandRecord(e)
  \/ \E P \in Processes : Crash(P)

Spec == Init /\ [][Next]_vars

\* The engine dispatches a job nobody executes (a process that stopped comes
\* back and recovers it); a second dispatch beside a live one is never owed.
Recover == (\A x \in Exec : ~Running(x)) /\ \E e \in Exec : Dispatch(e)

\* Promises and timers of a live process are served; a backend call ends (it
\* answers, it throws, or RAYSPEC_AGENT_RUN_MAX_MS bounds it), a tool handler
\* is bounded by its timeout, and a lease is a matter of the clock.  Nobody has
\* to cancel, to crash or to fail.
Fairness ==
  /\ \A e \in Exec : WF_vars(Advance(e)) /\ WF_vars(ToolStep(e))
  /\ WF_vars(EnqueueStep) /\ WF_vars(RouteStep)
  /\ WF_vars(LeaseExpires)
  /\ WF_vars(Recover) /\ WF_vars(DeadLetter)

FairSpec == Spec /\ Fairness

-----------------------------------------------------------------------------
(***************************************************************************)
(* Safety.                                                                 *)
(***************************************************************************)

\* An execution between taking its lease for the run and giving it up.
Executing == {e \in Exec : pc[e] \in Holding}

\* A second dispatch of a run waits for the first one's lease and never
\* executes alongside it (executor.ts: #claimStartedRun, the CAS of
\* moveRunLease, the renewal), however often the engine dispatches it.
OneExecutionAtATime == \A d, e \in Executing : d = e

\* A run whose non-idempotent tool fired in one execution never fires one in
\* another: the taint marker commits before the handler and survives the
\* crash, the takeover reads it before anything else, and a run that ended is
\* not executed again (executor.ts, SAFETY INVARIANT).
OneEffectExecution == \A d, e \in fired : d = e

\* An execution dispatched after the run was marked cancelled never calls its
\* backend, whatever read or write fails and whoever holds the lease
\* (run-cancel.ts: every dispatch path consults the marker).
BarredNeverCalls == barred \cap called = {}

\* The persistTo row is written at most once and only by the statement that
\* completes the run, whatever fails (run-core.ts: persistRunOutput).
OutputOnce == outputs <= 1 /\ (outputs = 1 => header = "completed")

\* A completed header is never downgraded or removed (setWhere status <>
\* 'completed', the guards of recordRunEnded and deleteEnqueuedRunHeader).
CompletedIsFinal == [][header = "completed" => header' = "completed"]_vars

\* The stored transcript is that of one execution: conversation_items has no
\* unique index, a re-run relies on clearInterruptedAttempt.
TranscriptOfOneExecution == \A d, e \in transcript : d = e

\* A run that has ended is not billed again: no execution calls the backend of
\* a run whose header is terminal (executor.ts, the double-MODEL-BILL window).
NoCallAfterEnd ==
  [][\A e \in Exec : e \in called' \ called => header \notin Terminal]_vars

\* liveRuns holds exactly the runs a cancellation can still reach: a run armed
\* in this process is registered until its wait ends, and nothing else is
\* (run-cancel.ts: armRunCancellation, dispose).
RegistryExact ==
  /\ \A e \in Local : pc[e] \in {"recheck", "call"} => liveRun = e
  /\ liveRun # NoExec => pc[liveRun] \in {"recheck", "call", "boundEnd", "cancelEnd"}

\* The run implements RunLedger: what a reader of the ledger relies on.
Ledger == INSTANCE RunLedger WITH Worker <- Exec, status <- header,
                                  outputs <- outputs, effects <- fired

\* Every step of the run is a step of the ledger or leaves it alone.
ImplementsLedger == Ledger!Spec

-----------------------------------------------------------------------------
(***************************************************************************)
(* Why it holds.  Order needs no assumption on Faults; Mutex, Effects and  *)
(* Ends need that leases do not lapse under a live holder and that reads   *)
(* and writes succeed.                                                     *)
(***************************************************************************)

\* An execution that has never held the lease.
Fresh == {"idle", "check", "reserve"} \cup Waiting
\* One that may have called its backend, and one that has not finished doing so.
InCall == {"call", "boundEnd", "cancelEnd", "threw"}
Started == {"recheck"} \cup InCall \cup {"confirm", "complete", "transcript"}
Uncalled == Fresh \cup {"cancel", "quarantine", "taint", "ended", "clear",
                        "start", "recheck"}

Order ==
  \* The header is announced before the job exists, the job before a dispatch.
  /\ enqueue = "header" => header = "absent"
  /\ enqueue \in {"header", "job", "withdraw"} => engine = "none"
  /\ engine = "none" => \A e \in Exec : pc[e] = "idle"
  /\ \A e \in Exec : pc[e] \in Started => header \notin {"absent", "enqueued"}
  /\ \A e \in Exec : pc[e] \in Uncalled => e \notin called
  \* A barred execution has nowhere to go but out.
  /\ \A e \in barred : /\ cancelled /\ e \notin called
                       /\ pc[e] \in {"check", "cancel", "succeed", "fail", "done", "dead"}

\* Whoever holds the lease by its program counter holds it in the database, so
\* a takeover only moves a lease nobody lives under.
Mutex ==
  /\ \A e \in Exec : pc[e] \in Holding => holder = e /\ live
  /\ \A e \in Exec : pc[e] \in Fresh => holder # e
  /\ \A e \in Exec : pc[e] \in Waiting => holder # NoExec
  /\ \A e \in Exec : pc[e] = "move" =>
       /\ seen[e] \in Exec /\ pc[seen[e]] \notin Fresh
       /\ holder = seen[e] => ~live

\* What the marker and the cancellation say of one another.
Cancelling ==
  /\ route \in {"signal", "engine", "record"} => cancelled
  /\ \A e \in Exec : stop[e] \/ pc[e] \in {"cancel", "cancelEnd"} => cancelled

\* Whoever may still fire a non-idempotent tool is alone with its effects: a
\* call left behind has marked the run or belongs to a run whose end is on
\* record, so a takeover that read no taint and no end has nobody behind it.
Effects ==
  /\ fired # {} => taint
  /\ \A e \in Exec : tool[e] = "marked" => taint
  /\ \A e \in Exec : pc[e] \in Uncalled => tool[e] = "idle"
  /\ \A e \in Exec : tool[e] = "admitted" => pc[e] \in InCall \/ header \in Terminal
  /\ \A e \in Exec : tool[e] # "idle" \/ pc[e] \in {"clear"} \cup Renewing =>
       fired \subseteq {e} /\ \A d \in Exec \ {e} : tool[d] = "idle"
  /\ \A e \in Exec : pc[e] = "ended" =>
       header \in Terminal \/ (fired = {} /\ \A d \in Exec : tool[d] = "idle")
  /\ holder = NoExec => fired = {} /\ \A e \in Exec : tool[e] = "idle"
  /\ OneEffectExecution

\* An execution on its way to its call knows the run open, or cancelled.
Ends ==
  /\ holder = NoExec => header \notin Terminal \/ cancelled
  /\ \A e \in Exec : pc[e] \in {"clear", "start", "recheck"} =>
       header \notin Terminal \/ cancelled

\* The inductive invariant behind OneExecutionAtATime, OneEffectExecution,
\* NoCallAfterEnd and ImplementsLedger.
Inductive == Order /\ Mutex /\ Cancelling /\ Effects /\ Ends

-----------------------------------------------------------------------------
(***************************************************************************)
(* Statements of the documentation that the code does not keep; each is    *)
(* refuted by a run of its own.                                            *)
(***************************************************************************)

\* "a run that produced its own outcome must not gain a contradictory error
\* step in its ledger" (run-cancel.ts, recordRunEnded).
NoContradictoryStep == header = "completed" => endSteps = {}

\* "a run still `enqueued` has called nothing; [of] a run `running` [...] the
\* side executing it records what it observed when it ends" (runs.ts, cancel):
\* once nobody is left to report, a cancellation recorded as before-call means
\* the backend was never called.
PhaseTruthful ==
  (phase = "before-call" /\ route = "done" /\ \A e \in Exec : ~Running(e))
    => called = {}

\* "a crashed tainted run is made terminal" (executor.ts,
\* DurableRunNotRetriedError): the run a quarantined job belongs to ends, unless
\* the process that quarantines it stops as well.
QuarantinedRunEnds ==
  \A e \in Exec : pc[e] = "quarantine" ~> header \in Terminal \/ pc[e] = "dead"

-----------------------------------------------------------------------------
(***************************************************************************)
(* Liveness, under FairSpec.                                               *)
(***************************************************************************)

\* No execution waits for ever on the lease of another: it is given up, or it
\* lapses once its holder died (executor.ts: #claimStartedRun).
NoWaitForever == \A e \in Exec : pc[e] \in Waiting ~> pc[e] \notin Waiting

\* A job the engine accepted comes to an end, by an outcome, a cancellation or
\* the dead-letter cap, also across crashes (maxRecoveryAttempts).
AcceptedJobEnds == engine = "ENQUEUED" ~> engine \in EngineEnded

\* A run marked cancelled reads back as ended (or was withdrawn before it was
\* ever accepted): the route, the job body or the run itself records it.  It
\* stays open only when whoever was to record it stops first: the process that
\* serves the request, or an execution the engine does not recover any more
\* (runs.ts, cancel: the outcome is written last).
CancelledRunEnds ==
  cancelled ~> \/ header \in Terminal \cup {"absent"}
               \/ route = "dead"
               \/ engine \in {"ERROR", "DEAD"} /\ \E e \in Exec : pc[e] = "dead"

=============================================================================
