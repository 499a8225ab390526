---------------------------- MODULE IdempotentRuns ----------------------------
(***************************************************************************)
(* The requests of one Idempotency-Key to the run surface                  *)
(* (compose/api-auth/src/routes/runs.ts), in-request and queued, with the  *)
(* reservation row (stores/idempotency-store.ts), the slots of in-request  *)
(* runs (kernel/platform/src/run-admission.ts), the run each in-request    *)
(* winner executes (run-core.ts) and one cancel request.                   *)
(*                                                                         *)
(* Every request mints a run id before it reserves the key, so a request   *)
(* names its run.  A step is one statement that commits on its own.  The   *)
(* execution of a queued job is abstract here: DurableRun shows that it is *)
(* one execution at a time.                                                *)
(***************************************************************************)
EXTENDS Naturals, FiniteSets

CONSTANTS
    Request,    \* the requests that carry the key, each with the run id it mints
    NoRun,      \* no run: a free key, an error response
    Body,       \* agent and body, as far as their hash tells them apart
    Process,    \* the processes that serve them
    MaxHeld,    \* RAYSPEC_AGENT_SYNC_RUNS_MAX of each
    Faults      \* what may happen besides (see AllFaults)

(* deadline: a held request outlives DEFAULT_RUN_TIMEOUT_MS; crash: a       *)
(* process stops; dbRead, dbWrite: a statement whose failure the code      *)
(* handles fails.                                                          *)
AllFaults == {"deadline", "crash", "dbRead", "dbWrite"}

ASSUME IdempotentRunsAssumption ==
    /\ NoRun \notin Request
    /\ MaxHeld \in Nat
    /\ Faults \subseteq AllFaults

VARIABLES
    pc,         \* where the handler of a request is
    mode,       \* held (the run executes in the request) or queued (async:true)
    body,       \* what the request asks for
    home,       \* the process that serves it
    prior,      \* the run a held request that lost the key looks at
    answer,     \* the run whose id or outcome the response carries
    key,        \* the run of the reservation row
    status,     \* the status of a run's header
    tainted,    \* runs with a taint marker
    cancelled,  \* runs with a cancellation marker
    stopped,    \* runs whose header the cancellation ended (its journal step)
    run,        \* where the execution of a held run is
    result,     \* what a held run settled with
    tool,       \* a non-idempotent tool call of a held run
    slot,       \* held runs that have a slot
    job,        \* the engine's job of a queued run
    route,      \* the cancel request and the run it names
    target,
    fired,      \* history: runs whose non-idempotent tool took effect
    letGo       \* history: runs whose release was decided while they were at work

asked   == <<mode, body, home>>
request == <<pc, asked, prior, answer>>
record  == <<status, tainted, cancelled, stopped>>
exec    == <<run, result, tool, slot>>
cancel  == <<route, target>>
history == <<fired, letGo>>
vars    == <<request, key, record, exec, job, cancel, history>>

Terminal  == {"completed", "error"}
Winning   == {"slot", "held", "taint", "free"} \cup {"header", "submit", "probe", "undo"}
Handling  == Winning \cup {"find", "replay", "withdraw"}
Executing == {"start", "check", "call", "failed", "stopping", "confirm", "complete"}

(* The run can still do something: it executes, a tool call it admitted    *)
(* has not ended, or its job has not.                                      *)
AtWork(r) == run[r] \in Executing \/ tool[r] # "idle" \/ job[r] \in {"queued", "running"}

Init ==
    /\ pc = [r \in Request |-> "new"]
    /\ mode \in [Request -> {"held", "queued"}]
    /\ body \in [Request -> Body]
    /\ home \in [Request -> Process]
    /\ prior = [r \in Request |-> NoRun]
    /\ answer = [r \in Request |-> NoRun]
    /\ key = NoRun
    /\ status = [r \in Request |-> "absent"]
    /\ tainted = {} /\ cancelled = {} /\ stopped = {}
    /\ run = [r \in Request |-> "none"]
    /\ result = [r \in Request |-> "none"]
    /\ tool = [r \in Request |-> "idle"]
    /\ slot = {}
    /\ job = [r \in Request |-> "none"]
    /\ route = "idle" /\ target = NoRun
    /\ fired = {} /\ letGo = {}

GoTo(r, place) == pc' = [pc EXCEPT ![r] = place]

(* The response carries run p (NoRun: an error).                           *)
Respond(r, p) == GoTo(r, "done") /\ answer' = [answer EXCEPT ![r] = p]

-----------------------------------------------------------------------------
(* The reservation.                                                        *)

(* INSERT ... ON CONFLICT DO NOTHING RETURNING.                            *)
Reserve(r) ==
    /\ pc[r] = "new"
    /\ \/ /\ key = NoRun
          /\ key' = r
          /\ GoTo(r, IF mode[r] = "held" THEN "slot" ELSE "header")
       \/ /\ key # NoRun
          /\ GoTo(r, "find")
          /\ UNCHANGED key
    /\ UNCHANGED <<asked, prior, answer, record, exec, job, cancel, history>>

(* The row that won is read by a second statement: it may be gone, or be   *)
(* another one, by then.                                                   *)
SameBody(r) == key # NoRun /\ body[key] = body[r]

(* Mutant: a request that lost the key releases it with its refusal. *)
FindPriorReleasing(r) ==
    /\ pc[r] = "find"
    /\ \/ /\ ~SameBody(r)
          /\ GoTo(r, "free")
          /\ UNCHANGED answer
          /\ UNCHANGED prior
       \/ /\ SameBody(r) /\ mode[r] = "queued"
          /\ Respond(r, key)
          /\ UNCHANGED prior
       \/ /\ SameBody(r) /\ mode[r] = "held"
          /\ prior' = [prior EXCEPT ![r] = key]
          /\ GoTo(r, "replay")
          /\ UNCHANGED answer
    /\ UNCHANGED <<asked, key, record, exec, job, cancel, history>>

FindPrior(r) ==
    /\ pc[r] = "find"
    /\ \/ /\ ~SameBody(r)
          /\ Respond(r, NoRun)
          /\ UNCHANGED prior
       \/ /\ SameBody(r) /\ mode[r] = "queued"
          /\ Respond(r, key)
          /\ UNCHANGED prior
       \/ /\ SameBody(r) /\ mode[r] = "held"
          /\ prior' = [prior EXCEPT ![r] = key]
          /\ GoTo(r, "replay")
          /\ UNCHANGED answer
    /\ UNCHANGED <<asked, key, record, exec, job, cancel, history>>

(* Mutant: a run that has a header is replayed. *)
ReplayUnfinished(r) ==
    /\ pc[r] = "replay"
    /\ Respond(r, IF status[prior[r]] # "absent" THEN prior[r] ELSE NoRun)
    /\ UNCHANGED <<asked, prior, key, record, exec, job, cancel, history>>

Replay(r) ==
    /\ pc[r] = "replay"
    /\ Respond(r, IF status[prior[r]] \in Terminal THEN prior[r] ELSE NoRun)
    /\ UNCHANGED <<asked, prior, key, record, exec, job, cancel, history>>

(* DELETE by scope and key, whatever run the row names.  A failure is      *)
(* swallowed.                                                              *)
Release(r, next) ==
    \/ key' = NoRun /\ GoTo(r, next)
    \/ "dbWrite" \in Faults /\ key' = key /\ GoTo(r, "kept")

FreeKey(r) ==
    /\ pc[r] = "free"
    /\ Release(r, "done")
    /\ UNCHANGED <<asked, prior, answer, record, exec, job, cancel, history>>

-----------------------------------------------------------------------------
(* The in-request handler around its run.                                  *)

SlotsOf(p) == {r \in slot : home[r] = p}

(* Mutant: a refused request keeps its reservation. *)
AcquireSlotKeeping(r) ==
    /\ pc[r] = "slot"
    /\ \E others \in 0 .. MaxHeld :
          \/ /\ Cardinality(SlotsOf(home[r])) + others < MaxHeld
             /\ slot' = slot \cup {r}
             /\ run' = [run EXCEPT ![r] = "start"]
             /\ GoTo(r, "held")
          \/ /\ Cardinality(SlotsOf(home[r])) + others >= MaxHeld
             /\ GoTo(r, "done")
             /\ UNCHANGED <<slot, run>>
    /\ UNCHANGED <<asked, prior, answer, key, record, result, tool, job, cancel, history>>

(* Runs of other keys hold slots of the process too.                       *)
AcquireSlot(r) ==
    /\ pc[r] = "slot"
    /\ \E others \in 0 .. MaxHeld :
          \/ /\ Cardinality(SlotsOf(home[r])) + others < MaxHeld
             /\ slot' = slot \cup {r}
             /\ run' = [run EXCEPT ![r] = "start"]
             /\ GoTo(r, "held")
          \/ /\ Cardinality(SlotsOf(home[r])) + others >= MaxHeld
             /\ GoTo(r, "free")
             /\ UNCHANGED <<slot, run>>
    /\ UNCHANGED <<asked, prior, answer, key, record, result, tool, job, cancel, history>>

(* Mutant: a throw releases the key whatever the tools did. *)
RunSettlesBlanket(r) ==
    /\ pc[r] = "held" /\ run[r] = "settled"
    /\ GoTo(r, CASE result[r] = "threw"     -> "free"
                 [] result[r] = "transient" -> "taint"
                 [] OTHER                   -> "done")
    /\ answer' = [answer EXCEPT ![r] =
                     IF result[r] \in {"completed", "terminal", "transient"} THEN r ELSE NoRun]
    /\ UNCHANGED <<asked, prior, key, record, exec, job, cancel, history>>

(* The run settles within the deadline.  A transient error or a throw is   *)
(* retryable; a cancellation, a completion and any other error keep the    *)
(* key.                                                                    *)
RunSettles(r) ==
    /\ pc[r] = "held" /\ run[r] = "settled"
    /\ GoTo(r, IF result[r] \in {"transient", "threw"} THEN "taint" ELSE "done")
    /\ answer' = [answer EXCEPT ![r] =
                     IF result[r] \in {"completed", "terminal", "transient"} THEN r ELSE NoRun]
    /\ UNCHANGED <<asked, prior, key, record, exec, job, cancel, history>>

(* Mutant: the slot is given back with the request. *)
RequestTimesOutSlotFree(r) ==
    /\ "deadline" \in Faults
    /\ pc[r] = "held" /\ run[r] # "settled"
    /\ GoTo(r, "taint")
    /\ slot' = slot \ {r}
    /\ UNCHANGED <<asked, prior, answer, key, record, run, result, tool, job, cancel, history>>

(* withTimeout frees the request and asks nothing of the run.              *)
RequestTimesOut(r) ==
    /\ "deadline" \in Faults
    /\ pc[r] = "held" /\ run[r] # "settled"
    /\ GoTo(r, "taint")
    /\ UNCHANGED <<asked, prior, answer, key, record, exec, job, cancel, history>>

(* releaseIfUntainted: an unreadable marker counts as a taint.             *)
ReadOwnTaint(r) ==
    /\ pc[r] = "taint"
    /\ \/ r \in tainted /\ GoTo(r, "done") /\ UNCHANGED letGo
       \/ "dbRead" \in Faults /\ GoTo(r, "kept") /\ UNCHANGED letGo
       \/ /\ r \notin tainted
          /\ GoTo(r, "free")
          /\ letGo' = IF AtWork(r) THEN letGo \cup {r} ELSE letGo
    /\ UNCHANGED <<asked, prior, answer, key, record, exec, job, cancel, fired>>

-----------------------------------------------------------------------------
(* The execution of a held run (runAgent).                                 *)

(* The promise settles, and with it the slot is given back.                *)
Settle(r, with) ==
    /\ run' = [run EXCEPT ![r] = "settled"]
    /\ result' = [result EXCEPT ![r] = with]
    /\ slot' = slot \ {r}

(* recordRunEnded moves a header that is there and not terminal.           *)
EndHeader(r) ==
    status' = IF status[r] \in {"enqueued", "running"}
              THEN [status EXCEPT ![r] = "error"] ELSE status

(* recordRunCancelled.                                                     *)
StopHeader(r) ==
    /\ EndHeader(r)
    /\ stopped' = IF status[r] \in {"enqueued", "running"} THEN stopped \cup {r} ELSE stopped

(* The preflight and the header; the run can be signalled from here on.    *)
StartRun(r) ==
    /\ run[r] = "start"
    /\ \/ /\ run' = [run EXCEPT ![r] = "check"]
          /\ status' = [status EXCEPT ![r] = "running"]
          /\ UNCHANGED <<result, slot>>
       \/ Settle(r, "threw") /\ UNCHANGED status
    /\ UNCHANGED <<request, key, tainted, cancelled, stopped, tool, job, cancel, history>>

(* An unreadable marker is no answer.                                      *)
CallBackend(r) ==
    /\ run[r] = "check"
    /\ \/ r \in cancelled /\ run' = [run EXCEPT ![r] = "stopping"]
       \/ /\ r \notin cancelled \/ "dbRead" \in Faults
          /\ run' = [run EXCEPT ![r] = "call"]
    /\ UNCHANGED <<request, key, record, result, tool, slot, job, cancel, history>>

(* The backend has its tool results when it answers; a handler may still   *)
(* run if its own timeout answered for it.                                 *)
CallReturns(r) ==
    /\ run[r] = "call" /\ tool[r] # "admitted"
    /\ run' = [run EXCEPT ![r] = "confirm"]
    /\ \E with \in {"completed", "transient", "terminal"} :
          result' = [result EXCEPT ![r] = with]
    /\ UNCHANGED <<request, key, record, tool, slot, job, cancel, history>>

(* The backend throws, or RAYSPEC_AGENT_RUN_MAX_MS is over.                *)
CallFails(r) ==
    /\ run[r] = "call"
    /\ run' = [run EXCEPT ![r] = "failed"]
    /\ UNCHANGED <<request, key, record, result, tool, slot, job, cancel, history>>

(* recordRunFailed, recordRunTimedOut: best effort, then the throw.        *)
RecordFailed(r) ==
    /\ run[r] = "failed"
    /\ EndHeader(r) \/ ("dbWrite" \in Faults /\ UNCHANGED status)
    /\ Settle(r, "threw")
    /\ UNCHANGED <<request, key, tainted, cancelled, stopped, tool, job, cancel, history>>

(* The end of a signalled run: recorded if the marker reads, best effort.  *)
RecordStop(r) ==
    /\ run[r] = "stopping"
    /\ \/ r \in cancelled /\ StopHeader(r)
       \/ /\ r \notin cancelled \/ Faults \cap {"dbRead", "dbWrite"} # {}
          /\ UNCHANGED <<status, stopped>>
    /\ Settle(r, "cancelled")
    /\ UNCHANGED <<request, key, tainted, cancelled, tool, job, cancel, history>>

(* After the call: the events are drained and the marker is read once      *)
(* more.  A cancelled run is recorded as such and still returns what its   *)
(* backend answered.                                                       *)
ConfirmNotCancelled(r) ==
    /\ run[r] = "confirm"
    /\ \/ /\ r \notin cancelled
          /\ run' = [run EXCEPT ![r] = "complete"]
          /\ UNCHANGED <<status, stopped, result, slot>>
       \/ r \in cancelled /\ StopHeader(r) /\ Settle(r, result[r])
       \/ /\ Faults \cap {"dbRead", "dbWrite"} # {}
          /\ Settle(r, "threw")
          /\ UNCHANGED <<status, stopped>>
    /\ UNCHANGED <<request, key, tainted, cancelled, tool, job, cancel, history>>

(* The conditional upsert of the outcome; the transcript insert behind it  *)
(* throws with the outcome already written.                                *)
CompleteRun(r) ==
    /\ run[r] = "complete"
    /\ LET outcome == [status EXCEPT ![r] =
                          IF @ = "completed" \/ result[r] = "completed" THEN "completed" ELSE "error"]
       IN \/ status' = outcome /\ Settle(r, result[r])
          \/ /\ "dbWrite" \in Faults
             /\ status' = outcome \/ UNCHANGED status
             /\ Settle(r, "threw")
    /\ UNCHANGED <<request, key, tainted, cancelled, stopped, tool, job, cancel, history>>

-----------------------------------------------------------------------------
(* The dispatcher: admitted while the run waits for its backend, the       *)
(* marker, then the handler.  None of the three asks what became of the    *)
(* run in between.                                                         *)

AdmitTool(r) ==
    /\ run[r] = "call" /\ tool[r] = "idle"
    /\ tool' = [tool EXCEPT ![r] = "admitted"]
    /\ UNCHANGED <<request, key, record, run, result, slot, job, cancel, history>>

MarkRunTainted(r) ==
    /\ tool[r] = "admitted"
    /\ \/ /\ tainted' = tainted \cup {r}
          /\ tool' = [tool EXCEPT ![r] = "marked"]
       \/ /\ "dbWrite" \in Faults
          /\ tool' = [tool EXCEPT ![r] = "idle"]
          /\ UNCHANGED tainted
    /\ UNCHANGED <<request, key, status, cancelled, stopped, run, result, slot, job, cancel, history>>

RunHandler(r) ==
    /\ tool[r] = "marked"
    /\ tool' = [tool EXCEPT ![r] = "idle"]
    /\ fired' = fired \cup {r}
    /\ UNCHANGED <<request, key, record, run, result, slot, job, cancel, letGo>>

-----------------------------------------------------------------------------
(* The queued path (enqueueAgentRun) and its job.                          *)

InsertHeader(r) ==
    /\ pc[r] = "header"
    /\ \/ status' = [status EXCEPT ![r] = "enqueued"]
       \/ "dbWrite" \in Faults /\ UNCHANGED status
    /\ GoTo(r, "submit")
    /\ UNCHANGED <<asked, prior, answer, key, tainted, cancelled, stopped, exec, job, cancel, history>>

(* Mutant: a call that throws is undone without a look at the job. *)
EnqueueUnprobed(r) ==
    /\ pc[r] = "submit"
    /\ \/ job' = [job EXCEPT ![r] = "queued"] /\ Respond(r, r)
       \/ UNCHANGED <<job, answer>> /\ GoTo(r, "undo")
       \/ /\ "dbWrite" \in Faults
          /\ job' = [job EXCEPT ![r] = "queued"] \/ UNCHANGED job
          /\ GoTo(r, "undo")
          /\ UNCHANGED answer
    /\ UNCHANGED <<asked, prior, key, record, exec, cancel, history>>

(* The engine takes the job, its admission refuses it, or the call throws  *)
(* before or after the job was stored.                                     *)
Enqueue(r) ==
    /\ pc[r] = "submit"
    /\ \/ job' = [job EXCEPT ![r] = "queued"] /\ Respond(r, r)
       \/ UNCHANGED <<job, answer>> /\ GoTo(r, "undo")
       \/ /\ "dbWrite" \in Faults
          /\ job' = [job EXCEPT ![r] = "queued"] \/ UNCHANGED job
          /\ GoTo(r, "probe")
          /\ UNCHANGED answer
    /\ UNCHANGED <<asked, prior, key, record, exec, cancel, history>>

(* The undo needs a job that is provably absent.                           *)
ProbeJob(r) ==
    /\ pc[r] = "probe"
    /\ \/ job[r] = "none" /\ GoTo(r, "undo")
       \/ job[r] # "none" /\ GoTo(r, "done")
       \/ "dbRead" \in Faults /\ GoTo(r, "kept")
    /\ UNCHANGED <<asked, prior, answer, key, record, exec, job, cancel, history>>

UndoReservation(r) ==
    /\ pc[r] = "undo"
    /\ \/ key' = NoRun
       \/ "dbWrite" \in Faults /\ UNCHANGED key
    /\ GoTo(r, "withdraw")
    /\ UNCHANGED <<asked, prior, answer, record, exec, job, cancel, history>>

(* Only a header that is still `enqueued` is removed.                      *)
WithdrawHeader(r) ==
    /\ pc[r] = "withdraw"
    /\ \/ status' = IF status[r] = "enqueued" THEN [status EXCEPT ![r] = "absent"] ELSE status
       \/ "dbWrite" \in Faults /\ UNCHANGED status
    /\ GoTo(r, IF key = r THEN "kept" ELSE "done")
    /\ UNCHANGED <<asked, prior, answer, key, tainted, cancelled, stopped, exec, job, cancel, history>>

(* A dispatch executes the run, or ends it if it is marked.                *)
StartJob(r) ==
    /\ job[r] = "queued"
    /\ \/ /\ r \notin cancelled
          /\ job' = [job EXCEPT ![r] = "running"]
          /\ status' = IF status[r] \in Terminal THEN status ELSE [status EXCEPT ![r] = "running"]
          /\ UNCHANGED stopped
       \/ /\ r \in cancelled
          /\ job' = [job EXCEPT ![r] = "ended"]
          /\ StopHeader(r)
    /\ UNCHANGED <<request, key, tainted, cancelled, exec, cancel, history>>

JobFires(r) ==
    /\ job[r] = "running"
    /\ tainted' = tainted \cup {r}
    /\ fired' = fired \cup {r}
    /\ UNCHANGED <<request, key, status, cancelled, stopped, exec, job, cancel, letGo>>

EndJob(r) ==
    /\ job[r] = "running"
    /\ job' = [job EXCEPT ![r] = "ended"]
    /\ \/ \E outcome \in Terminal :
             status' = [status EXCEPT ![r] = IF @ = "completed" THEN @ ELSE outcome]
       \/ "dbWrite" \in Faults /\ UNCHANGED status
    /\ UNCHANGED <<request, key, tainted, cancelled, stopped, exec, cancel, history>>

-----------------------------------------------------------------------------
(* The cancel route.  One request: a second one finds the marker set.      *)

RequestCancel(r) ==
    /\ route = "idle" /\ status[r] # "absent"
    /\ route' = "mark" /\ target' = r
    /\ UNCHANGED <<request, key, record, exec, job, history>>

MarkRunCancelled ==
    /\ route = "mark"
    /\ \/ cancelled' = cancelled \cup {target} /\ route' = "signal"
       \/ "dbWrite" \in Faults /\ route' = "done" /\ UNCHANGED cancelled
    /\ UNCHANGED <<request, key, status, tainted, stopped, exec, job, target, history>>

(* The route's process is the run's, or signals nothing.                   *)
SignalRunCancelled ==
    /\ route = "signal"
    /\ route' = "engine"
    /\ \E p \in Process :
          run' = IF home[target] = p /\ run[target] \in {"check", "call"}
                 THEN [run EXCEPT ![target] = "stopping"] ELSE run
    /\ UNCHANGED <<request, key, record, result, tool, slot, job, target, history>>

(* RAYSPEC_RUN_CANCEL_POLL_MS, where it is set.                            *)
PollCancelled(r) ==
    /\ run[r] = "call" /\ r \in cancelled
    /\ run' = [run EXCEPT ![r] = "stopping"]
    /\ UNCHANGED <<request, key, record, result, tool, slot, job, cancel, history>>

CancelJob ==
    /\ route = "engine"
    /\ route' = "record"
    /\ job' = IF job[target] = "queued" THEN [job EXCEPT ![target] = "ended"] ELSE job
    /\ UNCHANGED <<request, key, record, exec, target, history>>

RecordRouteCancelled ==
    /\ route = "record"
    /\ route' = "done"
    /\ StopHeader(target) \/ ("dbWrite" \in Faults /\ UNCHANGED <<status, stopped>>)
    /\ UNCHANGED <<request, key, tainted, cancelled, exec, job, target, history>>

-----------------------------------------------------------------------------
(* A process stops: its requests, runs, slots and tool calls are gone, a    *)
(* cancel request may be one of them; the rows and the jobs stay.          *)
Crash(p) ==
    /\ "crash" \in Faults
    /\ \E r \in Request : home[r] = p /\ (\/ pc[r] \in Handling \/ run[r] \in Executing
                                     \/ tool[r] # "idle")
    /\ pc' = [r \in Request |-> IF home[r] = p /\ pc[r] \in Handling THEN "dead" ELSE pc[r]]
    /\ run' = [r \in Request |-> IF home[r] = p /\ run[r] \in Executing THEN "dead" ELSE run[r]]
    /\ tool' = [r \in Request |-> IF home[r] = p THEN "idle" ELSE tool[r]]
    /\ slot' = slot \ SlotsOf(p)
    /\ route' \in {route, IF route = "idle" THEN "idle" ELSE "done"}
    /\ UNCHANGED <<asked, prior, answer, key, record, result, job, target, history>>

HandlerStep(r) ==
    \/ Reserve(r) \/ FindPrior(r) \/ Replay(r) \/ FreeKey(r)
    \/ AcquireSlot(r) \/ RunSettles(r) \/ RequestTimesOut(r) \/ ReadOwnTaint(r)
    \/ InsertHeader(r) \/ Enqueue(r) \/ ProbeJob(r) \/ UndoReservation(r) \/ WithdrawHeader(r)

RunStep(r) ==
    \/ StartRun(r) \/ CallBackend(r) \/ CallReturns(r) \/ CallFails(r) \/ RecordFailed(r)
    \/ RecordStop(r) \/ ConfirmNotCancelled(r) \/ CompleteRun(r)
    \/ AdmitTool(r) \/ MarkRunTainted(r) \/ RunHandler(r)
    \/ StartJob(r) \/ JobFires(r) \/ EndJob(r)

Next ==
    \/ \E r \in Request : HandlerStep(r) \/ RunStep(r) \/ PollCancelled(r) \/ RequestCancel(r)
    \/ MarkRunCancelled \/ SignalRunCancelled \/ CancelJob \/ RecordRouteCancelled
    \/ \E p \in Process : Crash(p)

Spec == Init /\ [][Next]_vars
-----------------------------------------------------------------------------
(* Properties.                                                             *)

(* Every row, request, run and job has its type.                           *)
TypeOK ==
    /\ pc \in [Request -> Handling \cup {"new", "done", "kept", "dead"}]
    /\ mode \in [Request -> {"held", "queued"}]
    /\ body \in [Request -> Body]
    /\ home \in [Request -> Process]
    /\ prior \in [Request -> Request \cup {NoRun}]
    /\ answer \in [Request -> Request \cup {NoRun}]
    /\ key \in Request \cup {NoRun}
    /\ status \in [Request -> Terminal \cup {"absent", "enqueued", "running"}]
    /\ tainted \subseteq Request /\ cancelled \subseteq Request /\ stopped \subseteq Request
    /\ run \in [Request -> Executing \cup {"none", "settled", "dead"}]
    /\ result \in [Request -> {"none", "completed", "transient", "terminal", "threw", "cancelled"}]
    /\ tool \in [Request -> {"idle", "admitted", "marked"}]
    /\ slot \subseteq Request
    /\ job \in [Request -> {"none", "queued", "running", "ended"}]
    /\ route \in {"idle", "mark", "signal", "engine", "record", "done"}
    /\ target \in Request \cup {NoRun}
    /\ route \in {"mark", "signal", "engine", "record"} => target \in Request
    /\ fired \subseteq Request /\ letGo \subseteq Request

(* Whoever won the key keeps the row until its own handler releases it, and *)
(* a run that works, or that a side effect or a job binds to the key, is    *)
(* the run of the row, unless its handler let it go while it was at work.   *)
Ownership ==
    /\ \A r \in Request : pc[r] \in Winning => key = r
    /\ \A r \in Request :
          AtWork(r) \/ r \in tainted \/ job[r] # "none" => key = r \/ r \in letGo

(* Two runs of one key are never at work together, in the request or on    *)
(* the worker, unless one was let go: what the reservation is for          *)
(* (runs.ts, reserve before execute).                                      *)
OneRunAtATime ==
    \A r, s \in Request :
        r # s /\ AtWork(r) /\ AtWork(s) => r \in letGo \/ s \in letGo

(* Side effects take place in one run of the key, however often it is       *)
(* retried, unless a run was let go: releaseIfUntainted is for this.        *)
OneEffectRun ==
    \A r, s \in fired : r # s => r \in letGo \/ s \in letGo

(* A job that the engine has, whatever its enqueue reported, keeps the      *)
(* key, so that a retry finds it: enqueueAgentRun undoes only an absent     *)
(* job.                                                                     *)
JobKeepsKey == \A r \in Request : job[r] # "none" => key = r

(* A run whose stable outcome or whose id its own request has been given    *)
(* keeps the key for ever: every retry gets the same run.                   *)
AnswerKeepsKey ==
    \A r \in Request : answer[r] = r /\ result[r] # "transient" => key = r

(* A response of a held request is about a run that has ended, and every    *)
(* response is about a run of the same body, although the row, the header   *)
(* and the outcome are read by three statements.                            *)
AnswersMatch ==
    \A r \in Request : answer[r] # NoRun =>
        /\ body[answer[r]] = body[r]
        /\ mode[r] = "held" => status[answer[r]] \in Terminal

(* A request that ended without a database failure leaves the key taken     *)
(* only for a job, a side effect, a stable outcome or a cancellation:       *)
(* everything else can be retried, as the Retry-After advises.              *)
FreedForRetry ==
    \A r \in Request : pc[r] = "done" /\ key = r =>
        \/ job[r] # "none" \/ r \in tainted
        \/ result[r] \in {"completed", "terminal", "cancelled"}

(* In-request runs a process executes are never more than the bound,        *)
(* although their requests may have left them: "the bound counts the runs   *)
(* really executing" (runs.ts, in-request admission).                       *)
SlotsBoundRuns ==
    \A p \in Process :
        Cardinality({r \in Request : home[r] = p /\ run[r] \in Executing}) <= MaxHeld

(* release deletes by key, not by run; still no request frees a row that    *)
(* another one won: the row goes only with a step of its own request.       *)
ReleasesOwn ==
    [][key # NoRun /\ key' # key => key' = NoRun /\ pc'[key] # pc[key]]_vars

(* Refuted: "a same-key request that arrives while the first is still       *)
(* executing [...] never executes the agent a second time"                  *)
(* (docs/spec-reference.md).                                                *)
NeverExecutesTwice ==
    \A r, s \in Request : run[r] \in Executing /\ run[s] \in Executing => r = s

(* Refuted: "A CANCELLED run is never released, taint or not" (runs.ts).    *)
(* A held run whose header and ledger say that it was cancelled keeps the   *)
(* key, so that no retry runs it again.                                     *)
CancelledKeepsKey == \A r \in stopped : mode[r] = "held" => key = r
===============================================================================
