# A TLA+ development of RaySpec

RaySpec compiles declarative backend specifications into a multi-tenant HTTP
service that runs LLM agents, durable workflows and declared stores on one
Postgres database. Its own logic, apart from parsing and code generation, is
about several processes meeting in that database: an agent run that must survive
its process, a cancel request that races it, a side effect that must not be
repeated, an organization that must keep an owner. This directory models that
part. Paths below are relative to `src/packages/`.

## 1. The system

| Part | State it keeps | Operations | What is hard about it | What makes it correct |
|---|---|---|---|---|
| Durable executor `workflow/durable-dbos/src/executor.ts` | engine workflow rows, the `run_started` marker with its lease | enqueue, job body, claim, renew, release, cancel | an engine re-dispatches a job after a crash, or next to a live execution | one execution at a time; no side effect twice; every accepted job ends |
| Run core `kernel/platform/src/run-core.ts`, `run-header.ts` | `runs`, `run_events`, `journal_steps`, `conversation_items`, the persisted output | start, call, bound, fail, complete | the end of a run is decided by whichever of five writers comes first | one end, one output row, a transcript of one execution |
| Cancellation `kernel/platform/src/run-cancel.ts` | the `run_cancelled` marker, `liveRuns` of a process | mark, signal, poll, record | marker, signal, engine and ledger are four systems | a cancelled run ends, and its ledger says what happened |
| Tool dispatch `kernel/platform/src/dispatch.ts`, `run-taint.ts` | the `run_taint` marker | admit, mark, run handler | the handler outlives the run that called it | the marker commits before the effect |
| Run routes `compose/api-auth/src/routes/runs.ts` | Idempotency-Key reservations | run, enqueue, cancel, replay, stream | a request's timeout does not stop its run | a key runs once |
| Organizations `compose/api-auth/src/stores/org-store.ts`, `invite-store.ts`, routes `orgs.ts`, `invites.ts` | `memberships`, `invites` | role, remove, add, issue, accept, purge | several statements at READ COMMITTED | an owner remains, an invite is used once, a revoked role does not return |
| Sessions `compose/api-auth/src/services/auth-service.ts`, `stores/identity-store.ts` | `sessions` | login, refresh, logout | rotation and reuse detection race | one live session per family |
| Operation lease `app/server/src/operation-lease.ts` | the lease of `runtime_control_state`, the receipts | acquire, guard, mutate, renew, release, step | an expired holder keeps working; a retry has its id | only the newest grant writes |
| Quiesce and resume `app/server/src/fence-operations.ts`, `write-barrier.ts` | the fence and its barrier record, the runtime role's privileges in two databases | quiesce, resume | an attempt stops between two databases | a recorded barrier fences; no privilege is lost without a trace |
| Runtime fence `app/server/src/runtime-fence.ts` | a phase and an epoch per process, its heartbeat row | load, poll, admit, drain, reopen, stop | observations are several awaits; boots and polls overlap with fences | a drain that is reported has happened |
| Apply `app/server/src/apply-operation.ts` | operation receipts, the environment's revision | apply, reconcile, resolve | a step is cut between two receipts; a commit is not acknowledged | receipts tell what took effect; nothing is replayed blindly |
| Import and cutover `app/server/src/import-target.ts`, `import-cutover.ts` | binding rows | import, cut over | two environments | source and target never both write |
| Event bus `kernel/db/src/event-bus.ts`, `compose/api-auth/src/routes/subscribe.ts` | `tenant_event_streams`, `tenant_events`, a cursor per connection | append, page, sweep, listen, stream | wakes are lost, rows are swept, connections are capped | no gap goes unnoticed |
| Workflow engine `workflow/workflow-durable`, `workflow/durable-dbos/src/workflow-executor.ts` | workflow and node rows, sub-run headers and markers | execute, resume, finalize, fail to resolve | a node running at the crash; a recovery without the workflow, or beside a live pass | settled nodes do not run again, a tool fires once |
| Cron and scheduled workflows `workflow/durable-dbos/src/cron-scheduler.ts`, `scheduled-workflow.ts` | the watermark, the slot markers, run headers | loop, fire, fireNow, catch up | a slot is fired from several places; a crash in between | one dispatch per slot, no slot forgotten |
| Queue pause, producer gate, admission `workflow/durable-dbos/src/pausable-queue.ts`, `producer-gate.ts`, `kernel/platform/src/run-admission.ts` | queue concurrency in a shared row, gate counts | register, pause, drain, resume | the loop claims with what it read; a pause throws or meets the registration | a closed gate and a held queue stay empty |
| Supervisor and deployment state `app/server/src/supervisor.ts`, `deployment-state.ts` | processes, files | deploy, promote, roll back | crashes between renames | a complete version is active |
| Adapters, specification grammar and lint, bundles, capabilities, OIDC, CLI, rate limits | mostly none | pure functions, vendor SDKs, wiring | | not modelled, see section 8 |

How they interact: the run routes insert a header and call the executor's
`enqueue`; the engine calls the job body with the same run id; the job body
calls `runAgent`, which calls the backend and, through the dispatcher, the tool
handlers; the cancel route writes the marker, signals the run in its own
process, cancels the engine's workflow and records the end. All of them share
the rows of one run and nothing else. The membership routes share only the
rows of their organization. A workflow's agent node calls the same `runAgent` under
a sub-run id; a cron fire calls `enqueue`, or a handler. `quiesce`, `resume` and
`apply` are run by an operator beside the server and meet it in one row: they
take the lease there, and the server's processes poll the fence from it, report
in heartbeat rows that `quiesce` adds up, and stop their producers. A handler that
writes a store appends its events in the same transaction; subscribers page
through them.

## 2. Modules

| Module | Models |
|---|---|
| `RunLedger` | What a reader of a run's ledger relies on: announced, begun, ended once, an output only with completion, effects of one worker only. |
| `DurableRun` | One durable run: enqueue, engine, every execution of its job, the tool dispatcher, the cancel route, processes that stop. Implements `RunLedger`. |
| `MCDurableRun` | Model values: executions `local` (in the process of the routes), `remote`, `other`. |
| `DurableRunProofs` | Its types, its safety properties and its refinement of `RunLedger`, proved. |
| `IdempotentRuns` | The requests of one Idempotency-Key, in-request and queued: reservation, slot, run, deadline, taint-aware release, undone enqueue, a cancel request, processes that stop. |
| `MCIdempotentRuns` | Model values: two requests, two bodies, two processes. |
| `IdempotentRunsProofs` | Its types and every safety property, proved. |
| `OrgMembership` | One organization: membership and invite requests statement by statement, the purge. |
| `MCOrgMembership` | Model values: two accounts, one invite, two request slots. |
| `OrgMembershipProofs` | Theorems about `OrgMembership`: grants, invites, the last owner of serial requests. |
| `OperationLease` | The lease row: grant, guard, release, expiry. Extended by the operations that run under it. |
| `SourceFence` | What everyone else is promised of the fence: open or held, an epoch per taking. |
| `FenceOperations` | `quiesce` and `resume` under the lease, over the application and the workflow system database. Implements `SourceFence`. |
| `RuntimeFence` | The server's processes under a `SourceFence`: boot, poll, drain, heartbeat, the queue they pause (`PausableQueue`), and what `quiesce` adds up. |
| `ApplyOperation` | `runtime.apply` under the lease: reconciliation, freshness, steps and receipts, retries, an operator's resolution. |
| `FencedRuntime` | Both together: `quiesce` and `resume` over the processes, where the drain of a quiesce reads the processes' rows. |
| `FenceProofs` | Theorems about `FenceOperations` (the refinement of `SourceFence` among them), `RuntimeFence` and `FencedRuntime`. |
| `ApplyOperationProofs` | Theorems about `ApplyOperation`: its receipts, its transactions and its freshness checks. |
| `EventFeed` | What a subscription promises, without connections, pages and retention. |
| `EventStream` | A tenant's event stream and one subscriber over a connection that breaks and is capped. Implements `EventFeed`. |
| `EventStreamProofs` | Theorems about `EventStream`: the log without gaps, the truthful live frame, the refinement of `EventFeed`. |
| `WorkflowRun`, `WorkflowRunProofs` | One durable workflow run: its engine job, the passes over its nodes, one after the other or two at once, the agent node's guard; and its theorems. |
| `CronTrigger`, `CronTriggerProofs` | One cron trigger: loop, watermark, engine workflows, fires; and its theorems. |
| `MCFenceOperations`, `MCRuntimeFence`, `MCApplyOperation`, `MCEventStream`, `MCWorkflowRun`, `MCCronTrigger` | Model values of the runs in section 4. |

`FenceOperations` and `ApplyOperation` extend `OperationLease`: what the lease
promises is used there under the same guard, `Holds`. `FenceOperations` and
`RuntimeFence` extend `SourceFence`: its steps are the fence steps of the second, and
what the first is shown to implement. `RuntimeFence` on its own lets any quiesce take the fence at
any time (`QuiesceTakes`, `ResumeReleases`), `FenceOperations` on its own lets its
drain find anything, and both are more than happens; `FencedRuntime` extends the two
and joins them in the fence row and in `WaitForDrain`, whose answer is `aggregate()`
of the rows the processes wrote. `EventFeed`, `RunLedger` and `SourceFence` are the
abstract specifications.

### DurableRun

A step is one statement that commits on its own, or one transaction. `pc[e]` is
where execution `e` is; the names follow the code:

| `pc` | code |
|---|---|
| `check`, `cancel` | `readCancelledWithBoundedRetry`, `recordRunCancelled` in `#runAgentJobBody` |
| `reserve` | authorization, agent resolution, `reserveRunLease` |
| `claim`, `lease`, `move` | one turn of `#claimStartedRun`: marker, `readRunLease`, `moveRunLease` |
| `taint`, `ended`, `clear`, `quarantine` | the takeover: `readTaintWithBoundedRetry`, `readRunEndedWithBoundedRetry`, `clearInterruptedAttempt`, `DurableRunNotRetriedError` |
| `start`, `recheck`, `call` | `runAgent`: preflight and header, `withRunCancel`, the backend call |
| `threw`, `boundEnd`, `cancelEnd` | the three ways the wait for the call ends without an answer |
| `confirm`, `complete`, `transcript` | the last cancellation check, the completing transaction, the transcript |
| `caught`, `releaseOk`, `releaseErr` | the executor's catch, `releaseRunLease` |
| `succeed`, `fail`, `done`, `dead` | the job's outcome; `dead`: the process stopped |

`header`, `endSteps`, `phase` are the run's row and its terminal journal step;
`holder`, `live` the lease marker (`live` is `leaseUntil > now`); `taint`,
`cancelled` the two markers; `engine`, `attempts` the workflow row; `tool[e]` a
non-idempotent tool call of `e`; `liveRun` the in-process registry;
`called`, `fired`, `barred` are history.

`Faults` says what may go wrong: `crash` (a process stops between any two steps),
`lapse` (no renewal of a live execution reaches the database for a ttl),
`dbRead` (a read fails on all its bounded retries), `dbWrite` (a write the code
treats as best-effort, or a run write, fails; or the record of an end outlasts
`RUN_END_RECORD_BUDGET_MS`: the execution ends without it, and `late[e]` is the record
that commits afterwards, in `LandRecord`, if its process lives).

### IdempotentRuns

A request mints its run id before it reserves the key, so a request names its
run. `key` is the run of the reservation row. `pc[r]` is the handler in
`runs.ts`, `run[r]` the `runAgent` it awaits, `route` the cancel route:

| value | code |
|---|---|
| `pc`: `new`, `find`, `replay` | `IdempotencyStore.reserve`, its read of the row that won, the read of that run's outcome |
| `slot`, `held` | `InRequestRunGate.acquire`, the `withTimeout` around `holdingSlot(runAgent(...))` |
| `taint`, `free` | the two statements of `releaseIfUntainted`; `free` is also the release of a slot refusal |
| `header`, `submit`, `probe`, `undo`, `withdraw` | `enqueueAgentRun`: header, `enqueue`, the status probe of a throw, the two deletes |
| `done`, `kept`, `dead` | answered; answered after a statement about its key failed; its process stopped |
| `run`: `start` to `call` | preflight and header, the last read of the marker, the backend |
| `failed`, `stopping`, `confirm`, `complete` | the wait for the call threw, was signalled, was answered; the completing write |
| `settled`, `dead` | the promise settled with `result[r]` and gave its slot back; its process stopped |
| `route` | marker, in-process signal, engine cancel, ledger record |

The handler and the run are separate processes because `withTimeout` only
races them: after `RequestTimesOut` the run goes on, keeps its slot and may admit
a tool call. `letGo` is history: the runs whose release was decided while they
were at work.

### OrgMembership

`Requests` are slots: as many requests run at once, and a slot is used again, so
sequences are unbounded. `setRole` and `removeMember` are three steps
(`ReadMember`, `CountOwners`, `WriteMember`) because the transaction runs at the
default isolation and locks nothing before its update; `addMember`,
`addInvitedMember`, `consume` and the purge are one statement, one step. A redeem
is resolve, consume, attach.

### OperationLease and FenceOperations

The lease is the row's `leaseEpoch`, `leaseHolder` and `leaseLive`
(`lease_expires_at` is in the future); `grant[a]` is the epoch the attempt was
given. `Holds(a)` is `guard()`. An attempt is one call; attempts may share an
operation id, as retries do, and only the epoch tells them apart.

| `pc` | code |
|---|---|
| `startFence`, `takeFence`, `fenceTaken` | `lease.step('take-fence')`: receipt, transaction, receipt |
| `startDrain`, `drain`, `drainDone` | the drain step with `waitForDrain` |
| `startBarriers`, `revokeSys`, `revokeApp`, `recordBarriers`, `barriersDone` | the barriers step: `takeDatabaseBarrier` on the system database, then on the application database, then the record |
| `undoThenRecord`, `undoThenFail` | the system database's privileges given back after the application database refused |
| `read`, `restoreSys` | what `resume` reads and grants before its step |
| `startRelease`, `releaseFence`, `fenceReleased` | `lease.step('release-fence')` |
| `end`, then over | `release()` with the outcome; refused, failed or dead |

`openStep[a]` is the step with a `step-started` receipt and no `step-finished`;
`appWrites` and `sysWrites` say whether the runtime role holds its privileges.

### RuntimeFence

`life[p]` is the boot (`announced` after the first heartbeat, `loaded` after
`load()` read the fence, `booting` until it serves, `up`, `stopping` in `close()`),
`phase`, `seenEpoch` are the class's fields, `at` the await an observation is in
(`observed`; `pausing`, `holding`, `judging`: before `pause()`, in its write of the row,
behind it; `resuming`, `reopening`, `beat`). `work` counts what asks the gate and has not
ended: requests that write, workers, fires and cleanups alike. `row` is the heartbeat row
while it is fresh; `Report` is `aggregate()` over the fresh rows.

Jobs ask no gate. `dispatch` is the queue's row: a worker concurrency of 0 (`off`) or
not. `queue[p]` is the process's registration, with the concurrency it writes chosen
before its await. `claiming` are the processes whose dispatch loop last read a row that
is on; only they claim `jobs`, in whatever phase they are. `paused` and `settled` are
`PausableQueue`'s. `held` is history: the queue is paused for the epoch its process drains
for, the pause reached the row, or will be registered, and nobody has turned the row on
since; it ends when the settle window passes over a loop that still claims.

### ApplyOperation

| `pc` | code |
|---|---|
| lookup, look at the holder, first check | the idempotency key, the holder of the lease, freshness before it |
| acquire | `acquireOperationLease` with the intent receipt |
| survey, record, close | `reconcile`: observe what is open, write what was observed, close what is interrupted |
| second check | freshness under the lease |
| steps | per step its kind: one guarded transaction; an effect between two receipts; an effect that may be repeated |
| release | the outcome, with the revision when any step ran |

`step[s]` is the latest receipt, `everDone` the steps with a finish receipt at any
time, `effect[s]` how often the step took effect. `late` and `unheard` are history:
effects that came after the lease was lost, and commits whose acknowledgement did
not reach the attempt. Kinds of steps: `transaction`, `observed` (an observer can
read whether it took effect), `blind` (nobody can), `rerunnable`.

### EventStream

Writers are transactions: `issued` is the counter as the transaction that has the
counter's row sees it, `last` and `floor` are committed. The loop of
`GET /v1/subscribe` is `pc` with `cursor`, `page`, `published`, `announced`; the
client is `held` (the last event id), `got`, `told`, `live`; `wire` is what was
written and not received. A connection ends by `Cap` or by `Drop` (the wire is lost), and `Connect`
resumes at `held`; a cursor ahead of the stream is refused.

### WorkflowRun

`pass` is the invocation that takes the next step, with `seen`, the rows as it read or
wrote them (`priorNodes`, `nodeStatuses`); `aside` is another invocation beside it, and
`Switch` lets that one go on. `resolve`, `unresolved`, `mark` and `rethrow` are
`DbosWorkflowExecutor` finding its workflow or not; `ensure`, `load`, `step`, `record`,
`finalize`, `return` the engine; `invoke`, `guard`, `agent`, `fire`, `ended` a node's
handler. `nodes` and `header` are the journal's rows, `completed` and `tainted` the
sub-run's. A job is invoked again by `Dequeue` after its invocation died, and by
`Redispatch` beside one that lives. `torn`, `unguarded` and `paused` are history and name
the cases `CutExecutionsSurface` excludes; `contested` are the agent nodes two passes
executed at once, and `overlap` says whether two passes were ever live (`past`) or have
been since the job was last dequeued (`now`).

### CronTrigger

`loop[p]` is `runScheduleLoop` in a process, `flow[s]` the engine's workflow of
slot `s`, `fire[f]` a fire at work (the body of that workflow, or `fireNow`):
confirm the tenant, reserve (`marker`), bound, then the handler, or header, enqueue,
probe, withdraw. `lapsed` and `unprobed` are history: slots whose winner threw or
died, headers nobody could take back.

## 3. Abstractions

- One run. Every row is keyed by the run id; queue admission, which counts other
  runs, is only its refusal.
- An execution has at most one non-idempotent call in flight.
- `ObservedPhases` is the set of phases the observer of an abandoned call can
  report; which one is nondeterministic.
- `recordRunEnded` is one step: its guarded update decides. The three deletes of
  `clearInterruptedAttempt` are one step. The marker read and the two writes that
  end an observed cancellation are one step; the marker is never removed.
- A cancellation is requested once. The route's probe of another process is the
  persisted marker.
- The engine is external: it stores the job before the enqueue returns, dispatches
  while `attempts < MaxAttempts` (also next to a live execution, which happens
  when a process boots under the same executor id), stores the first outcome, and
  moves a job past the cap to the dead letter. `maxRecoveryAttempts: 1` allows two
  dispatches.
- In `IdempotentRuns` there is one key and one cancel request; runs of other keys
  only take slots, as many as they like at any moment. The job of a queued run is
  dispatched, may fire a tool and ends: that this is one execution at a time is
  what `DurableRun` shows. A run has one non-idempotent call in flight. A backend
  whose call has settled starts no new tool call; a handler whose own timeout
  answered for it goes on. The JSON and the stream path of the route release by
  the same rules and are one action.
- In `OrgMembership` an account and its email are one value, retention age is
  nondeterministic, and `activated` of an add is left out.
- In `OperationLease` the clock is one Boolean: the lease may expire whenever it is
  held. A renewal in time changes nothing.
- In `FenceOperations` a drain ends either way (`FencedRuntime` decides it), and a
  transaction fails or commits; `restoreWrites` and `revokeWrites` are all or
  nothing per database, as their transactions are.
- In `RuntimeFence` one queue stands for the two, and one counter for everything the
  gates admit. Everything else may happen while a pause or a resume waits for its write.
  A worker concurrency is 0 or not; `settleMs` is a moment (`Settle`) that may come
  before the loop has read the row again, as it may in the code when a write is slow or the
  interval lengthened. The rows' clock is `RowGoesStale`. Processes share the row of the
  queue; a process that stops leaves it as it is.
- In `ApplyOperation` a key names one operation; an observer reads the truth at the
  moment it is asked or cannot tell; `FenceMoves` stands for quiesce and resume.
- In `EventStream` there is one tenant, one subscriber, and topics are wanted or not;
  the sweep's cutoff is any number of transactions ago.
- In `WorkflowRun` at most two invocations of the job are live. The second is one the
  engine recovers when a process boots under the same executor id (`executor.ts:20-23`,
  `:183-187`); no lease parts it from the first. `engine.ts:33-36` takes the engine's one
  workflow per run id for concurrency control, which that recovery is not: it
  invokes the same workflow. What the engine makes of an outcome of a job it holds
  for ended is left open (`End`). A node's handler is an agent or a handler that guards
  itself; an execution has one tool call. The data nodes hand on is left out. A header of
  a job in the dead letter stays `running`.
- In `CronTrigger` an instant is a slot of the clock. The tenant and the gate answer
  anything at each read; the tenant check and the reservation, and the look-back and
  the dispatch it allows, are one step each. A loop and a fire end on their own; a
  process that stops is both, one after the other. The engine re-runs a body after a
  crash and, as a start under the same id does, beside a live one. Markers are never
  cleaned up.

## 4. Runs and bounds

| Run | Instance | Distinct states | What it shows |
|---|---|---|---|
| `crashes` | 2 executions, 2 dispatches, crashes, poll, fair | 200,937 | effects in one execution only; one transcript; refinement of `RunLedger`; accepted jobs end, cancelled runs end |
| `faults` | 2 executions in 2 processes, every fault, symmetric, without the text of a run's end | 1.3 million | cancelled jobs never call, a completed run stays completed |
| `membership` | 2 accounts, 1 invite, 2 concurrent requests | 337,844 | an invite grants once, a reactivated row gets the granted role |
| `last_owner` | the same | refuted | see section 7 |
| `keys` | 2 requests, 2 bodies, 2 processes with one slot each, every fault, symmetric | 3.4 million | the six properties of `IdempotentRuns` below |
| `executed_twice` | the same, deadlines only | refuted | see section 7 |
| `fence_ops` | 2 attempts of one quiesce, 1 resume | 3.0 million | the lease has one holder; stale attempts do not write; the barrier fences; privileges are traced; refinement of `SourceFence` |
| `runtime_fence` | 1 process with its queue, 3 fences, 1 admitted piece of work, 1 job, the row left either way, fair | 362,122 | a reported drain has happened, of jobs where the queue is held; a process follows the fence |
| `apply` | 2 attempts under one key (an observed and a transaction step), another operation (a blind step), a resolution, 3 grants, symmetric | 2.8 million | transactions are exact, receipts are true, steps start fresh |
| `events` | 2 writers of three events, pages of one row, 1 broken connection, any cap, sweeps, fair | 386,000 | no gap, a true live frame, refinement of `EventFeed`, events arrive |
| `workflow` | 3 nodes (an agent, a node that halts, a repairable one that needs the agent), 2 recoveries, one of them beside a live pass, fair | 1.3 million | a tool fires once, verdicts are final for a pass alone, jobs end; for one pass at a time cuts surface, skips are explained, nodes are decided |
| `cron` | 1 process, 3 slots, look-back 1, 2 fires at once on the first slot, both modes and both actions, fair | 117,670 | one dispatch, reservations and headers accounted for, missed slots made up, the loop keeps up |

Why these bounds are enough. Every conflict in `DurableRun` is between two
executions, or an execution and the route; a takeover of a takeover needs three,
and is proved for any number (section 6). `Exec` and `MaxAttempts` agree, so no
execution is left over and every dispatch the cap allows happens. `faults` views states
without `endSteps`, `phase` and `routePhase` (`NothingButPhases`): no guard reads them and
neither property of the run does (with them it has 4.9 million states). With two accounts
an organization has zero, one or two owners, the three cases `owners.length <= 1`
tells apart; one invite is redeemed by both slots at once and again later. In
`keys` two requests of one key give every conflict of a winner with a loser, a
retry or a second body; a third adds only another retry, and the proofs hold for
any number. One slot is taken and refused; two processes tell a signal that reaches
a run from one that does not, and a crash that takes the other request along from
one that does not.

In `fence_ops` the two attempts share an operation id, so an attempt loses its lease
to its own retry as well as to a resume, and each of the three may be the last; the
proofs take any number. In `runtime_fence` one process meets every move of the fence,
with a third fence so that the observation of the first can be late by two, and it finds
the queue's row whichever way an earlier life left it. What a second process adds is
that it writes that row (`MCProcesses`, too large for a run): it can only release
the queue of the first (which ends `held`), or turn off a row the first left on; a row
that is off in an open process and on in a draining one are met with one process as well
(`RuntimeInit`, `ResumeFails`, `SyncFails`). Any number of processes, fences, work and jobs
is proved. The plan of `apply` has each kind of
step that reconciliation must tell apart; three grants let an operation be
interrupted, taken over and continued. A page of one row makes every window end
between two events, so cursor, topic filter and floor all matter; one broken
connection besides any number of caps gives a loss in every state of the loop. The
three nodes of `workflow` are an agent whose failure is dropped, a node that halts the run
and does not depend on it, and one that needs the agent; of its two recoveries one may run
beside a live pass, and with two passes every pair of their steps is interleaved.
`MCLongSteps`, with one pass at a time (`MaxBeside = 0`), four nodes, every policy and
three recoveries, has 420,520 states and no violation either; the proofs take any workflow.
In `cron`, with three slots and
a look-back of one, a make-up is in time, just in time and too late;
fires share nothing between slots, so the fires of one slot are looked at. Two loops of
one trigger (`MCTwo`) are section 7's subject.

Symmetry is used in safety runs only, between executions in like processes, request
slots, the requests, bodies and processes of `keys`, and the two attempts under one
key of `apply`. Deadlock is checked where the system always has something to do:
`membership`, where a request can always arrive, and `runtime_fence`. Elsewhere a run that ended, an answered request
or a spent bound stops the model.

What the properties of `keys` say together, with `Ownership`, `JobKeepsKey` and
`AnswerKeepsKey`, which are proved and not run: the winner owns its row
(`Ownership`), a row goes only with its own request (`ReleasesOwn`), so two runs
work, or have side effects, only if one was let go while it was at work
(`OneRunAtATime`, `OneEffectRun`); a job and a given answer keep the key
(`JobKeepsKey`, `AnswerKeepsKey`), everything else that ends frees it
(`FreedForRetry`); a response is about the right run (`AnswersMatch`); and the
slots count runs, not requests (`SlotsBoundRuns`). A run is let go (`letGo`) when
its handler reads no taint marker while it can still write one: its deadline
passed while it executes, or its backend threw with a tool call admitted and not
yet marked. Where neither happens `letGo` stays empty.

## 5. Fairness

`FairSpec` assumes: a live execution takes its next step (promises and timers of
a live process are served; a backend call answers, throws or meets
`RAYSPEC_AGENT_RUN_MAX_MS`; a tool handler ends, its timeout bounds it); the
enqueue and a route that began its work go on; a lease nobody renews expires; the
engine dispatches a pending job nobody executes and moves a job past its cap to
the dead letter. Nothing is assumed of cancel requests, crashes, faults, lost
leases or a dispatch beside a live execution. The `crashes` run sets `CancelPoll`,
but `PollCancelled` carries no fairness of its own: the end is owed by the bound
or the answer of the call, the poll only may come first.

- `RuntimeFence`: the poll is rescheduled after every observation, failed or not, and
  what it started goes on (weak); a statement that is retried for ever succeeds
  in the end (strong, for the resumed queue, the reopening and the heartbeat); admitted
  work and jobs end, their bounds are elsewhere; the dispatch loop reads its row, and the
  settle window passes. Nothing is assumed of boots, quiesces, resumes or of a failed
  pause, which the code does not repeat: `ProcessesFollow` asks for a drain only where
  the row of the queue stays off.
- `EventStream`: the server runs its loop, the poll timer fires, bytes arrive, the
  client reconnects (weak). `ReadPage` is strongly fair because the cap, minutes
  long, does not fall between the same two reads on every connection. Wakes, sweeps
  and appends have no fairness: an event arrives without any wake.
- `WorkflowRun`: the engine invokes a queued job; while there are invocations one of them
  goes on, and when one has ended the other does. Crashes and recoveries have none;
  `JobEnds` holds because recoveries count.
- `CronTrigger`: a deployment is started again (weak), a database asked again and
  again answers in the end (strong, for the watermark and the start). Nothing is
  assumed of fires, of the engine or of processes that end; so `MissedSlotsAreMadeUp`
  is about a slot's workflow being started, not about its end.

## 6. Proofs

Every safety invariant and every action property of the passing runs is a theorem
here, for every value of the constants; so are the refinements of `RunLedger`,
`SourceFence` and `EventFeed`. What is assumed are the named `ASSUME`s of the modules, which say
what kind of thing a constant is, and where a theorem about `DurableRun` needs it, what
may go wrong (the table below); its run sets `Faults` accordingly. Each invariant is
preserved lemma by lemma, one per action or group of actions that touch the same variables.

`OrgMembershipProofs` proves, for every finite set of accounts and any invites
and request slots: `TypeCorrect`; the two properties of the `membership` run,
`Reactivation` and `OneMembershipPerInvite`, the second by `RedeemedOnce` (whoever is
about to attach redeemed a stamped invite that has attached nobody, and is alone in
that); and `SerialLastOwner`, that with a single request slot the
organization always has an owner. The last one needs the invariant `KeepsAnother`:
a request about to take an owner away has counted another one, who is still there
because no other request runs. That is exactly what `last_owner` breaks with two.

The theorems about `DurableRun` hold for every set of executions, every
deployment and every cap (`DurableRunAssumption` is all they assume of the
constants), and for any number of crashes. They come in three layers:

| Assumption on `Faults` | Invariant | Theorems |
|---|---|---|
| none | `TypeOK`, `Order` | `TypeCorrect`, `OrderAlways`, `CancelledStaysUncalled`, `OutputAtMostOnce`, `CompletedStays` |
| no lapse of a lease under a live execution | `Mutex`, `Cancelling`, `TranscriptCleared` | `NoTwoExecutions`, `RegistryAlways`, `TranscriptAlways` |
| no lapse, and the database answers | `Effects`, `Ends` | `InductiveAlways`, `EffectsOfOneExecution`, `EndedIsNotCalled`, `LedgerImplemented` |

- `Order` says that every actor writes before it moves on: the header before the
  job, the job before a dispatch, the marker before the dispatch it bars. From it
  `LedgerStep` shows that every step is a step of `RunLedger` or leaves the ledger
  alone, except that the execution behind an effect is not yet bound.
- `Mutex` says that who is at work by its program counter is the holder in the
  database, and that a waiting execution which read the lease as expired read it
  of a holder that is not at work any more. A lapse breaks it, nothing else does:
  reads and writes may fail in this layer. `NoTwoExecutions` and `InductiveAlways` take
  the place of a run over three executions.
- `Effects` carries the takeover. A tool call left behind by an execution has
  marked the run, or belongs to a run whose end is recorded; so whoever reads no
  taint and then no end has nobody behind it. `Ends` says a run ends before its
  lease is given up. Both need readable headers and a recorded end: with failing
  reads `OneEffectExecution` does not hold (section 7).
  A record of an end that outlasts its budget is a write that fails for this purpose: an
  execution can give up its lease before its end is recorded, so this layer excludes it
  with `dbWrite`, and the two layers above do not.
- The refinement takes `LedgerStep` and binds the effect by `Effects`.

`IdempotentRunsProofs` proves every property of the `keys` run, and four more, for any number of
requests, bodies and processes, any `MaxHeld` and any faults, from
`IdempotentRunsAssumption` alone. Three invariants carry it:

- `KeyInv` is `Ownership` with `Life`, which ties where a handler is to what its
  run, its tool call and its job can be doing. `OneRunAtATime` follows because the
  row names one run; `OneEffectRun` because an effect marks its run first;
  `ReleasesOwn` because only a winner releases.
- `AnswerInv` adds what a handler knows when it answers: `Headers`, that a
  settled result is in the header, and `Answers`, that the run a loser looks at
  has its body.
- `Slots`: an executing run of a process has one of its slots, and the slots in
  use are at most `MaxHeld`; two lemmas on cardinality do the counting.

`FenceProofs` has three parts. The first proves every property of the `fence_ops` run,
for any set of attempts, however they share operation ids, from `LeaseAssumption` and
`QuiescesAssumption` alone. `GrantsOrdered` (grants are distinct and not ahead of the epoch)
gives `OneHolder`; with one holder, `HolderKnows` says what an attempt between two
transactions knows of the fence and the record, because nobody else changes them while
it holds; `HolderTraces` and `ResumeTraces` say what would be left behind if it
stopped now. The last is where a resume that restores the system database before it
releases the fence is needed. The refinement then takes one step per action.

The second part proves `ReportMeansDrained` for any number of processes, fences,
admitted work and jobs. Its invariant is about epochs: a process that is open, or on its way
to open, has not seen the epoch of a fence that is held (`OpenIsOld`), and a row that
says `fenced` at that epoch was written by a process without admitted work
(`FencedIsQuiet`). Jobs are no matter of epochs: `QueueHolds` follows a queue from its
pause to the row, from the row to the loop and, past the settle window, to the last job,
so that a process that calls itself `fenced` over a held queue has none. What ends `held`
is named in its definition; a pause that threw never begins it.

The third part is about `FencedRuntime`. Both invariants carry over, since a step of the
composition is a step of one side that the other only sees in the fence; `Link` joins
them: a complete drain that an attempt remembers was reported at the epoch it asked for
(`DrainsAreRemembered`), and the attempt that holds the lease past its drain works on
the fence that is held and has no barrier without such a report (`HolderDrained`,
`BarrierReported`). So a quiesce that answered `succeeded` is right about the work in
flight, jobs where the queue is held, as long as its fence is held (`SuccessIsDrained`),
although the drain is read outside the guard and another attempt may have taken the
lease meanwhile; and the privileges are not revoked from under admitted work or from
under the jobs of a held queue (`BarrierIsDrained`). A process whose pause failed is not
covered as to its jobs: the barrier can cut them off. "Admitted work" is that of the
processes the drain counted: a process whose heartbeat was stale then, or that was in
its shutdown, is left out, as in `ReportMeansDrained`. The product of the two state
spaces is too large for a run: each side is run by itself, and the composition is proved
only.

`ApplyOperationProofs` proves the three properties of the `apply` run for any attempts
and operations, any plans of the four kinds of steps, and any crash, expiry, lost
acknowledgement or resolution. With one holder (`GrantsOrdered`), `HolderInformed` says
what it knows at each point: `Sees`, of the receipts (nothing is open but what it reports
or runs, and the freshness it checked still stands), and `Knows`, of the effects. `Exact`
ties a transaction's effect to a finish receipt that was ever written, whatever was
written over it. An attempt that lost the lease may still take effect outside the
database; those effects are in `late`, and `Certain` leaves exactly them and the
commits nobody heard of out.

`WorkflowRunProofs` proves every safety property of the `workflow` run for
workflows of any length with any dependencies, policies, attempts and number of
recoveries, after a crash or beside a live pass, from two invariants. `Inv` has a part that holds whatever two passes do: the
types, and `MarkedFirst`, which ties the marker to the tool and says of an agent node that no
two passes executed at once that at most one execution of it has not fired yet, and that
it finds no earlier one. `FiresOnceAlways` needs no more. `OwnRows` holds of an
invocation that has been alone since it was dequeued, whatever happened before it: its copy
agrees with the rows and the header is its own, which gives `VerdictsKept`. `InOrder` and
`Behind` (what was begun, and what lies behind a pass) hold while one pass ran at a time.
So does `Traced`, which `Alone` opens: it is what a
pass that resumes reads: `StopFlag` (a stopped pass has a failure behind it, one that is
not stopped only settled or paused nodes), `CutInOrder` (a node that was left `running` has
only settled nodes before it, or a paused one), `CutTracked` (an execution that was cut
carries the marker, and its node waits to be quarantined or is) and `SkipsTraced` (the
causes of the skips stay in the rows). `CutExecutionsAlwaysSurface` and
`SkipsAlwaysExplained` follow. The exclusions (`contested`, `OnePassAtATime`, `paused`,
`unguarded`) are the places where the induction breaks without them, and where TLC finds
the counterexamples of section 7.

`CronTriggerProofs` proves the three safety properties for any number of processes,
slots and fires. The marker's primary key gives one fire between a reservation and the end
of its dispatch (`OneHolderOfASlot`), and `HoldersInOrder` says what the slot looks
like at each of its steps.

`EventStreamProofs` proves `GapFree`, `LiveMeansCaughtUp` and the refinement of `EventFeed` for any transactions and
batches, any filter, any page limit and any number of broken connections. The lock on the counter's row gives
`LogNumbered`: the committed log is numbered `1..last`, each number once. From there an
event is followed to the client. `PageComplete`: a page has every wanted event between
the cursor and the number it looked at, but for those under its floor. `WireComplete`:
with the frames up to one that gives a position, the client has, or was told it
lost, everything up to that position (`AccountedTo`), for every prefix of the wire, as
a connection may break behind any frame. `ClientComplete`: the same of the id the
client holds, from which it resumes; so completeness survives every reconnect. A live
frame comes behind a position at or past the backlog's head.

The refinement needs a second invariant, `Ordered` (`PositionsGrow`): the positions of the
frames still to be read grow and lie above the id the client holds, a data frame carries
a wanted event of the log, and what the client got lies at or below the id it holds. The
log without gaps makes the feed's sequence (`FeedLogOf`), a commit extends it
(`CommitPublishes`), and a frame the client reads moves its position over nothing it
wants and was not told of (`NothingLeftOut`); a truncated frame is the telling. Every other step, a broken connection
included, is a stutter of the feed.

What stays with TLC, for every run on its instance: the liveness properties
(`AcceptedJobEnds`, `CancelledRunEnds`, `ProcessesFollow`, `EventsArrive`, `JobEnds`,
`MissedSlotsAreMadeUp`, `LoopKeepsUp`), which need fairness and ENABLED, which the installed
provers do not handle.

## 7. Where the code and its own statements disagree

Two runs are refutations:

- `last_owner`: counting owners inside a READ COMMITTED transaction does not
  exclude a concurrent demotion (`org-store.ts:506-507` says it does). With one
  request at a time the promise holds: `SerialLastOwner` proves it.
- `executed_twice`: the deadline of a held request ends the request, not the run
  (`runs.ts:1307`), and the throw releases the key of a run that is not tainted yet
  (`runs.ts:494`, `:434`). A same-key request then executes the agent beside it,
  although `docs/spec-reference.md:965-967` says that a request arriving "while
  the first is still executing" never does. Both may fire a non-idempotent tool.

The others are behaviours of the modules that TLC exhibits on the named property and
that no run of the project repeats; for each, the modules' runs check what
does hold. Put the property into the configuration to see the trace:

- `NoContradictoryStep` (`DurableRun`, `NoFaults`): `run-core.ts:953` reads the
  cancellation marker and the completing write that follows does not look at it again. A
  cancel request in between ends the run as cancelled, journal step included, and the
  run completes over it, although `run-cancel.ts:676-677` promises no contradictory
  step.
- `PhaseTruthful` (`DurableRun`, `NoFaults`): the cancel route reads the header
  (`runs.ts:1191`) before it writes the marker. A run that starts and calls its backend
  in between is recorded as `before-call`, "nothing was sent" (`run-cancel.ts:109`).
- `QuarantinedRunEnds` (`DurableRun`, `CrashOnly`, fair): a tainted crashed run fails
  its job and no header write follows. Its header stays `running`, although the error says
  it "is made terminal"; so a same-key retry is not answered with "the terminal
  failure" either (`executor.ts:67`), because only a terminal header is replayed.
- `OneEffectExecution` under `ReadFault` (`DurableRun`): an unreadable header counts as
  "not ended" (`executor.ts:549-556`) on the ground that the taint check came first. A
  tool call that an ended execution left admitted may not have written its marker when
  that check was made: it fires, and so does the second execution's.
- `CancelledKeepsKey` (`IdempotentRuns`, no fault): a cancellation that arrives after
  the backend answered is recorded by `run-core.ts:953-958`, which still returns the
  backend's result. If that is a transient error the route releases the key, since it
  knows a cancelled run only by `RunCancelledError`; `runs.ts:489` says such a run "is
  never released".
- `OpenFenceCanWrite` (`FenceOperations`): `write-barrier.ts:6-8` says a revoke commits
  with the record of what it revoked. The privileges of two databases are revoked in
  transactions of their own, and the record is a third (`fence-operations.ts:375-427`,
  `:541-553`). A quiesce that dies in between leaves privileges nobody recorded; the
  resume that follows finds no barrier to undo and opens the fence over a role that
  cannot write. `LostPrivilegesAreTraced` says what is left to find: the open step.
- `ReportMeansQuiet` (`RuntimeFence`): `runtime-fence.ts:21-25` promises a fenced report
  only when every live process has reached `fenced`, and `:17` that everything that was
  running has finished then. It fails in several ways:
  - `close()` stops the fence, and removes the heartbeat, before it drains the worker
    (`composition-root.ts:3253-3261`): a process in its shutdown works while it is not
    counted.
  - `#enterDraining` sets epoch and phase before it pauses the producers (`:303-309`). When a
    pause throws, the poll swallows it (`:247-252`) and the next observation, at the same
    epoch, pauses nothing (`:286`): the queue goes on dispatching, and at an instant
    without a job (behind the settle window, if it was its own pause that threw) the
    process calls itself `fenced` (`:289-294`) and runs jobs afterwards. A process that never is
    without a job drains for ever, which is why `ProcessesFollow` asks for the row.
  - A pause that finds the queue in its `register()` writes nothing
    (`pausable-queue.ts:80`, the queue is set only when the registration returns), and the
    registration writes the concurrency chosen before. The other way around, a resume
    during `register()` leaves the row at 0 in a process that is open, although the queues
    are promised to dispatch again (`runtime-fence.ts:28-29`), until the next pause and
    resume or a registration.
  - The row is shared (`pausable-queue.ts:22-25`): a resume, or a registration, of another process that
    has not seen the newer fence yet turns it on for all. Conversely a process that dies
    leaves its pause in the row.
  - The settle window counts from before the write of the row, and from the first of two
    pauses (`pausable-queue.ts:78`): a loop that read the row ahead of a slow write, or of a
    second pause whose first write failed, may claim behind it.

  `ReportMeansDrained` says what is left: admitted work in any case, jobs as long as the
  queue is held, which each of these but the first ends or prevents.
- `AppliedMovesRevision` (`ApplyOperation`): "when any step ran, the environment revision
  increases" (`apply-operation.ts:34-35`); an apply that throws after a step ran releases
  with `failed` and no new revision (`:863-866`).
- `CutExecutionsAreNotDropped` (`WorkflowRun`): a node whose tool fired is quarantined
  "always", whatever its policy says (`engine.ts:390-393`, `:69-70`). When the reads
  that find this out throw, the throw becomes an ordinary failed attempt
  (`engine.ts:578-590`), and policy `drop` drops it.
- `EveryToolFiresOnce` (`WorkflowRun`): `workflow-executor.ts:276-278` calls journal resume
  and the node handlers' own guards "the real never-double-fire guarantees", and
  `agent-node.ts:46-59` says a re-run is quarantined, never a silent re-fire. A recovery beside a live pass reads the same empty
  sub-run: both passes find no marker, both call `runAgent`, both fire.
- `VerdictsAreFinalAlways` (`WorkflowRun`): "a completed node is never re-run"
  (`engine.ts:166`, `:21`; `workflow-executor.ts:20-21`). Of two passes beside each other the later one works from
  the rows it read before: it writes `running` over a completed row, calls the handler
  again (an agent node attaches, another relies on its own idempotency), and its `finalizeRun`, an
  UPDATE by key, replaces the header of a run that was settled. `OnePassAtATime` keeps the three
  properties of settled rows apart from this.
- `MissedSlotsAreMadeUp` with two loops (`MCTwo`, `MCNoFires` of `MCCronTrigger`):
  `scheduled-workflow.ts:20-22` promises the make-up of every later instant. The watermark is
  shared and only its height counts: a process that booted later, and owes less, moves
  it past a slot another process has not started yet; when that one adopts it, at its own next
  write (`:266`) or after a restart, nobody starts the slot.

Smaller ones without a property: a same-key request can be answered `202` with the id
of a run whose enqueue is refused afterwards, while `runs.ts:669` takes the job to
exist. `engine.ts:197-198` and `:534-537` call a dependency skip final because its
upstream never runs again; a paused upstream does.

## 8. Not modelled

Vendor adapters, the specification grammar, lint, bundles, OpenAPI and product
generation are functions over large documents without state. The OIDC provider
is a third-party library. The CLI, scripts and documentation only drive the rest.
Rate limits count over wall-clock windows. The supervisor and the deployment
state work on processes and files. These are by far the largest part of the
repository: its composition, boot and schema files hold no protocol of their own.

In the modelled parts: queue admission counts and the pause switch, start and
shutdown of the executor, the run event stream and its resume cursor, run reads,
several keys at once (a run admitted under another key is only a taken slot),
reservations left by a process that stopped (nothing reconciles them), idempotent
tools, cost accounting; `deleteUser`, which no
route calls and which looks at no owner count; creation and reservation of an
organization; the operator's provisioning invite.

Of the operations: the database-stopped-source form of the barrier, the refusals before
the lease, the recomputed plan with its digest, blockers and expiry, the schema lock,
import and cutover. Of the event stream: topic grammar and authorization, the writers'
admission gate, other tenants. Of workflows: data and templates, backoff, the executor's
queue. Of cron: crontab arithmetic, the registration of many triggers, cleanup of markers.
Of the producers: two queues with rows of their own, concurrencies other than none or some.

In properties, what the hazards' notes say: only the conversation items of an attempt are
told apart, not its events and journal steps; that a job is not dispatched once too often is
the guard of `Dispatch` alone; `CancelledRunEnds` excepts a route that dies, and the poll has no
fairness, so a cancellation that only the poll could deliver is not owed; `OneRunAtATime`
and `OneEffectRun` except runs that were let go, so the deadline of `runs.ts:494` shows in
`executed_twice` alone; a stale resume may reopen the system database, and no property
forbids it; `LostPrivilegesAreTraced` accepts any open step as a trace; a client without a
cursor that has only read a truncated frame is outside `LiveMeansCaughtUp`.

## 9. Plan

1. `Sessions`: rotation, grace window and reuse detection of refresh tokens
   (`auth-service.ts`, `identity-store.ts`); two refreshes of one secret both read it
   as unrotated.
2. Import and cutover over `SourceFence` and `OperationLease`: source and target never
   both write.
3. Two queues and two processes in `RuntimeFence`: a pause that fails for one of them, and
   an abstract specification of a shared queue row.
4. The supervisor and the deployment state: a complete version is active whatever
   crashes between two renames.
5. Runs on the present modules that would then be worth their cost: the two answers of
   concurrent adds (`activated`), a takeover under write faults alone, the
   refutations of `ReportMeansQuiet` and `EveryToolFiresOnce`; `letGo` refined into an abstract specification of a key, "one run until
   it is let go".
