----------------------------- MODULE CronTrigger -----------------------------
(***************************************************************************)
(* One cron trigger of a deployment.  Every process runs the schedule's    *)
(* loop (scheduled-workflow.ts), which starts one engine workflow for each *)
(* instant; the engine runs the workflow's body, again after a crash; the  *)
(* body, and an explicit fireNow, go through DbosCronScheduler's #fire     *)
(* (cron-scheduler.ts): confirm the tenant, reserve the instant, bound a   *)
(* make-up replay, dispatch a handler or enqueue an agent run.             *)
(*                                                                         *)
(* An instant of the crontab is a slot 1, 2, ..., due when the clock       *)
(* reaches it.  A step is one statement, or one call of the engine.        *)
(***************************************************************************)
EXTENDS Integers, FiniteSets

CONSTANTS
    Processes,  \* the processes of the deployment
    Fires,      \* how many fires may be at work at once, scheduled and on demand
    MaxSlot,    \* the last slot of the clock
    Fired,      \* the slots whose fires an instance looks at
    Lookback,   \* catchUpLookbackMs, in slots
    NoFire      \* a fire that is not at work

VARIABLES
    catchUp,    \* descriptor.catchUp: the make-up mode of the schedule
    action,     \* descriptor.action.kind
    clock,      \* the last slot that is due
    loop,       \* where the schedule's loop of a process is
    lastExec,   \* its lastExec
    watermark,  \* the persisted make-up watermark, 0 when there is none
    flow,       \* the engine's workflow of a slot
    marker,     \* the idempotency_keys row of a slot, and which kind of fire wrote it
    fire,       \* the fires at work
    header,     \* the header of the run of a slot
    job,        \* the slots whose run the engine has as a job
    dispatches, \* history: how often a slot was dispatched
    lapsed,     \* history: slots whose winning fire threw or died before it dispatched
    unprobed    \* history: slots whose header nobody could take back

vars == <<catchUp, action, clock, loop, lastExec, watermark, flow, marker, fire, header,
          job, dispatches, lapsed, unprobed>>

schedule == <<clock, loop, lastExec, watermark>>
setup == <<catchUp, action>>
runs == <<header, job>>
history == <<dispatches, lapsed, unprobed>>

Slots == 1 .. MaxSlot

Later(a, b) == IF a > b THEN a ELSE b

LoopStates == {"down", "reading", "waiting", "writing"}

FireSteps == {"tenant", "reserved", "enqueue", "probe", "withdraw"}

\* Where a fire is that has won the reserve and has not dispatched.
Winning == FireSteps \ {"tenant"}

FireSet == [pc : FireSteps, slot : Slots, demand : BOOLEAN, created : BOOLEAN]

ASSUME CronAssumption ==
    /\ MaxSlot \in Nat \ {0} /\ Fired \subseteq Slots
    /\ Lookback \in Nat
    /\ NoFire \notin FireSet

AtWork == {f \in Fires : fire[f] # NoFire}

Up(p) == loop[p] # "down"

\* The fires that hold slot s between the reserve and the end of the dispatch.
Holders(s) == {f \in AtWork : fire[f].slot = s /\ fire[f].pc \in Winning}

Init ==
    /\ catchUp \in BOOLEAN /\ action \in {"handler", "agent"}
    /\ clock = 0
    /\ loop = [p \in Processes |-> "down"]
    /\ lastExec = [p \in Processes |-> 0]
    /\ watermark = 0
    /\ flow = [s \in Slots |-> "none"]
    /\ marker = [s \in Slots |-> "none"]
    /\ fire = [f \in Fires |-> NoFire]
    /\ header = [s \in Slots |-> "none"]
    /\ job = {}
    /\ dispatches = [s \in Slots |-> 0]
    /\ lapsed = {} /\ unprobed = {}

----
(***************************************************************************)
(* The schedule's loop of one process.                                     *)
(***************************************************************************)

Tick ==
    /\ clock < MaxSlot
    /\ clock' = clock + 1
    /\ UNCHANGED <<setup, loop, lastExec, watermark, flow, marker, fire, runs, history>>

Boot(p) ==
    /\ ~Up(p)
    /\ loop' = [loop EXCEPT ![p] = IF catchUp THEN "reading" ELSE "waiting"]
    /\ lastExec' = [lastExec EXCEPT ![p] = clock]
    /\ UNCHANGED <<setup, clock, watermark, flow, marker, fire, runs, history>>

\* A watermark that cannot be read is read again: that turn of the loop changes nothing.
ReadWatermark(p) ==
    /\ loop[p] = "reading"
    /\ loop' = [loop EXCEPT ![p] = "waiting"]
    /\ lastExec' = [lastExec EXCEPT ![p] = IF watermark # 0 THEN watermark ELSE @]
    /\ UNCHANGED <<setup, clock, watermark, flow, marker, fire, runs, history>>

Due(p) == loop[p] = "waiting" /\ lastExec[p] < clock

\* The workflow of an instant is stored under its id: a second start finds it there.
Stored(s) == [flow EXCEPT ![s] = IF @ = "none" THEN "queued" ELSE @]

StartSlot(p) ==
    /\ Due(p)
    /\ flow' = Stored(lastExec[p] + 1)
    /\ loop' = [loop EXCEPT ![p] = "writing"]
    /\ UNCHANGED <<setup, clock, lastExec, watermark, marker, fire, runs, history>>

\* Mutant: a refused start goes on from now in both modes.
StartRefusedForNow(p) ==
    /\ Due(p)
    /\ \E stored \in BOOLEAN : flow' = IF stored THEN Stored(lastExec[p] + 1) ELSE flow
    /\ lastExec' = [lastExec EXCEPT ![p] = clock]
    /\ UNCHANGED <<setup, clock, loop, watermark, marker, fire, runs, history>>

\* Mutant: a refused start ends the loop of a process that goes on living.
StartRefusedEnds(p) ==
    /\ Due(p)
    /\ loop' = [loop EXCEPT ![p] = "ended"]
    /\ UNCHANGED <<setup, clock, lastExec, watermark, flow, marker, fire, runs, history>>

\* The engine's database refuses the start, or loses the answer of one it stored.
StartRefused(p) ==
    /\ Due(p)
    /\ \E stored \in BOOLEAN : flow' = IF stored THEN Stored(lastExec[p] + 1) ELSE flow
    /\ lastExec' = [lastExec EXCEPT ![p] = IF catchUp THEN @ ELSE clock]
    /\ UNCHANGED <<setup, clock, loop, watermark, marker, fire, runs, history>>

\* The upsert keeps the later instant and the loop continues from what is stored.
WriteWatermark(p) ==
    LET stored == Later(watermark, lastExec[p] + 1) IN
    /\ loop[p] = "writing"
    /\ loop' = [loop EXCEPT ![p] = "waiting"]
    /\ watermark' = stored
    /\ lastExec' = [lastExec EXCEPT ![p] = stored]
    /\ UNCHANGED <<setup, clock, flow, marker, fire, runs, history>>

\* A watermark that cannot be written is only reported.
WriteFails(p) ==
    /\ loop[p] = "writing"
    /\ loop' = [loop EXCEPT ![p] = "waiting"]
    /\ lastExec' = [lastExec EXCEPT ![p] = @ + 1]
    /\ UNCHANGED <<setup, clock, watermark, flow, marker, fire, runs, history>>

\* The process ends, or shuts its loop down.
StopLoop(p) ==
    /\ Up(p)
    /\ loop' = [loop EXCEPT ![p] = "down"]
    /\ lastExec' = [lastExec EXCEPT ![p] = 0]
    /\ UNCHANGED <<setup, clock, watermark, flow, marker, fire, runs, history>>

----
(***************************************************************************)
(* One fire.                                                               *)
(***************************************************************************)

Begins(f, s, demand) ==
    /\ fire[f] = NoFire
    /\ fire' = [fire EXCEPT ![f] = [pc |-> "tenant", slot |-> s,
                                    demand |-> demand, created |-> FALSE]]

\* The engine runs the body of a slot: from its queue, or again for a workflow left
\* running, also while the body it started before is still alive.
RunBody(f, s) ==
    /\ flow[s] \in {"queued", "running"}
    /\ Begins(f, s, FALSE)
    /\ flow' = [flow EXCEPT ![s] = "running"]
    /\ UNCHANGED <<setup, schedule, marker, runs, history>>

\* A body that finds the producer gate closed returns, and its slot counts as run.
PausedBody(s) ==
    /\ flow[s] \in {"queued", "running"}
    /\ flow' = [flow EXCEPT ![s] = "ended"]
    /\ UNCHANGED <<setup, schedule, marker, fire, runs, history>>

\* With the gate closed fireNow throws before it does anything.
FireNow(f, s) ==
    /\ s <= clock
    /\ Begins(f, s, TRUE)
    /\ UNCHANGED <<setup, schedule, flow, marker, runs, history>>

At(f, pc) == f \in AtWork /\ fire[f].pc = pc

GoOn(f, pc) == fire' = [fire EXCEPT ![f].pc = pc]

\* The fire returns or throws; the workflow of a scheduled one has its outcome then.
Ends(f) ==
    /\ fire' = [fire EXCEPT ![f] = NoFire]
    /\ flow' = IF fire[f].demand THEN flow ELSE [flow EXCEPT ![fire[f].slot] = "ended"]

\* The organization does not exist, or it cannot be asked for.
TenantAbsent(f) ==
    /\ At(f, "tenant")
    /\ Ends(f)
    /\ UNCHANGED <<setup, schedule, marker, runs, history>>

Kind(f) == IF fire[f].demand THEN "demand" ELSE "schedule"

\* Mutant: a reserve that conflicts goes on.
ReserveUnchecked(f) ==
    /\ At(f, "tenant")
    /\ marker' = [marker EXCEPT ![fire[f].slot] = Kind(f)]
    /\ GoOn(f, "reserved")
    /\ UNCHANGED <<setup, schedule, flow, runs, history>>

\* The organization exists, and INSERT .. ON CONFLICT DO NOTHING RETURNING: nothing else
\* depends on the first answer.
Reserve(f) ==
    /\ At(f, "tenant")
    /\ marker[fire[f].slot] = "none"
    /\ marker' = [marker EXCEPT ![fire[f].slot] = Kind(f)]
    /\ GoOn(f, "reserved")
    /\ UNCHANGED <<setup, schedule, flow, runs, history>>

LosesReserve(f) ==
    /\ At(f, "tenant")
    /\ marker[fire[f].slot] # "none"
    /\ Ends(f)
    /\ UNCHANGED <<setup, schedule, marker, runs, history>>

\* The statement throws, with its row written or not.
ReserveThrows(f) ==
    /\ At(f, "tenant")
    /\ \/ UNCHANGED <<marker, lapsed>>
       \/ /\ marker[fire[f].slot] = "none"
          /\ marker' = [marker EXCEPT ![fire[f].slot] = Kind(f)]
          /\ lapsed' = lapsed \union {fire[f].slot}
    /\ Ends(f)
    /\ UNCHANGED <<setup, schedule, runs, dispatches, unprobed>>

\* Mutant: the look-back also bounds an explicit fire.
TooOldForAnyone(f) == catchUp /\ clock - fire[f].slot > Lookback

\* The bounded look-back of a make-up replay.
TooOld(f) == ~fire[f].demand /\ catchUp /\ clock - fire[f].slot > Lookback

SkipOldSlot(f) ==
    /\ At(f, "reserved") /\ TooOld(f)
    /\ Ends(f)
    /\ UNCHANGED <<setup, schedule, marker, runs, history>>

Dispatching(f, kind) == At(f, "reserved") /\ ~TooOld(f) /\ action = kind

Dispatched(s) == dispatches' = [dispatches EXCEPT ![s] = @ + 1]

\* invokeTriggerHandler: the handler's own transaction commits, or it throws.
CallHandler(f) ==
    /\ Dispatching(f, "handler")
    /\ Dispatched(fire[f].slot)
    /\ Ends(f)
    /\ UNCHANGED <<setup, schedule, marker, runs, lapsed, unprobed>>

HandlerThrows(f) ==
    /\ Dispatching(f, "handler")
    /\ lapsed' = lapsed \union {fire[f].slot}
    /\ Ends(f)
    /\ UNCHANGED <<setup, schedule, marker, runs, dispatches, unprobed>>

\* The header is advisory: a failed write, or an agent without an identity, is logged.
InsertHeader(f) ==
    LET s == fire[f].slot IN
    /\ Dispatching(f, "agent")
    /\ \E written \in BOOLEAN :
        LET created == written /\ header[s] = "none" IN
        /\ header' = IF created THEN [header EXCEPT ![s] = "enqueued"] ELSE header
        /\ fire' = [fire EXCEPT ![f].pc = "enqueue", ![f].created = created]
    /\ UNCHANGED <<setup, schedule, flow, marker, job, history>>

\* The run id is the slot's, so a job the engine already has is not stored again.
Enqueue(f) ==
    /\ At(f, "enqueue")
    /\ job' = job \union {fire[f].slot}
    /\ Dispatched(fire[f].slot)
    /\ Ends(f)
    /\ UNCHANGED <<setup, schedule, marker, header, lapsed, unprobed>>

\* The enqueue throws, before or after the engine stored the job.
EnqueueThrows(f) ==
    LET s == fire[f].slot IN
    /\ At(f, "enqueue")
    /\ \/ /\ job' = job \union {s} /\ Dispatched(s)
          /\ UNCHANGED lapsed
       \/ /\ lapsed' = lapsed \union {s}
          /\ UNCHANGED <<job, dispatches>>
    /\ IF fire[f].created THEN GoOn(f, "probe") /\ UNCHANGED flow ELSE Ends(f)
    /\ UNCHANGED <<setup, schedule, marker, header, unprobed>>

\* Mutant: a throw is taken to mean that there is no job.
ProbeNothing(f) ==
    /\ At(f, "probe")
    /\ GoOn(f, "withdraw") /\ UNCHANGED flow
    /\ UNCHANGED <<setup, schedule, marker, runs, history>>

ProbeStatus(f) ==
    LET s == fire[f].slot IN
    /\ At(f, "probe")
    /\ IF s \in job THEN Ends(f) ELSE GoOn(f, "withdraw") /\ UNCHANGED flow
    /\ UNCHANGED <<setup, schedule, marker, runs, history>>

\* A status that cannot be read keeps the header; a delete that fails leaves it.
ProbeFails(f) ==
    /\ At(f, "probe") \/ At(f, "withdraw")
    /\ unprobed' = unprobed \union {fire[f].slot}
    /\ Ends(f)
    /\ UNCHANGED <<setup, schedule, marker, runs, dispatches, lapsed>>

WithdrawHeader(f) ==
    LET s == fire[f].slot IN
    /\ At(f, "withdraw")
    /\ header' = [header EXCEPT ![s] = IF @ = "enqueued" THEN "withdrawn" ELSE @]
    /\ Ends(f)
    /\ UNCHANGED <<setup, schedule, marker, job, history>>

\* The process of a fire ends.  The workflow of a scheduled one is left running.
FireDies(f) ==
    LET slots(pcs) == IF fire[f].pc \in pcs THEN {fire[f].slot} ELSE {} IN
    /\ f \in AtWork
    /\ fire' = [fire EXCEPT ![f] = NoFire]
    /\ lapsed' = lapsed \union slots(Winning)
    /\ unprobed' = unprobed \union slots({"enqueue", "probe", "withdraw"})
    /\ UNCHANGED <<setup, schedule, flow, marker, runs, dispatches>>

\* A dispatched job starts its run, which writes its header as running.
RunBegins(s) ==
    /\ s \in job /\ header[s] # "begun"
    /\ header' = [header EXCEPT ![s] = "begun"]
    /\ UNCHANGED <<setup, schedule, flow, marker, fire, job, history>>

----
LoopStep(p) ==
    \/ Boot(p) \/ ReadWatermark(p)
    \/ StartSlot(p) \/ StartRefused(p)
    \/ WriteWatermark(p) \/ WriteFails(p)
    \/ StopLoop(p)

FireStep(f) ==
    \/ TenantAbsent(f)
    \/ Reserve(f) \/ LosesReserve(f) \/ ReserveThrows(f)
    \/ SkipOldSlot(f)
    \/ CallHandler(f) \/ HandlerThrows(f)
    \/ InsertHeader(f) \/ Enqueue(f) \/ EnqueueThrows(f)
    \/ ProbeStatus(f) \/ ProbeFails(f) \/ WithdrawHeader(f)
    \/ FireDies(f)

Next ==
    \/ Tick
    \/ \E p \in Processes : LoopStep(p)
    \/ \E s \in Fired :
        \/ PausedBody(s)
        \/ \E f \in Fires : RunBody(f, s) \/ FireNow(f, s)
    \/ \E f \in Fires : FireStep(f)
    \/ \E s \in Slots : RunBegins(s)

Spec == Init /\ [][Next]_vars

\* A deployment is started again, and a database that is asked again and again answers in
\* the end.  Nothing is assumed of fires, of the engine or of processes that go on ending.
Fairness ==
    \A p \in Processes :
        /\ WF_vars(Boot(p)) /\ SF_vars(ReadWatermark(p))
        /\ SF_vars(StartSlot(p)) /\ SF_vars(WriteWatermark(p))

FairSpec == Spec /\ Fairness

----
TypeOK ==
    /\ catchUp \in BOOLEAN /\ action \in {"handler", "agent"}
    /\ clock \in 0 .. MaxSlot /\ watermark \in 0 .. MaxSlot
    /\ loop \in [Processes -> LoopStates]
    /\ lastExec \in [Processes -> 0 .. MaxSlot]
    /\ flow \in [Slots -> {"none", "queued", "running", "ended"}]
    /\ marker \in [Slots -> {"none", "schedule", "demand"}]
    /\ fire \in [Fires -> FireSet \union {NoFire}]
    /\ header \in [Slots -> {"none", "enqueued", "begun", "withdrawn"}]
    /\ job \in SUBSET Slots
    /\ dispatches \in [Slots -> Nat]
    /\ lapsed \in SUBSET Slots /\ unprobed \in SUBSET Slots

\* A slot is dispatched at most once, whoever fires it: two processes' schedules, a body
\* the engine runs again after a crash or beside a live one, a make-up replay, fireNow, in
\* any order and with any statement failing (cron-scheduler.ts:25-48).
DispatchedOnce == \A s \in Slots : dispatches[s] <= 1

\* A reserved slot that nobody is dispatching was dispatched, or lost by a fire that threw
\* or died, or it is a make-up replay of the schedule that was too old.  A closed gate, an
\* absent organization and an explicit fire never burn a slot (cron-scheduler.ts:642-739).
ReservedMeansDispatched ==
    \A s \in Slots :
        marker[s] # "none" /\ Holders(s) = {} =>
            \/ dispatches[s] = 1 \/ s \in lapsed
            \/ catchUp /\ marker[s] = "schedule" /\ clock - s > Lookback

\* The header of a job the engine has is never taken back, and a header announces only a
\* run that a job will start, unless the fire that wrote it died or could not ask the
\* engine (cron-scheduler.ts:768-841).
HeadersFollowJobs ==
    \A s \in Slots :
        /\ s \in job => header[s] # "withdrawn"
        /\ header[s] = "enqueued" /\ s \notin job => Holders(s) # {} \/ s \in unprobed

\* In the make-up mode one loop, restarted or not, gives every slot that came due after the
\* watermark was first written its workflow in the end, however often starts are refused,
\* watermarks are not written and processes end: scheduled-workflow.ts:20-22 says that the
\* mode retries the instant that failed and then makes up every later one.  Two loops of one
\* trigger may lose a slot: the second adopts the watermark the first moved past it.
MissedSlotsAreMadeUp ==
    \A s \in Slots :
        catchUp /\ 0 < watermark /\ watermark < s /\ s <= clock ~> flow[s] # "none"

\* In both modes the loop of a process that stays up comes up to the clock again: no
\* refused start ends it (scheduled-workflow.ts:4-9, 22).
LoopKeepsUp ==
    \A p \in Processes :
        <>[](loop[p] # "down") => []<>(loop[p] = "waiting" /\ lastExec[p] = clock)
==============================================================================
