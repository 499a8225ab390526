---- MODULE RuntimeFence ----
(***************************************************************************)
(* The source fence as the runtime processes keep it (runtime-fence.ts):   *)
(* every process polls the fence row, refuses new work while the fence is  *)
(* held, and tells quiesce how far it has drained through a heartbeat row. *)
(* The fence itself is SourceFence's, which FenceOperations implements.    *)
(*                                                                         *)
(* A process's observations are serialized (sync), but one observation is  *)
(* several steps: the row is read, producers are paused or resumed, and    *)
(* the heartbeat is written, each an await in which requests are admitted, *)
(* work ends and the fence moves on.                                       *)
(*                                                                         *)
(* A process does two kinds of work.  Mutations and ticks ask the gate,    *)
(* which closes with the phase.  Jobs come from a queue (PausableQueue):   *)
(* no gate stops them, only the worker concurrency in the queue's own row, *)
(* which all processes share and the dispatch loop reads ahead of claiming.*)
(* The agent and the workflow queue are two such producers; one stands for *)
(* both.                                                                   *)
(***************************************************************************)
EXTENDS SourceFence

CONSTANTS Processes,   \* the runtime processes of the environment
          MaxFences,   \* bound: how often the fence is taken
          MaxWork,     \* bound: admitted work in flight in one process
          MaxJobs      \* bound: jobs of the queue in flight in one process

ASSUME RuntimeFenceAssumption ==
    MaxFences \in Nat /\ MaxWork \in Nat /\ MaxJobs \in Nat

\* No observation in progress.
Nothing == [fence |-> "open", epoch |-> 0]

VARIABLES life,       \* how far each process has booted
          phase,      \* #phase
          seenEpoch,  \* #epoch
          at,         \* where the process's observation is
          observed,   \* what the observation in progress read
          work,       \* admitted mutations, fires and cleanups that have not ended
          row,        \* the process's row of runtime_control_processes, while it is fresh
          lapsed,     \* the process runs, but its row went stale
          dispatch,   \* the row of the queue: its worker concurrency is 0, or not
          queue,      \* each process's queue: not registered, being registered (at the
                      \* concurrency read before the await), or registered
          paused,     \* the processes with #paused
          settled,    \* those whose settle window since #pausedAt is over
          claiming,   \* those whose dispatch loop claims jobs, by what it last read of the row
          jobs,       \* #inFlight
          held,       \* history: the processes whose queue is held for the epoch they drain for
          reported,   \* the epoch at which quiesce last reported a complete drain
          missed      \* the processes that report did not count because their row was stale

syncVars == <<life, phase, seenEpoch, at, observed>>
rowVars == <<row, lapsed>>
queueVars == <<dispatch, queue, paused, settled, claiming, jobs, held>>
processVars == <<syncVars, work, rowVars, queueVars>>
reportVars == <<reported, missed>>
runtimeVars == <<fenceVars, processVars, reportVars>>

Phases == {"open", "draining", "fenced"}
NoRow == [phase |-> "none", epoch |-> 0]
Rows == [phase : Phases, epoch : Nat] \cup {NoRow}

RuntimeTypeOK ==
    /\ FenceTypeOK
    /\ life \in [Processes -> {"down", "announced", "loaded", "booting", "up", "stopping"}]
    /\ phase \in [Processes -> Phases]
    /\ seenEpoch \in [Processes -> Nat]
    /\ at \in [Processes -> {"rest", "observed", "pausing", "holding", "judging",
                             "resuming", "reopening", "beat"}]
    /\ observed \in [Processes -> [fence : {"open", "fenced"}, epoch : Nat]]
    /\ work \in [Processes -> Nat]
    /\ row \in [Processes -> Rows]
    /\ lapsed \in [Processes -> BOOLEAN]
    /\ dispatch \in {"on", "off"}
    /\ queue \in [Processes -> {"none", "registeringOn", "registeringOff", "registered"}]
    /\ paused \subseteq Processes /\ settled \subseteq Processes
    /\ claiming \subseteq Processes /\ held \subseteq Processes
    /\ jobs \in [Processes -> Nat]
    /\ reported \in Nat
    /\ missed \subseteq Processes

RuntimeInit ==
    /\ FenceInit
    /\ life = [p \in Processes |-> "down"]
    /\ phase = [p \in Processes |-> "open"]
    /\ seenEpoch = [p \in Processes |-> 0]
    /\ at = [p \in Processes |-> "rest"]
    /\ observed = [p \in Processes |-> Nothing]
    /\ work = [p \in Processes |-> 0]
    /\ row = [p \in Processes |-> NoRow]
    /\ lapsed = [p \in Processes |-> FALSE]
    /\ dispatch \in {"on", "off"}
    /\ queue = [p \in Processes |-> "none"]
    /\ paused = {} /\ settled = {} /\ claiming = {} /\ held = {}
    /\ jobs = [p \in Processes |-> 0]
    /\ reported = 0
    /\ missed = {}

Polls(p) == life[p] \in {"booting", "up"}

----
\* A quiesce takes the fence, a resume releases it.
QuiesceTakes ==
    /\ fenceEpoch < MaxFences
    /\ FenceTaken
    /\ UNCHANGED <<processVars, reportVars>>

ResumeReleases ==
    /\ FenceReleased
    /\ UNCHANGED <<processVars, reportVars>>

----
\* The queue of a process (pausable-queue.ts).

\* The row says 0, or the concurrency of the process that writes it: then no process's
\* queue is held any longer.
RowHolds == dispatch' = "off"
RowDispatches == dispatch' = "on" /\ held' = {}

\* register(), up to its await: the engine was launched, and the concurrency it will write
\* is chosen here.
BeginRegister(p) ==
    /\ life[p] = "booting" /\ queue[p] = "none"
    /\ queue' = [queue EXCEPT ![p] = IF p \in paused THEN "registeringOff" ELSE "registeringOn"]
    /\ UNCHANGED <<fenceVars, syncVars, work, rowVars, dispatch, paused, settled, claiming, jobs,
                   held, reportVars>>

Registered(p) ==
    /\ queue[p] \in {"registeringOn", "registeringOff"}
    /\ IF queue[p] = "registeringOn" THEN RowDispatches ELSE RowHolds /\ UNCHANGED held
    /\ queue' = [queue EXCEPT ![p] = "registered"]
    /\ UNCHANGED <<fenceVars, syncVars, work, rowVars, paused, settled, claiming, jobs, reportVars>>

\* The dispatch loop reads the row, sleeps, and claims with what it read.
LoopReads(p) ==
    /\ queue[p] = "registered"
    /\ claiming' = IF dispatch = "on" THEN claiming \cup {p} ELSE claiming \ {p}
    /\ UNCHANGED <<fenceVars, syncVars, work, rowVars, dispatch, queue, paused, settled, jobs,
                   held, reportVars>>

\* A job starts (track): in whatever phase the process is.
Claim(p) ==
    /\ p \in claiming /\ jobs[p] < MaxJobs
    /\ jobs' = [jobs EXCEPT ![p] = @ + 1]
    /\ UNCHANGED <<fenceVars, syncVars, work, rowVars, dispatch, queue, paused, settled, claiming,
                   held, reportVars>>

JobEnds(p) ==
    /\ jobs[p] > 0
    /\ jobs' = [jobs EXCEPT ![p] = @ - 1]
    /\ UNCHANGED <<fenceVars, syncVars, work, rowVars, dispatch, queue, paused, settled, claiming,
                   held, reportVars>>

\* settleMs have passed since the pause.  The window is sized for a loop that has read the
\* row again by then; a loop that has not (a slow write of the row, a lengthened interval)
\* is not held.
Settle(p) ==
    /\ p \in paused \ settled
    /\ settled' = settled \cup {p}
    /\ held' = IF p \in claiming THEN held \ {p} ELSE held
    /\ UNCHANGED <<fenceVars, syncVars, work, rowVars, dispatch, queue, paused, claiming, jobs,
                   reportVars>>

\* Mutant: a paused queue runs only the jobs in flight; nothing waits for the settle window.
RunningUnsettled(p) == work[p] > 0 \/ jobs[p] > 0

\* Some producer of the process is `still-running`.
Running(p) == work[p] > 0 \/ jobs[p] > 0 \/ p \in paused \ settled

----
\* load(), the heartbeat written before the fence is read: open, at an epoch no held
\* fence has.  A restarted process has a row of its own; the row of its previous life,
\* which could only keep quiesce waiting, is forgotten here.
Announce(p) ==
    /\ life[p] = "down"
    /\ life' = [life EXCEPT ![p] = "announced"]
    /\ row' = [row EXCEPT ![p] = [phase |-> "open", epoch |-> 0]]
    /\ UNCHANGED <<fenceVars, phase, seenEpoch, at, observed, work, lapsed, queueVars, reportVars>>

\* load(), the read: under a held fence the process starts draining, and its queue is paused
\* as it is attached, before it is registered.
LoadFence(p) ==
    /\ life[p] = "announced"
    /\ life' = [life EXCEPT ![p] = "loaded"]
    /\ phase' = [phase EXCEPT ![p] = IF fence = "fenced" THEN "draining" ELSE "open"]
    /\ seenEpoch' = [seenEpoch EXCEPT ![p] = fenceEpoch]
    /\ paused' = IF fence = "fenced" THEN paused \cup {p} ELSE paused
    /\ held' = IF fence = "fenced" THEN held \cup {p} ELSE held
    /\ UNCHANGED <<fenceVars, at, observed, work, rowVars, dispatch, queue, settled, claiming, jobs,
                   reportVars>>

\* The heartbeat a process writes of itself.
WriteRow(p) ==
    /\ row' = [row EXCEPT ![p] = [phase |-> phase[p], epoch |-> seenEpoch[p]]]
    /\ lapsed' = [lapsed EXCEPT ![p] = FALSE]

\* load(), the second heartbeat; the poll runs from here on, during the boot.
LoadBeat(p) ==
    /\ life[p] = "loaded"
    /\ life' = [life EXCEPT ![p] = "booting"]
    /\ WriteRow(p)
    /\ UNCHANGED <<fenceVars, phase, seenEpoch, at, observed, work, queueVars, reportVars>>

\* The boot ends.  Schedules fire, and jobs run, since the engine was launched.
Serve(p) ==
    /\ life[p] = "booting" /\ queue[p] = "registered"
    /\ life' = [life EXCEPT ![p] = "up"]
    /\ UNCHANGED <<fenceVars, phase, seenEpoch, at, observed, work, rowVars, queueVars, reportVars>>

----
\* #syncOnce(), the read.  A read that fails keeps the phase: no step.
Observe(p) ==
    /\ Polls(p) /\ at[p] = "rest"
    /\ observed' = [observed EXCEPT ![p] = [fence |-> fence, epoch |-> fenceEpoch]]
    /\ at' = [at EXCEPT ![p] = "observed"]
    /\ UNCHANGED <<fenceVars, life, phase, seenEpoch, work, rowVars, queueVars, reportVars>>

\* Mutant: a draining process ignores that the fence was released and taken again.
EnterDrainingOnce(p) ==
    /\ at[p] = "observed" /\ observed[p].fence = "fenced"
    /\ phase[p] = "open"
    /\ phase' = [phase EXCEPT ![p] = "draining"]
    /\ seenEpoch' = [seenEpoch EXCEPT ![p] = observed[p].epoch]
    /\ at' = [at EXCEPT ![p] = "pausing"]
    /\ observed' = [observed EXCEPT ![p] = Nothing]
    /\ held' = held \ {p}
    /\ UNCHANGED <<fenceVars, life, work, rowVars, dispatch, queue, paused, settled, claiming, jobs,
                   reportVars>>

\* The fence was observed held at an epoch this process is not draining for: the gates
\* close in the same step, then the producers are paused one by one.
EnterDraining(p) ==
    /\ at[p] = "observed" /\ observed[p].fence = "fenced"
    /\ phase[p] = "open" \/ observed[p].epoch # seenEpoch[p]
    /\ phase' = [phase EXCEPT ![p] = "draining"]
    /\ seenEpoch' = [seenEpoch EXCEPT ![p] = observed[p].epoch]
    /\ at' = [at EXCEPT ![p] = "pausing"]
    /\ observed' = [observed EXCEPT ![p] = Nothing]
    /\ held' = held \ {p}
    /\ UNCHANGED <<fenceVars, life, work, rowVars, dispatch, queue, paused, settled, claiming, jobs,
                   reportVars>>

\* The queue's pause() is called: the settle window starts, unless it is paused already.
CallPause(p) ==
    /\ at[p] = "pausing"
    /\ paused' = paused \cup {p}
    /\ at' = [at EXCEPT ![p] = "holding"]
    /\ UNCHANGED <<fenceVars, life, phase, seenEpoch, observed, work, rowVars, dispatch, queue,
                   settled, claiming, jobs, held, reportVars>>

\* The pause reaches the row, if the queue is registered.  It does not hold a queue that is
\* being registered with its concurrency, nor a loop that the settle window no longer covers.
PauseLands(p) ==
    /\ at[p] = "holding"
    /\ IF queue[p] = "registered" THEN RowHolds ELSE UNCHANGED dispatch
    /\ held' = IF queue[p] = "registeringOn" \/ p \in settled \cap claiming
               THEN held ELSE held \cup {p}
    /\ at' = [at EXCEPT ![p] = "judging"]
    /\ UNCHANGED <<fenceVars, life, phase, seenEpoch, observed, work, rowVars, queue, paused,
                   settled, claiming, jobs, reportVars>>

\* A draining process none of whose producers is still running is fenced.
JudgeDrain(p) ==
    phase' = [phase EXCEPT ![p] = IF @ = "draining" /\ ~Running(p) THEN "fenced" ELSE @]

\* Observed again at the same epoch, and nothing to stop: no pause is repeated, whether the
\* first one succeeded or threw.
StillFenced(p) ==
    /\ at[p] = "observed" /\ observed[p].fence = "fenced"
    /\ phase[p] # "open" /\ observed[p].epoch = seenEpoch[p]
    /\ JudgeDrain(p)
    /\ at' = [at EXCEPT ![p] = "beat"]
    /\ observed' = [observed EXCEPT ![p] = Nothing]
    /\ UNCHANGED <<fenceVars, life, seenEpoch, work, rowVars, queueVars, reportVars>>

\* Every producer is paused.
PausesEnd(p) ==
    /\ at[p] = "judging"
    /\ JudgeDrain(p)
    /\ at' = [at EXCEPT ![p] = "beat"]
    /\ UNCHANGED <<fenceVars, life, seenEpoch, observed, work, rowVars, queueVars, reportVars>>

\* The fence was observed open by a process that is not: producers first, gates last.
BeginReopen(p) ==
    /\ at[p] = "observed" /\ observed[p].fence = "open" /\ phase[p] # "open"
    /\ seenEpoch' = [seenEpoch EXCEPT ![p] = observed[p].epoch]
    /\ at' = [at EXCEPT ![p] = "resuming"]
    /\ observed' = [observed EXCEPT ![p] = Nothing]
    /\ UNCHANGED <<fenceVars, life, phase, work, rowVars, queueVars, reportVars>>

\* The queue's resume(): a registered one dispatches again, for every process.
ResumeQueue(p) ==
    /\ at[p] = "resuming"
    /\ paused' = paused \ {p}
    /\ settled' = settled \ {p}
    /\ IF queue[p] = "registered" THEN RowDispatches ELSE held' = held \ {p} /\ UNCHANGED dispatch
    /\ at' = [at EXCEPT ![p] = "reopening"]
    /\ UNCHANGED <<fenceVars, life, phase, seenEpoch, observed, work, rowVars, queue, claiming,
                   jobs, reportVars>>

Reopen(p) ==
    /\ at[p] = "reopening"
    /\ phase' = [phase EXCEPT ![p] = "open"]
    /\ at' = [at EXCEPT ![p] = "beat"]
    /\ UNCHANGED <<fenceVars, life, seenEpoch, observed, work, rowVars, queueVars, reportVars>>

StillOpen(p) ==
    /\ at[p] = "observed" /\ observed[p].fence = "open" /\ phase[p] = "open"
    /\ seenEpoch' = [seenEpoch EXCEPT ![p] = observed[p].epoch]
    /\ at' = [at EXCEPT ![p] = "beat"]
    /\ observed' = [observed EXCEPT ![p] = Nothing]
    /\ UNCHANGED <<fenceVars, life, phase, work, rowVars, queueVars, reportVars>>

\* The heartbeat that ends an observation.
Beat(p) ==
    /\ at[p] = "beat"
    /\ WriteRow(p)
    /\ at' = [at EXCEPT ![p] = "rest"]
    /\ UNCHANGED <<fenceVars, life, phase, seenEpoch, observed, work, queueVars, reportVars>>

\* A producer could not be paused or resumed, or the heartbeat could not be written: the
\* observation ends there and the poll swallows the error.  Epoch and phase are set by then.
SyncFails(p) ==
    /\ at[p] \in {"pausing", "holding", "judging", "resuming", "reopening", "beat"}
    /\ at' = [at EXCEPT ![p] = "rest"]
    /\ UNCHANGED <<fenceVars, life, phase, seenEpoch, observed, work, rowVars, queueVars,
                   reportVars>>

\* The write of resume() throws: the queue no longer counts as paused, and the row may not
\* dispatch.
ResumeFails(p) ==
    /\ at[p] = "resuming"
    /\ paused' = paused \ {p}
    /\ settled' = settled \ {p}
    /\ held' = held \ {p}
    /\ at' = [at EXCEPT ![p] = "rest"]
    /\ UNCHANGED <<fenceVars, life, phase, seenEpoch, observed, work, rowVars, dispatch, queue,
                   claiming, jobs, reportVars>>

----
\* A mutation, a scheduled fire or a cleanup asks the gate and is counted, in one step
\* of the event loop.  Jobs do not ask it (Claim).
Admit(p) ==
    /\ life[p] \in {"booting", "up", "stopping"} /\ phase[p] = "open"
    /\ work[p] < MaxWork
    /\ work' = [work EXCEPT ![p] = @ + 1]
    /\ UNCHANGED <<fenceVars, syncVars, rowVars, queueVars, reportVars>>

WorkEnds(p) ==
    /\ work[p] > 0
    /\ work' = [work EXCEPT ![p] = @ - 1]
    /\ UNCHANGED <<fenceVars, syncVars, rowVars, queueVars, reportVars>>

\* The process dies; its row stays until it is stale, the queue's row as it is.
Die(p) ==
    /\ life[p] # "down"
    /\ life' = [life EXCEPT ![p] = "down"]
    /\ phase' = [phase EXCEPT ![p] = "open"]
    /\ seenEpoch' = [seenEpoch EXCEPT ![p] = 0]
    /\ at' = [at EXCEPT ![p] = "rest"]
    /\ observed' = [observed EXCEPT ![p] = Nothing]
    /\ work' = [work EXCEPT ![p] = 0]
    /\ lapsed' = [lapsed EXCEPT ![p] = FALSE]
    /\ queue' = [queue EXCEPT ![p] = "none"]
    /\ paused' = paused \ {p}
    /\ settled' = settled \ {p}
    /\ claiming' = claiming \ {p}
    /\ jobs' = [jobs EXCEPT ![p] = 0]
    /\ held' = held \ {p}
    /\ UNCHANGED <<fenceVars, row, dispatch, reportVars>>

\* close(): the heartbeat goes first and the poll ends; then the worker drains, with
\* the gates as they were.
Stop(p) ==
    /\ Polls(p) /\ at[p] = "rest"
    /\ life' = [life EXCEPT ![p] = "stopping"]
    /\ row' = [row EXCEPT ![p] = NoRow]
    /\ lapsed' = [lapsed EXCEPT ![p] = FALSE]
    /\ UNCHANGED <<fenceVars, phase, seenEpoch, at, observed, work, queueVars, reportVars>>

\* The row is older than PROCESS_LIVE_WINDOW_MS: the process died, or it runs but did
\* not write for that long.
RowGoesStale(p) ==
    /\ row[p] # NoRow
    /\ row' = [row EXCEPT ![p] = NoRow]
    /\ lapsed' = [lapsed EXCEPT ![p] = life[p] # "down"]
    /\ UNCHANGED <<fenceVars, syncVars, work, queueVars, reportVars>>

----
\* aggregate(): a fresh row counts as drained only at the epoch of this quiesce.
Drained(p) == row[p].phase = "fenced" /\ row[p].epoch = fenceEpoch

\* waitForDrain() finds every live process drained.  A quiesce whose fence was already
\* released, or taken again, reports of an epoch no property speaks of.
Report ==
    /\ fence = "fenced"
    /\ \A p \in Processes : row[p] # NoRow => Drained(p)
    /\ reported' = fenceEpoch
    /\ missed' = {p \in Processes : lapsed[p]}
    /\ UNCHANGED <<fenceVars, processVars>>

Boot(p) ==
    \/ Announce(p) \/ LoadFence(p) \/ LoadBeat(p)
    \/ BeginRegister(p) \/ Registered(p)
    \/ Serve(p)

Sync(p) ==
    \/ Observe(p)
    \/ EnterDraining(p) \/ CallPause(p) \/ PauseLands(p) \/ PausesEnd(p)
    \/ StillFenced(p)
    \/ BeginReopen(p) \/ ResumeQueue(p) \/ Reopen(p)
    \/ StillOpen(p)
    \/ Beat(p)

QueueStep(p) == LoopReads(p) \/ Claim(p) \/ JobEnds(p) \/ Settle(p)

ProcessNext(p) ==
    \/ Boot(p) \/ Sync(p) \/ SyncFails(p) \/ ResumeFails(p)
    \/ Admit(p) \/ WorkEnds(p) \/ QueueStep(p)
    \/ Die(p) \/ Stop(p) \/ RowGoesStale(p)

RuntimeNext ==
    \/ QuiesceTakes \/ ResumeReleases \/ Report
    \/ \E p \in Processes : ProcessNext(p)

\* The poll is rescheduled after every observation, failed or not; a database that is
\* asked again and again answers in the end; admitted work and jobs end; the dispatch loop
\* reads the row on every poll, and time passes.
Fairness ==
    \A p \in Processes :
        /\ WF_runtimeVars(Sync(p))
        /\ SF_runtimeVars(ResumeQueue(p)) /\ SF_runtimeVars(Reopen(p)) /\ SF_runtimeVars(Beat(p))
        /\ WF_runtimeVars(WorkEnds(p)) /\ WF_runtimeVars(JobEnds(p))
        /\ WF_runtimeVars(LoopReads(p)) /\ WF_runtimeVars(Settle(p))

RuntimeSpec == RuntimeInit /\ [][RuntimeNext]_runtimeVars /\ Fairness

----
\* While the fence that quiesce reported drained is held, no process it counted has
\* admitted work in flight and none admits any: not one that was booting when the fence
\* was taken, not one that booted after the report, not one that was reopening for the
\* fence before (runtime-fence.ts:26-43, fence-operations.ts:287-301).  Nor does it run a
\* job, while its queue is held: every claim of a loop that read the row before the pause
\* was waited for (pausable-queue.ts:16-22).  A process whose heartbeat was stale, or that is
\* shutting down, is not one a quiesce counts.  A queue is not held whose pause threw or met
\* its registration, whose row another write turned on again, or whose loop outlived the
\* settle window: its process reports `fenced` all the same, and may run jobs.
ReportMeansDrained ==
    fence = "fenced" /\ reported = fenceEpoch =>
        \A p \in Processes \ missed : life[p] # "stopping" =>
            /\ work[p] = 0
            /\ Polls(p) => phase[p] # "open"
            /\ p \in held => jobs[p] = 0

\* runtime-fence.ts:21-25 says that quiesce reports the source fenced only when every
\* live process has reached `fenced`, that is, when everything it ran has finished.
ReportMeansQuiet ==
    fence = "fenced" /\ reported = fenceEpoch =>
        \A p \in Processes \ missed : work[p] = 0 /\ jobs[p] = 0

\* A fence that stays taken drains every process that keeps running while the queue's row
\* stays off, and the process then says so at that fence's epoch; a fence that stays open
\* reopens every one of them: no order of polls, failed heartbeats, failed resumes and
\* quiesces in a row leaves one behind (runtime-fence.ts:251-285).  A row that stays on, as a
\* pause that threw leaves it, may keep jobs coming and its process draining for good.
ProcessesFollow ==
    \A p \in Processes :
        /\ <>[](fence = "fenced" /\ life[p] = "up" /\ dispatch = "off") =>
               []<>(row[p] = [phase |-> "fenced", epoch |-> fenceEpoch])
        /\ <>[](fence = "open" /\ life[p] = "up") => <>[](phase[p] = "open")
====
