---- MODULE WorkflowRun ----
(***************************************************************************)
(* One durable workflow run: the engine job that carries it                *)
(* (DbosWorkflowExecutor), the journalled engine (DurableWorkflowEngine)   *)
(* and the agent node's guard against firing a tool twice.                 *)
(*                                                                         *)
(* A process may stop between any two steps; the engine's recovery then    *)
(* invokes the job again, possibly in a process whose document no longer   *)
(* declares the workflow, and the new pass resumes from the node rows. A   *)
(* process that boots recovers every pending job, so the job may also be   *)
(* invoked beside a pass that still runs, and nothing like a lease keeps   *)
(* the two apart: each works from the copy of the rows it read when it     *)
(* started. At most two invocations are live at once here, and they take   *)
(* turns: `pass` is the one that takes the next step, `aside` the other.   *)
(***************************************************************************)
EXTENDS Naturals, Sequences, FiniteSets

CONSTANTS Steps,         \* the workflow: [agent, policy, deps, attempts] by position
          MaxRecoveries, \* maxRecoveryAttempts
          MaxBeside      \* bound: the recoveries that may dispatch a pass beside a live one

Policies == {"fail", "drop", "quarantine", "repair"}

ASSUME WorkflowAssumption ==
    /\ MaxRecoveries \in Nat /\ MaxBeside \in 0..MaxRecoveries
    /\ Steps \in Seq([agent : BOOLEAN, policy : Policies, deps : SUBSET Nat, attempts : Nat \ {0}])
    /\ \A i \in DOMAIN Steps : Steps[i].deps \subseteq 1..(i - 1)

VARIABLES job,         \* the engine's workflow for this run id
          recoveries,  \* how often it was invoked again
          header,      \* the workflow_runs row
          nodes,       \* the workflow_node_states rows
          completed,   \* the agent nodes whose sub-run header says completed
          tainted,     \* the agent nodes whose sub-run has a run_taint marker
          pass,        \* the invocation of the job that takes the next step
          seen,        \* its priorNodes, and nodeStatuses for the steps behind it
          aside,       \* the pass and the copy of the invocation beside it
          fired,       \* history: executions of each node that fired a non-idempotent tool
          torn,        \* history: agent nodes that fired and were cut by a crash before their row
          unguarded,   \* history: agent nodes that ended without their guard's reads
          paused,      \* history: nodes that were once paused
          contested,   \* history: agent nodes that two passes executed at the same time
          overlap      \* history: whether a pass was dispatched beside a live one

jobVars == <<job, recoveries>>
journalVars == <<header, nodes>>
subrunVars == <<completed, tainted>>
passVars == <<pass, seen>>
historyVars == <<fired, torn, unguarded, paused>>
overlapVars == <<aside, contested, overlap>>
vars == <<jobVars, journalVars, subrunVars, passVars, historyVars, overlapVars>>

Positions == DOMAIN Steps
Agents == {i \in Positions : Steps[i].agent}

Failures == {"terminal_failure", "capability_unavailable", "retryable_failure"}
Settled == {"completed", "dropped", "skipped", "quarantined"}
NodeStatuses == {"none", "running", "paused"} \cup Settled \cup Failures
SkipReasons == {"", "workflow_already_stopped", "dependency_failure", "quarantined_upstream"}
RunStatuses == {"completed", "terminal_failure", "retryable_failure", "quarantined", "paused"}

NoHeader == [status |-> "none", resolveFailed |-> FALSE]
Header(status) == [status |-> status, resolveFailed |-> FALSE]
ResolveFailure == [status |-> "terminal_failure", resolveFailed |-> TRUE]

Node(status, reason) == [status |-> status, reason |-> reason]
Rows == [Positions -> [status : NodeStatuses, reason : SkipReasons]]
NoRows == [i \in Positions |-> Node("none", "")]

Idle == [at |-> "idle", pos |-> 1, stopped |-> FALSE, attempt |-> 0,
         fired |-> FALSE, outcome |-> "none"]
Passes == [at : {"idle", "resolve", "unresolved", "mark", "rethrow", "ensure", "load", "step",
                 "invoke", "guard", "agent", "fire", "ended", "record", "finalize", "return"},
           pos : 1..(Len(Steps) + 1), stopped : BOOLEAN, attempt : Nat, fired : BOOLEAN,
           outcome : NodeStatuses]

At(point) == [pass EXCEPT !.at = point]

\* The invocation beside the pass.
Other == aside[1]

TypeOK ==
    /\ job \in {"none", "queued", "running", "success", "error", "dead"}
    /\ recoveries \in 0..MaxRecoveries
    /\ header \in {Header(s) : s \in {"none", "running"} \cup RunStatuses} \cup {ResolveFailure}
    /\ nodes \in Rows /\ seen \in Rows
    /\ \A i \in Positions : nodes[i].reason # "" <=> nodes[i].status = "skipped"
    /\ completed \subseteq Agents /\ tainted \subseteq Agents
    /\ pass \in Passes /\ aside \in Passes \X Rows
    /\ job = "running" => pass.at # "idle" \/ Other.at # "idle"
    /\ job \in {"none", "queued"} => pass.at = "idle" /\ Other.at = "idle"
    /\ fired \in [Positions -> Nat]
    /\ torn \subseteq Agents /\ unguarded \subseteq Agents /\ paused \subseteq Positions
    /\ contested \subseteq Agents /\ overlap \in {"never", "now", "past"}

Init ==
    /\ job = "none" /\ recoveries = 0
    /\ header = NoHeader
    /\ nodes = NoRows
    /\ completed = {} /\ tainted = {}
    /\ pass = Idle /\ seen = NoRows /\ aside = <<Idle, NoRows>>
    /\ fired = [i \in Positions |-> 0]
    /\ torn = {} /\ unguarded = {} /\ paused = {} /\ contested = {} /\ overlap = "never"

----------------------------------------------------------------------------
\* The job: enqueued once per run id, invoked again after a crash.

\* enqueueWorkflowRun: starting an existing workflow id changes nothing.
Enqueue ==
    /\ job = "none"
    /\ job' = "queued"
    /\ UNCHANGED <<recoveries, journalVars, subrunVars, passVars, historyVars, overlapVars>>

Dequeue ==
    /\ job = "queued"
    /\ job' = "running" /\ pass' = [Idle EXCEPT !.at = "resolve"] /\ seen' = NoRows
    /\ overlap' = IF overlap = "now" THEN "past" ELSE overlap
    /\ UNCHANGED <<recoveries, journalVars, subrunVars, historyVars, aside, contested>>

\* A process boots and recovers the job beside its live invocation; past maxRecoveryAttempts the
\* job is dead-lettered, and the live invocation goes on.
Redispatch ==
    /\ job = "running" /\ pass.at # "idle" /\ Other.at = "idle"
    /\ \/ /\ recoveries < MaxBeside
          /\ recoveries' = recoveries + 1
          /\ aside' = <<[Idle EXCEPT !.at = "resolve"], NoRows>> /\ overlap' = "now"
          /\ UNCHANGED job
       \/ /\ recoveries = MaxRecoveries
          /\ job' = "dead"
          /\ UNCHANGED <<recoveries, aside, overlap>>
    /\ UNCHANGED <<journalVars, subrunVars, passVars, historyVars, contested>>

\* The other invocation takes the next step.
Switch ==
    /\ Other.at # "idle"
    /\ aside' = passVars /\ pass' = aside[1] /\ seen' = aside[2]
    /\ UNCHANGED <<jobVars, journalVars, subrunVars, historyVars, contested, overlap>>

\* The agent node a stop leaves `running` although its tool fired.
CutExecutions == {i \in Agents : pass.pos = i /\ nodes[i].status = "running" /\ fired[i] > 0}

\* Mutant: the recovery is not counted.
CrashUncounted ==
    /\ pass.at # "idle"
    /\ pass' = Idle /\ seen' = NoRows
    /\ job' = IF job = "running" /\ Other.at = "idle" THEN "queued" ELSE job
    /\ torn' = torn \cup CutExecutions
    /\ UNCHANGED <<recoveries, journalVars, subrunVars, fired, unguarded, paused, overlapVars>>

\* The process of the pass stops; unless another invocation goes on, the engine recovers the job
\* in some process, at most maxRecoveryAttempts times.
Crash ==
    /\ pass.at # "idle"
    /\ pass' = Idle /\ seen' = NoRows
    /\ IF job # "running" \/ Other.at # "idle" THEN UNCHANGED jobVars
       ELSE IF recoveries < MaxRecoveries THEN job' = "queued" /\ recoveries' = recoveries + 1
       ELSE job' = "dead" /\ UNCHANGED recoveries
    /\ torn' = torn \cup CutExecutions
    /\ UNCHANGED <<journalVars, subrunVars, fired, unguarded, paused, overlapVars>>

\* The step of the job ends, by returning or by throwing (retriesAllowed: false). What the engine
\* then makes of a job it holds for ended already is left open.
End(verdict) ==
    /\ job' \in IF job = "running" THEN {verdict} ELSE {job, verdict}
    /\ pass' = Idle /\ seen' = NoRows
    /\ UNCHANGED <<recoveries, subrunVars, historyVars, overlapVars>>

\* A statement of execute() outside the handlers throws: nothing catches it.
DatabaseFails ==
    /\ pass.at \in {"ensure", "load", "step", "record", "finalize", "return"}
    /\ End("error")
    /\ UNCHANGED journalVars

----------------------------------------------------------------------------
\* #runWorkflowJobBody and #journalResolveFailure.

\* The document of the process that runs the pass declares the workflow, or not.
Resolve ==
    /\ pass.at = "resolve"
    /\ \E point \in {"ensure", "unresolved"} : pass' = At(point)
    /\ UNCHANGED <<jobVars, journalVars, subrunVars, seen, historyVars, overlapVars>>

\* Mutant: any terminal failure counts as this path's own.
AnyFailedHeader == header = NoHeader \/ header.status = "terminal_failure"

\* The header this path may settle: one it creates, or one that carries its own mark.
OwnHeader == header \in {NoHeader, ResolveFailure}

\* ensureRun for a job whose resolver threw. The journal is best effort: it may fail.
EnsureFailedRun ==
    /\ pass.at = "unresolved"
    /\ \/ /\ OwnHeader
          /\ header' = IF header = NoHeader THEN Header("running") ELSE header
          /\ pass' = At("mark")
       \/ pass' = At("rethrow") /\ UNCHANGED header
    /\ UNCHANGED <<jobVars, nodes, subrunVars, historyVars, seen, overlapVars>>

MarkResolveFailure ==
    /\ pass.at = "mark"
    /\ pass' = At("rethrow")
    /\ header' \in {ResolveFailure, header}
    /\ UNCHANGED <<jobVars, nodes, subrunVars, historyVars, seen, overlapVars>>

Rethrow ==
    /\ pass.at = "rethrow"
    /\ End("error")
    /\ UNCHANGED journalVars

----------------------------------------------------------------------------
\* execute: single flight, resume, the loop over the steps, the verdict.

\* A run that is not `running` is returned as it is.
EnsureRun ==
    /\ pass.at = "ensure"
    /\ header' = IF header = NoHeader THEN Header("running") ELSE header
    /\ pass' = At(IF header'.status = "running" THEN "load" ELSE "return")
    /\ UNCHANGED <<jobVars, nodes, subrunVars, historyVars, seen, overlapVars>>

\* The rows are read once; from here on the pass decides by its copy.
LoadRows ==
    /\ pass.at = "load"
    /\ seen' = nodes
    /\ pass' = At("step")
    /\ UNCHANGED <<jobVars, journalVars, subrunVars, historyVars, overlapVars>>

\* Mutant: a halted run's skip is final.
NothingTransient(node) == FALSE

\* isTransientRunHaltSkip
TransientSkip(node) == node.reason = "workflow_already_stopped"

\* isSettledForResume
SettledForResume(node) == node.status \in Settled /\ ~TransientSkip(node)

\* Mutant: a dropped dependency satisfies its dependents.
SkipCausesUnlessDropped(i) ==
    {"dependency_failure" : d \in {e \in Steps[i].deps :
                                      seen[e].status \notin {"completed", "dropped"}}}

\* dependencySkipReason; the order in which a step lists its dependencies is left open.
SkipCauses(i) ==
    {IF seen[d].status = "quarantined" THEN "quarantined_upstream" ELSE "dependency_failure" :
        d \in {e \in Steps[i].deps : seen[e].status # "completed"}}

AtStep(i) == pass.at = "step" /\ pass.pos = i /\ i \in Positions

NextStep == pass' = [Idle EXCEPT !.at = "step", !.pos = pass.pos + 1, !.stopped = pass.stopped]

ReuseNode(i) ==
    /\ AtStep(i) /\ SettledForResume(seen[i])
    /\ NextStep
    /\ UNCHANGED <<jobVars, journalVars, subrunVars, historyVars, seen, overlapVars>>

SkipNode(i) ==
    /\ AtStep(i) /\ ~SettledForResume(seen[i])
    /\ \E reason \in IF pass.stopped THEN {"workflow_already_stopped"} ELSE SkipCauses(i) :
           /\ nodes' = [nodes EXCEPT ![i] = Node("skipped", reason)]
           /\ seen' = [seen EXCEPT ![i] = Node("skipped", reason)]
    /\ NextStep
    /\ UNCHANGED <<jobVars, header, subrunVars, historyVars, overlapVars>>

BeginNode(i) ==
    /\ AtStep(i) /\ ~SettledForResume(seen[i])
    /\ ~pass.stopped /\ SkipCauses(i) = {}
    /\ nodes' = [nodes EXCEPT ![i] = Node("running", "")]
    /\ pass' = [pass EXCEPT !.at = "invoke", !.attempt = 1]
    /\ UNCHANGED <<jobVars, header, subrunVars, historyVars, seen, overlapVars>>

\* Mutant: the node's own policy decides about a hazard too.
FailedNodeByPolicy(i, result) ==
    CASE Steps[i].policy = "drop"       -> {"dropped"}
      [] Steps[i].policy = "repair"     -> {"completed", "terminal_failure"}
      [] Steps[i].policy = "fail"       -> {"terminal_failure"}
      [] OTHER                          -> {"quarantined"}

\* #applyFailurePolicy and #applyRepair: what a node that failed becomes.
FailedNode(i, result) ==
    IF result = "agent_rerun_hazard" THEN {"quarantined"}
    ELSE CASE Steps[i].policy = "drop"       -> {"dropped"}
           [] Steps[i].policy = "quarantine" -> {"quarantined"}
           [] Steps[i].policy = "repair"     -> {"completed", "terminal_failure"}
           [] OTHER                          -> {result}

\* The retry loop of #runNode: a retryable failure is tried again while attempts remain.
HandlerReturns(i, result) ==
    IF result = "retryable_failure" /\ pass.attempt < Steps[i].attempts
    THEN pass' = [pass EXCEPT !.at = "invoke", !.attempt = @ + 1, !.fired = FALSE]
    ELSE \E outcome \in IF result \in {"completed", "paused"} THEN {result}
                        ELSE FailedNode(i, result) :
             pass' = [pass EXCEPT !.at = "record", !.outcome = outcome]

\* The registry does not know the node's operation: no failure policy applies.
NodeUnavailable(i) ==
    /\ pass.at = "invoke" /\ pass.pos = i /\ pass.attempt = 1
    /\ pass' = [pass EXCEPT !.at = "record", !.outcome = "capability_unavailable"]
    /\ unguarded' = unguarded \cup ({i} \cap Agents)
    /\ UNCHANGED <<jobVars, journalVars, subrunVars, fired, torn, paused, seen, overlapVars>>

\* A handler that guards itself (a capability or a store write), and what it may return.
PlainNode(i) ==
    /\ pass.at = "invoke" /\ pass.pos = i /\ i \notin Agents
    /\ \E result \in {"completed", "paused", "retryable_failure", "terminal_failure"} :
           HandlerReturns(i, result)
    /\ UNCHANGED <<jobVars, journalVars, subrunVars, historyVars, seen, overlapVars>>

\* #persistNode with the node's outcome; a failed outcome stops the run.
RecordNode(i) ==
    /\ pass.at = "record" /\ pass.pos = i
    /\ nodes' = [nodes EXCEPT ![i] = Node(pass.outcome, "")]
    /\ seen' = [seen EXCEPT ![i] = Node(pass.outcome, "")]
    /\ paused' = IF pass.outcome = "paused" THEN paused \cup {i} ELSE paused
    /\ pass' = [Idle EXCEPT !.at = "step", !.pos = i + 1, !.stopped = pass.outcome \in Failures]
    /\ UNCHANGED <<jobVars, header, subrunVars, fired, torn, unguarded, overlapVars>>

\* computeRunStatus
RunStatus ==
    LET Some(statuses) == \E i \in Positions : nodes[i].status \in statuses
    IN  IF Some({"terminal_failure", "capability_unavailable"}) THEN "terminal_failure"
        ELSE IF Some({"quarantined"}) THEN "quarantined"
        ELSE IF Some({"paused"}) THEN "paused"
        ELSE IF Some({"retryable_failure"}) THEN "retryable_failure"
        ELSE "completed"

\* The verdict is computed from the rows, read again; the copy is of no use any more ...
ComputeStatus ==
    /\ pass.at = "step" /\ pass.pos = Len(Steps) + 1
    /\ pass' = [pass EXCEPT !.at = "finalize", !.outcome = RunStatus]
    /\ seen' = NoRows
    /\ UNCHANGED <<jobVars, journalVars, subrunVars, historyVars, overlapVars>>

\* ... and written over whatever the header says.
FinalizeRun ==
    /\ pass.at = "finalize"
    /\ header' = Header(pass.outcome)
    /\ pass' = At("return")
    /\ UNCHANGED <<jobVars, nodes, subrunVars, historyVars, seen, overlapVars>>

Return ==
    /\ pass.at = "return"
    /\ End("success")
    /\ UNCHANGED journalVars

----------------------------------------------------------------------------
\* The agent node: its sub-run's header, its run_taint marker, and the run itself.

AtAgent(i, point) == pass.at = point /\ pass.pos = i /\ i \in Agents

\* resolve does not know the agent, or a read of the sub-run throws: both become the node's
\* terminal failure.
AgentGuardFails(i) ==
    /\ AtAgent(i, "invoke") \/ AtAgent(i, "guard")
    /\ HandlerReturns(i, "terminal_failure")
    /\ unguarded' = unguarded \cup {i}
    /\ UNCHANGED <<jobVars, journalVars, subrunVars, fired, torn, paused, seen, overlapVars>>

\* The sub-run's header is read first: a completed one is attached to ...
AttachOrGuard(i) ==
    /\ AtAgent(i, "invoke")
    /\ IF i \in completed THEN HandlerReturns(i, "completed") ELSE pass' = At("guard")
    /\ UNCHANGED <<jobVars, journalVars, subrunVars, historyVars, seen, overlapVars>>

\* Mutant: a tainted sub-run is run again.
MayRunTainted(i) == TRUE

\* ... and then its marker.
MayRun(i) == i \notin tainted

Quarantine(i) ==
    /\ AtAgent(i, "guard") /\ ~MayRun(i)
    /\ HandlerReturns(i, "agent_rerun_hazard")
    /\ UNCHANGED <<jobVars, journalVars, subrunVars, historyVars, seen, overlapVars>>

\* The other invocation is past its guard on the same node.
OtherRuns(i) == Other.at \in {"agent", "fire"} /\ Other.pos = i

StartAgent(i) ==
    /\ AtAgent(i, "guard") /\ MayRun(i)
    /\ pass' = At("agent")
    /\ contested' = IF OtherRuns(i) THEN contested \cup {i} ELSE contested
    /\ UNCHANGED <<jobVars, journalVars, subrunVars, historyVars, seen, aside, overlap>>

\* Dispatch marks the run before a non-idempotent tool (one call per execution is enough here).
MarkTaint(i) ==
    /\ AtAgent(i, "agent") /\ ~pass.fired
    /\ tainted' = tainted \cup {i}
    /\ pass' = At("fire")
    /\ UNCHANGED <<jobVars, journalVars, completed, historyVars, seen, overlapVars>>

FireTool(i) ==
    /\ AtAgent(i, "fire")
    /\ fired' = [fired EXCEPT ![i] = @ + 1]
    /\ pass' = [pass EXCEPT !.at = "agent", !.fired = TRUE]
    /\ UNCHANGED <<jobVars, journalVars, subrunVars, torn, unguarded, paused, seen, overlapVars>>

\* runAgent settles the sub-run's header as completed; the handler returns a step later.
CompleteSubRun(i) ==
    /\ AtAgent(i, "agent")
    /\ completed' = completed \cup {i}
    /\ pass' = At("ended")
    /\ UNCHANGED <<jobVars, journalVars, tainted, historyVars, seen, overlapVars>>

AgentCompletes(i) ==
    /\ AtAgent(i, "ended")
    /\ HandlerReturns(i, "completed")
    /\ UNCHANGED <<jobVars, journalVars, subrunVars, historyVars, seen, overlapVars>>

\* runAgent reports a failure, or throws, be it after the completing write.
AgentFails(i) ==
    /\ \/ /\ AtAgent(i, "agent")
          /\ \E result \in {"retryable_failure", "terminal_failure"} : HandlerReturns(i, result)
       \/ AtAgent(i, "ended") /\ HandlerReturns(i, "terminal_failure")
    /\ UNCHANGED <<jobVars, journalVars, subrunVars, historyVars, seen, overlapVars>>

----------------------------------------------------------------------------
JobStep == Enqueue \/ Dequeue \/ Redispatch \/ Switch \/ Crash \/ DatabaseFails

ResolveStep == Resolve \/ EnsureFailedRun \/ MarkResolveFailure \/ Rethrow

EngineStep ==
    \/ EnsureRun \/ LoadRows \/ ComputeStatus \/ FinalizeRun \/ Return
    \/ \E i \in Positions :
          ReuseNode(i) \/ SkipNode(i) \/ BeginNode(i) \/ NodeUnavailable(i) \/ PlainNode(i)
              \/ RecordNode(i)

AgentStep ==
    \E i \in Agents :
        \/ AgentGuardFails(i) \/ AttachOrGuard(i) \/ Quarantine(i) \/ StartAgent(i)
        \/ MarkTaint(i) \/ FireTool(i) \/ AgentFails(i) \/ CompleteSubRun(i)
        \/ AgentCompletes(i)

PassStep == ResolveStep \/ EngineStep \/ AgentStep

Next == JobStep \/ PassStep

Spec == Init /\ [][Next]_vars

\* A queued job is dequeued; and while there are invocations that their processes do not lose,
\* one of them goes on.
Fairness == WF_vars(Dequeue) /\ WF_vars(PassStep) /\ WF_vars(pass.at = "idle" /\ Switch)

FairSpec == Spec /\ Fairness

----------------------------------------------------------------------------
(***************************************************************************)
(* Properties.                                                             *)
(***************************************************************************)

\* No non-idempotent tool of an agent node fires in two executions of the node, whatever retries,
\* crashes and recoveries the run goes through (agent-node.ts: attach, quarantine or run, over a
\* marker that dispatch writes before the tool), a recovery beside a live pass included. What the
\* marker cannot part is two passes that both read it before either wrote it: the nodes that were
\* executed by both at once are excluded.
FiresOnce == \A i \in Agents \ contested : fired[i] <= 1

\* What workflow-executor.ts:276-277 and agent-node.ts:46-59 say without that exclusion.
EveryToolFiresOnce == \A i \in Agents : fired[i] <= 1

EngineSettled == header.status \in RunStatuses /\ ~header.resolveFailed

\* What follows about the rows of a settled run supposes that one pass ran at a time: two beside
\* each other write over each other's rows.
OnePassAtATime == overlap = "never"

\* A tool that fired in an execution a crash cut short is never hidden by the node's policy: the
\* settled run shows the node quarantined. Two things the code lets through are excluded: a node
\* that ended before its guard read the sub-run, and an earlier node that paused and then failed.
CutExecutionsSurface ==
    OnePassAtATime /\ EngineSettled =>
        \A i \in torn \ (completed \cup unguarded) :
            \/ nodes[i].status = "quarantined"
            \/ \E j \in paused : j < i

\* What the engine's comments say without those exclusions: such a node is never dropped.
CutExecutionsAreNotDropped ==
    EngineSettled => \A i \in torn \ completed : nodes[i].status # "dropped"

\* In a settled run every skip has a cause that still holds: a halted run has a failed node before
\* it, and a dependency skip a dependency that did not complete (or completed after a pause).
SkipsAreExplained ==
    OnePassAtATime /\ EngineSettled =>
        \A i \in Positions :
            LET unmet == {d \in Steps[i].deps : nodes[d].status # "completed" \/ d \in paused}
            IN  CASE nodes[i].reason = "workflow_already_stopped" ->
                         \E j \in 1..(i - 1) : nodes[j].status \in Failures
                  [] nodes[i].reason = "quarantined_upstream" ->
                         \E d \in Steps[i].deps : nodes[d].status = "quarantined"
                  [] nodes[i].reason = "dependency_failure" -> unmet # {}
                  [] OTHER -> TRUE

\* A settled run has a verdict on every node, and a node that was ever handed to its handler had
\* all its dependencies completed.
EveryNodeIsDecided ==
    OnePassAtATime /\ EngineSettled =>
        \A i \in Positions :
            /\ nodes[i].status \notin {"none", "running"}
            /\ nodes[i].status # "skipped" =>
                   \A d \in Steps[i].deps : nodes[d].status = "completed"

\* An invocation that has had the run to itself since it was dequeued replaces no verdict,
\* whatever passes beside each other did before it: neither it, nor its resolver that fails after
\* the engine settled the run, rewrites the header, and no completed node runs again. Of two
\* passes beside each other the later one may do both: each asks ensureRun and loadRun once.
VerdictsAreFinal ==
    [][overlap # "now" =>
         /\ header.status \in RunStatuses => header' = header
         /\ \A i \in Positions : nodes[i].status = "completed" => nodes'[i] = nodes[i]]_vars

\* What engine.ts:166 and workflow-executor.ts:20-21 say without that premise.
VerdictsAreFinalAlways ==
    [][/\ header.status \in RunStatuses => header' = header
       /\ \A i \in Positions : nodes[i].status = "completed" => nodes'[i] = nodes[i]]_vars

\* A job the engine reports as done has a settled header, and one that is queued ends: finished,
\* failed, or dead-lettered after maxRecoveryAttempts.
JobEnds == job = "queued" ~> \/ job \in {"error", "dead"}
                             \/ job = "success" /\ header.status \in RunStatuses

====
