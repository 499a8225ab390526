---- MODULE WorkflowRunProofs ----
(***************************************************************************)
(* Proofs about a workflow run of any length, any failure policies and any *)
(* number of recoveries, from two invariants.  Inv is about what passes    *)
(* do: a tool fires in one execution only unless two passes execute its    *)
(* node at once, a pass alone replaces no verdict, and as long as one pass *)
(* ran at a time a settled run has decided every node.  Traced is about    *)
(* what a later pass then reads in the rows: the stop, the pauses, the     *)
(* executions a crash cut short and the causes of skips; from it a cut     *)
(* execution surfaces in the settled run, and each skip has a cause that   *)
(* still holds.                                                            *)
(***************************************************************************)
EXTENDS WorkflowRun, TLAPS

\* TypeOK, one conjunct per group of variables, with what the points of a pass say of its fields.
JobTypes ==
    /\ job \in {"none", "queued", "running", "success", "error", "dead"}
    /\ recoveries \in 0..MaxRecoveries
    /\ header \in {Header(s) : s \in {"none", "running"} \cup RunStatuses} \cup {ResolveFailure}
    /\ completed \subseteq Agents /\ tainted \subseteq Agents
    /\ fired \in [Positions -> Nat]
    /\ torn \subseteq Agents /\ unguarded \subseteq Agents /\ paused \subseteq Positions
    /\ contested \subseteq Agents /\ overlap \in {"never", "now", "past"}

NodeTypes ==
    /\ nodes \in Rows /\ seen \in Rows
    /\ \A i \in Positions : nodes[i].reason # "" <=> nodes[i].status = "skipped"

Points == {"idle", "resolve", "unresolved", "mark", "rethrow", "ensure", "load", "step",
           "invoke", "guard", "agent", "fire", "ended", "record", "finalize", "return"}

PassSet == [at : Points, pos : 1..(Len(Steps) + 1), stopped : BOOLEAN, attempt : Nat,
            fired : BOOLEAN, outcome : NodeStatuses]

\* Where the engine works on a run, and where it is inside a node.
AtNode == {"invoke", "guard", "agent", "fire", "ended", "record"}
InEngine == AtNode \cup {"step"}

\* What a node that ran can become.
Outcomes == {"completed", "paused", "dropped", "quarantined"} \cup Failures

PassFacts(p) ==
    /\ p \in PassSet
    /\ p.at \in AtNode => p.pos \in Positions
    /\ p.at = "ended" => p.pos \in completed
    /\ p.at = "record" => p.outcome \in Outcomes
    /\ p.at = "finalize" => p.outcome \in RunStatuses

PassTypes ==
    /\ aside \in PassSet \X Rows
    /\ PassFacts(pass) /\ PassFacts(Other)
    /\ job = "running" => pass.at # "idle" \/ Other.at # "idle"
    /\ job \in {"none", "queued"} => pass.at = "idle" /\ Other.at = "idle"

\* The engine works on a header that is `running`, in a row that is `running`, and its copy of the
\* other rows is up to date; the resolver's failure is written over a header that is its own.
WritesOwnRows ==
    /\ pass.at \in InEngine \cup {"load", "finalize"} => header = Header("running")
    /\ pass.at = "mark" => header \in {Header("running"), ResolveFailure}
    /\ pass.at \in AtNode => nodes[pass.pos].status = "running"
    /\ pass.at \in InEngine =>
           \A j \in Positions : pass.at = "step" \/ j # pass.pos => seen[j] = nodes[j]

\* An invocation that was dequeued, and that no recovery was dispatched beside, is alone.
OwnRows == overlap # "now" => Other.at = "idle" /\ WritesOwnRows

\* A pass that is past its guard on a node, and one whose tool has not fired yet.
Runs(p, i) == p.at \in {"agent", "fire"} /\ p.pos = i

Unfired(p) ==
    /\ p.at = "fire" => p.pos \in tainted
    /\ p.pos \notin contested /\ (p.at = "fire" \/ (p.at = "agent" /\ ~p.fired)) =>
           fired[p.pos] = 0

\* A tool that fired was marked first, and an execution that has not fired finds no earlier one,
\* unless two passes executed the node at once.
MarkedFirst ==
    /\ \A i \in Agents : fired[i] > 0 => i \in tainted
    /\ \A i \in Agents \ contested : fired[i] <= 1 /\ ~(Runs(pass, i) /\ Runs(Other, i))
    /\ Unfired(pass) /\ Unfired(Other)

\* A node that was begun has all its dependencies completed.
BegunInOrder ==
    \A i \in Positions :
        nodes[i].status \notin {"none", "skipped"} =>
            \A d \in Steps[i].deps : nodes[d].status = "completed"

\* The nodes before the pass's position, and all nodes of a settled run, are decided.
DecidedBehind ==
    /\ pass.at \notin InEngine \cup {"finalize", "return"} => pass.pos = 1
    /\ pass.at \in InEngine =>
           \A j \in Positions : j < pass.pos => nodes[j].status \notin {"none", "running"}
    /\ pass.at = "finalize" \/ EngineSettled =>
           \A j \in Positions : nodes[j].status \notin {"none", "running"}

\* Both hold as long as one pass ran at a time.
InOrder == OnePassAtATime => BegunInOrder
Behind == OnePassAtATime => DecidedBehind

Inv ==
    /\ JobTypes /\ NodeTypes /\ PassTypes
    /\ OwnRows /\ MarkedFirst /\ InOrder /\ Behind

\* The positions are the naturals from 1 to the length, and dependencies are earlier positions.
LEMMA PositionsFacts ==
    /\ Len(Steps) \in Nat /\ Positions = 1..Len(Steps)
    /\ \A i \in Positions : Steps[i].policy \in Policies /\ Steps[i].attempts \in Nat
    /\ \A i \in Positions : Steps[i].deps \subseteq Positions
    /\ \A i \in Positions : i \in Nat
<1> DEFINE StepSet == [agent : BOOLEAN, policy : Policies, deps : SUBSET Nat,
                       attempts : Nat \ {0}]
<1>1. Steps \in Seq(StepSet)
    BY WorkflowAssumption DEF WorkflowAssumption
<1>2. \A s \in StepSet : s.policy \in Policies /\ s.attempts \in Nat
    OBVIOUS
<1> HIDE DEF StepSet
<1>3. Len(Steps) \in Nat /\ Positions = 1..Len(Steps)
    BY <1>1 DEF Positions
<1>4. \A i \in Positions : Steps[i] \in StepSet
    BY <1>1, <1>3
<1>5. \A i \in Positions : Steps[i].deps \subseteq 1..(i - 1)
    BY WorkflowAssumption DEF WorkflowAssumption, Positions
<1>6. \A i \in Positions : i \in Nat
    BY <1>3
<1>7. \A i \in Positions : Steps[i].deps \subseteq Positions
    <2> SUFFICES ASSUME NEW i \in Positions, NEW d \in Steps[i].deps PROVE d \in Positions
        OBVIOUS
    <2>1. d \in 1..(i - 1)
        BY <1>5
    <2> QED
        BY <2>1, <1>3
<1> QED
    BY <1>2, <1>3, <1>4, <1>6, <1>7

\* Moving a pass to another point.
LEMMA MovedPass ==
    ASSUME NEW p \in PassSet, NEW x \in Points
    PROVE  /\ [p EXCEPT !.at = x] \in PassSet
           /\ [p EXCEPT !.at = x].at = x
           /\ [p EXCEPT !.at = x].pos = p.pos
           /\ [p EXCEPT !.at = x].fired = p.fired
           /\ [p EXCEPT !.at = x].outcome = p.outcome
BY DEF PassSet

\* A pass that ended.
LEMMA IdlePass == Idle \in PassSet /\ Idle.at = "idle" /\ Idle.pos = 1
BY PositionsFacts DEF Idle, PassSet, Points, NodeStatuses

\* A pass that was just dispatched.
LEMMA ResolvingPass ==
    /\ [Idle EXCEPT !.at = "resolve"] \in PassSet
    /\ [Idle EXCEPT !.at = "resolve"].at = "resolve"
    /\ [Idle EXCEPT !.at = "resolve"].pos = 1
    /\ ~[Idle EXCEPT !.at = "resolve"].stopped
<1>1. "resolve" \in Points
    BY DEF Points
<1>2. Idle \in PassSet /\ Idle.pos = 1 /\ ~Idle.stopped
    BY IdlePass DEF Idle
<1> QED
    BY <1>1, <1>2 DEF PassSet

\* A pass that goes on with another step.
LEMMA SteppedPass ==
    ASSUME NEW i \in Positions, NEW b \in BOOLEAN
    PROVE  /\ [Idle EXCEPT !.at = "step", !.pos = i + 1, !.stopped = b] \in PassSet
           /\ [Idle EXCEPT !.at = "step", !.pos = i + 1, !.stopped = b].at = "step"
           /\ [Idle EXCEPT !.at = "step", !.pos = i + 1, !.stopped = b].pos = i + 1
<1>1. i + 1 \in 1..(Len(Steps) + 1)
    BY PositionsFacts
<1>2. "step" \in Points
    BY DEF Points
<1> QED
    BY <1>1, <1>2, IdlePass DEF Idle, PassSet

\* Writing a node's row.
LEMMA WrittenNode ==
    ASSUME NodeTypes, NEW i \in Positions, NEW s \in NodeStatuses, NEW r \in SkipReasons,
           r # "" <=> s = "skipped", nodes' = [nodes EXCEPT ![i] = Node(s, r)], seen' \in Rows
    PROVE  /\ NodeTypes'
           /\ nodes'[i].status = s /\ nodes'[i].reason = r
           /\ \A j \in Positions : j # i => nodes'[j] = nodes[j]
<1>1. Node(s, r) \in [status : NodeStatuses, reason : SkipReasons]
    BY DEF Node
<1>2. Node(s, r).status = s /\ Node(s, r).reason = r
    BY DEF Node
<1> HIDE DEF Node
<1> QED
    BY <1>1, <1>2 DEF NodeTypes, Rows

\* The outcome of a node that ran: never a skip, so it carries no reason.
LEMMA WrittenOutcome ==
    ASSUME NodeTypes, NEW i \in Positions, NEW s \in NodeStatuses, s # "skipped",
           nodes' = [nodes EXCEPT ![i] = Node(s, "")]
    PROVE  /\ nodes'[i].status = s /\ nodes'[i].reason = ""
           /\ \A j \in Positions : j # i => nodes'[j] = nodes[j]
<1>1. Node(s, "").status = s /\ Node(s, "").reason = ""
    BY DEF Node
<1> HIDE DEF Node
<1> QED
    BY <1>1 DEF NodeTypes, Rows

\* The copy a pass keeps, written with the node's row.
LEMMA WrittenCopy ==
    ASSUME nodes \in Rows, seen \in Rows, NEW i \in Positions, NEW s \in NodeStatuses,
           NEW r \in SkipReasons,
           nodes' = [nodes EXCEPT ![i] = Node(s, r)], seen' = [seen EXCEPT ![i] = Node(s, r)]
    PROVE  /\ seen' \in Rows
           /\ \A j \in Positions : (j = i \/ seen[j] = nodes[j]) => seen'[j] = nodes'[j]
<1>1. Node(s, r) \in [status : NodeStatuses, reason : SkipReasons]
    BY DEF Node
<1> HIDE DEF Node
<1> QED
    BY <1>1 DEF Rows

\* A pass that has read no rows.
LEMMA EmptyRows == NoRows \in Rows
BY DEF NoRows, Rows, Node, NodeStatuses, SkipReasons

\* The headers.
LEMMA HeaderFacts ==
    /\ \A s \in {"none", "running"} \cup RunStatuses :
           Header(s).status = s /\ Header(s).resolveFailed = FALSE
    /\ NoHeader = Header("none")
    /\ ResolveFailure.status = "terminal_failure" /\ ResolveFailure.resolveFailed = TRUE
    /\ RunStatus \in RunStatuses
BY DEF Header, NoHeader, ResolveFailure, RunStatus, RunStatuses

\* A handler's return leads to another attempt or to a row with one of the outcomes.
LEMMA ReturnKeeps ==
    ASSUME PassTypes, NEW i \in Positions, pass.pos = i,
           NEW result \in {"completed", "paused", "agent_rerun_hazard", "retryable_failure",
                           "terminal_failure"},
           HandlerReturns(i, result)
    PROVE  /\ pass' \in PassSet
           /\ pass'.pos = i /\ pass'.at \in {"invoke", "record"}
           /\ pass'.at = "record" => pass'.outcome \in Outcomes
<1>1. CASE result = "retryable_failure" /\ pass.attempt < Steps[i].attempts
    <2>1. pass' = [pass EXCEPT !.at = "invoke", !.attempt = pass.attempt + 1, !.fired = FALSE]
        BY <1>1 DEF HandlerReturns
    <2>2. pass \in PassSet /\ pass.attempt \in Nat
        BY DEF PassTypes, PassFacts, PassSet
    <2>3. pass.attempt + 1 \in Nat /\ "invoke" \in Points
        BY <2>2 DEF Points
    <2>4. pass' \in PassSet /\ pass'.at = "invoke" /\ pass'.pos = pass.pos
        BY <2>1, <2>2, <2>3 DEF PassSet
    <2> QED
        BY <2>4
<1>2. CASE ~(result = "retryable_failure" /\ pass.attempt < Steps[i].attempts)
    <2>1. (IF result \in {"completed", "paused"} THEN {result} ELSE FailedNode(i, result))
              \subseteq Outcomes
        BY PositionsFacts, <1>2 DEF FailedNode, Outcomes, Failures, Policies
    <2>2. PICK outcome \in Outcomes : pass' = [pass EXCEPT !.at = "record", !.outcome = outcome]
        BY <1>2, <2>1 DEF HandlerReturns
    <2>3. outcome \in NodeStatuses /\ "record" \in Points
        BY DEF Outcomes, NodeStatuses, Settled, Points
    <2>4. pass' \in PassSet /\ pass'.at = "record" /\ pass'.pos = pass.pos
              /\ pass'.outcome = outcome
        BY <2>2, <2>3 DEF PassTypes, PassFacts, PassSet
    <2> QED
        BY <2>4
<1> QED
    BY <1>1, <1>2

\* Writing the row of a node that is not completed keeps the order of the nodes, provided the
\* node is skipped or has its dependencies.
LEMMA OrderKept ==
    ASSUME BegunInOrder, NEW i \in Positions, nodes[i].status # "completed",
           \A j \in Positions : j # i => nodes'[j] = nodes[j],
           \/ nodes'[i].status = "skipped"
           \/ \A d \in Steps[i].deps : nodes[d].status = "completed"
    PROVE  BegunInOrder'
<1> SUFFICES ASSUME NEW j \in Positions, nodes'[j].status \notin {"none", "skipped"},
                    NEW d \in Steps[j].deps
             PROVE  nodes'[d].status = "completed"
    BY DEF BegunInOrder
<1>1. d \in Positions
    BY PositionsFacts
<1>2. nodes[d].status = "completed"
    <2>1. CASE j = i
        BY <2>1
    <2>2. CASE j # i
        BY <2>2 DEF BegunInOrder
    <2> QED
        BY <2>1, <2>2
<1> QED
    BY <1>1, <1>2

\* The pass goes on behind a decided node.
LEMMA DecidedStep ==
    ASSUME DecidedBehind, WritesOwnRows, NEW i \in Positions, pass.at \in InEngine, pass.pos = i,
           \A j \in Positions : j # i => nodes'[j] = nodes[j],
           nodes'[i].status \notin {"none", "running"},
           pass'.at = "step", pass'.pos = i + 1, UNCHANGED header
    PROVE  DecidedBehind'
<1>1. ~EngineSettled'
    BY HeaderFacts DEF WritesOwnRows, EngineSettled, RunStatuses
<1>2. ASSUME NEW j \in Positions, j < i + 1
      PROVE  nodes'[j].status \notin {"none", "running"}
    <2>1. j = i \/ j < i
        BY <1>2, PositionsFacts
    <2> QED
        BY <2>1 DEF DecidedBehind
<1> QED
    BY <1>1, <1>2 DEF DecidedBehind, InEngine

\* No cause to skip: the dependencies completed.
LEMMA DependenciesDone ==
    ASSUME NEW i \in Positions, SkipCauses(i) = {}
    PROVE  \A d \in Steps[i].deps : seen[d].status = "completed"
<1> SUFFICES ASSUME NEW d \in Steps[i].deps, seen[d].status # "completed" PROVE FALSE
    OBVIOUS
<1>1. (IF seen[d].status = "quarantined" THEN "quarantined_upstream" ELSE "dependency_failure")
          \in SkipCauses(i)
    BY DEF SkipCauses
<1> QED
    BY <1>1

\* A row that is not settled for a resumption is not completed.
LEMMA NotReused ==
    ASSUME NodeTypes, NEW i \in Positions, ~SettledForResume(nodes[i])
    PROVE  nodes[i].status # "completed"
BY DEF NodeTypes, SettledForResume, TransientSkip, Settled

\* A pass that is alone decides by rows that are as it read them.
LEMMA CopyAgrees ==
    ASSUME Inv, overlap # "now", pass.at = "step"
    PROVE  \A j \in Positions : seen[j] = nodes[j]
BY DEF Inv, OwnRows, WritesOwnRows, InEngine

\* Preservation: the job is enqueued.
LEMMA EnqueueInv == ASSUME Inv, Enqueue PROVE Inv'
<1> USE DEF Inv, jobVars, journalVars, subrunVars, passVars, historyVars, overlapVars
<1>1. JobTypes'
    BY DEF Enqueue, JobTypes, RunStatuses
<1>2. NodeTypes'
    BY DEF Enqueue, NodeTypes, NodeStatuses, SkipReasons, Settled
<1>3. PassTypes'
    BY DEF Enqueue, PassTypes, PassFacts, AtNode, Other
<1>4. OwnRows'
    BY DEF Enqueue, OwnRows, WritesOwnRows, InEngine, AtNode, PassTypes, Other
<1>5. MarkedFirst'
    BY DEF Enqueue, JobTypes, PassTypes, PassFacts, AtNode, MarkedFirst, Unfired, Runs, Other
<1>6. InOrder'
    BY DEF Enqueue, OnePassAtATime, InOrder, NodeTypes, BegunInOrder
<1>7. Behind'
    BY DEF Enqueue, OnePassAtATime, Behind, NodeTypes, DecidedBehind, EngineSettled,
        RunStatuses, InEngine, AtNode, PassTypes
<1> QED
    BY <1>1, <1>2, <1>3, <1>4, <1>5, <1>6, <1>7

\* Preservation: the job is dequeued.
LEMMA DequeueInv == ASSUME Inv, Dequeue PROVE Inv'
<1> USE DEF Inv, jobVars, journalVars, subrunVars, passVars, historyVars, overlapVars
<1>1. pass' \in PassSet /\ pass'.at = "resolve" /\ pass'.pos = 1
    BY ResolvingPass DEF Dequeue
<1>2. JobTypes'
    BY <1>1 DEF Dequeue, JobTypes, RunStatuses
<1>3. NodeTypes'
    BY <1>1, EmptyRows DEF Dequeue, NodeTypes, NodeStatuses, SkipReasons, Settled
<1>4. PassTypes'
    BY <1>1 DEF Dequeue, PassTypes, PassFacts, AtNode, Other
<1>5. OwnRows'
    BY <1>1 DEF Dequeue, OwnRows, WritesOwnRows, InEngine, AtNode, PassTypes, Other
<1>6. MarkedFirst'
    BY <1>1 DEF Dequeue, JobTypes, PassTypes, PassFacts, AtNode, MarkedFirst, Unfired, Runs,
        Other
<1>7. InOrder'
    BY <1>1 DEF Dequeue, OnePassAtATime, InOrder, NodeTypes, BegunInOrder
<1>8. Behind'
    BY <1>1 DEF Dequeue, OnePassAtATime, Behind, NodeTypes, DecidedBehind, EngineSettled,
        RunStatuses, InEngine, AtNode, PassTypes
<1> QED
    BY <1>2, <1>3, <1>4, <1>5, <1>6, <1>7, <1>8

\* Preservation: the job is recovered beside its live invocation.
LEMMA RedispatchInv == ASSUME Inv, Redispatch PROVE Inv'
<1> USE DEF Inv, jobVars, journalVars, subrunVars, passVars, historyVars, overlapVars
<1>1. JobTypes'
    BY WorkflowAssumption DEF Redispatch, JobTypes, RunStatuses, WorkflowAssumption
<1>2. NodeTypes'
    BY EmptyRows DEF Redispatch, NodeTypes, NodeStatuses, SkipReasons, Settled
<1>3. PassTypes'
    <2>1. CASE /\ job' = job /\ aside' = <<[Idle EXCEPT !.at = "resolve"], NoRows>>
        <3>1. Other' \in PassSet /\ Other'.at = "resolve" /\ aside' \in PassSet \X Rows
            BY <2>1, ResolvingPass, EmptyRows DEF Other
        <3>2. PassFacts(Other)'
            BY <3>1 DEF PassFacts, AtNode
        <3> QED
            BY <2>1, <3>1, <3>2 DEF Redispatch, PassTypes, PassFacts
    <2>2. CASE job' = "dead" /\ UNCHANGED aside
        BY <2>2 DEF Redispatch, PassTypes, PassFacts, Other
    <2> QED
        BY <2>1, <2>2 DEF Redispatch
<1>4. OwnRows'
    BY DEF Redispatch, OwnRows, WritesOwnRows, InEngine, AtNode, PassTypes, Other
<1>5. MarkedFirst'
    <2>1. CASE aside' = <<[Idle EXCEPT !.at = "resolve"], NoRows>>
        <3>1. Other'.at = "resolve"
            BY <2>1, ResolvingPass DEF Other
        <3> QED
            BY <3>1 DEF Redispatch, MarkedFirst, Unfired, Runs
    <2>2. CASE UNCHANGED aside
        BY <2>2 DEF Redispatch, MarkedFirst, Unfired, Runs, Other
    <2> QED
        BY <2>1, <2>2 DEF Redispatch
<1>6. InOrder'
    BY DEF Redispatch, OnePassAtATime, InOrder, NodeTypes, BegunInOrder
<1>7. Behind'
    BY DEF Redispatch, OnePassAtATime, Behind, NodeTypes, DecidedBehind, EngineSettled,
        RunStatuses, InEngine, AtNode, PassTypes
<1> QED
    BY <1>1, <1>2, <1>3, <1>4, <1>5, <1>6, <1>7

\* Preservation: the other invocation goes on.
LEMMA SwitchInv == ASSUME Inv, Switch PROVE Inv'
<1> USE DEF Inv, jobVars, journalVars, subrunVars, passVars, historyVars, overlapVars
<1>1. JobTypes'
    BY DEF Switch, passVars, JobTypes, RunStatuses
<1>2. NodeTypes'
    <2>1. seen' \in Rows
        BY DEF Switch, PassTypes
    <2> QED
        BY <2>1 DEF Switch, NodeTypes
<1>3. PassTypes'
    <2>1. pass' = Other /\ Other' = pass /\ aside' \in PassSet \X Rows
        BY DEF Switch, Other, PassTypes, PassFacts, NodeTypes
    <2>2. PassFacts(pass)' /\ PassFacts(Other)'
        BY <2>1 DEF Switch, PassTypes, PassFacts
    <2> QED
        BY <2>1, <2>2 DEF Switch, PassTypes
<1>4. OwnRows'
    <2>1. overlap = "now"
        BY DEF Switch, OwnRows
    <2> QED
        BY <2>1 DEF Switch, OwnRows
<1>5. MarkedFirst'
    <2>1. pass' = Other /\ Other' = pass
        BY DEF Switch, Other
    <2> QED
        BY <2>1 DEF Switch, MarkedFirst, Unfired, Runs
<1>6. InOrder'
    BY DEF Switch, passVars, OnePassAtATime, InOrder, NodeTypes, BegunInOrder
<1>7. Behind'
    <2>1. overlap = "now"
        BY DEF Switch, OwnRows
    <2> QED
        BY <2>1 DEF Switch, Behind, OnePassAtATime
<1> QED
    BY <1>1, <1>2, <1>3, <1>4, <1>5, <1>6, <1>7

\* Preservation: the process stops.
LEMMA CrashInv == ASSUME Inv, Crash PROVE Inv'
<1> USE DEF Inv, jobVars, journalVars, subrunVars, passVars, historyVars, overlapVars
<1>1. pass' \in PassSet /\ pass'.at = "idle" /\ pass'.pos = 1
    BY IdlePass DEF Crash, End
<1>2. JobTypes'
    BY <1>1, WorkflowAssumption DEF Crash, CutExecutions, JobTypes, RunStatuses,
        WorkflowAssumption
<1>3. NodeTypes'
    BY <1>1, EmptyRows DEF Crash, CutExecutions, NodeTypes, NodeStatuses, SkipReasons, Settled
<1>4. PassTypes'
    BY <1>1 DEF Crash, CutExecutions, PassTypes, PassFacts, AtNode, Other
<1>5. OwnRows'
    BY <1>1 DEF Crash, CutExecutions, OwnRows, WritesOwnRows, InEngine, AtNode, PassTypes, Other
<1>6. MarkedFirst'
    BY <1>1 DEF Crash, CutExecutions, JobTypes, PassTypes, PassFacts, AtNode, MarkedFirst,
        Unfired, Runs, Other
<1>7. InOrder'
    BY <1>1 DEF Crash, CutExecutions, OnePassAtATime, InOrder, NodeTypes, BegunInOrder
<1>8. Behind'
    BY <1>1 DEF Crash, CutExecutions, OnePassAtATime, Behind, NodeTypes, DecidedBehind,
        EngineSettled, RunStatuses, InEngine, AtNode, PassTypes
<1> QED
    BY <1>2, <1>3, <1>4, <1>5, <1>6, <1>7, <1>8

\* Preservation: a statement of execute() throws.
LEMMA DatabaseFailsInv == ASSUME Inv, DatabaseFails PROVE Inv'
<1> USE DEF Inv, jobVars, journalVars, subrunVars, passVars, historyVars, overlapVars
<1>1. pass' \in PassSet /\ pass'.at = "idle" /\ pass'.pos = 1
    BY IdlePass DEF DatabaseFails, End
<1>2. JobTypes'
    BY <1>1 DEF DatabaseFails, End, JobTypes, RunStatuses
<1>3. NodeTypes'
    BY <1>1, EmptyRows DEF DatabaseFails, End, NodeTypes, NodeStatuses, SkipReasons, Settled
<1>4. PassTypes'
    BY <1>1 DEF DatabaseFails, End, PassTypes, PassFacts, AtNode, Other
<1>5. OwnRows'
    BY <1>1 DEF DatabaseFails, End, OwnRows, WritesOwnRows, InEngine, AtNode, PassTypes, Other
<1>6. MarkedFirst'
    BY <1>1 DEF DatabaseFails, End, JobTypes, PassTypes, PassFacts, AtNode, MarkedFirst,
        Unfired, Runs, Other
<1>7. InOrder'
    BY <1>1 DEF DatabaseFails, End, OnePassAtATime, InOrder, NodeTypes, BegunInOrder
<1>8. Behind'
    BY <1>1 DEF DatabaseFails, End, OnePassAtATime, Behind, NodeTypes, DecidedBehind,
        EngineSettled, RunStatuses, InEngine, AtNode, PassTypes
<1> QED
    BY <1>2, <1>3, <1>4, <1>5, <1>6, <1>7, <1>8

\* Preservation: the resolver answers.
LEMMA ResolveInv == ASSUME Inv, Resolve PROVE Inv'
<1> USE DEF Inv, jobVars, journalVars, subrunVars, passVars, historyVars, overlapVars
<1>1. PICK x \in {"ensure", "unresolved"} : pass' = [pass EXCEPT !.at = x]
    BY DEF Resolve, At
<1>2. x \in Points
    BY DEF Points
<1>3. pass' \in PassSet /\ pass'.at = x /\ pass'.pos = pass.pos
    BY <1>1, <1>2, MovedPass DEF PassTypes, PassFacts
<1>4. JobTypes'
    BY <1>1, <1>3 DEF Resolve, JobTypes, RunStatuses
<1>5. NodeTypes'
    BY <1>1, <1>3 DEF Resolve, NodeTypes, NodeStatuses, SkipReasons, Settled
<1>6. PassTypes'
    BY <1>1, <1>3 DEF Resolve, PassTypes, PassFacts, AtNode, Other
<1>7. OwnRows'
    BY <1>1, <1>3 DEF Resolve, OwnRows, WritesOwnRows, InEngine, AtNode, PassTypes, Other
<1>8. MarkedFirst'
    BY <1>1, <1>3 DEF Resolve, JobTypes, PassTypes, PassFacts, AtNode, MarkedFirst, Unfired,
        Runs, Other
<1>9. InOrder'
    BY <1>1, <1>3 DEF Resolve, OnePassAtATime, InOrder, NodeTypes, BegunInOrder
<1>10. Behind'
    BY <1>1, <1>3 DEF Resolve, OnePassAtATime, Behind, NodeTypes, DecidedBehind, EngineSettled,
        RunStatuses, InEngine, AtNode, PassTypes
<1> QED
    BY <1>4, <1>5, <1>6, <1>7, <1>8, <1>9, <1>10

\* Preservation: ensureRun for a job that did not resolve.
LEMMA EnsureFailedRunInv == ASSUME Inv, EnsureFailedRun PROVE Inv'
<1> USE DEF Inv, jobVars, journalVars, subrunVars, passVars, historyVars, overlapVars
<1>1. PICK x \in {"mark", "rethrow"} : pass' = [pass EXCEPT !.at = x]
    BY DEF EnsureFailedRun, At
<1>2. x \in Points
    BY DEF Points
<1>3. pass' \in PassSet /\ pass'.at = x /\ pass'.pos = pass.pos
    BY <1>1, <1>2, MovedPass DEF PassTypes, PassFacts
<1>4. JobTypes'
    BY <1>1, <1>3, HeaderFacts DEF EnsureFailedRun, OwnHeader, JobTypes, RunStatuses
<1>5. NodeTypes'
    BY <1>1, <1>3, HeaderFacts DEF EnsureFailedRun, OwnHeader, NodeTypes, NodeStatuses,
        SkipReasons, Settled
<1>6. PassTypes'
    BY <1>1, <1>3, HeaderFacts DEF EnsureFailedRun, OwnHeader, PassTypes, PassFacts, AtNode,
        Other
<1>7. OwnRows'
    <2>1. pass'.at = "mark" => header' \in {Header("running"), ResolveFailure}
        <3>1. CASE /\ OwnHeader
                   /\ header' = IF header = NoHeader THEN Header("running") ELSE header
            BY <3>1 DEF OwnHeader
        <3>2. CASE pass' = At("rethrow")
            BY <3>2, MovedPass DEF At, PassTypes, PassFacts, Points
        <3> QED
            BY <3>1, <3>2 DEF EnsureFailedRun
    <2>2. pass'.at \notin InEngine \cup {"load", "finalize"}
        BY <1>1, <1>3 DEF InEngine, AtNode
    <2> QED
        BY <2>1, <2>2 DEF EnsureFailedRun, OwnRows, WritesOwnRows, InEngine, Other
<1>8. MarkedFirst'
    BY <1>1, <1>3, HeaderFacts DEF EnsureFailedRun, OwnHeader, JobTypes, PassTypes, PassFacts,
        AtNode, MarkedFirst, Unfired, Runs, Other
<1>9. InOrder'
    BY <1>1, <1>3, HeaderFacts DEF EnsureFailedRun, OwnHeader, OnePassAtATime, InOrder,
        NodeTypes, BegunInOrder
<1>10. Behind'
    BY <1>1, <1>3, HeaderFacts DEF EnsureFailedRun, OwnHeader, OnePassAtATime, Behind,
        NodeTypes, DecidedBehind, EngineSettled, RunStatuses, InEngine, AtNode, PassTypes
<1> QED
    BY <1>4, <1>5, <1>6, <1>7, <1>8, <1>9, <1>10

\* Preservation: the resolver's failure is written.
LEMMA MarkResolveFailureInv == ASSUME Inv, MarkResolveFailure PROVE Inv'
<1> USE DEF Inv, jobVars, journalVars, subrunVars, passVars, historyVars, overlapVars
<1>1. pass' \in PassSet /\ pass'.at = "rethrow" /\ pass'.pos = pass.pos /\ pass'.fired = pass.fired
    <2>1. pass' = [pass EXCEPT !.at = "rethrow"]
        BY DEF MarkResolveFailure, At
    <2>2. pass \in PassSet /\ "rethrow" \in Points
        BY DEF PassTypes, PassFacts, Points
    <2> QED
        BY <2>1, <2>2, MovedPass
<1>2. JobTypes'
    BY <1>1, HeaderFacts DEF MarkResolveFailure, JobTypes, RunStatuses
<1>3. NodeTypes'
    BY <1>1, HeaderFacts DEF MarkResolveFailure, NodeTypes, NodeStatuses, SkipReasons, Settled
<1>4. PassTypes'
    BY <1>1, HeaderFacts DEF MarkResolveFailure, PassTypes, PassFacts, AtNode, Other
<1>5. OwnRows'
    BY <1>1, HeaderFacts DEF MarkResolveFailure, OwnRows, WritesOwnRows, InEngine, AtNode,
        PassTypes, Other
<1>6. MarkedFirst'
    BY <1>1, HeaderFacts DEF MarkResolveFailure, JobTypes, PassTypes, PassFacts, AtNode,
        MarkedFirst, Unfired, Runs, Other
<1>7. InOrder'
    BY <1>1, HeaderFacts DEF MarkResolveFailure, OnePassAtATime, InOrder, NodeTypes,
        BegunInOrder
<1>8. Behind'
    BY <1>1, HeaderFacts DEF MarkResolveFailure, OnePassAtATime, Behind, NodeTypes,
        DecidedBehind, EngineSettled, RunStatuses, InEngine, AtNode, PassTypes
<1> QED
    BY <1>2, <1>3, <1>4, <1>5, <1>6, <1>7, <1>8

\* Preservation: the step fails.
LEMMA RethrowInv == ASSUME Inv, Rethrow PROVE Inv'
<1> USE DEF Inv, jobVars, journalVars, subrunVars, passVars, historyVars, overlapVars
<1>1. pass' \in PassSet /\ pass'.at = "idle" /\ pass'.pos = 1
    BY IdlePass DEF Rethrow, End
<1>2. JobTypes'
    BY <1>1 DEF Rethrow, End, JobTypes, RunStatuses
<1>3. NodeTypes'
    BY <1>1, EmptyRows DEF Rethrow, End, NodeTypes, NodeStatuses, SkipReasons, Settled
<1>4. PassTypes'
    BY <1>1 DEF Rethrow, End, PassTypes, PassFacts, AtNode, Other
<1>5. OwnRows'
    BY <1>1 DEF Rethrow, End, OwnRows, WritesOwnRows, InEngine, AtNode, PassTypes, Other
<1>6. MarkedFirst'
    BY <1>1 DEF Rethrow, End, JobTypes, PassTypes, PassFacts, AtNode, MarkedFirst, Unfired,
        Runs, Other
<1>7. InOrder'
    BY <1>1 DEF Rethrow, End, OnePassAtATime, InOrder, NodeTypes, BegunInOrder
<1>8. Behind'
    BY <1>1 DEF Rethrow, End, OnePassAtATime, Behind, NodeTypes, DecidedBehind, EngineSettled,
        RunStatuses, InEngine, AtNode, PassTypes
<1> QED
    BY <1>2, <1>3, <1>4, <1>5, <1>6, <1>7, <1>8

\* Preservation: ensureRun, with the single-flight answer.
LEMMA EnsureRunInv == ASSUME Inv, EnsureRun PROVE Inv'
<1> USE DEF Inv, jobVars, journalVars, subrunVars, passVars, historyVars, overlapVars
<1>1. PICK x \in {"load", "return"} : pass' = [pass EXCEPT !.at = x]
    BY DEF EnsureRun, At
<1>2. x \in Points
    BY DEF Points
<1>3. pass' \in PassSet /\ pass'.at = x /\ pass'.pos = pass.pos
    BY <1>1, <1>2, MovedPass DEF PassTypes, PassFacts
<1>4. JobTypes'
    BY <1>1, <1>3, HeaderFacts DEF EnsureRun, JobTypes, RunStatuses
<1>5. NodeTypes'
    BY <1>1, <1>3, HeaderFacts DEF EnsureRun, NodeTypes, NodeStatuses, SkipReasons, Settled
<1>6. PassTypes'
    BY <1>1, <1>3, HeaderFacts DEF EnsureRun, PassTypes, PassFacts, AtNode, Other
<1>7. OwnRows'
    <2>1. pass'.at = "load" => header'.status = "running"
        <3>1. CASE header'.status # "running"
            <4>1. pass' = [pass EXCEPT !.at = "return"]
                BY <3>1 DEF EnsureRun, At
            <4> QED
                BY <4>1, MovedPass DEF PassTypes, PassFacts, Points
        <3> QED
            BY <3>1
    <2>2. header' \in {Header(s) : s \in {"none", "running"} \cup RunStatuses} \cup {ResolveFailure}
        BY <1>4 DEF JobTypes
    <2>3. header'.status = "running" => header' = Header("running")
        BY <2>2, HeaderFacts
    <2>4. pass'.at \notin InEngine \cup {"finalize", "mark"}
        BY <1>1, <1>3 DEF InEngine, AtNode
    <2> QED
        BY <2>1, <2>3, <2>4 DEF EnsureRun, OwnRows, WritesOwnRows, InEngine, Other
<1>8. MarkedFirst'
    BY <1>1, <1>3, HeaderFacts DEF EnsureRun, JobTypes, PassTypes, PassFacts, AtNode,
        MarkedFirst, Unfired, Runs, Other
<1>9. InOrder'
    BY <1>1, <1>3, HeaderFacts DEF EnsureRun, OnePassAtATime, InOrder, NodeTypes, BegunInOrder
<1>10. Behind'
    BY <1>1, <1>3, HeaderFacts DEF EnsureRun, OnePassAtATime, Behind, NodeTypes, DecidedBehind,
        EngineSettled, RunStatuses, InEngine, AtNode, PassTypes
<1> QED
    BY <1>4, <1>5, <1>6, <1>7, <1>8, <1>9, <1>10

\* Preservation: the rows are read.
LEMMA LoadRowsInv == ASSUME Inv, LoadRows PROVE Inv'
<1> USE DEF Inv, jobVars, journalVars, subrunVars, passVars, historyVars, overlapVars
<1>1. pass' \in PassSet /\ pass'.at = "step" /\ pass'.pos = pass.pos /\ pass'.fired = pass.fired
    BY MovedPass DEF LoadRows, At, Points, PassTypes, PassFacts
<1>2. JobTypes'
    BY <1>1 DEF LoadRows, JobTypes, RunStatuses
<1>3. NodeTypes'
    BY <1>1 DEF LoadRows, NodeTypes, NodeStatuses, SkipReasons, Settled
<1>4. PassTypes'
    BY <1>1 DEF LoadRows, PassTypes, PassFacts, AtNode, Other
<1>5. OwnRows'
    BY <1>1 DEF LoadRows, OwnRows, WritesOwnRows, InEngine, AtNode, PassTypes, Other
<1>6. MarkedFirst'
    BY <1>1 DEF LoadRows, JobTypes, PassTypes, PassFacts, AtNode, MarkedFirst, Unfired, Runs,
        Other
<1>7. InOrder'
    BY <1>1 DEF LoadRows, OnePassAtATime, InOrder, NodeTypes, BegunInOrder
<1>8. Behind'
    <2>1. \A j \in Positions : ~(j < 1)
        BY PositionsFacts
    <2>2. OnePassAtATime => pass.pos = 1
        BY DEF LoadRows, Behind, DecidedBehind, InEngine, AtNode
    <2> QED
        BY <1>1, <2>1, <2>2
           DEF LoadRows, OnePassAtATime, Behind, DecidedBehind, EngineSettled, InEngine, AtNode
<1> QED
    BY <1>2, <1>3, <1>4, <1>5, <1>6, <1>7, <1>8

\* Preservation: the verdict is computed.
LEMMA ComputeStatusInv == ASSUME Inv, ComputeStatus PROVE Inv'
<1> USE DEF Inv, jobVars, journalVars, subrunVars, passVars, historyVars, overlapVars
<1>1. /\ pass' \in PassSet /\ pass'.at = "finalize" /\ pass'.pos = pass.pos
      /\ pass'.outcome \in RunStatuses
    BY HeaderFacts DEF ComputeStatus, PassSet, PassTypes, PassFacts, Points, RunStatuses,
        NodeStatuses, Settled, Failures
<1>2. JobTypes'
    BY <1>1, HeaderFacts DEF ComputeStatus, JobTypes, RunStatuses
<1>3. NodeTypes'
    BY <1>1, HeaderFacts, EmptyRows DEF ComputeStatus, NodeTypes, NodeStatuses, SkipReasons,
        Settled
<1>4. PassTypes'
    BY <1>1, HeaderFacts DEF ComputeStatus, PassTypes, PassFacts, AtNode, Other
<1>5. OwnRows'
    BY <1>1, HeaderFacts, PositionsFacts DEF ComputeStatus, OwnRows, WritesOwnRows, InEngine,
        AtNode, PassTypes, Other
<1>6. MarkedFirst'
    BY <1>1, HeaderFacts DEF ComputeStatus, JobTypes, PassTypes, PassFacts, AtNode, MarkedFirst,
        Unfired, Runs, Other
<1>7. InOrder'
    BY <1>1, HeaderFacts, PositionsFacts DEF ComputeStatus, OnePassAtATime, InOrder, NodeTypes,
        BegunInOrder
<1>8. Behind'
    <2> SUFFICES ASSUME OnePassAtATime' PROVE DecidedBehind'
        BY DEF Behind
    <2>1. OnePassAtATime /\ DecidedBehind /\ WritesOwnRows
        BY DEF ComputeStatus, OnePassAtATime, Behind, OwnRows
    <2>2. \A j \in Positions : j < pass.pos
        BY PositionsFacts DEF ComputeStatus
    <2>3. \A j \in Positions : nodes[j].status \notin {"none", "running"}
        BY <2>1, <2>2 DEF ComputeStatus, DecidedBehind, InEngine
    <2> QED
        BY <1>1, <2>3 DEF ComputeStatus, DecidedBehind, InEngine, AtNode
<1> QED
    BY <1>2, <1>3, <1>4, <1>5, <1>6, <1>7, <1>8

\* Preservation: the verdict is written.
LEMMA FinalizeRunInv == ASSUME Inv, FinalizeRun PROVE Inv'
<1> USE DEF Inv, jobVars, journalVars, subrunVars, passVars, historyVars, overlapVars
<1>1. pass' \in PassSet /\ pass'.at = "return" /\ pass'.pos = pass.pos /\ pass'.fired = pass.fired
    BY MovedPass DEF FinalizeRun, At, Points, PassTypes, PassFacts
<1>2. JobTypes'
    <2>1. header' \in {Header(s) : s \in RunStatuses}
        BY DEF FinalizeRun, PassTypes, PassFacts
    <2> QED
        BY <2>1 DEF FinalizeRun, JobTypes
<1>3. NodeTypes'
    BY <1>1, HeaderFacts DEF FinalizeRun, NodeTypes, NodeStatuses, SkipReasons, Settled
<1>4. PassTypes'
    BY <1>1, HeaderFacts DEF FinalizeRun, PassTypes, PassFacts, AtNode, Other
<1>5. OwnRows'
    BY <1>1, HeaderFacts DEF FinalizeRun, OwnRows, WritesOwnRows, InEngine, AtNode, PassTypes,
        Other
<1>6. MarkedFirst'
    BY <1>1, HeaderFacts DEF FinalizeRun, JobTypes, PassTypes, PassFacts, AtNode, MarkedFirst,
        Unfired, Runs, Other
<1>7. InOrder'
    BY <1>1, HeaderFacts DEF FinalizeRun, OnePassAtATime, InOrder, NodeTypes, BegunInOrder
<1>8. Behind'
    BY <1>1, HeaderFacts DEF FinalizeRun, OnePassAtATime, Behind, NodeTypes, DecidedBehind,
        EngineSettled, RunStatuses, InEngine, AtNode, PassTypes
<1> QED
    BY <1>2, <1>3, <1>4, <1>5, <1>6, <1>7, <1>8

\* Preservation: the step returns.
LEMMA ReturnInv == ASSUME Inv, Return PROVE Inv'
<1> USE DEF Inv, jobVars, journalVars, subrunVars, passVars, historyVars, overlapVars
<1>1. pass' \in PassSet /\ pass'.at = "idle" /\ pass'.pos = 1
    BY IdlePass DEF Return, End
<1>2. JobTypes'
    BY <1>1 DEF Return, End, JobTypes, RunStatuses
<1>3. NodeTypes'
    BY <1>1, EmptyRows DEF Return, End, NodeTypes, NodeStatuses, SkipReasons, Settled
<1>4. PassTypes'
    BY <1>1 DEF Return, End, PassTypes, PassFacts, AtNode, Other
<1>5. OwnRows'
    BY <1>1 DEF Return, End, OwnRows, WritesOwnRows, InEngine, AtNode, PassTypes, Other
<1>6. MarkedFirst'
    BY <1>1 DEF Return, End, JobTypes, PassTypes, PassFacts, AtNode, MarkedFirst, Unfired, Runs,
        Other
<1>7. InOrder'
    BY <1>1 DEF Return, End, OnePassAtATime, InOrder, NodeTypes, BegunInOrder
<1>8. Behind'
    BY <1>1 DEF Return, End, OnePassAtATime, Behind, NodeTypes, DecidedBehind, EngineSettled,
        RunStatuses, InEngine, AtNode, PassTypes
<1> QED
    BY <1>2, <1>3, <1>4, <1>5, <1>6, <1>7, <1>8

\* Preservation: a settled node is reused.
LEMMA ReuseNodeInv == ASSUME Inv, NEW i \in Positions, ReuseNode(i) PROVE Inv'
<1> USE DEF Inv, jobVars, journalVars, subrunVars, passVars, historyVars, overlapVars
<1>1. /\ pass' = [Idle EXCEPT !.at = "step", !.pos = i + 1, !.stopped = pass.stopped]
      /\ pass.pos = i /\ pass.at = "step" /\ i \in Nat
    BY PositionsFacts DEF ReuseNode, AtStep, NextStep
<1>2. pass.stopped \in BOOLEAN
    BY DEF PassTypes, PassFacts, PassSet
<1>3. pass' \in PassSet /\ pass'.at = "step" /\ pass'.pos = i + 1
    BY <1>1, <1>2, SteppedPass
<1>4. JobTypes'
    BY <1>1, <1>3 DEF ReuseNode, AtStep, JobTypes, RunStatuses
<1>5. NodeTypes'
    BY <1>1, <1>3 DEF ReuseNode, AtStep, NodeTypes, NodeStatuses, SkipReasons, Settled
<1>6. PassTypes'
    BY <1>1, <1>3 DEF ReuseNode, AtStep, PassTypes, PassFacts, AtNode, Other
<1>7. OwnRows'
    BY <1>1, <1>3, PositionsFacts DEF ReuseNode, AtStep, OwnRows, WritesOwnRows, InEngine,
        AtNode, PassTypes, Other
<1>8. MarkedFirst'
    BY <1>1, <1>3 DEF ReuseNode, AtStep, JobTypes, PassTypes, PassFacts, AtNode, MarkedFirst,
        Unfired, Runs, Other
<1>9. InOrder'
    BY <1>1, <1>3, PositionsFacts DEF ReuseNode, AtStep, OnePassAtATime, InOrder, NodeTypes,
        BegunInOrder
<1>10. Behind'
    <2> SUFFICES ASSUME OnePassAtATime' PROVE DecidedBehind'
        BY DEF Behind
    <2>1. OnePassAtATime /\ DecidedBehind /\ WritesOwnRows
        BY DEF ReuseNode, OnePassAtATime, Behind, OwnRows
    <2>2. SettledForResume(nodes[i])
        BY <1>1, <2>1, CopyAgrees DEF ReuseNode, OnePassAtATime
    <2>3. UNCHANGED <<header, nodes>> /\ nodes[i].status \notin {"none", "running"}
        BY <2>2 DEF ReuseNode, SettledForResume, Settled
    <2> QED
        BY <1>1, <1>3, <2>1, <2>3, DecidedStep DEF InEngine
<1> QED
    BY <1>4, <1>5, <1>6, <1>7, <1>8, <1>9, <1>10

\* Preservation: a node is skipped.
LEMMA SkipNodeInv == ASSUME Inv, NEW i \in Positions, SkipNode(i) PROVE Inv'
<1> USE DEF Inv, jobVars, journalVars, subrunVars, passVars, historyVars, overlapVars
<1>1. /\ pass' = [Idle EXCEPT !.at = "step", !.pos = i + 1, !.stopped = pass.stopped]
      /\ pass.pos = i /\ pass.at = "step" /\ i \in Nat
    BY PositionsFacts DEF SkipNode, AtStep, NextStep
<1>2. pass.stopped \in BOOLEAN
    BY DEF PassTypes, PassFacts, PassSet
<1>3. pass' \in PassSet /\ pass'.at = "step" /\ pass'.pos = i + 1
    BY <1>1, <1>2, SteppedPass
<1>4. PICK r \in {"workflow_already_stopped", "quarantined_upstream", "dependency_failure"} :
          /\ nodes' = [nodes EXCEPT ![i] = Node("skipped", r)]
          /\ seen' = [seen EXCEPT ![i] = Node("skipped", r)]
    BY DEF SkipNode, SkipCauses
<1>5. seen' \in Rows /\ \A j \in Positions : seen[j] = nodes[j] => seen'[j] = nodes'[j]
    BY <1>1, <1>3, <1>4, WrittenCopy DEF NodeStatuses, Settled, SkipReasons, NodeTypes
<1>6. /\ NodeTypes' /\ nodes'[i].status = "skipped" /\ nodes'[i].reason = r
      /\ \A j \in Positions : j # i => nodes'[j] = nodes[j]
    BY <1>1, <1>3, <1>4, <1>5, WrittenNode DEF NodeStatuses, Settled, SkipReasons
<1>7. JobTypes'
    BY <1>1, <1>3, <1>4, <1>5, <1>6 DEF SkipNode, AtStep, JobTypes, RunStatuses
<1>8. NodeTypes'
    BY <1>1, <1>3, <1>4, <1>5, <1>6 DEF SkipNode, AtStep, NodeTypes, NodeStatuses, SkipReasons,
        Settled
<1>9. PassTypes'
    BY <1>1, <1>3, <1>4, <1>5, <1>6 DEF SkipNode, AtStep, PassTypes, PassFacts, AtNode, Other
<1>10. OwnRows'
    BY <1>1, <1>3, <1>4, <1>5, <1>6, PositionsFacts DEF SkipNode, AtStep, OwnRows,
        WritesOwnRows, InEngine, AtNode, PassTypes, Other
<1>11. MarkedFirst'
    BY <1>1, <1>3, <1>4, <1>5, <1>6 DEF SkipNode, AtStep, JobTypes, PassTypes, PassFacts,
        AtNode, MarkedFirst, Unfired, Runs, Other
<1>12. InOrder'
    <2> SUFFICES ASSUME OnePassAtATime' PROVE BegunInOrder'
        BY DEF InOrder
    <2>1. OnePassAtATime /\ BegunInOrder /\ WritesOwnRows
        BY DEF SkipNode, OnePassAtATime, InOrder, OwnRows
    <2>2. nodes[i].status # "completed"
        BY <1>1, <2>1, CopyAgrees, NotReused DEF SkipNode, OnePassAtATime
    <2> QED
        BY <1>6, <2>1, <2>2, OrderKept
<1>13. Behind'
    <2> SUFFICES ASSUME OnePassAtATime' PROVE DecidedBehind'
        BY DEF Behind
    <2>1. OnePassAtATime /\ DecidedBehind /\ WritesOwnRows
        BY DEF SkipNode, OnePassAtATime, Behind, OwnRows
    <2>2. UNCHANGED header
        BY DEF SkipNode
    <2> QED
        BY <1>1, <1>3, <1>6, <2>1, <2>2, DecidedStep DEF InEngine
<1> QED
    BY <1>7, <1>8, <1>9, <1>10, <1>11, <1>12, <1>13

\* Preservation: a node begins.
LEMMA BeginNodeInv == ASSUME Inv, NEW i \in Positions, BeginNode(i) PROVE Inv'
<1> USE DEF Inv, jobVars, journalVars, subrunVars, passVars, historyVars, overlapVars
<1>1. pass' \in PassSet /\ pass'.at = "invoke" /\ pass'.pos = i
    BY DEF BeginNode, AtStep, PassSet, Points, PassTypes, PassFacts
<1>2. nodes' = [nodes EXCEPT ![i] = Node("running", "")] /\ seen' \in Rows
    BY DEF BeginNode, NodeTypes
<1>3. "running" \in NodeStatuses /\ "" \in SkipReasons
    BY DEF NodeStatuses, SkipReasons
<1>4. /\ NodeTypes' /\ nodes'[i].status = "running" /\ nodes'[i].reason = ""
      /\ \A j \in Positions : j # i => nodes'[j] = nodes[j]
    <2>1. "" # "" <=> "running" = "skipped"
        OBVIOUS
    <2> HIDE DEF Inv
    <2>2. NodeTypes
        BY DEF Inv
    <2> QED
        BY <1>2, <1>3, <2>1, <2>2, WrittenNode
<1>5. JobTypes'
    BY <1>1, <1>2, <1>3, <1>4 DEF BeginNode, AtStep, JobTypes, RunStatuses
<1>6. NodeTypes'
    BY <1>1, <1>2, <1>3, <1>4 DEF BeginNode, AtStep, NodeTypes, NodeStatuses, SkipReasons,
        Settled
<1>7. PassTypes'
    BY <1>1, <1>2, <1>3, <1>4 DEF BeginNode, AtStep, PassTypes, PassFacts, AtNode, Other
<1>8. OwnRows'
    BY <1>1, <1>2, <1>3, <1>4, PositionsFacts DEF BeginNode, AtStep, OwnRows, WritesOwnRows,
        InEngine, AtNode, PassTypes, Other
<1>9. MarkedFirst'
    BY <1>1, <1>2, <1>3, <1>4 DEF BeginNode, AtStep, JobTypes, PassTypes, PassFacts, AtNode,
        MarkedFirst, Unfired, Runs, Other
<1>10. InOrder'
    <2> SUFFICES ASSUME OnePassAtATime' PROVE BegunInOrder'
        BY DEF InOrder
    <2>1. OnePassAtATime /\ BegunInOrder /\ WritesOwnRows
        BY DEF BeginNode, OnePassAtATime, InOrder, OwnRows
    <2>2. pass.at = "step" /\ \A j \in Positions : seen[j] = nodes[j]
        BY <2>1, CopyAgrees DEF BeginNode, AtStep, OnePassAtATime
    <2>3. nodes[i].status # "completed"
        BY <2>2, NotReused DEF BeginNode
    <2>4. \A d \in Steps[i].deps : nodes[d].status = "completed"
        BY <2>2, PositionsFacts, DependenciesDone DEF BeginNode
    <2> QED
        BY <1>4, <2>1, <2>3, <2>4, OrderKept
<1>11. Behind'
    <2> SUFFICES ASSUME OnePassAtATime' PROVE DecidedBehind'
        BY DEF Behind
    <2>1. OnePassAtATime /\ DecidedBehind /\ WritesOwnRows
        BY DEF BeginNode, OnePassAtATime, Behind, OwnRows
    <2>2. ~EngineSettled'
        BY <2>1, HeaderFacts
           DEF BeginNode, AtStep, WritesOwnRows, InEngine, EngineSettled, RunStatuses
    <2>3. ASSUME NEW j \in Positions, j < i PROVE nodes'[j] = nodes[j]
        <3>1. j # i
            BY <2>3, PositionsFacts
        <3> QED
            BY <3>1, <1>4
    <2>4. \A j \in Positions : j < i => nodes[j].status \notin {"none", "running"}
        BY <2>1 DEF BeginNode, AtStep, DecidedBehind, InEngine
    <2> QED
        BY <1>1, <2>2, <2>3, <2>4 DEF DecidedBehind, InEngine, AtNode
<1> QED
    BY <1>5, <1>6, <1>7, <1>8, <1>9, <1>10, <1>11

\* Preservation: the registry lacks the operation.
LEMMA NodeUnavailableInv == ASSUME Inv, NEW i \in Positions, NodeUnavailable(i) PROVE Inv'
<1> USE DEF Inv, jobVars, journalVars, subrunVars, passVars, historyVars, overlapVars
<1>1. pass' \in PassSet /\ pass'.at = "record" /\ pass'.pos = i /\ pass'.outcome \in Outcomes
    BY DEF NodeUnavailable, PassSet, Points, Outcomes, Failures, NodeStatuses, Settled,
        PassTypes, PassFacts
<1>2. JobTypes'
    BY <1>1 DEF NodeUnavailable, JobTypes, RunStatuses
<1>3. NodeTypes'
    BY <1>1 DEF NodeUnavailable, NodeTypes, NodeStatuses, SkipReasons, Settled
<1>4. PassTypes'
    BY <1>1 DEF NodeUnavailable, PassTypes, PassFacts, AtNode, Other
<1>5. OwnRows'
    BY <1>1 DEF NodeUnavailable, OwnRows, WritesOwnRows, InEngine, AtNode, PassTypes, Other
<1>6. MarkedFirst'
    BY <1>1 DEF NodeUnavailable, JobTypes, PassTypes, PassFacts, AtNode, MarkedFirst, Unfired,
        Runs, Other
<1>7. InOrder'
    BY <1>1 DEF NodeUnavailable, OnePassAtATime, InOrder, NodeTypes, BegunInOrder
<1>8. Behind'
    BY <1>1 DEF NodeUnavailable, OnePassAtATime, Behind, NodeTypes, DecidedBehind,
        EngineSettled, RunStatuses, InEngine, AtNode, PassTypes
<1> QED
    BY <1>2, <1>3, <1>4, <1>5, <1>6, <1>7, <1>8

\* Preservation: a plain node returns.
LEMMA PlainNodeInv == ASSUME Inv, NEW i \in Positions, PlainNode(i) PROVE Inv'
<1> USE DEF Inv, jobVars, journalVars, subrunVars, passVars, historyVars, overlapVars
<1>1. PICK result \in {"completed", "paused", "retryable_failure", "terminal_failure"} :
          HandlerReturns(i, result)
    BY DEF PlainNode
<1>2. /\ pass' \in PassSet
      /\ pass'.pos = i /\ pass'.at \in {"invoke", "record"}
      /\ pass'.at = "record" => pass'.outcome \in Outcomes
    BY <1>1, ReturnKeeps DEF PlainNode
<1>3. JobTypes'
    BY <1>2 DEF PlainNode, JobTypes, RunStatuses
<1>4. NodeTypes'
    BY <1>2 DEF PlainNode, NodeTypes, NodeStatuses, SkipReasons, Settled
<1>5. PassTypes'
    BY <1>2 DEF PlainNode, PassTypes, PassFacts, AtNode, Other
<1>6. OwnRows'
    BY <1>2 DEF PlainNode, OwnRows, WritesOwnRows, InEngine, AtNode, PassTypes, Other
<1>7. MarkedFirst'
    BY <1>2 DEF PlainNode, JobTypes, PassTypes, PassFacts, AtNode, MarkedFirst, Unfired, Runs,
        Other
<1>8. InOrder'
    BY <1>2 DEF PlainNode, OnePassAtATime, InOrder, NodeTypes, BegunInOrder
<1>9. Behind'
    BY <1>2 DEF PlainNode, OnePassAtATime, Behind, NodeTypes, DecidedBehind, EngineSettled,
        RunStatuses, InEngine, AtNode, PassTypes
<1> QED
    BY <1>3, <1>4, <1>5, <1>6, <1>7, <1>8, <1>9

\* Preservation: the outcome is written.
LEMMA RecordNodeInv == ASSUME Inv, NEW i \in Positions, RecordNode(i) PROVE Inv'
<1> USE DEF Inv, jobVars, journalVars, subrunVars, passVars, historyVars, overlapVars
<1>1. /\ pass' = [Idle EXCEPT !.at = "step", !.pos = i + 1, !.stopped = (pass.outcome \in Failures)]
      /\ pass.pos = i /\ pass.at = "record" /\ i \in Nat
    BY PositionsFacts DEF RecordNode
<1>2. (pass.outcome \in Failures) \in BOOLEAN
    BY DEF PassTypes, PassFacts, PassSet
<1>3. pass' \in PassSet /\ pass'.at = "step" /\ pass'.pos = i + 1
    BY <1>1, <1>2, SteppedPass
<1>4. pass.outcome \in Outcomes /\ i \in Positions
    BY <1>1, <1>3 DEF PassTypes, PassFacts
<1>5. pass.outcome \in NodeStatuses /\ pass.outcome \notin {"none", "running", "skipped"}
    BY <1>1, <1>3, <1>4 DEF Outcomes, NodeStatuses, Settled, Failures
<1>6. seen' \in Rows /\ \A j \in Positions : (j = i \/ seen[j] = nodes[j]) => seen'[j] = nodes'[j]
    BY <1>1, <1>3, <1>4, <1>5, WrittenCopy DEF RecordNode, SkipReasons, NodeTypes
<1>7. /\ NodeTypes' /\ nodes'[i].status = pass.outcome /\ nodes'[i].reason = ""
      /\ \A j \in Positions : j # i => nodes'[j] = nodes[j]
    BY <1>1, <1>3, <1>4, <1>5, <1>6, WrittenNode DEF RecordNode, SkipReasons, NodeTypes
<1>8. JobTypes'
    BY <1>1, <1>3, <1>4, <1>5, <1>6, <1>7 DEF RecordNode, JobTypes, RunStatuses
<1>9. NodeTypes'
    BY <1>1, <1>3, <1>4, <1>5, <1>6, <1>7 DEF RecordNode, NodeTypes, NodeStatuses, SkipReasons,
        Settled
<1>10. PassTypes'
    BY <1>1, <1>3, <1>4, <1>5, <1>6, <1>7 DEF RecordNode, PassTypes, PassFacts, AtNode, Other
<1>11. OwnRows'
    BY <1>1, <1>3, <1>4, <1>5, <1>6, <1>7, PositionsFacts DEF RecordNode, OwnRows,
        WritesOwnRows, InEngine, AtNode, PassTypes, Other
<1>12. MarkedFirst'
    BY <1>1, <1>3, <1>4, <1>5, <1>6, <1>7 DEF RecordNode, JobTypes, PassTypes, PassFacts,
        AtNode, MarkedFirst, Unfired, Runs, Other
<1>13. InOrder'
    <2> SUFFICES ASSUME OnePassAtATime' PROVE BegunInOrder'
        BY DEF InOrder
    <2>1. OnePassAtATime /\ BegunInOrder /\ WritesOwnRows
        BY DEF RecordNode, OnePassAtATime, InOrder, OwnRows
    <2>2. nodes[i].status = "running"
        BY <1>1, <2>1 DEF WritesOwnRows, AtNode
    <2>3. \A d \in Steps[i].deps : nodes[d].status = "completed"
        BY <1>4, <2>1, <2>2 DEF BegunInOrder
    <2> QED
        BY <1>4, <1>7, <2>1, <2>2, <2>3, OrderKept
<1>14. Behind'
    <2> SUFFICES ASSUME OnePassAtATime' PROVE DecidedBehind'
        BY DEF Behind
    <2>1. OnePassAtATime /\ DecidedBehind /\ WritesOwnRows
        BY DEF RecordNode, OnePassAtATime, Behind, OwnRows
    <2>2. UNCHANGED header /\ pass.at \in InEngine
        BY <1>1 DEF RecordNode, InEngine, AtNode
    <2> QED
        BY <1>1, <1>3, <1>5, <1>7, <2>1, <2>2, DecidedStep
<1> QED
    BY <1>8, <1>9, <1>10, <1>11, <1>12, <1>13, <1>14

\* Preservation: an agent node ends before its guard's reads.
LEMMA AgentGuardFailsInv == ASSUME Inv, NEW i \in Agents, AgentGuardFails(i) PROVE Inv'
<1> USE DEF Inv, jobVars, journalVars, subrunVars, passVars, historyVars, overlapVars
<1>1. i \in Positions
    BY DEF Agents
<1>2. PICK result \in {"terminal_failure"} :
          HandlerReturns(i, result)
    BY DEF AgentGuardFails
<1>3. /\ pass' \in PassSet
      /\ pass'.pos = i /\ pass'.at \in {"invoke", "record"}
      /\ pass'.at = "record" => pass'.outcome \in Outcomes
    BY <1>1, <1>2, ReturnKeeps DEF AtAgent, AgentGuardFails
<1>4. JobTypes'
    BY <1>1, <1>3 DEF AgentGuardFails, AtAgent, JobTypes, RunStatuses
<1>5. NodeTypes'
    BY <1>1, <1>3 DEF AgentGuardFails, AtAgent, NodeTypes, NodeStatuses, SkipReasons, Settled
<1>6. PassTypes'
    BY <1>1, <1>3 DEF AgentGuardFails, AtAgent, PassTypes, PassFacts, AtNode, Other
<1>7. OwnRows'
    BY <1>1, <1>3 DEF AgentGuardFails, AtAgent, OwnRows, WritesOwnRows, InEngine, AtNode,
        PassTypes, Other
<1>8. MarkedFirst'
    BY <1>1, <1>3 DEF AgentGuardFails, AtAgent, JobTypes, PassTypes, PassFacts, AtNode,
        MarkedFirst, Unfired, Runs, Other
<1>9. InOrder'
    BY <1>1, <1>3 DEF AgentGuardFails, AtAgent, OnePassAtATime, InOrder, NodeTypes, BegunInOrder
<1>10. Behind'
    BY <1>1, <1>3 DEF AgentGuardFails, AtAgent, OnePassAtATime, Behind, NodeTypes,
        DecidedBehind, EngineSettled, RunStatuses, InEngine, AtNode, PassTypes
<1> QED
    BY <1>4, <1>5, <1>6, <1>7, <1>8, <1>9, <1>10

\* Preservation: the guard reads the sub-run's header.
LEMMA AttachOrGuardInv == ASSUME Inv, NEW i \in Agents, AttachOrGuard(i) PROVE Inv'
<1> USE DEF Inv, jobVars, journalVars, subrunVars, passVars, historyVars, overlapVars
<1>1. i \in Positions
    BY DEF Agents
<1>2. /\ pass' \in PassSet /\ pass'.pos = i
      /\ pass'.at \in {"invoke", "guard", "record"}
      /\ pass'.at = "record" => pass'.outcome \in Outcomes
    <2>1. CASE HandlerReturns(i, "completed")
        BY <1>1, <2>1, ReturnKeeps DEF AtAgent, AttachOrGuard
    <2>2. CASE pass' = At("guard")
        BY <1>1, <2>2, MovedPass DEF AtAgent, AttachOrGuard, At, Points, PassTypes, PassFacts
    <2> QED
        BY <2>1, <2>2 DEF AttachOrGuard
<1>3. JobTypes'
    BY <1>1, <1>2 DEF AttachOrGuard, AtAgent, JobTypes, RunStatuses
<1>4. NodeTypes'
    BY <1>1, <1>2 DEF AttachOrGuard, AtAgent, NodeTypes, NodeStatuses, SkipReasons, Settled
<1>5. PassTypes'
    BY <1>1, <1>2 DEF AttachOrGuard, AtAgent, PassTypes, PassFacts, AtNode, Other
<1>6. OwnRows'
    BY <1>1, <1>2 DEF AttachOrGuard, AtAgent, OwnRows, WritesOwnRows, InEngine, AtNode,
        PassTypes, Other
<1>7. MarkedFirst'
    BY <1>1, <1>2 DEF AttachOrGuard, AtAgent, JobTypes, PassTypes, PassFacts, AtNode,
        MarkedFirst, Unfired, Runs, Other
<1>8. InOrder'
    BY <1>1, <1>2 DEF AttachOrGuard, AtAgent, OnePassAtATime, InOrder, NodeTypes, BegunInOrder
<1>9. Behind'
    BY <1>1, <1>2 DEF AttachOrGuard, AtAgent, OnePassAtATime, Behind, NodeTypes, DecidedBehind,
        EngineSettled, RunStatuses, InEngine, AtNode, PassTypes
<1> QED
    BY <1>3, <1>4, <1>5, <1>6, <1>7, <1>8, <1>9

\* Preservation: the guard reads the marker.
LEMMA QuarantineInv == ASSUME Inv, NEW i \in Agents, Quarantine(i) PROVE Inv'
<1> USE DEF Inv, jobVars, journalVars, subrunVars, passVars, historyVars, overlapVars
<1>1. i \in Positions
    BY DEF Agents
<1>2. PICK result \in {"agent_rerun_hazard"} :
          HandlerReturns(i, result)
    BY DEF Quarantine
<1>3. /\ pass' \in PassSet
      /\ pass'.pos = i /\ pass'.at \in {"invoke", "record"}
      /\ pass'.at = "record" => pass'.outcome \in Outcomes
    BY <1>1, <1>2, ReturnKeeps DEF AtAgent, Quarantine
<1>4. JobTypes'
    BY <1>1, <1>3 DEF Quarantine, AtAgent, JobTypes, RunStatuses
<1>5. NodeTypes'
    BY <1>1, <1>3 DEF Quarantine, AtAgent, NodeTypes, NodeStatuses, SkipReasons, Settled
<1>6. PassTypes'
    BY <1>1, <1>3 DEF Quarantine, AtAgent, PassTypes, PassFacts, AtNode, Other
<1>7. OwnRows'
    BY <1>1, <1>3 DEF Quarantine, AtAgent, OwnRows, WritesOwnRows, InEngine, AtNode, PassTypes,
        Other
<1>8. MarkedFirst'
    BY <1>1, <1>3 DEF Quarantine, AtAgent, JobTypes, PassTypes, PassFacts, AtNode, MarkedFirst,
        Unfired, Runs, Other
<1>9. InOrder'
    BY <1>1, <1>3 DEF Quarantine, AtAgent, OnePassAtATime, InOrder, NodeTypes, BegunInOrder
<1>10. Behind'
    BY <1>1, <1>3 DEF Quarantine, AtAgent, OnePassAtATime, Behind, NodeTypes, DecidedBehind,
        EngineSettled, RunStatuses, InEngine, AtNode, PassTypes
<1> QED
    BY <1>4, <1>5, <1>6, <1>7, <1>8, <1>9, <1>10

\* Preservation: the agent starts.
LEMMA StartAgentInv == ASSUME Inv, NEW i \in Agents, StartAgent(i) PROVE Inv'
<1> USE DEF Inv, jobVars, journalVars, subrunVars, passVars, historyVars, overlapVars
<1>1. i \in Positions
    BY DEF Agents
<1>2. pass' \in PassSet /\ pass'.at = "agent" /\ pass'.pos = pass.pos /\ pass'.fired = pass.fired
    BY <1>1, MovedPass DEF StartAgent, At, Points, PassTypes, PassFacts
<1>3. JobTypes'
    BY <1>1, <1>2 DEF StartAgent, AtAgent, MayRun, OtherRuns, JobTypes, RunStatuses
<1>4. NodeTypes'
    BY <1>1, <1>2 DEF StartAgent, AtAgent, MayRun, OtherRuns, NodeTypes, NodeStatuses,
        SkipReasons, Settled
<1>5. PassTypes'
    BY <1>1, <1>2 DEF StartAgent, AtAgent, MayRun, OtherRuns, PassTypes, PassFacts, AtNode,
        Other
<1>6. OwnRows'
    BY <1>1, <1>2 DEF StartAgent, AtAgent, MayRun, OtherRuns, OwnRows, WritesOwnRows, InEngine,
        AtNode, PassTypes, Other
<1>7. MarkedFirst'
    BY <1>1, <1>2 DEF StartAgent, AtAgent, MayRun, OtherRuns, JobTypes, PassTypes, PassFacts,
        AtNode, MarkedFirst, Unfired, Runs, Other
<1>8. InOrder'
    BY <1>1, <1>2 DEF StartAgent, AtAgent, MayRun, OtherRuns, OnePassAtATime, InOrder,
        NodeTypes, BegunInOrder
<1>9. Behind'
    BY <1>1, <1>2 DEF StartAgent, AtAgent, MayRun, OtherRuns, OnePassAtATime, Behind, NodeTypes,
        DecidedBehind, EngineSettled, RunStatuses, InEngine, AtNode, PassTypes
<1> QED
    BY <1>3, <1>4, <1>5, <1>6, <1>7, <1>8, <1>9

\* Preservation: the marker is written.
LEMMA MarkTaintInv == ASSUME Inv, NEW i \in Agents, MarkTaint(i) PROVE Inv'
<1> USE DEF Inv, jobVars, journalVars, subrunVars, passVars, historyVars, overlapVars
<1>1. i \in Positions
    BY DEF Agents
<1>2. pass' \in PassSet /\ pass'.at = "fire" /\ pass'.pos = pass.pos /\ pass'.fired = pass.fired
    BY <1>1, MovedPass DEF MarkTaint, At, Points, PassTypes, PassFacts
<1>3. JobTypes'
    BY <1>1, <1>2 DEF MarkTaint, AtAgent, JobTypes, RunStatuses
<1>4. NodeTypes'
    BY <1>1, <1>2 DEF MarkTaint, AtAgent, NodeTypes, NodeStatuses, SkipReasons, Settled
<1>5. PassTypes'
    BY <1>1, <1>2 DEF MarkTaint, AtAgent, PassTypes, PassFacts, AtNode, Other
<1>6. OwnRows'
    BY <1>1, <1>2 DEF MarkTaint, AtAgent, OwnRows, WritesOwnRows, InEngine, AtNode, PassTypes,
        Other
<1>7. MarkedFirst'
    BY <1>1, <1>2 DEF MarkTaint, AtAgent, JobTypes, PassTypes, PassFacts, AtNode, MarkedFirst,
        Unfired, Runs, Other
<1>8. InOrder'
    BY <1>1, <1>2 DEF MarkTaint, AtAgent, OnePassAtATime, InOrder, NodeTypes, BegunInOrder
<1>9. Behind'
    BY <1>1, <1>2 DEF MarkTaint, AtAgent, OnePassAtATime, Behind, NodeTypes, DecidedBehind,
        EngineSettled, RunStatuses, InEngine, AtNode, PassTypes
<1> QED
    BY <1>3, <1>4, <1>5, <1>6, <1>7, <1>8, <1>9

\* Preservation: the tool fires.
LEMMA FireToolInv == ASSUME Inv, NEW i \in Agents, FireTool(i) PROVE Inv'
<1> USE DEF Inv, jobVars, journalVars, subrunVars, passVars, historyVars, overlapVars
<1>1. i \in Positions
    BY DEF Agents
<1>2. pass' \in PassSet /\ pass'.at = "agent" /\ pass'.pos = i /\ pass'.fired
    BY <1>1 DEF FireTool, AtAgent, PassSet, Points, PassTypes, PassFacts
<1>3. JobTypes'
    BY <1>1, <1>2 DEF FireTool, AtAgent, JobTypes, RunStatuses
<1>4. NodeTypes'
    BY <1>1, <1>2 DEF FireTool, AtAgent, NodeTypes, NodeStatuses, SkipReasons, Settled
<1>5. PassTypes'
    BY <1>1, <1>2 DEF FireTool, AtAgent, PassTypes, PassFacts, AtNode, Other
<1>6. OwnRows'
    BY <1>1, <1>2 DEF FireTool, AtAgent, OwnRows, WritesOwnRows, InEngine, AtNode, PassTypes,
        Other
<1>7. MarkedFirst'
    BY <1>1, <1>2 DEF FireTool, AtAgent, JobTypes, PassTypes, PassFacts, AtNode, MarkedFirst,
        Unfired, Runs, Other
<1>8. InOrder'
    BY <1>1, <1>2 DEF FireTool, AtAgent, OnePassAtATime, InOrder, NodeTypes, BegunInOrder
<1>9. Behind'
    BY <1>1, <1>2 DEF FireTool, AtAgent, OnePassAtATime, Behind, NodeTypes, DecidedBehind,
        EngineSettled, RunStatuses, InEngine, AtNode, PassTypes
<1> QED
    BY <1>3, <1>4, <1>5, <1>6, <1>7, <1>8, <1>9

\* Preservation: the agent run fails.
LEMMA AgentFailsInv == ASSUME Inv, NEW i \in Agents, AgentFails(i) PROVE Inv'
<1> USE DEF Inv, jobVars, journalVars, subrunVars, passVars, historyVars, overlapVars
<1>1. i \in Positions
    BY DEF Agents
<1>2. PICK result \in {"retryable_failure", "terminal_failure"} :
          HandlerReturns(i, result)
    BY DEF AgentFails
<1>3. /\ pass' \in PassSet
      /\ pass'.pos = i /\ pass'.at \in {"invoke", "record"}
      /\ pass'.at = "record" => pass'.outcome \in Outcomes
    BY <1>1, <1>2, ReturnKeeps DEF AtAgent, AgentFails
<1>4. JobTypes'
    BY <1>1, <1>3 DEF AgentFails, AtAgent, JobTypes, RunStatuses
<1>5. NodeTypes'
    BY <1>1, <1>3 DEF AgentFails, AtAgent, NodeTypes, NodeStatuses, SkipReasons, Settled
<1>6. PassTypes'
    BY <1>1, <1>3 DEF AgentFails, AtAgent, PassTypes, PassFacts, AtNode, Other
<1>7. OwnRows'
    BY <1>1, <1>3 DEF AgentFails, AtAgent, OwnRows, WritesOwnRows, InEngine, AtNode, PassTypes,
        Other
<1>8. MarkedFirst'
    BY <1>1, <1>3 DEF AgentFails, AtAgent, JobTypes, PassTypes, PassFacts, AtNode, MarkedFirst,
        Unfired, Runs, Other
<1>9. InOrder'
    BY <1>1, <1>3 DEF AgentFails, AtAgent, OnePassAtATime, InOrder, NodeTypes, BegunInOrder
<1>10. Behind'
    BY <1>1, <1>3 DEF AgentFails, AtAgent, OnePassAtATime, Behind, NodeTypes, DecidedBehind,
        EngineSettled, RunStatuses, InEngine, AtNode, PassTypes
<1> QED
    BY <1>4, <1>5, <1>6, <1>7, <1>8, <1>9, <1>10

\* Preservation: the sub-run settles.
LEMMA CompleteSubRunInv == ASSUME Inv, NEW i \in Agents, CompleteSubRun(i) PROVE Inv'
<1> USE DEF Inv, jobVars, journalVars, subrunVars, passVars, historyVars, overlapVars
<1>1. i \in Positions
    BY DEF Agents
<1>2. pass' \in PassSet /\ pass'.at = "ended" /\ pass'.pos = pass.pos /\ pass'.fired = pass.fired
    BY <1>1, MovedPass DEF CompleteSubRun, At, Points, PassTypes, PassFacts
<1>3. JobTypes'
    BY <1>1, <1>2 DEF CompleteSubRun, AtAgent, JobTypes, RunStatuses
<1>4. NodeTypes'
    BY <1>1, <1>2 DEF CompleteSubRun, AtAgent, NodeTypes, NodeStatuses, SkipReasons, Settled
<1>5. PassTypes'
    BY <1>1, <1>2 DEF CompleteSubRun, AtAgent, PassTypes, PassFacts, AtNode, Other
<1>6. OwnRows'
    BY <1>1, <1>2 DEF CompleteSubRun, AtAgent, OwnRows, WritesOwnRows, InEngine, AtNode,
        PassTypes, Other
<1>7. MarkedFirst'
    BY <1>1, <1>2 DEF CompleteSubRun, AtAgent, JobTypes, PassTypes, PassFacts, AtNode,
        MarkedFirst, Unfired, Runs, Other
<1>8. InOrder'
    BY <1>1, <1>2 DEF CompleteSubRun, AtAgent, OnePassAtATime, InOrder, NodeTypes, BegunInOrder
<1>9. Behind'
    BY <1>1, <1>2 DEF CompleteSubRun, AtAgent, OnePassAtATime, Behind, NodeTypes, DecidedBehind,
        EngineSettled, RunStatuses, InEngine, AtNode, PassTypes
<1> QED
    BY <1>3, <1>4, <1>5, <1>6, <1>7, <1>8, <1>9

\* Preservation: the handler returns.
LEMMA AgentCompletesInv == ASSUME Inv, NEW i \in Agents, AgentCompletes(i) PROVE Inv'
<1> USE DEF Inv, jobVars, journalVars, subrunVars, passVars, historyVars, overlapVars
<1>1. i \in Positions
    BY DEF Agents
<1>2. PICK result \in {"completed"} :
          HandlerReturns(i, result)
    BY DEF AgentCompletes
<1>3. /\ pass' \in PassSet
      /\ pass'.pos = i /\ pass'.at \in {"invoke", "record"}
      /\ pass'.at = "record" => pass'.outcome \in Outcomes
    BY <1>1, <1>2, ReturnKeeps DEF AtAgent, AgentCompletes
<1>4. JobTypes'
    BY <1>1, <1>3 DEF AgentCompletes, AtAgent, JobTypes, RunStatuses
<1>5. NodeTypes'
    BY <1>1, <1>3 DEF AgentCompletes, AtAgent, NodeTypes, NodeStatuses, SkipReasons, Settled
<1>6. PassTypes'
    BY <1>1, <1>3 DEF AgentCompletes, AtAgent, PassTypes, PassFacts, AtNode, Other
<1>7. OwnRows'
    BY <1>1, <1>3 DEF AgentCompletes, AtAgent, OwnRows, WritesOwnRows, InEngine, AtNode,
        PassTypes, Other
<1>8. MarkedFirst'
    BY <1>1, <1>3 DEF AgentCompletes, AtAgent, JobTypes, PassTypes, PassFacts, AtNode,
        MarkedFirst, Unfired, Runs, Other
<1>9. InOrder'
    BY <1>1, <1>3 DEF AgentCompletes, AtAgent, OnePassAtATime, InOrder, NodeTypes, BegunInOrder
<1>10. Behind'
    BY <1>1, <1>3 DEF AgentCompletes, AtAgent, OnePassAtATime, Behind, NodeTypes, DecidedBehind,
        EngineSettled, RunStatuses, InEngine, AtNode, PassTypes
<1> QED
    BY <1>4, <1>5, <1>6, <1>7, <1>8, <1>9, <1>10

\* The invariant holds initially.
LEMMA InitInv == Init => Inv
<1> SUFFICES ASSUME Init PROVE Inv
    OBVIOUS
<1>1. NodeTypes /\ \A i \in Positions : nodes[i].reason = "" /\ nodes[i].status = "none"
    BY EmptyRows DEF Init, Node, NodeTypes, NoRows
<1>2. JobTypes
    <2>1. header = Header("none")
        BY HeaderFacts DEF Init
    <2>2. recoveries \in 0..MaxRecoveries /\ fired \in [Positions -> Nat]
        <3>1. MaxRecoveries \in Nat /\ recoveries = 0
            BY WorkflowAssumption DEF Init, WorkflowAssumption
        <3>2. fired \in [Positions -> Nat]
            BY DEF Init
        <3> QED
            BY <3>1, <3>2
    <2> QED
        BY <2>1, <2>2 DEF Init, JobTypes
<1>3. pass.at = "idle" /\ Other.at = "idle" /\ pass.pos = 1
    BY IdlePass DEF Init, Other
<1>4. PassTypes
    <2>1. aside \in PassSet \X Rows /\ pass \in PassSet /\ Other \in PassSet
        BY IdlePass, EmptyRows DEF Init, Other
    <2> QED
        BY <1>3, <2>1 DEF Init, PassTypes, PassFacts, AtNode
<1>5. OwnRows
    BY <1>3 DEF OwnRows, WritesOwnRows, InEngine, AtNode
<1>6. MarkedFirst
    <2>1. \A i \in Agents : fired[i] = 0
        BY DEF Init, Agents
    <2> QED
        BY <1>3, <2>1 DEF MarkedFirst, Unfired, Runs
<1>7. InOrder /\ Behind
    BY <1>1, <1>3, HeaderFacts DEF Init, InOrder, Behind, BegunInOrder, DecidedBehind, InEngine,
        AtNode, EngineSettled, RunStatuses
<1> QED
    BY <1>1, <1>2, <1>4, <1>5, <1>6, <1>7 DEF Inv

\* Every step keeps it.
LEMMA NextInv == ASSUME Inv, [Next]_vars PROVE Inv'
<1>1. CASE JobStep
    BY <1>1, EnqueueInv, DequeueInv, RedispatchInv, SwitchInv, CrashInv, DatabaseFailsInv
       DEF JobStep
<1>2. CASE ResolveStep
    BY <1>2, ResolveInv, EnsureFailedRunInv, MarkResolveFailureInv, RethrowInv DEF ResolveStep
<1>3. CASE EngineStep
    BY <1>3, EnsureRunInv, LoadRowsInv, ComputeStatusInv, FinalizeRunInv, ReturnInv,
       ReuseNodeInv, SkipNodeInv, BeginNodeInv, NodeUnavailableInv, PlainNodeInv, RecordNodeInv
       DEF EngineStep
<1>4. CASE AgentStep
    BY <1>4, AgentGuardFailsInv, AttachOrGuardInv, QuarantineInv, StartAgentInv, MarkTaintInv,
       FireToolInv, AgentFailsInv, CompleteSubRunInv, AgentCompletesInv DEF AgentStep
<1>5. CASE UNCHANGED vars
    <2> USE DEF vars, jobVars, journalVars, subrunVars, passVars, historyVars, overlapVars
    <2>1. JobTypes' /\ NodeTypes'
        BY <1>5 DEF Inv, JobTypes, NodeTypes
    <2>2. PassTypes'
        <3>1. pass' = pass /\ Other' = Other /\ aside' = aside
            BY <1>5 DEF Other
        <3> QED
            BY <1>5, <3>1 DEF Inv, PassTypes, PassFacts
    <2>3. OwnRows' /\ MarkedFirst'
        BY <1>5 DEF Inv, OwnRows, WritesOwnRows, MarkedFirst, Unfired, Runs, Other
    <2>4. InOrder' /\ Behind'
        BY <1>5 DEF Inv, InOrder, Behind, OnePassAtATime, BegunInOrder, DecidedBehind,
            EngineSettled
    <2> QED
        BY <2>1, <2>2, <2>3, <2>4 DEF Inv
<1> QED
    BY <1>1, <1>2, <1>3, <1>4, <1>5 DEF Next, PassStep

\* The inductive invariant of the workflow run, with recoveries beside live passes: a tool is
\* marked before it fires, a pass alone writes rows it owns and has read; and as long as one pass
\* ran at a time, nodes begin in the order of the graph, and what is behind is decided.
THEOREM RunInvariant == Spec => []Inv
<1> QED
    BY InitInv, NextInv, PTL DEF Spec

\* The job, the header, the rows and both passes always have their types, and a row has a skip
\* reason exactly when it is skipped.
THEOREM TypeCorrect == Spec => []TypeOK
<1>1. Inv => TypeOK
    <2> SUFFICES ASSUME Inv PROVE TypeOK
        OBVIOUS
    <2>1. pass \in Passes /\ aside \in Passes \X Rows
        BY DEF Inv, PassTypes, PassFacts, PassSet, Points, Passes
    <2> QED
        BY <2>1 DEF Inv, TypeOK, JobTypes, NodeTypes, PassTypes
<1> QED
    BY <1>1, RunInvariant, PTL

\* Retries, crashes and recoveries, those beside a live pass included, never make an agent node's
\* non-idempotent tool fire in a second execution, for every workflow, unless two passes had read
\* the absent marker before either wrote it and executed the node at once.
THEOREM FiresOnceAlways == Spec => []FiresOnce
<1>1. Inv => FiresOnce
    BY DEF Inv, MarkedFirst, FiresOnce
<1> QED
    BY <1>1, RunInvariant, PTL

\* As long as one pass ran at a time, a settled run has a verdict on every node, and none ran
\* before its dependencies completed.
THEOREM NodesDecided == Spec => []EveryNodeIsDecided
<1>1. Inv => EveryNodeIsDecided
    BY DEF Inv, InOrder, Behind, BegunInOrder, DecidedBehind, EveryNodeIsDecided
<1> QED
    BY <1>1, RunInvariant, PTL

\* A pass that has been alone since it was dequeued replaces no verdict, whatever passes beside
\* each other wrote before it: it writes a header that is absent, `running` or its own, and the row
\* of a node it read as not completed.
THEOREM VerdictsKept == Spec => VerdictsAreFinal
<1> DEFINE Keeps == overlap # "now" =>
                        /\ header.status \in RunStatuses => header' = header
                        /\ \A i \in Positions :
                               nodes[i].status = "completed" => nodes'[i] = nodes[i]
<1>1. Inv /\ [Next]_vars => [Keeps]_vars
    <2> SUFFICES ASSUME Inv, [Next]_vars, overlap # "now"
                 PROVE  /\ header.status \in RunStatuses => header' = header
                        /\ \A i \in Positions :
                               nodes[i].status = "completed" => nodes'[i] = nodes[i]
        OBVIOUS
    <2> HIDE DEF Keeps
    <2> USE DEF jobVars, journalVars, subrunVars, passVars, historyVars, overlapVars
    <2>1. WritesOwnRows /\ NodeTypes
        BY DEF Inv, OwnRows
    <2>2. CASE JobStep
        BY <2>2 DEF JobStep, Enqueue, Dequeue, Redispatch, Switch, Crash, DatabaseFails, End
    <2>3. CASE ResolveStep
        <3>1. CASE EnsureFailedRun
            BY <3>1, HeaderFacts DEF EnsureFailedRun, OwnHeader, RunStatuses
        <3>2. CASE MarkResolveFailure
            <4>1. header \in {Header("running"), ResolveFailure}
                BY <2>1, <3>2 DEF MarkResolveFailure, WritesOwnRows
            <4>2. header.status \in RunStatuses => header = ResolveFailure
                BY <4>1, HeaderFacts DEF RunStatuses
            <4> QED
                BY <3>2, <4>2 DEF MarkResolveFailure
        <3>3. CASE Resolve \/ Rethrow
            BY <3>3 DEF Resolve, Rethrow, End
        <3> QED
            BY <2>3, <3>1, <3>2, <3>3 DEF ResolveStep
    <2>4. CASE EngineStep
        <3>1. CASE EnsureRun
            BY <3>1, HeaderFacts DEF EnsureRun, RunStatuses
        <3>2. CASE FinalizeRun
            BY <2>1, <3>2, HeaderFacts DEF FinalizeRun, WritesOwnRows, InEngine, RunStatuses
        <3>3. CASE LoadRows \/ ComputeStatus \/ Return
            BY <3>3 DEF LoadRows, ComputeStatus, Return, End
        <3>4. ASSUME NEW i \in Positions,
                     \/ ReuseNode(i) \/ SkipNode(i) \/ BeginNode(i) \/ NodeUnavailable(i)
                     \/ PlainNode(i) \/ RecordNode(i)
              PROVE  /\ header.status \in RunStatuses => header' = header
                     /\ \A j \in Positions : nodes[j].status = "completed" => nodes'[j] = nodes[j]
            <4>1. CASE SkipNode(i) \/ BeginNode(i)
                <5>1. seen[i] = nodes[i] /\ ~SettledForResume(seen[i])
                    BY <4>1, CopyAgrees DEF SkipNode, BeginNode, AtStep
                <5>2. nodes[i].status # "completed"
                    BY <2>1, <5>1, NotReused
                <5>3. UNCHANGED header /\ \E n : nodes' = [nodes EXCEPT ![i] = n]
                    BY <4>1 DEF SkipNode, BeginNode
                <5> QED
                    BY <2>1, <5>2, <5>3 DEF NodeTypes, Rows
            <4>2. CASE RecordNode(i)
                <5>1. nodes[i].status = "running"
                    BY <2>1, <4>2 DEF RecordNode, WritesOwnRows, AtNode
                <5>2. UNCHANGED header /\ \E n : nodes' = [nodes EXCEPT ![i] = n]
                    BY <4>2 DEF RecordNode
                <5> QED
                    BY <2>1, <5>1, <5>2 DEF NodeTypes, Rows
            <4>3. CASE ReuseNode(i) \/ NodeUnavailable(i) \/ PlainNode(i)
                BY <4>3 DEF ReuseNode, NodeUnavailable, PlainNode
            <4> QED
                BY <3>4, <4>1, <4>2, <4>3
        <3> QED
            BY <2>4, <3>1, <3>2, <3>3, <3>4 DEF EngineStep
    <2>5. CASE AgentStep
        BY <2>5 DEF AgentStep, AgentGuardFails, AttachOrGuard, Quarantine, StartAgent, MarkTaint,
            FireTool, AgentFails, CompleteSubRun, AgentCompletes
    <2>6. CASE UNCHANGED vars
        BY <2>6 DEF vars
    <2> QED
        BY <2>2, <2>3, <2>4, <2>5, <2>6 DEF Next, PassStep
<1> QED
    BY <1>1, RunInvariant, PTL DEF Spec, VerdictsAreFinal

----------------------------------------------------------------------------
(***************************************************************************)
(* What a settled run shows of the executions that were cut and of the     *)
(* nodes it skipped.  The invariant follows the resumption: the stop flag  *)
(* is the failures behind the pass, a node left `running` has only settled *)
(* nodes before it, so the next pass comes back to it, and settled rows    *)
(* are never rewritten.                                                    *)
(***************************************************************************)

\* What Inv says of a pass as long as there was one at a time.
Alone ==
    /\ JobTypes /\ NodeTypes /\ PassTypes /\ Other.at = "idle"
    /\ WritesOwnRows /\ MarkedFirst /\ BegunInOrder /\ DecidedBehind

\* The stop flag says whether a node behind the pass failed; without it all of them are settled
\* for a resumption, or paused.
StopFlag ==
    /\ pass.at \notin InEngine \cup {"finalize", "return"} => ~pass.stopped
    /\ pass.at \in AtNode => ~pass.stopped
    /\ pass.at \in InEngine /\ ~pass.stopped =>
           \A j \in Positions : j < pass.pos =>
               SettledForResume(nodes[j]) \/ nodes[j].status = "paused"
    /\ pass.at \in InEngine /\ pass.stopped =>
           \E j \in Positions : j < pass.pos /\ nodes[j].status \in Failures

PausesKept == \A j \in Positions : nodes[j].status = "paused" => j \in paused

PausedBefore(i) == \E j \in paused : j < i

SettledBefore(i) == \A j \in Positions : j < i => SettledForResume(nodes[j])

\* A node that was left `running` has only settled nodes before it, unless one of them paused.
CutInOrder ==
    \A i \in Positions : nodes[i].status = "running" => PausedBefore(i) \/ SettledBefore(i)

\* The executions that were cut, and neither attached to nor given up unseen.
Exposed == torn \ (completed \cup unguarded)

\* No execution goes on in a node, nor ends it in another verdict than quarantined.
OnlyQuarantines(i) ==
    pass.pos = i => /\ pass.at \notin {"agent", "fire"}
                    /\ pass.at = "record" => pass.outcome = "quarantined"

\* A cut execution carries the marker, and its node waits to be quarantined or is.
CutTracked ==
    /\ torn \subseteq tainted
    /\ \A i \in Exposed :
           \/ PausedBefore(i)
           \/ nodes[i].status \in {"running", "quarantined"} /\ OnlyQuarantines(i)

HaltExplained(i) ==
    nodes[i].reason = "workflow_already_stopped" =>
        \E j \in Positions : j < i /\ nodes[j].status \in Failures

\* A dependency skip has a dependency that is quarantined, or one that is settled without having
\* completed or that paused.
DependencyExplained(i) ==
    /\ nodes[i].reason = "quarantined_upstream" =>
           \E d \in Steps[i].deps : nodes[d].status = "quarantined"
    /\ nodes[i].reason = "dependency_failure" =>
           \E d \in Steps[i].deps :
               \/ d \in paused
               \/ SettledForResume(nodes[d]) /\ nodes[d].status # "completed"

\* The skips behind the pass, and all skips of a settled run, are explained.
SkipsTraced ==
    /\ \A i \in Positions : DependencyExplained(i)
    /\ pass.at \in InEngine => \A i \in Positions : i < pass.pos => HaltExplained(i)
    /\ pass.at = "finalize" \/ EngineSettled => \A i \in Positions : HaltExplained(i)

Traced == StopFlag /\ PausesKept /\ CutInOrder /\ CutTracked /\ SkipsTraced

\* Without passes beside each other the invariant gives all of it.
LEMMA AloneFacts == ASSUME Inv, OnePassAtATime PROVE Alone
BY DEF Inv, OnePassAtATime, OwnRows, InOrder, Behind, Alone

\* At a step the pass reads in its copy what the rows say.
LEMMA CopyOfRows ==
    ASSUME Alone, pass.at = "step"
    PROVE  \A j \in Positions : seen[j] = nodes[j]
BY DEF Alone, WritesOwnRows, InEngine

\* A dependency is an earlier position.
LEMMA EarlierDeps == \A i \in Positions : \A d \in Steps[i].deps : d \in Positions /\ d < i
<1> SUFFICES ASSUME NEW i \in Positions, NEW d \in Steps[i].deps PROVE d \in Positions /\ d < i
    OBVIOUS
<1>1. d \in 1..(i - 1)
    BY WorkflowAssumption DEF WorkflowAssumption, Positions
<1> QED
    BY <1>1, PositionsFacts

\* The pause and the quarantine of a cut node last.
LEMMA CutKept ==
    ASSUME CutTracked, UNCHANGED nodes, paused \subseteq paused', torn' \subseteq torn,
           tainted \subseteq tainted', completed \subseteq completed',
           unguarded \subseteq unguarded',
           \A i \in Exposed : ~PausedBefore(i) => i \in unguarded' \/ OnlyQuarantines(i)'
    PROVE  CutTracked'
BY DEF CutTracked, Exposed, PausedBefore

\* Preservation: a step outside the engine's loop, a stop included.
LEMMA OutsideTraced ==
    ASSUME Alone, Traced, UNCHANGED <<nodes, paused>>,
           pass'.at \notin InEngine, pass'.at \in {"finalize", "return"} \/ ~pass'.stopped,
           tainted \subseteq tainted', completed \subseteq completed',
           unguarded \subseteq unguarded', torn' \subseteq torn \cup CutExecutions,
           (pass'.at = "finalize" \/ EngineSettled') => \A i \in Positions : HaltExplained(i)
    PROVE  Traced'
<1> USE DEF Alone, Traced
<1>1. StopFlag'
    BY DEF StopFlag, InEngine
<1>2. PausesKept' /\ CutInOrder'
    BY DEF PausesKept, CutInOrder, PausedBefore, SettledBefore
<1>3. CutTracked'
    <2>1. \A i \in CutExecutions : i \in tainted /\ nodes[i].status = "running"
        BY DEF CutExecutions, MarkedFirst
    <2>2. \A i : OnlyQuarantines(i)'
        BY DEF OnlyQuarantines, InEngine, AtNode
    <2> QED
        BY <2>1, <2>2 DEF CutTracked, Exposed, PausedBefore
<1>4. SkipsTraced'
    BY DEF SkipsTraced, DependencyExplained, HaltExplained
<1> QED
    BY <1>1, <1>2, <1>3, <1>4

\* Preservation: a step inside a node.
LEMMA InsideTraced ==
    ASSUME Alone, Traced, UNCHANGED <<nodes, paused, torn, header>>,
           pass.at \in AtNode, pass'.at \in AtNode, pass'.pos = pass.pos, ~pass'.stopped,
           tainted \subseteq tainted', completed \subseteq completed',
           unguarded \subseteq unguarded',
           pass.pos \in Exposed /\ ~PausedBefore(pass.pos) =>
               pass.pos \in unguarded' \/ OnlyQuarantines(pass.pos)'
    PROVE  Traced'
<1> USE DEF Alone, Traced
<1>1. StopFlag'
    BY DEF StopFlag, InEngine
<1>2. PausesKept' /\ CutInOrder'
    BY DEF PausesKept, CutInOrder, PausedBefore, SettledBefore
<1>3. CutTracked'
    <2>1. \A i : i # pass.pos => OnlyQuarantines(i)'
        BY DEF OnlyQuarantines
    <2> QED
        BY <2>1, CutKept
<1>4. SkipsTraced'
    BY DEF SkipsTraced, DependencyExplained, HaltExplained, EngineSettled, InEngine, AtNode
<1> QED
    BY <1>1, <1>2, <1>3, <1>4

\* A row that is settled for a resumption is not transient and not one a pass works on.
LEMMA SettledFacts ==
    ASSUME NodeTypes, NEW i \in Positions
    PROVE  /\ SettledForResume(nodes[i]) =>
                  /\ nodes[i].status \notin {"none", "running", "paused"} \cup Failures
                  /\ nodes[i].reason # "workflow_already_stopped"
           /\ nodes[i].status \in Settled \ {"skipped"} => SettledForResume(nodes[i])
           /\ nodes[i].status = "skipped" /\ nodes[i].reason # "workflow_already_stopped" =>
                  SettledForResume(nodes[i])
BY DEF NodeTypes, SettledForResume, TransientSkip, Settled, Failures

\* Writing a row that is not settled leaves what was known of the other rows.
LEMMA RowTraced ==
    ASSUME NodeTypes, Traced, NEW i \in Positions, ~SettledForResume(nodes[i]),
           \A j \in Positions : j # i => nodes'[j] = nodes[j], paused \subseteq paused'
    PROVE  /\ \A j \in Positions : SettledForResume(nodes[j]) => nodes'[j] = nodes[j]
           /\ \A k \in Positions : k # i /\ nodes[k].status = "running" =>
                  PausedBefore(k)' \/ SettledBefore(k)'
           /\ \A k \in Positions : k # i => DependencyExplained(k)'
           /\ \A k \in Positions : k <= i /\ HaltExplained(k) /\ nodes'[k] = nodes[k] =>
                  HaltExplained(k)'
<1>1. \A j \in Positions : SettledForResume(nodes[j]) => nodes'[j] = nodes[j]
    OBVIOUS
<1>2. ASSUME NEW k \in Positions, k # i, nodes[k].status = "running"
      PROVE  PausedBefore(k)' \/ SettledBefore(k)'
    <2>1. CASE PausedBefore(k)
        BY <2>1 DEF PausedBefore
    <2>2. CASE SettledBefore(k)
        BY <2>2, <1>1 DEF SettledBefore
    <2> QED
        BY <1>2, <2>1, <2>2 DEF Traced, CutInOrder
<1>3. ASSUME NEW k \in Positions, k # i
      PROVE  DependencyExplained(k)'
    <2>1. nodes'[k] = nodes[k] /\ DependencyExplained(k)
        BY <1>3 DEF Traced, SkipsTraced
    <2>2. ASSUME NEW d \in Steps[k].deps
          PROVE  /\ nodes[d].status = "quarantined" => nodes'[d] = nodes[d]
                 /\ SettledForResume(nodes[d]) => nodes'[d] = nodes[d]
        <3>1. d \in Positions
            BY EarlierDeps
        <3> QED
            BY <3>1, <1>1, SettledFacts DEF Settled
    <2> QED
        BY <2>1, <2>2 DEF DependencyExplained
<1>4. ASSUME NEW k \in Positions, k <= i, HaltExplained(k), nodes'[k] = nodes[k]
      PROVE  HaltExplained(k)'
    <2>1. \A j \in Positions : j < k => j # i
        BY <1>4, PositionsFacts
    <2> QED
        BY <1>4, <2>1 DEF HaltExplained
<1> QED
    BY <1>1, <1>2, <1>3, <1>4

\* What a handler's return does to the pass.
LEMMA ReturnedPass ==
    ASSUME PassTypes, NEW i \in Positions, pass.pos = i,
           NEW result \in {"completed", "paused", "agent_rerun_hazard", "retryable_failure",
                           "terminal_failure"},
           HandlerReturns(i, result)
    PROVE  /\ pass'.pos = i /\ pass'.at \in AtNode /\ pass'.stopped = pass.stopped
           /\ result = "agent_rerun_hazard" => OnlyQuarantines(i)'
<1> USE DEF PassTypes, PassFacts, PassSet, AtNode, OnlyQuarantines
<1>1. CASE result = "retryable_failure" /\ pass.attempt < Steps[i].attempts
    BY <1>1 DEF HandlerReturns
<1>2. CASE ~(result = "retryable_failure" /\ pass.attempt < Steps[i].attempts)
    <2>1. PICK outcome \in IF result \in {"completed", "paused"} THEN {result}
                           ELSE FailedNode(i, result) :
              pass' = [pass EXCEPT !.at = "record", !.outcome = outcome]
        BY <1>2 DEF HandlerReturns
    <2>2. result = "agent_rerun_hazard" => outcome = "quarantined"
        BY <2>1 DEF FailedNode
    <2>3. /\ pass'.at = "record" /\ pass'.outcome = outcome
          /\ pass'.pos = pass.pos /\ pass'.stopped = pass.stopped
        BY <2>1
    <2> QED
        BY <2>2, <2>3
<1> QED
    BY <1>1, <1>2

\* A pass that did not start the loop has not stopped.
LEMMA MovedStop ==
    ASSUME NEW p \in PassSet, NEW x \in Points
    PROVE  [p EXCEPT !.at = x].stopped = p.stopped
BY DEF PassSet

\* Preservation: the steps of the job.
LEMMA JobTraced == ASSUME Alone, Traced, JobStep PROVE Traced'
<1> USE DEF jobVars, journalVars, subrunVars, passVars, historyVars, overlapVars
<1>1. EngineSettled => \A i \in Positions : HaltExplained(i)
    BY DEF Traced, SkipsTraced
<1>2. Idle.at = "idle" /\ Idle.at \notin InEngine /\ ~Idle.stopped
    BY DEF Idle, InEngine, AtNode
<1>3. CASE Enqueue
    <2>1. pass.at \notin InEngine \cup {"finalize", "return"}
        BY <1>3 DEF Enqueue, Alone, PassTypes, PassFacts, InEngine, AtNode
    <2>2. ~pass.stopped
        BY <2>1 DEF Traced, StopFlag
    <2> QED
        BY <1>1, <1>3, <2>1, <2>2, OutsideTraced DEF Enqueue, EngineSettled
<1>4. CASE Dequeue
    <2>1. pass'.at = "resolve" /\ ~pass'.stopped
        BY <1>4, ResolvingPass DEF Dequeue
    <2> QED
        BY <1>1, <1>4, <2>1, OutsideTraced DEF Dequeue, EngineSettled, InEngine, AtNode
<1>5. CASE Crash
    BY <1>1, <1>2, <1>5, OutsideTraced DEF Crash, EngineSettled
<1>6. CASE DatabaseFails
    BY <1>1, <1>2, <1>6, OutsideTraced DEF DatabaseFails, End, EngineSettled
<1>7. CASE Redispatch
    BY <1>7 DEF Redispatch, Traced, StopFlag, PausesKept, CutInOrder, PausedBefore, SettledBefore,
        CutTracked, Exposed, OnlyQuarantines, SkipsTraced, DependencyExplained, HaltExplained,
        EngineSettled
<1>8. CASE Switch
    BY <1>8 DEF Switch, Alone
<1> QED
    BY <1>3, <1>4, <1>5, <1>6, <1>7, <1>8 DEF JobStep

\* Preservation: the steps of a job that did not resolve, and the engine's own last step.
LEMMA ResolveTraced == ASSUME Alone, Traced, ResolveStep \/ Return PROVE Traced'
<1> USE DEF jobVars, journalVars, subrunVars, passVars, historyVars, overlapVars
<1>1. EngineSettled => \A i \in Positions : HaltExplained(i)
    BY DEF Traced, SkipsTraced
<1>2. Idle.at = "idle" /\ Idle.at \notin InEngine /\ ~Idle.stopped
    BY DEF Idle, InEngine, AtNode
<1>3. pass.at \notin InEngine \cup {"finalize", "return"} => ~pass.stopped
    BY DEF Traced, StopFlag
<1>4. pass \in PassSet
    BY DEF Alone, PassTypes, PassFacts
<1>5. CASE Resolve
    <2>1. PICK x \in {"ensure", "unresolved"} : pass' = [pass EXCEPT !.at = x]
        BY <1>5 DEF Resolve, At
    <2>2. ~pass.stopped /\ x \in Points
        BY <1>3, <1>5 DEF Resolve, Points, InEngine, AtNode
    <2>3. pass'.at = x /\ ~pass'.stopped
        BY <1>4, <2>1, <2>2, MovedPass, MovedStop
    <2> QED
        BY <1>1, <1>5, <2>3, OutsideTraced DEF Resolve, EngineSettled, InEngine, AtNode
<1>6. CASE EnsureFailedRun
    <2>1. PICK x \in {"mark", "rethrow"} : pass' = [pass EXCEPT !.at = x]
        BY <1>6 DEF EnsureFailedRun, At
    <2>2. pass'.at = x /\ ~pass'.stopped
        BY <1>3, <1>4, <1>6, <2>1, MovedPass, MovedStop
           DEF EnsureFailedRun, Points, InEngine, AtNode
    <2>3. EngineSettled' => EngineSettled
        BY <1>6, HeaderFacts DEF EnsureFailedRun, EngineSettled, RunStatuses
    <2> QED
        BY <1>1, <1>6, <2>2, <2>3, OutsideTraced DEF EnsureFailedRun, InEngine, AtNode
<1>7. CASE MarkResolveFailure
    <2>1. pass'.at = "rethrow" /\ ~pass'.stopped
        BY <1>3, <1>4, <1>7, MovedPass, MovedStop
           DEF MarkResolveFailure, At, Points, InEngine, AtNode
    <2>2. EngineSettled' => EngineSettled
        BY <1>7, HeaderFacts DEF MarkResolveFailure, EngineSettled
    <2> QED
        BY <1>1, <1>7, <2>1, <2>2, OutsideTraced DEF MarkResolveFailure, InEngine, AtNode
<1>8. CASE Rethrow \/ Return
    BY <1>1, <1>2, <1>8, OutsideTraced DEF Rethrow, Return, End, EngineSettled
<1> QED
    BY <1>5, <1>6, <1>7, <1>8 DEF ResolveStep

\* Preservation: the engine takes the run up, or returns it as it is.
LEMMA EnsureTraced == ASSUME Alone, Traced, EnsureRun PROVE Traced'
<1> USE DEF jobVars, journalVars, subrunVars, passVars, historyVars, overlapVars
<1>1. PICK x \in {"load", "return"} : pass' = [pass EXCEPT !.at = x]
    BY DEF EnsureRun, At
<1>2. pass'.at = x /\ ~pass'.stopped
    <2>1. ~pass.stopped /\ x \in Points
        BY DEF EnsureRun, Traced, StopFlag, Points, InEngine, AtNode
    <2> QED
        BY <1>1, <2>1, MovedPass, MovedStop DEF Alone, PassTypes, PassFacts
<1>3. EngineSettled' => EngineSettled
    BY HeaderFacts DEF EnsureRun, EngineSettled, RunStatuses
<1>4. EngineSettled => \A i \in Positions : HaltExplained(i)
    BY DEF Traced, SkipsTraced
<1> QED
    BY <1>2, <1>3, <1>4, OutsideTraced DEF EnsureRun, InEngine, AtNode

\* Preservation: the rows are read, and the loop starts at the first node.
LEMMA LoadTraced == ASSUME Alone, Traced, LoadRows PROVE Traced'
<1> USE DEF jobVars, journalVars, subrunVars, passVars, historyVars, overlapVars
<1>1. pass'.at = "step" /\ pass'.pos = 1 /\ ~pass'.stopped
    <2>1. pass \in PassSet /\ pass.pos = 1 /\ ~pass.stopped
        BY DEF LoadRows, Alone, PassTypes, PassFacts, Traced, StopFlag, DecidedBehind, InEngine,
            AtNode
    <2> QED
        BY <2>1, MovedPass, MovedStop DEF LoadRows, At, Points
<1>2. UNCHANGED <<header, nodes, completed, tainted, torn, unguarded, paused>>
    BY DEF LoadRows
<1>3. \A i \in Positions : ~(i < 1)
    BY PositionsFacts
<1>4. StopFlag'
    BY <1>1, <1>3 DEF StopFlag, AtNode
<1>5. PausesKept' /\ CutInOrder'
    BY <1>2 DEF Traced, PausesKept, CutInOrder, PausedBefore, SettledBefore
<1>6. CutTracked'
    <2>1. \A i : OnlyQuarantines(i)'
        BY <1>1 DEF OnlyQuarantines
    <2> QED
        BY <1>2, <2>1, CutKept DEF Traced
<1>7. SkipsTraced'
    BY <1>1, <1>2, <1>3
       DEF Traced, SkipsTraced, DependencyExplained, HaltExplained, EngineSettled
<1> QED
    BY <1>4, <1>5, <1>6, <1>7 DEF Traced

\* Preservation: the verdict is computed when every node is behind the pass, and written.
LEMMA VerdictTraced == ASSUME Alone, Traced, ComputeStatus \/ FinalizeRun PROVE Traced'
<1> USE DEF jobVars, journalVars, subrunVars, passVars, historyVars, overlapVars
<1>1. CASE ComputeStatus
    <2>1. pass'.at = "finalize"
        BY <1>1 DEF ComputeStatus, Alone, PassTypes, PassFacts, PassSet
    <2>2. \A i \in Positions : i < pass.pos
        BY <1>1, PositionsFacts DEF ComputeStatus
    <2>3. \A i \in Positions : HaltExplained(i)
        BY <1>1, <2>2 DEF ComputeStatus, Traced, SkipsTraced, InEngine
    <2> QED
        BY <1>1, <2>1, <2>3, OutsideTraced DEF ComputeStatus, InEngine, AtNode
<1>2. CASE FinalizeRun
    <2>1. pass'.at = "return"
        BY <1>2, MovedPass DEF FinalizeRun, At, Points, Alone, PassTypes, PassFacts
    <2>2. \A i \in Positions : HaltExplained(i)
        BY <1>2 DEF FinalizeRun, Traced, SkipsTraced
    <2> QED
        BY <1>2, <2>1, <2>2, OutsideTraced DEF FinalizeRun, InEngine, AtNode
<1> QED
    BY <1>1, <1>2

\* The pass goes on behind a node.
LEMMA NextStepPass ==
    ASSUME PassTypes, NEW i \in Positions, pass.pos = i, NextStep
    PROVE  /\ pass'.at = "step" /\ pass'.pos = i + 1 /\ pass'.stopped = pass.stopped
           /\ i \in Nat /\ \A j \in Positions : j < i + 1 => j = i \/ j < i
BY PositionsFacts DEF NextStep, Idle, PassTypes, PassFacts, PassSet

\* Preservation: a settled node is reused.
LEMMA ReuseTraced == ASSUME Alone, Traced, NEW i \in Positions, ReuseNode(i) PROVE Traced'
<1> USE DEF Alone, Traced, jobVars, journalVars, subrunVars, passVars, historyVars,
           overlapVars
<1>1. pass.at = "step" /\ pass.pos = i /\ SettledForResume(nodes[i])
    BY CopyOfRows DEF ReuseNode, AtStep
<1>2. /\ pass'.at = "step" /\ pass'.pos = i + 1 /\ pass'.stopped = pass.stopped
      /\ i \in Nat /\ \A j \in Positions : j < i + 1 => j = i \/ j < i
    BY <1>1, NextStepPass DEF ReuseNode
<1>3. UNCHANGED <<header, nodes, completed, tainted, torn, unguarded, paused>>
    BY DEF ReuseNode
<1>4. StopFlag'
    <2>1. ASSUME NEW j \in Positions, j < i
          PROVE  j < i + 1
        BY <1>2, <2>1, PositionsFacts
    <2> QED
        BY <1>1, <1>2, <1>3, <2>1 DEF StopFlag, InEngine, AtNode
<1>5. PausesKept' /\ CutInOrder'
    BY <1>3 DEF PausesKept, CutInOrder, PausedBefore, SettledBefore
<1>6. CutTracked'
    BY <1>2, <1>3, CutKept DEF OnlyQuarantines
<1>7. SkipsTraced'
    <2>1. HaltExplained(i)
        BY <1>1, SettledFacts DEF HaltExplained
    <2>2. \A k \in Positions : k < i + 1 => HaltExplained(k)
        BY <1>1, <1>2, <2>1 DEF SkipsTraced, InEngine
    <2> QED
        BY <1>2, <1>3, <2>2 DEF SkipsTraced, DependencyExplained, HaltExplained, EngineSettled
<1> QED
    BY <1>4, <1>5, <1>6, <1>7

\* Preservation: a node is skipped.  A cut node never is: what is before it is settled, so the run
\* has not stopped, and its dependencies completed.
LEMMA SkipTraced == ASSUME Alone, Traced, NEW i \in Positions, SkipNode(i) PROVE Traced'
<1> USE DEF Alone, Traced, jobVars, journalVars, subrunVars, passVars, historyVars,
           overlapVars
<1>1. /\ pass.at = "step" /\ pass.pos = i /\ ~SettledForResume(nodes[i])
      /\ \A j \in Positions : seen[j] = nodes[j]
    BY CopyOfRows DEF SkipNode, AtStep
<1>2. /\ pass'.at = "step" /\ pass'.pos = i + 1 /\ pass'.stopped = pass.stopped
      /\ i \in Nat /\ \A j \in Positions : j < i + 1 => j = i \/ j < i
    BY <1>1, NextStepPass DEF SkipNode
<1>3. PICK reason \in IF pass.stopped THEN {"workflow_already_stopped"} ELSE SkipCauses(i) :
          /\ nodes' = [nodes EXCEPT ![i] = Node("skipped", reason)]
          /\ seen' = [seen EXCEPT ![i] = Node("skipped", reason)]
    BY DEF SkipNode
<1>4. /\ pass.stopped => reason = "workflow_already_stopped"
      /\ ~pass.stopped => reason \in SkipCauses(i)
      /\ reason \in SkipReasons \ {""}
    BY <1>3 DEF SkipCauses, SkipReasons
<1>5. /\ NodeTypes'
      /\ nodes'[i].status = "skipped" /\ nodes'[i].reason = reason
      /\ \A j \in Positions : j # i => nodes'[j] = nodes[j]
    <2>1. "skipped" \in NodeStatuses
        BY DEF NodeStatuses, Settled
    <2>2. seen' \in Rows
        BY <1>3, <1>4, <2>1, WrittenCopy DEF NodeTypes
    <2> QED
        BY <1>3, <1>4, <2>1, <2>2, WrittenNode
<1>6. UNCHANGED <<header, completed, tainted, torn, unguarded, paused>>
    BY DEF SkipNode
<1>7. /\ \A j \in Positions : SettledForResume(nodes[j]) => nodes'[j] = nodes[j]
      /\ \A k \in Positions : k # i /\ nodes[k].status = "running" =>
             PausedBefore(k)' \/ SettledBefore(k)'
      /\ \A k \in Positions : k # i => DependencyExplained(k)'
      /\ \A k \in Positions : k <= i /\ HaltExplained(k) /\ nodes'[k] = nodes[k] =>
             HaltExplained(k)'
    BY <1>1, <1>5, <1>6, RowTraced
<1>8. \A j \in Positions : j < i => j # i /\ j < i + 1 /\ j <= i
    BY <1>2, PositionsFacts
<1>9. ~pass.stopped =>
          \A j \in Positions : j < i => SettledForResume(nodes[j]) \/ nodes[j].status = "paused"
    BY <1>1 DEF StopFlag, InEngine
<1>10. pass.stopped => \E j \in Positions : j < i /\ nodes[j].status \in Failures
    BY <1>1 DEF StopFlag, InEngine
<1>11. StopFlag'
    <2>1. ~pass.stopped => SettledForResume(nodes[i])'
        <3>1. ~pass.stopped => reason # "workflow_already_stopped"
            BY <1>4 DEF SkipCauses
        <3>2. nodes'[i].status = "skipped" /\ nodes'[i].reason # "workflow_already_stopped" =>
                  SettledForResume(nodes[i])'
            BY <1>5 DEF SettledForResume, TransientSkip, Settled
        <3> QED
            BY <1>5, <3>1, <3>2
    <2>2. ASSUME ~pass.stopped, NEW j \in Positions, j < i + 1
          PROVE  SettledForResume(nodes[j])' \/ nodes'[j].status = "paused"
        <3>1. CASE j = i
            BY <2>1, <2>2, <3>1
        <3>2. CASE j # i
            BY <1>2, <1>5, <1>9, <2>2, <3>2
        <3> QED
            BY <3>1, <3>2
    <2>3. pass.stopped => \E j \in Positions : j < i + 1 /\ nodes'[j].status \in Failures
        BY <1>5, <1>8, <1>10
    <2> QED
        BY <1>2, <2>2, <2>3 DEF StopFlag, InEngine, AtNode
<1>12. PausesKept'
    BY <1>5, <1>6 DEF PausesKept
<1>13. CutInOrder'
    BY <1>5, <1>7 DEF CutInOrder
<1>14. CutTracked'
    <2>1. ASSUME i \in Exposed, ~PausedBefore(i) PROVE FALSE
        <3>1. nodes[i].status = "running"
            BY <1>1, <2>1, SettledFacts DEF CutTracked, Settled
        <3>2. SettledBefore(i)
            BY <2>1, <3>1 DEF CutInOrder
        <3>3. ~pass.stopped
            BY <1>10, <3>2, SettledFacts DEF SettledBefore
        <3>4. \A d \in Steps[i].deps : nodes[d].status = "completed"
            BY <3>1 DEF BegunInOrder
        <3>5. SkipCauses(i) = {}
            BY <1>1, <3>4, EarlierDeps DEF SkipCauses
        <3> QED
            BY <1>4, <3>3, <3>5
    <2>2. \A k : OnlyQuarantines(k)'
        BY <1>2 DEF OnlyQuarantines
    <2>3. Exposed' = Exposed /\ \A k \in Exposed : k \in Positions
        BY <1>6 DEF Exposed, JobTypes, Agents
    <2> QED
        BY <1>5, <1>6, <2>1, <2>2, <2>3 DEF CutTracked, PausedBefore
<1>15. SkipsTraced'
    <2>1. DependencyExplained(i)'
        <3>1. CASE pass.stopped
            BY <1>4, <1>5, <3>1 DEF DependencyExplained
        <3>2. CASE ~pass.stopped
            <4>1. PICK d \in Steps[i].deps :
                      /\ nodes[d].status # "completed"
                      /\ reason = IF nodes[d].status = "quarantined"
                                  THEN "quarantined_upstream" ELSE "dependency_failure"
                BY <1>1, <1>4, <3>2, EarlierDeps DEF SkipCauses
            <4>2. d \in Positions /\ d < i
                BY EarlierDeps
            <4>3. nodes'[d] = nodes[d]
                BY <1>5, <1>8, <4>2
            <4>4. SettledForResume(nodes[d]) \/ d \in paused
                BY <1>9, <3>2, <4>2 DEF PausesKept
            <4> QED
                BY <1>5, <1>6, <4>1, <4>3, <4>4 DEF DependencyExplained
        <3> QED
            BY <3>1, <3>2
    <2>2. HaltExplained(i)'
        <3>1. CASE pass.stopped
            BY <1>5, <1>8, <1>10, <3>1 DEF HaltExplained
        <3>2. CASE ~pass.stopped
            BY <1>4, <1>5, <3>2 DEF HaltExplained, SkipCauses
        <3> QED
            BY <3>1, <3>2
    <2>3. \A k \in Positions : k < i => HaltExplained(k)'
        BY <1>1, <1>5, <1>7, <1>8 DEF SkipsTraced, InEngine
    <2>4. ~EngineSettled'
        BY <1>1, <1>6, HeaderFacts DEF WritesOwnRows, InEngine, EngineSettled, RunStatuses
    <2> QED
        BY <1>2, <1>7, <2>1, <2>2, <2>3, <2>4 DEF SkipsTraced
<1> QED
    BY <1>11, <1>12, <1>13, <1>14, <1>15

\* Preservation: a node is begun.
LEMMA BeginTraced == ASSUME Alone, Traced, NEW i \in Positions, BeginNode(i) PROVE Traced'
<1> USE DEF Alone, Traced, jobVars, journalVars, subrunVars, passVars, historyVars,
           overlapVars
<1>1. pass.at = "step" /\ pass.pos = i /\ ~SettledForResume(nodes[i]) /\ ~pass.stopped
    BY CopyOfRows DEF BeginNode, AtStep
<1>2. pass'.at = "invoke" /\ pass'.pos = i /\ ~pass'.stopped
    BY <1>1 DEF BeginNode, PassTypes, PassFacts, PassSet
<1>3. /\ nodes'[i].status = "running" /\ nodes'[i].reason = ""
      /\ \A j \in Positions : j # i => nodes'[j] = nodes[j]
    <2>1. nodes' = [nodes EXCEPT ![i] = Node("running", "")] /\ seen' \in Rows
        BY DEF BeginNode, NodeTypes
    <2>2. "running" \in NodeStatuses /\ "" \in SkipReasons
        BY DEF NodeStatuses, SkipReasons
    <2>3. "" # "" <=> "running" = "skipped"
        OBVIOUS
    <2> HIDE DEF Alone, Traced
    <2>4. NodeTypes
        BY DEF Alone
    <2> QED
        BY <2>1, <2>2, <2>3, <2>4, WrittenNode
<1>4. UNCHANGED <<header, completed, tainted, torn, unguarded, paused>>
    BY DEF BeginNode
<1>5. /\ \A j \in Positions : SettledForResume(nodes[j]) => nodes'[j] = nodes[j]
      /\ \A k \in Positions : k # i /\ nodes[k].status = "running" =>
             PausedBefore(k)' \/ SettledBefore(k)'
      /\ \A k \in Positions : k # i => DependencyExplained(k)'
      /\ \A k \in Positions : k <= i /\ HaltExplained(k) /\ nodes'[k] = nodes[k] =>
             HaltExplained(k)'
    BY <1>1, <1>3, <1>4, RowTraced
<1>6. \A j \in Positions : j < i => j # i /\ j <= i
    BY PositionsFacts
<1>7. \A j \in Positions : j < i => SettledForResume(nodes[j]) \/ nodes[j].status = "paused"
    BY <1>1 DEF StopFlag, InEngine
<1>8. StopFlag'
    BY <1>2, <1>3, <1>6, <1>7 DEF StopFlag, InEngine, AtNode
<1>9. PausesKept'
    BY <1>3, <1>4 DEF PausesKept
<1>10. CutInOrder'
    <2>1. PausedBefore(i)' \/ SettledBefore(i)'
        BY <1>4, <1>5, <1>7 DEF PausesKept, PausedBefore, SettledBefore
    <2> QED
        BY <1>3, <1>5, <2>1 DEF CutInOrder
<1>11. CutTracked'
    <2>1. \A k : OnlyQuarantines(k)'
        BY <1>2 DEF OnlyQuarantines
    <2>2. Exposed' = Exposed /\ \A k \in Exposed : k \in Positions
        BY <1>4 DEF Exposed, JobTypes, Agents
    <2> QED
        BY <1>3, <1>4, <2>1, <2>2 DEF CutTracked, PausedBefore
<1>12. SkipsTraced'
    <2>1. DependencyExplained(i)'
        BY <1>3 DEF DependencyExplained
    <2>2. \A k \in Positions : k < i => HaltExplained(k)'
        BY <1>1, <1>3, <1>5, <1>6 DEF SkipsTraced, InEngine
    <2>3. ~EngineSettled'
        BY <1>1, <1>4, HeaderFacts DEF WritesOwnRows, InEngine, EngineSettled, RunStatuses
    <2> QED
        BY <1>2, <1>5, <2>1, <2>2, <2>3 DEF SkipsTraced
<1> QED
    BY <1>8, <1>9, <1>10, <1>11, <1>12

\* Preservation: a node's outcome is written, and a failed one stops the run.
LEMMA RecordTraced == ASSUME Alone, Traced, NEW i \in Positions, RecordNode(i) PROVE Traced'
<1> USE DEF Alone, Traced, jobVars, journalVars, subrunVars, passVars, historyVars,
           overlapVars
<1>1. pass.at = "record" /\ pass.pos = i /\ pass.outcome \in Outcomes
    BY DEF RecordNode, PassTypes, PassFacts
<1>2. nodes[i].status = "running" /\ ~SettledForResume(nodes[i])
    BY <1>1, SettledFacts DEF WritesOwnRows, AtNode
<1>3. /\ pass'.at = "step" /\ pass'.pos = i + 1 /\ pass'.stopped = (pass.outcome \in Failures)
      /\ i \in Nat /\ \A j \in Positions : j < i + 1 => j = i \/ j < i
    <2>1. /\ pass'.at = "step" /\ pass'.pos = i + 1
          /\ pass'.stopped = (pass.outcome \in Failures)
        BY DEF RecordNode, Idle
    <2>2. i \in Nat /\ \A j \in Positions : j < i + 1 => j = i \/ j < i
        BY PositionsFacts
    <2> QED
        BY <2>1, <2>2
<1>4. /\ nodes'[i].status = pass.outcome /\ nodes'[i].reason = ""
      /\ \A j \in Positions : j # i => nodes'[j] = nodes[j]
    <2>1. pass.outcome \in NodeStatuses /\ pass.outcome # "skipped"
        BY <1>1 DEF Outcomes, Failures, NodeStatuses, Settled
    <2>2. nodes' = [nodes EXCEPT ![i] = Node(pass.outcome, "")]
        BY DEF RecordNode
    <2> HIDE DEF Alone, Traced
    <2>3. NodeTypes
        BY DEF Alone
    <2> QED
        BY <2>1, <2>2, <2>3, WrittenOutcome
<1>5. /\ UNCHANGED <<header, completed, tainted, torn, unguarded>>
      /\ paused \subseteq paused' /\ (pass.outcome = "paused" => i \in paused')
    BY DEF RecordNode
<1>6. /\ \A j \in Positions : SettledForResume(nodes[j]) => nodes'[j] = nodes[j]
      /\ \A k \in Positions : k # i /\ nodes[k].status = "running" =>
             PausedBefore(k)' \/ SettledBefore(k)'
      /\ \A k \in Positions : k # i => DependencyExplained(k)'
      /\ \A k \in Positions : k <= i /\ HaltExplained(k) /\ nodes'[k] = nodes[k] =>
             HaltExplained(k)'
    BY <1>2, <1>4, <1>5, RowTraced
<1>7. \A j \in Positions : j < i => j # i /\ j <= i /\ j < i + 1
    BY <1>3, PositionsFacts
<1>8. i < i + 1
    BY <1>3
<1>9. StopFlag'
    <2>1. \A j \in Positions : j < i => SettledForResume(nodes[j]) \/ nodes[j].status = "paused"
        BY <1>1 DEF StopFlag, InEngine, AtNode
    <2>2. pass.outcome \notin Failures =>
              SettledForResume(nodes[i])' \/ nodes'[i].status = "paused"
        BY <1>1, <1>4 DEF Outcomes, SettledForResume, TransientSkip, Settled
    <2>3. pass.outcome \notin Failures =>
              \A j \in Positions : j < i + 1 =>
                  SettledForResume(nodes[j])' \/ nodes'[j].status = "paused"
        BY <1>3, <1>4, <1>7, <2>1, <2>2
    <2>4. pass.outcome \in Failures =>
              \E j \in Positions : j < i + 1 /\ nodes'[j].status \in Failures
        BY <1>4, <1>8
    <2> QED
        BY <1>3, <2>3, <2>4 DEF StopFlag, InEngine, AtNode
<1>10. PausesKept'
    BY <1>4, <1>5 DEF PausesKept
<1>11. CutInOrder'
    BY <1>1, <1>4, <1>6 DEF CutInOrder, Outcomes, Failures
<1>12. CutTracked'
    <2>1. i \in Exposed /\ ~PausedBefore(i) => nodes'[i].status = "quarantined"
        BY <1>1, <1>4 DEF CutTracked, OnlyQuarantines
    <2>2. \A k : OnlyQuarantines(k)'
        BY <1>3 DEF OnlyQuarantines
    <2>3. Exposed' = Exposed /\ \A k \in Exposed : k \in Positions
        BY <1>5 DEF Exposed, JobTypes, Agents
    <2> QED
        BY <1>4, <1>5, <2>1, <2>2, <2>3 DEF CutTracked, PausedBefore
<1>13. SkipsTraced'
    <2>1. DependencyExplained(i)' /\ HaltExplained(i)'
        BY <1>4 DEF DependencyExplained, HaltExplained
    <2>2. \A k \in Positions : k < i => HaltExplained(k)'
        BY <1>1, <1>4, <1>6, <1>7 DEF SkipsTraced, InEngine, AtNode
    <2>3. ~EngineSettled'
        BY <1>1, <1>5, HeaderFacts DEF WritesOwnRows, InEngine, AtNode, EngineSettled, RunStatuses
    <2> QED
        BY <1>3, <1>6, <2>1, <2>2, <2>3 DEF SkipsTraced
<1> QED
    BY <1>9, <1>10, <1>11, <1>12, <1>13

\* An execution in progress is not a cut one.
LEMMA NotCut ==
    ASSUME Alone, Traced,
           \/ pass.at \in {"agent", "fire", "ended"}
           \/ pass.pos \notin Agents \/ MayRun(pass.pos)
    PROVE  pass.pos \in Exposed => PausedBefore(pass.pos)
BY DEF Alone, JobTypes, PassTypes, PassFacts, Traced, CutTracked, OnlyQuarantines, Exposed, MayRun

\* Preservation: what a handler does before its node's row is written.
LEMMA HandlerTraced ==
    ASSUME Alone, Traced, NEW i \in Positions,
           \/ NodeUnavailable(i) \/ PlainNode(i)
           \/ /\ i \in Agents
              /\ AgentGuardFails(i) \/ AttachOrGuard(i) \/ Quarantine(i) \/ StartAgent(i)
    PROVE  Traced'
<1> USE DEF jobVars, journalVars, subrunVars, passVars, historyVars, overlapVars
<1>1. pass.at \in {"invoke", "guard"} /\ pass.pos = i /\ PassTypes /\ pass \in PassSet
    BY DEF NodeUnavailable, PlainNode, AgentGuardFails, AttachOrGuard, Quarantine, StartAgent,
           AtAgent, Alone, PassTypes, PassFacts
<1>2. pass.at \in AtNode /\ ~pass.stopped
    BY <1>1 DEF AtNode, Traced, StopFlag
<1>3. i \in Exposed => i \in Agents /\ i \notin completed
    BY DEF Exposed, Alone, JobTypes
<1>4. CASE NodeUnavailable(i)
    <2>1. pass'.at = "record" /\ pass'.pos = pass.pos /\ pass'.stopped = pass.stopped
        BY <1>1, <1>4 DEF NodeUnavailable, PassSet
    <2> QED
        BY <1>1, <1>2, <1>3, <1>4, <2>1, InsideTraced DEF NodeUnavailable, AtNode
<1>5. CASE PlainNode(i)
    <2>1. PICK result \in {"completed", "paused", "retryable_failure", "terminal_failure"} :
              HandlerReturns(i, result)
        BY <1>5 DEF PlainNode
    <2>2. pass'.pos = i /\ pass'.at \in AtNode /\ pass'.stopped = pass.stopped
        BY <1>1, <2>1, ReturnedPass
    <2> QED
        BY <1>1, <1>2, <1>3, <1>5, <2>2, InsideTraced DEF PlainNode
<1>6. CASE i \in Agents /\ AgentGuardFails(i)
    <2>1. pass'.pos = i /\ pass'.at \in AtNode /\ pass'.stopped = pass.stopped
        BY <1>1, <1>6, ReturnedPass DEF AgentGuardFails
    <2> QED
        BY <1>1, <1>2, <1>6, <2>1, InsideTraced DEF AgentGuardFails
<1>7. CASE i \in Agents /\ AttachOrGuard(i)
    <2>1. CASE i \in completed
        <3>1. HandlerReturns(i, "completed")
            BY <1>7, <2>1 DEF AttachOrGuard
        <3>2. pass'.pos = i /\ pass'.at \in AtNode /\ pass'.stopped = pass.stopped
            BY <1>1, <3>1, ReturnedPass
        <3> QED
            BY <1>1, <1>2, <1>3, <1>7, <2>1, <3>2, InsideTraced DEF AttachOrGuard
    <2>2. CASE i \notin completed
        <3>1. pass'.at = "guard" /\ pass'.pos = pass.pos /\ pass'.stopped = pass.stopped
            <4>1. pass' = [pass EXCEPT !.at = "guard"] /\ "guard" \in Points
                BY <1>7, <2>2 DEF AttachOrGuard, At, Points
            <4> QED
                BY <1>1, <4>1, MovedPass, MovedStop
        <3>2. OnlyQuarantines(i)'
            BY <3>1 DEF OnlyQuarantines
        <3> QED
            BY <1>1, <1>2, <1>7, <3>1, <3>2, InsideTraced DEF AttachOrGuard, AtNode
    <2> QED
        BY <2>1, <2>2
<1>8. CASE i \in Agents /\ Quarantine(i)
    <2>1. HandlerReturns(i, "agent_rerun_hazard")
        BY <1>8 DEF Quarantine
    <2>2. /\ pass'.pos = i /\ pass'.at \in AtNode /\ pass'.stopped = pass.stopped
          /\ OnlyQuarantines(i)'
        BY <1>1, <2>1, ReturnedPass
    <2> QED
        BY <1>1, <1>2, <1>8, <2>2, InsideTraced DEF Quarantine
<1>9. CASE i \in Agents /\ StartAgent(i)
    <2>1. pass'.at = "agent" /\ pass'.pos = pass.pos /\ pass'.stopped = pass.stopped
        BY <1>1, <1>9, MovedPass, MovedStop DEF StartAgent, At, Points
    <2>2. pass.pos \in Exposed => PausedBefore(pass.pos)
        BY <1>1, <1>9, NotCut DEF StartAgent
    <2> QED
        BY <1>1, <1>2, <1>9, <2>1, <2>2, InsideTraced DEF StartAgent, AtNode
<1> QED
    BY <1>4, <1>5, <1>6, <1>7, <1>8, <1>9

\* Preservation: the agent's execution.
LEMMA ExecutionTraced ==
    ASSUME Alone, Traced, NEW i \in Agents,
           \/ MarkTaint(i) \/ FireTool(i) \/ AgentFails(i) \/ CompleteSubRun(i)
           \/ AgentCompletes(i)
    PROVE  Traced'
<1> USE DEF jobVars, journalVars, subrunVars, passVars, historyVars, overlapVars
<1>1. /\ pass.at \in {"agent", "fire", "ended"} /\ pass.pos = i /\ PassTypes /\ pass \in PassSet
      /\ i \in Positions
    BY DEF MarkTaint, FireTool, AgentFails, CompleteSubRun, AgentCompletes, AtAgent, Alone,
           PassTypes, PassFacts, Agents
<1>2. pass.at \in AtNode /\ ~pass.stopped
    BY <1>1 DEF AtNode, Traced, StopFlag
<1>3. pass.pos \in Exposed => PausedBefore(pass.pos)
    BY <1>1, NotCut
<1>4. pass'.pos = pass.pos /\ pass'.at \in AtNode /\ pass'.stopped = pass.stopped
    <2>1. CASE MarkTaint(i)
        BY <1>1, <2>1, MovedPass, MovedStop DEF MarkTaint, At, Points, AtNode
    <2>2. CASE FireTool(i)
        BY <1>1, <2>2 DEF FireTool, PassSet, AtNode
    <2>3. CASE AgentFails(i) \/ AgentCompletes(i)
        <3>1. PICK result \in {"completed", "retryable_failure", "terminal_failure"} :
                  HandlerReturns(i, result)
            BY <2>3 DEF AgentFails, AgentCompletes
        <3> QED
            BY <1>1, <3>1, ReturnedPass
    <2>4. CASE CompleteSubRun(i)
        BY <1>1, <2>4, MovedPass, MovedStop DEF CompleteSubRun, At, Points, AtNode
    <2> QED
        BY <2>1, <2>2, <2>3, <2>4
<1>5. /\ UNCHANGED <<nodes, paused, torn, header>>
      /\ tainted \subseteq tainted' /\ completed \subseteq completed'
      /\ unguarded \subseteq unguarded'
    BY DEF MarkTaint, FireTool, AgentFails, CompleteSubRun, AgentCompletes
<1> QED
    BY <1>2, <1>3, <1>4, <1>5, InsideTraced

\* Before the job is enqueued there is nothing to trace.
LEMMA InitTraced == Init => Traced
<1> SUFFICES ASSUME Init PROVE Traced
    OBVIOUS
<1>1. \A i \in Positions : nodes[i].status = "none" /\ nodes[i].reason = ""
    BY DEF Init, NoRows, Node
<1>2. pass.at = "idle" /\ ~pass.stopped
    BY DEF Init, Idle
<1>3. StopFlag /\ PausesKept /\ CutInOrder
    BY <1>1, <1>2 DEF StopFlag, InEngine, AtNode, PausesKept, CutInOrder
<1>4. CutTracked /\ SkipsTraced
    BY <1>1 DEF Init, CutTracked, Exposed, SkipsTraced, DependencyExplained, HaltExplained
<1> QED
    BY <1>3, <1>4 DEF Traced

\* Every step of a pass that is alone keeps it.
LEMMA NextTraced == ASSUME Alone, Traced, [Next]_vars PROVE Traced'
<1>1. CASE JobStep
    BY <1>1, JobTraced
<1>2. CASE ResolveStep
    BY <1>2, ResolveTraced
<1>3. CASE EngineStep
    BY <1>3, EnsureTraced, LoadTraced, VerdictTraced, ResolveTraced, ReuseTraced,
        SkipTraced, BeginTraced, RecordTraced, HandlerTraced DEF EngineStep
<1>4. CASE AgentStep
    <2>1. Agents \subseteq Positions
        BY DEF Agents
    <2> QED
        BY <1>4, <2>1, HandlerTraced, ExecutionTraced DEF AgentStep
<1>5. CASE UNCHANGED vars
    BY <1>5 DEF vars, jobVars, journalVars, subrunVars, passVars, historyVars,
           overlapVars, Traced, StopFlag, PausesKept,
        CutInOrder, PausedBefore, SettledBefore, CutTracked, Exposed, OnlyQuarantines, SkipsTraced,
        DependencyExplained, HaltExplained, EngineSettled, SettledForResume
<1> QED
    BY <1>1, <1>2, <1>3, <1>4, <1>5 DEF Next, PassStep

\* A run with passes beside each other stays one that had them.
LEMMA OnePassBefore == ASSUME [Next]_vars, OnePassAtATime' PROVE OnePassAtATime
<1> USE DEF OnePassAtATime, overlapVars, vars
<1>1. CASE JobStep
    BY <1>1 DEF JobStep, Enqueue, Dequeue, Redispatch, Switch, Crash, DatabaseFails, End
<1>2. CASE ResolveStep
    BY <1>2 DEF ResolveStep, Resolve, EnsureFailedRun, MarkResolveFailure, Rethrow, End
<1>3. CASE EngineStep
    BY <1>3 DEF EngineStep, EnsureRun, LoadRows, ComputeStatus, FinalizeRun, Return, End,
        ReuseNode, SkipNode, BeginNode, NodeUnavailable, PlainNode, RecordNode
<1>4. CASE AgentStep
    BY <1>4 DEF AgentStep, AgentGuardFails, AttachOrGuard, Quarantine, StartAgent, MarkTaint,
        FireTool, AgentFails, CompleteSubRun, AgentCompletes
<1> QED
    BY <1>1, <1>2, <1>3, <1>4 DEF Next, PassStep

\* As long as one pass ran at a time, what is behind a pass, and what a crash left, is known to
\* every later pass over the rows.
THEOREM ResumptionTraced == Spec => [](OnePassAtATime => Traced)
<1>1. Inv /\ (OnePassAtATime => Traced) /\ [Next]_vars => (OnePassAtATime => Traced)'
    BY OnePassBefore, AloneFacts, NextTraced
<1>2. Init => (OnePassAtATime => Traced)
    BY InitTraced
<1> QED
    BY <1>1, <1>2, RunInvariant, PTL DEF Spec

\* The node's failure policy never hides an execution of an agent that fired a tool and was cut by
\* a crash: the settled run shows the node quarantined, for every workflow and recovery bound.
THEOREM CutExecutionsAlwaysSurface == Spec => []CutExecutionsSurface
<1>1. Inv /\ (OnePassAtATime => Traced) => CutExecutionsSurface
    <2> SUFFICES ASSUME Alone, Traced, EngineSettled, NEW i \in torn \ (completed \cup unguarded),
                        ~PausedBefore(i)
                 PROVE  nodes[i].status = "quarantined"
        BY AloneFacts DEF CutExecutionsSurface, PausedBefore
    <2>1. i \in Positions
        BY DEF Alone, JobTypes, Agents
    <2> QED
        BY <2>1 DEF Alone, DecidedBehind, Traced, CutTracked, Exposed
<1> QED
    BY <1>1, RunInvariant, ResumptionTraced, PTL

\* Every skip of a settled run has its cause in the rows of the same run, however often the run was
\* resumed: a failed node before a halt, and a dependency that did not complete, or paused.
THEOREM SkipsAlwaysExplained == Spec => []SkipsAreExplained
<1>1. Inv /\ (OnePassAtATime => Traced) => SkipsAreExplained
    <2> SUFFICES ASSUME Alone, Traced, EngineSettled, NEW i \in Positions
                 PROVE  /\ nodes[i].reason = "workflow_already_stopped" =>
                               \E j \in 1..(i - 1) : nodes[j].status \in Failures
                        /\ nodes[i].reason = "quarantined_upstream" =>
                               \E d \in Steps[i].deps : nodes[d].status = "quarantined"
                        /\ nodes[i].reason = "dependency_failure" =>
                               \E d \in Steps[i].deps :
                                   nodes[d].status # "completed" \/ d \in paused
        BY AloneFacts DEF SkipsAreExplained
    <2>1. HaltExplained(i) /\ DependencyExplained(i)
        BY DEF Traced, SkipsTraced
    <2>2. \A j \in Positions : j < i => j \in 1..(i - 1)
        BY PositionsFacts
    <2> QED
        BY <2>1, <2>2 DEF HaltExplained, DependencyExplained
<1> QED
    BY <1>1, RunInvariant, ResumptionTraced, PTL

====
