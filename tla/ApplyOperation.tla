---- MODULE ApplyOperation ----
(***************************************************************************)
(* runtime.apply (apply-operation.ts): a plan's steps under the operation  *)
(* lease, a receipt before and after each, and the reconciliation of what  *)
(* earlier applies left unfinished.  One step per transaction or query;    *)
(* an attempt may die, fail or lose its lease between any two of them.     *)
(*                                                                         *)
(* An idempotency key names one operation, the one whose intent carries    *)
(* it: a retry under the key continues that operation.  OperationOf[a] is  *)
(* therefore the operation of the key attempt a was called with.           *)
(***************************************************************************)
EXTENDS OperationLease, Sequences

CONSTANTS Plan,       \* the kinds of the steps of each operation, in their order
          Resolvers,  \* the attempts that are an operator's resolveInterruptedStep
          MaxEpoch    \* bound: grants of the lease

Kinds == {"transaction",  \* the effect and the finish receipt in one guarded transaction
          "observed",     \* an effect whose state an observer can read back
          "blind",        \* an effect nothing can read back
          "rerunnable"}   \* an effect that may be repeated

ASSUME ApplyAssumption ==
    /\ Plan \in [Operations -> Seq(Kinds)]
    /\ Resolvers \subseteq Attempts
    /\ \A a \in Resolvers : Plan[OperationOf[a]] = <<>>

Appliers == Attempts \ Resolvers
StepsOf(o) == DOMAIN Plan[o]
AllSteps == UNION {{[op |-> o, i |-> i] : i \in StepsOf(o)} : o \in Operations}
KindOf(s) == Plan[s.op][s.i]

VARIABLES fenced, revision,   \* fence_state, environment_revision
          expects,            \* the revision an operation's plan was prepared for
          intent, outcome,    \* the intent receipt, and the outcome receipt after the latest one
          step,               \* the latest receipt of each step
          everDone,           \* the steps that have a finish receipt, the latest or not
          before,             \* the state its observer read when the step started
          effect,             \* how often each step took effect
          late,               \* steps that took effect after their attempt had lost the lease
          unheard,            \* steps whose commit was not acknowledged to their attempt
          pc,                 \* where each attempt is
          found,              \* what the attempt's idempotency lookup read
          next,               \* the step it is at
          report,             \* what its survey observed and it has not recorded
          closing,            \* the operations it is to close as interrupted
          blocked,            \* its survey observed an unknown step
          ran                 \* anyDone

receiptVars == <<intent, outcome, step, everDone, before>>
worldVars == <<fenced, revision, expects, effect, late, unheard>>
callVars == <<found, next, report, closing, blocked, ran>>
vars == <<leaseVars, worldVars, receiptVars, pc, callVars>>

Seen == {"applied", "not-applied", "unknown"}
Points == {"idle", "looked", "check", "acquire", "survey", "record", "fresh", "step", "run",
           "finish", "settle", "end", "failRan", "fail", "refuse", "resolve", "closeResolved",
           "done"}

TypeOK ==
    /\ LeaseTypeOK
    /\ fenced \in BOOLEAN /\ revision \in Nat
    /\ expects \in [Operations -> Nat]
    /\ intent \in [Operations -> BOOLEAN]
    /\ outcome \in [Operations -> {"none", "succeeded", "failed", "refused", "interrupted"}]
    /\ step \in [AllSteps -> {"none", "started", "finished", "skipped"}]
    /\ everDone \subseteq AllSteps
    /\ before \in [AllSteps -> Nat]
    /\ effect \in [AllSteps -> Nat]
    /\ late \subseteq AllSteps /\ unheard \subseteq AllSteps
    /\ pc \in [Attempts -> Points]
    /\ found \in [Attempts -> {"nothing", "continue", "running"}]
    /\ next \in [Attempts -> Nat]
    /\ report \in [Attempts -> SUBSET [at : AllSteps, seen : Seen]]
    /\ closing \in [Attempts -> SUBSET Operations]
    /\ blocked \in [Attempts -> BOOLEAN]
    /\ ran \in [Attempts -> BOOLEAN]

Init ==
    /\ LeaseInit
    /\ fenced = FALSE /\ revision = 0
    /\ expects = [o \in Operations |-> 0]
    /\ intent = [o \in Operations |-> FALSE]
    /\ outcome = [o \in Operations |-> "none"]
    /\ step = [s \in AllSteps |-> "none"]
    /\ before = [s \in AllSteps |-> 0]
    /\ effect = [s \in AllSteps |-> 0]
    /\ late = {} /\ unheard = {}
    /\ everDone = {}
    /\ pc = [a \in Attempts |-> "idle"]
    /\ found = [a \in Attempts |-> "nothing"]
    /\ next = [a \in Attempts |-> 1]
    /\ report = [a \in Attempts |-> {}]
    /\ closing = [a \in Attempts |-> {}]
    /\ blocked = [a \in Attempts |-> FALSE]
    /\ ran = [a \in Attempts |-> FALSE]

Goto(a, to) == pc' = [pc EXCEPT ![a] = to]
Op(a) == OperationOf[a]

\* The call returns, or its process stops: what it kept in memory is gone.
Leave(a) ==
    /\ Goto(a, "done")
    /\ found' = [found EXCEPT ![a] = "nothing"]
    /\ next' = [next EXCEPT ![a] = 1]
    /\ report' = [report EXCEPT ![a] = {}]
    /\ closing' = [closing EXCEPT ![a] = {}]
    /\ blocked' = [blocked EXCEPT ![a] = FALSE]
    /\ ran' = [ran EXCEPT ![a] = FALSE]

\* A plan is prepared anew, for the revision of the moment, as long as it was not used.
Prepare(o) ==
    /\ ~intent[o] /\ expects[o] # revision
    /\ expects' = [expects EXCEPT ![o] = revision]
    /\ UNCHANGED <<leaseVars, fenced, revision, effect, late, unheard, receiptVars, pc, callVars>>

----
\* runApply, 1: the key's intent and the receipts of its operation are read.  A recorded
\* outcome is answered, unless it is one after which the operation continues.
Lookup(a) ==
    /\ pc[a] = "idle" /\ a \in Appliers
    /\ IF intent[Op(a)] /\ outcome[Op(a)] \in {"succeeded", "failed"}
       THEN Leave(a)
       ELSE /\ found' = [found EXCEPT ![a] =
                    IF ~intent[Op(a)] THEN "nothing"
                    ELSE IF outcome[Op(a)] = "none" THEN "running" ELSE "continue"]
            /\ Goto(a, "looked")
            /\ UNCHANGED <<next, report, closing, blocked, ran>>
    /\ UNCHANGED <<leaseVars, worldVars, receiptVars>>

\* holdsLiveLease(): an operation without an outcome whose lease is alive still runs.
LookAtHolder(a) ==
    /\ pc[a] = "looked"
    /\ IF found[a] = "running" /\ leaseHolder = Op(a) /\ leaseLive
       THEN Leave(a)
       ELSE Goto(a, "check") /\ UNCHANGED callVars
    /\ UNCHANGED <<leaseVars, worldVars, receiptVars>>

\* Mutant: the checks under the lease leave out the fence.
FreshRevision(o) == revision = expects[o]

\* freshnessRefusal() of a plan with steps: the revision it was prepared for, and an open
\* fence.
Fresh(o) == revision = expects[o] /\ ~fenced

\* 2-3: freshness before anything is written.
CheckFirst(a) ==
    /\ pc[a] = "check"
    /\ IF revision = expects[Op(a)] /\ ~fenced
       THEN Goto(a, "acquire") /\ UNCHANGED callVars
       ELSE Leave(a)
    /\ UNCHANGED <<leaseVars, worldVars, receiptVars>>

\* The unique index on the key's intent: another attempt recorded it after the lookup.
KeyTaken(a) == a \in Appliers /\ found[a] = "nothing" /\ intent[Op(a)]

\* 4: the lease and the intent receipt in one transaction.  A live lease ends the call; an
\* intent under the same key that the lookup did not see fails the transaction, and the
\* call looks again.
Acquire(a) ==
    /\ pc[a] = "acquire" \/ (pc[a] = "idle" /\ a \in Resolvers)
    /\ leaseEpoch < MaxEpoch
    /\ \/ /\ ~Takeable
          /\ Leave(a)
          /\ UNCHANGED <<leaseVars, receiptVars>>
       \/ /\ Takeable /\ KeyTaken(a)
          /\ Goto(a, "idle")
          /\ UNCHANGED <<leaseVars, receiptVars, callVars>>
       \/ /\ Takeable /\ ~KeyTaken(a)
          /\ TakeLease(a)
          /\ intent' = [intent EXCEPT ![Op(a)] = TRUE]
          /\ outcome' = [outcome EXCEPT ![Op(a)] = "none"]
          /\ Goto(a, IF a \in Resolvers THEN "resolve" ELSE "survey")
          /\ UNCHANGED <<step, everDone, before, callVars>>
    /\ UNCHANGED worldVars

----
\* Mutant: a step without an observer that did not finish counts as not applied.
ObserveOptimistically(s) ==
    IF KindOf(s) # "observed" THEN {"not-applied"}
    ELSE IF effect[s] = before[s] + 1 THEN {"applied"} ELSE {"not-applied"}

\* observeStep(): a transaction's start without a finish proves that nothing happened; an
\* observer tells the state before from the state after, when it can read it.
Observe(s) ==
    CASE KindOf(s) \in {"transaction", "rerunnable"} -> {"not-applied"}
      [] KindOf(s) = "blind" -> {"unknown"}
      [] KindOf(s) = "observed" ->
            {"unknown", IF effect[s] = before[s] + 1 THEN "applied"
                        ELSE IF effect[s] = before[s] THEN "not-applied" ELSE "unknown"}

Open(o) == {s \in AllSteps : s.op = o /\ step[s] = "started"}
Interrupted(o) == intent[o] /\ outcome[o] = "none"

\* 5: surveyUnsettled(), reading only.  Operations without an outcome whose steps can all
\* be settled are to be closed, except the holder's own.
Survey(a) ==
    /\ pc[a] = "survey"
    /\ LET open == {s \in AllSteps : step[s] = "started"} IN
       \E seen \in [open -> Seen] :
          /\ \A s \in open : seen[s] \in Observe(s)
          /\ report' = [report EXCEPT ![a] =
                 {[at |-> s, seen |-> seen[s]] : s \in {t \in open : seen[t] # "unknown"}}]
          /\ blocked' = [blocked EXCEPT ![a] = \E s \in open : seen[s] = "unknown"]
          /\ closing' = [closing EXCEPT ![a] =
                 {o \in Operations \ {Op(a)} :
                     Interrupted(o) /\ \A s \in Open(o) : seen[s] # "unknown"}]
    /\ Goto(a, "record")
    /\ UNCHANGED <<leaseVars, worldVars, receiptVars, found, next, ran>>

\* The receipt that closes a step: it finished, or it is skipped.
Receipt(s, finished) ==
    /\ step' = [step EXCEPT ![s] = IF finished THEN "finished" ELSE "skipped"]
    /\ everDone' = IF finished THEN everDone \cup {s} ELSE everDone

\* reconcileUnsettled(): one guarded receipt for each step that could be observed.
RecordStep(a) ==
    /\ pc[a] = "record" /\ Holds(a)
    /\ \E r \in report[a] :
          /\ Receipt(r.at, r.seen = "applied")
          /\ report' = [report EXCEPT ![a] = @ \ {r}]
    /\ UNCHANGED <<leaseVars, worldVars, intent, outcome, before, pc, found, next, closing,
                   blocked, ran>>

\* An operation all of whose steps are settled gets its outcome, after them.
RecordClose(a) ==
    /\ pc[a] = "record" /\ Holds(a)
    /\ \E o \in closing[a] :
          /\ \A r \in report[a] : r.at.op # o
          /\ outcome' = [outcome EXCEPT ![o] = "interrupted"]
          /\ closing' = [closing EXCEPT ![a] = @ \ {o}]
    /\ UNCHANGED <<leaseVars, worldVars, intent, step, everDone, before, pc, found, next, report,
                   blocked, ran>>

\* An unknown step refuses the apply.
Reconciled(a) ==
    /\ pc[a] = "record" /\ report[a] = {} /\ closing[a] = {}
    /\ Goto(a, IF blocked[a] THEN "refuse" ELSE "fresh")
    /\ UNCHANGED <<leaseVars, worldVars, receiptVars, callVars>>

\* 6: freshness again, under the lease.
CheckAgain(a) ==
    /\ pc[a] = "fresh"
    /\ Goto(a, IF Fresh(Op(a)) THEN "step" ELSE "refuse")
    /\ UNCHANGED <<leaseVars, worldVars, receiptVars, callVars>>

----
Current(a) == [op |-> Op(a), i |-> next[a]]

\* 7: a step with a finish receipt of this operation is not run again, and after the last one the
\* outcome is succeeded.
PassStep(a) ==
    /\ pc[a] = "step"
    /\ \/ next[a] \notin StepsOf(Op(a)) /\ Goto(a, "end") /\ UNCHANGED next
       \/ /\ next[a] \in StepsOf(Op(a)) /\ Current(a) \in everDone
          /\ next' = [next EXCEPT ![a] = @ + 1]
          /\ UNCHANGED pc
    /\ UNCHANGED <<leaseVars, worldVars, receiptVars, found, report, closing, blocked, ran>>

\* The lease is renewed, the observer read, and the start receipt written.
StartStep(a) ==
    /\ pc[a] = "step" /\ Holds(a)
    /\ next[a] \in StepsOf(Op(a)) /\ Current(a) \notin everDone
    /\ step' = [step EXCEPT ![Current(a)] = "started"]
    /\ before' = [before EXCEPT ![Current(a)] = effect[Current(a)]]
    /\ Goto(a, "run")
    /\ UNCHANGED <<leaseVars, worldVars, intent, outcome, everDone, callVars>>

StepDone(a) ==
    /\ next' = [next EXCEPT ![a] = @ + 1]
    /\ ran' = [ran EXCEPT ![a] = TRUE]
    /\ Goto(a, "step")

\* Mutant: the transaction of the step does not check the lease.
RunTransactionUnguarded(a) ==
    /\ pc[a] = "run" /\ KindOf(Current(a)) = "transaction"
    /\ effect' = [effect EXCEPT ![Current(a)] = @ + 1]
    /\ Receipt(Current(a), TRUE)
    /\ StepDone(a)
    /\ UNCHANGED <<leaseVars, fenced, revision, expects, late, unheard, intent, outcome, before,
                   found, report, closing, blocked>>

\* A transaction step: the guard, the effect and the finish receipt commit together.  The
\* connection may fail after the commit: the call then takes the step for failed.
RunTransaction(a) ==
    /\ pc[a] = "run" /\ KindOf(Current(a)) = "transaction" /\ Holds(a)
    /\ effect' = [effect EXCEPT ![Current(a)] = @ + 1]
    /\ Receipt(Current(a), TRUE)
    /\ \/ StepDone(a) /\ UNCHANGED unheard
       \/ /\ unheard' = unheard \cup {Current(a)}
          /\ Goto(a, "settle")
          /\ UNCHANGED <<next, ran>>
    /\ UNCHANGED <<leaseVars, fenced, revision, expects, late, intent, outcome, before, found,
                   report, closing, blocked>>

\* The effect of an effect step: outside the lease's transactions, so it happens even when
\* the lease is lost.  It may fail, before or after it took effect.
RunEffect(a) ==
    /\ pc[a] = "run" /\ KindOf(Current(a)) # "transaction"
    /\ effect' = [effect EXCEPT ![Current(a)] = @ + 1]
    /\ late' = IF Holds(a) THEN late ELSE late \cup {Current(a)}
    /\ Goto(a, "finish") \/ Goto(a, "settle")
    /\ UNCHANGED <<leaseVars, fenced, revision, expects, unheard, receiptVars, callVars>>

FinishEffect(a) ==
    /\ pc[a] = "finish" /\ Holds(a)
    /\ Receipt(Current(a), TRUE)
    /\ StepDone(a)
    /\ UNCHANGED <<leaseVars, worldVars, intent, outcome, before, found, report, closing, blocked>>

\* The step throws without having had an effect.
StepThrows(a) ==
    /\ pc[a] = "run"
    /\ Goto(a, "settle")
    /\ UNCHANGED <<leaseVars, worldVars, receiptVars, callVars>>

\* A failed step is settled at once when it is certain that it had no effect, if the receipt
\* can be written; else it stays open for the next apply.
SettleFailed(a) ==
    /\ pc[a] = "settle"
    /\ IF /\ Holds(a)
          /\ \/ KindOf(Current(a)) = "transaction"
             \/ KindOf(Current(a)) = "observed" /\ effect[Current(a)] = before[Current(a)]
       THEN Receipt(Current(a), FALSE) \/ UNCHANGED <<step, everDone>>
       ELSE UNCHANGED <<step, everDone>>
    /\ Goto(a, "failRan")
    /\ UNCHANGED <<leaseVars, worldVars, intent, outcome, before, callVars>>

\* 8: the outcome receipt, the revision when a step of this call ran, and the lease, in one
\* transaction.  Only a step's own failure and success count what ran.
Release(a) ==
    /\ pc[a] \in {"end", "failRan", "fail", "refuse"}
    /\ FreeLease(a)
    /\ outcome' = [outcome EXCEPT ![Op(a)] =
            CASE pc[a] = "end" -> "succeeded"
              [] pc[a] = "refuse" -> "refused"
              [] OTHER -> "failed"]
    /\ revision' = revision + (IF pc[a] \in {"end", "failRan"} /\ ran[a] THEN 1 ELSE 0)
    /\ Leave(a)
    /\ UNCHANGED <<fenced, expects, effect, late, unheard, intent, step, everDone, before>>

----
\* resolveInterruptedStep: under the lease, the operator records what an open step did.
Resolve(a) ==
    /\ pc[a] = "resolve"
    /\ \/ /\ \A s \in AllSteps : step[s] # "started"
          /\ Goto(a, "refuse")
          /\ UNCHANGED <<step, everDone, closing>>
       \/ \E s \in AllSteps :
             /\ step[s] = "started" /\ Holds(a)
             /\ Receipt(s, effect[s] > before[s])
             /\ closing' = [closing EXCEPT ![a] =
                    IF Open(s.op) = {s} /\ Interrupted(s.op) THEN {s.op} ELSE {}]
             /\ Goto(a, "closeResolved")
    /\ UNCHANGED <<leaseVars, worldVars, intent, outcome, before, found, next, report, blocked,
                   ran>>

\* The last step of an operation without an outcome closes it.
CloseResolved(a) ==
    /\ pc[a] = "closeResolved" /\ Holds(a)
    /\ outcome' = [o \in Operations |-> IF o \in closing[a] THEN "interrupted" ELSE outcome[o]]
    /\ Goto(a, "end")
    /\ UNCHANGED <<leaseVars, worldVars, intent, step, everDone, before, callVars>>

----
\* A query fails or a guard finds the lease lost, outside a step's own run: the call goes
\* to its catch block, whose release is best effort.
Fail(a) ==
    /\ pc[a] \notin {"idle", "done", "run", "settle"}
    /\ IF pc[a] \in {"looked", "check", "acquire", "end", "failRan", "fail", "refuse"}
       THEN Leave(a)
       ELSE Goto(a, IF pc[a] = "finish" THEN "settle" ELSE "fail") /\ UNCHANGED callVars
    /\ UNCHANGED <<leaseVars, worldVars, receiptVars>>

\* The process stops.
Crash(a) ==
    /\ pc[a] \notin {"idle", "done"}
    /\ Leave(a)
    /\ UNCHANGED <<leaseVars, worldVars, receiptVars>>

Expire ==
    /\ LeaseExpires
    /\ UNCHANGED <<worldVars, receiptVars, pc, callVars>>

\* A quiesce or a resume holds the lease in between.
FenceMoves ==
    /\ Takeable /\ leaseEpoch < MaxEpoch
    /\ leaseEpoch' = leaseEpoch + 1
    /\ leaseHolder' = NoOperation
    /\ leaseLive' = FALSE
    /\ fenced' = ~fenced
    /\ UNCHANGED <<grant, revision, expects, effect, late, unheard, receiptVars, pc, callVars>>

Apply(a) ==
    \/ Lookup(a) \/ LookAtHolder(a) \/ CheckFirst(a) \/ Acquire(a)
    \/ Survey(a) \/ RecordStep(a) \/ RecordClose(a) \/ Reconciled(a) \/ CheckAgain(a)
    \/ PassStep(a) \/ StartStep(a) \/ RunTransaction(a) \/ RunEffect(a) \/ FinishEffect(a)
    \/ StepThrows(a) \/ SettleFailed(a) \/ Release(a)
    \/ Resolve(a) \/ CloseResolved(a)

Next ==
    \/ \E a \in Attempts : Apply(a) \/ Fail(a) \/ Crash(a)
    \/ \E o \in Operations : Prepare(o)
    \/ Expire
    \/ FenceMoves

Spec == Init /\ [][Next]_vars

----
\* A transaction step takes effect at most once however often the operation is retried, and
\* exactly when a finish receipt says so: the effect and the receipt commit together
\* (apply-operation.ts:37-41), whatever was lost, taken over or not acknowledged.
TransactionsAreExact ==
    \A s \in AllSteps : KindOf(s) = "transaction" =>
        /\ effect[s] <= 1
        /\ effect[s] = 1 <=> s \in everDone

\* A step that may not be repeated takes effect at most once over all the attempts, and its
\* last receipt says what happened: an unknown step is never replayed (:50-52), and
\* reconciliation records what it observed (:42-49).  Left out: effects that came after the
\* lease was lost, and commits that were not acknowledged.
ReceiptsTellTheTruth ==
    \A s \in AllSteps \ (late \cup unheard) : KindOf(s) # "rerunnable" =>
        /\ effect[s] <= 1
        /\ step[s] = "finished" => effect[s] = 1
        /\ step[s] \in {"none", "skipped"} => effect[s] = 0

\* A step starts only in an open environment that is still at the revision its plan was
\* prepared for: the checks are made again under the lease, "so nothing can change between
\* them and the steps" (:30-31).
StepsStartFresh ==
    [][\A s \in AllSteps : step[s] # "started" /\ step'[s] = "started"
          => ~fenced /\ revision = expects[s.op]]_vars

\* "when any step ran, the environment revision increases in the same transaction" (:34-35).
AppliedMovesRevision ==
    \A o \in Operations :
        outcome[o] = "succeeded" /\ (\E s \in AllSteps : s.op = o /\ effect[s] > 0)
            => revision > expects[o]
====
