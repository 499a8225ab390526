---- MODULE ApplyOperationProofs ----
(***************************************************************************)
(* Proofs about runtime.apply for any number of attempts and operations,   *)
(* any plans, any sharing of idempotency keys, and any crash, expiry or    *)
(* failed query.  An attempt that holds the lease is the only one that     *)
(* does (GrantsOrdered), so what it observed and did since it took the     *)
(* lease still stands when it writes its receipts.  An attempt that lost   *)
(* the lease can still take effect, on steps that are then in `late`.      *)
(***************************************************************************)
EXTENDS ApplyOperation, TLAPS

\* An attempt between its intent and its outcome, and one that is in a step.
Working == {"survey", "record", "fresh", "step", "run", "finish", "settle"}
AtStep == {"run", "finish", "settle"}

\* The steps of which the receipts are to tell the truth.
Certain(s) == s \notin late \cup unheard /\ KindOf(s) # "rerunnable"

\* An attempt that works has its intent, and one in a step is in one of its plan.
Placed ==
    \A a \in Attempts :
        /\ pc[a] \in Working => intent[Op(a)]
        /\ pc[a] \in AtStep => next[a] \in StepsOf(Op(a))
        /\ pc[a] = "finish" => KindOf(Current(a)) # "transaction"

\* What a survey reports it observed: nothing of a blind step, and only a step with an observer as
\* applied.
Reports ==
    \A a \in Attempts : \A r \in report[a] :
        /\ r.seen \in {"applied", "not-applied"}
        /\ KindOf(r.at) # "blind"
        /\ r.seen = "applied" => KindOf(r.at) = "observed"

\* The receipts of each step, and the effect of each transaction.
Exact ==
    /\ TransactionsAreExact
    /\ \A s \in AllSteps : step[s] = "finished" => s \in everDone
    /\ \A s \in AllSteps : step[s] = "started" => s \notin everDone

Truth ==
    \A s \in AllSteps : Certain(s) =>
        /\ effect[s] <= 1
        /\ step[s] = "finished" => effect[s] = 1
        /\ step[s] \in {"none", "skipped"} => effect[s] = 0
        /\ step[s] = "started" => before[s] = 0

\* What the holder knows of the receipts: a step that is open is one it reported or that blocks it,
\* or the one it runs; and the checks it made stand until it released the lease.
Sees(a) ==
    /\ pc[a] = "record" =>
           \A s \in AllSteps : step[s] = "started" =>
               blocked[a] \/ \E r \in report[a] : r.at = s
    /\ pc[a] \in {"fresh", "step"} => \A s \in AllSteps : step[s] # "started"
    /\ pc[a] \in AtStep => \A s \in AllSteps : step[s] = "started" => s = Current(a)
    /\ pc[a] \in {"run", "finish"} => step[Current(a)] = "started"
    /\ pc[a] = "settle" => Current(a) \in unheard \/ step[Current(a)] = "started"
    /\ pc[a] \in {"step", "run", "finish"} => Fresh(Op(a))

\* What the holder knows of the effects: those it reported, and that of the step it runs.
Knows(a) ==
    /\ pc[a] = "record" =>
           \A r \in report[a] : Certain(r.at) =>
               /\ r.seen = "applied" => effect[r.at] = 1
               /\ r.seen = "not-applied" => effect[r.at] = 0
    /\ pc[a] = "run" /\ Certain(Current(a)) => effect[Current(a)] = 0
    /\ pc[a] = "finish" /\ Certain(Current(a)) => effect[Current(a)] = 1

HolderInformed == \A a \in Attempts : Holds(a) => Sees(a) /\ Knows(a)

Inv == TypeOK /\ GrantsOrdered /\ Placed /\ Reports /\ Exact /\ Truth /\ HolderInformed

USE DEF vars, leaseVars, worldVars, receiptVars, callVars, Goto, Op, LeaseAssumption

\* A step has an operation and a kind, and an attempt in its plan is at one.
LEMMA StepFacts ==
    /\ \A s \in AllSteps : s.op \in Operations /\ KindOf(s) \in Kinds
    /\ \A a \in Attempts : next[a] \in StepsOf(Op(a)) => Current(a) \in AllSteps
<1>1. \A o \in Operations : Plan[o] \in Seq(Kinds)
    BY ApplyAssumption DEF ApplyAssumption
<1>2. ASSUME NEW s \in AllSteps
      PROVE  s.op \in Operations /\ KindOf(s) \in Kinds
    <2>1. PICK o \in Operations : s \in {[op |-> o, i |-> i] : i \in StepsOf(o)}
        BY DEF AllSteps
    <2>2. PICK i \in StepsOf(o) : s = [op |-> o, i |-> i]
        BY <2>1
    <2>3. Plan[o][i] \in Kinds
        BY <1>1 DEF StepsOf
    <2> QED
        BY <2>2, <2>3 DEF KindOf
<1>3. ASSUME NEW a \in Attempts, next[a] \in StepsOf(Op(a))
      PROVE  Current(a) \in AllSteps
    BY <1>3, LeaseAssumption DEF AllSteps, Current
<1> QED
    BY <1>2, <1>3

\* The lease alone: distinct grants and an epoch ahead of them.
LEMMA OneHolds == LeaseTypeOK /\ GrantsOrdered => OneHolder
BY LeaseAssumption DEF LeaseTypeOK, GrantsOrdered, OneHolder, Holds

\* The lease is taken, freed, expires or is moved by a fence operation: nobody comes to hold it but
\* who takes it.
LEMMA LeaseTaken ==
    ASSUME LeaseTypeOK, GrantsOrdered, NEW a \in Attempts, TakeLease(a)
    PROVE  LeaseTypeOK' /\ GrantsOrdered' /\ \A b \in Attempts \ {a} : ~Holds(b)'
<1> USE DEF LeaseTypeOK, GrantsOrdered, TakeLease
<1>1. LeaseTypeOK'
    <2>1. OperationOf[a] \in Operations
        BY LeaseAssumption
    <2> QED
        BY <2>1
<1>2. grant'[a] = leaseEpoch + 1 /\ \A b \in Attempts \ {a} : grant'[b] = grant[b]
    OBVIOUS
<1>3. \A b \in Attempts \ {a} : grant'[b] <= leaseEpoch
    BY <1>2
<1>4. GrantsOrdered'
    <2>1. \A b \in Attempts : grant'[b] <= leaseEpoch'
        BY <1>2, <1>3
    <2>2. \A b, c \in Attempts : grant'[b] = grant'[c] /\ grant'[b] # 0 => b = c
        BY <1>2, <1>3
    <2> QED
        BY <2>1, <2>2
<1> QED
    BY <1>1, <1>2, <1>3, <1>4 DEF Holds

LEMMA LeaseLost ==
    ASSUME LeaseTypeOK, GrantsOrdered,
           (\E a \in Attempts : FreeLease(a)) \/ LeaseExpires \/ FenceMoves
    PROVE  LeaseTypeOK' /\ GrantsOrdered' /\ \A b \in Attempts : ~Holds(b)'
<1> USE DEF LeaseTypeOK, GrantsOrdered, Holds
<1>1. CASE \E a \in Attempts : FreeLease(a)
    BY <1>1 DEF FreeLease
<1>2. CASE LeaseExpires
    BY <1>2 DEF LeaseExpires
<1>3. CASE FenceMoves
    <2>1. leaseEpoch' = leaseEpoch + 1 /\ leaseHolder' = NoOperation /\ ~leaseLive' /\ grant' = grant
        BY <1>3 DEF FenceMoves
    <2>2. leaseLive' \in BOOLEAN
        BY <1>3, Zenon DEF FenceMoves
    <2>3. LeaseTypeOK'
        BY <2>1, <2>2
    <2>4. GrantsOrdered'
        BY <2>1
    <2> QED
        BY <2>1, <2>3, <2>4, LeaseAssumption
<1> QED
    BY <1>1, <1>2, <1>3

Acts(a) == Apply(a) \/ Fail(a) \/ Crash(a)

\* An attempt takes the lease with its intent, frees it with its outcome, and leaves it alone
\* otherwise.
LEMMA LeaseMoves ==
    ASSUME NEW a \in Attempts, Acts(a)
    PROVE  \/ UNCHANGED leaseVars
           \/ FreeLease(a)
           \/ TakeLease(a) /\ Goto(a, IF a \in Resolvers THEN "resolve" ELSE "survey")
<1>1. CASE Acquire(a)
    BY <1>1 DEF Acquire
<1>2. CASE Release(a)
    BY <1>2 DEF Release
<1>3. CASE Apply(a) /\ ~Acquire(a) /\ ~Release(a)
    BY <1>3 DEF Apply, Lookup, LookAtHolder, CheckFirst, Survey, RecordStep, RecordClose,
        Reconciled, CheckAgain, PassStep, StartStep, RunTransaction, RunEffect, FinishEffect,
        StepThrows, SettleFailed, Resolve, CloseResolved
<1>4. CASE Fail(a) \/ Crash(a)
    BY <1>4 DEF Fail, Crash
<1> QED
    BY <1>1, <1>2, <1>3, <1>4 DEF Acts

\* A step of the lease.
LEMMA LeaseStep ==
    ASSUME LeaseTypeOK, GrantsOrdered, [Next]_vars
    PROVE  LeaseTypeOK' /\ GrantsOrdered'
<1>1. ASSUME NEW o \in Operations, Prepare(o)
      PROVE  UNCHANGED leaseVars
    BY <1>1 DEF Prepare
<1>2. Expire => LeaseExpires
    BY DEF Expire
<1>3. \/ \E a \in Attempts : TakeLease(a) \/ FreeLease(a)
      \/ LeaseExpires \/ FenceMoves \/ UNCHANGED leaseVars
    BY <1>1, <1>2, LeaseMoves DEF Next, Acts
<1>4. CASE UNCHANGED leaseVars
    BY <1>4 DEF LeaseTypeOK, GrantsOrdered
<1> QED
    BY <1>3, <1>4, LeaseTaken, LeaseLost

----
\* Types.  A call that ends forgets what it had in memory.
CallTypes ==
    /\ pc \in [Attempts -> Points]
    /\ found \in [Attempts -> {"nothing", "continue", "running"}]
    /\ next \in [Attempts -> Nat]
    /\ report \in [Attempts -> SUBSET [at : AllSteps, seen : Seen]]
    /\ closing \in [Attempts -> SUBSET Operations]
    /\ blocked \in [Attempts -> BOOLEAN]
    /\ ran \in [Attempts -> BOOLEAN]

LEMMA LeaveTypes ==
    ASSUME TypeOK, NEW a \in Attempts, Leave(a)
    PROVE  CallTypes'
BY DEF Leave, TypeOK, CallTypes, Points

\* A receipt of a step.
LEMMA ReceiptTypes ==
    ASSUME TypeOK, NEW s \in AllSteps, NEW f \in BOOLEAN, Receipt(s, f)
    PROVE  /\ step' \in [AllSteps -> {"none", "started", "finished", "skipped"}]
           /\ everDone' \subseteq AllSteps
BY DEF TypeOK, Receipt

LEMMA LookupTypes ==
    ASSUME TypeOK, LeaseTypeOK', NEW a \in Attempts, Lookup(a)
    PROVE  TypeOK'
BY LeaveTypes DEF Lookup, TypeOK, CallTypes, Points

LEMMA LookAtHolderTypes ==
    ASSUME TypeOK, LeaseTypeOK', NEW a \in Attempts, LookAtHolder(a)
    PROVE  TypeOK'
BY LeaveTypes DEF LookAtHolder, TypeOK, CallTypes, Points

LEMMA CheckFirstTypes ==
    ASSUME TypeOK, LeaseTypeOK', NEW a \in Attempts, CheckFirst(a)
    PROVE  TypeOK'
BY LeaveTypes DEF CheckFirst, TypeOK, CallTypes, Points

LEMMA AcquireTypes ==
    ASSUME TypeOK, Placed, LeaseTypeOK', NEW a \in Attempts, Acquire(a)
    PROVE  TypeOK'
<1>1. callVars' \in {callVars} \/ Leave(a)
    BY DEF Acquire
<1>2. CallTypes'
    <2>1. pc' \in [Attempts -> Points]
        BY LeaveTypes DEF Acquire, TypeOK, CallTypes, Points
    <2> QED
        BY <1>1, <2>1, LeaveTypes DEF CallTypes, TypeOK
<1>3. /\ intent' \in [Operations -> BOOLEAN]
      /\ outcome' \in [Operations -> {"none", "succeeded", "failed", "refused", "interrupted"}]
    <2>1. \/ UNCHANGED <<intent, outcome>>
          \/ /\ intent' = [intent EXCEPT ![Op(a)] = TRUE]
             /\ outcome' = [outcome EXCEPT ![Op(a)] = "none"]
        BY DEF Acquire
    <2>2. intent' \in [Operations -> BOOLEAN]
        BY <2>1 DEF TypeOK
    <2>3. outcome' \in [Operations -> {"none", "succeeded", "failed", "refused", "interrupted"}]
        BY <2>1 DEF TypeOK
    <2> QED
        BY <2>2, <2>3
<1>4. UNCHANGED <<worldVars, step, everDone, before>>
    BY DEF Acquire
<1> QED
    BY <1>2, <1>3, <1>4 DEF TypeOK, CallTypes

LEMMA SurveyTypes ==
    ASSUME TypeOK, LeaseTypeOK', NEW a \in Attempts, Survey(a)
    PROVE  TypeOK'
BY DEF Survey, TypeOK, Points

LEMMA RecordStepTypes ==
    ASSUME TypeOK, Placed, LeaseTypeOK', NEW a \in Attempts, RecordStep(a)
    PROVE  TypeOK'
<1>1. PICK r \in report[a] :
          Receipt(r.at, r.seen = "applied") /\ report' = [report EXCEPT ![a] = @ \ {r}]
    BY DEF RecordStep
<1>2. r.at \in AllSteps /\ (r.seen = "applied") \in BOOLEAN
    BY DEF TypeOK
<1>3. /\ step' \in [AllSteps -> {"none", "started", "finished", "skipped"}]
      /\ everDone' \subseteq AllSteps
    BY <1>1, <1>2, ReceiptTypes
<1>4. report' \in [Attempts -> SUBSET [at : AllSteps, seen : Seen]]
    BY <1>1 DEF TypeOK
<1> QED
    BY <1>3, <1>4 DEF RecordStep, TypeOK

LEMMA RecordCloseTypes ==
    ASSUME TypeOK, LeaseTypeOK', NEW a \in Attempts, RecordClose(a)
    PROVE  TypeOK'
BY DEF RecordClose, TypeOK, Points

LEMMA ReconciledTypes ==
    ASSUME TypeOK, LeaseTypeOK', NEW a \in Attempts, Reconciled(a)
    PROVE  TypeOK'
BY DEF Reconciled, TypeOK, Points

LEMMA CheckAgainTypes ==
    ASSUME TypeOK, LeaseTypeOK', NEW a \in Attempts, CheckAgain(a)
    PROVE  TypeOK'
BY DEF CheckAgain, TypeOK, Points

LEMMA PassStepTypes ==
    ASSUME TypeOK, LeaseTypeOK', NEW a \in Attempts, PassStep(a)
    PROVE  TypeOK'
BY DEF PassStep, TypeOK, Points

LEMMA StartStepTypes ==
    ASSUME TypeOK, LeaseTypeOK', NEW a \in Attempts, StartStep(a)
    PROVE  TypeOK'
BY StepFacts DEF StartStep, TypeOK, Points

LEMMA RunTransactionTypes ==
    ASSUME TypeOK, Placed, LeaseTypeOK', NEW a \in Attempts, RunTransaction(a)
    PROVE  TypeOK'
<1>1. Current(a) \in AllSteps
    BY StepFacts DEF RunTransaction, Placed, AtStep
<1>2. /\ step' \in [AllSteps -> {"none", "started", "finished", "skipped"}]
      /\ everDone' \subseteq AllSteps
    BY <1>1, ReceiptTypes DEF RunTransaction
<1>3. effect' \in [AllSteps -> Nat] /\ unheard' \subseteq AllSteps
    BY <1>1 DEF RunTransaction, TypeOK
<1>4. /\ pc' \in [Attempts -> Points] /\ next' \in [Attempts -> Nat]
      /\ ran' \in [Attempts -> BOOLEAN]
    <2>1. \/ StepDone(a) /\ UNCHANGED unheard
          \/ /\ unheard' = unheard \cup {Current(a)}
             /\ Goto(a, "settle")
             /\ UNCHANGED <<next, ran>>
        BY Zenon DEF RunTransaction
    <2>2. pc' \in [Attempts -> Points]
        BY <2>1 DEF StepDone, TypeOK, Points
    <2>3. next' \in [Attempts -> Nat]
        BY <2>1 DEF StepDone, TypeOK
    <2>4. ran' \in [Attempts -> BOOLEAN]
        BY <2>1 DEF StepDone, TypeOK
    <2> QED
        BY <2>2, <2>3, <2>4
<1> QED
    BY <1>2, <1>3, <1>4 DEF RunTransaction, TypeOK

LEMMA RunEffectTypes ==
    ASSUME TypeOK, Placed, LeaseTypeOK', NEW a \in Attempts, RunEffect(a)
    PROVE  TypeOK'
<1>1. Current(a) \in AllSteps
    BY StepFacts DEF RunEffect, Placed, AtStep
<1>2. effect' \in [AllSteps -> Nat]
    BY <1>1 DEF RunEffect, TypeOK
<1>3. late' \subseteq AllSteps
    BY <1>1 DEF RunEffect, TypeOK
<1>4. pc' \in [Attempts -> Points]
    BY DEF RunEffect, TypeOK, Points
<1> QED
    BY <1>2, <1>3, <1>4 DEF RunEffect, TypeOK

LEMMA FinishEffectTypes ==
    ASSUME TypeOK, Placed, LeaseTypeOK', NEW a \in Attempts, FinishEffect(a)
    PROVE  TypeOK'
<1>1. Current(a) \in AllSteps
    BY StepFacts DEF FinishEffect, Placed, AtStep
<1>2. /\ step' \in [AllSteps -> {"none", "started", "finished", "skipped"}]
      /\ everDone' \subseteq AllSteps
    BY <1>1, ReceiptTypes DEF FinishEffect
<1>3. /\ pc' \in [Attempts -> Points] /\ next' \in [Attempts -> Nat]
      /\ ran' \in [Attempts -> BOOLEAN]
    BY DEF FinishEffect, StepDone, TypeOK, Points
<1> QED
    BY <1>2, <1>3 DEF FinishEffect, TypeOK

LEMMA StepThrowsTypes ==
    ASSUME TypeOK, LeaseTypeOK', NEW a \in Attempts, StepThrows(a)
    PROVE  TypeOK'
BY DEF StepThrows, TypeOK, Points

LEMMA SettleFailedTypes ==
    ASSUME TypeOK, Placed, LeaseTypeOK', NEW a \in Attempts, SettleFailed(a)
    PROVE  TypeOK'
<1>1. Current(a) \in AllSteps
    BY StepFacts DEF SettleFailed, Placed, AtStep
<1>2. /\ step' \in [AllSteps -> {"none", "started", "finished", "skipped"}]
      /\ everDone' \subseteq AllSteps
    <2>1. Receipt(Current(a), FALSE) \/ UNCHANGED <<step, everDone>>
        BY DEF SettleFailed
    <2> QED
        BY <1>1, <2>1, ReceiptTypes DEF TypeOK
<1>3. pc' \in [Attempts -> Points]
    BY DEF SettleFailed, TypeOK, Points
<1> QED
    BY <1>2, <1>3 DEF SettleFailed, TypeOK

LEMMA ReleaseTypes ==
    ASSUME TypeOK, Placed, LeaseTypeOK', NEW a \in Attempts, Release(a)
    PROVE  TypeOK'
<1>1. CallTypes'
    BY LeaveTypes DEF Release
<1>2. outcome' \in [Operations -> {"none", "succeeded", "failed", "refused", "interrupted"}]
    BY DEF Release, TypeOK
<1>3. revision' \in Nat
    <2>1. (IF pc[a] \in {"end", "failRan"} /\ ran[a] THEN 1 ELSE 0) \in Nat
        OBVIOUS
    <2> QED
        BY <2>1 DEF Release, TypeOK
<1> QED
    BY <1>1, <1>2, <1>3 DEF Release, TypeOK, CallTypes

LEMMA ResolveTypes ==
    ASSUME TypeOK, Placed, LeaseTypeOK', NEW a \in Attempts, Resolve(a)
    PROVE  TypeOK'
<1>1. /\ step' \in [AllSteps -> {"none", "started", "finished", "skipped"}]
      /\ everDone' \subseteq AllSteps
    <2>1. CASE UNCHANGED <<step, everDone>>
        BY <2>1 DEF TypeOK
    <2>2. CASE \E s \in AllSteps : Receipt(s, effect[s] > before[s])
        <3>1. PICK s \in AllSteps : Receipt(s, effect[s] > before[s])
            BY <2>2
        <3>2. (effect[s] > before[s]) \in BOOLEAN
            BY DEF TypeOK
        <3> QED
            BY <3>1, <3>2, ReceiptTypes
    <2> QED
        BY <2>1, <2>2 DEF Resolve
<1>2. closing' \in [Attempts -> SUBSET Operations]
    <2>1. PICK c \in SUBSET Operations : closing' = [closing EXCEPT ![a] = c]
        BY StepFacts DEF Resolve, TypeOK
    <2> QED
        BY <2>1 DEF TypeOK
<1>3. pc' \in [Attempts -> Points]
    BY DEF Resolve, TypeOK, Points
<1> QED
    BY <1>1, <1>2, <1>3 DEF Resolve, TypeOK

LEMMA CloseResolvedTypes ==
    ASSUME TypeOK, LeaseTypeOK', NEW a \in Attempts, CloseResolved(a)
    PROVE  TypeOK'
BY DEF CloseResolved, TypeOK, Points

LEMMA FailTypes ==
    ASSUME TypeOK, LeaseTypeOK', NEW a \in Attempts, Fail(a)
    PROVE  TypeOK'
BY LeaveTypes DEF Fail, TypeOK, CallTypes, Points

LEMMA CrashTypes ==
    ASSUME TypeOK, LeaseTypeOK', NEW a \in Attempts, Crash(a)
    PROVE  TypeOK'
BY LeaveTypes DEF Crash, TypeOK, CallTypes, Points

\* Every step of the specification types what it changes.
LEMMA TypesKept ==
    ASSUME TypeOK, Placed, LeaseTypeOK', [Next]_vars
    PROVE  TypeOK'
<1>1. ASSUME NEW a \in Attempts, Apply(a) PROVE TypeOK'
    BY <1>1, LookupTypes, LookAtHolderTypes, CheckFirstTypes, AcquireTypes, SurveyTypes, RecordStepTypes, RecordCloseTypes, ReconciledTypes, CheckAgainTypes, PassStepTypes, StartStepTypes, RunTransactionTypes, RunEffectTypes, FinishEffectTypes, StepThrowsTypes, SettleFailedTypes, ReleaseTypes, ResolveTypes, CloseResolvedTypes DEF Apply
<1>2. ASSUME NEW a \in Attempts, Fail(a) \/ Crash(a) PROVE TypeOK'
    BY <1>2, FailTypes, CrashTypes
<1>3. ASSUME NEW o \in Operations, Prepare(o) PROVE TypeOK'
    BY <1>3 DEF Prepare, TypeOK
<1>4. ASSUME Expire PROVE TypeOK'
    BY <1>4 DEF Expire, TypeOK
<1>5. ASSUME FenceMoves PROVE TypeOK'
    BY <1>5 DEF FenceMoves, TypeOK
<1>6. ASSUME UNCHANGED vars PROVE TypeOK'
    BY <1>6 DEF TypeOK
<1> QED
    BY <1>1, <1>2, <1>3, <1>4, <1>5, <1>6 DEF Next

----
\* What a step of one attempt leaves to the others.
OthersKept(a) ==
    \A b \in Attempts \ {a} :
        /\ pc'[b] = pc[b] /\ next'[b] = next[b]
        /\ report'[b] = report[b] /\ blocked'[b] = blocked[b]

\* What the receipts and the effects say stays.
DataKept == UNCHANGED <<step, everDone, before, effect, late, unheard>>

Informed(a) == Sees(a) /\ Knows(a)

LEMMA OthersStay ==
    ASSUME TypeOK, NEW a \in Attempts, Acts(a)
    PROVE  OthersKept(a)
<1> USE DEF TypeOK, OthersKept
<1>1. ASSUME Leave(a) PROVE OthersKept(a)
    BY <1>1 DEF Leave
<1>2. ASSUME Lookup(a) \/ LookAtHolder(a) \/ CheckFirst(a) PROVE OthersKept(a)
    BY <1>1, <1>2 DEF Lookup, LookAtHolder, CheckFirst
<1>3. ASSUME Acquire(a) PROVE OthersKept(a)
    BY <1>1, <1>3 DEF Acquire
<1>4. ASSUME Survey(a) PROVE OthersKept(a)
    BY <1>4 DEF Survey
<1>5. ASSUME RecordStep(a) PROVE OthersKept(a)
    BY <1>5 DEF RecordStep
<1>6. ASSUME RecordClose(a) \/ Reconciled(a) \/ CheckAgain(a) PROVE OthersKept(a)
    BY <1>6 DEF RecordClose, Reconciled, CheckAgain
<1>7. ASSUME PassStep(a) \/ StartStep(a) PROVE OthersKept(a)
    BY <1>7 DEF PassStep, StartStep
<1>8. ASSUME RunTransaction(a) PROVE OthersKept(a)
    BY <1>8 DEF RunTransaction, StepDone
<1>9. ASSUME RunEffect(a) \/ FinishEffect(a) \/ StepThrows(a) \/ SettleFailed(a)
      PROVE  OthersKept(a)
    BY <1>9 DEF RunEffect, FinishEffect, StepThrows, SettleFailed, StepDone
<1>10. ASSUME Release(a) PROVE OthersKept(a)
    BY <1>1, <1>10 DEF Release
<1>11. ASSUME Resolve(a) \/ CloseResolved(a) PROVE OthersKept(a)
    BY <1>11 DEF Resolve, CloseResolved
<1>12. ASSUME Fail(a) \/ Crash(a) PROVE OthersKept(a)
    BY <1>1, <1>12 DEF Fail, Crash
<1> QED
    BY <1>2, <1>3, <1>4, <1>5, <1>6, <1>7, <1>8, <1>9, <1>10, <1>11, <1>12 DEF Acts, Apply

\* An attempt that does not hold the lease writes no receipt and moves neither the fence nor the
\* revision; it can still take effect, and the step is then in `late`.
LateEffect(a) ==
    /\ Current(a) \in AllSteps /\ KindOf(Current(a)) # "transaction"
    /\ effect' = [effect EXCEPT ![Current(a)] = @ + 1]
    /\ late' = late \cup {Current(a)}

LEMMA Bystanders ==
    ASSUME TypeOK, Placed, NEW a \in Attempts, Acts(a), ~Holds(a)
    PROVE  /\ UNCHANGED <<step, everDone, before, unheard, fenced, revision, expects>>
           /\ UNCHANGED <<effect, late>> \/ LateEffect(a)
<1>1. ASSUME RunEffect(a)
      PROVE  LateEffect(a)
    BY <1>1, StepFacts DEF RunEffect, Placed, AtStep, LateEffect
<1>2. ASSUME RunEffect(a)
      PROVE  UNCHANGED <<step, everDone, before, unheard, fenced, revision, expects>>
    BY <1>2 DEF RunEffect
<1>3. ASSUME Apply(a), ~RunEffect(a)
      PROVE  UNCHANGED <<step, everDone, before, unheard, fenced, revision, expects, effect, late>>
    <2>1. \/ Lookup(a) \/ LookAtHolder(a) \/ CheckFirst(a) \/ Acquire(a) \/ Survey(a)
          \/ Reconciled(a) \/ CheckAgain(a) \/ PassStep(a) \/ StepThrows(a)
          \/ SettleFailed(a) \/ Resolve(a)
        BY <1>3 DEF Apply, RecordStep, RecordClose, StartStep, RunTransaction, FinishEffect,
            Release, FreeLease, CloseResolved
    <2>2. CASE SettleFailed(a)
        BY <2>2 DEF SettleFailed
    <2>3. CASE Resolve(a)
        BY <2>3 DEF Resolve
    <2> QED
        BY <2>1, <2>2, <2>3 DEF Lookup, LookAtHolder, CheckFirst, Acquire, Survey,
            Reconciled, CheckAgain, PassStep, StepThrows
<1>4. ASSUME Fail(a) \/ Crash(a)
      PROVE  UNCHANGED <<step, everDone, before, unheard, fenced, revision, expects, effect, late>>
    BY <1>4 DEF Fail, Crash
<1> QED
    BY <1>1, <1>2, <1>3, <1>4 DEF Acts

\* Receipts and effects that stay say the same.
LEMMA DataStays ==
    ASSUME Exact, Truth, DataKept
    PROVE  Exact' /\ Truth'
BY DEF Exact, Truth, TransactionsAreExact, DataKept, Certain

\* A late effect is of no transaction, and its step is no longer certain.
LEMMA LateEffectKeeps ==
    ASSUME TypeOK, Exact, Truth, NEW a \in Attempts, LateEffect(a),
           UNCHANGED <<step, everDone, before, unheard>>
    PROVE  Exact' /\ Truth'
<1>1. \A s \in AllSteps : s # Current(a) => effect'[s] = effect[s]
    BY DEF LateEffect, TypeOK
<1>2. \A s \in AllSteps : Certain(s)' => Certain(s) /\ s # Current(a)
    BY DEF Certain, LateEffect
<1>3. Truth'
    BY <1>1, <1>2 DEF Truth
<1>4. Exact'
    BY <1>1 DEF Exact, TransactionsAreExact, LateEffect
<1> QED
    BY <1>3, <1>4

\* What the holder saw and knows survives the steps of an attempt that does not hold the lease.
LEMMA HolderUndisturbed ==
    ASSUME TypeOK, Placed, NEW a \in Attempts, Acts(a), ~Holds(a),
           NEW b \in Attempts, a # b, Informed(b)
    PROVE  Informed(b)'
<1>1. /\ pc'[b] = pc[b] /\ next'[b] = next[b]
      /\ report'[b] = report[b] /\ blocked'[b] = blocked[b]
    BY OthersStay DEF OthersKept
<1>2. UNCHANGED <<step, everDone, before, unheard, fenced, revision, expects>>
    BY Bystanders
<1>3. UNCHANGED Current(b)
    BY <1>1 DEF Current
<1>4. \A s : Certain(s)' => Certain(s) /\ effect'[s] = effect[s]
    <2>1. CASE UNCHANGED <<effect, late>>
        BY <2>1, <1>2 DEF Certain
    <2>2. CASE LateEffect(a)
        <3>1. \A s \in AllSteps : s # Current(a) => effect'[s] = effect[s]
            BY <2>2 DEF LateEffect, TypeOK
        <3> QED
            BY <2>2, <3>1, <1>2 DEF LateEffect, Certain, TypeOK
    <2> QED
        BY <2>1, <2>2, Bystanders
<1>5. Sees(b)'
    BY <1>1, <1>2, <1>3 DEF Informed, Sees, Fresh
<1>6. Knows(b)'
    BY <1>1, <1>3, <1>4 DEF Informed, Knows
<1> QED
    BY <1>5, <1>6 DEF Informed

----
\* The steps of the holder.  First those that write no receipt and take no effect.

\* An attempt that is nowhere between its survey and its outcome claims nothing.
LEMMA IdleIsInformed ==
    ASSUME NEW a \in Attempts, pc[a] \notin {"record", "fresh", "step"} \cup AtStep
    PROVE  Informed(a)
BY DEF Informed, Sees, Knows, AtStep

LEMMA LeaveIsInformed ==
    ASSUME TypeOK, NEW a \in Attempts, Leave(a)
    PROVE  Informed(a)'
BY IdleIsInformed DEF Leave, TypeOK, AtStep, Informed, Sees, Knows

LEMMA QuietHolds ==
    ASSUME TypeOK, NEW a \in Attempts, Informed(a),
           \/ Lookup(a) \/ LookAtHolder(a) \/ CheckFirst(a) \/ Acquire(a)
           \/ Release(a) \/ CloseResolved(a) \/ Fail(a) \/ Crash(a)
    PROVE  DataKept /\ Informed(a)'
<1>1. ASSUME Lookup(a) \/ LookAtHolder(a) \/ CheckFirst(a) \/ Acquire(a) \/ Release(a)
             \/ CloseResolved(a) \/ Fail(a) \/ Crash(a)
      PROVE  DataKept
    BY <1>1 DEF Lookup, LookAtHolder, CheckFirst, Acquire, Release, CloseResolved, Fail, Crash,
        DataKept
<1>2. ASSUME pc'[a] \notin {"record", "fresh", "step", "run", "finish", "settle"}
      PROVE  Informed(a)'
    BY <1>2 DEF Informed, Sees, Knows, AtStep
<1>3. ASSUME Lookup(a) \/ LookAtHolder(a) \/ CheckFirst(a)
      PROVE  Informed(a)'
    <2>1. Leave(a) \/ pc'[a] \in {"looked", "check", "acquire"}
        BY <1>3 DEF Lookup, LookAtHolder, CheckFirst, TypeOK
    <2> QED
        BY <2>1, <1>2, LeaveIsInformed
<1>4. ASSUME Acquire(a)
      PROVE  Informed(a)'
    <2>1. Leave(a) \/ pc'[a] \in {"idle", "resolve", "survey"}
        BY <1>4 DEF Acquire, TypeOK
    <2> QED
        BY <2>1, <1>2, LeaveIsInformed
<1>5. ASSUME Release(a) \/ Crash(a)
      PROVE  Informed(a)'
    BY <1>5, LeaveIsInformed DEF Release, Crash
<1>6. ASSUME CloseResolved(a)
      PROVE  Informed(a)'
    BY <1>6, <1>2 DEF CloseResolved, TypeOK
<1>7. ASSUME Fail(a)
      PROVE  Informed(a)'
    <2>1. CASE Leave(a)
        BY <2>1, LeaveIsInformed
    <2>2. CASE pc'[a] = "fail"
        BY <2>2, <1>2
    <2>3. CASE pc[a] = "finish" /\ pc'[a] = "settle" /\ UNCHANGED callVars
        <3>1. UNCHANGED Current(a)
            BY <2>3 DEF Current
        <3> QED
            BY <2>3, <3>1, <1>1, <1>7 DEF Informed, Sees, Knows, AtStep, DataKept
    <2> QED
        BY <2>1, <2>2, <2>3, <1>7 DEF Fail, TypeOK
<1> QED
    BY <1>1, <1>3, <1>4, <1>5, <1>6, <1>7

\* What an observer reads of a step that is certain is what happened: an open transaction did not
\* commit, and an observed step was started with nothing applied.
LEMMA ObserveFacts ==
    ASSUME TypeOK, Exact, Truth, NEW s \in AllSteps, step[s] = "started",
           NEW x \in Observe(s), x # "unknown"
    PROVE  /\ x \in {"applied", "not-applied"} /\ KindOf(s) # "blind"
           /\ x = "applied" => KindOf(s) = "observed"
           /\ Certain(s) => /\ x = "applied" => effect[s] = 1
                            /\ x = "not-applied" => effect[s] = 0
<1>1. KindOf(s) \in Kinds /\ effect[s] \in Nat /\ before[s] \in Nat
    BY StepFacts DEF TypeOK
<1>2. CASE KindOf(s) = "transaction"
    <2>1. effect[s] = 0
        BY <1>1, <1>2 DEF Exact, TransactionsAreExact
    <2> QED
        BY <1>2, <2>1 DEF Observe
<1>3. CASE KindOf(s) = "rerunnable"
    BY <1>3 DEF Observe, Certain
<1>4. CASE KindOf(s) = "blind"
    BY <1>4 DEF Observe
<1>5. CASE KindOf(s) = "observed"
    <2>1. Certain(s) => before[s] = 0
        BY DEF Truth
    <2>2. x \in {"applied", "not-applied"}
        BY <1>5 DEF Observe
    <2>3. x = "applied" => effect[s] = before[s] + 1
        BY <1>5 DEF Observe
    <2>4. x = "not-applied" => effect[s] = before[s]
        BY <1>5, <1>1 DEF Observe
    <2> QED
        BY <1>1, <1>5, <2>1, <2>2, <2>3, <2>4
<1> QED
    BY <1>1, <1>2, <1>3, <1>4, <1>5 DEF Kinds

LEMMA SurveyHolds ==
    ASSUME TypeOK, Exact, Truth, NEW a \in Attempts, Survey(a)
    PROVE  /\ DataKept /\ Informed(a)'
           /\ \A r \in report'[a] : /\ r.seen \in {"applied", "not-applied"}
                                    /\ KindOf(r.at) # "blind"
                                    /\ r.seen = "applied" => KindOf(r.at) = "observed"
<1> DEFINE open == {s \in AllSteps : step[s] = "started"}
<1>1. PICK seen \in [open -> Seen] :
          /\ \A s \in open : seen[s] \in Observe(s)
          /\ report' = [report EXCEPT ![a] =
                 {[at |-> s, seen |-> seen[s]] : s \in {t \in open : seen[t] # "unknown"}}]
          /\ blocked' = [blocked EXCEPT ![a] = \E s \in open : seen[s] = "unknown"]
    BY DEF Survey
<1>2. /\ report'[a] = {[at |-> s, seen |-> seen[s]] : s \in {t \in open : seen[t] # "unknown"}}
      /\ blocked'[a] = (\E s \in open : seen[s] = "unknown")
    <2>1. blocked'[a] = (\E s \in open : seen[s] = "unknown")
        BY <1>1, Zenon DEF TypeOK
    <2> QED
        BY <1>1, <2>1 DEF TypeOK
<1>3. pc'[a] = "record" /\ DataKept
    BY DEF Survey, DataKept, TypeOK
<1>4. \A r \in report'[a] : r.at \in open /\ r.seen = seen[r.at] /\ r.seen # "unknown"
    BY <1>2
<1>5. \A s \in open : blocked'[a] \/ \E r \in report'[a] : r.at = s
    <2>1. \A s \in open : seen[s] # "unknown" => [at |-> s, seen |-> seen[s]] \in report'[a]
        BY <1>2
    <2>2. \A s \in open : seen[s] = "unknown" => blocked'[a]
        BY <1>2
    <2> QED
        BY <2>1, <2>2
<1>6. \A r \in report'[a] :
          /\ r.seen \in {"applied", "not-applied"} /\ KindOf(r.at) # "blind"
          /\ r.seen = "applied" => KindOf(r.at) = "observed"
          /\ Certain(r.at) => /\ r.seen = "applied" => effect[r.at] = 1
                              /\ r.seen = "not-applied" => effect[r.at] = 0
    <2> SUFFICES ASSUME NEW r \in report'[a]
                 PROVE  /\ r.seen \in {"applied", "not-applied"} /\ KindOf(r.at) # "blind"
                        /\ r.seen = "applied" => KindOf(r.at) = "observed"
                        /\ Certain(r.at) => /\ r.seen = "applied" => effect[r.at] = 1
                                            /\ r.seen = "not-applied" => effect[r.at] = 0
        OBVIOUS
    <2>1. r.at \in AllSteps /\ step[r.at] = "started" /\ r.seen \in Observe(r.at)
        BY <1>1, <1>4
    <2> QED
        BY <1>4, <2>1, ObserveFacts
<1> HIDE DEF open
<1>7. Sees(a)'
    BY <1>3, <1>5 DEF Sees, AtStep, DataKept, open
<1>8. Knows(a)'
    <2>1. \A s : Certain(s)' => Certain(s)
        BY <1>3 DEF Certain, DataKept
    <2> QED
        BY <1>3, <1>6, <2>1 DEF Knows, DataKept
<1> QED
    BY <1>3, <1>6, <1>7, <1>8 DEF Informed

\* Once the survey's receipts are written and nothing blocks, no step is open.
LEMMA RecordedHolds ==
    ASSUME TypeOK, NEW a \in Attempts, Informed(a),
           RecordClose(a) \/ Reconciled(a) \/ CheckAgain(a)
    PROVE  DataKept /\ Informed(a)'
<1>1. DataKept
    BY DEF RecordClose, Reconciled, CheckAgain, DataKept
<1>2. UNCHANGED <<next, report, blocked, fenced, revision, expects>>
    BY DEF RecordClose, Reconciled, CheckAgain
<1>3. CASE RecordClose(a)
    <2>1. pc[a] = "record" /\ pc'[a] = "record"
        BY <1>3 DEF RecordClose
    <2> QED
        BY <2>1, <1>1, <1>2 DEF Informed, Sees, Knows, AtStep, DataKept, Certain
<1>4. CASE Reconciled(a)
    <2>1. pc[a] = "record" /\ report[a] = {} /\ pc'[a] \in {"refuse", "fresh"}
        BY <1>4 DEF Reconciled, TypeOK
    <2>2. pc'[a] = "fresh" => ~blocked[a]
        BY <1>4 DEF Reconciled, TypeOK
    <2> QED
        BY <2>1, <2>2, <1>1 DEF Informed, Sees, Knows, AtStep, DataKept
<1>5. CASE CheckAgain(a)
    <2>1. pc[a] = "fresh" /\ pc'[a] \in {"refuse", "step"}
        BY <1>5 DEF CheckAgain, TypeOK
    <2>2. pc'[a] = "step" => Fresh(Op(a))
        BY <1>5 DEF CheckAgain, TypeOK
    <2>3. Fresh(Op(a)) => Fresh(Op(a))'
        BY <1>2 DEF Fresh
    <2> QED
        BY <2>1, <2>2, <2>3, <1>1 DEF Informed, Sees, Knows, AtStep, DataKept
<1> QED
    BY <1>1, <1>3, <1>4, <1>5

LEMMA PassedHolds ==
    ASSUME TypeOK, NEW a \in Attempts, Informed(a), PassStep(a) \/ StepThrows(a)
    PROVE  DataKept /\ Informed(a)'
<1>1. DataKept
    BY DEF PassStep, StepThrows, DataKept
<1>2. UNCHANGED <<report, blocked, fenced, revision, expects>>
    BY DEF PassStep, StepThrows
<1>3. CASE PassStep(a)
    <2>1. pc[a] = "step" /\ pc'[a] \in {"step", "end"}
        BY <1>3 DEF PassStep, TypeOK
    <2>2. Fresh(Op(a)) => Fresh(Op(a))'
        BY <1>2 DEF Fresh
    <2> QED
        BY <2>1, <2>2, <1>1 DEF Informed, Sees, Knows, AtStep, DataKept
<1>4. CASE StepThrows(a)
    <2>1. pc[a] = "run" /\ pc'[a] = "settle" /\ UNCHANGED next
        BY <1>4 DEF StepThrows, TypeOK
    <2>2. UNCHANGED Current(a)
        BY <2>1 DEF Current
    <2> QED
        BY <2>1, <2>2, <1>1 DEF Informed, Sees, Knows, AtStep, DataKept
<1> QED
    BY <1>1, <1>3, <1>4

----
\* The steps of the holder that write a receipt or take effect.

\* A receipt that finishes a step that took effect, or that skips one that did not.
LEMMA ReceiptKeeps ==
    ASSUME TypeOK, Exact, Truth, NEW s \in AllSteps, NEW f \in BOOLEAN, Receipt(s, f),
           UNCHANGED <<effect, before, late, unheard>>,
           Certain(s) => effect[s] = IF f THEN 1 ELSE 0,
           f => KindOf(s) # "transaction"
    PROVE  Exact' /\ Truth'
<1>1. /\ step'[s] = IF f THEN "finished" ELSE "skipped"
      /\ \A t \in AllSteps : t # s => step'[t] = step[t]
    BY DEF Receipt, TypeOK
<1>2. /\ f => everDone' = everDone \cup {s}
      /\ ~f => everDone' = everDone
    BY DEF Receipt
<1>3. \A t \in AllSteps : Certain(t)' <=> Certain(t)
    BY DEF Certain
<1>4. Truth'
    BY <1>1, <1>3 DEF Truth
<1>5. TransactionsAreExact'
    BY <1>2 DEF Exact, TransactionsAreExact
<1>6. \A t \in AllSteps : step'[t] = "finished" => t \in everDone'
    BY <1>1, <1>2 DEF Exact
<1>7. \A t \in AllSteps : step'[t] = "started" => t \notin everDone'
    BY <1>1, <1>2 DEF Exact
<1> QED
    BY <1>4, <1>5, <1>6, <1>7 DEF Exact

LEMMA RecordStepHolds ==
    ASSUME TypeOK, Reports, Exact, Truth, NEW a \in Attempts, Informed(a), RecordStep(a)
    PROVE  Exact' /\ Truth' /\ Informed(a)'
<1>1. PICK r \in report[a] :
          Receipt(r.at, r.seen = "applied") /\ report' = [report EXCEPT ![a] = @ \ {r}]
    BY DEF RecordStep
<1>2. r.at \in AllSteps /\ (r.seen = "applied") \in BOOLEAN
    BY DEF TypeOK
<1>3. pc[a] = "record" /\ UNCHANGED <<pc, blocked, effect, before, late, unheard>>
    BY DEF RecordStep
<1>4. /\ r.seen \in {"applied", "not-applied"}
      /\ r.seen = "applied" => KindOf(r.at) = "observed"
    BY DEF Reports
<1>5. Certain(r.at) => effect[r.at] = IF r.seen = "applied" THEN 1 ELSE 0
    BY <1>3, <1>4 DEF Informed, Knows
<1>6. Exact' /\ Truth'
    BY <1>1, <1>2, <1>3, <1>4, <1>5, ReceiptKeeps
<1>7. report'[a] = report[a] \ {r}
    BY <1>1 DEF TypeOK
<1>8. \A s \in AllSteps : step'[s] = "started" => s # r.at /\ step[s] = "started"
    BY <1>1, <1>2 DEF Receipt, TypeOK
<1>9. Sees(a)'
    BY <1>3, <1>7, <1>8 DEF Informed, Sees, AtStep
<1>10. Knows(a)'
    BY <1>3, <1>7 DEF Informed, Knows, Certain
<1> QED
    BY <1>6, <1>9, <1>10 DEF Informed

\* A step that starts had no effect that its receipts do not tell.
LEMMA StartStepHolds ==
    ASSUME TypeOK, Exact, Truth, NEW a \in Attempts, Informed(a), StartStep(a)
    PROVE  Exact' /\ Truth' /\ Informed(a)'
<1> DEFINE s == Current(a)
<1>1. s \in AllSteps /\ s \notin everDone
    BY StepFacts DEF StartStep
<1>2. /\ step'[s] = "started" /\ before'[s] = effect[s]
      /\ \A t \in AllSteps : t # s => step'[t] = step[t] /\ before'[t] = before[t]
    BY <1>1 DEF StartStep, TypeOK
<1>3. UNCHANGED <<everDone, effect, late, unheard, next, fenced, revision, expects>>
    BY DEF StartStep
<1>4. pc[a] = "step" /\ pc'[a] = "run"
    BY DEF StartStep, TypeOK
<1>5. Fresh(Op(a))' /\ \A t \in AllSteps : step[t] # "started"
    BY <1>3, <1>4 DEF Informed, Sees, Fresh
<1>6. Certain(s) => effect[s] = 0
    <2>1. step[s] \in {"none", "skipped"}
        BY <1>1, <1>5 DEF Exact, TypeOK
    <2> QED
        BY <1>1, <2>1 DEF Truth
<1>7. \A t \in AllSteps : Certain(t)' <=> Certain(t)
    BY <1>3 DEF Certain
<1>8. UNCHANGED Current(a)
    BY <1>3 DEF Current
<1> HIDE DEF s
<1>9. Truth'
    BY <1>1, <1>2, <1>3, <1>6, <1>7 DEF Truth
<1>10. Exact'
    BY <1>1, <1>2, <1>3 DEF Exact, TransactionsAreExact
<1>11. Sees(a)'
    BY <1>1, <1>2, <1>4, <1>5, <1>8 DEF Sees, AtStep, s
<1>12. Knows(a)'
    BY <1>1, <1>3, <1>4, <1>6, <1>7, <1>8 DEF Knows, s
<1> QED
    BY <1>9, <1>10, <1>11, <1>12 DEF Informed

\* The effect of a transaction and its finish receipt commit together.
LEMMA RunTransactionHolds ==
    ASSUME TypeOK, Placed, Exact, Truth, NEW a \in Attempts, Informed(a), RunTransaction(a)
    PROVE  Exact' /\ Truth' /\ Informed(a)'
<1> DEFINE s == Current(a)
<1>1. pc[a] = "run" /\ s \in AllSteps /\ KindOf(s) = "transaction"
    BY StepFacts DEF RunTransaction, Placed, AtStep
<1>2. step[s] = "started" /\ Fresh(Op(a))
    BY <1>1 DEF Informed, Sees
<1>3. effect[s] = 0
    BY <1>1, <1>2 DEF Exact, TransactionsAreExact, TypeOK
<1>4. /\ effect'[s] = 1
      /\ \A t \in AllSteps : t # s => effect'[t] = effect[t]
    BY <1>1, <1>3 DEF RunTransaction, TypeOK
<1>5. /\ step'[s] = "finished" /\ everDone' = everDone \cup {s}
      /\ \A t \in AllSteps : t # s => step'[t] = step[t]
    BY <1>1 DEF RunTransaction, Receipt, TypeOK
<1>6. UNCHANGED <<before, late, fenced, revision, expects>>
    BY DEF RunTransaction
<1>7. \/ StepDone(a) /\ UNCHANGED unheard
      \/ /\ unheard' = unheard \cup {Current(a)}
         /\ Goto(a, "settle")
         /\ UNCHANGED <<next, ran>>
    BY Zenon DEF RunTransaction
<1>8. \/ pc'[a] = "step"
      \/ pc'[a] = "settle" /\ UNCHANGED next /\ Current(a) \in unheard'
    BY <1>7 DEF StepDone, TypeOK
<1>9. \A t \in AllSteps : Certain(t)' => Certain(t)
    BY <1>6, <1>7 DEF Certain
<1>10. \A t \in AllSteps : step'[t] # "started"
    BY <1>1, <1>5 DEF Informed, Sees, AtStep
<1>11. Fresh(Op(a))'
    BY <1>2, <1>6 DEF Fresh
<1>12. UNCHANGED next => UNCHANGED Current(a)
    BY DEF Current
<1> HIDE DEF s
<1>13. Truth'
    BY <1>1, <1>4, <1>5, <1>6, <1>9 DEF Truth
<1>14. TransactionsAreExact'
    BY <1>1, <1>4, <1>5 DEF Exact, TransactionsAreExact
<1>15. Exact'
    BY <1>1, <1>5, <1>10, <1>14 DEF Exact
<1>16. Sees(a)'
    BY <1>8, <1>10, <1>11, <1>12 DEF Sees, AtStep
<1>17. Knows(a)'
    BY <1>8 DEF Knows
<1> QED
    BY <1>13, <1>15, <1>16, <1>17 DEF Informed

\* The effect of an effect step, under the lease.
LEMMA RunEffectHolds ==
    ASSUME TypeOK, Placed, Exact, Truth, NEW a \in Attempts, Holds(a), Informed(a), RunEffect(a)
    PROVE  Exact' /\ Truth' /\ Informed(a)'
<1> DEFINE s == Current(a)
<1>1. pc[a] = "run" /\ s \in AllSteps /\ KindOf(s) # "transaction"
    BY StepFacts DEF RunEffect, Placed, AtStep
<1>2. step[s] = "started" /\ Fresh(Op(a))
    BY <1>1 DEF Informed, Sees
<1>3. Certain(s) => effect[s] = 0
    BY <1>1 DEF Informed, Knows
<1>4. /\ Certain(s) => effect'[s] = 1
      /\ \A t \in AllSteps : t # s => effect'[t] = effect[t]
    BY <1>1, <1>3 DEF RunEffect, TypeOK
<1>5. UNCHANGED <<step, everDone, before, late, unheard, fenced, revision, expects, next>>
    BY DEF RunEffect
<1>6. pc'[a] \in {"finish", "settle"}
    BY DEF RunEffect, TypeOK
<1>7. \A t \in AllSteps : Certain(t)' <=> Certain(t)
    BY <1>5 DEF Certain
<1>8. UNCHANGED Current(a) /\ Fresh(Op(a))'
    BY <1>2, <1>5 DEF Current, Fresh
<1> HIDE DEF s
<1>9. Truth'
    BY <1>1, <1>2, <1>4, <1>5, <1>7 DEF Truth
<1>10. Exact'
    BY <1>1, <1>4, <1>5 DEF Exact, TransactionsAreExact
<1>11. Sees(a)'
    BY <1>1, <1>2, <1>5, <1>6, <1>8 DEF Informed, Sees, AtStep, s
<1>12. Knows(a)'
    BY <1>1, <1>4, <1>6, <1>7, <1>8 DEF Knows, s
<1> QED
    BY <1>9, <1>10, <1>11, <1>12 DEF Informed

LEMMA FinishEffectHolds ==
    ASSUME TypeOK, Placed, Exact, Truth, NEW a \in Attempts, Informed(a), FinishEffect(a)
    PROVE  Exact' /\ Truth' /\ Informed(a)'
<1> DEFINE s == Current(a)
<1>1. pc[a] = "finish" /\ s \in AllSteps /\ KindOf(s) # "transaction"
    BY StepFacts DEF FinishEffect, Placed, AtStep
<1>2. (Certain(s) => effect[s] = 1) /\ Fresh(Op(a))
    BY <1>1 DEF Informed, Knows, Sees
<1>3. UNCHANGED <<effect, before, late, unheard, fenced, revision, expects>>
    BY DEF FinishEffect
<1>4. Receipt(s, TRUE)
    BY DEF FinishEffect
<1>5. pc'[a] = "step"
    BY DEF FinishEffect, StepDone, TypeOK
<1>6. \A t \in AllSteps : step'[t] # "started"
    BY <1>1, <1>4 DEF Receipt, Informed, Sees, AtStep, TypeOK
<1>7. Fresh(Op(a))'
    BY <1>2, <1>3 DEF Fresh
<1> HIDE DEF s
<1>8. Exact' /\ Truth'
    BY <1>1, <1>2, <1>3, <1>4, ReceiptKeeps
<1>9. Sees(a)' /\ Knows(a)'
    BY <1>5, <1>6, <1>7 DEF Sees, Knows, AtStep
<1> QED
    BY <1>8, <1>9 DEF Informed

\* A failed step is skipped only when it is certain that it had no effect.
LEMMA SettleFailedHolds ==
    ASSUME TypeOK, Placed, Exact, Truth, NEW a \in Attempts, Informed(a), SettleFailed(a)
    PROVE  Exact' /\ Truth' /\ Informed(a)'
<1> DEFINE s == Current(a)
<1>1. pc[a] = "settle" /\ s \in AllSteps
    BY StepFacts DEF SettleFailed, Placed, AtStep
<1>2. UNCHANGED <<effect, before, late, unheard>>
    BY DEF SettleFailed
<1>3. pc'[a] = "failRan"
    BY DEF SettleFailed, TypeOK
<1>4. Informed(a)'
    BY <1>3 DEF Informed, Sees, Knows, AtStep
<1>5. CASE UNCHANGED <<step, everDone>>
    BY <1>2, <1>4, <1>5, DataStays DEF DataKept
<1>6. CASE /\ Receipt(s, FALSE)
           /\ \/ KindOf(s) = "transaction"
              \/ KindOf(s) = "observed" /\ effect[s] = before[s]
    <2>1. Certain(s) => step[s] = "started"
        BY <1>1 DEF Certain, Informed, Sees
    <2>2. Certain(s) => effect[s] = 0
        BY <1>1, <1>6, <2>1 DEF Exact, TransactionsAreExact, Truth, TypeOK
    <2> HIDE DEF s
    <2> QED
        BY <1>1, <1>2, <1>4, <1>6, <2>2, ReceiptKeeps
<1> QED
    BY <1>5, <1>6 DEF SettleFailed

\* The operator's word on an open step.
LEMMA ResolveHolds ==
    ASSUME TypeOK, Exact, Truth, NEW a \in Attempts, Informed(a), Resolve(a)
    PROVE  Exact' /\ Truth' /\ Informed(a)'
<1>1. UNCHANGED <<effect, before, late, unheard>>
    BY DEF Resolve
<1>2. Informed(a)'
    <2>1. pc'[a] \in {"refuse", "closeResolved"}
        BY DEF Resolve, TypeOK
    <2> QED
        BY <2>1 DEF Informed, Sees, Knows, AtStep
<1>3. CASE UNCHANGED <<step, everDone>>
    BY <1>1, <1>2, <1>3, DataStays DEF DataKept
<1>4. ASSUME NEW s \in AllSteps, step[s] = "started", Receipt(s, effect[s] > before[s])
      PROVE  Exact' /\ Truth'
    <2> DEFINE f == effect[s] > before[s]
    <2>1. f \in BOOLEAN /\ effect[s] \in Nat /\ before[s] \in Nat
        BY DEF TypeOK
    <2>2. Certain(s) => effect[s] = IF f THEN 1 ELSE 0
        BY <1>4, <2>1 DEF Truth
    <2>3. f => KindOf(s) # "transaction"
        BY <1>4, <2>1 DEF Exact, TransactionsAreExact
    <2>4. Receipt(s, f)
        BY <1>4
    <2> HIDE DEF f
    <2> QED
        BY <1>1, <2>1, <2>2, <2>3, <2>4, ReceiptKeeps
<1> QED
    BY <1>2, <1>3, <1>4 DEF Resolve

----
\* Where the attempts are, and what their surveys reported.
LEMMA PlacedKept ==
    ASSUME TypeOK, Placed, NEW a \in Attempts, Acts(a)
    PROVE  Placed'
<1>1. \A o \in Operations : intent[o] => intent'[o]
    <2>1. CASE Acquire(a)
        BY <2>1 DEF Acquire, TypeOK
    <2>2. CASE ~Acquire(a)
        BY <2>2 DEF Acts, Apply, Lookup, LookAtHolder, CheckFirst, Survey, RecordStep,
            RecordClose, Reconciled, CheckAgain, PassStep, StartStep, RunTransaction, RunEffect,
            FinishEffect, StepThrows, SettleFailed, Release, Resolve, CloseResolved, Fail, Crash
    <2> QED
        BY <2>1, <2>2
<1>2. \A b \in Attempts : OperationOf[b] \in Operations
    BY LeaseAssumption
<1> DEFINE At(b) == /\ pc[b] \in Working => intent[Op(b)]
                    /\ pc[b] \in AtStep => next[b] \in StepsOf(Op(b))
                    /\ pc[b] = "finish" => KindOf(Current(b)) # "transaction"
<1>3. \A b \in Attempts : At(b)
    BY DEF Placed
<1>4. ASSUME NEW b \in Attempts, b # a
      PROVE  At(b)'
    <2>1. pc'[b] = pc[b] /\ next'[b] = next[b]
        BY <1>4, OthersStay DEF OthersKept
    <2>2. UNCHANGED Current(b)
        BY <2>1 DEF Current
    <2> QED
        BY <1>1, <1>2, <1>3, <2>1, <2>2
<1>5. ASSUME pc'[a] \notin Working
      PROVE  At(a)'
    BY <1>5 DEF Working, AtStep
<1>6. ASSUME Leave(a)
      PROVE  At(a)'
    BY <1>5, <1>6 DEF Leave, TypeOK, Working
<1>7. ASSUME pc'[a] \in Working \ AtStep, intent'[Op(a)]
      PROVE  At(a)'
    BY <1>7 DEF AtStep
<1>8. ASSUME pc[a] \in Working, pc'[a] \notin AtStep
      PROVE  At(a)'
    BY <1>1, <1>2, <1>3, <1>5, <1>7, <1>8
<1>9. ASSUME pc[a] \in AtStep, pc'[a] \in {"finish", "settle"}, UNCHANGED next,
             pc'[a] = "finish" => KindOf(Current(a)) # "transaction"
      PROVE  At(a)'
    <2>1. UNCHANGED Current(a)
        BY <1>9 DEF Current
    <2> QED
        BY <1>1, <1>2, <1>3, <1>9, <2>1 DEF AtStep, Working
<1>10. ASSUME Lookup(a) \/ LookAtHolder(a) \/ CheckFirst(a)
       PROVE  At(a)'
    <2>1. Leave(a) \/ pc'[a] \in {"looked", "check", "acquire"}
        BY <1>10 DEF Lookup, LookAtHolder, CheckFirst, TypeOK
    <2> QED
        BY <2>1, <1>5, <1>6 DEF Working
<1>11. ASSUME Acquire(a)
       PROVE  At(a)'
    <2>1. \/ Leave(a) \/ pc'[a] \in {"idle", "resolve"}
          \/ pc'[a] = "survey" /\ intent'[Op(a)]
        BY <1>2, <1>11 DEF Acquire, TypeOK
    <2> QED
        BY <2>1, <1>5, <1>6, <1>7 DEF Working, AtStep
<1>12. ASSUME \/ Survey(a) \/ RecordStep(a) \/ RecordClose(a) \/ Reconciled(a) \/ CheckAgain(a)
              \/ PassStep(a)
       PROVE  At(a)'
    <2>1. pc[a] \in {"survey", "record", "fresh", "step"}
        BY <1>12 DEF Survey, RecordStep, RecordClose, Reconciled, CheckAgain, PassStep
    <2>2. pc'[a] \in {"record", "fresh", "step", "end", "refuse"}
        BY <1>12 DEF Survey, RecordStep, RecordClose, Reconciled, CheckAgain, PassStep, TypeOK
    <2> QED
        BY <2>1, <2>2, <1>8 DEF Working, AtStep
<1>13. ASSUME StartStep(a)
       PROVE  At(a)'
    <2>1. pc[a] = "step" /\ pc'[a] = "run" /\ next'[a] = next[a] /\ next[a] \in StepsOf(Op(a))
        BY <1>13 DEF StartStep, TypeOK
    <2> QED
        BY <1>1, <1>2, <1>3, <2>1 DEF Working
<1>14. ASSUME RunTransaction(a)
       PROVE  At(a)'
    <2>1. pc[a] = "run"
        BY <1>14 DEF RunTransaction
    <2>2. \/ StepDone(a) /\ UNCHANGED unheard
          \/ /\ unheard' = unheard \cup {Current(a)}
             /\ Goto(a, "settle")
             /\ UNCHANGED <<next, ran>>
        BY <1>14, Zenon DEF RunTransaction
    <2>3. CASE StepDone(a)
        BY <2>1, <2>3, <1>8 DEF StepDone, TypeOK, Working, AtStep
    <2>4. CASE Goto(a, "settle") /\ UNCHANGED <<next, ran>>
        BY <2>1, <2>4, <1>9 DEF TypeOK, AtStep
    <2> QED
        BY <2>2, <2>3, <2>4
<1>15. ASSUME FinishEffect(a) \/ SettleFailed(a)
       PROVE  At(a)'
    <2>1. pc[a] \in {"finish", "settle"} /\ pc'[a] \in {"step", "failRan"}
        BY <1>15 DEF FinishEffect, SettleFailed, StepDone, TypeOK
    <2> QED
        BY <2>1, <1>8 DEF Working, AtStep
<1>16. ASSUME RunEffect(a) \/ StepThrows(a)
       PROVE  At(a)'
    <2>1. /\ pc[a] = "run" /\ pc'[a] \in {"finish", "settle"} /\ UNCHANGED next
          /\ pc'[a] = "finish" => KindOf(Current(a)) # "transaction"
        BY <1>16 DEF RunEffect, StepThrows, TypeOK
    <2> QED
        BY <2>1, <1>9 DEF AtStep
<1>17. ASSUME Release(a) \/ Crash(a)
       PROVE  At(a)'
    BY <1>17, <1>6 DEF Release, Crash
<1>18. ASSUME Resolve(a) \/ CloseResolved(a)
       PROVE  At(a)'
    <2>1. pc'[a] \in {"refuse", "closeResolved", "end"}
        BY <1>18 DEF Resolve, CloseResolved, TypeOK
    <2> QED
        BY <2>1, <1>5 DEF Working
<1>19. ASSUME Fail(a)
       PROVE  At(a)'
    <2>1. \/ Leave(a) \/ pc'[a] = "fail"
          \/ pc[a] = "finish" /\ pc'[a] = "settle" /\ UNCHANGED next
        BY <1>19 DEF Fail, TypeOK
    <2> QED
        BY <2>1, <1>5, <1>6, <1>9 DEF Working, AtStep
<1> HIDE DEF At
<1>20. At(a)'
    BY <1>10, <1>11, <1>12, <1>13, <1>14, <1>15, <1>16, <1>17, <1>18, <1>19 DEF Acts, Apply
<1>21. \A b \in Attempts : At(b)'
    BY <1>4, <1>20
<1> QED
    BY <1>21 DEF Placed, At

LEMMA ReportsKept ==
    ASSUME TypeOK, Exact, Truth, Reports, NEW a \in Attempts, Acts(a)
    PROVE  Reports'
<1>1. CASE Survey(a)
    <2>1. \A b \in Attempts \ {a} : report'[b] = report[b]
        BY OthersStay DEF OthersKept
    <2> QED
        BY <1>1, <2>1, SurveyHolds DEF Reports
<1>2. CASE ~Survey(a)
    <2>1. report'[a] \subseteq report[a]
        <3>1. Leave(a) => report'[a] = {}
            BY DEF Leave, TypeOK
        <3>2. CASE RecordStep(a)
            BY <3>2 DEF RecordStep, TypeOK
        <3>3. CASE ~RecordStep(a)
            <4>1. Leave(a) \/ UNCHANGED report
                BY <1>2, <3>3 DEF Acts, Apply, Lookup, LookAtHolder, CheckFirst, Acquire,
                    RecordClose, Reconciled, CheckAgain, PassStep, StartStep, RunTransaction,
                    RunEffect, FinishEffect, StepThrows, SettleFailed, Release, Resolve,
                    CloseResolved, Fail, Crash
            <4> QED
                BY <3>1, <4>1
        <3> QED
            BY <3>2, <3>3
    <2>2. \A b \in Attempts \ {a} : report'[b] = report[b]
        BY OthersStay DEF OthersKept
    <2> QED
        BY <2>1, <2>2 DEF Reports
<1> QED
    BY <1>1, <1>2

----
\* The steps of an attempt that holds the lease, all of them.
LEMMA HolderKeeps ==
    ASSUME TypeOK, Placed, Reports, Exact, Truth, NEW a \in Attempts, Holds(a), Informed(a),
           Acts(a)
    PROVE  Exact' /\ Truth' /\ Informed(a)'
<1>1. ASSUME DataKept
      PROVE  Exact' /\ Truth'
    BY <1>1, DataStays
<1>2. ASSUME \/ Lookup(a) \/ LookAtHolder(a) \/ CheckFirst(a) \/ Acquire(a)
             \/ Release(a) \/ CloseResolved(a) \/ Fail(a) \/ Crash(a)
      PROVE  Exact' /\ Truth' /\ Informed(a)'
    BY <1>1, <1>2, QuietHolds
<1>3. ASSUME Survey(a)
      PROVE  Exact' /\ Truth' /\ Informed(a)'
    BY <1>1, <1>3, SurveyHolds
<1>4. ASSUME RecordClose(a) \/ Reconciled(a) \/ CheckAgain(a)
      PROVE  Exact' /\ Truth' /\ Informed(a)'
    BY <1>1, <1>4, RecordedHolds
<1>5. ASSUME PassStep(a) \/ StepThrows(a)
      PROVE  Exact' /\ Truth' /\ Informed(a)'
    BY <1>1, <1>5, PassedHolds
<1> QED
    BY <1>2, <1>3, <1>4, <1>5, RecordStepHolds, StartStepHolds, RunTransactionHolds,
        RunEffectHolds, FinishEffectHolds, SettleFailedHolds, ResolveHolds DEF Acts, Apply

\* A step of any attempt: of the holder, of one that takes the lease, or of a bystander.
LEMMA ActKeeps ==
    ASSUME Inv, NEW a \in Attempts, Acts(a)
    PROVE  Exact' /\ Truth' /\ HolderInformed'
<1> USE DEF Inv
<1>0. LeaseTypeOK /\ OneHolder
    BY OneHolds DEF TypeOK
<1>1. CASE Holds(a)
    <2>1. Informed(a)
        BY <1>1 DEF HolderInformed, Informed
    <2>2. Exact' /\ Truth' /\ Informed(a)'
        BY <1>1, <2>1, HolderKeeps
    <2>3. \A b \in Attempts : b # a => ~Holds(b)'
        <3>1. \/ UNCHANGED leaseVars \/ FreeLease(a) \/ TakeLease(a)
            BY LeaseMoves
        <3>2. ASSUME UNCHANGED leaseVars
              PROVE  \A b \in Attempts : Holds(b)' <=> Holds(b)
            BY <3>2 DEF Holds
        <3> QED
            BY <1>0, <1>1, <3>1, <3>2, LeaseTaken, LeaseLost DEF OneHolder
    <2> QED
        BY <2>2, <2>3 DEF HolderInformed, Informed
<1>2. CASE ~Holds(a)
    <2>1. Exact' /\ Truth'
        <3>1. CASE UNCHANGED <<effect, late>>
            BY <3>1, <1>2, Bystanders, DataStays DEF DataKept
        <3>2. CASE LateEffect(a)
            BY <3>2, <1>2, Bystanders, LateEffectKeeps
        <3> QED
            BY <3>1, <3>2, <1>2, Bystanders
    <2>2. ASSUME TakeLease(a), Goto(a, IF a \in Resolvers THEN "resolve" ELSE "survey")
          PROVE  HolderInformed'
        <3>1. pc'[a] \in {"resolve", "survey"}
            BY <2>2 DEF TypeOK
        <3>2. Informed(a)'
            BY <3>1 DEF Informed, Sees, Knows, AtStep
        <3> QED
            BY <1>0, <2>2, <3>2, LeaseTaken DEF HolderInformed, Informed
    <2>3. ASSUME UNCHANGED leaseVars
          PROVE  HolderInformed'
        <3>1. \A b \in Attempts : Holds(b)' <=> Holds(b)
            BY <2>3 DEF Holds
        <3>2. \A b \in Attempts : Holds(b)' => Informed(b)'
            BY <1>2, <3>1, HolderUndisturbed DEF HolderInformed, Informed
        <3> QED
            BY <3>2 DEF HolderInformed, Informed
    <2> QED
        BY <1>2, <2>1, <2>2, <2>3, LeaseMoves DEF FreeLease
<1> QED
    BY <1>1, <1>2

\* Apart from StartStep, an attempt changes the latest receipt of a step by closing it.
LEMMA ReceiptsOnly ==
    ASSUME TypeOK, Placed, NEW a \in Attempts, Acts(a), ~StartStep(a)
    PROVE  UNCHANGED step \/ \E s \in AllSteps : \E f \in BOOLEAN : Receipt(s, f)
<1>1. pc[a] \in AtStep => Current(a) \in AllSteps
    BY StepFacts DEF Placed
<1>2. CASE RecordStep(a)
    <2>1. PICK r \in report[a] : Receipt(r.at, r.seen = "applied")
        BY <1>2 DEF RecordStep
    <2>2. r.at \in AllSteps /\ (r.seen = "applied") \in BOOLEAN
        BY DEF TypeOK
    <2> QED
        BY <2>1, <2>2
<1>3. CASE RunTransaction(a) \/ FinishEffect(a)
    <2>1. Receipt(Current(a), TRUE) /\ Current(a) \in AllSteps
        BY <1>1, <1>3 DEF RunTransaction, FinishEffect, AtStep
    <2> QED
        BY <2>1
<1>4. CASE SettleFailed(a)
    <2>1. (Receipt(Current(a), FALSE) \/ UNCHANGED step) /\ Current(a) \in AllSteps
        BY <1>1, <1>4 DEF SettleFailed, AtStep
    <2> QED
        BY <2>1
<1>5. CASE Resolve(a)
    <2>1. UNCHANGED step \/ \E s \in AllSteps : Receipt(s, effect[s] > before[s])
        BY <1>5 DEF Resolve
    <2>2. \A s \in AllSteps : (effect[s] > before[s]) \in BOOLEAN
        BY DEF TypeOK
    <2> QED
        BY <2>1, <2>2
<1> QED
    BY <1>2, <1>3, <1>4, <1>5 DEF Acts, Apply, Lookup, LookAtHolder, CheckFirst, Acquire, Survey,
        RecordClose, Reconciled, CheckAgain, PassStep, RunEffect, StepThrows, Release,
        CloseResolved, Fail, Crash

\* The steps that are no attempt's: a plan prepared anew is of an operation nobody works on, and
\* nobody holds the lease after it expired or a fence operation had it.
LEMMA OthersKeep ==
    ASSUME Inv, (\E o \in Operations : Prepare(o)) \/ Expire \/ FenceMoves \/ UNCHANGED vars
    PROVE  Placed' /\ Reports' /\ Exact' /\ Truth' /\ HolderInformed'
<1> USE DEF Inv
<1>1. UNCHANGED <<receiptVars, effect, late, unheard, pc, callVars>>
    BY DEF Prepare, Expire, FenceMoves
<1>2. \A a \in Attempts : UNCHANGED Current(a)
    BY <1>1 DEF Current
<1>3. Placed' /\ Reports'
    BY <1>1, <1>2 DEF Placed, Reports
<1>4. Exact' /\ Truth'
    BY <1>1, DataStays DEF DataKept
<1>5. HolderInformed'
    <2>1. CASE Expire \/ FenceMoves
        <3>1. LeaseExpires \/ FenceMoves
            BY <2>1 DEF Expire
        <3> QED
            BY <3>1, LeaseLost DEF TypeOK, HolderInformed
    <2>2. ASSUME NEW a \in Attempts, Informed(a),
                 UNCHANGED <<fenced, revision>>, UNCHANGED expects[Op(a)] \/ pc[a] \notin Working
          PROVE  Informed(a)'
        <3>1. pc[a] \in {"step", "run", "finish"} => (Fresh(Op(a)) => Fresh(Op(a))')
            BY <2>2 DEF Fresh, Working
        <3>2. \A s : Certain(s)' <=> Certain(s)
            BY <1>1 DEF Certain
        <3>3. Sees(a)'
            BY <1>1, <1>2, <2>2, <3>1 DEF Informed, Sees
        <3>4. Knows(a)'
            BY <1>1, <1>2, <2>2, <3>2 DEF Informed, Knows
        <3> QED
            BY <3>3, <3>4 DEF Informed
    <2>3. CASE \E o \in Operations : Prepare(o)
        <3>1. PICK o \in Operations : Prepare(o)
            BY <2>3
        <3>2. UNCHANGED <<leaseVars, fenced, revision>> /\ ~intent[o]
            BY <3>1 DEF Prepare
        <3>3. \A a \in Attempts : UNCHANGED expects[Op(a)] \/ pc[a] \notin Working
            <4>1. \A p \in Operations : p # o => expects'[p] = expects[p]
                BY <3>1 DEF Prepare, TypeOK
            <4>2. \A a \in Attempts : OperationOf[a] \in Operations
                BY LeaseAssumption
            <4> QED
                BY <3>2, <4>1, <4>2 DEF Placed
        <3>4. \A a \in Attempts : Holds(a)' => Holds(a)
            BY <3>2 DEF Holds
        <3> QED
            BY <2>2, <3>2, <3>3, <3>4 DEF HolderInformed, Informed
    <2>4. CASE UNCHANGED vars
        <3>1. \A a \in Attempts : Holds(a)' => Holds(a)
            BY <2>4 DEF Holds
        <3> QED
            BY <2>2, <2>4, <3>1 DEF HolderInformed, Informed
    <2> QED
        BY <2>1, <2>3, <2>4
<1> QED
    BY <1>3, <1>4, <1>5

LEMMA InitInv == Init => Inv
<1> SUFFICES ASSUME Init PROVE Inv
    OBVIOUS
<1> USE DEF Init
<1>1. LeaseTypeOK /\ GrantsOrdered
    <2>1. \A a \in Attempts : grant[a] = 0
        BY DEF LeaseInit
    <2>2. LeaseTypeOK
        BY DEF LeaseInit, LeaseTypeOK
    <2>3. GrantsOrdered
        BY <2>1 DEF LeaseInit, GrantsOrdered
    <2> QED
        BY <2>2, <2>3
<1>2. TypeOK
    BY <1>1 DEF TypeOK, Points
<1>3. Placed /\ Reports
    BY DEF Placed, Reports, Working, AtStep
<1>4. Exact /\ Truth
    BY DEF Exact, TransactionsAreExact, Truth
<1>5. HolderInformed
    BY DEF HolderInformed, Sees, Knows, AtStep
<1> QED
    BY <1>1, <1>2, <1>3, <1>4, <1>5 DEF Inv

LEMMA InvNext == Inv /\ [Next]_vars => Inv'
<1> SUFFICES ASSUME Inv, [Next]_vars PROVE Inv'
    OBVIOUS
<1>1. LeaseTypeOK' /\ GrantsOrdered' /\ TypeOK'
    BY LeaseStep, TypesKept DEF Inv, TypeOK
<1>2. ASSUME NEW a \in Attempts, Acts(a)
      PROVE  Placed' /\ Reports' /\ Exact' /\ Truth' /\ HolderInformed'
    BY <1>2, PlacedKept, ReportsKept, ActKeeps DEF Inv
<1>3. \/ \E a \in Attempts : Acts(a)
      \/ (\E o \in Operations : Prepare(o)) \/ Expire \/ FenceMoves \/ UNCHANGED vars
    BY DEF Next, Acts
<1> QED
    BY <1>1, <1>2, <1>3, OthersKeep DEF Inv

LEMMA Invariance == Spec => []Inv
BY InitInv, InvNext, PTL DEF Spec

----
\* The variables of runtime.apply keep their types.
THEOREM TypeCorrect == Spec => []TypeOK
<1>1. Inv => TypeOK
    BY DEF Inv
<1> QED
    BY <1>1, Invariance, PTL

\* Two calls never pass the guard of the operation lease at once, the attempts of one operation under
\* one idempotency key included (operation-lease.ts, guard()).
THEOREM OneAttemptHolds == Spec => []OneHolder
<1>1. Inv => OneHolder
    BY OneHolds DEF Inv, TypeOK
<1> QED
    BY <1>1, Invariance, PTL

\* A transaction step takes effect at most once however often its operation is retried, and exactly
\* when one of its receipts says that it finished (apply-operation.ts:37-41), for any plans and any
\* crashes, lost leases and unacknowledged commits.
THEOREM TransactionsExact == Spec => []TransactionsAreExact
<1>1. Inv => TransactionsAreExact
    BY DEF Inv, Exact
<1> QED
    BY <1>1, Invariance, PTL

\* The last receipt of a step that may not be repeated says what happened to it: a survey's report
\* stands until it is recorded, because only the holder can change what it observed (:42-52).
THEOREM ReceiptsTruthful == Spec => []ReceiptsTellTheTruth
<1>1. Inv => ReceiptsTellTheTruth
    BY DEF Inv, Truth, Certain, ReceiptsTellTheTruth
<1> QED
    BY <1>1, Invariance, PTL

\* A step starts only in an open environment that is still at the revision its plan was prepared
\* for: what the second freshness check saw under the lease stands at every start (:30-31).
THEOREM StartsFresh == Spec => StepsStartFresh
<1> DEFINE Starts == \A s \in AllSteps : step[s] # "started" /\ step'[s] = "started"
                          => ~fenced /\ revision = expects[s.op]
<1>1. Inv /\ [Next]_vars => [Starts]_vars
    <2> SUFFICES ASSUME Inv, Next PROVE Starts
        BY DEF Starts
    <2>1. ASSUME NEW a \in Attempts, StartStep(a)
          PROVE  Starts
        <3>1. Current(a) \in AllSteps
            BY <2>1, StepFacts DEF StartStep
        <3>2. \A s \in AllSteps : s # Current(a) => step'[s] = step[s]
            BY <2>1, <3>1 DEF StartStep, Inv, TypeOK
        <3>3. Fresh(Op(a))
            BY <2>1 DEF StartStep, Inv, HolderInformed, Sees
        <3>4. Current(a).op = Op(a)
            BY DEF Current
        <3> QED
            BY <3>2, <3>3, <3>4 DEF Fresh
    <2>2. ASSUME NEW a \in Attempts, Acts(a), ~StartStep(a)
          PROVE  Starts
        <3>1. CASE UNCHANGED step
            BY <3>1
        <3>2. ASSUME NEW s \in AllSteps, NEW f \in BOOLEAN, Receipt(s, f)
              PROVE  Starts
            BY <3>2 DEF Receipt, Inv, TypeOK
        <3>3. \/ UNCHANGED step
              \/ \E s \in AllSteps : \E f \in BOOLEAN : Receipt(s, f)
            BY <2>2, ReceiptsOnly DEF Inv
        <3> QED
            BY <3>1, <3>2, <3>3
    <2>3. ASSUME (\E o \in Operations : Prepare(o)) \/ Expire \/ FenceMoves
          PROVE  Starts
        BY <2>3 DEF Prepare, Expire, FenceMoves
    <2> QED
        BY <2>1, <2>2, <2>3 DEF Next, Acts
<1> QED
    BY <1>1, Invariance, PTL DEF Spec, StepsStartFresh

====
