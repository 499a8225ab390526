---- MODULE FenceOperations ----
(***************************************************************************)
(* quiesce and resume of the runtime-control adapter (fence-operations.ts) *)
(* over the operation lease and the database write barrier                 *)
(* (write-barrier.ts), with the environment's two databases: the           *)
(* application database, whose state row holds the lease, the fence and    *)
(* the barrier record, and the workflow system database, whose privileges  *)
(* are revoked and granted in transactions of their own.                   *)
(*                                                                         *)
(* One step per transaction.  An attempt may die between any two steps,    *)
(* any transaction may fail, and the lease may expire at any time.  The    *)
(* drain that quiesce waits for is RuntimeFence's subject: here its        *)
(* outcome is either.                                                      *)
(***************************************************************************)
EXTENDS OperationLease, SourceFence

CONSTANT Quiesces   \* the attempts that are quiesces; the others are resumes

ASSUME QuiescesAssumption == Quiesces \subseteq Attempts

Resumes == Attempts \ Quiesces

VARIABLES barriers,             \* fence_barriers
          appWrites, sysWrites, \* the runtime role holds its write privileges, per database
          pc,                   \* where each attempt is
          asked,                \* the fence epoch an attempt works on
          record,               \* the barrier record an attempt read or is about to write
          drained,              \* what a quiesce's drain found
          sysRevoked,           \* workflowSystemGrants: this quiesce revoked something there
          openStep,             \* the step with a step-started receipt and no step-finished one
          outcome               \* the outcome receipt of each attempt

stateVars == <<fenceVars, barriers>>
attemptVars == <<asked, record, drained, sysRevoked>>
vars == <<leaseVars, stateVars, appWrites, sysWrites, pc, attemptVars, openStep, outcome>>

\* readBarrierRecord(): no record, a barrier that could not be held, or a held one
\* with whether it recorded privileges of either database to grant back.
Barriers == [state : {"none", "unavailable", "held"}, app : BOOLEAN, sys : BOOLEAN]
NoBarriers == [state |-> "none", app |-> FALSE, sys |-> FALSE]
Unavailable == [state |-> "unavailable", app |-> FALSE, sys |-> FALSE]

Steps == {"take-fence", "drain", "barriers", "release-fence"}

\* The points of quiesceOperation and resumeOperation between two transactions.
Unguarded == {"idle", "drain", "revokeSys", "undoThenRecord", "undoThenFail", "read",
              "restoreSys"}
Guarded == {"startFence", "takeFence", "fenceTaken", "startDrain", "drainDone",
            "startBarriers", "revokeApp", "recordBarriers", "barriersDone",
            "startRelease", "releaseFence", "fenceReleased", "end", "fail", "refuse"}
Over == {"done", "dead"}

TypeOK ==
    /\ LeaseTypeOK
    /\ FenceTypeOK
    /\ barriers \in Barriers
    /\ appWrites \in BOOLEAN /\ sysWrites \in BOOLEAN
    /\ pc \in [Attempts -> Unguarded \cup Guarded \cup Over]
    /\ asked \in [Attempts -> Nat]
    /\ record \in [Attempts -> Barriers]
    /\ drained \in [Attempts -> BOOLEAN]
    /\ sysRevoked \in [Attempts -> BOOLEAN]
    /\ openStep \in [Attempts -> Steps \cup {"none"}]
    /\ outcome \in [Attempts -> {"none", "succeeded", "failed", "refused"}]

Init ==
    /\ LeaseInit
    /\ FenceInit
    /\ barriers = NoBarriers
    /\ appWrites = TRUE /\ sysWrites = TRUE
    /\ pc = [a \in Attempts |-> "idle"]
    /\ asked = [a \in Attempts |-> 0]
    /\ record = [a \in Attempts |-> NoBarriers]
    /\ drained = [a \in Attempts |-> FALSE]
    /\ sysRevoked = [a \in Attempts |-> FALSE]
    /\ openStep = [a \in Attempts |-> "none"]
    /\ outcome = [a \in Attempts |-> "none"]

Goto(a, to) == pc' = [pc EXCEPT ![a] = to]

----
\* acquireOperationLease(), or its refusal: a live lease ends the attempt at once.
Acquire(a) ==
    /\ pc[a] = "idle"
    /\ IF Takeable
       THEN /\ TakeLease(a)
            /\ Goto(a, IF a \in Quiesces THEN "startFence" ELSE "read")
       ELSE UNCHANGED leaseVars /\ Goto(a, "done")
    /\ \/ a \in Quiesces /\ UNCHANGED asked
       \/ a \in Resumes /\ \E e \in 0..fenceEpoch : asked' = [asked EXCEPT ![a] = e]
    /\ UNCHANGED <<stateVars, appWrites, sysWrites, record, drained, sysRevoked, openStep, outcome>>

\* The step-started and step-finished receipts of OperationLease.step, each a
\* transaction of its own.
StartStep(a, from, step, to) ==
    /\ pc[a] = from /\ Holds(a)
    /\ openStep' = [openStep EXCEPT ![a] = step]
    /\ Goto(a, to)
    /\ UNCHANGED <<leaseVars, stateVars, appWrites, sysWrites, attemptVars, outcome>>

\* Mutant: the receipt of a finished step is written without the guard.
FinishStepUnguarded(a, from, to) ==
    /\ pc[a] = from
    /\ openStep' = [openStep EXCEPT ![a] = "none"]
    /\ Goto(a, to)
    /\ UNCHANGED <<leaseVars, stateVars, appWrites, sysWrites, attemptVars, outcome>>

FinishStep(a, from, to) ==
    /\ pc[a] = from /\ Holds(a)
    /\ openStep' = [openStep EXCEPT ![a] = "none"]
    /\ Goto(a, to)
    /\ UNCHANGED <<leaseVars, stateVars, appWrites, sysWrites, attemptVars, outcome>>

\* Mutant: a second quiesce takes the fence again.
TakeFenceAgain(a) ==
    /\ pc[a] = "takeFence" /\ Holds(a)
    /\ fence' = "fenced"
    /\ fenceEpoch' = fenceEpoch + 1
    /\ barriers' = NoBarriers
    /\ asked' = [asked EXCEPT ![a] = fenceEpoch + 1]
    /\ record' = [record EXCEPT ![a] = NoBarriers]
    /\ Goto(a, "fenceTaken")
    /\ UNCHANGED <<leaseVars, appWrites, sysWrites, drained, sysRevoked, openStep, outcome>>

\* Step take-fence: an open fence is taken at a new epoch without a barrier record; a
\* held one is kept, with the record it has.
TakeFence(a) ==
    /\ pc[a] = "takeFence" /\ Holds(a)
    /\ IF fence = "fenced"
       THEN /\ asked' = [asked EXCEPT ![a] = fenceEpoch]
            /\ record' = [record EXCEPT ![a] = barriers]
            /\ UNCHANGED stateVars
       ELSE /\ fence' = "fenced"
            /\ fenceEpoch' = fenceEpoch + 1
            /\ barriers' = NoBarriers
            /\ asked' = [asked EXCEPT ![a] = fenceEpoch + 1]
            /\ record' = [record EXCEPT ![a] = NoBarriers]
    /\ Goto(a, "fenceTaken")
    /\ UNCHANGED <<leaseVars, appWrites, sysWrites, drained, sysRevoked, openStep, outcome>>

\* waitForDrain(): every live process drained, or the deadline passed first.
Drain(a) ==
    /\ pc[a] = "drain"
    /\ \E d \in BOOLEAN : drained' = [drained EXCEPT ![a] = d]
    /\ Goto(a, "drainDone")
    /\ UNCHANGED <<leaseVars, stateVars, appWrites, sysWrites, asked, record, sysRevoked, openStep,
                   outcome>>

\* Mutant: every quiesce takes the barrier anew.
ChooseNewBarrier(a) ==
    /\ pc[a] = "startBarriers" /\ Holds(a)
    /\ openStep' = [openStep EXCEPT ![a] = "barriers"]
    /\ record' = [record EXCEPT ![a] = Unavailable]
    /\ Goto(a, IF drained[a] THEN "revokeSys" ELSE "recordBarriers")
    /\ UNCHANGED <<leaseVars, stateVars, appWrites, sysWrites, asked, drained, sysRevoked, outcome>>

\* Step barriers begins: a database barrier an earlier quiesce of this fence holds is
\* kept as recorded; after a complete drain it is taken; otherwise there is none.
ChooseBarrier(a) ==
    /\ pc[a] = "startBarriers" /\ Holds(a)
    /\ openStep' = [openStep EXCEPT ![a] = "barriers"]
    /\ IF record[a].state = "held"
       THEN UNCHANGED record /\ Goto(a, "recordBarriers")
       ELSE /\ record' = [record EXCEPT ![a] = Unavailable]
            /\ Goto(a, IF drained[a] THEN "revokeSys" ELSE "recordBarriers")
    /\ UNCHANGED <<leaseVars, stateVars, appWrites, sysWrites, asked, drained, sysRevoked, outcome>>

\* takeDatabaseBarrier(), the workflow system database: its own transaction, without
\* the lease's guard.  A role that cannot be fenced leaves everything as it was.
RevokeSys(a) ==
    /\ pc[a] = "revokeSys"
    /\ \/ /\ sysRevoked' = [sysRevoked EXCEPT ![a] = sysWrites]
          /\ sysWrites' = FALSE
          /\ Goto(a, "revokeApp")
       \/ Goto(a, "recordBarriers") /\ UNCHANGED <<sysWrites, sysRevoked>>
    /\ UNCHANGED <<leaseVars, stateVars, appWrites, asked, record, drained, openStep, outcome>>

\* takeDatabaseBarrier(), the application database: under the guard.  What the role
\* held is only in the quiesce's memory until the record is written.
RevokeApp(a) ==
    /\ pc[a] = "revokeApp" /\ Holds(a)
    /\ \/ /\ record' = [record EXCEPT ![a] = [state |-> "held", app |-> appWrites,
                                              sys |-> sysRevoked[a]]]
          /\ appWrites' = FALSE
          /\ Goto(a, "recordBarriers")
       \/ /\ Goto(a, IF sysRevoked[a] THEN "undoThenRecord" ELSE "recordBarriers")
          /\ UNCHANGED <<record, appWrites>>
    /\ UNCHANGED <<leaseVars, stateVars, sysWrites, asked, drained, sysRevoked, openStep, outcome>>

\* The application database refused: the workflow system database gets its
\* privileges back, again without the guard.
UndoSys(a) ==
    /\ pc[a] \in {"undoThenRecord", "undoThenFail"}
    /\ sysWrites' = TRUE
    /\ Goto(a, IF pc[a] = "undoThenRecord" THEN "recordBarriers" ELSE "fail")
    /\ UNCHANGED <<leaseVars, stateVars, appWrites, attemptVars, openStep, outcome>>

\* The record is written with the fence.
RecordBarriers(a) ==
    /\ pc[a] = "recordBarriers" /\ Holds(a)
    /\ barriers' = record[a]
    /\ Goto(a, "barriersDone")
    /\ UNCHANGED <<leaseVars, fence, fenceEpoch, appWrites, sysWrites, attemptVars, openStep,
                   outcome>>

----
\* resumeOperation reads the fence before its step, outside any transaction.
ReadFence(a) ==
    /\ pc[a] = "read"
    /\ Goto(a, IF /\ fence = "fenced" /\ fenceEpoch = asked[a]
                  /\ barriers.state = "held" /\ barriers.sys
               THEN "restoreSys" ELSE "startRelease")
    /\ UNCHANGED <<leaseVars, stateVars, appWrites, sysWrites, attemptVars, openStep, outcome>>

\* Mutant: both databases are restored outside the guard.
RestoreBoth(a) ==
    /\ pc[a] = "restoreSys"
    /\ sysWrites' = TRUE
    /\ appWrites' = TRUE
    /\ Goto(a, "startRelease")
    /\ UNCHANGED <<leaseVars, stateVars, attemptVars, openStep, outcome>>

\* The workflow system database first, in a transaction of its own.
RestoreSys(a) ==
    /\ pc[a] = "restoreSys"
    /\ sysWrites' = TRUE
    /\ Goto(a, "startRelease")
    /\ UNCHANGED <<leaseVars, stateVars, appWrites, attemptVars, openStep, outcome>>

\* Step release-fence: refused at another epoch, without effect on an open fence;
\* otherwise the recorded privileges are granted back and the fence opens, together.
ReleaseFence(a) ==
    /\ pc[a] = "releaseFence" /\ Holds(a)
    /\ \/ /\ fenceEpoch # asked[a]
          /\ Goto(a, "refuse")
          /\ UNCHANGED <<stateVars, appWrites>>
       \/ /\ fenceEpoch = asked[a] /\ fence = "open"
          /\ Goto(a, "fenceReleased")
          /\ UNCHANGED <<stateVars, appWrites>>
       \/ /\ fenceEpoch = asked[a] /\ fence = "fenced"
          /\ appWrites' = (appWrites \/ (barriers.state = "held" /\ barriers.app))
          /\ fence' = "open"
          /\ barriers' = NoBarriers
          /\ Goto(a, "fenceReleased")
          /\ UNCHANGED fenceEpoch
    /\ UNCHANGED <<leaseVars, sysWrites, attemptVars, openStep, outcome>>

----
\* release(): the outcome receipt and the lease, in one transaction.
Release(a) ==
    /\ pc[a] \in {"end", "fail", "refuse"} /\ FreeLease(a)
    /\ outcome' = [outcome EXCEPT ![a] =
            IF pc[a] = "refuse" THEN "refused"
            ELSE IF pc[a] = "end" /\ (a \in Resumes \/ drained[a]) THEN "succeeded" ELSE "failed"]
    /\ Goto(a, "done")
    /\ UNCHANGED <<stateVars, appWrites, sysWrites, attemptVars, openStep>>

\* A transaction fails, or its guard finds the lease lost: the attempt goes to its
\* catch block, by way of the workflow system database when it revoked there.  The
\* release of the catch block is best effort.
Fail(a) ==
    /\ pc[a] \in (Unguarded \cup Guarded) \ {"idle"}
    /\ Goto(a, IF pc[a] = "revokeApp" /\ sysRevoked[a] THEN "undoThenFail"
               ELSE IF pc[a] \in {"fail", "refuse"} THEN "done" ELSE "fail")
    /\ UNCHANGED <<leaseVars, stateVars, appWrites, sysWrites, attemptVars, openStep, outcome>>

\* The process of an attempt stops between two transactions.
Crash(a) ==
    /\ pc[a] \notin Over \cup {"idle"}
    /\ Goto(a, "dead")
    /\ UNCHANGED <<leaseVars, stateVars, appWrites, sysWrites, attemptVars, openStep, outcome>>

Expire ==
    /\ LeaseExpires
    /\ UNCHANGED <<stateVars, appWrites, sysWrites, pc, attemptVars, openStep, outcome>>

Quiesce(a) ==
    \/ StartStep(a, "startFence", "take-fence", "takeFence")
    \/ TakeFence(a)
    \/ FinishStep(a, "fenceTaken", "startDrain")
    \/ StartStep(a, "startDrain", "drain", "drain")
    \/ Drain(a)
    \/ FinishStep(a, "drainDone", "startBarriers")
    \/ ChooseBarrier(a)
    \/ RevokeSys(a)
    \/ RevokeApp(a)
    \/ UndoSys(a)
    \/ RecordBarriers(a)
    \/ FinishStep(a, "barriersDone", "end")

Resume(a) ==
    \/ ReadFence(a)
    \/ RestoreSys(a)
    \/ StartStep(a, "startRelease", "release-fence", "releaseFence")
    \/ ReleaseFence(a)
    \/ FinishStep(a, "fenceReleased", "end")

Next ==
    \/ \E a \in Attempts : Acquire(a) \/ Release(a) \/ Fail(a) \/ Crash(a)
    \/ \E a \in Quiesces : Quiesce(a)
    \/ \E a \in Resumes : Resume(a)
    \/ Expire

Spec == Init /\ [][Next]_vars

----
\* While the record says that the database barrier is held, the runtime role cannot
\* write the application database, whichever quiesce took the barrier and whatever
\* expired or crashed since (write-barrier.ts:4-10, fence-operations.ts:375-390).
HeldBarrierFences == barriers.state = "held" => ~appWrites

\* A privilege the runtime role lost is either in the barrier record, where a resume
\* finds it, or an attempt has a `barriers` step open in its receipts: no crash, no
\* expired lease and no failed transaction loses one without a trace
\* (fence-operations.ts:375-402, operation-lease.ts:545-555).
LostPrivilegesAreTraced ==
    /\ ~appWrites => \/ barriers.state = "held" /\ barriers.app
                     \/ \E a \in Quiesces : openStep[a] = "barriers"
    /\ ~sysWrites => \/ barriers.state = "held" /\ barriers.sys
                     \/ \E a \in Quiesces : openStep[a] = "barriers"

\* Between two attempts that both believe they hold the lease, the fence state and the
\* barrier record only ever change in the hands of the one with the newest grant
\* (operation-lease.ts:238-243).
StaleAttemptsDoNotWrite ==
    [][\A a \in Attempts :
         /\ pc'[a] # pc[a]
         /\ stateVars' # stateVars \/ openStep' # openStep \/ outcome' # outcome
         => \A b \in Attempts : grant[b] <= grant[a]]_vars

\* The fence as the runtime processes see it is taken and released one epoch at a
\* time: a second quiesce keeps the epoch it finds, a resume opens it once.
ImplementsFence == FenceSpec

\* write-barrier.ts:6-8 says that the privileges are revoked in the transaction that
\* records them and that a resume grants back exactly those.  Then an open fence with
\* no attempt at work leaves the runtime role able to write both databases.
OpenFenceCanWrite ==
    /\ fence = "open"
    /\ \A a \in Attempts : pc[a] \in Over \cup {"idle"}
    => appWrites /\ sysWrites
====
