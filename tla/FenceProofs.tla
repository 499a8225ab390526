---- MODULE FenceProofs ----
(***************************************************************************)
(* Proofs about the source fence, in three parts: quiesce and resume, for  *)
(* any number of attempts, any sharing of operation ids, and any crash,    *)
(* expiry or failed transaction; the runtime processes under a fence, for  *)
(* any number of them; and both together, where a quiesce reads the rows   *)
(* of the processes.                                                       *)
(*                                                                         *)
(* The operations rest on one fact, OneHolder: what an attempt that holds  *)
(* the lease knows of the fence and the record nobody else changes.        *)
(***************************************************************************)
EXTENDS FencedRuntime, TLAPS

\* Where an attempt has not begun its step `barriers`, and where it is in it.
BeforeBarriers == {"idle", "startFence", "takeFence", "fenceTaken", "startDrain", "drain",
                   "drainDone", "startBarriers", "read", "restoreSys", "startRelease",
                   "releaseFence", "fenceReleased", "end"}
AtBarriers == {"revokeSys", "revokeApp", "undoThenRecord", "undoThenFail", "recordBarriers",
               "barriersDone"}
QuiescePoints == {"startFence", "takeFence", "fenceTaken", "startDrain", "drain", "drainDone",
                  "startBarriers"} \cup AtBarriers
ResumePoints == {"read", "restoreSys", "startRelease", "releaseFence", "fenceReleased"}

\* The receipts match the point an attempt is at.
PointsMatch ==
    \A a \in Attempts :
        /\ pc[a] \in BeforeBarriers => openStep[a] # "barriers"
        /\ pc[a] \in AtBarriers => openStep[a] = "barriers"
        /\ pc[a] \in QuiescePoints => a \in Quiesces
        /\ pc[a] \in ResumePoints => a \in Resumes
        /\ pc[a] = "idle" => grant[a] = 0 /\ record[a] = NoBarriers

\* Another attempt than a left its `barriers` step open.
OpenElsewhere(a) == \E b \in Quiesces : b # a /\ openStep[b] = "barriers"

\* What the holder knows of the fence: the record it read is the one that stands.
HolderKnows ==
    \A a \in Quiesces : Holds(a) =>
        /\ pc[a] \in (QuiescePoints \ {"startFence", "takeFence"}) => fence = "fenced"
        /\ pc[a] \in {"fenceTaken", "startDrain", "drain", "drainDone", "startBarriers"} =>
               record[a] = barriers
        /\ pc[a] \in {"revokeSys", "revokeApp"} => barriers.state # "held"
        /\ record[a].state = "held" => ~appWrites
        /\ pc[a] = "barriersDone" => barriers = record[a]

\* What the holder would leave behind if its step `barriers` finished now.
HolderTraces ==
    \A a \in Quiesces : Holds(a) =>
        /\ pc[a] \in {"revokeSys", "revokeApp", "undoThenRecord"} /\ ~appWrites => OpenElsewhere(a)
        /\ pc[a] \in {"recordBarriers", "barriersDone"} /\ ~appWrites =>
               OpenElsewhere(a) \/ (record[a].state = "held" /\ record[a].app)
        /\ pc[a] = "revokeSys" /\ ~sysWrites => OpenElsewhere(a)
        /\ pc[a] = "revokeApp" /\ ~sysWrites => OpenElsewhere(a) \/ sysRevoked[a]
        /\ pc[a] \in {"recordBarriers", "barriersDone"} /\ ~sysWrites =>
               OpenElsewhere(a) \/ (record[a].state = "held" /\ record[a].sys)

\* What a resume that holds the lease has restored before it releases the fence.
ResumeTraces ==
    \A a \in Resumes :
        /\ Holds(a) /\ pc[a] \in {"startRelease", "releaseFence"}
        /\ fence = "fenced" /\ fenceEpoch = asked[a] /\ ~sysWrites
        => \E b \in Quiesces : openStep[b] = "barriers"

OpenFenceHasNoRecord == fence = "open" => barriers = NoBarriers

Inv ==
    /\ TypeOK
    /\ GrantsOrdered
    /\ PointsMatch
    /\ HolderKnows
    /\ HolderTraces
    /\ ResumeTraces
    /\ OpenFenceHasNoRecord
    /\ HeldBarrierFences
    /\ LostPrivilegesAreTraced

USE DEF vars, leaseVars, stateVars, fenceVars, attemptVars, FenceTypeOK, FenceInit,
    Goto, LeaseAssumption, QuiescesAssumption

\* The lease alone: distinct grants and an epoch ahead of them.
LEMMA GrantsGiveOneHolder == LeaseTypeOK /\ GrantsOrdered => OneHolder
BY LeaseAssumption DEF LeaseTypeOK, GrantsOrdered, OneHolder, Holds

\* The two records a quiesce starts from are barrier records.
LEMMA RecordTypes == NoBarriers \in Barriers /\ Unavailable \in Barriers
BY DEF NoBarriers, Unavailable, Barriers

\* The initial state satisfies the invariant.
LEMMA InitInv == Init => Inv
<1> SUFFICES ASSUME Init PROVE Inv
    OBVIOUS
<1> USE LeaseAssumption, QuiescesAssumption DEF Init, LeaseInit
<1>a. LeaseTypeOK
    BY DEF LeaseTypeOK
<1>c. GrantsOrdered
    BY DEF GrantsOrdered
<1>b. TypeOK
    BY <1>a, RecordTypes DEF TypeOK, Unguarded
<1>1. TypeOK /\ GrantsOrdered
    BY <1>b, <1>c
<1>2. PointsMatch
    BY DEF PointsMatch, BeforeBarriers, AtBarriers, QuiescePoints, ResumePoints
<1>3. \A a \in Attempts : ~Holds(a)
    BY DEF Holds
<1>4. HolderKnows /\ HolderTraces /\ ResumeTraces
    BY <1>3 DEF HolderKnows, HolderTraces, ResumeTraces, Resumes
<1>5. OpenFenceHasNoRecord /\ HeldBarrierFences /\ LostPrivilegesAreTraced
    BY DEF OpenFenceHasNoRecord, HeldBarrierFences, LostPrivilegesAreTraced, NoBarriers
<1>6. QED
    BY <1>1, <1>2, <1>4, <1>5 DEF Inv

\* Everything but the lease row has its type.
OperationTypeOK ==
    /\ fence \in {"open", "fenced"} /\ fenceEpoch \in Nat
    /\ barriers \in Barriers
    /\ appWrites \in BOOLEAN /\ sysWrites \in BOOLEAN
    /\ pc \in [Attempts -> Unguarded \cup Guarded \cup Over]
    /\ asked \in [Attempts -> Nat]
    /\ record \in [Attempts -> Barriers]
    /\ drained \in [Attempts -> BOOLEAN]
    /\ sysRevoked \in [Attempts -> BOOLEAN]
    /\ openStep \in [Attempts -> Steps \cup {"none"}]
    /\ outcome \in [Attempts -> {"none", "succeeded", "failed", "refused"}]

\* The lease row and the grants keep their types and their order.
LEMMA LeaseStep ==
    LeaseTypeOK /\ GrantsOrdered /\ [Next]_vars => LeaseTypeOK' /\ GrantsOrdered'
<1> SUFFICES ASSUME LeaseTypeOK, GrantsOrdered, [Next]_vars PROVE LeaseTypeOK' /\ GrantsOrdered'
    OBVIOUS
<1>1. ASSUME UNCHANGED leaseVars PROVE LeaseTypeOK' /\ GrantsOrdered'
    BY <1>1 DEF LeaseTypeOK, GrantsOrdered
<1>2. ASSUME NEW a \in Attempts, TakeLease(a) PROVE LeaseTypeOK' /\ GrantsOrdered'
    <2> USE <1>2 DEF LeaseTypeOK, GrantsOrdered, TakeLease
    <2>1. \A b \in Attempts : grant'[b] = IF b = a THEN leaseEpoch + 1 ELSE grant[b]
        OBVIOUS
    <2>5. leaseHolder' \in Operations
        BY LeaseAssumption
    <2>2. LeaseTypeOK'
        BY <2>5
    <2>3. GrantsOrdered'
        BY <2>1
    <2>4. QED
        BY <2>2, <2>3
<1>3. ASSUME NEW a \in Attempts, FreeLease(a) PROVE LeaseTypeOK' /\ GrantsOrdered'
    BY <1>3 DEF LeaseTypeOK, GrantsOrdered, FreeLease, Holds
<1>4. CASE LeaseExpires
    BY <1>4 DEF LeaseTypeOK, GrantsOrdered, LeaseExpires
<1>5. ASSUME NEW a \in Attempts, Acquire(a) PROVE TakeLease(a) \/ UNCHANGED leaseVars
    BY <1>5 DEF Acquire
<1>6. ASSUME NEW a \in Attempts, Release(a) PROVE FreeLease(a)
    BY <1>6 DEF Release
<1>7. ASSUME NEW a \in Attempts, Fail(a) \/ Crash(a) PROVE UNCHANGED leaseVars
    BY <1>7 DEF Fail, Crash
<1>8. ASSUME NEW a \in Quiesces, Quiesce(a) PROVE UNCHANGED leaseVars
    BY <1>8 DEF Quiesce, StartStep, FinishStep, TakeFence, Drain, ChooseBarrier, RevokeSys,
                RevokeApp, UndoSys, RecordBarriers
<1>9. ASSUME NEW a \in Resumes, Resume(a) PROVE UNCHANGED leaseVars
    BY <1>9 DEF Resume, StartStep, FinishStep, ReadFence, RestoreSys, ReleaseFence
<1>10. CASE Next
    BY <1>10, <1>1, <1>2, <1>3, <1>4, <1>5, <1>6, <1>7, <1>8, <1>9 DEF Next, Expire
<1>11. QED
    BY <1>1, <1>10

\* Every step keeps the types of the rest.
LEMMA TypeStep == OperationTypeOK /\ [Next]_vars => OperationTypeOK'
<1> SUFFICES ASSUME OperationTypeOK, [Next]_vars PROVE OperationTypeOK'
    OBVIOUS
<1> DEFINE Points == Unguarded \cup Guarded \cup Over
<1>0. Quiesces \subseteq Attempts /\ Resumes \subseteq Attempts
    BY QuiescesAssumption DEF Resumes
<1>p. /\ {"startFence", "read", "done", "dead", "fail", "fenceTaken", "takeFence", "drain",
          "startDrain", "drainDone", "startBarriers", "revokeSys", "recordBarriers", "revokeApp",
          "undoThenRecord", "undoThenFail", "barriersDone", "end", "restoreSys", "startRelease",
          "releaseFence", "fenceReleased", "refuse"} \subseteq Points
      /\ {"take-fence", "drain", "barriers", "release-fence"} \subseteq Steps
    BY DEF Unguarded, Guarded, Over, Steps
<1> USE <1>p DEF OperationTypeOK
<1> HIDE DEF Points
<1>1. ASSUME NEW a \in Attempts, NEW to \in Points, Goto(a, to) PROVE pc' \in [Attempts -> Points]
    BY <1>1 DEF Points
<1>2. ASSUME NEW a \in Attempts, Acquire(a) PROVE OperationTypeOK'
    BY <1>2 DEF Acquire, Points
<1>3. ASSUME NEW a \in Attempts, Release(a) PROVE OperationTypeOK'
    BY <1>3 DEF Release, Points
<1>4. ASSUME NEW a \in Attempts, Fail(a) \/ Crash(a) PROVE OperationTypeOK'
    BY <1>4 DEF Fail, Crash, Points
<1>5. ASSUME NEW a \in Attempts, NEW from, NEW step \in Steps, NEW to \in Points,
             StartStep(a, from, step, to) \/ FinishStep(a, from, to)
      PROVE OperationTypeOK'
    BY <1>5 DEF StartStep, FinishStep, Points
<1>6. ASSUME NEW a \in Attempts, TakeFence(a) PROVE OperationTypeOK'
    BY <1>6, RecordTypes DEF TakeFence, Points
<1>7. ASSUME NEW a \in Attempts, Drain(a) PROVE OperationTypeOK'
    BY <1>7 DEF Drain, Points
<1>8. ASSUME NEW a \in Attempts, ChooseBarrier(a) PROVE OperationTypeOK'
    BY <1>8, RecordTypes DEF ChooseBarrier, Points
<1>9. ASSUME NEW a \in Attempts, RevokeSys(a) PROVE OperationTypeOK'
    BY <1>9 DEF RevokeSys, Points
<1>10. ASSUME NEW a \in Attempts, RevokeApp(a) PROVE OperationTypeOK'
    <2>1. [state |-> "held", app |-> appWrites, sys |-> sysRevoked[a]] \in Barriers
        BY DEF Barriers
    <2>2. QED
        BY <1>10, <2>1 DEF RevokeApp, Points
<1>11. ASSUME NEW a \in Attempts, UndoSys(a) PROVE OperationTypeOK'
    BY <1>11 DEF UndoSys, Points
<1>17. ASSUME NEW a \in Attempts, RecordBarriers(a) PROVE OperationTypeOK'
    <2>1. record[a] \in Barriers
        OBVIOUS
    <2>2. QED
        BY <1>17, <2>1 DEF RecordBarriers, Points
<1>12. ASSUME NEW a \in Attempts, ReadFence(a) \/ RestoreSys(a) PROVE OperationTypeOK'
    BY <1>12 DEF ReadFence, RestoreSys, Points
<1>13. ASSUME NEW a \in Attempts, ReleaseFence(a) PROVE OperationTypeOK'
    BY <1>13, RecordTypes DEF ReleaseFence, Points
<1>14. CASE Expire
    BY <1>14 DEF Expire
<1>15. CASE UNCHANGED vars
    BY <1>15
<1>16. QED
    BY <1>0, <1>2, <1>3, <1>4, <1>5, <1>6, <1>7, <1>8, <1>9, <1>10, <1>11, <1>12, <1>13, <1>14,
       <1>15, <1>17 DEF Next, Quiesce, Resume

\* The parts of the invariant beyond types and grants.
Knowledge ==
    /\ PointsMatch
    /\ HolderKnows
    /\ HolderTraces
    /\ ResumeTraces
    /\ OpenFenceHasNoRecord
    /\ HeldBarrierFences
    /\ LostPrivilegesAreTraced

\* A step that leaves the lease row and the grants alone leaves the holder alone.
LEMMA HolderStays == ASSUME UNCHANGED leaseVars PROVE \A b \in Attempts : Holds(b)' = Holds(b)
BY DEF Holds

\* Preservation: a drain ends.
LEMMA DrainInv == ASSUME Inv, NEW a \in Attempts, Drain(a) PROVE Knowledge'
<1> USE QuiescesAssumption DEF Inv, BeforeBarriers, AtBarriers, QuiescePoints, ResumePoints,
                               Resumes
<1>1. OneHolder /\ \A b \in Attempts : Holds(b)' = Holds(b)
    BY GrantsGiveOneHolder, HolderStays DEF TypeOK, Drain
<1>2. PointsMatch'
    BY <1>1 DEF OneHolder, TypeOK, Drain, PointsMatch
<1>3. HolderKnows'
    BY <1>1 DEF OneHolder, TypeOK, Drain, HolderKnows, PointsMatch, HeldBarrierFences,
                OpenFenceHasNoRecord
<1>4. HolderTraces'
    BY <1>1 DEF OneHolder, TypeOK, Drain, HolderTraces, HolderKnows, PointsMatch, OpenElsewhere,
                LostPrivilegesAreTraced
<1>5. ResumeTraces'
    BY <1>1 DEF OneHolder, TypeOK, Drain, ResumeTraces, PointsMatch, LostPrivilegesAreTraced
<1>6. OpenFenceHasNoRecord'
    BY <1>1 DEF OneHolder, TypeOK, Drain, OpenFenceHasNoRecord, HolderKnows, PointsMatch
<1>7. HeldBarrierFences'
    BY <1>1 DEF OneHolder, TypeOK, Drain, HeldBarrierFences, HolderKnows, PointsMatch
<1>8. LostPrivilegesAreTraced'
    BY <1>1 DEF OneHolder, TypeOK, Drain, LostPrivilegesAreTraced, PointsMatch, HolderKnows,
                HolderTraces, ResumeTraces, OpenElsewhere, OpenFenceHasNoRecord
<1>9. QED
    BY <1>2, <1>3, <1>4, <1>5, <1>6, <1>7, <1>8 DEF Knowledge

\* Preservation: the fence is taken or kept.
LEMMA TakeFenceInv == ASSUME Inv, NEW a \in Attempts, TakeFence(a) PROVE Knowledge'
<1> USE QuiescesAssumption DEF Inv, BeforeBarriers, AtBarriers, QuiescePoints, ResumePoints,
                               Resumes
<1>1. OneHolder /\ \A b \in Attempts : Holds(b)' = Holds(b)
    BY GrantsGiveOneHolder, HolderStays DEF TypeOK, TakeFence, NoBarriers
<1>2. PointsMatch'
    BY <1>1 DEF OneHolder, TypeOK, TakeFence, NoBarriers, PointsMatch
<1>3. HolderKnows'
    <2>1. NoBarriers.state # "held"
        BY DEF NoBarriers
    <2>2. CASE fence = "fenced"
        BY <1>1, <2>2 DEF OneHolder, TypeOK, TakeFence, HolderKnows, PointsMatch,
                          HeldBarrierFences
    <2>3. CASE fence # "fenced"
        BY <1>1, <2>1, <2>3
        DEF OneHolder, TypeOK, TakeFence, HolderKnows, PointsMatch, HeldBarrierFences
    <2>4. QED
        BY <2>2, <2>3
<1>4. HolderTraces'
    BY <1>1 DEF OneHolder, TypeOK, TakeFence, NoBarriers, HolderTraces, HolderKnows,
                PointsMatch, OpenElsewhere, LostPrivilegesAreTraced
<1>5. ResumeTraces'
    BY <1>1 DEF OneHolder, TypeOK, TakeFence, NoBarriers, ResumeTraces, PointsMatch,
                LostPrivilegesAreTraced
<1>6. OpenFenceHasNoRecord'
    BY <1>1 DEF OneHolder, TypeOK, TakeFence, NoBarriers, OpenFenceHasNoRecord, HolderKnows,
                PointsMatch
<1>7. HeldBarrierFences'
    BY <1>1 DEF OneHolder, TypeOK, TakeFence, NoBarriers, HeldBarrierFences, HolderKnows,
                PointsMatch
<1>8. LostPrivilegesAreTraced'
    BY <1>1 DEF OneHolder, TypeOK, TakeFence, NoBarriers, LostPrivilegesAreTraced, PointsMatch,
                HolderKnows, HolderTraces, ResumeTraces, OpenElsewhere, OpenFenceHasNoRecord
<1>9. QED
    BY <1>2, <1>3, <1>4, <1>5, <1>6, <1>7, <1>8 DEF Knowledge

\* Preservation: the step `barriers` begins.
LEMMA ChooseBarrierInv == ASSUME Inv, NEW a \in Attempts, ChooseBarrier(a) PROVE Knowledge'
<1> USE QuiescesAssumption DEF Inv, BeforeBarriers, AtBarriers, QuiescePoints, ResumePoints,
                               Resumes
<1>1. OneHolder /\ \A b \in Attempts : Holds(b)' = Holds(b)
    BY GrantsGiveOneHolder, HolderStays DEF TypeOK, ChooseBarrier, Unavailable
<1>2. PointsMatch'
    BY <1>1 DEF OneHolder, TypeOK, ChooseBarrier, Unavailable, PointsMatch
<1>3. HolderKnows'
    BY <1>1 DEF OneHolder, TypeOK, ChooseBarrier, Unavailable, HolderKnows, PointsMatch,
                HeldBarrierFences, OpenFenceHasNoRecord
<1>4. HolderTraces'
    BY <1>1 DEF OneHolder, TypeOK, ChooseBarrier, Unavailable, HolderTraces, HolderKnows,
                PointsMatch, OpenElsewhere, LostPrivilegesAreTraced
<1>5. ResumeTraces'
    BY <1>1 DEF OneHolder, TypeOK, ChooseBarrier, Unavailable, ResumeTraces, PointsMatch,
                LostPrivilegesAreTraced
<1>6. OpenFenceHasNoRecord'
    BY <1>1 DEF OneHolder, TypeOK, ChooseBarrier, Unavailable, OpenFenceHasNoRecord,
                HolderKnows, PointsMatch
<1>7. HeldBarrierFences'
    BY <1>1 DEF OneHolder, TypeOK, ChooseBarrier, Unavailable, HeldBarrierFences, HolderKnows,
                PointsMatch
<1>8. LostPrivilegesAreTraced'
    BY <1>1 DEF OneHolder, TypeOK, ChooseBarrier, Unavailable, LostPrivilegesAreTraced,
                PointsMatch, HolderKnows, HolderTraces, ResumeTraces, OpenElsewhere,
                OpenFenceHasNoRecord
<1>9. QED
    BY <1>2, <1>3, <1>4, <1>5, <1>6, <1>7, <1>8 DEF Knowledge

\* Preservation: the workflow system database is revoked, guard or no guard.
LEMMA RevokeSysInv == ASSUME Inv, NEW a \in Attempts, RevokeSys(a) PROVE Knowledge'
<1> USE QuiescesAssumption DEF Inv, BeforeBarriers, AtBarriers, QuiescePoints, ResumePoints,
                               Resumes
<1>1. OneHolder /\ \A b \in Attempts : Holds(b)' = Holds(b)
    BY GrantsGiveOneHolder, HolderStays DEF TypeOK, RevokeSys
<1>2. PointsMatch'
    BY <1>1 DEF OneHolder, TypeOK, RevokeSys, PointsMatch
<1>3. HolderKnows'
    BY <1>1 DEF OneHolder, TypeOK, RevokeSys, HolderKnows, PointsMatch, HeldBarrierFences,
                OpenFenceHasNoRecord
<1>4. HolderTraces'
    BY <1>1 DEF OneHolder, TypeOK, RevokeSys, HolderTraces, HolderKnows, PointsMatch,
                OpenElsewhere, LostPrivilegesAreTraced
<1>5. ResumeTraces'
    BY <1>1 DEF OneHolder, TypeOK, RevokeSys, ResumeTraces, PointsMatch, LostPrivilegesAreTraced
<1>6. OpenFenceHasNoRecord'
    BY <1>1 DEF OneHolder, TypeOK, RevokeSys, OpenFenceHasNoRecord, HolderKnows, PointsMatch
<1>7. HeldBarrierFences'
    BY <1>1 DEF OneHolder, TypeOK, RevokeSys, HeldBarrierFences, HolderKnows, PointsMatch
<1>8. LostPrivilegesAreTraced'
    BY <1>1 DEF OneHolder, TypeOK, RevokeSys, LostPrivilegesAreTraced, PointsMatch, HolderKnows,
                HolderTraces, ResumeTraces, OpenElsewhere, OpenFenceHasNoRecord
<1>9. QED
    BY <1>2, <1>3, <1>4, <1>5, <1>6, <1>7, <1>8 DEF Knowledge

\* Preservation: the application database is revoked under the guard.
LEMMA RevokeAppInv == ASSUME Inv, NEW a \in Attempts, RevokeApp(a) PROVE Knowledge'
<1> USE QuiescesAssumption DEF Inv, BeforeBarriers, AtBarriers, QuiescePoints, ResumePoints,
                               Resumes
<1>1. OneHolder /\ \A b \in Attempts : Holds(b)' = Holds(b)
    BY GrantsGiveOneHolder, HolderStays DEF TypeOK, RevokeApp
<1>2. PointsMatch'
    BY <1>1 DEF OneHolder, TypeOK, RevokeApp, PointsMatch
<1>3. HolderKnows'
    BY <1>1 DEF OneHolder, TypeOK, RevokeApp, HolderKnows, PointsMatch, HeldBarrierFences,
                OpenFenceHasNoRecord
<1>4. HolderTraces'
    BY <1>1 DEF OneHolder, TypeOK, RevokeApp, HolderTraces, HolderKnows, PointsMatch,
                OpenElsewhere, LostPrivilegesAreTraced
<1>5. ResumeTraces'
    BY <1>1 DEF OneHolder, TypeOK, RevokeApp, ResumeTraces, PointsMatch, LostPrivilegesAreTraced
<1>6. OpenFenceHasNoRecord'
    BY <1>1 DEF OneHolder, TypeOK, RevokeApp, OpenFenceHasNoRecord, HolderKnows, PointsMatch
<1>7. HeldBarrierFences'
    BY <1>1 DEF OneHolder, TypeOK, RevokeApp, HeldBarrierFences, HolderKnows, PointsMatch
<1>8. LostPrivilegesAreTraced'
    BY <1>1 DEF OneHolder, TypeOK, RevokeApp, LostPrivilegesAreTraced, PointsMatch, HolderKnows,
                HolderTraces, ResumeTraces, OpenElsewhere, OpenFenceHasNoRecord
<1>9. QED
    BY <1>2, <1>3, <1>4, <1>5, <1>6, <1>7, <1>8 DEF Knowledge

\* Preservation: the workflow system database gets its privileges back.
LEMMA UndoSysInv == ASSUME Inv, NEW a \in Attempts, UndoSys(a) PROVE Knowledge'
<1> USE QuiescesAssumption DEF Inv, BeforeBarriers, AtBarriers, QuiescePoints, ResumePoints,
                               Resumes
<1>1. OneHolder /\ \A b \in Attempts : Holds(b)' = Holds(b)
    BY GrantsGiveOneHolder, HolderStays DEF TypeOK, UndoSys
<1>2. PointsMatch'
    BY <1>1 DEF OneHolder, TypeOK, UndoSys, PointsMatch
<1>3. HolderKnows'
    BY <1>1 DEF OneHolder, TypeOK, UndoSys, HolderKnows, PointsMatch, HeldBarrierFences,
                OpenFenceHasNoRecord
<1>4. HolderTraces'
    BY <1>1 DEF OneHolder, TypeOK, UndoSys, HolderTraces, HolderKnows, PointsMatch,
                OpenElsewhere, LostPrivilegesAreTraced
<1>5. ResumeTraces'
    BY <1>1 DEF OneHolder, TypeOK, UndoSys, ResumeTraces, PointsMatch, LostPrivilegesAreTraced
<1>6. OpenFenceHasNoRecord'
    BY <1>1 DEF OneHolder, TypeOK, UndoSys, OpenFenceHasNoRecord, HolderKnows, PointsMatch
<1>7. HeldBarrierFences'
    BY <1>1 DEF OneHolder, TypeOK, UndoSys, HeldBarrierFences, HolderKnows, PointsMatch
<1>8. LostPrivilegesAreTraced'
    BY <1>1 DEF OneHolder, TypeOK, UndoSys, LostPrivilegesAreTraced, PointsMatch, HolderKnows,
                HolderTraces, ResumeTraces, OpenElsewhere, OpenFenceHasNoRecord
<1>9. QED
    BY <1>2, <1>3, <1>4, <1>5, <1>6, <1>7, <1>8 DEF Knowledge

\* Preservation: the record is written with the fence.
LEMMA RecordBarriersInv == ASSUME Inv, NEW a \in Attempts, RecordBarriers(a) PROVE Knowledge'
<1> USE QuiescesAssumption DEF Inv, BeforeBarriers, AtBarriers, QuiescePoints, ResumePoints,
                               Resumes
<1>1. OneHolder /\ \A b \in Attempts : Holds(b)' = Holds(b)
    BY GrantsGiveOneHolder, HolderStays DEF TypeOK, RecordBarriers
<1>2. PointsMatch'
    BY <1>1 DEF OneHolder, TypeOK, RecordBarriers, PointsMatch
<1>3. HolderKnows'
    BY <1>1 DEF OneHolder, TypeOK, RecordBarriers, HolderKnows, PointsMatch, HeldBarrierFences,
                OpenFenceHasNoRecord
<1>4. HolderTraces'
    BY <1>1 DEF OneHolder, TypeOK, RecordBarriers, HolderTraces, HolderKnows, PointsMatch,
                OpenElsewhere, LostPrivilegesAreTraced
<1>5. ResumeTraces'
    BY <1>1 DEF OneHolder, TypeOK, RecordBarriers, ResumeTraces, PointsMatch,
                LostPrivilegesAreTraced
<1>6. OpenFenceHasNoRecord'
    BY <1>1 DEF OneHolder, TypeOK, RecordBarriers, OpenFenceHasNoRecord, HolderKnows, PointsMatch
<1>7. HeldBarrierFences'
    BY <1>1 DEF OneHolder, TypeOK, RecordBarriers, HeldBarrierFences, HolderKnows, PointsMatch
<1>8. LostPrivilegesAreTraced'
    BY <1>1 DEF OneHolder, TypeOK, RecordBarriers, LostPrivilegesAreTraced, PointsMatch,
                HolderKnows, HolderTraces, ResumeTraces, OpenElsewhere, OpenFenceHasNoRecord
<1>9. QED
    BY <1>2, <1>3, <1>4, <1>5, <1>6, <1>7, <1>8 DEF Knowledge

\* Preservation: a resume reads the fence.
LEMMA ReadFenceInv == ASSUME Inv, NEW a \in Attempts, ReadFence(a) PROVE Knowledge'
<1> USE QuiescesAssumption DEF Inv, BeforeBarriers, AtBarriers, QuiescePoints, ResumePoints,
                               Resumes
<1>1. OneHolder /\ \A b \in Attempts : Holds(b)' = Holds(b)
    BY GrantsGiveOneHolder, HolderStays DEF TypeOK, ReadFence
<1>2. PointsMatch'
    BY <1>1 DEF OneHolder, TypeOK, ReadFence, PointsMatch
<1>3. HolderKnows'
    BY <1>1 DEF OneHolder, TypeOK, ReadFence, HolderKnows, PointsMatch, HeldBarrierFences,
                OpenFenceHasNoRecord
<1>4. HolderTraces'
    BY <1>1 DEF OneHolder, TypeOK, ReadFence, HolderTraces, HolderKnows, PointsMatch,
                OpenElsewhere, LostPrivilegesAreTraced
<1>5. ResumeTraces'
    BY <1>1 DEF OneHolder, TypeOK, ReadFence, ResumeTraces, PointsMatch, LostPrivilegesAreTraced
<1>6. OpenFenceHasNoRecord'
    BY <1>1 DEF OneHolder, TypeOK, ReadFence, OpenFenceHasNoRecord, HolderKnows, PointsMatch
<1>7. HeldBarrierFences'
    BY <1>1 DEF OneHolder, TypeOK, ReadFence, HeldBarrierFences, HolderKnows, PointsMatch
<1>8. LostPrivilegesAreTraced'
    BY <1>1 DEF OneHolder, TypeOK, ReadFence, LostPrivilegesAreTraced, PointsMatch, HolderKnows,
                HolderTraces, ResumeTraces, OpenElsewhere, OpenFenceHasNoRecord
<1>9. QED
    BY <1>2, <1>3, <1>4, <1>5, <1>6, <1>7, <1>8 DEF Knowledge

\* Preservation: a resume restores the workflow system database.
LEMMA RestoreSysInv == ASSUME Inv, NEW a \in Attempts, RestoreSys(a) PROVE Knowledge'
<1> USE QuiescesAssumption DEF Inv, BeforeBarriers, AtBarriers, QuiescePoints, ResumePoints,
                               Resumes
<1>1. OneHolder /\ \A b \in Attempts : Holds(b)' = Holds(b)
    BY GrantsGiveOneHolder, HolderStays DEF TypeOK, RestoreSys
<1>2. PointsMatch'
    BY <1>1 DEF OneHolder, TypeOK, RestoreSys, PointsMatch
<1>3. HolderKnows'
    BY <1>1 DEF OneHolder, TypeOK, RestoreSys, HolderKnows, PointsMatch, HeldBarrierFences,
                OpenFenceHasNoRecord
<1>4. HolderTraces'
    BY <1>1 DEF OneHolder, TypeOK, RestoreSys, HolderTraces, HolderKnows, PointsMatch,
                OpenElsewhere, LostPrivilegesAreTraced
<1>5. ResumeTraces'
    BY <1>1 DEF OneHolder, TypeOK, RestoreSys, ResumeTraces, PointsMatch, LostPrivilegesAreTraced
<1>6. OpenFenceHasNoRecord'
    BY <1>1 DEF OneHolder, TypeOK, RestoreSys, OpenFenceHasNoRecord, HolderKnows, PointsMatch
<1>7. HeldBarrierFences'
    BY <1>1 DEF OneHolder, TypeOK, RestoreSys, HeldBarrierFences, HolderKnows, PointsMatch
<1>8. LostPrivilegesAreTraced'
    BY <1>1 DEF OneHolder, TypeOK, RestoreSys, LostPrivilegesAreTraced, PointsMatch,
                HolderKnows, HolderTraces, ResumeTraces, OpenElsewhere, OpenFenceHasNoRecord
<1>9. QED
    BY <1>2, <1>3, <1>4, <1>5, <1>6, <1>7, <1>8 DEF Knowledge

\* Preservation: a resume opens the fence.
LEMMA ReleaseFenceInv == ASSUME Inv, NEW a \in Attempts, ReleaseFence(a) PROVE Knowledge'
<1> USE QuiescesAssumption DEF Inv, BeforeBarriers, AtBarriers, QuiescePoints, ResumePoints,
                               Resumes
<1>1. OneHolder /\ \A b \in Attempts : Holds(b)' = Holds(b)
    BY GrantsGiveOneHolder, HolderStays DEF TypeOK, ReleaseFence, NoBarriers
<1>2. PointsMatch'
    BY <1>1 DEF OneHolder, TypeOK, ReleaseFence, NoBarriers, PointsMatch
<1>3. HolderKnows'
    BY <1>1 DEF OneHolder, TypeOK, ReleaseFence, NoBarriers, HolderKnows, PointsMatch,
                HeldBarrierFences, OpenFenceHasNoRecord
<1>4. HolderTraces'
    BY <1>1 DEF OneHolder, TypeOK, ReleaseFence, NoBarriers, HolderTraces, HolderKnows,
                PointsMatch, OpenElsewhere, LostPrivilegesAreTraced
<1>5. ResumeTraces'
    BY <1>1 DEF OneHolder, TypeOK, ReleaseFence, NoBarriers, ResumeTraces, PointsMatch,
                LostPrivilegesAreTraced
<1>6. OpenFenceHasNoRecord'
    BY <1>1 DEF OneHolder, TypeOK, ReleaseFence, NoBarriers, OpenFenceHasNoRecord, HolderKnows,
                PointsMatch
<1>7. HeldBarrierFences'
    BY <1>1 DEF OneHolder, TypeOK, ReleaseFence, NoBarriers, HeldBarrierFences, HolderKnows,
                PointsMatch
<1>8. LostPrivilegesAreTraced'
    BY <1>1 DEF OneHolder, TypeOK, ReleaseFence, NoBarriers, LostPrivilegesAreTraced,
                PointsMatch, HolderKnows, HolderTraces, ResumeTraces, OpenElsewhere,
                OpenFenceHasNoRecord
<1>9. QED
    BY <1>2, <1>3, <1>4, <1>5, <1>6, <1>7, <1>8 DEF Knowledge

\* Preservation: an attempt goes to its catch block.
LEMMA FailInv == ASSUME Inv, NEW a \in Attempts, Fail(a) PROVE Knowledge'
<1> USE QuiescesAssumption DEF Inv, BeforeBarriers, AtBarriers, QuiescePoints, ResumePoints,
                               Resumes
<1>1. OneHolder /\ \A b \in Attempts : Holds(b)' = Holds(b)
    BY GrantsGiveOneHolder, HolderStays DEF TypeOK, Fail
<1>2. PointsMatch'
    BY <1>1 DEF OneHolder, TypeOK, Fail, PointsMatch
<1>3. HolderKnows'
    BY <1>1 DEF OneHolder, TypeOK, Fail, HolderKnows, PointsMatch, HeldBarrierFences,
                OpenFenceHasNoRecord
<1>4. HolderTraces'
    BY <1>1 DEF OneHolder, TypeOK, Fail, HolderTraces, HolderKnows, PointsMatch, OpenElsewhere,
                LostPrivilegesAreTraced
<1>5. ResumeTraces'
    BY <1>1 DEF OneHolder, TypeOK, Fail, ResumeTraces, PointsMatch, LostPrivilegesAreTraced
<1>6. OpenFenceHasNoRecord'
    BY <1>1 DEF OneHolder, TypeOK, Fail, OpenFenceHasNoRecord, HolderKnows, PointsMatch
<1>7. HeldBarrierFences'
    BY <1>1 DEF OneHolder, TypeOK, Fail, HeldBarrierFences, HolderKnows, PointsMatch
<1>8. LostPrivilegesAreTraced'
    BY <1>1 DEF OneHolder, TypeOK, Fail, LostPrivilegesAreTraced, PointsMatch, HolderKnows,
                HolderTraces, ResumeTraces, OpenElsewhere, OpenFenceHasNoRecord
<1>9. QED
    BY <1>2, <1>3, <1>4, <1>5, <1>6, <1>7, <1>8 DEF Knowledge

\* Preservation: an attempt dies.
LEMMA CrashInv == ASSUME Inv, NEW a \in Attempts, Crash(a) PROVE Knowledge'
<1> USE QuiescesAssumption DEF Inv, BeforeBarriers, AtBarriers, QuiescePoints, ResumePoints,
                               Resumes
<1>1. OneHolder /\ \A b \in Attempts : Holds(b)' = Holds(b)
    BY GrantsGiveOneHolder, HolderStays DEF TypeOK, Crash
<1>2. PointsMatch'
    BY <1>1 DEF OneHolder, TypeOK, Crash, PointsMatch
<1>3. HolderKnows'
    BY <1>1 DEF OneHolder, TypeOK, Crash, HolderKnows, PointsMatch, HeldBarrierFences,
                OpenFenceHasNoRecord
<1>4. HolderTraces'
    BY <1>1 DEF OneHolder, TypeOK, Crash, HolderTraces, HolderKnows, PointsMatch, OpenElsewhere,
                LostPrivilegesAreTraced
<1>5. ResumeTraces'
    BY <1>1 DEF OneHolder, TypeOK, Crash, ResumeTraces, PointsMatch, LostPrivilegesAreTraced
<1>6. OpenFenceHasNoRecord'
    BY <1>1 DEF OneHolder, TypeOK, Crash, OpenFenceHasNoRecord, HolderKnows, PointsMatch
<1>7. HeldBarrierFences'
    BY <1>1 DEF OneHolder, TypeOK, Crash, HeldBarrierFences, HolderKnows, PointsMatch
<1>8. LostPrivilegesAreTraced'
    BY <1>1 DEF OneHolder, TypeOK, Crash, LostPrivilegesAreTraced, PointsMatch, HolderKnows,
                HolderTraces, ResumeTraces, OpenElsewhere, OpenFenceHasNoRecord
<1>9. QED
    BY <1>2, <1>3, <1>4, <1>5, <1>6, <1>7, <1>8 DEF Knowledge

\* Preservation: a quiesce starts a step.
LEMMA QuiesceStartsInv == ASSUME Inv, NEW a \in Quiesces,
    \/ StartStep(a, "startFence", "take-fence", "takeFence")
    \/ StartStep(a, "startDrain", "drain", "drain")
     PROVE Knowledge'
<1> USE QuiescesAssumption DEF Inv, BeforeBarriers, AtBarriers, QuiescePoints, ResumePoints,
                               Resumes
<1>1. OneHolder /\ \A b \in Attempts : Holds(b)' = Holds(b)
    BY GrantsGiveOneHolder, HolderStays DEF TypeOK, StartStep
<1>2. PointsMatch'
    BY <1>1 DEF OneHolder, TypeOK, StartStep, PointsMatch
<1>3. HolderKnows'
    BY <1>1 DEF OneHolder, TypeOK, StartStep, HolderKnows, PointsMatch, HeldBarrierFences,
                OpenFenceHasNoRecord
<1>4. HolderTraces'
    BY <1>1 DEF OneHolder, TypeOK, StartStep, HolderTraces, HolderKnows, PointsMatch,
                OpenElsewhere, LostPrivilegesAreTraced
<1>5. ResumeTraces'
    BY <1>1 DEF OneHolder, TypeOK, StartStep, ResumeTraces, PointsMatch, LostPrivilegesAreTraced
<1>6. OpenFenceHasNoRecord'
    BY <1>1 DEF OneHolder, TypeOK, StartStep, OpenFenceHasNoRecord, HolderKnows, PointsMatch
<1>7. HeldBarrierFences'
    BY <1>1 DEF OneHolder, TypeOK, StartStep, HeldBarrierFences, HolderKnows, PointsMatch
<1>8. LostPrivilegesAreTraced'
    BY <1>1 DEF OneHolder, TypeOK, StartStep, LostPrivilegesAreTraced, PointsMatch, HolderKnows,
                HolderTraces, ResumeTraces, OpenElsewhere, OpenFenceHasNoRecord
<1>9. QED
    BY <1>2, <1>3, <1>4, <1>5, <1>6, <1>7, <1>8 DEF Knowledge

\* Preservation: a quiesce finishes a step.
LEMMA QuiesceFinishesInv == ASSUME Inv, NEW a \in Quiesces,
    \/ FinishStep(a, "fenceTaken", "startDrain")
    \/ FinishStep(a, "drainDone", "startBarriers")
    \/ FinishStep(a, "barriersDone", "end")
     PROVE Knowledge'
<1> USE QuiescesAssumption DEF Inv, BeforeBarriers, AtBarriers, QuiescePoints, ResumePoints,
                               Resumes
<1>1. OneHolder /\ \A b \in Attempts : Holds(b)' = Holds(b)
    BY GrantsGiveOneHolder, HolderStays DEF TypeOK, FinishStep
<1>2. PointsMatch'
    BY <1>1 DEF OneHolder, TypeOK, FinishStep, PointsMatch
<1>3. HolderKnows'
    BY <1>1 DEF OneHolder, TypeOK, FinishStep, HolderKnows, PointsMatch, HeldBarrierFences,
                OpenFenceHasNoRecord
<1>4. HolderTraces'
    BY <1>1 DEF OneHolder, TypeOK, FinishStep, HolderTraces, HolderKnows, PointsMatch,
                OpenElsewhere, LostPrivilegesAreTraced
<1>5. ResumeTraces'
    BY <1>1 DEF OneHolder, TypeOK, FinishStep, ResumeTraces, PointsMatch, LostPrivilegesAreTraced
<1>6. OpenFenceHasNoRecord'
    BY <1>1 DEF OneHolder, TypeOK, FinishStep, OpenFenceHasNoRecord, HolderKnows, PointsMatch
<1>7. HeldBarrierFences'
    BY <1>1 DEF OneHolder, TypeOK, FinishStep, HeldBarrierFences, HolderKnows, PointsMatch
<1>8. LostPrivilegesAreTraced'
    BY <1>1 DEF OneHolder, TypeOK, FinishStep, LostPrivilegesAreTraced, PointsMatch,
                HolderKnows, HolderTraces, ResumeTraces, OpenElsewhere, OpenFenceHasNoRecord
<1>9. QED
    BY <1>2, <1>3, <1>4, <1>5, <1>6, <1>7, <1>8 DEF Knowledge

\* Preservation: a resume starts and finishes its step.
LEMMA ResumeStepsInv == ASSUME Inv, NEW a \in Resumes,
    \/ StartStep(a, "startRelease", "release-fence", "releaseFence")
    \/ FinishStep(a, "fenceReleased", "end")
     PROVE Knowledge'
<1> USE QuiescesAssumption DEF Inv, BeforeBarriers, AtBarriers, QuiescePoints, ResumePoints,
                               Resumes
<1>1. OneHolder /\ \A b \in Attempts : Holds(b)' = Holds(b)
    BY GrantsGiveOneHolder, HolderStays DEF TypeOK, StartStep, FinishStep
<1>2. PointsMatch'
    BY <1>1 DEF OneHolder, TypeOK, StartStep, FinishStep, PointsMatch
<1>3. HolderKnows'
    BY <1>1 DEF OneHolder, TypeOK, StartStep, FinishStep, HolderKnows, PointsMatch,
                HeldBarrierFences, OpenFenceHasNoRecord
<1>4. HolderTraces'
    BY <1>1 DEF OneHolder, TypeOK, StartStep, FinishStep, HolderTraces, HolderKnows,
                PointsMatch, OpenElsewhere, LostPrivilegesAreTraced
<1>5. ResumeTraces'
    BY <1>1 DEF OneHolder, TypeOK, StartStep, FinishStep, ResumeTraces, PointsMatch,
                LostPrivilegesAreTraced
<1>6. OpenFenceHasNoRecord'
    BY <1>1 DEF OneHolder, TypeOK, StartStep, FinishStep, OpenFenceHasNoRecord, HolderKnows,
                PointsMatch
<1>7. HeldBarrierFences'
    BY <1>1 DEF OneHolder, TypeOK, StartStep, FinishStep, HeldBarrierFences, HolderKnows,
                PointsMatch
<1>8. LostPrivilegesAreTraced'
    BY <1>1 DEF OneHolder, TypeOK, StartStep, FinishStep, LostPrivilegesAreTraced, PointsMatch,
                HolderKnows, HolderTraces, ResumeTraces, OpenElsewhere, OpenFenceHasNoRecord
<1>9. QED
    BY <1>2, <1>3, <1>4, <1>5, <1>6, <1>7, <1>8 DEF Knowledge

\* Preservation: the lease expires.
LEMMA ExpireInv == ASSUME Inv, Expire PROVE Knowledge'
<1> USE QuiescesAssumption DEF Inv, BeforeBarriers, AtBarriers, QuiescePoints, ResumePoints,
                               Resumes
<1>1. OneHolder /\ \A b \in Attempts : Holds(b)' => Holds(b)
    BY GrantsGiveOneHolder DEF TypeOK, Expire, LeaseExpires, Holds
<1>2. PointsMatch'
    BY <1>1 DEF OneHolder, TypeOK, Expire, LeaseExpires, PointsMatch
<1>3. HolderKnows'
    BY <1>1 DEF OneHolder, TypeOK, Expire, LeaseExpires, HolderKnows, PointsMatch,
                HeldBarrierFences, OpenFenceHasNoRecord
<1>4. HolderTraces'
    BY <1>1 DEF OneHolder, TypeOK, Expire, LeaseExpires, HolderTraces, HolderKnows, PointsMatch,
                OpenElsewhere, LostPrivilegesAreTraced
<1>5. ResumeTraces'
    BY <1>1 DEF OneHolder, TypeOK, Expire, LeaseExpires, ResumeTraces, PointsMatch,
                LostPrivilegesAreTraced
<1>6. OpenFenceHasNoRecord'
    BY <1>1 DEF OneHolder, TypeOK, Expire, LeaseExpires, OpenFenceHasNoRecord, HolderKnows,
                PointsMatch
<1>7. HeldBarrierFences'
    BY <1>1 DEF OneHolder, TypeOK, Expire, LeaseExpires, HeldBarrierFences, HolderKnows,
                PointsMatch
<1>8. LostPrivilegesAreTraced'
    BY <1>1 DEF OneHolder, TypeOK, Expire, LeaseExpires, LostPrivilegesAreTraced, PointsMatch,
                HolderKnows, HolderTraces, ResumeTraces, OpenElsewhere, OpenFenceHasNoRecord
<1>9. QED
    BY <1>2, <1>3, <1>4, <1>5, <1>6, <1>7, <1>8 DEF Knowledge

\* Preservation: the holder releases.
LEMMA ReleaseInv == ASSUME Inv, NEW a \in Attempts, Release(a) PROVE Knowledge'
<1> USE QuiescesAssumption DEF Inv, BeforeBarriers, AtBarriers, QuiescePoints, ResumePoints,
                               Resumes
<1>1. OneHolder /\ \A b \in Attempts : Holds(b)' => Holds(b)
    BY GrantsGiveOneHolder DEF TypeOK, Release, FreeLease, Holds
<1>2. PointsMatch'
    BY <1>1 DEF OneHolder, TypeOK, Release, FreeLease, PointsMatch
<1>3. HolderKnows'
    BY <1>1 DEF OneHolder, TypeOK, Release, FreeLease, HolderKnows, PointsMatch,
                HeldBarrierFences, OpenFenceHasNoRecord
<1>4. HolderTraces'
    BY <1>1 DEF OneHolder, TypeOK, Release, FreeLease, HolderTraces, HolderKnows, PointsMatch,
                OpenElsewhere, LostPrivilegesAreTraced
<1>5. ResumeTraces'
    BY <1>1 DEF OneHolder, TypeOK, Release, FreeLease, ResumeTraces, PointsMatch,
                LostPrivilegesAreTraced
<1>6. OpenFenceHasNoRecord'
    BY <1>1 DEF OneHolder, TypeOK, Release, FreeLease, OpenFenceHasNoRecord, HolderKnows,
                PointsMatch
<1>7. HeldBarrierFences'
    BY <1>1 DEF OneHolder, TypeOK, Release, FreeLease, HeldBarrierFences, HolderKnows, PointsMatch
<1>8. LostPrivilegesAreTraced'
    BY <1>1 DEF OneHolder, TypeOK, Release, FreeLease, LostPrivilegesAreTraced, PointsMatch,
                HolderKnows, HolderTraces, ResumeTraces, OpenElsewhere, OpenFenceHasNoRecord
<1>9. QED
    BY <1>2, <1>3, <1>4, <1>5, <1>6, <1>7, <1>8 DEF Knowledge

\* Preservation: an attempt is granted the lease, or refused.
LEMMA AcquireInv == ASSUME Inv, NEW a \in Attempts, Acquire(a) PROVE Knowledge'
<1> USE QuiescesAssumption DEF Inv, BeforeBarriers, AtBarriers, QuiescePoints, ResumePoints,
                               Resumes
<1>1. OneHolder /\ \A b \in Attempts : Holds(b)' => 
           Holds(b) \/ (b = a /\ pc'[a] \in {"startFence", "read"})
    <2>1. OneHolder
        BY GrantsGiveOneHolder DEF TypeOK
    <2>2. CASE Takeable
        <3>1. \A b \in Attempts : b # a => grant'[b] = grant[b] /\ grant'[b] < leaseEpoch'
            BY <2>2 DEF Acquire, TakeLease, TypeOK, LeaseTypeOK, GrantsOrdered
        <3>2. QED
            BY <2>1, <2>2, <3>1 DEF Acquire, Holds, TypeOK, LeaseTypeOK, TakeLease
    <2>3. CASE ~Takeable
        BY <2>1, <2>3 DEF Acquire, Holds
    <2>4. QED
        BY <2>1, <2>2, <2>3
<1>2. PointsMatch'
    <2>1. /\ pc' = [pc EXCEPT ![a] = pc'[a]] /\ UNCHANGED <<openStep, record>>
          /\ pc[a] = "idle" /\ openStep[a] # "barriers"
          /\ \/ pc'[a] = "startFence" /\ a \in Quiesces
             \/ pc'[a] = "read" /\ a \in Resumes
             \/ pc'[a] = "done"
        BY DEF Acquire, TypeOK, PointsMatch
    <2>2. \A b \in Attempts : b # a => grant'[b] = grant[b]
        BY DEF Acquire, TakeLease, TypeOK, LeaseTypeOK
    <2>3. QED
        BY <2>1, <2>2 DEF TypeOK, PointsMatch
<1>3. HolderKnows'
    BY <1>1 DEF OneHolder, TypeOK, Acquire, TakeLease, NoBarriers, HolderKnows, PointsMatch,
                HeldBarrierFences, OpenFenceHasNoRecord
<1>4. HolderTraces'
    BY <1>1 DEF OneHolder, TypeOK, Acquire, TakeLease, NoBarriers, HolderTraces, HolderKnows,
                PointsMatch, OpenElsewhere, LostPrivilegesAreTraced
<1>5. ResumeTraces'
    BY <1>1 DEF OneHolder, TypeOK, Acquire, TakeLease, NoBarriers, ResumeTraces, PointsMatch,
                LostPrivilegesAreTraced
<1>6. OpenFenceHasNoRecord'
    BY <1>1 DEF OneHolder, TypeOK, Acquire, TakeLease, NoBarriers, OpenFenceHasNoRecord,
                HolderKnows, PointsMatch
<1>7. HeldBarrierFences'
    BY <1>1 DEF OneHolder, TypeOK, Acquire, TakeLease, NoBarriers, HeldBarrierFences,
                HolderKnows, PointsMatch
<1>8. LostPrivilegesAreTraced'
    BY <1>1 DEF OneHolder, TypeOK, Acquire, TakeLease, NoBarriers, LostPrivilegesAreTraced,
                PointsMatch, HolderKnows, HolderTraces, ResumeTraces, OpenElsewhere,
                OpenFenceHasNoRecord
<1>9. QED
    BY <1>2, <1>3, <1>4, <1>5, <1>6, <1>7, <1>8 DEF Knowledge

\* Every step preserves the invariant.
LEMMA InvStep == Inv /\ [Next]_vars => Inv'
<1> SUFFICES ASSUME Inv, [Next]_vars PROVE Inv'
    OBVIOUS
<1>0. Quiesces \subseteq Attempts /\ Resumes \subseteq Attempts
    BY QuiescesAssumption DEF Resumes
<1>1. TypeOK' /\ GrantsOrdered'
    BY LeaseStep, TypeStep DEF Inv, TypeOK, OperationTypeOK
<1>2. CASE UNCHANGED vars
    <2>1. PointsMatch' /\ OpenFenceHasNoRecord' /\ HeldBarrierFences'
        BY <1>2 DEF Inv, PointsMatch, OpenFenceHasNoRecord, HeldBarrierFences
    <2>2. HolderKnows'
        BY <1>2 DEF Inv, HolderKnows, Holds
    <2>3. HolderTraces'
        BY <1>2 DEF Inv, HolderTraces, Holds, OpenElsewhere
    <2>4. ResumeTraces' /\ LostPrivilegesAreTraced'
        BY <1>2 DEF Inv, ResumeTraces, Holds, LostPrivilegesAreTraced
    <2>5. QED
        BY <1>1, <2>1, <2>2, <2>3, <2>4 DEF Inv
<1>3. ASSUME NEW a \in Attempts, Acquire(a) \/ Release(a) \/ Fail(a) \/ Crash(a)
      PROVE Knowledge'
    BY <1>3, AcquireInv, ReleaseInv, FailInv, CrashInv
<1>4. ASSUME NEW a \in Quiesces, Quiesce(a) PROVE Knowledge'
    BY <1>0, <1>4, QuiesceStartsInv, QuiesceFinishesInv, TakeFenceInv, DrainInv,
       ChooseBarrierInv, RevokeSysInv, RevokeAppInv, UndoSysInv, RecordBarriersInv DEF Quiesce
<1>5. ASSUME NEW a \in Resumes, Resume(a) PROVE Knowledge'
    BY <1>0, <1>5, ResumeStepsInv, ReadFenceInv, RestoreSysInv, ReleaseFenceInv DEF Resume
<1>6. CASE Next
    BY <1>3, <1>4, <1>5, <1>6, <1>1, ExpireInv DEF Next, Inv, Knowledge
<1>7. QED
    BY <1>1, <1>2, <1>6 DEF Inv, Knowledge

\* The inductive invariant of quiesce and resume.
THEOREM FenceInvariant == Spec => []Inv
BY InitInv, InvStep, PTL DEF Spec

\* Types (TypeOK), of the lease row, the fence row and every attempt.
THEOREM TypeCorrect == Spec => []TypeOK
<1>1. Inv => TypeOK
    BY DEF Inv
<1>2. QED
    BY <1>1, FenceInvariant, PTL

\* Two attempts never hold the lease at once, attempts of one operation included
\* (OneHolder; operation-lease.ts:238-243, 316-324).
THEOREM OneHolderAlways == Spec => []OneHolder
<1>1. Inv => OneHolder
    BY GrantsGiveOneHolder DEF Inv, TypeOK
<1>2. QED
    BY <1>1, FenceInvariant, PTL

\* A recorded barrier keeps the runtime role from writing the application database,
\* for any number of quiesces, crashes and takeovers (HeldBarrierFences;
\* fence-operations.ts:375-390).
THEOREM BarrierFences == Spec => []HeldBarrierFences
<1>1. Inv => HeldBarrierFences
    BY DEF Inv
<1>2. QED
    BY <1>1, FenceInvariant, PTL

\* A privilege that was taken from the runtime role leaves a record or an open step
\* receipt (LostPrivilegesAreTraced; fence-operations.ts:375-402).
THEOREM PrivilegesTraced == Spec => []LostPrivilegesAreTraced
<1>1. Inv => LostPrivilegesAreTraced
    BY DEF Inv
<1>2. QED
    BY <1>1, FenceInvariant, PTL

\* The fence, the barrier record, the receipts and the outcomes change only in the hands
\* of the attempt with the newest grant (StaleAttemptsDoNotWrite;
\* operation-lease.ts:316-324).
THEOREM StaleDoNotWrite == Spec => StaleAttemptsDoNotWrite
<1> DEFINE Wrote(a) == /\ pc'[a] # pc[a]
                       /\ stateVars' # stateVars \/ openStep' # openStep \/ outcome' # outcome
           Newest(a) == \A b \in Attempts : grant[b] <= grant[a]
<1>1. ASSUME Inv, Next, NEW a \in Attempts, Wrote(a) PROVE Newest(a)
    <2>1. ASSUME Holds(a) PROVE Newest(a)
        BY <1>1, <2>1 DEF Inv, GrantsOrdered, Holds
    <2>2. ASSUME NEW c \in Attempts, Acquire(c) \/ Fail(c) \/ Crash(c) PROVE FALSE
        BY <1>1, <2>2 DEF Acquire, Fail, Crash
    <2>3. ASSUME NEW c \in Attempts, pc' = [pc EXCEPT ![c] = pc'[c]] PROVE c = a
        BY <1>1, <2>3 DEF Inv, TypeOK
    <2>4. ASSUME NEW c \in Attempts, Release(c) PROVE Holds(a)
        BY <1>1, <2>4 DEF Release, FreeLease, Inv, TypeOK
    <2>5. ASSUME NEW c \in Attempts, NEW from, NEW step, NEW to,
                 StartStep(c, from, step, to) \/ FinishStep(c, from, to)
          PROVE Holds(a)
        BY <1>1, <2>5 DEF StartStep, FinishStep, Inv, TypeOK
    <2>6. ASSUME NEW c \in Attempts,
                 TakeFence(c) \/ ChooseBarrier(c) \/ RecordBarriers(c) \/ ReleaseFence(c)
          PROVE Holds(a)
        BY <1>1, <2>6 DEF TakeFence, ChooseBarrier, RecordBarriers, ReleaseFence, Inv, TypeOK
    <2>7. ASSUME NEW c \in Attempts,
                 \/ Drain(c) \/ RevokeSys(c) \/ RevokeApp(c) \/ UndoSys(c)
                 \/ ReadFence(c) \/ RestoreSys(c)
          PROVE FALSE
        BY <1>1, <2>7 DEF Drain, RevokeSys, RevokeApp, UndoSys, ReadFence, RestoreSys
    <2>8. ASSUME Expire PROVE FALSE
        BY <1>1, <2>8 DEF Expire
    <2>9. Quiesces \subseteq Attempts /\ Resumes \subseteq Attempts
        BY QuiescesAssumption DEF Resumes
    <2> HIDE DEF Newest, Wrote
    <2>10. QED
        BY <1>1, <2>1, <2>2, <2>4, <2>5, <2>6, <2>7, <2>8, <2>9 DEF Next, Quiesce, Resume
<1>2. Inv /\ [Next]_vars => [\A a \in Attempts : Wrote(a) => Newest(a)]_vars
    BY <1>1
<1>3. QED
    BY <1>2, FenceInvariant, PTL DEF Spec, StaleAttemptsDoNotWrite

\* What quiesce and resume do to the fence.
LEMMA FenceMoves ==
    ASSUME Inv, [Next]_vars
    PROVE  FenceTaken \/ FenceReleased \/ UNCHANGED <<fence, fenceEpoch>>
<1>1. ASSUME NEW a, TakeFence(a) PROVE FenceTaken \/ UNCHANGED <<fence, fenceEpoch>>
    BY <1>1 DEF TakeFence, FenceTaken, Inv, TypeOK
<1>2. ASSUME NEW a, ReleaseFence(a)
      PROVE FenceReleased \/ UNCHANGED <<fence, fenceEpoch>>
    BY <1>2 DEF ReleaseFence, FenceReleased
<1>3. ASSUME NEW a, Acquire(a) \/ Release(a) \/ Fail(a) \/ Crash(a)
      PROVE UNCHANGED <<fence, fenceEpoch>>
    BY <1>3 DEF Acquire, Release, Fail, Crash
<1>4. ASSUME NEW a, NEW from, NEW step, NEW to,
             StartStep(a, from, step, to) \/ FinishStep(a, from, to)
      PROVE UNCHANGED <<fence, fenceEpoch>>
    BY <1>4 DEF StartStep, FinishStep
<1>5. ASSUME NEW a,
             \/ Drain(a) \/ ChooseBarrier(a) \/ RevokeSys(a) \/ RevokeApp(a) \/ UndoSys(a)
             \/ RecordBarriers(a) \/ ReadFence(a) \/ RestoreSys(a)
      PROVE UNCHANGED <<fence, fenceEpoch>>
    BY <1>5 DEF Drain, ChooseBarrier, RevokeSys, RevokeApp, UndoSys, RecordBarriers,
                ReadFence, RestoreSys
<1>6. ASSUME Expire PROVE UNCHANGED <<fence, fenceEpoch>>
    BY <1>6 DEF Expire
<1>7. QED
    BY <1>1, <1>2, <1>3, <1>4, <1>5, <1>6 DEF Next, Quiesce, Resume

\* Quiesce and resume implement the fence the runtime processes rely on
\* (ImplementsFence): it is taken open at a new epoch, once, and opened once.
THEOREM FenceImplemented == Spec => ImplementsFence
<1>1. Init => FenceInit
    BY DEF Init, FenceInit
<1>2. Inv /\ [Next]_vars => [FenceTaken \/ FenceReleased]_fenceVars
    BY FenceMoves
<1>3. QED
    BY <1>1, <1>2, FenceInvariant, PTL DEF Spec, ImplementsFence, FenceSpec

----
(***************************************************************************)
(* The processes.  A complete drain stays true because epochs order        *)
(* everything: a process that is open, or is reopening, last saw an epoch  *)
(* older than a fence that is held now, and a row that says `fenced` at    *)
(* the fence's epoch was written by a process that has seen that epoch.    *)
(* Jobs are stopped by the queue's row alone: while a queue is held, that  *)
(* row is off, and after the settle window no loop knows it otherwise.     *)
(***************************************************************************)

\* RuntimeTypeOK, the processes and their queues apart.
ProcessTypes ==
    /\ FenceTypeOK
    /\ life \in [Processes -> {"down", "announced", "loaded", "booting", "up", "stopping"}]
    /\ phase \in [Processes -> Phases]
    /\ seenEpoch \in [Processes -> Nat]
    /\ at \in [Processes -> {"rest", "observed", "pausing", "holding", "judging",
                             "resuming", "reopening", "beat"}]
    /\ observed \in [Processes -> [fence : {"open", "fenced"}, epoch : Nat]]
    /\ work \in [Processes -> Nat]
    /\ row \in [Processes -> Rows]
    /\ lapsed \in [Processes -> BOOLEAN]
    /\ reported \in Nat
    /\ missed \subseteq Processes

QueueTypes ==
    /\ dispatch \in {"on", "off"}
    /\ queue \in [Processes -> {"none", "registeringOn", "registeringOff", "registered"}]
    /\ paused \subseteq Processes /\ settled \subseteq Processes
    /\ claiming \subseteq Processes /\ held \subseteq Processes
    /\ jobs \in [Processes -> Nat]

\* What a process has seen and written is not ahead of the fence, and never goes back.
SeenInOrder ==
    /\ \A p \in Processes :
           /\ seenEpoch[p] <= fenceEpoch /\ row[p].epoch <= fenceEpoch
           /\ at[p] = "observed" =>
                  seenEpoch[p] <= observed[p].epoch /\ observed[p].epoch <= fenceEpoch
    /\ reported <= fenceEpoch
    /\ fence = "fenced" => fenceEpoch # 0

\* A process that is open or about to be has not seen a fence that is held.
OpenIsOld ==
    fence = "fenced" => \A p \in Processes :
        /\ phase[p] = "open" \/ at[p] \in {"resuming", "reopening"} => seenEpoch[p] # fenceEpoch
        /\ at[p] = "observed" /\ observed[p].fence = "open" => observed[p].epoch # fenceEpoch

\* A process that has not read the fence yet, or that is gone, is at rest, and registers no queue.
BootsInOrder ==
    \A p \in Processes :
        /\ ~Polls(p) => at[p] = "rest"
        /\ life[p] \in {"down", "announced", "loaded"} => work[p] = 0 /\ queue[p] = "none"
        /\ life[p] \in {"announced", "loaded"} => row[p].phase # "fenced"
        /\ life[p] \in {"down", "announced"} => seenEpoch[p] = 0 /\ phase[p] = "open"

\* A drained process has no admitted work, and a row that says so at this epoch is true.
FencedIsQuiet ==
    \A p \in Processes :
        /\ phase[p] = "fenced" => work[p] = 0
        /\ /\ fence = "fenced" /\ Polls(p)
           /\ row[p].phase = "fenced" /\ row[p].epoch = fenceEpoch
           => phase[p] = "fenced" /\ seenEpoch[p] = fenceEpoch
        /\ at[p] \in {"pausing", "holding", "judging"} => phase[p] = "draining"

\* A process without a fresh row is gone, is shutting down, or fell behind.
RowOrLapsed ==
    \A p \in Processes : row[p] = NoRow /\ ~lapsed[p] => life[p] \in {"down", "stopping"}

\* A queue that is held is paused, and so is its row as soon as it is registered; once the settle
\* window is over its loop knows, and a drained process has no job left.
QueueHolds ==
    \A p \in Processes :
        /\ queue[p] # "registered" => p \notin claiming /\ jobs[p] = 0
        /\ at[p] = "holding" => p \in paused
        /\ p \in held =>
               /\ p \in paused /\ queue[p] # "registeringOn"
               /\ queue[p] = "registered" => dispatch = "off"
               /\ p \in settled => p \notin claiming
               /\ phase[p] = "fenced" => p \in settled /\ jobs[p] = 0

\* While its queue is held, a process runs no job and starts none.
Idles(p) == p \in held => jobs[p] = 0 /\ p \notin claiming

\* What a report says of every process it counted.
ReportHolds ==
    fence = "fenced" /\ reported = fenceEpoch =>
        \A p \in Processes \ missed :
            \/ life[p] \in {"down", "announced", "stopping"}
            \/ /\ seenEpoch[p] = fenceEpoch /\ work[p] = 0
               /\ at[p] \notin {"pausing", "holding"} /\ Idles(p)

ProcessInv ==
    /\ ProcessTypes
    /\ QueueTypes
    /\ SeenInOrder
    /\ OpenIsOld
    /\ BootsInOrder
    /\ FencedIsQuiet
    /\ RowOrLapsed
    /\ QueueHolds
    /\ ReportHolds

USE DEF runtimeVars, fenceVars, processVars, syncVars, rowVars, queueVars, reportVars, Polls

\* Preservation by a step that is about the queues alone.
LEMMA QueueFrame ==
    ASSUME ProcessInv, UNCHANGED <<fenceVars, syncVars, work, rowVars, reportVars>>,
           \A q \in Processes : queue[q] = "none" /\ life[q] # "booting" => queue'[q] = "none",
           QueueTypes', QueueHolds', \A q \in Processes : Idles(q) => Idles(q)'
    PROVE  ProcessInv'
<1>1. ProcessTypes' /\ SeenInOrder' /\ OpenIsOld'
    BY DEF ProcessInv, ProcessTypes, FenceTypeOK, SeenInOrder, OpenIsOld
<1>2. BootsInOrder' /\ FencedIsQuiet' /\ RowOrLapsed'
    BY DEF ProcessInv, BootsInOrder, FencedIsQuiet, RowOrLapsed
<1>3. ReportHolds'
    BY DEF ProcessInv, ReportHolds
<1>4. QED
    BY <1>1, <1>2, <1>3 DEF ProcessInv

\* Preservation: a quiesce takes the fence, a resume releases it.
LEMMA MoveInv ==
    ASSUME ProcessInv, FenceTaken \/ FenceReleased, UNCHANGED <<processVars, reportVars>>
    PROVE  ProcessInv'
<1>1. ProcessTypes'
    BY DEF ProcessInv, ProcessTypes, FenceTaken, FenceReleased, FenceTypeOK, Phases, Rows,
           NoRow, Nothing
<1>2. QueueTypes'
    BY DEF ProcessInv, QueueTypes, FenceTaken, FenceReleased
<1>3. SeenInOrder'
    <2>1. \A p \in Processes :
              seenEpoch[p] \in Nat /\ observed[p].epoch \in Nat /\ row[p].epoch \in Nat
        BY DEF ProcessInv, ProcessTypes, Rows, NoRow
    <2>2. QED
        BY <2>1
        DEF ProcessInv, ProcessTypes, FenceTypeOK, FenceTaken, FenceReleased,
            SeenInOrder
<1>4. OpenIsOld'
    BY DEF ProcessInv, ProcessTypes, FenceTypeOK, FenceTaken, FenceReleased, OpenIsOld,
           SeenInOrder, BootsInOrder
<1>5. BootsInOrder'
    BY DEF ProcessInv, ProcessTypes, FenceTypeOK, FenceTaken, FenceReleased, BootsInOrder,
           NoRow, OpenIsOld
<1>6. FencedIsQuiet'
    BY DEF ProcessInv, ProcessTypes, FenceTypeOK, FenceTaken, FenceReleased, FencedIsQuiet,
           SeenInOrder, OpenIsOld, BootsInOrder, NoRow
<1>7. RowOrLapsed'
    BY DEF ProcessInv, ProcessTypes, FenceTypeOK, FenceTaken, FenceReleased, RowOrLapsed,
           NoRow, Phases
<1>8. QueueHolds'
    BY DEF ProcessInv, ProcessTypes, FenceTypeOK, FenceTaken, FenceReleased, QueueHolds,
           QueueTypes, BootsInOrder, FencedIsQuiet
<1>9. ReportHolds'
    BY DEF ProcessInv, ProcessTypes, FenceTypeOK, FenceTaken, FenceReleased, ReportHolds,
           Idles, QueueHolds, SeenInOrder, OpenIsOld, BootsInOrder, FencedIsQuiet, RowOrLapsed
<1>10. QED
    BY <1>1, <1>2, <1>3, <1>4, <1>5, <1>6, <1>7, <1>8, <1>9 DEF ProcessInv

\* Preservation: quiesce reports a complete drain.
LEMMA ReportInv == ASSUME ProcessInv, Report PROVE ProcessInv'
<1>1. ProcessTypes'
    BY DEF ProcessInv, ProcessTypes, Report, Drained, FenceTypeOK, Phases, Rows, NoRow, Nothing
<1>2. QueueTypes'
    BY DEF ProcessInv, QueueTypes, Report, Drained
<1>3. SeenInOrder'
    BY DEF ProcessInv, ProcessTypes, FenceTypeOK, Report, Drained, SeenInOrder, BootsInOrder,
           NoRow
<1>4. OpenIsOld'
    BY DEF ProcessInv, ProcessTypes, FenceTypeOK, Report, Drained, OpenIsOld, SeenInOrder,
           BootsInOrder
<1>5. BootsInOrder'
    BY DEF ProcessInv, ProcessTypes, FenceTypeOK, Report, Drained, BootsInOrder, NoRow,
           OpenIsOld
<1>6. FencedIsQuiet'
    BY DEF ProcessInv, ProcessTypes, FenceTypeOK, Report, Drained, FencedIsQuiet, SeenInOrder,
           OpenIsOld, BootsInOrder, NoRow
<1>7. RowOrLapsed'
    BY DEF ProcessInv, ProcessTypes, FenceTypeOK, Report, Drained, RowOrLapsed, NoRow, Phases
<1>8. QueueHolds'
    BY DEF ProcessInv, ProcessTypes, FenceTypeOK, Report, Drained, QueueHolds, QueueTypes,
           BootsInOrder, FencedIsQuiet
<1>9. ReportHolds'
    BY DEF ProcessInv, ProcessTypes, FenceTypeOK, Report, Drained, ReportHolds, Idles,
           QueueHolds, SeenInOrder, OpenIsOld, BootsInOrder, FencedIsQuiet, RowOrLapsed
<1>10. QED
    BY <1>1, <1>2, <1>3, <1>4, <1>5, <1>6, <1>7, <1>8, <1>9 DEF ProcessInv

\* Preservation: a process announces itself.
LEMMA AnnounceInv == ASSUME ProcessInv, NEW p \in Processes, Announce(p) PROVE ProcessInv'
<1>1. ProcessTypes'
    BY DEF ProcessInv, ProcessTypes, Announce, FenceTypeOK, Phases, Rows, NoRow, Nothing
<1>2. QueueTypes'
    BY DEF ProcessInv, QueueTypes, Announce
<1>3. SeenInOrder'
    BY DEF ProcessInv, ProcessTypes, FenceTypeOK, Announce, SeenInOrder, BootsInOrder, NoRow
<1>4. OpenIsOld'
    BY DEF ProcessInv, ProcessTypes, FenceTypeOK, Announce, OpenIsOld, SeenInOrder, BootsInOrder
<1>5. BootsInOrder'
    BY DEF ProcessInv, ProcessTypes, FenceTypeOK, Announce, BootsInOrder, NoRow, OpenIsOld
<1>6. FencedIsQuiet'
    BY DEF ProcessInv, ProcessTypes, FenceTypeOK, Announce, FencedIsQuiet, SeenInOrder,
           OpenIsOld, BootsInOrder, NoRow
<1>7. RowOrLapsed'
    BY DEF ProcessInv, ProcessTypes, FenceTypeOK, Announce, RowOrLapsed, NoRow, Phases
<1>8. QueueHolds'
    BY DEF ProcessInv, ProcessTypes, FenceTypeOK, Announce, QueueHolds, QueueTypes,
           BootsInOrder, FencedIsQuiet
<1>9. ReportHolds'
    BY DEF ProcessInv, ProcessTypes, FenceTypeOK, Announce, ReportHolds, Idles, QueueHolds,
           SeenInOrder, OpenIsOld, BootsInOrder, FencedIsQuiet, RowOrLapsed
<1>10. QED
    BY <1>1, <1>2, <1>3, <1>4, <1>5, <1>6, <1>7, <1>8, <1>9 DEF ProcessInv

\* Preservation: a booting process reads the fence.
LEMMA LoadFenceInv == ASSUME ProcessInv, NEW p \in Processes, LoadFence(p) PROVE ProcessInv'
<1>1. ProcessTypes'
    BY DEF ProcessInv, ProcessTypes, LoadFence, FenceTypeOK, Phases, Rows, NoRow, Nothing
<1>2. QueueTypes'
    BY DEF ProcessInv, QueueTypes, LoadFence
<1>3. SeenInOrder'
    BY DEF ProcessInv, ProcessTypes, FenceTypeOK, LoadFence, SeenInOrder, BootsInOrder, NoRow
<1>4. OpenIsOld'
    BY DEF ProcessInv, ProcessTypes, FenceTypeOK, LoadFence, OpenIsOld, SeenInOrder,
           BootsInOrder
<1>5. BootsInOrder'
    BY DEF ProcessInv, ProcessTypes, FenceTypeOK, LoadFence, BootsInOrder, NoRow, OpenIsOld
<1>6. FencedIsQuiet'
    BY DEF ProcessInv, ProcessTypes, FenceTypeOK, LoadFence, FencedIsQuiet, SeenInOrder,
           OpenIsOld, BootsInOrder, NoRow
<1>7. RowOrLapsed'
    BY DEF ProcessInv, ProcessTypes, FenceTypeOK, LoadFence, RowOrLapsed, NoRow, Phases
<1>8. QueueHolds'
    BY DEF ProcessInv, ProcessTypes, FenceTypeOK, LoadFence, QueueHolds, QueueTypes,
           BootsInOrder, FencedIsQuiet
<1>9. ReportHolds'
    BY DEF ProcessInv, ProcessTypes, FenceTypeOK, LoadFence, ReportHolds, Idles, QueueHolds,
           SeenInOrder, OpenIsOld, BootsInOrder, FencedIsQuiet, RowOrLapsed
<1>10. QED
    BY <1>1, <1>2, <1>3, <1>4, <1>5, <1>6, <1>7, <1>8, <1>9 DEF ProcessInv

\* Preservation: a booting process writes its second heartbeat.
LEMMA LoadBeatInv == ASSUME ProcessInv, NEW p \in Processes, LoadBeat(p) PROVE ProcessInv'
<1>1. ProcessTypes'
    BY DEF ProcessInv, ProcessTypes, LoadBeat, WriteRow, FenceTypeOK, Phases, Rows, NoRow,
           Nothing
<1>2. QueueTypes'
    BY DEF ProcessInv, QueueTypes, LoadBeat, WriteRow
<1>3. SeenInOrder'
    BY DEF ProcessInv, ProcessTypes, FenceTypeOK, LoadBeat, WriteRow, SeenInOrder,
           BootsInOrder, NoRow
<1>4. OpenIsOld'
    BY DEF ProcessInv, ProcessTypes, FenceTypeOK, LoadBeat, WriteRow, OpenIsOld, SeenInOrder,
           BootsInOrder
<1>5. BootsInOrder'
    BY DEF ProcessInv, ProcessTypes, FenceTypeOK, LoadBeat, WriteRow, BootsInOrder, NoRow,
           OpenIsOld
<1>6. FencedIsQuiet'
    BY DEF ProcessInv, ProcessTypes, FenceTypeOK, LoadBeat, WriteRow, FencedIsQuiet,
           SeenInOrder, OpenIsOld, BootsInOrder, NoRow
<1>7. RowOrLapsed'
    BY DEF ProcessInv, ProcessTypes, FenceTypeOK, LoadBeat, WriteRow, RowOrLapsed, NoRow, Phases
<1>8. QueueHolds'
    BY DEF ProcessInv, ProcessTypes, FenceTypeOK, LoadBeat, WriteRow, QueueHolds, QueueTypes,
           BootsInOrder, FencedIsQuiet
<1>9. ReportHolds'
    BY DEF ProcessInv, ProcessTypes, FenceTypeOK, LoadBeat, WriteRow, ReportHolds, Idles,
           QueueHolds, SeenInOrder, OpenIsOld, BootsInOrder, FencedIsQuiet, RowOrLapsed
<1>10. QED
    BY <1>1, <1>2, <1>3, <1>4, <1>5, <1>6, <1>7, <1>8, <1>9 DEF ProcessInv

\* Preservation: a boot ends.
LEMMA ServeInv == ASSUME ProcessInv, NEW p \in Processes, Serve(p) PROVE ProcessInv'
<1>1. ProcessTypes'
    BY DEF ProcessInv, ProcessTypes, Serve, FenceTypeOK, Phases, Rows, NoRow, Nothing
<1>2. QueueTypes'
    BY DEF ProcessInv, QueueTypes, Serve
<1>3. SeenInOrder'
    BY DEF ProcessInv, ProcessTypes, FenceTypeOK, Serve, SeenInOrder, BootsInOrder, NoRow
<1>4. OpenIsOld'
    BY DEF ProcessInv, ProcessTypes, FenceTypeOK, Serve, OpenIsOld, SeenInOrder, BootsInOrder
<1>5. BootsInOrder'
    BY DEF ProcessInv, ProcessTypes, FenceTypeOK, Serve, BootsInOrder, NoRow, OpenIsOld
<1>6. FencedIsQuiet'
    BY DEF ProcessInv, ProcessTypes, FenceTypeOK, Serve, FencedIsQuiet, SeenInOrder,
           OpenIsOld, BootsInOrder, NoRow
<1>7. RowOrLapsed'
    BY DEF ProcessInv, ProcessTypes, FenceTypeOK, Serve, RowOrLapsed, NoRow, Phases
<1>8. QueueHolds'
    BY DEF ProcessInv, ProcessTypes, FenceTypeOK, Serve, QueueHolds, QueueTypes, BootsInOrder,
           FencedIsQuiet
<1>9. ReportHolds'
    BY DEF ProcessInv, ProcessTypes, FenceTypeOK, Serve, ReportHolds, Idles, QueueHolds,
           SeenInOrder, OpenIsOld, BootsInOrder, FencedIsQuiet, RowOrLapsed
<1>10. QED
    BY <1>1, <1>2, <1>3, <1>4, <1>5, <1>6, <1>7, <1>8, <1>9 DEF ProcessInv

\* Preservation: a process reads the fence.
LEMMA ObserveInv == ASSUME ProcessInv, NEW p \in Processes, Observe(p) PROVE ProcessInv'
<1>1. ProcessTypes'
    BY DEF ProcessInv, ProcessTypes, Observe, FenceTypeOK, Phases, Rows, NoRow, Nothing
<1>2. QueueTypes'
    BY DEF ProcessInv, QueueTypes, Observe
<1>3. SeenInOrder'
    BY DEF ProcessInv, ProcessTypes, FenceTypeOK, Observe, SeenInOrder, BootsInOrder, NoRow
<1>4. OpenIsOld'
    BY DEF ProcessInv, ProcessTypes, FenceTypeOK, Observe, OpenIsOld, SeenInOrder, BootsInOrder
<1>5. BootsInOrder'
    BY DEF ProcessInv, ProcessTypes, FenceTypeOK, Observe, BootsInOrder, NoRow, OpenIsOld
<1>6. FencedIsQuiet'
    BY DEF ProcessInv, ProcessTypes, FenceTypeOK, Observe, FencedIsQuiet, SeenInOrder,
           OpenIsOld, BootsInOrder, NoRow
<1>7. RowOrLapsed'
    BY DEF ProcessInv, ProcessTypes, FenceTypeOK, Observe, RowOrLapsed, NoRow, Phases
<1>8. QueueHolds'
    BY DEF ProcessInv, ProcessTypes, FenceTypeOK, Observe, QueueHolds, QueueTypes,
           BootsInOrder, FencedIsQuiet
<1>9. ReportHolds'
    BY DEF ProcessInv, ProcessTypes, FenceTypeOK, Observe, ReportHolds, Idles, QueueHolds,
           SeenInOrder, OpenIsOld, BootsInOrder, FencedIsQuiet, RowOrLapsed
<1>10. QED
    BY <1>1, <1>2, <1>3, <1>4, <1>5, <1>6, <1>7, <1>8, <1>9 DEF ProcessInv

\* Preservation: a process starts draining.
LEMMA EnterDrainingInv == ASSUME ProcessInv, NEW p \in Processes,
        EnterDraining(p) PROVE ProcessInv'
<1>1. ProcessTypes'
    BY DEF ProcessInv, ProcessTypes, EnterDraining, FenceTypeOK, Phases, Rows, NoRow, Nothing
<1>2. QueueTypes'
    BY DEF ProcessInv, QueueTypes, EnterDraining
<1>3. SeenInOrder'
    BY DEF ProcessInv, ProcessTypes, FenceTypeOK, EnterDraining, SeenInOrder, BootsInOrder,
           NoRow
<1>4. OpenIsOld'
    BY DEF ProcessInv, ProcessTypes, FenceTypeOK, EnterDraining, OpenIsOld, SeenInOrder,
           BootsInOrder
<1>5. BootsInOrder'
    BY DEF ProcessInv, ProcessTypes, FenceTypeOK, EnterDraining, BootsInOrder, NoRow, OpenIsOld
<1>6. FencedIsQuiet'
    BY DEF ProcessInv, ProcessTypes, FenceTypeOK, EnterDraining, FencedIsQuiet, SeenInOrder,
           OpenIsOld, BootsInOrder, NoRow
<1>7. RowOrLapsed'
    BY DEF ProcessInv, ProcessTypes, FenceTypeOK, EnterDraining, RowOrLapsed, NoRow, Phases
<1>8. QueueHolds'
    BY DEF ProcessInv, ProcessTypes, FenceTypeOK, EnterDraining, QueueHolds, QueueTypes,
           BootsInOrder, FencedIsQuiet
<1>9. ReportHolds'
    BY DEF ProcessInv, ProcessTypes, FenceTypeOK, EnterDraining, ReportHolds, Idles,
           QueueHolds, SeenInOrder, OpenIsOld, BootsInOrder, FencedIsQuiet, RowOrLapsed
<1>10. QED
    BY <1>1, <1>2, <1>3, <1>4, <1>5, <1>6, <1>7, <1>8, <1>9 DEF ProcessInv

\* Preservation: the queue is told to pause.
LEMMA CallPauseInv == ASSUME ProcessInv, NEW p \in Processes, CallPause(p) PROVE ProcessInv'
<1>1. ProcessTypes'
    BY DEF ProcessInv, ProcessTypes, CallPause, FenceTypeOK, Phases, Rows, NoRow, Nothing
<1>2. QueueTypes'
    BY DEF ProcessInv, QueueTypes, CallPause
<1>3. SeenInOrder'
    BY DEF ProcessInv, ProcessTypes, FenceTypeOK, CallPause, SeenInOrder, BootsInOrder, NoRow
<1>4. OpenIsOld'
    BY DEF ProcessInv, ProcessTypes, FenceTypeOK, CallPause, OpenIsOld, SeenInOrder,
           BootsInOrder
<1>5. BootsInOrder'
    BY DEF ProcessInv, ProcessTypes, FenceTypeOK, CallPause, BootsInOrder, NoRow, OpenIsOld
<1>6. FencedIsQuiet'
    BY DEF ProcessInv, ProcessTypes, FenceTypeOK, CallPause, FencedIsQuiet, SeenInOrder,
           OpenIsOld, BootsInOrder, NoRow
<1>7. RowOrLapsed'
    BY DEF ProcessInv, ProcessTypes, FenceTypeOK, CallPause, RowOrLapsed, NoRow, Phases
<1>8. QueueHolds'
    BY DEF ProcessInv, ProcessTypes, FenceTypeOK, CallPause, QueueHolds, QueueTypes,
           BootsInOrder, FencedIsQuiet
<1>9. ReportHolds'
    BY DEF ProcessInv, ProcessTypes, FenceTypeOK, CallPause, ReportHolds, Idles, QueueHolds,
           SeenInOrder, OpenIsOld, BootsInOrder, FencedIsQuiet, RowOrLapsed
<1>10. QED
    BY <1>1, <1>2, <1>3, <1>4, <1>5, <1>6, <1>7, <1>8, <1>9 DEF ProcessInv

\* Preservation: the pause is written.
LEMMA PauseLandsInv == ASSUME ProcessInv, NEW p \in Processes, PauseLands(p) PROVE ProcessInv'
<1>1. ProcessTypes'
    BY DEF ProcessInv, ProcessTypes, PauseLands, RowHolds, FenceTypeOK, Phases, Rows, NoRow,
           Nothing
<1>2. QueueTypes'
    BY DEF ProcessInv, QueueTypes, PauseLands, RowHolds
<1>3. SeenInOrder'
    BY DEF ProcessInv, ProcessTypes, FenceTypeOK, PauseLands, RowHolds, SeenInOrder,
           BootsInOrder, NoRow
<1>4. OpenIsOld'
    BY DEF ProcessInv, ProcessTypes, FenceTypeOK, PauseLands, RowHolds, OpenIsOld,
           SeenInOrder, BootsInOrder
<1>5. BootsInOrder'
    BY DEF ProcessInv, ProcessTypes, FenceTypeOK, PauseLands, RowHolds, BootsInOrder, NoRow,
           OpenIsOld
<1>6. FencedIsQuiet'
    BY DEF ProcessInv, ProcessTypes, FenceTypeOK, PauseLands, RowHolds, FencedIsQuiet,
           SeenInOrder, OpenIsOld, BootsInOrder, NoRow
<1>7. RowOrLapsed'
    BY DEF ProcessInv, ProcessTypes, FenceTypeOK, PauseLands, RowHolds, RowOrLapsed, NoRow,
           Phases
<1>8. QueueHolds'
    BY DEF ProcessInv, ProcessTypes, FenceTypeOK, PauseLands, RowHolds, QueueHolds,
           QueueTypes, BootsInOrder, FencedIsQuiet
<1>9. ReportHolds'
    BY DEF ProcessInv, ProcessTypes, FenceTypeOK, PauseLands, RowHolds, ReportHolds, Idles,
           QueueHolds, SeenInOrder, OpenIsOld, BootsInOrder, FencedIsQuiet, RowOrLapsed
<1>10. QED
    BY <1>1, <1>2, <1>3, <1>4, <1>5, <1>6, <1>7, <1>8, <1>9 DEF ProcessInv

\* Preservation: a draining process looks again.
LEMMA StillFencedInv == ASSUME ProcessInv, NEW p \in Processes, StillFenced(p) PROVE ProcessInv'
<1>1. ProcessTypes'
    BY DEF ProcessInv, ProcessTypes, StillFenced, JudgeDrain, Running, FenceTypeOK, Phases,
           Rows, NoRow, Nothing
<1>2. QueueTypes'
    BY DEF ProcessInv, QueueTypes, StillFenced, JudgeDrain, Running
<1>3. SeenInOrder'
    BY DEF ProcessInv, ProcessTypes, FenceTypeOK, StillFenced, JudgeDrain, Running,
           SeenInOrder, BootsInOrder, NoRow
<1>4. OpenIsOld'
    BY DEF ProcessInv, ProcessTypes, FenceTypeOK, StillFenced, JudgeDrain, Running, OpenIsOld,
           SeenInOrder, BootsInOrder
<1>5. BootsInOrder'
    BY DEF ProcessInv, ProcessTypes, FenceTypeOK, StillFenced, JudgeDrain, Running,
           BootsInOrder, NoRow, OpenIsOld
<1>6. FencedIsQuiet'
    BY DEF ProcessInv, ProcessTypes, FenceTypeOK, StillFenced, JudgeDrain, Running,
           FencedIsQuiet, SeenInOrder, OpenIsOld, BootsInOrder, NoRow
<1>7. RowOrLapsed'
    BY DEF ProcessInv, ProcessTypes, FenceTypeOK, StillFenced, JudgeDrain, Running,
           RowOrLapsed, NoRow, Phases
<1>8. QueueHolds'
    BY DEF ProcessInv, ProcessTypes, FenceTypeOK, StillFenced, JudgeDrain, Running,
           QueueHolds, QueueTypes, BootsInOrder, FencedIsQuiet
<1>9. ReportHolds'
    BY DEF ProcessInv, ProcessTypes, FenceTypeOK, StillFenced, JudgeDrain, Running,
           ReportHolds, Idles, QueueHolds, SeenInOrder, OpenIsOld, BootsInOrder,
           FencedIsQuiet, RowOrLapsed
<1>10. QED
    BY <1>1, <1>2, <1>3, <1>4, <1>5, <1>6, <1>7, <1>8, <1>9 DEF ProcessInv

\* Preservation: the producers are paused.
LEMMA PausesEndInv == ASSUME ProcessInv, NEW p \in Processes, PausesEnd(p) PROVE ProcessInv'
<1>1. ProcessTypes'
    BY DEF ProcessInv, ProcessTypes, PausesEnd, JudgeDrain, Running, FenceTypeOK, Phases,
           Rows, NoRow, Nothing
<1>2. QueueTypes'
    BY DEF ProcessInv, QueueTypes, PausesEnd, JudgeDrain, Running
<1>3. SeenInOrder'
    BY DEF ProcessInv, ProcessTypes, FenceTypeOK, PausesEnd, JudgeDrain, Running, SeenInOrder,
           BootsInOrder, NoRow
<1>4. OpenIsOld'
    BY DEF ProcessInv, ProcessTypes, FenceTypeOK, PausesEnd, JudgeDrain, Running, OpenIsOld,
           SeenInOrder, BootsInOrder
<1>5. BootsInOrder'
    BY DEF ProcessInv, ProcessTypes, FenceTypeOK, PausesEnd, JudgeDrain, Running,
           BootsInOrder, NoRow, OpenIsOld
<1>6. FencedIsQuiet'
    BY DEF ProcessInv, ProcessTypes, FenceTypeOK, PausesEnd, JudgeDrain, Running,
           FencedIsQuiet, SeenInOrder, OpenIsOld, BootsInOrder, NoRow
<1>7. RowOrLapsed'
    BY DEF ProcessInv, ProcessTypes, FenceTypeOK, PausesEnd, JudgeDrain, Running, RowOrLapsed,
           NoRow, Phases
<1>8. QueueHolds'
    BY DEF ProcessInv, ProcessTypes, FenceTypeOK, PausesEnd, JudgeDrain, Running, QueueHolds,
           QueueTypes, BootsInOrder, FencedIsQuiet
<1>9. ReportHolds'
    BY DEF ProcessInv, ProcessTypes, FenceTypeOK, PausesEnd, JudgeDrain, Running, ReportHolds,
           Idles, QueueHolds, SeenInOrder, OpenIsOld, BootsInOrder, FencedIsQuiet, RowOrLapsed
<1>10. QED
    BY <1>1, <1>2, <1>3, <1>4, <1>5, <1>6, <1>7, <1>8, <1>9 DEF ProcessInv

\* Preservation: a process starts reopening.
LEMMA BeginReopenInv == ASSUME ProcessInv, NEW p \in Processes, BeginReopen(p) PROVE ProcessInv'
<1>1. ProcessTypes'
    BY DEF ProcessInv, ProcessTypes, BeginReopen, FenceTypeOK, Phases, Rows, NoRow, Nothing
<1>2. QueueTypes'
    BY DEF ProcessInv, QueueTypes, BeginReopen
<1>3. SeenInOrder'
    BY DEF ProcessInv, ProcessTypes, FenceTypeOK, BeginReopen, SeenInOrder, BootsInOrder, NoRow
<1>4. OpenIsOld'
    BY DEF ProcessInv, ProcessTypes, FenceTypeOK, BeginReopen, OpenIsOld, SeenInOrder,
           BootsInOrder
<1>5. BootsInOrder'
    BY DEF ProcessInv, ProcessTypes, FenceTypeOK, BeginReopen, BootsInOrder, NoRow, OpenIsOld
<1>6. FencedIsQuiet'
    <2>1. observed[p].epoch \in Nat /\ seenEpoch[p] \in Nat /\ fenceEpoch \in Nat
        BY DEF ProcessInv, ProcessTypes, FenceTypeOK
    <2>2. fence = "fenced" => seenEpoch[p] # fenceEpoch
        BY <2>1 DEF ProcessInv, SeenInOrder, OpenIsOld, BeginReopen
    <2>3. QED
        BY <2>2 DEF ProcessInv, ProcessTypes, BeginReopen, FencedIsQuiet
<1>7. RowOrLapsed'
    BY DEF ProcessInv, ProcessTypes, FenceTypeOK, BeginReopen, RowOrLapsed, NoRow, Phases
<1>8. QueueHolds'
    BY DEF ProcessInv, ProcessTypes, FenceTypeOK, BeginReopen, QueueHolds, QueueTypes,
           BootsInOrder, FencedIsQuiet
<1>9. ReportHolds'
    BY DEF ProcessInv, ProcessTypes, FenceTypeOK, BeginReopen, ReportHolds, Idles, QueueHolds,
           SeenInOrder, OpenIsOld, BootsInOrder, FencedIsQuiet, RowOrLapsed
<1>10. QED
    BY <1>1, <1>2, <1>3, <1>4, <1>5, <1>6, <1>7, <1>8, <1>9 DEF ProcessInv

\* Preservation: the queue dispatches again.
LEMMA ResumeQueueInv == ASSUME ProcessInv, NEW p \in Processes, ResumeQueue(p) PROVE ProcessInv'
<1>1. ProcessTypes'
    BY DEF ProcessInv, ProcessTypes, ResumeQueue, RowDispatches, FenceTypeOK, Phases, Rows,
           NoRow, Nothing
<1>2. QueueTypes'
    BY DEF ProcessInv, QueueTypes, ResumeQueue, RowDispatches
<1>3. SeenInOrder'
    BY DEF ProcessInv, ProcessTypes, FenceTypeOK, ResumeQueue, RowDispatches, SeenInOrder,
           BootsInOrder, NoRow
<1>4. OpenIsOld'
    BY DEF ProcessInv, ProcessTypes, FenceTypeOK, ResumeQueue, RowDispatches, OpenIsOld,
           SeenInOrder, BootsInOrder
<1>5. BootsInOrder'
    BY DEF ProcessInv, ProcessTypes, FenceTypeOK, ResumeQueue, RowDispatches, BootsInOrder,
           NoRow, OpenIsOld
<1>6. FencedIsQuiet'
    BY DEF ProcessInv, ProcessTypes, FenceTypeOK, ResumeQueue, RowDispatches, FencedIsQuiet,
           SeenInOrder, OpenIsOld, BootsInOrder, NoRow
<1>7. RowOrLapsed'
    BY DEF ProcessInv, ProcessTypes, FenceTypeOK, ResumeQueue, RowDispatches, RowOrLapsed,
           NoRow, Phases
<1>8. QueueHolds'
    BY DEF ProcessInv, ProcessTypes, FenceTypeOK, ResumeQueue, RowDispatches, QueueHolds,
           QueueTypes, BootsInOrder, FencedIsQuiet
<1>9. ReportHolds'
    BY DEF ProcessInv, ProcessTypes, FenceTypeOK, ResumeQueue, RowDispatches, ReportHolds,
           Idles, QueueHolds, SeenInOrder, OpenIsOld, BootsInOrder, FencedIsQuiet, RowOrLapsed
<1>10. QED
    BY <1>1, <1>2, <1>3, <1>4, <1>5, <1>6, <1>7, <1>8, <1>9 DEF ProcessInv

\* Preservation: a process opens its gates.
LEMMA ReopenInv == ASSUME ProcessInv, NEW p \in Processes, Reopen(p) PROVE ProcessInv'
<1>1. ProcessTypes'
    BY DEF ProcessInv, ProcessTypes, Reopen, FenceTypeOK, Phases, Rows, NoRow, Nothing
<1>2. QueueTypes'
    BY DEF ProcessInv, QueueTypes, Reopen
<1>3. SeenInOrder'
    BY DEF ProcessInv, ProcessTypes, FenceTypeOK, Reopen, SeenInOrder, BootsInOrder, NoRow
<1>4. OpenIsOld'
    BY DEF ProcessInv, ProcessTypes, FenceTypeOK, Reopen, OpenIsOld, SeenInOrder, BootsInOrder
<1>5. BootsInOrder'
    BY DEF ProcessInv, ProcessTypes, FenceTypeOK, Reopen, BootsInOrder, NoRow, OpenIsOld
<1>6. FencedIsQuiet'
    BY DEF ProcessInv, ProcessTypes, FenceTypeOK, Reopen, FencedIsQuiet, SeenInOrder,
           OpenIsOld, BootsInOrder, NoRow
<1>7. RowOrLapsed'
    BY DEF ProcessInv, ProcessTypes, FenceTypeOK, Reopen, RowOrLapsed, NoRow, Phases
<1>8. QueueHolds'
    BY DEF ProcessInv, ProcessTypes, FenceTypeOK, Reopen, QueueHolds, QueueTypes,
           BootsInOrder, FencedIsQuiet
<1>9. ReportHolds'
    BY DEF ProcessInv, ProcessTypes, FenceTypeOK, Reopen, ReportHolds, Idles, QueueHolds,
           SeenInOrder, OpenIsOld, BootsInOrder, FencedIsQuiet, RowOrLapsed
<1>10. QED
    BY <1>1, <1>2, <1>3, <1>4, <1>5, <1>6, <1>7, <1>8, <1>9 DEF ProcessInv

\* Preservation: an open process sees an open fence.
LEMMA StillOpenInv == ASSUME ProcessInv, NEW p \in Processes, StillOpen(p) PROVE ProcessInv'
<1>1. ProcessTypes'
    BY DEF ProcessInv, ProcessTypes, StillOpen, FenceTypeOK, Phases, Rows, NoRow, Nothing
<1>2. QueueTypes'
    BY DEF ProcessInv, QueueTypes, StillOpen
<1>3. SeenInOrder'
    BY DEF ProcessInv, ProcessTypes, FenceTypeOK, StillOpen, SeenInOrder, BootsInOrder, NoRow
<1>4. OpenIsOld'
    BY DEF ProcessInv, ProcessTypes, FenceTypeOK, StillOpen, OpenIsOld, SeenInOrder,
           BootsInOrder
<1>5. BootsInOrder'
    BY DEF ProcessInv, ProcessTypes, FenceTypeOK, StillOpen, BootsInOrder, NoRow, OpenIsOld
<1>6. FencedIsQuiet'
    BY DEF ProcessInv, ProcessTypes, FenceTypeOK, StillOpen, FencedIsQuiet, SeenInOrder,
           OpenIsOld, BootsInOrder, NoRow
<1>7. RowOrLapsed'
    BY DEF ProcessInv, ProcessTypes, FenceTypeOK, StillOpen, RowOrLapsed, NoRow, Phases
<1>8. QueueHolds'
    BY DEF ProcessInv, ProcessTypes, FenceTypeOK, StillOpen, QueueHolds, QueueTypes,
           BootsInOrder, FencedIsQuiet
<1>9. ReportHolds'
    BY DEF ProcessInv, ProcessTypes, FenceTypeOK, StillOpen, ReportHolds, Idles, QueueHolds,
           SeenInOrder, OpenIsOld, BootsInOrder, FencedIsQuiet, RowOrLapsed
<1>10. QED
    BY <1>1, <1>2, <1>3, <1>4, <1>5, <1>6, <1>7, <1>8, <1>9 DEF ProcessInv

\* Preservation: a process writes its heartbeat.
LEMMA BeatInv == ASSUME ProcessInv, NEW p \in Processes, Beat(p) PROVE ProcessInv'
<1>1. ProcessTypes'
    BY DEF ProcessInv, ProcessTypes, Beat, WriteRow, FenceTypeOK, Phases, Rows, NoRow, Nothing
<1>2. QueueTypes'
    BY DEF ProcessInv, QueueTypes, Beat, WriteRow
<1>3. SeenInOrder'
    BY DEF ProcessInv, ProcessTypes, FenceTypeOK, Beat, WriteRow, SeenInOrder, BootsInOrder,
           NoRow
<1>4. OpenIsOld'
    BY DEF ProcessInv, ProcessTypes, FenceTypeOK, Beat, WriteRow, OpenIsOld, SeenInOrder,
           BootsInOrder
<1>5. BootsInOrder'
    BY DEF ProcessInv, ProcessTypes, FenceTypeOK, Beat, WriteRow, BootsInOrder, NoRow, OpenIsOld
<1>6. FencedIsQuiet'
    BY DEF ProcessInv, ProcessTypes, FenceTypeOK, Beat, WriteRow, FencedIsQuiet, SeenInOrder,
           OpenIsOld, BootsInOrder, NoRow
<1>7. RowOrLapsed'
    BY DEF ProcessInv, ProcessTypes, FenceTypeOK, Beat, WriteRow, RowOrLapsed, NoRow, Phases
<1>8. QueueHolds'
    BY DEF ProcessInv, ProcessTypes, FenceTypeOK, Beat, WriteRow, QueueHolds, QueueTypes,
           BootsInOrder, FencedIsQuiet
<1>9. ReportHolds'
    BY DEF ProcessInv, ProcessTypes, FenceTypeOK, Beat, WriteRow, ReportHolds, Idles,
           QueueHolds, SeenInOrder, OpenIsOld, BootsInOrder, FencedIsQuiet, RowOrLapsed
<1>10. QED
    BY <1>1, <1>2, <1>3, <1>4, <1>5, <1>6, <1>7, <1>8, <1>9 DEF ProcessInv

\* Preservation: an observation fails half way.
LEMMA SyncFailsInv == ASSUME ProcessInv, NEW p \in Processes, SyncFails(p) PROVE ProcessInv'
<1>1. ProcessTypes'
    BY DEF ProcessInv, ProcessTypes, SyncFails, FenceTypeOK, Phases, Rows, NoRow, Nothing
<1>2. QueueTypes'
    BY DEF ProcessInv, QueueTypes, SyncFails
<1>3. SeenInOrder'
    BY DEF ProcessInv, ProcessTypes, FenceTypeOK, SyncFails, SeenInOrder, BootsInOrder, NoRow
<1>4. OpenIsOld'
    BY DEF ProcessInv, ProcessTypes, FenceTypeOK, SyncFails, OpenIsOld, SeenInOrder,
           BootsInOrder
<1>5. BootsInOrder'
    BY DEF ProcessInv, ProcessTypes, FenceTypeOK, SyncFails, BootsInOrder, NoRow, OpenIsOld
<1>6. FencedIsQuiet'
    BY DEF ProcessInv, ProcessTypes, FenceTypeOK, SyncFails, FencedIsQuiet, SeenInOrder,
           OpenIsOld, BootsInOrder, NoRow
<1>7. RowOrLapsed'
    BY DEF ProcessInv, ProcessTypes, FenceTypeOK, SyncFails, RowOrLapsed, NoRow, Phases
<1>8. QueueHolds'
    BY DEF ProcessInv, ProcessTypes, FenceTypeOK, SyncFails, QueueHolds, QueueTypes,
           BootsInOrder, FencedIsQuiet
<1>9. ReportHolds'
    BY DEF ProcessInv, ProcessTypes, FenceTypeOK, SyncFails, ReportHolds, Idles, QueueHolds,
           SeenInOrder, OpenIsOld, BootsInOrder, FencedIsQuiet, RowOrLapsed
<1>10. QED
    BY <1>1, <1>2, <1>3, <1>4, <1>5, <1>6, <1>7, <1>8, <1>9 DEF ProcessInv

\* Preservation: the queue cannot be resumed.
LEMMA ResumeFailsInv == ASSUME ProcessInv, NEW p \in Processes, ResumeFails(p) PROVE ProcessInv'
<1>1. ProcessTypes'
    BY DEF ProcessInv, ProcessTypes, ResumeFails, FenceTypeOK, Phases, Rows, NoRow, Nothing
<1>2. QueueTypes'
    BY DEF ProcessInv, QueueTypes, ResumeFails
<1>3. SeenInOrder'
    BY DEF ProcessInv, ProcessTypes, FenceTypeOK, ResumeFails, SeenInOrder, BootsInOrder, NoRow
<1>4. OpenIsOld'
    BY DEF ProcessInv, ProcessTypes, FenceTypeOK, ResumeFails, OpenIsOld, SeenInOrder,
           BootsInOrder
<1>5. BootsInOrder'
    BY DEF ProcessInv, ProcessTypes, FenceTypeOK, ResumeFails, BootsInOrder, NoRow, OpenIsOld
<1>6. FencedIsQuiet'
    BY DEF ProcessInv, ProcessTypes, FenceTypeOK, ResumeFails, FencedIsQuiet, SeenInOrder,
           OpenIsOld, BootsInOrder, NoRow
<1>7. RowOrLapsed'
    BY DEF ProcessInv, ProcessTypes, FenceTypeOK, ResumeFails, RowOrLapsed, NoRow, Phases
<1>8. QueueHolds'
    BY DEF ProcessInv, ProcessTypes, FenceTypeOK, ResumeFails, QueueHolds, QueueTypes,
           BootsInOrder, FencedIsQuiet
<1>9. ReportHolds'
    BY DEF ProcessInv, ProcessTypes, FenceTypeOK, ResumeFails, ReportHolds, Idles, QueueHolds,
           SeenInOrder, OpenIsOld, BootsInOrder, FencedIsQuiet, RowOrLapsed
<1>10. QED
    BY <1>1, <1>2, <1>3, <1>4, <1>5, <1>6, <1>7, <1>8, <1>9 DEF ProcessInv

\* Preservation: work is admitted.
LEMMA AdmitInv == ASSUME ProcessInv, NEW p \in Processes, Admit(p) PROVE ProcessInv'
<1>1. ProcessTypes'
    BY DEF ProcessInv, ProcessTypes, Admit, FenceTypeOK, Phases, Rows, NoRow, Nothing
<1>2. QueueTypes'
    BY DEF ProcessInv, QueueTypes, Admit
<1>3. SeenInOrder'
    BY DEF ProcessInv, ProcessTypes, FenceTypeOK, Admit, SeenInOrder, BootsInOrder, NoRow
<1>4. OpenIsOld'
    BY DEF ProcessInv, ProcessTypes, FenceTypeOK, Admit, OpenIsOld, SeenInOrder, BootsInOrder
<1>5. BootsInOrder'
    BY DEF ProcessInv, ProcessTypes, FenceTypeOK, Admit, BootsInOrder, NoRow, OpenIsOld
<1>6. FencedIsQuiet'
    BY DEF ProcessInv, ProcessTypes, FenceTypeOK, Admit, FencedIsQuiet, SeenInOrder,
           OpenIsOld, BootsInOrder, NoRow
<1>7. RowOrLapsed'
    BY DEF ProcessInv, ProcessTypes, FenceTypeOK, Admit, RowOrLapsed, NoRow, Phases
<1>8. QueueHolds'
    BY DEF ProcessInv, ProcessTypes, FenceTypeOK, Admit, QueueHolds, QueueTypes, BootsInOrder,
           FencedIsQuiet
<1>9. ReportHolds'
    BY DEF ProcessInv, ProcessTypes, FenceTypeOK, Admit, ReportHolds, Idles, QueueHolds,
           SeenInOrder, OpenIsOld, BootsInOrder, FencedIsQuiet, RowOrLapsed
<1>10. QED
    BY <1>1, <1>2, <1>3, <1>4, <1>5, <1>6, <1>7, <1>8, <1>9 DEF ProcessInv

\* Preservation: work ends.
LEMMA WorkEndsInv == ASSUME ProcessInv, NEW p \in Processes, WorkEnds(p) PROVE ProcessInv'
<1>1. ProcessTypes'
    BY DEF ProcessInv, ProcessTypes, WorkEnds, FenceTypeOK, Phases, Rows, NoRow, Nothing
<1>2. QueueTypes'
    BY DEF ProcessInv, QueueTypes, WorkEnds
<1>3. SeenInOrder'
    BY DEF ProcessInv, ProcessTypes, FenceTypeOK, WorkEnds, SeenInOrder, BootsInOrder, NoRow
<1>4. OpenIsOld'
    BY DEF ProcessInv, ProcessTypes, FenceTypeOK, WorkEnds, OpenIsOld, SeenInOrder, BootsInOrder
<1>5. BootsInOrder'
    BY DEF ProcessInv, ProcessTypes, FenceTypeOK, WorkEnds, BootsInOrder, NoRow, OpenIsOld
<1>6. FencedIsQuiet'
    BY DEF ProcessInv, ProcessTypes, FenceTypeOK, WorkEnds, FencedIsQuiet, SeenInOrder,
           OpenIsOld, BootsInOrder, NoRow
<1>7. RowOrLapsed'
    BY DEF ProcessInv, ProcessTypes, FenceTypeOK, WorkEnds, RowOrLapsed, NoRow, Phases
<1>8. QueueHolds'
    BY DEF ProcessInv, ProcessTypes, FenceTypeOK, WorkEnds, QueueHolds, QueueTypes,
           BootsInOrder, FencedIsQuiet
<1>9. ReportHolds'
    BY DEF ProcessInv, ProcessTypes, FenceTypeOK, WorkEnds, ReportHolds, Idles, QueueHolds,
           SeenInOrder, OpenIsOld, BootsInOrder, FencedIsQuiet, RowOrLapsed
<1>10. QED
    BY <1>1, <1>2, <1>3, <1>4, <1>5, <1>6, <1>7, <1>8, <1>9 DEF ProcessInv

\* Preservation: a process dies.
LEMMA DieInv == ASSUME ProcessInv, NEW p \in Processes, Die(p) PROVE ProcessInv'
<1>1. ProcessTypes'
    BY DEF ProcessInv, ProcessTypes, Die, FenceTypeOK, Phases, Rows, NoRow, Nothing
<1>2. QueueTypes'
    BY DEF ProcessInv, QueueTypes, Die
<1>3. SeenInOrder'
    BY DEF ProcessInv, ProcessTypes, FenceTypeOK, Die, SeenInOrder, BootsInOrder, NoRow
<1>4. OpenIsOld'
    BY DEF ProcessInv, ProcessTypes, FenceTypeOK, Die, OpenIsOld, SeenInOrder, BootsInOrder
<1>5. BootsInOrder'
    BY DEF ProcessInv, ProcessTypes, QueueTypes, BootsInOrder, Die
<1>6. FencedIsQuiet'
    BY DEF ProcessInv, ProcessTypes, FenceTypeOK, Die, FencedIsQuiet, SeenInOrder, OpenIsOld,
           BootsInOrder, NoRow
<1>7. RowOrLapsed'
    BY DEF ProcessInv, ProcessTypes, FenceTypeOK, Die, RowOrLapsed, NoRow, Phases
<1>8. QueueHolds'
    BY DEF ProcessInv, ProcessTypes, FenceTypeOK, Die, QueueHolds, QueueTypes, BootsInOrder,
           FencedIsQuiet
<1>9. ReportHolds'
    BY DEF ProcessInv, ProcessTypes, FenceTypeOK, Die, ReportHolds, Idles, QueueHolds,
           SeenInOrder, OpenIsOld, BootsInOrder, FencedIsQuiet, RowOrLapsed
<1>10. QED
    BY <1>1, <1>2, <1>3, <1>4, <1>5, <1>6, <1>7, <1>8, <1>9 DEF ProcessInv

\* Preservation: a process shuts down.
LEMMA StopInv == ASSUME ProcessInv, NEW p \in Processes, Stop(p) PROVE ProcessInv'
<1>1. ProcessTypes'
    BY DEF ProcessInv, ProcessTypes, Stop, FenceTypeOK, Phases, Rows, NoRow, Nothing
<1>2. QueueTypes'
    BY DEF ProcessInv, QueueTypes, Stop
<1>3. SeenInOrder'
    BY DEF ProcessInv, ProcessTypes, FenceTypeOK, Stop, SeenInOrder, BootsInOrder, NoRow
<1>4. OpenIsOld'
    BY DEF ProcessInv, ProcessTypes, FenceTypeOK, Stop, OpenIsOld, SeenInOrder, BootsInOrder
<1>5. BootsInOrder'
    BY DEF ProcessInv, ProcessTypes, FenceTypeOK, Stop, BootsInOrder, NoRow, OpenIsOld
<1>6. FencedIsQuiet'
    BY DEF ProcessInv, ProcessTypes, FenceTypeOK, Stop, FencedIsQuiet, SeenInOrder, OpenIsOld,
           BootsInOrder, NoRow
<1>7. RowOrLapsed'
    BY DEF ProcessInv, ProcessTypes, FenceTypeOK, Stop, RowOrLapsed, NoRow, Phases
<1>8. QueueHolds'
    BY DEF ProcessInv, ProcessTypes, FenceTypeOK, Stop, QueueHolds, QueueTypes, BootsInOrder,
           FencedIsQuiet
<1>9. ReportHolds'
    BY DEF ProcessInv, ProcessTypes, FenceTypeOK, Stop, ReportHolds, Idles, QueueHolds,
           SeenInOrder, OpenIsOld, BootsInOrder, FencedIsQuiet, RowOrLapsed
<1>10. QED
    BY <1>1, <1>2, <1>3, <1>4, <1>5, <1>6, <1>7, <1>8, <1>9 DEF ProcessInv

\* Preservation: a heartbeat goes stale.
LEMMA RowGoesStaleInv == ASSUME ProcessInv, NEW p \in Processes,
        RowGoesStale(p) PROVE ProcessInv'
<1>1. ProcessTypes'
    BY DEF ProcessInv, ProcessTypes, RowGoesStale, FenceTypeOK, Phases, Rows, NoRow, Nothing
<1>2. QueueTypes'
    BY DEF ProcessInv, QueueTypes, RowGoesStale
<1>3. SeenInOrder'
    BY DEF ProcessInv, ProcessTypes, FenceTypeOK, RowGoesStale, SeenInOrder, BootsInOrder, NoRow
<1>4. OpenIsOld'
    BY DEF ProcessInv, ProcessTypes, FenceTypeOK, RowGoesStale, OpenIsOld, SeenInOrder,
           BootsInOrder
<1>5. BootsInOrder'
    BY DEF ProcessInv, ProcessTypes, FenceTypeOK, RowGoesStale, BootsInOrder, NoRow, OpenIsOld
<1>6. FencedIsQuiet'
    BY DEF ProcessInv, ProcessTypes, FenceTypeOK, RowGoesStale, FencedIsQuiet, SeenInOrder,
           OpenIsOld, BootsInOrder, NoRow
<1>7. RowOrLapsed'
    BY DEF ProcessInv, ProcessTypes, FenceTypeOK, RowGoesStale, RowOrLapsed, NoRow, Phases
<1>8. QueueHolds'
    BY DEF ProcessInv, ProcessTypes, FenceTypeOK, RowGoesStale, QueueHolds, QueueTypes,
           BootsInOrder, FencedIsQuiet
<1>9. ReportHolds'
    BY DEF ProcessInv, ProcessTypes, FenceTypeOK, RowGoesStale, ReportHolds, Idles,
           QueueHolds, SeenInOrder, OpenIsOld, BootsInOrder, FencedIsQuiet, RowOrLapsed
<1>10. QED
    BY <1>1, <1>2, <1>3, <1>4, <1>5, <1>6, <1>7, <1>8, <1>9 DEF ProcessInv

\* Preservation: a process registers its queue.
LEMMA BeginRegisterInv == ASSUME ProcessInv, NEW p \in Processes,
        BeginRegister(p) PROVE ProcessInv'
<1>1. QueueTypes'
    BY DEF ProcessInv, QueueTypes, BeginRegister
<1>2. QueueHolds'
    BY DEF ProcessInv, QueueTypes, QueueHolds, BeginRegister
<1>3. \A q \in Processes : Idles(q) => Idles(q)'
    BY DEF ProcessInv, QueueTypes, QueueHolds, Idles, BeginRegister
<1>4. QED
    BY <1>1, <1>2, <1>3, QueueFrame DEF ProcessInv, QueueTypes, BeginRegister

\* Preservation: the registration is written.
LEMMA RegisteredInv == ASSUME ProcessInv, NEW p \in Processes, Registered(p) PROVE ProcessInv'
<1>1. QueueTypes'
    BY DEF ProcessInv, QueueTypes, Registered, RowHolds, RowDispatches
<1>2. QueueHolds'
    BY DEF ProcessInv, QueueTypes, QueueHolds, Registered, RowHolds, RowDispatches
<1>3. \A q \in Processes : Idles(q) => Idles(q)'
    BY DEF ProcessInv, QueueTypes, QueueHolds, Idles, Registered, RowHolds, RowDispatches
<1>4. QED
    BY <1>1, <1>2, <1>3, QueueFrame DEF ProcessInv, QueueTypes, Registered, RowHolds,
            RowDispatches

\* Preservation: a dispatch loop reads the row.
LEMMA LoopReadsInv == ASSUME ProcessInv, NEW p \in Processes, LoopReads(p) PROVE ProcessInv'
<1>1. QueueTypes'
    BY DEF ProcessInv, QueueTypes, LoopReads
<1>2. QueueHolds'
    BY DEF ProcessInv, QueueTypes, QueueHolds, LoopReads
<1>3. \A q \in Processes : Idles(q) => Idles(q)'
    BY DEF ProcessInv, QueueTypes, QueueHolds, Idles, LoopReads
<1>4. QED
    BY <1>1, <1>2, <1>3, QueueFrame DEF ProcessInv, QueueTypes, LoopReads

\* Preservation: a job starts.
LEMMA ClaimInv == ASSUME ProcessInv, NEW p \in Processes, Claim(p) PROVE ProcessInv'
<1>1. QueueTypes'
    BY DEF ProcessInv, QueueTypes, Claim
<1>2. QueueHolds'
    BY DEF ProcessInv, QueueTypes, QueueHolds, Claim
<1>3. \A q \in Processes : Idles(q) => Idles(q)'
    BY DEF ProcessInv, QueueTypes, QueueHolds, Idles, Claim
<1>4. QED
    BY <1>1, <1>2, <1>3, QueueFrame DEF ProcessInv, QueueTypes, Claim

\* Preservation: a job ends.
LEMMA JobEndsInv == ASSUME ProcessInv, NEW p \in Processes, JobEnds(p) PROVE ProcessInv'
<1>1. QueueTypes'
    BY DEF ProcessInv, QueueTypes, JobEnds
<1>2. QueueHolds'
    BY DEF ProcessInv, QueueTypes, QueueHolds, JobEnds
<1>3. \A q \in Processes : Idles(q) => Idles(q)'
    BY DEF ProcessInv, QueueTypes, QueueHolds, Idles, JobEnds
<1>4. QED
    BY <1>1, <1>2, <1>3, QueueFrame DEF ProcessInv, QueueTypes, JobEnds

\* Preservation: the settle window ends.
LEMMA SettleInv == ASSUME ProcessInv, NEW p \in Processes, Settle(p) PROVE ProcessInv'
<1>1. QueueTypes'
    BY DEF ProcessInv, QueueTypes, Settle
<1>2. QueueHolds'
    BY DEF ProcessInv, QueueTypes, QueueHolds, Settle
<1>3. \A q \in Processes : Idles(q) => Idles(q)'
    BY DEF ProcessInv, QueueTypes, QueueHolds, Idles, Settle
<1>4. QED
    BY <1>1, <1>2, <1>3, QueueFrame DEF ProcessInv, QueueTypes, Settle

\* The initial state satisfies the invariant.
LEMMA ProcessInitInv == RuntimeInit => ProcessInv
<1> SUFFICES ASSUME RuntimeInit PROVE ProcessInv
    OBVIOUS
<1> USE DEF RuntimeInit, FenceInit
<1>1. ProcessTypes /\ QueueTypes
    BY DEF ProcessTypes, QueueTypes, FenceTypeOK, Phases, Rows, NoRow, Nothing
<1>2. SeenInOrder /\ OpenIsOld /\ BootsInOrder /\ FencedIsQuiet /\ RowOrLapsed /\ ReportHolds
    BY DEF SeenInOrder, OpenIsOld, BootsInOrder, FencedIsQuiet, RowOrLapsed, ReportHolds, NoRow
<1>3. QueueHolds
    BY DEF QueueHolds
<1>4. QED
    BY <1>1, <1>2, <1>3 DEF ProcessInv

\* Every step preserves the invariant.
LEMMA ProcessInvStep == ProcessInv /\ [RuntimeNext]_runtimeVars => ProcessInv'
<1> SUFFICES ASSUME ProcessInv, [RuntimeNext]_runtimeVars PROVE ProcessInv'
    OBVIOUS
<1>1. CASE UNCHANGED runtimeVars
    <2>1. QueueTypes' /\ QueueHolds' /\ \A q \in Processes : Idles(q) => Idles(q)'
        BY <1>1 DEF ProcessInv, QueueTypes, QueueHolds, Idles
    <2>2. QED
        BY <1>1, <2>1, QueueFrame
<1>2. CASE QuiesceTakes \/ ResumeReleases \/ Report
    BY <1>2, MoveInv, ReportInv DEF QuiesceTakes, ResumeReleases
<1>3. ASSUME NEW p \in Processes, Boot(p) PROVE ProcessInv'
    BY <1>3, AnnounceInv, LoadFenceInv, LoadBeatInv, BeginRegisterInv, RegisteredInv, ServeInv
    DEF Boot
<1>4. ASSUME NEW p \in Processes, Sync(p) PROVE ProcessInv'
    BY <1>4, ObserveInv, EnterDrainingInv, CallPauseInv, PauseLandsInv, StillFencedInv,
       PausesEndInv, BeginReopenInv, ResumeQueueInv, ReopenInv, StillOpenInv, BeatInv DEF Sync
<1>5. ASSUME NEW p \in Processes, SyncFails(p) \/ ResumeFails(p) \/ Admit(p) \/ WorkEnds(p)
      PROVE  ProcessInv'
    BY <1>5, SyncFailsInv, ResumeFailsInv, AdmitInv, WorkEndsInv
<1>6. ASSUME NEW p \in Processes, QueueStep(p) PROVE ProcessInv'
    BY <1>6, LoopReadsInv, ClaimInv, JobEndsInv, SettleInv DEF QueueStep
<1>7. ASSUME NEW p \in Processes, Die(p) \/ Stop(p) \/ RowGoesStale(p) PROVE ProcessInv'
    BY <1>7, DieInv, StopInv, RowGoesStaleInv
<1>8. QED
    BY <1>1, <1>2, <1>3, <1>4, <1>5, <1>6, <1>7 DEF RuntimeNext, ProcessNext

\* The inductive invariant of the runtime processes.
THEOREM ProcessInvariant == RuntimeSpec => []ProcessInv
BY ProcessInitInv, ProcessInvStep, PTL DEF RuntimeSpec

\* Types (RuntimeTypeOK), for every number of processes.
THEOREM ProcessTypeCorrect == RuntimeSpec => []RuntimeTypeOK
<1>1. ProcessInv => RuntimeTypeOK
    BY DEF ProcessInv, ProcessTypes, QueueTypes, RuntimeTypeOK
<1>2. QED
    BY <1>1, ProcessInvariant, PTL

\* A complete drain that quiesce reported stays complete while its fence is held
\* (ReportMeansDrained; runtime-fence.ts:26-43, fence-operations.ts:287-301).
THEOREM DrainHolds == RuntimeSpec => []ReportMeansDrained
<1>1. ProcessInv => ReportMeansDrained
    BY DEF ProcessInv, ProcessTypes, ReportMeansDrained, ReportHolds, Idles, OpenIsOld,
           BootsInOrder, QueueHolds
<1>2. QED
    BY <1>1, ProcessInvariant, PTL
----
(***************************************************************************)
(* Both together.  A quiesce asks for one epoch and drains for that epoch  *)
(* only, so what it found is worthless at every other fence; and nobody    *)
(* but the holder of the lease gets from a complete drain to a barrier.    *)
(***************************************************************************)

\* Where a quiesce has not heard of its drain.
BeforeDrained == {"idle", "startFence", "takeFence", "fenceTaken", "startDrain", "drain"}

\* What the attempts remember of the fence: an epoch that was, and of their drain only what
\* they found; a drain of the fence that is held now was reported.
DrainsAreRemembered ==
    /\ \A a \in Attempts : asked[a] <= fenceEpoch
    /\ \A a \in Quiesces :
           /\ drained[a] => pc[a] \notin BeforeDrained
           /\ drained[a] /\ fence = "fenced" /\ asked[a] = fenceEpoch => reported = fenceEpoch
           /\ outcome[a] = "succeeded" => drained[a]

\* The quiesce that holds the lease works on the fence that is held; it takes the barrier, and
\* finds one, only after a complete drain of that fence.
HolderDrained ==
    \A a \in Quiesces : Holds(a) /\ pc[a] \in QuiescePoints \ {"startFence", "takeFence"} =>
        /\ asked[a] = fenceEpoch
        /\ pc[a] \in {"revokeSys", "revokeApp"} => drained[a]
        /\ record[a].state = "held" => reported = fenceEpoch

BarrierReported == barriers.state = "held" => reported = fenceEpoch

Link == DrainsAreRemembered /\ HolderDrained /\ BarrierReported

SystemInv == Inv /\ ProcessInv /\ Link

\* Preservation: an attempt begins, and what another one knew of the lease is over.
LEMMA AcquireLink ==
    ASSUME Inv, Link, NEW a \in Attempts, Acquire(a), UNCHANGED reported PROVE Link'
<1> USE QuiescesAssumption DEF Inv, TypeOK, LeaseTypeOK, GrantsOrdered
<1>1. DrainsAreRemembered'
    BY DEF Link, DrainsAreRemembered, Acquire, BeforeDrained
<1>2. ASSUME NEW b \in Attempts, b # a, Holds(b)' PROVE Holds(b)
    <2>1. CASE Takeable
        <3>1. leaseEpoch' = leaseEpoch + 1 /\ grant'[b] = grant[b]
            BY <1>2, <2>1 DEF Acquire, TakeLease
        <3>2. grant[b] <= leaseEpoch /\ grant[b] \in Nat /\ leaseEpoch \in Nat
            OBVIOUS
        <3>3. leaseEpoch' = grant'[b]
            BY <1>2 DEF Holds
        <3>4. QED
            BY <3>1, <3>2, <3>3
    <2>2. CASE ~Takeable
        BY <1>2, <2>2 DEF Acquire, Holds
    <2>3. QED
        BY <2>1, <2>2
<1>3. pc'[a] \notin QuiescePoints \ {"startFence", "takeFence"}
    BY DEF Acquire, QuiescePoints, AtBarriers
<1>4. HolderDrained'
    BY <1>2, <1>3 DEF Link, HolderDrained, Acquire
<1>5. BarrierReported'
    BY DEF Link, BarrierReported, Acquire
<1>6. QED
    BY <1>1, <1>4, <1>5 DEF Link

\* Preservation: the fence is taken at an epoch nobody has drained for, or kept.
LEMMA TakeFenceLink ==
    ASSUME Inv, Link, NEW a \in Quiesces, TakeFence(a), UNCHANGED reported PROVE Link'
<1> USE QuiescesAssumption DEF Inv, TypeOK, LeaseTypeOK
<1>1. OneHolder /\ \A b \in Attempts : Holds(b)' = Holds(b)
    BY GrantsGiveOneHolder, HolderStays DEF TakeFence
<1>2. ~drained[a]
    BY DEF Link, DrainsAreRemembered, TakeFence, BeforeDrained
<1>3. CASE fence = "fenced"
    <2> USE <1>3
    <2>1. DrainsAreRemembered'
        BY <1>2 DEF Link, DrainsAreRemembered, TakeFence, BeforeDrained
    <2>2. HolderDrained'
        BY <1>1 DEF OneHolder, Link, HolderDrained, BarrierReported, TakeFence
    <2>3. QED
        BY <2>1, <2>2 DEF Link, BarrierReported, TakeFence
<1>4. CASE fence # "fenced"
    <2> USE <1>4
    <2>1. NoBarriers.state # "held"
        BY DEF NoBarriers
    <2>2. DrainsAreRemembered'
        BY <1>2 DEF Link, DrainsAreRemembered, TakeFence, BeforeDrained
    <2>3. HolderDrained'
        BY <1>1, <2>1 DEF OneHolder, Link, HolderDrained, TakeFence
    <2>4. QED
        BY <2>1, <2>2, <2>3 DEF Link, BarrierReported, TakeFence
<1>5. QED
    BY <1>3, <1>4

\* Preservation: the drain of a quiesce ends, complete or at its deadline.
LEMMA WaitForDrainLink ==
    ASSUME Inv, Link, NEW a \in Quiesces, WaitForDrain(a) PROVE Link'
<1> USE QuiescesAssumption DEF Inv, TypeOK, LeaseTypeOK
<1>1. \A b \in Attempts : Holds(b)' = Holds(b)
    BY HolderStays DEF WaitForDrain, Drain
<1>2. reported' = reported \/ (fence = "fenced" /\ asked[a] = fenceEpoch /\ reported' = fenceEpoch)
    BY DEF WaitForDrain, Report, reportVars
<1>3. drained'[a] /\ fence = "fenced" /\ asked[a] = fenceEpoch => reported' = fenceEpoch
    BY DEF WaitForDrain, Report
<1>4. ~drained[a] /\ outcome[a] # "succeeded"
    BY DEF Link, DrainsAreRemembered, WaitForDrain, Drain, BeforeDrained
<1>5. DrainsAreRemembered'
    BY <1>2, <1>3, <1>4 DEF Link, DrainsAreRemembered, WaitForDrain, Drain, BeforeDrained
<1>6. HolderDrained'
    BY <1>1, <1>2 DEF Link, HolderDrained, WaitForDrain, Drain, QuiescePoints, AtBarriers
<1>7. BarrierReported'
    BY <1>2 DEF Link, BarrierReported, WaitForDrain, Drain
<1>8. QED
    BY <1>5, <1>6, <1>7 DEF Link

\* A step that changes nothing but where an attempt is, what it read, or its receipts, and does
\* not enter the way to the barrier.
LEMMA LinkFrame ==
    ASSUME Inv, Link, NEW a \in Attempts,
           UNCHANGED <<fence, fenceEpoch, barriers, asked, drained, reported>>,
           \A b \in Attempts : Holds(b)' => Holds(b),
           \A b \in Attempts : b # a => pc'[b] = pc[b] /\ record'[b] = record[b],
           pc'[a] \in BeforeDrained => pc[a] \in BeforeDrained,
           \A b \in Quiesces : outcome'[b] = "succeeded" => drained[b],
           a \in Quiesces /\ Holds(a) /\ pc'[a] \in QuiescePoints \ {"startFence", "takeFence"} =>
               /\ pc[a] \in QuiescePoints \ {"startFence", "takeFence"}
               /\ pc'[a] \in {"revokeSys", "revokeApp"} => drained[a]
               /\ record'[a].state = "held" => reported = fenceEpoch
    PROVE  Link'
<1> USE QuiescesAssumption
<1>1. DrainsAreRemembered'
    BY DEF Link, DrainsAreRemembered
<1>2. HolderDrained'
    BY DEF Link, HolderDrained
<1>3. BarrierReported'
    BY DEF Link, BarrierReported
<1>4. QED
    BY <1>1, <1>2, <1>3 DEF Link

\* Preservation: a step of a quiesce.
LEMMA QuiesceLink ==
    ASSUME Inv, Link, NEW a \in Quiesces, Quiesce(a), ~Drain(a), UNCHANGED reported PROVE Link'
<1> USE QuiescesAssumption DEF Inv, TypeOK, LeaseTypeOK
<1> DEFINE Keeps == /\ UNCHANGED leaseVars
                    /\ UNCHANGED <<fence, fenceEpoch, barriers, asked, drained, outcome>>
                    /\ \A b \in Attempts : b # a => pc'[b] = pc[b] /\ record'[b] = record[b]
<1>1. a \in Attempts /\ \A b \in Quiesces : outcome[b] = "succeeded" => drained[b]
    BY DEF Link, DrainsAreRemembered
<1>2. ASSUME Keeps,
             pc'[a] \in BeforeDrained => pc[a] \in BeforeDrained,
             Holds(a) /\ pc'[a] \in QuiescePoints \ {"startFence", "takeFence"} =>
               /\ pc[a] \in QuiescePoints \ {"startFence", "takeFence"}
               /\ pc'[a] \in {"revokeSys", "revokeApp"} => drained[a]
               /\ record'[a].state = "held" => reported = fenceEpoch
      PROVE  Link'
    <2>1. \A b \in Attempts : Holds(b)' = Holds(b)
        BY <1>2, HolderStays
    <2>2. QED
        BY <1>1, <1>2, <2>1, LinkFrame
<1> HIDE DEF Keeps
<1>3. CASE StartStep(a, "startFence", "take-fence", "takeFence")
    <2>1. Keeps
        BY <1>3, <1>1 DEF StartStep, Keeps
    <2>2. QED
        BY <1>1, <1>2, <1>3, <2>1 DEF StartStep, BeforeDrained
<1>4. CASE StartStep(a, "startDrain", "drain", "drain")
    <2>1. Keeps
        BY <1>4, <1>1 DEF StartStep, Keeps
    <2>2. QED
        BY <1>1, <1>2, <1>4, <2>1
        DEF StartStep, BeforeDrained, Link, HolderDrained, QuiescePoints
<1>5. CASE \/ FinishStep(a, "fenceTaken", "startDrain")
           \/ FinishStep(a, "drainDone", "startBarriers")
           \/ FinishStep(a, "barriersDone", "end")
    <2>1. Keeps
        BY <1>5, <1>1 DEF FinishStep, Keeps
    <2>2. QED
        BY <1>1, <1>2, <1>5, <2>1
        DEF FinishStep, BeforeDrained, Link, HolderDrained, QuiescePoints, AtBarriers
<1>6. CASE TakeFence(a)
    BY <1>6, TakeFenceLink
<1>7. CASE ChooseBarrier(a)
    <2>1. Keeps
        BY <1>7, <1>1 DEF ChooseBarrier, Keeps
    <2>2. Unavailable.state # "held"
        BY DEF Unavailable
    <2>3. QED
        BY <1>1, <1>2, <1>7, <2>1, <2>2
        DEF ChooseBarrier, BeforeDrained, Link, HolderDrained, QuiescePoints, AtBarriers
<1>8. CASE RevokeSys(a)
    <2>1. Keeps
        BY <1>8, <1>1 DEF RevokeSys, Keeps
    <2>2. QED
        BY <1>1, <1>2, <1>8, <2>1
        DEF RevokeSys, BeforeDrained, Link, HolderDrained, QuiescePoints, AtBarriers
<1>9. CASE RevokeApp(a)
    <2>1. Keeps
        BY <1>9, <1>1 DEF RevokeApp, Keeps
    <2>2. pc[a] \in QuiescePoints \ {"startFence", "takeFence"} /\ pc[a] = "revokeApp" /\ Holds(a)
        BY <1>9 DEF RevokeApp, QuiescePoints, AtBarriers
    <2>3. fence = "fenced"
        BY <2>2 DEF HolderKnows
    <2>4. drained[a] /\ asked[a] = fenceEpoch
        BY <2>2 DEF Link, HolderDrained
    <2>5. reported = fenceEpoch
        BY <2>3, <2>4 DEF Link, DrainsAreRemembered
    <2>6. pc'[a] \in {"recordBarriers", "undoThenRecord"}
        BY <1>9, <1>1 DEF RevokeApp
    <2>7. QED
        BY <1>2, <2>1, <2>2, <2>5, <2>6 DEF BeforeDrained
<1>10. CASE UndoSys(a)
    <2>1. Keeps
        BY <1>10, <1>1 DEF UndoSys, Keeps
    <2>2. QED
        BY <1>1, <1>2, <1>10, <2>1
        DEF UndoSys, BeforeDrained, Link, HolderDrained, QuiescePoints, AtBarriers
<1>11. CASE RecordBarriers(a)
    <2>1. OneHolder /\ \A b \in Attempts : Holds(b)' = Holds(b)
        BY <1>11, GrantsGiveOneHolder, HolderStays DEF RecordBarriers
    <2>2. pc'[a] = "barriersDone" /\ \A b \in Attempts : b # a => pc'[b] = pc[b]
        BY <1>11, <1>1 DEF RecordBarriers
    <2>3. DrainsAreRemembered'
        BY <1>11, <2>2 DEF RecordBarriers, Link, DrainsAreRemembered, BeforeDrained
    <2>4. HolderDrained'
        BY <1>1, <1>11, <2>1, <2>2
        DEF RecordBarriers, Link, HolderDrained, QuiescePoints, AtBarriers
    <2>5. record[a].state = "held" => reported = fenceEpoch
        BY <1>11 DEF RecordBarriers, Link, HolderDrained, QuiescePoints, AtBarriers
    <2>6. BarrierReported'
        BY <1>11, <2>5 DEF RecordBarriers, BarrierReported
    <2>7. QED
        BY <2>3, <2>4, <2>6 DEF Link
<1>12. QED
    BY <1>3, <1>4, <1>5, <1>6, <1>7, <1>8, <1>9, <1>10, <1>11 DEF Quiesce

\* Preservation: a step of a resume.
LEMMA ResumeLink ==
    ASSUME Inv, Link, NEW a \in Resumes, Resume(a), UNCHANGED reported PROVE Link'
<1> USE QuiescesAssumption DEF Inv, TypeOK, LeaseTypeOK, Resumes
<1>1. UNCHANGED <<fenceEpoch, asked, record, drained, outcome, leaseVars>>
    BY DEF Resume, ReadFence, RestoreSys, StartStep, ReleaseFence, FinishStep
<1>2. \A b \in Attempts : Holds(b)' = Holds(b)
    BY <1>1, HolderStays
<1>3. \A b \in Quiesces : pc'[b] = pc[b]
    BY DEF Resume, ReadFence, RestoreSys, StartStep, ReleaseFence, FinishStep
<1>4. fence' = "fenced" => fence = "fenced"
    BY DEF Resume, ReadFence, RestoreSys, StartStep, ReleaseFence, FinishStep
<1>5. barriers'.state = "held" => barriers.state = "held"
    BY DEF Resume, ReadFence, RestoreSys, StartStep, ReleaseFence, FinishStep, NoBarriers
<1>6. DrainsAreRemembered'
    BY <1>1, <1>3, <1>4 DEF Link, DrainsAreRemembered
<1>7. HolderDrained'
    BY <1>1, <1>2, <1>3 DEF Link, HolderDrained
<1>8. BarrierReported'
    BY <1>1, <1>5 DEF Link, BarrierReported
<1>9. QED
    BY <1>6, <1>7, <1>8 DEF Link

\* Preservation: an attempt ends, fails or dies, or its lease expires.
LEMMA EndLink ==
    ASSUME Inv, Link, UNCHANGED reported,
           Expire \/ \E a \in Attempts : Release(a) \/ Fail(a) \/ Crash(a)
    PROVE  Link'
<1> USE QuiescesAssumption DEF Inv, TypeOK, LeaseTypeOK
<1>1. CASE Expire
    <2>1. UNCHANGED <<fence, fenceEpoch, barriers, asked, record, drained, outcome, pc>>
        BY <1>1 DEF Expire
    <2>2. \A b \in Attempts : ~Holds(b)'
        BY <1>1 DEF Expire, LeaseExpires, Holds
    <2>3. QED
        BY <2>1, <2>2 DEF Link, DrainsAreRemembered, HolderDrained, BarrierReported
<1>2. ASSUME NEW a \in Attempts, Release(a) PROVE Link'
    <2>1. UNCHANGED <<fence, fenceEpoch, barriers, asked, record, drained>>
        BY <1>2 DEF Release
    <2>2. \A b \in Attempts : ~Holds(b)'
        BY <1>2 DEF Release, FreeLease, Holds
    <2>3. \A b \in Attempts : pc'[b] = pc[b] \/ pc'[b] = "done"
        BY <1>2 DEF Release
    <2>4. \A b \in Quiesces : outcome'[b] = "succeeded" => drained[b]
        BY <1>2 DEF Release, Resumes, Link, DrainsAreRemembered
    <2>5. QED
        BY <2>1, <2>2, <2>3, <2>4
        DEF Link, DrainsAreRemembered, HolderDrained, BarrierReported, BeforeDrained
<1>3. ASSUME NEW a \in Attempts, Fail(a) \/ Crash(a) PROVE Link'
    <2>1. UNCHANGED <<fence, fenceEpoch, barriers, asked, record, drained, outcome, leaseVars>>
        BY <1>3 DEF Fail, Crash
    <2>2. \A b \in Attempts : Holds(b)' = Holds(b)
        BY <2>1, HolderStays
    <2>3. \A b \in Attempts :
              \/ pc'[b] = pc[b]
              \/ pc'[b] \in {"done", "dead", "fail"}
              \/ pc[b] = "revokeApp" /\ pc'[b] = "undoThenFail"
        BY <1>3 DEF Fail, Crash
    <2>4. DrainsAreRemembered'
        BY <2>1, <2>3 DEF Link, DrainsAreRemembered, BeforeDrained
    <2>5. HolderDrained'
        BY <2>1, <2>2, <2>3 DEF Link, HolderDrained, QuiescePoints, AtBarriers
    <2>6. QED
        BY <2>1, <2>4, <2>5 DEF Link, BarrierReported
<1>4. QED
    BY <1>1, <1>2, <1>3

\* The initial state.
LEMMA SystemInitInv == SystemInit => SystemInv
<1> SUFFICES ASSUME SystemInit PROVE SystemInv
    OBVIOUS
<1>1. Inv /\ ProcessInv
    BY InitInv, ProcessInitInv DEF SystemInit
<1>2. Link
    BY QuiescesAssumption
    DEF SystemInit, Init, LeaseInit, RuntimeInit, Link, DrainsAreRemembered, HolderDrained,
        BarrierReported, NoBarriers, BeforeDrained, Holds, QuiescePoints, AtBarriers
<1>3. QED
    BY <1>1, <1>2 DEF SystemInv

\* Every step of the operations or of the processes preserves the invariant.
LEMMA SystemInvStep == SystemInv /\ [SystemNext]_systemVars => SystemInv'
<1> SUFFICES ASSUME SystemInv, [SystemNext]_systemVars PROVE SystemInv'
    OBVIOUS
<1>1. Inv /\ ProcessInv /\ Link
    BY DEF SystemInv
<1>2. ASSUME UNCHANGED vars PROVE Inv' /\ (UNCHANGED reported => Link')
    <2>1. Inv'
        BY <1>1, <1>2, InvStep
    <2>2. ASSUME UNCHANGED reported PROVE Link'
        BY <1>1, <1>2, <2>2
        DEF Link, DrainsAreRemembered, HolderDrained, BarrierReported, Holds
    <2>3. QED
        BY <2>1, <2>2
<1>3. CASE UNCHANGED systemVars
    <2>1. UNCHANGED vars /\ UNCHANGED reported
        BY <1>3 DEF systemVars, reportVars
    <2>2. UNCHANGED runtimeVars
        BY <1>3 DEF systemVars, runtimeVars, vars
    <2>3. ProcessInv'
        BY <1>1, <2>2, ProcessInvStep
    <2>4. QED
        BY <1>2, <2>1, <2>3 DEF SystemInv
<1>4. CASE OperationStep
    <2>1. Next /\ UNCHANGED <<processVars, reportVars>> /\ UNCHANGED reported
          /\ \A a \in Quiesces : ~Drain(a)
        BY <1>4 DEF OperationStep, reportVars
    <2>2. Inv'
        BY <1>1, <2>1, InvStep
    <2>3. FenceTaken \/ FenceReleased \/ UNCHANGED <<fence, fenceEpoch>>
        BY <1>1, <2>1, FenceMoves
    <2>4. ProcessInv'
        <3>1. CASE FenceTaken \/ FenceReleased
            BY <1>1, <2>1, <3>1, MoveInv
        <3>2. CASE UNCHANGED <<fence, fenceEpoch>>
            <4>1. UNCHANGED runtimeVars
                BY <2>1, <3>2 DEF runtimeVars
            <4>2. QED
                BY <1>1, <4>1, ProcessInvStep
        <3>3. QED
            BY <2>3, <3>1, <3>2
    <2>5. Link'
        BY <1>1, <2>1, AcquireLink, QuiesceLink, ResumeLink, EndLink DEF Next
    <2>6. QED
        BY <2>2, <2>4, <2>5 DEF SystemInv
<1>5. ASSUME NEW a \in Quiesces, WaitForDrain(a) PROVE SystemInv'
    <2>1. Next
        BY <1>5 DEF WaitForDrain, Next, Quiesce
    <2>2. Inv'
        BY <1>1, <2>1, InvStep
    <2>3. UNCHANGED <<fence, fenceEpoch>>
        BY <1>5 DEF WaitForDrain, Drain
    <2>4. Report \/ UNCHANGED <<processVars, reportVars>>
        BY <1>5 DEF WaitForDrain
    <2>5. ProcessInv'
        <3>1. CASE Report
            BY <1>1, <3>1, ReportInv
        <3>2. CASE UNCHANGED <<processVars, reportVars>>
            <4>1. UNCHANGED runtimeVars
                BY <2>3, <3>2 DEF runtimeVars
            <4>2. QED
                BY <1>1, <4>1, ProcessInvStep
        <3>3. QED
            BY <2>4, <3>1, <3>2
    <2>6. QED
        BY <1>1, <1>5, <2>2, <2>5, WaitForDrainLink DEF SystemInv
<1>6. CASE ProcessStep
    <2>1. UNCHANGED vars /\ RuntimeNext
        BY <1>6 DEF ProcessStep, RuntimeNext
    <2>2. UNCHANGED reported
        BY <1>6
        DEF ProcessStep, ProcessNext, Boot, Sync, QueueStep, reportVars, Announce, LoadFence,
            LoadBeat, BeginRegister, Registered, Serve, Observe, EnterDraining, CallPause,
            PauseLands, StillFenced, PausesEnd, BeginReopen, ResumeQueue, Reopen, StillOpen, Beat,
            SyncFails, ResumeFails, Admit, WorkEnds, LoopReads, Claim, JobEnds, Settle, Die, Stop,
            RowGoesStale
    <2>3. ProcessInv'
        BY <1>1, <2>1, ProcessInvStep
    <2>4. QED
        BY <1>2, <2>1, <2>2, <2>3 DEF SystemInv
<1>7. QED
    BY <1>3, <1>4, <1>5, <1>6 DEF SystemNext

\* The inductive invariant of the operations and the processes together.
THEOREM SystemInvariant == SystemSpec => []SystemInv
BY SystemInitInv, SystemInvStep, PTL DEF SystemSpec

\* Under the operations of fence-operations.ts, with every crash, retry and expired lease, a
\* reported drain stays complete while its fence is held (ReportMeansDrained).
THEOREM DrainHoldsInSystem == SystemSpec => []ReportMeansDrained
<1>1. SystemInv => ReportMeansDrained
    BY DEF SystemInv, ProcessInv, ProcessTypes, ReportMeansDrained, ReportHolds, Idles, OpenIsOld,
           BootsInOrder, QueueHolds
<1>2. QED
    BY <1>1, SystemInvariant, PTL

\* A quiesce that reports success drained the fence that is held, and it is drained still
\* (SuccessMeansDrained; fence-operations.ts:517-527, 561).
THEOREM SuccessIsDrained == SystemSpec => []SuccessMeansDrained
<1>1. SystemInv /\ ReportMeansDrained => SuccessMeansDrained
    BY DEF SystemInv, Link, DrainsAreRemembered, SuccessMeansDrained
<1>2. QED
    BY <1>1, SystemInvariant, DrainHoldsInSystem, PTL

\* The privileges are revoked for good only behind a fence that is held and drained
\* (BarrierMeansDrained; fence-operations.ts:528-537).
THEOREM BarrierIsDrained == SystemSpec => []BarrierMeansDrained
<1>1. NoBarriers.state # "held"
    BY DEF NoBarriers
<1>2. SystemInv /\ ReportMeansDrained => BarrierMeansDrained
    BY <1>1 DEF SystemInv, Inv, TypeOK, OpenFenceHasNoRecord, Link, BarrierReported,
                BarrierMeansDrained
<1>3. QED
    BY <1>2, SystemInvariant, DrainHoldsInSystem, PTL

====
