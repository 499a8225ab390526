---- MODULE CronTriggerProofs ----
(***************************************************************************)
(* Proofs about the fires of a cron trigger, for any number of processes,  *)
(* slots and fires at once: a slot is dispatched at most once, a reserved  *)
(* slot is accounted for, and run headers follow the engine's jobs.        *)
(***************************************************************************)
EXTENDS CronTrigger, TLAPS

\* A slot nobody reserved is untouched; the engine's job of a slot is its dispatch.
SlotsInOrder ==
    \A s \in Slots :
        /\ marker[s] = "none" => dispatches[s] = 0 /\ s \notin job /\ header[s] = "none"
        /\ s \in job => dispatches[s] = 1 /\ header[s] # "withdrawn"
        /\ dispatches[s] \in {0, 1}

\* One fire holds a slot between its reserve and the end of its dispatch.
OneHolderOfASlot ==
    \A f, g \in AtWork :
        /\ fire[f].pc \in Winning /\ fire[g].pc \in Winning
        /\ fire[f].slot = fire[g].slot
        => f = g

\* What the slot of a holder looks like at each of its steps.
Holds(f) ==
    LET s == fire[f].slot IN
    /\ marker[s] = Kind(f)
    /\ fire[f].pc \in {"reserved", "enqueue"} => dispatches[s] = 0 /\ s \notin job
    /\ fire[f].pc = "reserved" => header[s] = "none"
    /\ fire[f].pc = "enqueue" =>
        header[s] = "none" \/ (header[s] = "enqueued" /\ fire[f].created)
    /\ fire[f].pc = "probe" => s \in job \/ s \in lapsed
    /\ fire[f].pc = "withdraw" => s \notin job /\ s \in lapsed

HoldersInOrder == \A f \in AtWork : fire[f].pc \in Winning => Holds(f)

\* A loop that is about to write its watermark has started a slot that was due.
LoopsInOrder == \A p \in Processes : loop[p] = "writing" => lastExec[p] < clock

Inv ==
    /\ TypeOK
    /\ LoopsInOrder
    /\ SlotsInOrder
    /\ OneHolderOfASlot
    /\ HoldersInOrder
    /\ ReservedMeansDispatched
    /\ HeadersFollowJobs

USE DEF vars, schedule, setup, runs, history

\* The fires at work have a record of the type.
LEMMA FireTypes ==
    ASSUME TypeOK, NEW f \in AtWork
    PROVE  f \in Fires /\ fire[f] \in FireSet /\ fire[f].slot \in Slots
BY DEF TypeOK, AtWork, FireSet

\* Preservation: RunBody.
LEMMA RunBodyInv == ASSUME Inv, NEW s \in Fired, NEW f \in Fires, RunBody(f, s) PROVE Inv'
<1>0. NoFire \notin FireSet
    BY CronAssumption DEF CronAssumption
<1>t. s \in Slots
    BY CronAssumption DEF CronAssumption
<1>1. TypeOK'
    <2>1. fire' \in [Fires -> FireSet \union {NoFire}]
        BY <1>t DEF Inv, TypeOK, FireSet, FireSteps, Slots, RunBody, Begins
    <2> QED
        BY <1>t, <2>1 DEF Inv, TypeOK, RunBody
<1>2. SlotsInOrder'
    BY <1>0, <1>t
    DEF Inv, TypeOK, SlotsInOrder, HoldersInOrder, Holds, AtWork, Winning, FireSteps, Kind,
        FireSet, RunBody, Begins
<1>3. OneHolderOfASlot'
    BY <1>0, <1>t
    DEF Inv, TypeOK, OneHolderOfASlot, HoldersInOrder, Holds, AtWork, Winning, FireSteps, Kind,
        FireSet, RunBody, Begins
<1>4. HoldersInOrder'
    BY <1>0, <1>t
    DEF Inv, TypeOK, SlotsInOrder, OneHolderOfASlot, HoldersInOrder, Holds, AtWork, Winning,
        FireSteps, Kind, FireSet, RunBody, Begins
<1>5. ReservedMeansDispatched'
    BY <1>0, <1>t
    DEF Inv, TypeOK, SlotsInOrder, OneHolderOfASlot, HoldersInOrder, Holds,
        ReservedMeansDispatched, HeadersFollowJobs, AtWork, Winning, FireSteps, Holders, Kind,
        FireSet, RunBody, Begins
<1>6. HeadersFollowJobs'
    BY <1>0, <1>t
    DEF Inv, TypeOK, SlotsInOrder, OneHolderOfASlot, HoldersInOrder, Holds,
        ReservedMeansDispatched, HeadersFollowJobs, AtWork, Winning, FireSteps, Holders, Kind,
        FireSet, RunBody, Begins
<1>7. LoopsInOrder'
    BY DEF Inv, LoopsInOrder, RunBody
<1>8. QED
    BY <1>1, <1>2, <1>3, <1>4, <1>5, <1>6, <1>7 DEF Inv

\* Preservation: FireNow.
LEMMA FireNowInv == ASSUME Inv, NEW s \in Fired, NEW f \in Fires, FireNow(f, s) PROVE Inv'
<1>0. NoFire \notin FireSet
    BY CronAssumption DEF CronAssumption
<1>t. s \in Slots
    BY CronAssumption DEF CronAssumption
<1>1. TypeOK'
    <2>1. fire' \in [Fires -> FireSet \union {NoFire}]
        BY <1>t DEF Inv, TypeOK, FireSet, FireSteps, Slots, FireNow, Begins
    <2> QED
        BY <1>t, <2>1 DEF Inv, TypeOK, FireNow
<1>2. SlotsInOrder'
    BY <1>0, <1>t
    DEF Inv, TypeOK, SlotsInOrder, HoldersInOrder, Holds, AtWork, Winning, FireSteps, Kind,
        FireSet, FireNow, Begins
<1>3. OneHolderOfASlot'
    BY <1>0, <1>t
    DEF Inv, TypeOK, OneHolderOfASlot, HoldersInOrder, Holds, AtWork, Winning, FireSteps, Kind,
        FireSet, FireNow, Begins
<1>4. HoldersInOrder'
    BY <1>0, <1>t
    DEF Inv, TypeOK, SlotsInOrder, OneHolderOfASlot, HoldersInOrder, Holds, AtWork, Winning,
        FireSteps, Kind, FireSet, FireNow, Begins
<1>5. ReservedMeansDispatched'
    BY <1>0, <1>t
    DEF Inv, TypeOK, SlotsInOrder, OneHolderOfASlot, HoldersInOrder, Holds,
        ReservedMeansDispatched, HeadersFollowJobs, AtWork, Winning, FireSteps, Holders, Kind,
        FireSet, FireNow, Begins
<1>6. HeadersFollowJobs'
    BY <1>0, <1>t
    DEF Inv, TypeOK, SlotsInOrder, OneHolderOfASlot, HoldersInOrder, Holds,
        ReservedMeansDispatched, HeadersFollowJobs, AtWork, Winning, FireSteps, Holders, Kind,
        FireSet, FireNow, Begins
<1>7. LoopsInOrder'
    BY DEF Inv, LoopsInOrder, FireNow
<1>8. QED
    BY <1>1, <1>2, <1>3, <1>4, <1>5, <1>6, <1>7 DEF Inv

\* Preservation: TenantAbsent.
LEMMA TenantAbsentInv == ASSUME Inv, NEW f \in Fires, TenantAbsent(f) PROVE Inv'
<1>0. NoFire \notin FireSet
    BY CronAssumption DEF CronAssumption
<1>t. f \in AtWork /\ fire[f] \in FireSet /\ fire[f].slot \in Slots
    <2>1. f \in AtWork
        BY DEF AtWork, TenantAbsent, At, Ends, FireSet, Slots, Inv
    <2> QED
        BY <2>1, FireTypes DEF Inv
<1>1. TypeOK'
    <2>1. fire' \in [Fires -> FireSet \union {NoFire}]
        BY <1>t DEF Inv, TypeOK, FireSet, FireSteps,
            TenantAbsent, At, Ends
    <2>2. flow' \in [Slots -> {"none", "queued", "running", "ended"}]
        BY <1>t DEF Inv, TypeOK,
            TenantAbsent, At, Ends
    <2>3. /\ marker' \in [Slots -> {"none", "schedule", "demand"}]
          /\ header' \in [Slots -> {"none", "enqueued", "begun", "withdrawn"}]
        BY <1>t DEF Inv, TypeOK, Kind,
            TenantAbsent, At, Ends
    <2>4. dispatches' \in [Slots -> Nat]
        BY <1>t DEF Inv, TypeOK,
            TenantAbsent, At, Ends
    <2>5. job' \in SUBSET Slots /\ lapsed' \in SUBSET Slots /\ unprobed' \in SUBSET Slots
        BY <1>t DEF Inv, TypeOK,
            TenantAbsent, At, Ends
    <2>6. UNCHANGED <<setup, schedule>>
        BY DEF TenantAbsent, At, Ends
    <2> QED
        BY <2>1, <2>2, <2>3, <2>4, <2>5, <2>6 DEF Inv, TypeOK
<1>2. SlotsInOrder'
    BY <1>0, <1>t
    DEF Inv, TypeOK, SlotsInOrder, HoldersInOrder, Holds, AtWork, Winning, FireSteps, Kind,
        FireSet, TenantAbsent, At, Ends
<1>3. OneHolderOfASlot'
    BY <1>0, <1>t
    DEF Inv, TypeOK, OneHolderOfASlot, HoldersInOrder, Holds, AtWork, Winning, FireSteps, Kind,
        FireSet, TenantAbsent, At, Ends
<1>4. HoldersInOrder'
    BY <1>0, <1>t
    DEF Inv, TypeOK, SlotsInOrder, OneHolderOfASlot, HoldersInOrder, Holds, AtWork, Winning,
        FireSteps, Kind, FireSet, TenantAbsent, At, Ends
<1>5. ReservedMeansDispatched'
    BY <1>0, <1>t
    DEF Inv, TypeOK, SlotsInOrder, OneHolderOfASlot, HoldersInOrder, Holds,
        ReservedMeansDispatched, HeadersFollowJobs, AtWork, Winning, FireSteps, Holders, Kind,
        FireSet, TenantAbsent, At, Ends
<1>6. HeadersFollowJobs'
    BY <1>0, <1>t
    DEF Inv, TypeOK, SlotsInOrder, OneHolderOfASlot, HoldersInOrder, Holds,
        ReservedMeansDispatched, HeadersFollowJobs, AtWork, Winning, FireSteps, Holders, Kind,
        FireSet, TenantAbsent, At, Ends
<1>7. LoopsInOrder'
    BY DEF Inv, LoopsInOrder, TenantAbsent
<1>8. QED
    BY <1>1, <1>2, <1>3, <1>4, <1>5, <1>6, <1>7 DEF Inv

\* Preservation: Reserve.
LEMMA ReserveInv == ASSUME Inv, NEW f \in Fires, Reserve(f) PROVE Inv'
<1>0. NoFire \notin FireSet
    BY CronAssumption DEF CronAssumption
<1>t. f \in AtWork /\ fire[f] \in FireSet /\ fire[f].slot \in Slots
    <2>1. f \in AtWork
        BY DEF AtWork, Reserve, At, GoOn, FireSet, Slots, Inv
    <2> QED
        BY <2>1, FireTypes DEF Inv
<1>1. TypeOK'
    <2>1. fire' \in [Fires -> FireSet \union {NoFire}]
        BY <1>t DEF Inv, TypeOK, FireSet, FireSteps,
            Reserve, At, GoOn
    <2>2. flow' \in [Slots -> {"none", "queued", "running", "ended"}]
        BY <1>t DEF Inv, TypeOK,
            Reserve, At, GoOn
    <2>3. /\ marker' \in [Slots -> {"none", "schedule", "demand"}]
          /\ header' \in [Slots -> {"none", "enqueued", "begun", "withdrawn"}]
        BY <1>t DEF Inv, TypeOK, Kind,
            Reserve, At, GoOn
    <2>4. dispatches' \in [Slots -> Nat]
        BY <1>t DEF Inv, TypeOK,
            Reserve, At, GoOn
    <2>5. job' \in SUBSET Slots /\ lapsed' \in SUBSET Slots /\ unprobed' \in SUBSET Slots
        BY <1>t DEF Inv, TypeOK,
            Reserve, At, GoOn
    <2>6. UNCHANGED <<setup, schedule>>
        BY DEF Reserve, At, GoOn
    <2> QED
        BY <2>1, <2>2, <2>3, <2>4, <2>5, <2>6 DEF Inv, TypeOK
<1>2. SlotsInOrder'
    BY <1>0, <1>t
    DEF Inv, TypeOK, SlotsInOrder, HoldersInOrder, Holds, AtWork, Winning, FireSteps, Kind,
        FireSet, Reserve, At, GoOn
<1>3. OneHolderOfASlot'
    BY <1>0, <1>t
    DEF Inv, TypeOK, OneHolderOfASlot, HoldersInOrder, Holds, AtWork, Winning, FireSteps, Kind,
        FireSet, Reserve, At, GoOn
<1>4. HoldersInOrder'
    BY <1>0, <1>t
    DEF Inv, TypeOK, SlotsInOrder, OneHolderOfASlot, HoldersInOrder, Holds, AtWork, Winning,
        FireSteps, Kind, FireSet, Reserve, At, GoOn
<1>5. ReservedMeansDispatched'
    BY <1>0, <1>t
    DEF Inv, TypeOK, SlotsInOrder, OneHolderOfASlot, HoldersInOrder, Holds,
        ReservedMeansDispatched, HeadersFollowJobs, AtWork, Winning, FireSteps, Holders, Kind,
        FireSet, Reserve, At, GoOn
<1>6. HeadersFollowJobs'
    BY <1>0, <1>t
    DEF Inv, TypeOK, SlotsInOrder, OneHolderOfASlot, HoldersInOrder, Holds,
        ReservedMeansDispatched, HeadersFollowJobs, AtWork, Winning, FireSteps, Holders, Kind,
        FireSet, Reserve, At, GoOn
<1>7. LoopsInOrder'
    BY DEF Inv, LoopsInOrder, Reserve
<1>8. QED
    BY <1>1, <1>2, <1>3, <1>4, <1>5, <1>6, <1>7 DEF Inv

\* Preservation: LosesReserve.
LEMMA LosesReserveInv == ASSUME Inv, NEW f \in Fires, LosesReserve(f) PROVE Inv'
<1>0. NoFire \notin FireSet
    BY CronAssumption DEF CronAssumption
<1>t. f \in AtWork /\ fire[f] \in FireSet /\ fire[f].slot \in Slots
    <2>1. f \in AtWork
        BY DEF AtWork, LosesReserve, At, Ends, FireSet, Slots, Inv
    <2> QED
        BY <2>1, FireTypes DEF Inv
<1>1. TypeOK'
    <2>1. fire' \in [Fires -> FireSet \union {NoFire}]
        BY <1>t DEF Inv, TypeOK, FireSet, FireSteps,
            LosesReserve, At, Ends
    <2>2. flow' \in [Slots -> {"none", "queued", "running", "ended"}]
        BY <1>t DEF Inv, TypeOK,
            LosesReserve, At, Ends
    <2>3. /\ marker' \in [Slots -> {"none", "schedule", "demand"}]
          /\ header' \in [Slots -> {"none", "enqueued", "begun", "withdrawn"}]
        BY <1>t DEF Inv, TypeOK, Kind,
            LosesReserve, At, Ends
    <2>4. dispatches' \in [Slots -> Nat]
        BY <1>t DEF Inv, TypeOK,
            LosesReserve, At, Ends
    <2>5. job' \in SUBSET Slots /\ lapsed' \in SUBSET Slots /\ unprobed' \in SUBSET Slots
        BY <1>t DEF Inv, TypeOK,
            LosesReserve, At, Ends
    <2>6. UNCHANGED <<setup, schedule>>
        BY DEF LosesReserve, At, Ends
    <2> QED
        BY <2>1, <2>2, <2>3, <2>4, <2>5, <2>6 DEF Inv, TypeOK
<1>2. SlotsInOrder'
    BY <1>0, <1>t
    DEF Inv, TypeOK, SlotsInOrder, HoldersInOrder, Holds, AtWork, Winning, FireSteps, Kind,
        FireSet, LosesReserve, At, Ends
<1>3. OneHolderOfASlot'
    BY <1>0, <1>t
    DEF Inv, TypeOK, OneHolderOfASlot, HoldersInOrder, Holds, AtWork, Winning, FireSteps, Kind,
        FireSet, LosesReserve, At, Ends
<1>4. HoldersInOrder'
    BY <1>0, <1>t
    DEF Inv, TypeOK, SlotsInOrder, OneHolderOfASlot, HoldersInOrder, Holds, AtWork, Winning,
        FireSteps, Kind, FireSet, LosesReserve, At, Ends
<1>5. ReservedMeansDispatched'
    BY <1>0, <1>t
    DEF Inv, TypeOK, SlotsInOrder, OneHolderOfASlot, HoldersInOrder, Holds,
        ReservedMeansDispatched, HeadersFollowJobs, AtWork, Winning, FireSteps, Holders, Kind,
        FireSet, LosesReserve, At, Ends
<1>6. HeadersFollowJobs'
    BY <1>0, <1>t
    DEF Inv, TypeOK, SlotsInOrder, OneHolderOfASlot, HoldersInOrder, Holds,
        ReservedMeansDispatched, HeadersFollowJobs, AtWork, Winning, FireSteps, Holders, Kind,
        FireSet, LosesReserve, At, Ends
<1>7. LoopsInOrder'
    BY DEF Inv, LoopsInOrder, LosesReserve
<1>8. QED
    BY <1>1, <1>2, <1>3, <1>4, <1>5, <1>6, <1>7 DEF Inv

\* Preservation: ReserveThrows.
LEMMA ReserveThrowsInv == ASSUME Inv, NEW f \in Fires, ReserveThrows(f) PROVE Inv'
<1>0. NoFire \notin FireSet
    BY CronAssumption DEF CronAssumption
<1>t. f \in AtWork /\ fire[f] \in FireSet /\ fire[f].slot \in Slots
    <2>1. f \in AtWork
        BY DEF AtWork, ReserveThrows, At, Ends, FireSet, Slots, Inv
    <2> QED
        BY <2>1, FireTypes DEF Inv
<1>1. TypeOK'
    <2>1. fire' \in [Fires -> FireSet \union {NoFire}]
        BY <1>t DEF Inv, TypeOK, FireSet, FireSteps,
            ReserveThrows, At, Ends
    <2>2. flow' \in [Slots -> {"none", "queued", "running", "ended"}]
        BY <1>t DEF Inv, TypeOK,
            ReserveThrows, At, Ends
    <2>3. /\ marker' \in [Slots -> {"none", "schedule", "demand"}]
          /\ header' \in [Slots -> {"none", "enqueued", "begun", "withdrawn"}]
        BY <1>t DEF Inv, TypeOK, Kind,
            ReserveThrows, At, Ends
    <2>4. dispatches' \in [Slots -> Nat]
        BY <1>t DEF Inv, TypeOK,
            ReserveThrows, At, Ends
    <2>5. job' \in SUBSET Slots /\ lapsed' \in SUBSET Slots /\ unprobed' \in SUBSET Slots
        BY <1>t DEF Inv, TypeOK,
            ReserveThrows, At, Ends
    <2>6. UNCHANGED <<setup, schedule>>
        BY DEF ReserveThrows, At, Ends
    <2> QED
        BY <2>1, <2>2, <2>3, <2>4, <2>5, <2>6 DEF Inv, TypeOK
<1>2. SlotsInOrder'
    BY <1>0, <1>t
    DEF Inv, TypeOK, SlotsInOrder, HoldersInOrder, Holds, AtWork, Winning, FireSteps, Kind,
        FireSet, ReserveThrows, At, Ends
<1>3. OneHolderOfASlot'
    BY <1>0, <1>t
    DEF Inv, TypeOK, OneHolderOfASlot, HoldersInOrder, Holds, AtWork, Winning, FireSteps, Kind,
        FireSet, ReserveThrows, At, Ends
<1>4. HoldersInOrder'
    BY <1>0, <1>t
    DEF Inv, TypeOK, SlotsInOrder, OneHolderOfASlot, HoldersInOrder, Holds, AtWork, Winning,
        FireSteps, Kind, FireSet, ReserveThrows, At, Ends
<1>5. ReservedMeansDispatched'
    BY <1>0, <1>t
    DEF Inv, TypeOK, SlotsInOrder, OneHolderOfASlot, HoldersInOrder, Holds,
        ReservedMeansDispatched, HeadersFollowJobs, AtWork, Winning, FireSteps, Holders, Kind,
        FireSet, ReserveThrows, At, Ends
<1>6. HeadersFollowJobs'
    BY <1>0, <1>t
    DEF Inv, TypeOK, SlotsInOrder, OneHolderOfASlot, HoldersInOrder, Holds,
        ReservedMeansDispatched, HeadersFollowJobs, AtWork, Winning, FireSteps, Holders, Kind,
        FireSet, ReserveThrows, At, Ends
<1>7. LoopsInOrder'
    BY DEF Inv, LoopsInOrder, ReserveThrows
<1>8. QED
    BY <1>1, <1>2, <1>3, <1>4, <1>5, <1>6, <1>7 DEF Inv

\* Preservation: SkipOldSlot.
LEMMA SkipOldSlotInv == ASSUME Inv, NEW f \in Fires, SkipOldSlot(f) PROVE Inv'
<1>0. NoFire \notin FireSet
    BY CronAssumption DEF CronAssumption
<1>t. f \in AtWork /\ fire[f] \in FireSet /\ fire[f].slot \in Slots
    <2>1. f \in AtWork
        BY DEF AtWork, SkipOldSlot, At, Ends, TooOld, FireSet, Slots, Inv
    <2> QED
        BY <2>1, FireTypes DEF Inv
<1>1. TypeOK'
    <2>1. fire' \in [Fires -> FireSet \union {NoFire}]
        BY <1>t DEF Inv, TypeOK, FireSet, FireSteps,
            SkipOldSlot, At, Ends, TooOld
    <2>2. flow' \in [Slots -> {"none", "queued", "running", "ended"}]
        BY <1>t DEF Inv, TypeOK,
            SkipOldSlot, At, Ends, TooOld
    <2>3. /\ marker' \in [Slots -> {"none", "schedule", "demand"}]
          /\ header' \in [Slots -> {"none", "enqueued", "begun", "withdrawn"}]
        BY <1>t DEF Inv, TypeOK, Kind,
            SkipOldSlot, At, Ends, TooOld
    <2>4. dispatches' \in [Slots -> Nat]
        BY <1>t DEF Inv, TypeOK,
            SkipOldSlot, At, Ends, TooOld
    <2>5. job' \in SUBSET Slots /\ lapsed' \in SUBSET Slots /\ unprobed' \in SUBSET Slots
        BY <1>t DEF Inv, TypeOK,
            SkipOldSlot, At, Ends, TooOld
    <2>6. UNCHANGED <<setup, schedule>>
        BY DEF SkipOldSlot, At, Ends, TooOld
    <2> QED
        BY <2>1, <2>2, <2>3, <2>4, <2>5, <2>6 DEF Inv, TypeOK
<1>2. SlotsInOrder'
    BY <1>0, <1>t
    DEF Inv, TypeOK, SlotsInOrder, HoldersInOrder, Holds, AtWork, Winning, FireSteps, Kind,
        FireSet, SkipOldSlot, At, Ends, TooOld
<1>3. OneHolderOfASlot'
    BY <1>0, <1>t
    DEF Inv, TypeOK, OneHolderOfASlot, HoldersInOrder, Holds, AtWork, Winning, FireSteps, Kind,
        FireSet, SkipOldSlot, At, Ends, TooOld
<1>4. HoldersInOrder'
    BY <1>0, <1>t
    DEF Inv, TypeOK, SlotsInOrder, OneHolderOfASlot, HoldersInOrder, Holds, AtWork, Winning,
        FireSteps, Kind, FireSet, SkipOldSlot, At, Ends, TooOld
<1>5. ReservedMeansDispatched'
    BY <1>0, <1>t
    DEF Inv, TypeOK, SlotsInOrder, OneHolderOfASlot, HoldersInOrder, Holds,
        ReservedMeansDispatched, HeadersFollowJobs, AtWork, Winning, FireSteps, Holders, Kind,
        FireSet, SkipOldSlot, At, Ends, TooOld
<1>6. HeadersFollowJobs'
    BY <1>0, <1>t
    DEF Inv, TypeOK, SlotsInOrder, OneHolderOfASlot, HoldersInOrder, Holds,
        ReservedMeansDispatched, HeadersFollowJobs, AtWork, Winning, FireSteps, Holders, Kind,
        FireSet, SkipOldSlot, At, Ends, TooOld
<1>7. LoopsInOrder'
    BY DEF Inv, LoopsInOrder, SkipOldSlot
<1>8. QED
    BY <1>1, <1>2, <1>3, <1>4, <1>5, <1>6, <1>7 DEF Inv

\* Preservation: CallHandler.
LEMMA CallHandlerInv == ASSUME Inv, NEW f \in Fires, CallHandler(f) PROVE Inv'
<1>0. NoFire \notin FireSet
    BY CronAssumption DEF CronAssumption
<1>t. f \in AtWork /\ fire[f] \in FireSet /\ fire[f].slot \in Slots
    <2>1. f \in AtWork
        BY DEF AtWork, CallHandler, Dispatching, Dispatched, At, Ends, FireSet, Slots, Inv
    <2> QED
        BY <2>1, FireTypes DEF Inv
<1>1. TypeOK'
    <2>1. fire' \in [Fires -> FireSet \union {NoFire}]
        BY <1>t DEF Inv, TypeOK, FireSet, FireSteps,
            CallHandler, Dispatching, Dispatched, At, Ends
    <2>2. flow' \in [Slots -> {"none", "queued", "running", "ended"}]
        BY <1>t DEF Inv, TypeOK,
            CallHandler, Dispatching, Dispatched, At, Ends
    <2>3. /\ marker' \in [Slots -> {"none", "schedule", "demand"}]
          /\ header' \in [Slots -> {"none", "enqueued", "begun", "withdrawn"}]
        BY <1>t DEF Inv, TypeOK, Kind,
            CallHandler, Dispatching, Dispatched, At, Ends
    <2>4. dispatches' \in [Slots -> Nat]
        BY <1>t DEF Inv, TypeOK,
            CallHandler, Dispatching, Dispatched, At, Ends
    <2>5. job' \in SUBSET Slots /\ lapsed' \in SUBSET Slots /\ unprobed' \in SUBSET Slots
        BY <1>t DEF Inv, TypeOK,
            CallHandler, Dispatching, Dispatched, At, Ends
    <2>6. UNCHANGED <<setup, schedule>>
        BY DEF CallHandler, Dispatching, Dispatched, At, Ends
    <2> QED
        BY <2>1, <2>2, <2>3, <2>4, <2>5, <2>6 DEF Inv, TypeOK
<1>2. SlotsInOrder'
    BY <1>0, <1>t
    DEF Inv, TypeOK, SlotsInOrder, HoldersInOrder, Holds, AtWork, Winning, FireSteps, Kind,
        FireSet, CallHandler, Dispatching, Dispatched, At, Ends
<1>3. OneHolderOfASlot'
    BY <1>0, <1>t
    DEF Inv, TypeOK, OneHolderOfASlot, HoldersInOrder, Holds, AtWork, Winning, FireSteps, Kind,
        FireSet, CallHandler, Dispatching, Dispatched, At, Ends
<1>4. HoldersInOrder'
    BY <1>0, <1>t
    DEF Inv, TypeOK, SlotsInOrder, OneHolderOfASlot, HoldersInOrder, Holds, AtWork, Winning,
        FireSteps, Kind, FireSet, CallHandler, Dispatching, Dispatched, At, Ends
<1>5. ReservedMeansDispatched'
    BY <1>0, <1>t
    DEF Inv, TypeOK, SlotsInOrder, OneHolderOfASlot, HoldersInOrder, Holds,
        ReservedMeansDispatched, HeadersFollowJobs, AtWork, Winning, FireSteps, Holders, Kind,
        FireSet, CallHandler, Dispatching, Dispatched, At, Ends
<1>6. HeadersFollowJobs'
    BY <1>0, <1>t
    DEF Inv, TypeOK, SlotsInOrder, OneHolderOfASlot, HoldersInOrder, Holds,
        ReservedMeansDispatched, HeadersFollowJobs, AtWork, Winning, FireSteps, Holders, Kind,
        FireSet, CallHandler, Dispatching, Dispatched, At, Ends
<1>7. LoopsInOrder'
    BY DEF Inv, LoopsInOrder, CallHandler
<1>8. QED
    BY <1>1, <1>2, <1>3, <1>4, <1>5, <1>6, <1>7 DEF Inv

\* Preservation: HandlerThrows.
LEMMA HandlerThrowsInv == ASSUME Inv, NEW f \in Fires, HandlerThrows(f) PROVE Inv'
<1>0. NoFire \notin FireSet
    BY CronAssumption DEF CronAssumption
<1>t. f \in AtWork /\ fire[f] \in FireSet /\ fire[f].slot \in Slots
    <2>1. f \in AtWork
        BY DEF AtWork, HandlerThrows, Dispatching, At, Ends, FireSet, Slots, Inv
    <2> QED
        BY <2>1, FireTypes DEF Inv
<1>1. TypeOK'
    <2>1. fire' \in [Fires -> FireSet \union {NoFire}]
        BY <1>t DEF Inv, TypeOK, FireSet, FireSteps,
            HandlerThrows, Dispatching, At, Ends
    <2>2. flow' \in [Slots -> {"none", "queued", "running", "ended"}]
        BY <1>t DEF Inv, TypeOK,
            HandlerThrows, Dispatching, At, Ends
    <2>3. /\ marker' \in [Slots -> {"none", "schedule", "demand"}]
          /\ header' \in [Slots -> {"none", "enqueued", "begun", "withdrawn"}]
        BY <1>t DEF Inv, TypeOK, Kind,
            HandlerThrows, Dispatching, At, Ends
    <2>4. dispatches' \in [Slots -> Nat]
        BY <1>t DEF Inv, TypeOK,
            HandlerThrows, Dispatching, At, Ends
    <2>5. job' \in SUBSET Slots /\ lapsed' \in SUBSET Slots /\ unprobed' \in SUBSET Slots
        BY <1>t DEF Inv, TypeOK,
            HandlerThrows, Dispatching, At, Ends
    <2>6. UNCHANGED <<setup, schedule>>
        BY DEF HandlerThrows, Dispatching, At, Ends
    <2> QED
        BY <2>1, <2>2, <2>3, <2>4, <2>5, <2>6 DEF Inv, TypeOK
<1>2. SlotsInOrder'
    BY <1>0, <1>t
    DEF Inv, TypeOK, SlotsInOrder, HoldersInOrder, Holds, AtWork, Winning, FireSteps, Kind,
        FireSet, HandlerThrows, Dispatching, At, Ends
<1>3. OneHolderOfASlot'
    BY <1>0, <1>t
    DEF Inv, TypeOK, OneHolderOfASlot, HoldersInOrder, Holds, AtWork, Winning, FireSteps, Kind,
        FireSet, HandlerThrows, Dispatching, At, Ends
<1>4. HoldersInOrder'
    BY <1>0, <1>t
    DEF Inv, TypeOK, SlotsInOrder, OneHolderOfASlot, HoldersInOrder, Holds, AtWork, Winning,
        FireSteps, Kind, FireSet, HandlerThrows, Dispatching, At, Ends
<1>5. ReservedMeansDispatched'
    BY <1>0, <1>t
    DEF Inv, TypeOK, SlotsInOrder, OneHolderOfASlot, HoldersInOrder, Holds,
        ReservedMeansDispatched, HeadersFollowJobs, AtWork, Winning, FireSteps, Holders, Kind,
        FireSet, HandlerThrows, Dispatching, At, Ends
<1>6. HeadersFollowJobs'
    BY <1>0, <1>t
    DEF Inv, TypeOK, SlotsInOrder, OneHolderOfASlot, HoldersInOrder, Holds,
        ReservedMeansDispatched, HeadersFollowJobs, AtWork, Winning, FireSteps, Holders, Kind,
        FireSet, HandlerThrows, Dispatching, At, Ends
<1>7. LoopsInOrder'
    BY DEF Inv, LoopsInOrder, HandlerThrows
<1>8. QED
    BY <1>1, <1>2, <1>3, <1>4, <1>5, <1>6, <1>7 DEF Inv

\* Preservation: InsertHeader.
LEMMA InsertHeaderInv == ASSUME Inv, NEW f \in Fires, InsertHeader(f) PROVE Inv'
<1>0. NoFire \notin FireSet
    BY CronAssumption DEF CronAssumption
<1>t. f \in AtWork /\ fire[f] \in FireSet /\ fire[f].slot \in Slots
    <2>1. f \in AtWork
        BY DEF AtWork, InsertHeader, Dispatching, At, FireSet, Slots, Inv
    <2> QED
        BY <2>1, FireTypes DEF Inv
<1>1. TypeOK'
    <2>1. fire' \in [Fires -> FireSet \union {NoFire}]
        <3>1. PICK created \in BOOLEAN :
                fire' = [fire EXCEPT ![f] = [fire[f] EXCEPT !.pc = "enqueue", !.created = created]]
            BY <1>0, <1>t DEF Inv, TypeOK, InsertHeader
        <3>2. [fire[f] EXCEPT !.pc = "enqueue", !.created = created] \in FireSet
            BY <1>t, <3>1 DEF FireSet, FireSteps
        <3> QED
            BY <3>1, <3>2 DEF Inv, TypeOK
    <2>2. flow' \in [Slots -> {"none", "queued", "running", "ended"}]
        BY <1>t DEF Inv, TypeOK,
            InsertHeader, Dispatching, At
    <2>3. /\ marker' \in [Slots -> {"none", "schedule", "demand"}]
          /\ header' \in [Slots -> {"none", "enqueued", "begun", "withdrawn"}]
        BY <1>t DEF Inv, TypeOK, Kind,
            InsertHeader, Dispatching, At
    <2>4. dispatches' \in [Slots -> Nat]
        BY <1>t DEF Inv, TypeOK,
            InsertHeader, Dispatching, At
    <2>5. job' \in SUBSET Slots /\ lapsed' \in SUBSET Slots /\ unprobed' \in SUBSET Slots
        BY <1>t DEF Inv, TypeOK,
            InsertHeader, Dispatching, At
    <2>6. UNCHANGED <<setup, schedule>>
        BY DEF InsertHeader, Dispatching, At
    <2> QED
        BY <2>1, <2>2, <2>3, <2>4, <2>5, <2>6 DEF Inv, TypeOK
<1>2. SlotsInOrder'
    BY <1>0, <1>t
    DEF Inv, TypeOK, SlotsInOrder, HoldersInOrder, Holds, AtWork, Winning, FireSteps, Kind,
        FireSet, InsertHeader, Dispatching, At
<1>3. OneHolderOfASlot'
    BY <1>0, <1>t
    DEF Inv, TypeOK, OneHolderOfASlot, HoldersInOrder, Holds, AtWork, Winning, FireSteps, Kind,
        FireSet, InsertHeader, Dispatching, At
<1>4. HoldersInOrder'
    BY <1>0, <1>t
    DEF Inv, TypeOK, SlotsInOrder, OneHolderOfASlot, HoldersInOrder, Holds, AtWork, Winning,
        FireSteps, Kind, FireSet, InsertHeader, Dispatching, At
<1>5. ReservedMeansDispatched'
    BY <1>0, <1>t
    DEF Inv, TypeOK, SlotsInOrder, OneHolderOfASlot, HoldersInOrder, Holds,
        ReservedMeansDispatched, HeadersFollowJobs, AtWork, Winning, FireSteps, Holders, Kind,
        FireSet, InsertHeader, Dispatching, At
<1>6. HeadersFollowJobs'
    BY <1>0, <1>t
    DEF Inv, TypeOK, SlotsInOrder, OneHolderOfASlot, HoldersInOrder, Holds,
        ReservedMeansDispatched, HeadersFollowJobs, AtWork, Winning, FireSteps, Holders, Kind,
        FireSet, InsertHeader, Dispatching, At
<1>7. LoopsInOrder'
    BY DEF Inv, LoopsInOrder, InsertHeader
<1>8. QED
    BY <1>1, <1>2, <1>3, <1>4, <1>5, <1>6, <1>7 DEF Inv

\* Preservation: Enqueue.
LEMMA EnqueueInv == ASSUME Inv, NEW f \in Fires, Enqueue(f) PROVE Inv'
<1>0. NoFire \notin FireSet
    BY CronAssumption DEF CronAssumption
<1>t. f \in AtWork /\ fire[f] \in FireSet /\ fire[f].slot \in Slots
    <2>1. f \in AtWork
        BY DEF AtWork, Enqueue, Dispatched, At, Ends, FireSet, Slots, Inv
    <2> QED
        BY <2>1, FireTypes DEF Inv
<1>1. TypeOK'
    <2>1. fire' \in [Fires -> FireSet \union {NoFire}]
        BY <1>t DEF Inv, TypeOK, FireSet, FireSteps,
            Enqueue, Dispatched, At, Ends
    <2>2. flow' \in [Slots -> {"none", "queued", "running", "ended"}]
        BY <1>t DEF Inv, TypeOK,
            Enqueue, Dispatched, At, Ends
    <2>3. /\ marker' \in [Slots -> {"none", "schedule", "demand"}]
          /\ header' \in [Slots -> {"none", "enqueued", "begun", "withdrawn"}]
        BY <1>t DEF Inv, TypeOK, Kind,
            Enqueue, Dispatched, At, Ends
    <2>4. dispatches' \in [Slots -> Nat]
        BY <1>t DEF Inv, TypeOK,
            Enqueue, Dispatched, At, Ends
    <2>5. job' \in SUBSET Slots /\ lapsed' \in SUBSET Slots /\ unprobed' \in SUBSET Slots
        BY <1>t DEF Inv, TypeOK,
            Enqueue, Dispatched, At, Ends
    <2>6. UNCHANGED <<setup, schedule>>
        BY DEF Enqueue, Dispatched, At, Ends
    <2> QED
        BY <2>1, <2>2, <2>3, <2>4, <2>5, <2>6 DEF Inv, TypeOK
<1>2. SlotsInOrder'
    BY <1>0, <1>t
    DEF Inv, TypeOK, SlotsInOrder, HoldersInOrder, Holds, AtWork, Winning, FireSteps, Kind,
        FireSet, Enqueue, Dispatched, At, Ends
<1>3. OneHolderOfASlot'
    BY <1>0, <1>t
    DEF Inv, TypeOK, OneHolderOfASlot, HoldersInOrder, Holds, AtWork, Winning, FireSteps, Kind,
        FireSet, Enqueue, Dispatched, At, Ends
<1>4. HoldersInOrder'
    BY <1>0, <1>t
    DEF Inv, TypeOK, SlotsInOrder, OneHolderOfASlot, HoldersInOrder, Holds, AtWork, Winning,
        FireSteps, Kind, FireSet, Enqueue, Dispatched, At, Ends
<1>5. ReservedMeansDispatched'
    BY <1>0, <1>t
    DEF Inv, TypeOK, SlotsInOrder, OneHolderOfASlot, HoldersInOrder, Holds,
        ReservedMeansDispatched, HeadersFollowJobs, AtWork, Winning, FireSteps, Holders, Kind,
        FireSet, Enqueue, Dispatched, At, Ends
<1>6. HeadersFollowJobs'
    BY <1>0, <1>t
    DEF Inv, TypeOK, SlotsInOrder, OneHolderOfASlot, HoldersInOrder, Holds,
        ReservedMeansDispatched, HeadersFollowJobs, AtWork, Winning, FireSteps, Holders, Kind,
        FireSet, Enqueue, Dispatched, At, Ends
<1>7. LoopsInOrder'
    BY DEF Inv, LoopsInOrder, Enqueue
<1>8. QED
    BY <1>1, <1>2, <1>3, <1>4, <1>5, <1>6, <1>7 DEF Inv

\* Preservation: EnqueueThrows.
LEMMA EnqueueThrowsInv == ASSUME Inv, NEW f \in Fires, EnqueueThrows(f) PROVE Inv'
<1>0. NoFire \notin FireSet
    BY CronAssumption DEF CronAssumption
<1>t. f \in AtWork /\ fire[f] \in FireSet /\ fire[f].slot \in Slots
    <2>1. f \in AtWork
        BY DEF AtWork, EnqueueThrows, Dispatched, At, Ends, GoOn, FireSet, Slots, Inv
    <2> QED
        BY <2>1, FireTypes DEF Inv
<1>1. TypeOK'
    <2>1. fire' \in [Fires -> FireSet \union {NoFire}]
        BY <1>t DEF Inv, TypeOK, FireSet, FireSteps,
            EnqueueThrows, Dispatched, At, Ends, GoOn
    <2>2. flow' \in [Slots -> {"none", "queued", "running", "ended"}]
        BY <1>t DEF Inv, TypeOK,
            EnqueueThrows, Dispatched, At, Ends, GoOn
    <2>3. /\ marker' \in [Slots -> {"none", "schedule", "demand"}]
          /\ header' \in [Slots -> {"none", "enqueued", "begun", "withdrawn"}]
        BY <1>t DEF Inv, TypeOK, Kind,
            EnqueueThrows, Dispatched, At, Ends, GoOn
    <2>4. dispatches' \in [Slots -> Nat]
        BY <1>t DEF Inv, TypeOK,
            EnqueueThrows, Dispatched, At, Ends, GoOn
    <2>5. job' \in SUBSET Slots /\ lapsed' \in SUBSET Slots /\ unprobed' \in SUBSET Slots
        BY <1>t DEF Inv, TypeOK,
            EnqueueThrows, Dispatched, At, Ends, GoOn
    <2>6. UNCHANGED <<setup, schedule>>
        BY DEF EnqueueThrows, Dispatched, At, Ends, GoOn
    <2> QED
        BY <2>1, <2>2, <2>3, <2>4, <2>5, <2>6 DEF Inv, TypeOK
<1>2. SlotsInOrder'
    BY <1>0, <1>t
    DEF Inv, TypeOK, SlotsInOrder, HoldersInOrder, Holds, AtWork, Winning, FireSteps, Kind,
        FireSet, EnqueueThrows, Dispatched, At, Ends, GoOn
<1>3. OneHolderOfASlot'
    BY <1>0, <1>t
    DEF Inv, TypeOK, OneHolderOfASlot, HoldersInOrder, Holds, AtWork, Winning, FireSteps, Kind,
        FireSet, EnqueueThrows, Dispatched, At, Ends, GoOn
<1>4. HoldersInOrder'
    BY <1>0, <1>t
    DEF Inv, TypeOK, SlotsInOrder, OneHolderOfASlot, HoldersInOrder, Holds, AtWork, Winning,
        FireSteps, Kind, FireSet, EnqueueThrows, Dispatched, At, Ends, GoOn
<1>5. ReservedMeansDispatched'
    BY <1>0, <1>t
    DEF Inv, TypeOK, SlotsInOrder, OneHolderOfASlot, HoldersInOrder, Holds,
        ReservedMeansDispatched, HeadersFollowJobs, AtWork, Winning, FireSteps, Holders, Kind,
        FireSet, EnqueueThrows, Dispatched, At, Ends, GoOn
<1>6. HeadersFollowJobs'
    BY <1>0, <1>t
    DEF Inv, TypeOK, SlotsInOrder, OneHolderOfASlot, HoldersInOrder, Holds,
        ReservedMeansDispatched, HeadersFollowJobs, AtWork, Winning, FireSteps, Holders, Kind,
        FireSet, EnqueueThrows, Dispatched, At, Ends, GoOn
<1>7. LoopsInOrder'
    BY DEF Inv, LoopsInOrder, EnqueueThrows
<1>8. QED
    BY <1>1, <1>2, <1>3, <1>4, <1>5, <1>6, <1>7 DEF Inv

\* Preservation: ProbeStatus.
LEMMA ProbeStatusInv == ASSUME Inv, NEW f \in Fires, ProbeStatus(f) PROVE Inv'
<1>0. NoFire \notin FireSet
    BY CronAssumption DEF CronAssumption
<1>t. f \in AtWork /\ fire[f] \in FireSet /\ fire[f].slot \in Slots
    <2>1. f \in AtWork
        BY DEF AtWork, ProbeStatus, At, Ends, GoOn, FireSet, Slots, Inv
    <2> QED
        BY <2>1, FireTypes DEF Inv
<1>1. TypeOK'
    <2>1. fire' \in [Fires -> FireSet \union {NoFire}]
        BY <1>t DEF Inv, TypeOK, FireSet, FireSteps,
            ProbeStatus, At, Ends, GoOn
    <2>2. flow' \in [Slots -> {"none", "queued", "running", "ended"}]
        BY <1>t DEF Inv, TypeOK,
            ProbeStatus, At, Ends, GoOn
    <2>3. /\ marker' \in [Slots -> {"none", "schedule", "demand"}]
          /\ header' \in [Slots -> {"none", "enqueued", "begun", "withdrawn"}]
        BY <1>t DEF Inv, TypeOK, Kind,
            ProbeStatus, At, Ends, GoOn
    <2>4. dispatches' \in [Slots -> Nat]
        BY <1>t DEF Inv, TypeOK,
            ProbeStatus, At, Ends, GoOn
    <2>5. job' \in SUBSET Slots /\ lapsed' \in SUBSET Slots /\ unprobed' \in SUBSET Slots
        BY <1>t DEF Inv, TypeOK,
            ProbeStatus, At, Ends, GoOn
    <2>6. UNCHANGED <<setup, schedule>>
        BY DEF ProbeStatus, At, Ends, GoOn
    <2> QED
        BY <2>1, <2>2, <2>3, <2>4, <2>5, <2>6 DEF Inv, TypeOK
<1>2. SlotsInOrder'
    BY <1>0, <1>t
    DEF Inv, TypeOK, SlotsInOrder, HoldersInOrder, Holds, AtWork, Winning, FireSteps, Kind,
        FireSet, ProbeStatus, At, Ends, GoOn
<1>3. OneHolderOfASlot'
    BY <1>0, <1>t
    DEF Inv, TypeOK, OneHolderOfASlot, HoldersInOrder, Holds, AtWork, Winning, FireSteps, Kind,
        FireSet, ProbeStatus, At, Ends, GoOn
<1>4. HoldersInOrder'
    BY <1>0, <1>t
    DEF Inv, TypeOK, SlotsInOrder, OneHolderOfASlot, HoldersInOrder, Holds, AtWork, Winning,
        FireSteps, Kind, FireSet, ProbeStatus, At, Ends, GoOn
<1>5. ReservedMeansDispatched'
    BY <1>0, <1>t
    DEF Inv, TypeOK, SlotsInOrder, OneHolderOfASlot, HoldersInOrder, Holds,
        ReservedMeansDispatched, HeadersFollowJobs, AtWork, Winning, FireSteps, Holders, Kind,
        FireSet, ProbeStatus, At, Ends, GoOn
<1>6. HeadersFollowJobs'
    <2>1. CASE fire[f].slot \in job
        BY <1>0, <1>t, <2>1
        DEF Inv, TypeOK, HeadersFollowJobs, AtWork, Winning, FireSteps, Holders, FireSet,
            ProbeStatus, At, Ends
    <2>2. CASE fire[f].slot \notin job
        <3>1. \A s \in Slots : Holders(s)' = Holders(s)
            BY <1>0, <1>t, <2>2
            DEF Inv, TypeOK, AtWork, Winning, FireSteps, Holders, FireSet, ProbeStatus, At, GoOn
        <3> QED
            BY <2>2, <3>1 DEF Inv, HeadersFollowJobs, ProbeStatus
    <2> QED
        BY <2>1, <2>2
<1>7. LoopsInOrder'
    BY DEF Inv, LoopsInOrder, ProbeStatus
<1>8. QED
    BY <1>1, <1>2, <1>3, <1>4, <1>5, <1>6, <1>7 DEF Inv

\* Preservation: ProbeFails.
LEMMA ProbeFailsInv == ASSUME Inv, NEW f \in Fires, ProbeFails(f) PROVE Inv'
<1>0. NoFire \notin FireSet
    BY CronAssumption DEF CronAssumption
<1>t. f \in AtWork /\ fire[f] \in FireSet /\ fire[f].slot \in Slots
    <2>1. f \in AtWork
        BY DEF AtWork, ProbeFails, At, Ends, FireSet, Slots, Inv
    <2> QED
        BY <2>1, FireTypes DEF Inv
<1>1. TypeOK'
    <2>1. fire' \in [Fires -> FireSet \union {NoFire}]
        BY <1>t DEF Inv, TypeOK, FireSet, FireSteps,
            ProbeFails, At, Ends
    <2>2. flow' \in [Slots -> {"none", "queued", "running", "ended"}]
        BY <1>t DEF Inv, TypeOK,
            ProbeFails, At, Ends
    <2>3. /\ marker' \in [Slots -> {"none", "schedule", "demand"}]
          /\ header' \in [Slots -> {"none", "enqueued", "begun", "withdrawn"}]
        BY <1>t DEF Inv, TypeOK, Kind,
            ProbeFails, At, Ends
    <2>4. dispatches' \in [Slots -> Nat]
        BY <1>t DEF Inv, TypeOK,
            ProbeFails, At, Ends
    <2>5. job' \in SUBSET Slots /\ lapsed' \in SUBSET Slots /\ unprobed' \in SUBSET Slots
        BY <1>t DEF Inv, TypeOK,
            ProbeFails, At, Ends
    <2>6. UNCHANGED <<setup, schedule>>
        BY DEF ProbeFails, At, Ends
    <2> QED
        BY <2>1, <2>2, <2>3, <2>4, <2>5, <2>6 DEF Inv, TypeOK
<1>2. SlotsInOrder'
    BY <1>0, <1>t
    DEF Inv, TypeOK, SlotsInOrder, HoldersInOrder, Holds, AtWork, Winning, FireSteps, Kind,
        FireSet, ProbeFails, At, Ends
<1>3. OneHolderOfASlot'
    BY <1>0, <1>t
    DEF Inv, TypeOK, OneHolderOfASlot, HoldersInOrder, Holds, AtWork, Winning, FireSteps, Kind,
        FireSet, ProbeFails, At, Ends
<1>4. HoldersInOrder'
    BY <1>0, <1>t
    DEF Inv, TypeOK, SlotsInOrder, OneHolderOfASlot, HoldersInOrder, Holds, AtWork, Winning,
        FireSteps, Kind, FireSet, ProbeFails, At, Ends
<1>5. ReservedMeansDispatched'
    BY <1>0, <1>t
    DEF Inv, TypeOK, SlotsInOrder, OneHolderOfASlot, HoldersInOrder, Holds,
        ReservedMeansDispatched, HeadersFollowJobs, AtWork, Winning, FireSteps, Holders, Kind,
        FireSet, ProbeFails, At, Ends
<1>6. HeadersFollowJobs'
    BY <1>0, <1>t
    DEF Inv, TypeOK, SlotsInOrder, OneHolderOfASlot, HoldersInOrder, Holds,
        ReservedMeansDispatched, HeadersFollowJobs, AtWork, Winning, FireSteps, Holders, Kind,
        FireSet, ProbeFails, At, Ends
<1>7. LoopsInOrder'
    BY DEF Inv, LoopsInOrder, ProbeFails
<1>8. QED
    BY <1>1, <1>2, <1>3, <1>4, <1>5, <1>6, <1>7 DEF Inv

\* Preservation: WithdrawHeader.
LEMMA WithdrawHeaderInv == ASSUME Inv, NEW f \in Fires, WithdrawHeader(f) PROVE Inv'
<1>0. NoFire \notin FireSet
    BY CronAssumption DEF CronAssumption
<1>t. f \in AtWork /\ fire[f] \in FireSet /\ fire[f].slot \in Slots
    <2>1. f \in AtWork
        BY DEF AtWork, WithdrawHeader, At, Ends, FireSet, Slots, Inv
    <2> QED
        BY <2>1, FireTypes DEF Inv
<1>1. TypeOK'
    <2>1. fire' \in [Fires -> FireSet \union {NoFire}]
        BY <1>t DEF Inv, TypeOK, FireSet, FireSteps,
            WithdrawHeader, At, Ends
    <2>2. flow' \in [Slots -> {"none", "queued", "running", "ended"}]
        BY <1>t DEF Inv, TypeOK,
            WithdrawHeader, At, Ends
    <2>3. /\ marker' \in [Slots -> {"none", "schedule", "demand"}]
          /\ header' \in [Slots -> {"none", "enqueued", "begun", "withdrawn"}]
        BY <1>t DEF Inv, TypeOK, Kind,
            WithdrawHeader, At, Ends
    <2>4. dispatches' \in [Slots -> Nat]
        BY <1>t DEF Inv, TypeOK,
            WithdrawHeader, At, Ends
    <2>5. job' \in SUBSET Slots /\ lapsed' \in SUBSET Slots /\ unprobed' \in SUBSET Slots
        BY <1>t DEF Inv, TypeOK,
            WithdrawHeader, At, Ends
    <2>6. UNCHANGED <<setup, schedule>>
        BY DEF WithdrawHeader, At, Ends
    <2> QED
        BY <2>1, <2>2, <2>3, <2>4, <2>5, <2>6 DEF Inv, TypeOK
<1>2. SlotsInOrder'
    BY <1>0, <1>t
    DEF Inv, TypeOK, SlotsInOrder, HoldersInOrder, Holds, AtWork, Winning, FireSteps, Kind,
        FireSet, WithdrawHeader, At, Ends
<1>3. OneHolderOfASlot'
    BY <1>0, <1>t
    DEF Inv, TypeOK, OneHolderOfASlot, HoldersInOrder, Holds, AtWork, Winning, FireSteps, Kind,
        FireSet, WithdrawHeader, At, Ends
<1>4. HoldersInOrder'
    BY <1>0, <1>t
    DEF Inv, TypeOK, SlotsInOrder, OneHolderOfASlot, HoldersInOrder, Holds, AtWork, Winning,
        FireSteps, Kind, FireSet, WithdrawHeader, At, Ends
<1>5. ReservedMeansDispatched'
    BY <1>0, <1>t
    DEF Inv, TypeOK, SlotsInOrder, OneHolderOfASlot, HoldersInOrder, Holds,
        ReservedMeansDispatched, HeadersFollowJobs, AtWork, Winning, FireSteps, Holders, Kind,
        FireSet, WithdrawHeader, At, Ends
<1>6. HeadersFollowJobs'
    BY <1>0, <1>t
    DEF Inv, TypeOK, SlotsInOrder, OneHolderOfASlot, HoldersInOrder, Holds,
        ReservedMeansDispatched, HeadersFollowJobs, AtWork, Winning, FireSteps, Holders, Kind,
        FireSet, WithdrawHeader, At, Ends
<1>7. LoopsInOrder'
    BY DEF Inv, LoopsInOrder, WithdrawHeader
<1>8. QED
    BY <1>1, <1>2, <1>3, <1>4, <1>5, <1>6, <1>7 DEF Inv

\* Preservation: FireDies.
LEMMA FireDiesInv == ASSUME Inv, NEW f \in Fires, FireDies(f) PROVE Inv'
<1>0. NoFire \notin FireSet
    BY CronAssumption DEF CronAssumption
<1>t. f \in AtWork /\ fire[f] \in FireSet /\ fire[f].slot \in Slots
    <2>1. f \in AtWork
        BY DEF AtWork, FireDies, FireSet, Slots, Inv
    <2> QED
        BY <2>1, FireTypes DEF Inv
<1>1. TypeOK'
    <2>1. fire' \in [Fires -> FireSet \union {NoFire}]
        BY <1>t DEF Inv, TypeOK, FireSet, FireSteps,
            FireDies
    <2>2. flow' \in [Slots -> {"none", "queued", "running", "ended"}]
        BY <1>t DEF Inv, TypeOK,
            FireDies
    <2>3. /\ marker' \in [Slots -> {"none", "schedule", "demand"}]
          /\ header' \in [Slots -> {"none", "enqueued", "begun", "withdrawn"}]
        BY <1>t DEF Inv, TypeOK, Kind,
            FireDies
    <2>4. dispatches' \in [Slots -> Nat]
        BY <1>t DEF Inv, TypeOK,
            FireDies
    <2>5. job' \in SUBSET Slots /\ lapsed' \in SUBSET Slots /\ unprobed' \in SUBSET Slots
        BY <1>t DEF Inv, TypeOK,
            FireDies
    <2>6. UNCHANGED <<setup, schedule>>
        BY DEF FireDies
    <2> QED
        BY <2>1, <2>2, <2>3, <2>4, <2>5, <2>6 DEF Inv, TypeOK
<1>2. SlotsInOrder'
    BY <1>0, <1>t
    DEF Inv, TypeOK, SlotsInOrder, HoldersInOrder, Holds, AtWork, Winning, FireSteps, Kind,
        FireSet, FireDies
<1>3. OneHolderOfASlot'
    BY <1>0, <1>t
    DEF Inv, TypeOK, OneHolderOfASlot, HoldersInOrder, Holds, AtWork, Winning, FireSteps, Kind,
        FireSet, FireDies
<1>4. HoldersInOrder'
    BY <1>0, <1>t
    DEF Inv, TypeOK, SlotsInOrder, OneHolderOfASlot, HoldersInOrder, Holds, AtWork, Winning,
        FireSteps, Kind, FireSet, FireDies
<1>5. ReservedMeansDispatched'
    BY <1>0, <1>t
    DEF Inv, TypeOK, SlotsInOrder, OneHolderOfASlot, HoldersInOrder, Holds,
        ReservedMeansDispatched, HeadersFollowJobs, AtWork, Winning, FireSteps, Holders, Kind,
        FireSet, FireDies
<1>6. HeadersFollowJobs'
    BY <1>0, <1>t
    DEF Inv, TypeOK, SlotsInOrder, OneHolderOfASlot, HoldersInOrder, Holds,
        ReservedMeansDispatched, HeadersFollowJobs, AtWork, Winning, FireSteps, Holders, Kind,
        FireSet, FireDies
<1>7. LoopsInOrder'
    BY DEF Inv, LoopsInOrder, FireDies
<1>8. QED
    BY <1>1, <1>2, <1>3, <1>4, <1>5, <1>6, <1>7 DEF Inv

\* A slot that is too old stays too old (the look-back of cron-scheduler.ts).
LEMMA OldStaysOld == \A a, b, l, s \in Int : a <= b /\ a - s > l => b - s > l
OBVIOUS

\* Preservation: steps of the loops, of the engine and of the clock.
LEMMA FramedInv ==
    ASSUME Inv, TypeOK', LoopsInOrder', clock <= clock',
           UNCHANGED <<setup, marker, fire, runs, history>>
    PROVE  Inv'
<1>1. SlotsInOrder'
    BY DEF Inv, SlotsInOrder
<1>2. OneHolderOfASlot'
    BY DEF Inv, OneHolderOfASlot, AtWork
<1>3. HoldersInOrder'
    BY DEF Inv, HoldersInOrder, Holds, AtWork, Kind
<1>4. ReservedMeansDispatched'
    <2>1. \A s \in Slots : Holders(s)' = Holders(s)
        BY DEF Holders, AtWork
    <2>2. clock \in Nat /\ clock' \in Nat /\ Lookback \in Nat /\ MaxSlot \in Nat
        BY CronAssumption DEF CronAssumption, Inv, TypeOK
    <2>3. \A s \in Slots : clock - s > Lookback => clock' - s > Lookback
        <3>1. Slots \subseteq Int /\ clock \in Int /\ clock' \in Int /\ Lookback \in Int
            BY <2>2 DEF Slots
        <3>2. clock <= clock'
            OBVIOUS
        <3> QED
            BY <3>1, <3>2, OldStaysOld
    <2> QED
        BY <2>1, <2>3 DEF Inv, ReservedMeansDispatched
<1>5. HeadersFollowJobs'
    <2>1. \A s \in Slots : Holders(s)' = Holders(s)
        BY DEF Holders, AtWork
    <2> QED
        BY <2>1 DEF Inv, HeadersFollowJobs
<1> QED
    BY <1>1, <1>2, <1>3, <1>4, <1>5 DEF Inv

LEMMA LoopInv ==
    ASSUME Inv, Tick \/ (\E p \in Processes : LoopStep(p)) \/ (\E s \in Fired : PausedBody(s))
    PROVE  Inv'
<1> USE CronAssumption DEF CronAssumption
<1>1. UNCHANGED <<setup, marker, fire, runs, history>>
    BY DEF Tick, LoopStep, Boot, ReadWatermark, StartSlot, StartRefused, WriteWatermark,
           WriteFails, StopLoop, PausedBody
<1>2. clock' \in 0 .. MaxSlot /\ clock <= clock'
    BY DEF Inv, TypeOK, Tick, LoopStep, Boot, ReadWatermark, StartSlot, StartRefused,
           WriteWatermark, WriteFails, StopLoop, PausedBody
<1>3. loop' \in [Processes -> LoopStates]
    BY DEF Inv, TypeOK, LoopStates, Tick, LoopStep, Boot, ReadWatermark, StartSlot,
           StartRefused, WriteWatermark, WriteFails, StopLoop, PausedBody
<1>4. /\ lastExec' \in [Processes -> 0 .. MaxSlot]
      /\ watermark' \in 0 .. MaxSlot
    <2>1. CASE Tick \/ (\E s \in Fired : PausedBody(s))
        BY <2>1 DEF Inv, TypeOK, Tick, PausedBody
    <2>2. CASE \E p \in Processes : LoopStep(p)
        <3> PICK p \in Processes : LoopStep(p)
            BY <2>2
        <3>1. clock \in 0 .. MaxSlot /\ watermark \in 0 .. MaxSlot
              /\ lastExec \in [Processes -> 0 .. MaxSlot] /\ lastExec[p] \in 0 .. MaxSlot
            BY DEF Inv, TypeOK
        <3>0. loop[p] = "writing" => lastExec[p] + 1 \in 0 .. MaxSlot
            BY <3>1, CronAssumption DEF CronAssumption, Inv, LoopsInOrder
        <3>2. CASE WriteWatermark(p)
            <4>1. Later(watermark, lastExec[p] + 1) \in 0 .. MaxSlot
                BY <3>0, <3>1, <3>2 DEF WriteWatermark, Later
            <4> QED
                BY <3>1, <3>2, <4>1 DEF WriteWatermark
        <3>3. CASE WriteFails(p)
            BY <3>0, <3>1, <3>3 DEF WriteFails
        <3>4. CASE LoopStep(p) /\ ~WriteWatermark(p) /\ ~WriteFails(p)
            BY <3>1, <3>4 DEF LoopStep, Boot, ReadWatermark, StartSlot, StartRefused, StopLoop
        <3> QED
            BY <3>2, <3>3, <3>4
    <2> QED
        BY <2>1, <2>2
<1>5. flow' \in [Slots -> {"none", "queued", "running", "ended"}]
    <2>1. \A s : Stored(s) \in [Slots -> {"none", "queued", "running", "ended"}]
        BY DEF Inv, TypeOK, Stored
    <2>2. UNCHANGED flow \/ (\E s : flow' = Stored(s))
          \/ (\E s \in Fired : flow' = [flow EXCEPT ![s] = "ended"])
        BY DEF Tick, LoopStep, Boot, ReadWatermark, StartSlot,
               StartRefused, WriteWatermark, WriteFails, StopLoop, PausedBody
    <2> QED
        BY <2>1, <2>2 DEF Inv, TypeOK
<1>6. TypeOK'
    BY <1>1, <1>2, <1>3, <1>4, <1>5 DEF Inv, TypeOK
<1>7. LoopsInOrder'
    <2> SUFFICES ASSUME NEW q \in Processes, loop'[q] = "writing"
                 PROVE  lastExec'[q] < clock'
        BY DEF LoopsInOrder
    <2>1. clock \in Nat /\ clock' \in Nat /\ lastExec[q] \in Nat
        BY <1>2 DEF Inv, TypeOK
    <2>2. CASE Tick \/ (\E s \in Fired : PausedBody(s))
        BY <1>2, <2>1, <2>2 DEF Inv, LoopsInOrder, Tick, PausedBody
    <2>3. CASE \E p \in Processes : LoopStep(p)
        BY <2>1, <2>3 DEF Inv, TypeOK, LoopsInOrder, LoopStep, Boot, ReadWatermark, StartSlot,
           Due, StartRefused, WriteWatermark, WriteFails, StopLoop
    <2> QED
        BY <2>2, <2>3
<1> QED
    BY <1>1, <1>2, <1>6, <1>7, FramedInv

\* Preservation: a job starts its run.
LEMMA RunBeginsInv == ASSUME Inv, NEW s \in Slots, RunBegins(s) PROVE Inv'
<1>0. NoFire \notin FireSet
    BY CronAssumption DEF CronAssumption
<1>1. TypeOK'
    BY DEF Inv, TypeOK, RunBegins
<1>2. SlotsInOrder'
    BY DEF Inv, TypeOK, SlotsInOrder, RunBegins
<1>3. OneHolderOfASlot'
    BY DEF Inv, OneHolderOfASlot, RunBegins, AtWork
<1>4. HoldersInOrder'
    BY <1>0 DEF Inv, TypeOK, SlotsInOrder, HoldersInOrder, Holds, RunBegins, AtWork, Kind,
           Winning, FireSteps, FireSet
<1>5. ReservedMeansDispatched'
    BY DEF Inv, ReservedMeansDispatched, RunBegins, Holders, AtWork
<1>6. HeadersFollowJobs'
    BY DEF Inv, TypeOK, HeadersFollowJobs, RunBegins, Holders, AtWork
<1>7. LoopsInOrder'
    BY DEF Inv, LoopsInOrder, RunBegins
<1> QED
    BY <1>1, <1>2, <1>3, <1>4, <1>5, <1>6, <1>7 DEF Inv

\* The slots that exist are the ones fires are started for.
LEMMA InitInv == Init => Inv
<1> SUFFICES ASSUME Init PROVE Inv
    OBVIOUS
<1>1. AtWork = {}
    BY DEF Init, AtWork
<1>2. TypeOK
    BY CronAssumption DEF CronAssumption, Init, TypeOK, LoopStates, Slots
<1> QED
    BY <1>1, <1>2 DEF Init, Inv, LoopsInOrder, SlotsInOrder, OneHolderOfASlot, HoldersInOrder,
        ReservedMeansDispatched, HeadersFollowJobs, Holders

LEMMA StepInv == Inv /\ [Next]_vars => Inv'
<1> SUFFICES ASSUME Inv, [Next]_vars PROVE Inv'
    OBVIOUS
<1>1. CASE UNCHANGED vars
    <2>1. TypeOK' /\ LoopsInOrder' /\ clock <= clock'
        BY <1>1, CronAssumption DEF CronAssumption, Inv, TypeOK, LoopsInOrder
    <2> QED
        BY <1>1, <2>1, FramedInv
<1>2. CASE Tick \/ (\E p \in Processes : LoopStep(p)) \/ (\E s \in Fired : PausedBody(s))
    BY <1>2, LoopInv
<1>3. CASE \E s \in Fired, f \in Fires : RunBody(f, s) \/ FireNow(f, s)
    BY <1>3, RunBodyInv, FireNowInv
<1>4. CASE \E f \in Fires : FireStep(f)
    BY <1>4, TenantAbsentInv, ReserveInv, LosesReserveInv, ReserveThrowsInv, SkipOldSlotInv,
       CallHandlerInv, HandlerThrowsInv, InsertHeaderInv, EnqueueInv, EnqueueThrowsInv,
       ProbeStatusInv, ProbeFailsInv, WithdrawHeaderInv, FireDiesInv
    DEF FireStep
<1>5. CASE \E s \in Slots : RunBegins(s)
    BY <1>5, RunBeginsInv
<1> QED
    BY <1>1, <1>2, <1>3, <1>4, <1>5 DEF Next

\* The inductive invariant of the fires (cron-scheduler.ts, #dispatch): who holds a slot, and
\* what its marker, its run's header and its job look like meanwhile.
THEOREM CronInvariant == Spec => []Inv
<1>1. Init => Inv
    BY InitInv
<1>2. Inv /\ [Next]_vars => Inv'
    BY StepInv
<1> QED
    BY <1>1, <1>2, PTL DEF Spec

\* Every variable keeps its type.
THEOREM TypeCorrect == Spec => []TypeOK
<1>1. Inv => TypeOK
    BY DEF Inv
<1> QED
    BY <1>1, CronInvariant, PTL

\* No instant is dispatched twice, however many processes, recovered bodies and explicit
\* fires meet at it (cron-scheduler.ts:25-48).
THEOREM DispatchedOnceAlways == Spec => []DispatchedOnce
<1>1. Inv => DispatchedOnce
    BY DEF Inv, SlotsInOrder, DispatchedOnce
<1> QED
    BY <1>1, CronInvariant, PTL

\* A reserved instant was dispatched, is being dispatched, was lost by a fire that threw or
\* died, or was a replay older than the look-back (cron-scheduler.ts:642-739).
THEOREM ReservedIsAccounted == Spec => []ReservedMeansDispatched
<1>1. Inv => ReservedMeansDispatched
    BY DEF Inv
<1> QED
    BY <1>1, CronInvariant, PTL

\* The header a fire announces its run with follows the engine's job (cron-scheduler.ts:768-841).
THEOREM HeadersFollow == Spec => []HeadersFollowJobs
<1>1. Inv => HeadersFollowJobs
    BY DEF Inv
<1> QED
    BY <1>1, CronInvariant, PTL
====
