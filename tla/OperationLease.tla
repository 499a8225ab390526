---- MODULE OperationLease ----
(***************************************************************************)
(* The operation lease of one environment (operation-lease.ts): one row of *)
(* the database that says which runtime-control operation may write, at    *)
(* which fencing epoch, and whether its lifetime is over.  Operations that  *)
(* work under the lease (FenceOperations, ApplyOperation) extend this      *)
(* module; every write of theirs is a transaction that checks Holds first. *)
(*                                                                         *)
(* An attempt is one call of an operation.  A caller may retry an          *)
(* operation under the id it already used, so several attempts may share   *)
(* an operation id, and only the epoch tells them apart.                   *)
(***************************************************************************)
EXTENDS Naturals

CONSTANTS Attempts,     \* the calls made against the environment
          Operations,   \* operation ids
          OperationOf,  \* the id each attempt was called with
          NoOperation   \* lease_operation_id IS NULL

ASSUME LeaseAssumption ==
    /\ OperationOf \in [Attempts -> Operations]
    /\ NoOperation \notin Operations

VARIABLES leaseEpoch,   \* lease_epoch: increases with every grant
          leaseHolder,  \* lease_operation_id
          leaseLive,    \* lease_expires_at > clock_timestamp()
          grant         \* the epoch each attempt was granted, 0 before it was

leaseVars == <<leaseEpoch, leaseHolder, leaseLive, grant>>

LeaseTypeOK ==
    /\ leaseEpoch \in Nat
    /\ leaseHolder \in Operations \cup {NoOperation}
    /\ leaseLive \in BOOLEAN
    /\ grant \in [Attempts -> Nat]

LeaseInit ==
    /\ leaseEpoch = 0
    /\ leaseHolder = NoOperation
    /\ leaseLive = FALSE
    /\ grant = [a \in Attempts |-> 0]

\* Mutant: the guard compares the operation id only.
HoldsById(a) ==
    /\ leaseHolder = OperationOf[a]
    /\ leaseLive
    /\ grant[a] # 0

\* guard(): the row, locked for the rest of the transaction, still names this
\* operation at the epoch this attempt was granted, and has not expired.
Holds(a) ==
    /\ leaseEpoch = grant[a]
    /\ leaseHolder = OperationOf[a]
    /\ leaseLive

\* A live lease is refused to everyone, an earlier attempt of the same operation
\* included; a free or an expired one is granted.
Takeable == leaseHolder = NoOperation \/ ~leaseLive

\* acquireOperationLease(): the check and the grant under one row lock.  A holder
\* that expired is replaced, and the epoch keeps it from writing from here on.
TakeLease(a) ==
    /\ Takeable
    /\ leaseEpoch' = leaseEpoch + 1
    /\ leaseHolder' = OperationOf[a]
    /\ leaseLive' = TRUE
    /\ grant' = [grant EXCEPT ![a] = leaseEpoch + 1]

\* release(): the holder clears the row in the transaction of its outcome receipt.
FreeLease(a) ==
    /\ Holds(a)
    /\ leaseHolder' = NoOperation
    /\ leaseLive' = FALSE
    /\ UNCHANGED <<leaseEpoch, grant>>

\* The lifetime ends before the holder's timer renewed it: the process died, was
\* stalled, or could not reach the database.  A renewal in time changes nothing that
\* is modelled, and a renewal that is late is refused by the guard like any write.
LeaseExpires ==
    /\ leaseHolder # NoOperation
    /\ leaseLive
    /\ leaseLive' = FALSE
    /\ UNCHANGED <<leaseEpoch, leaseHolder, grant>>

----
\* What the lease is for: two attempts never pass the guard in one state, even when
\* they are attempts of the same operation (operation-lease.ts:316-319).
OneHolder ==
    \A a, b \in Attempts : Holds(a) /\ Holds(b) => a = b

\* The grants are distinct and none is ahead of the row; the holder's grant is the
\* row's epoch.  This is what carries OneHolder.
GrantsOrdered ==
    /\ \A a \in Attempts : grant[a] <= leaseEpoch
    /\ \A a, b \in Attempts : grant[a] = grant[b] /\ grant[a] # 0 => a = b
    /\ leaseHolder # NoOperation => leaseEpoch # 0
====
