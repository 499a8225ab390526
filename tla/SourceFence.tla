---- MODULE SourceFence ----
(***************************************************************************)
(* What the rest of the system is promised of the source fence: it is open *)
(* or held, each taking of it has an epoch of its own, and it is never     *)
(* released in the step that takes it.  FenceOperations implements it; the *)
(* processes of RuntimeFence read it.                                      *)
(***************************************************************************)
EXTENDS Naturals

VARIABLES fence,       \* fence_state: "open" or "fenced"
          fenceEpoch   \* fence_epoch: the number of times it was taken

fenceVars == <<fence, fenceEpoch>>

FenceTypeOK ==
    /\ fence \in {"open", "fenced"}
    /\ fenceEpoch \in Nat

FenceInit ==
    /\ fence = "open"
    /\ fenceEpoch = 0

\* The take-fence step of quiesceOperation.
FenceTaken ==
    /\ fence = "open"
    /\ fence' = "fenced"
    /\ fenceEpoch' = fenceEpoch + 1

\* The release-fence step of resumeOperation.
FenceReleased ==
    /\ fence = "fenced"
    /\ fence' = "open"
    /\ UNCHANGED fenceEpoch

FenceSpec == FenceInit /\ [][FenceTaken \/ FenceReleased]_fenceVars
====
