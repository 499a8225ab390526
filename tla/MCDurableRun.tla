---------------------------- MODULE MCDurableRun ----------------------------
(* Small instances of DurableRun: two dispatches (maxRecoveryAttempts: 1    *)
(* allows one recovery), one in the process that serves the routes and one *)
(* in another worker process.  Three dispatches, two of which may compete   *)
(* for the lease of the first, where the cap itself is not the question.    *)
EXTENDS DurableRun, TLC

CONSTANTS local, remote, other

MCExec  == {local, remote}
MCLocal == {local}
MCThree == {local, remote, other}
MCNone == {}   \* every worker is a process of its own
MCSymmetry == Permutations(MCThree)
MCPairSymmetry == Permutations(MCExec)
NoFaults   == {}
CrashOnly  == {"crash"}
ReadFault  == {"dbRead"}
AllFaults  == FaultKinds

\* What the fault run tells apart.  No guard reads endSteps, phase or routePhase,
\* and neither property of that run does: two states that differ in them alone
\* have the same steps up to those three.
NothingButPhases ==
  <<header, lease, markers, content, job, worker, tool, enqueue, route, history>>
=============================================================================
