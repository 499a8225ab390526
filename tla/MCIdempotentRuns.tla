--------------------------- MODULE MCIdempotentRuns ---------------------------
(* Model values for the instances of IdempotentRuns that TLC checks.        *)
EXTENDS IdempotentRuns, TLC

CONSTANTS q1, q2, ask, other, p1, p2

MCRequests == {q1, q2}
MCProcesses == {p1, p2}
MCBodies   == {ask, other}
MCFaults   == {"deadline", "crash", "dbRead", "dbWrite"}
MCDeadline == {"deadline"}
MCNone     == {}
MCSymmetry == Permutations(MCRequests) \cup Permutations(MCBodies) \cup Permutations(MCProcesses)

===============================================================================
