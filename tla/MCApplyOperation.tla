---- MODULE MCApplyOperation ----
\* Two attempts under one idempotency key, an apply of another plan that cannot be
\* observed, and an operator who resolves what an apply left open.
EXTENDS ApplyOperation, TLC

CONSTANTS a1, a2, b1, v, keyed, other, resolution

MCAttempts == {a1, a2, b1, v}
MCOperations == {keyed, other, resolution}
MCOperationOf ==
    [x \in MCAttempts |-> CASE x \in {a1, a2} -> keyed [] x = b1 -> other [] x = v -> resolution]
MCPlan ==
    [o \in MCOperations |-> CASE o = keyed -> <<"observed", "transaction">>
                              [] o = other -> <<"blind">>
                              [] o = resolution -> <<>>]
MCResolvers == {v}

\* The two attempts under one key are interchangeable.
MCSymmetry == Permutations({a1, a2})
====
