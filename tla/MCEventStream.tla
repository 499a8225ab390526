---- MODULE MCEventStream ----
\* A transaction with two events, one of which the subscription filters out, and one with
\* a single event it wants.
EXTENDS EventStream

CONSTANTS w1, w2, wanted, other

MCWriters == {w1, w2}
MCBatch == [w \in MCWriters |-> IF w = w1 THEN <<other, wanted>> ELSE <<wanted>>]
MCTopics == {wanted, other}
MCWanted == {wanted}
MCSince == {NoCursor, 1}

====
