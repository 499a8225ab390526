---------------------------- MODULE MCCronTrigger ----------------------------
\* One process with two fires at work at once, or two processes with none.
EXTENDS CronTrigger

CONSTANTS p1, p2, f1, f2

MCOne == {p1}
MCTwo == {p1, p2}
MCFires == {f1, f2}
MCNoFires == {}
MCFired == {1}
==============================================================================
