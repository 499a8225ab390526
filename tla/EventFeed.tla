---- MODULE EventFeed ----
(***************************************************************************)
(* What a subscription promises (event-bus.ts, subscribe.ts), without      *)
(* connections, pages or retention: from the moment a subscriber has a     *)
(* position it is handed every event it wants after it, in order and once, *)
(* unless it was told that the event is truncated.  EventStream implements *)
(* this.                                                                   *)
(***************************************************************************)
EXTENDS Naturals, Sequences

CONSTANTS Wanted,     \* the topics the subscription asks for
          NoPosition  \* before the subscriber has one

VARIABLES log,       \* the topic of every event ever committed, in their order
          position,  \* how far the subscriber was taken
          got,       \* the numbers of the events it was handed
          told       \* the highest truncation it was told of

vars == <<log, position, got, told>>

Init ==
    /\ log = <<>>
    /\ position = NoPosition
    /\ got = <<>>
    /\ told = 0

\* A transaction commits: its events follow the last one without a gap.
Publish ==
    /\ Len(log') > Len(log)
    /\ SubSeq(log', 1, Len(log)) = log
    /\ UNCHANGED <<position, got, told>>

\* Nothing the subscriber wants lies between two positions, but what it was told is gone.
Nothing(from, to) ==
    \A n \in (from + 1)..to : log[n] \in Wanted => n <= told

From == IF position = NoPosition THEN 0..Len(log) ELSE {position}

\* The next event it wants.
Deliver ==
    /\ \E from \in From, n \in 1..Len(log) :
          /\ from < n
          /\ log[n] \in Wanted
          /\ Nothing(from, n - 1)
          /\ position' = n
          /\ got' = Append(got, n)
    /\ UNCHANGED <<log, told>>

\* Its position moves over events it does not want.
Skip ==
    /\ \E from \in From, to \in 0..Len(log) :
          /\ from <= to
          /\ Nothing(from, to)
          /\ position' = to
    /\ UNCHANGED <<log, got, told>>

\* It is told that the events up to a number are gone, or may be.
Tell ==
    /\ told' \in (told + 1)..Len(log)
    /\ UNCHANGED <<log, position, got>>

Next == Publish \/ Deliver \/ Skip \/ Tell

Spec == Init /\ [][Next]_vars
====
