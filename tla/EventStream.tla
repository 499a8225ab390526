---- MODULE EventStream ----
(***************************************************************************)
(* The event stream of one tenant and one subscriber of it: the appends of *)
(* concurrent transactions and the retention sweep (kernel/db/event-bus.ts)*)
(* and the loop of GET /v1/subscribe (routes/subscribe.ts) that pages      *)
(* through the rows, over a connection that may break, be closed by the    *)
(* server's lifetime cap, and come back.                                   *)
(***************************************************************************)
EXTENDS Integers, Sequences, FiniteSets

CONSTANTS Writers, Batch,   \* the transactions, and the topics of the events each one emits
          Topics, Wanted,   \* all topics, and those of the subscription's filter
          PageLimit,        \* EVENT_PAGE_LIMIT
          NoCursor, NoPage,
          Since,            \* the cursors the subscription may be opened with
          MaxDrops,         \* bound: connections that break
          MaxSeq            \* the numbers EventsArrive is asked about

ASSUME StreamAssumption ==
    /\ Batch \in [Writers -> Seq(Topics) \ {<<>>}]
    /\ Wanted \subseteq Topics
    /\ PageLimit \in Nat \ {0}
    /\ Since \subseteq Nat \cup {NoCursor}
    /\ NoCursor \notin Int
    /\ MaxDrops \in Nat

VARIABLES
    \* the database
    tx,        \* each writer's transaction
    at,        \* when it began: the `at` of its rows
    clock,     \* how many transactions began
    base,      \* the number before the first one it was issued
    issued,    \* last_seq as the transaction that holds the row sees it
    last,      \* last_seq, committed
    floor,     \* truncated_through
    log,       \* every event ever committed, [seq, topic, at]
    rows,      \* those still in the table
    doomed,    \* what a sweep that has not committed deletes
    \* the subscription's loop
    pc, cursor, page, published, announced,
    pending,   \* pendingWake
    notices,   \* wakes on their way to this process
    \* the connection and the client
    since,     \* ?since= of its URL
    wire,      \* frames sent and not received
    held,      \* the last event id it holds
    got,       \* the events it received
    told,      \* the highest truncation it was told of
    live,      \* rayspec.live was received on this connection
    start,     \* the position its subscription began at
    opened, backlog,  \* the cursor and the head this connection opened with
    drops

storeVars == <<tx, at, clock, base, issued, last, floor, log, rows, doomed>>
loopVars == <<pc, cursor, page, published, announced, pending, notices>>
clientVars == <<held, got, told, live, start>>
linkVars == <<since, wire, opened, backlog, drops>>
vars == <<storeVars, loopVars, clientVars, linkVars>>

Max(a, b) == IF a > b THEN a ELSE b
Highest(S) == CHOOSE n \in S : \A m \in S : m <= n
Seqs(S) == {r.seq : r \in S}

Events == [seq : Nat, topic : Topics, at : Nat]
Pages == [rows : SUBSET Events, scanned : Nat, head : Nat, floor : Nat]
Frames == [kind : {"data", "checkpoint", "truncated", "live"}, seq : Nat]

TypeOK ==
    /\ tx \in [Writers -> {"idle", "open", "appended", "ended"}]
    /\ at \in [Writers -> Nat] /\ base \in [Writers -> Nat]
    /\ clock \in Nat /\ issued \in Nat /\ last \in Nat /\ floor \in Nat
    /\ log \subseteq Events /\ rows \subseteq log /\ doomed \subseteq rows
    /\ pc \in {"closed", "opened", "read", "top", "page", "waiting", "closing", "refused"}
    /\ cursor \in Nat
    /\ page = NoPage \/ page \in Pages
    /\ published \in Nat \cup {NoCursor}
    /\ announced \in BOOLEAN /\ pending \in BOOLEAN
    /\ notices \subseteq Nat
    /\ since \in Since
    /\ wire \in Seq(Frames)
    /\ held \in Nat \cup {NoCursor} /\ start \in Nat \cup {NoCursor}
    /\ got \in Seq(Nat) /\ told \in Nat /\ live \in BOOLEAN
    /\ opened \in Nat /\ backlog \in Nat
    /\ drops \in 0..MaxDrops

Init ==
    /\ tx = [w \in Writers |-> "idle"]
    /\ at = [w \in Writers |-> 0] /\ base = [w \in Writers |-> 0]
    /\ clock = 0 /\ issued = 0 /\ last = 0 /\ floor = 0
    /\ log = {} /\ rows = {} /\ doomed = {}
    /\ pc = "closed" /\ cursor = 0 /\ page = NoPage
    /\ published = NoCursor /\ announced = FALSE
    /\ pending = FALSE /\ notices = {}
    /\ since \in Since
    /\ wire = <<>>
    /\ held = NoCursor /\ start = NoCursor
    /\ got = <<>> /\ told = 0 /\ live = FALSE
    /\ opened = 0 /\ backlog = 0
    /\ drops = 0

----
\* A transaction begins, with the `at` its rows will carry.
Begin(w) ==
    /\ tx[w] = "idle"
    /\ tx' = [tx EXCEPT ![w] = "open"]
    /\ clock' = clock + 1
    /\ at' = [at EXCEPT ![w] = clock + 1]
    /\ UNCHANGED <<base, issued, last, floor, log, rows, doomed, loopVars, clientVars, linkVars>>

\* Mutant: the number is drawn from a sequence, which no one waits for.
CounterDrawn(w) == TRUE

\* The row of the tenant's counter is not locked by another append.
CounterFree(w) == \A x \in Writers \ {w} : tx[x] # "appended"

\* appendTenantEvents(): the numbers are issued and the row stays locked to the end.
AppendEvents(w) ==
    /\ tx[w] = "open" /\ CounterFree(w)
    /\ tx' = [tx EXCEPT ![w] = "appended"]
    /\ base' = [base EXCEPT ![w] = issued]
    /\ issued' = issued + Len(Batch[w])
    /\ UNCHANGED <<at, clock, last, floor, log, rows, doomed, loopVars, clientVars, linkVars>>

\* The subscription's listener is registered from the stream's start to its end.
Listening == pc \in {"read", "top", "page", "waiting"}

\* The transaction commits, and with it the notice, which may be lost.
Commit(w) ==
    /\ tx[w] = "appended"
    /\ tx' = [tx EXCEPT ![w] = "ended"]
    /\ LET new == {[seq |-> base[w] + i, topic |-> Batch[w][i], at |-> at[w]] :
                      i \in DOMAIN Batch[w]} IN
       /\ log' = log \cup new
       /\ rows' = rows \cup new
    /\ last' = Max(last, base[w] + Len(Batch[w]))
    /\ notices' \in {notices, IF Listening THEN notices \cup {base[w] + Len(Batch[w])} ELSE notices}
    /\ UNCHANGED <<at, clock, base, issued, floor, doomed, pc, cursor, page, published, announced,
                   pending, clientVars, linkVars>>

\* It rolls back, before or after its append: the next append reissues its numbers.
Rollback(w) ==
    /\ tx[w] \in {"open", "appended"}
    /\ tx' = [tx EXCEPT ![w] = "ended"]
    /\ issued' = IF tx[w] = "appended" THEN base[w] ELSE issued
    /\ UNCHANGED <<at, clock, base, last, floor, log, rows, doomed, loopVars, clientVars, linkVars>>

\* sweepTenantEvents(): the rows of transactions that began before a cutoff are deleted ...
SweepDeletes ==
    /\ doomed = {}
    /\ \E cutoff \in 1..(clock + 1) : doomed' = {r \in rows : r.at < cutoff}
    /\ doomed' # {}
    /\ UNCHANGED <<tx, at, clock, base, issued, last, floor, log, rows, loopVars, clientVars,
                   linkVars>>

\* ... and the statement commits them together with the floor, once it gets the counter row.
SweepCommits ==
    /\ doomed # {}
    /\ \A w \in Writers : tx[w] # "appended"
    /\ rows' = rows \ doomed
    /\ floor' = Max(floor, Highest(Seqs(doomed)))
    /\ doomed' = {}
    /\ UNCHANGED <<tx, at, clock, base, issued, last, log, loopVars, clientVars, linkVars>>

----
\* The next PageLimit rows, whatever their topic.
Window(after) ==
    {r \in rows : /\ r.seq > after
                  /\ Cardinality({q \in rows : after < q.seq /\ q.seq < r.seq}) < PageLimit}

\* Mutant: the read reports how far it delivered, not how far it looked.
PageOfDelivered(after) ==
    LET mine == {r \in Window(after) : r.topic \in Wanted} IN
    [rows |-> mine,
     scanned |-> IF mine = {} THEN after ELSE Highest(Seqs(mine)),
     head |-> last, floor |-> floor]

\* readTenantEventPage(): one snapshot of the rows, the head and the floor.
Page(after) ==
    [rows |-> {r \in Window(after) : r.topic \in Wanted},
     scanned |-> IF Window(after) = {} THEN after ELSE Highest(Seqs(Window(after))),
     head |-> last,
     floor |-> floor]

\* The client connects: with the id it holds, else with its URL's cursor, else at the tail.
\* A cursor that was never issued is refused.
Connect ==
    /\ pc = "closed"
    /\ LET asked == IF held # NoCursor THEN held ELSE since IN
       IF asked # NoCursor /\ asked > last
       THEN pc' = "refused" /\ UNCHANGED <<cursor, page>>
       ELSE /\ pc' = "opened"
            /\ cursor' = IF asked = NoCursor THEN last ELSE asked
            /\ page' = IF asked = NoCursor THEN NoPage ELSE Page(asked)
    /\ opened' = cursor' /\ backlog' = last
    /\ published' = NoCursor /\ announced' = FALSE
    /\ pending' = FALSE /\ notices' = {}
    /\ live' = FALSE
    /\ UNCHANGED <<storeVars, since, wire, held, got, told, start, drops>>

\* The stream starts and registers for wakes; what it read to open is its first page.
StartStream ==
    /\ pc = "opened"
    /\ pc' = IF page = NoPage THEN "read" ELSE "page"
    /\ UNCHANGED <<storeVars, cursor, page, published, announced, pending, notices,
                   clientVars, linkVars>>

ReadPage ==
    /\ pc \in {"read", "top"}
    /\ page' = Page(cursor)
    /\ pc' = "page"
    /\ UNCHANGED <<storeVars, cursor, published, announced, pending, notices, clientVars, linkVars>>

Frame(kind, seq) == [kind |-> kind, seq |-> seq]

\* The cursor is below the floor: the client is told, and the page is read again from there.
Truncated ==
    /\ pc = "page" /\ cursor < page.floor
    /\ wire' = Append(wire, Frame("truncated", page.floor))
    /\ cursor' = page.floor
    /\ pc' = "top"
    /\ UNCHANGED <<storeVars, page, published, announced, pending, notices, clientVars,
                   since, opened, backlog, drops>>

\* The rows in their order.
DataFrames(S) ==
    [i \in 1..Cardinality(S) |->
        Frame("data", CHOOSE n \in Seqs(S) : Cardinality({m \in Seqs(S) : m < n}) = i - 1)]

\* Mutant: the position is published with a delivery only.
NoCheckpoint(delivered, reached) == <<>>

\* formatResumeCheckpoint(): written when the cursor moved without a delivery.
Checkpoint(delivered, reached) ==
    IF reached = delivered THEN <<>> ELSE <<Frame("checkpoint", reached)>>

\* Mutant: every page announces the stream live.
DeliverLive ==
    /\ pc = "page" /\ cursor >= page.floor
    /\ LET reached == Max(cursor, page.scanned)
           delivered == IF page.rows = {} THEN published ELSE Highest(Seqs(page.rows))
       IN /\ wire' = wire \o DataFrames(page.rows) \o Checkpoint(delivered, reached)
                          \o <<Frame("live", reached)>>
          /\ cursor' = reached /\ published' = reached
          /\ announced' = TRUE
          /\ pc' = IF (reached > cursor /\ page.scanned < page.head) \/ pending
                    THEN "top" ELSE "waiting"
          /\ pending' = FALSE
    /\ UNCHANGED <<storeVars, page, notices, clientVars, since, opened, backlog, drops>>

\* A page is written: its rows, then the position when they do not give it, then, when no
\* backlog is left, the announcement that the stream is live.  A wake that came meanwhile
\* makes the loop read again instead of waiting.
Deliver ==
    /\ pc = "page" /\ cursor >= page.floor
    /\ LET reached == Max(cursor, page.scanned)
           delivered == IF page.rows = {} THEN published ELSE Highest(Seqs(page.rows))
           more == reached > cursor /\ page.scanned < page.head
       IN /\ wire' = wire \o DataFrames(page.rows) \o Checkpoint(delivered, reached)
                          \o (IF more \/ announced THEN <<>> ELSE <<Frame("live", reached)>>)
          /\ cursor' = reached /\ published' = reached
          /\ announced' = (announced \/ ~more)
          /\ pc' = IF more \/ pending THEN "top" ELSE "waiting"
          /\ pending' = (pending /\ more)
    /\ UNCHANGED <<storeVars, page, notices, clientVars, since, opened, backlog, drops>>

\* A notice reaches the listener, and is ignored when it cannot advance the cursor.
Wake ==
    /\ \E n \in notices :
          /\ Listening
          /\ notices' = notices \ {n}
          /\ pending' = (pending \/ (n > cursor /\ pc # "waiting"))
          /\ pc' = IF n > cursor /\ pc = "waiting" THEN "top" ELSE pc
    /\ UNCHANGED <<storeVars, cursor, page, published, announced, clientVars, linkVars>>

\* The poll interval ends the wait.
Poll ==
    /\ pc = "waiting"
    /\ pc' = "top"
    /\ UNCHANGED <<storeVars, cursor, page, published, announced, pending, notices,
                   clientVars, linkVars>>

\* The lifetime cap, tested between two pages: the stream ends, and what was written arrives.
Cap ==
    /\ pc = "top"
    /\ pc' = "closing"
    /\ notices' = {}
    /\ UNCHANGED <<storeVars, cursor, page, published, announced, pending, clientVars, linkVars>>

----
\* The client takes a frame.  Control frames carry no id: its held position stays.
Receive ==
    /\ wire # <<>>
    /\ LET f == Head(wire) IN
       /\ held' = IF f.kind \in {"data", "checkpoint"} THEN f.seq ELSE held
       /\ got' = IF f.kind = "data" THEN Append(got, f.seq) ELSE got
       /\ told' = IF f.kind = "truncated" THEN Max(told, f.seq) ELSE told
       /\ live' = (live \/ f.kind = "live")
       /\ start' = IF start = NoCursor /\ f.kind # "truncated" THEN opened ELSE start
    /\ wire' = Tail(wire)
    /\ UNCHANGED <<storeVars, loopVars, since, opened, backlog, drops>>

\* It has read everything a closed stream wrote, and will connect again.
Ended ==
    /\ pc = "closing" /\ wire = <<>>
    /\ pc' = "closed"
    /\ UNCHANGED <<storeVars, cursor, page, published, announced, pending, notices,
                   clientVars, linkVars>>

\* The connection breaks: what is on the wire is lost.
Drop ==
    /\ pc \notin {"closed", "refused"} /\ drops < MaxDrops
    /\ drops' = drops + 1
    /\ pc' = "closed"
    /\ wire' = <<>> /\ notices' = {}
    /\ UNCHANGED <<storeVars, cursor, page, published, announced, pending, clientVars,
                   since, opened, backlog>>

Next ==
    \/ \E w \in Writers : Begin(w) \/ AppendEvents(w) \/ Commit(w) \/ Rollback(w)
    \/ SweepDeletes \/ SweepCommits
    \/ Connect \/ StartStream \/ ReadPage \/ Truncated \/ Deliver \/ Wake \/ Poll \/ Cap
    \/ Receive \/ Ended \/ Drop

\* The server runs its loop, the poll timer fires, bytes arrive and the client reconnects.
\* ReadPage is strongly fair: the cap, minutes long, does not fall between the same two
\* reads on every connection.
Fairness ==
    /\ WF_vars(Connect) /\ WF_vars(StartStream) /\ SF_vars(ReadPage)
    /\ WF_vars(Truncated \/ Deliver) /\ WF_vars(Poll)
    /\ WF_vars(Receive) /\ WF_vars(Ended)

Spec == Init /\ [][Next]_vars
LiveSpec == Spec /\ Fairness

----
\* "The visible sequence is GAP-FREE and a hole means retention, never a lost write"
\* (event-bus.ts:16-18): numbers are committed in their order, however transactions
\* interleave and roll back, and a number the table lacks is at or below the floor.
GapFree ==
    /\ Seqs(log) = 1..last /\ Cardinality(log) = last
    /\ \A r \in log \ rows : r.seq <= floor

\* rayspec.live means "the backlog is drained" (subscribe.ts:89): the client then has every
\* event it wants that was committed when its connection opened, but what it was told is
\* truncated.
LiveMeansCaughtUp ==
    live => \A r \in log :
        start < r.seq /\ r.seq <= backlog /\ r.topic \in Wanted /\ r.seq > told
            => \E i \in DOMAIN got : got[i] = r.seq

\* Resuming costs nothing: through caps, broken connections, sweeps and lost wakes the
\* client is handed what the abstract feed hands out (subscribe.ts:47-56, event-bus.ts:224-231).
Feed == INSTANCE EventFeed WITH
    NoPosition <- NoCursor,
    log <- [n \in 1..last |-> IF n \in Seqs(log) THEN (CHOOSE r \in log : r.seq = n).topic
                              ELSE NoCursor],
    position <- IF start = NoCursor THEN NoCursor ELSE IF held = NoCursor THEN start ELSE held

ImplementsFeed == Feed!Spec

\* An event the client wants arrives, or it is told that it is gone: a lost wake costs time
\* only, "because the periodic read is what guarantees delivery" (event-wake.ts:5-8).
EventsArrive ==
    \A n \in 1..MaxSeq :
        (/\ start # NoCursor /\ start < n
         /\ \E r \in log : r.seq = n /\ r.topic \in Wanted)
        ~> (n <= told \/ \E i \in DOMAIN got : got[i] = n)
====
