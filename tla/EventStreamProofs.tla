---- MODULE EventStreamProofs ----
(***************************************************************************)
(* Proofs about EventStream, for any number of transactions, batches and   *)
(* topics, any page size, and any order of appends, rollbacks, sweeps,     *)
(* caps and broken connections: the log has no gaps (GapFree), a stream    *)
(* that says it is live has handed over its backlog (LiveMeansCaughtUp),   *)
(* and the subscription implements EventFeed (ImplementsFeed).             *)
(*                                                                         *)
(* The argument follows an event from the table to the client.  A page     *)
(* misses nothing between the cursor and the number it looked at but what  *)
(* is below its floor; the frames written from it account for everything   *)
(* up to the position each of them gives; so whatever prefix of the wire   *)
(* the client gets to read before the connection breaks, it has everything *)
(* it wants up to the id it then holds, and it resumes from that id.       *)
(* Positions only grow on the way (Ordered), so that each step of the      *)
(* client is one of the feed.                                              *)
(***************************************************************************)
EXTENDS EventStream, FiniteSetTheorems, FunctionTheorems, NaturalsInduction, SequenceTheorems,
        TLAPS

\* The counter row: one transaction holds it, and numbers what follows the last commit.
CounterInOrder ==
    /\ \A w, x \in Writers : tx[w] = "appended" /\ tx[x] = "appended" => w = x
    /\ (\A w \in Writers : tx[w] # "appended") => issued = last
    /\ \A w \in Writers :
           tx[w] = "appended" => base[w] = last /\ issued = last + Len(Batch[w])

\* The log is numbered without a gap and without a number used twice.
LogNumbered ==
    /\ IsFiniteSet(log)
    /\ Seqs(log) = 1..last
    /\ \A r, q \in log : r.seq = q.seq => r = q

\* What the table lacks is at or below the floor.
Retained ==
    /\ \A r \in log \ rows : r.seq <= floor
    /\ floor <= last

Numbering == CounterInOrder /\ LogNumbered /\ Retained

\* Nothing anybody holds is ahead of the committed head.
PositionsCommitted ==
    /\ cursor <= last /\ backlog <= last /\ opened <= last /\ told <= last
    /\ held # NoCursor => held <= last
    /\ start # NoCursor => start <= last
    /\ \A i \in 1..Len(wire) : wire[i].seq <= last

Position == {"data", "checkpoint"}
Connected == pc \notin {"closed", "refused"}

\* Where the subscription begins, also before the client knows it.
Origin == IF start = NoCursor THEN opened ELSE start

\* With the first i frames on the wire the client has event n, or was told it is gone.
Accounted(n, i) ==
    \/ n <= told
    \/ \E k \in 1..Len(got) : got[k] = n
    \/ \E k \in 1..i : \/ wire[k].kind = "data" /\ wire[k].seq = n
                       \/ wire[k].kind = "truncated" /\ n <= wire[k].seq

AccountedTo(n, i) ==
    \A r \in log : Origin < r.seq /\ r.seq <= n /\ r.topic \in Wanted => Accounted(r.seq, i)

\* What the client has: everything it wants up to the id it holds.
ClientComplete ==
    /\ start = NoCursor <=> held = NoCursor
    /\ held # NoCursor => AccountedTo(held, 0)
    /\ live => start # NoCursor
    /\ live => AccountedTo(backlog, 0)

\* What the wire holds: each frame that gives a position gives one the frames before it reach.
WireComplete ==
    /\ ~Connected => wire = <<>>
    /\ \A i \in 1..Len(wire) : wire[i].kind # "truncated" => AccountedTo(wire[i].seq, i)
    /\ \A i \in 1..Len(wire) : wire[i].kind = "live" =>
           /\ backlog <= wire[i].seq
           /\ start # NoCursor \/ \E k \in 1..(i - 1) : wire[k].kind \in Position
    /\ Connected /\ published # NoCursor =>
           start # NoCursor \/ \E k \in 1..Len(wire) : wire[k].kind \in Position

\* A page read at the cursor: what is committed up to the number it looked at is in it or below
\* its floor, and a page that looked at nothing saw the end of the log.
PageComplete ==
    /\ page \in Pages /\ page.rows \subseteq log
    /\ cursor <= page.scanned /\ page.scanned <= last /\ page.floor <= last
    /\ backlog <= page.head
    /\ \A r \in page.rows : cursor < r.seq /\ r.seq <= page.scanned
    /\ \A r \in log : cursor < r.seq /\ r.seq <= page.scanned /\ r.topic \in Wanted =>
           r \in page.rows \/ r.seq <= page.floor
    /\ page.scanned = cursor => page.head <= cursor \/ page.head <= page.floor

LoopComplete ==
    /\ Connected => AccountedTo(cursor, Len(wire))
    /\ pc = "page" \/ (pc = "opened" /\ page # NoPage) => PageComplete

Inv ==
    /\ TypeOK
    /\ Numbering
    /\ PositionsCommitted
    /\ ClientComplete
    /\ WireComplete
    /\ LoopComplete

USE DEF vars, storeVars, loopVars, clientVars, linkVars

----
\* The operators.

\* The highest of a bounded set of numbers is in it and above the rest.
LEMMA HighestOf ==
    ASSUME NEW b \in Nat, NEW S \in SUBSET (0..b), S # {}
    PROVE  /\ Highest(S) \in S
           /\ \A m \in S : m <= Highest(S)
<1> DEFINE T == {b - n : n \in S}
<1>1. T \subseteq Nat /\ T # {}
    OBVIOUS
<1>2. PICK t \in T : \A u \in T : ~ (<<u, t>> \in OpToRel(<, Nat))
    BY <1>1, NatLessThanWellFounded, WFMin
<1>3. \A u \in T : ~ (u < t)
    BY <1>1, <1>2 DEF OpToRel
<1>4. PICK n \in S : t = b - n
    OBVIOUS
<1>5. \A m \in S : m <= n
    <2>1. SUFFICES ASSUME NEW m \in S PROVE m <= n
        OBVIOUS
    <2>2. b - m \in T
        OBVIOUS
    <2>3. ~ (b - m < b - n)
        BY <1>3, <1>4, <2>2
    <2>4. QED
        BY <2>3
<1>6. \E h \in S : \A m \in S : m <= h
    BY <1>5
<1>7. QED
    BY <1>6 DEF Highest

\* How many numbers of N are below n.
Below(N, n) == {m \in N : m < n}

\* A greater number of a finite set has more numbers of it below it, and never all of them.
LEMMA BelowGrows ==
    ASSUME NEW N \in SUBSET Nat, IsFiniteSet(N)
    PROVE  /\ \A n \in N : Cardinality(Below(N, n)) \in 0..(Cardinality(N) - 1)
           /\ \A n, m \in N : n < m => Cardinality(Below(N, n)) < Cardinality(Below(N, m))
<1>1. Cardinality(N) \in Nat
    BY FS_CardinalityType
<1>2. \A n \in N : IsFiniteSet(Below(N, n)) /\ Cardinality(Below(N, n)) \in Nat
    BY FS_Subset, FS_CardinalityType DEF Below
<1>3. ASSUME NEW A \in SUBSET N, NEW B \in SUBSET N, A \subseteq B, NEW x \in B, x \notin A
      PROVE  Cardinality(A) < Cardinality(B)
    <2>1. IsFiniteSet(B) /\ IsFiniteSet(A)
        BY FS_Subset
    <2>2. Cardinality(A) <= Cardinality(B) /\ (Cardinality(B) = Cardinality(A) => B = A)
        BY <1>3, <2>1, FS_Subset
    <2>3. Cardinality(A) \in Nat /\ Cardinality(B) \in Nat
        BY <2>1, FS_CardinalityType
    <2>4. QED
        BY <1>3, <2>2, <2>3
<1>4. ASSUME NEW n \in N PROVE Cardinality(Below(N, n)) < Cardinality(N)
    <2>1. Below(N, n) \in SUBSET N /\ n \notin Below(N, n)
        BY DEF Below
    <2>2. QED
        BY <1>3, <2>1
<1>5. ASSUME NEW n \in N, NEW m \in N, n < m
      PROVE  Cardinality(Below(N, n)) < Cardinality(Below(N, m))
    <2>1. Below(N, n) \in SUBSET N /\ Below(N, m) \in SUBSET N
        BY DEF Below
    <2>2. \A k \in Nat : k < n => k < m
        BY <1>5
    <2>3. Below(N, n) \subseteq Below(N, m)
        BY <2>2 DEF Below
    <2>4. n \in Below(N, m) /\ n \notin Below(N, n)
        BY <1>5 DEF Below
    <2>5. QED
        BY <1>3, <2>1, <2>3, <2>4
<1>6. QED
    BY <1>1, <1>2, <1>4, <1>5

\* A set of events, no two with one number.
Numbered(S) ==
    /\ IsFiniteSet(S)
    /\ Seqs(S) \in SUBSET Nat
    /\ \A r, q \in S : r.seq = q.seq => r = q

LEMMA SeqsCount ==
    ASSUME NEW S, Numbered(S)
    PROVE  IsFiniteSet(Seqs(S)) /\ Cardinality(Seqs(S)) = Cardinality(S)
<1> DEFINE f == [r \in S |-> r.seq]
<1>1. f \in Bijection(S, Seqs(S))
    BY Fun_IsBij DEF Numbered, Seqs
<1>2. ExistsBijection(S, Seqs(S))
    BY <1>1 DEF ExistsBijection
<1>3. QED
    BY <1>2, FS_Bijection DEF Numbered

\* The frames of a page: one for each of its rows, in the order of their numbers.
LEMMA DataFramesOf ==
    ASSUME NEW S, Numbered(S)
    PROVE  /\ DataFrames(S) \in Seq(Frames)
           /\ Len(DataFrames(S)) = Cardinality(S)
           /\ \A i \in 1..Len(DataFrames(S)) :
                  DataFrames(S)[i].kind = "data" /\ DataFrames(S)[i].seq \in Seqs(S)
           /\ \A r \in S : \E i \in 1..Len(DataFrames(S)) : DataFrames(S)[i].seq = r.seq
           /\ \A i, j \in 1..Len(DataFrames(S)) :
                  i < j => DataFrames(S)[i].seq < DataFrames(S)[j].seq
<1> DEFINE N == Seqs(S)
           D == DataFrames(S)
           c == Cardinality(S)
           rank == [n \in N |-> Cardinality(Below(N, n)) + 1]
           nth(i) == CHOOSE n \in N : Cardinality(Below(N, n)) = i - 1
<1>1. N \in SUBSET Nat /\ IsFiniteSet(N) /\ Cardinality(N) = c /\ c \in Nat
    BY SeqsCount, FS_CardinalityType DEF Numbered
<1> HIDE DEF N
<1>2. /\ \A n \in N : Cardinality(Below(N, n)) \in 0..(c - 1)
      /\ \A n, m \in N : n < m => Cardinality(Below(N, n)) < Cardinality(Below(N, m))
    BY <1>1, BelowGrows
<1> HIDE DEF c
<1>3. rank \in [N -> 1..c]
    BY <1>1, <1>2
<1>4. \A n, m \in N : rank[n] = rank[m] => n = m
    <2>1. SUFFICES ASSUME NEW n \in N, NEW m \in N, rank[n] = rank[m] PROVE n = m
        OBVIOUS
    <2>2. Cardinality(Below(N, n)) = Cardinality(Below(N, m))
        BY <1>2, <2>1
    <2>3. ~ (n < m) /\ ~ (m < n)
        BY <1>2, <2>2
    <2>4. QED
        BY <1>1, <2>3
<1>5. rank \in Injection(N, 1..c)
    BY <1>3, <1>4, Fun_IsInj
<1>6. IsFiniteSet(1..c) /\ Cardinality(1..c) = c
    BY <1>1, FS_Interval
<1>7. rank \in Surjection(N, 1..c)
    BY <1>1, <1>5, <1>6, FS_Injection
<1>8. \A i \in 1..c : \E n \in N : rank[n] = i
    BY <1>7 DEF Surjection
<1>9. \A i \in 1..c : \E n \in N : Cardinality(Below(N, n)) = i - 1
    <2>1. SUFFICES ASSUME NEW i \in 1..c PROVE \E n \in N : Cardinality(Below(N, n)) = i - 1
        OBVIOUS
    <2>2. PICK n \in N : rank[n] = i
        BY <1>8
    <2>3. Cardinality(Below(N, n)) + 1 = i /\ Cardinality(Below(N, n)) \in 0..(c - 1)
        BY <1>2, <2>2
    <2>4. QED
        BY <1>1, <2>3
<1>10. \A i \in 1..c : nth(i) \in N /\ Cardinality(Below(N, nth(i))) = i - 1
    BY <1>9
<1>11. D = [i \in 1..c |-> Frame("data", nth(i))]
    BY DEF DataFrames, N, c, Below
<1> HIDE DEF nth, D
<1>12. \A i \in 1..c : D[i] = [kind |-> "data", seq |-> nth(i)] /\ D[i] \in Frames
    BY <1>1, <1>10, <1>11 DEF Frame, Frames
<1>13. D \in [1..c -> Frames]
    BY <1>11, <1>12
<1>14. D \in Seq(Frames) /\ Len(D) = c
    BY <1>1, <1>13
<1>15. \A i \in 1..c : D[i].kind = "data" /\ D[i].seq = nth(i)
    <2>1. SUFFICES ASSUME NEW i \in 1..c PROVE D[i].kind = "data" /\ D[i].seq = nth(i)
        OBVIOUS
    <2>2. D[i] = [kind |-> "data", seq |-> nth(i)]
        BY <1>12
    <2>3. QED
        BY <2>2
<1>16. ASSUME NEW r \in S PROVE \E i \in 1..c : D[i].seq = r.seq
    <2>1. r.seq \in N
        BY DEF N, Seqs
    <2>2. rank[r.seq] \in 1..c
        BY <1>3, <2>1
    <2>3. rank[r.seq] - 1 = Cardinality(Below(N, r.seq))
        BY <1>2, <2>1
    <2>4. nth(rank[r.seq]) \in N /\ rank[nth(rank[r.seq])] = rank[r.seq]
        BY <1>2, <1>10, <2>2, <2>3
    <2>5. nth(rank[r.seq]) = r.seq
        BY <1>4, <2>1, <2>4
    <2>6. QED
        BY <1>15, <2>2, <2>5
<1>17. ASSUME NEW i \in 1..c, NEW j \in 1..c, i < j PROVE D[i].seq < D[j].seq
    <2>1. nth(i) \in N /\ nth(j) \in N /\ nth(i) \in Nat /\ nth(j) \in Nat
        BY <1>1, <1>10
    <2>2. Cardinality(Below(N, nth(i))) = i - 1 /\ Cardinality(Below(N, nth(j))) = j - 1
        BY <1>10
    <2>3. ~ (nth(j) < nth(i)) /\ nth(i) # nth(j)
        BY <1>2, <1>17, <2>1, <2>2
    <2>4. QED
        BY <1>15, <2>1, <2>3
<1>18. QED
    BY <1>10, <1>14, <1>15, <1>16, <1>17 DEF D, N, c

----
\* A page, read in one snapshot of the rows, the head and the floor.
LEMMA PageOfRows ==
    ASSUME StreamAssumption, TypeOK, LogNumbered, Retained, NEW after \in Nat, after <= last
    PROVE  /\ Page(after) \in Pages /\ Page(after).rows \subseteq log
           /\ after <= Page(after).scanned /\ Page(after).scanned <= last
           /\ Page(after).floor = floor /\ Page(after).head = last
           /\ \A r \in Page(after).rows : after < r.seq /\ r.seq <= Page(after).scanned
           /\ \A r \in log :
                  after < r.seq /\ r.seq <= Page(after).scanned /\ r.topic \in Wanted =>
                      r \in Page(after).rows \/ r.seq <= floor
           /\ Page(after).scanned = after => last <= after \/ last <= floor
<1> DEFINE W == Window(after)
           P == Page(after)
           between(r) == {q \in rows : after < q.seq /\ q.seq < r.seq}
<1>1. /\ rows \subseteq log /\ log \subseteq Events /\ IsFiniteSet(log)
      /\ last \in Nat /\ floor \in Nat /\ PageLimit \in Nat \ {0}
    BY DEF TypeOK, LogNumbered, StreamAssumption
<1>2. \A r \in log : r.seq \in Nat /\ r.seq <= last /\ r.seq \in Seqs(log)
    BY <1>1 DEF LogNumbered, Seqs, Events
<1>3. IsFiniteSet(rows)
    BY <1>1, FS_Subset
<1>4. W = {r \in rows : after < r.seq /\ Cardinality(between(r)) < PageLimit}
    BY <1>1, <1>2 DEF Window
<1>5. P = [rows |-> {r \in W : r.topic \in Wanted},
           scanned |-> IF W = {} THEN after ELSE Highest(Seqs(W)), head |-> last, floor |-> floor]
    BY DEF Page
<1>6. P.rows = {r \in W : r.topic \in Wanted} /\ P.head = last /\ P.floor = floor
      /\ P.scanned = IF W = {} THEN after ELSE Highest(Seqs(W))
    BY <1>5
<1> HIDE DEF W, P, between
<1>7. W \subseteq rows /\ \A r \in W : after < r.seq
    BY <1>4
<1>8. ASSUME W # {}
      PROVE  /\ Highest(Seqs(W)) \in Seqs(W)
             /\ \A r \in W : r.seq <= Highest(Seqs(W))
    <2>1. Seqs(W) \in SUBSET (0..last) /\ Seqs(W) # {}
        BY <1>1, <1>2, <1>7, <1>8 DEF Seqs
    <2>2. Highest(Seqs(W)) \in Seqs(W) /\ \A m \in Seqs(W) : m <= Highest(Seqs(W))
        BY <1>1, <2>1, HighestOf
    <2>3. QED
        BY <2>2 DEF Seqs
<1>9. ASSUME W # {} PROVE \E q \in W : q.seq = P.scanned
    BY <1>6, <1>8, <1>9 DEF Seqs
<1>10. P.scanned \in Nat /\ after <= P.scanned /\ P.scanned <= last
    BY <1>1, <1>2, <1>6, <1>7, <1>9
<1>11. P \in Pages /\ P.rows \subseteq log
    BY <1>1, <1>5, <1>6, <1>7, <1>10 DEF Pages
<1>12. ASSUME NEW r \in P.rows PROVE after < r.seq /\ r.seq <= P.scanned
    BY <1>6, <1>7, <1>8
<1>13. \A r \in rows : IsFiniteSet(between(r)) /\ Cardinality(between(r)) \in Nat
    BY <1>3, FS_Subset, FS_CardinalityType DEF between
<1>14. ASSUME NEW r \in log, after < r.seq, r.seq <= P.scanned, r.topic \in Wanted, r \in rows
       PROVE  r \in P.rows
    <2>1. W # {}
        BY <1>2, <1>6, <1>14
    <2>2. PICK q \in W : q.seq = P.scanned
        BY <1>9, <2>1
    <2>3. q \in rows /\ Cardinality(between(q)) < PageLimit
        BY <1>4
    <2>4. between(r) \in SUBSET between(q)
        <3>1. \A x \in rows : x.seq \in Nat
            BY <1>1, <1>2
        <3>2. r.seq \in Nat /\ q.seq \in Nat /\ r.seq <= q.seq
            BY <1>2, <1>14, <2>2, <2>3, <3>1
        <3>3. QED
            BY <3>1, <3>2 DEF between
    <2>5. Cardinality(between(r)) <= Cardinality(between(q))
        BY <1>13, <2>3, <2>4, FS_Subset
    <2>6. Cardinality(between(r)) < PageLimit
        BY <1>1, <1>13, <1>14, <2>3, <2>5
    <2>7. QED
        BY <1>4, <1>6, <1>14, <2>6
<1>15. ASSUME P.scanned = after, after < last PROVE last <= floor
    <2>1. W = {}
        BY <1>2, <1>6, <1>7, <1>8, <1>9, <1>15, <1>1
    <2>2. PICK r \in log : r.seq = last
        BY <1>1, <1>15 DEF LogNumbered, Seqs
    <2>3. ASSUME r \in rows PROVE FALSE
        <3> DEFINE later == {q \in rows : after < q.seq}
        <3>1. r \in later
            BY <1>15, <2>2, <2>3
        <3>2. Seqs(later) \subseteq Nat /\ Seqs(later) # {}
            BY <1>1, <1>2, <3>1 DEF Seqs
        <3>3. PICK n \in Seqs(later) : \A m \in Seqs(later) : ~ (<<m, n>> \in OpToRel(<, Nat))
            BY <3>2, NatLessThanWellFounded, WFMin
        <3>4. \A m \in Seqs(later) : ~ (m < n)
            BY <3>2, <3>3 DEF OpToRel
        <3>5. PICK q \in later : q.seq = n
            BY DEF Seqs
        <3>6. between(q) = {}
            BY <3>4, <3>5 DEF between, Seqs
        <3>7. Cardinality(between(q)) < PageLimit
            BY <1>1, <3>6, FS_EmptySet
        <3>8. QED
            BY <1>4, <2>1, <3>7
    <2>4. QED
        BY <2>2, <2>3 DEF Retained
<1>16. QED
    BY <1>1, <1>6, <1>10, <1>11, <1>12, <1>14, <1>15 DEF P, Retained

\* A page read at the cursor is complete.
LEMMA ReadAtCursor ==
    ASSUME TypeOK, LogNumbered, Retained, cursor <= last, backlog <= last, page' = Page(cursor'),
           UNCHANGED <<log, last>>, cursor' \in Nat, cursor' <= last, backlog' <= last
    PROVE  PageComplete'
<1>1. StreamAssumption /\ Pages' = Pages
    BY StreamAssumption DEF Pages, Events
<1>2. floor <= last
    BY DEF Retained
<1> HIDE DEF StreamAssumption
<1>3. QED
    BY <1>1, <1>2, PageOfRows DEF PageComplete

----
\* The types, by who holds what.
StoreTypeOK ==
    /\ tx \in [Writers -> {"idle", "open", "appended", "ended"}]
    /\ at \in [Writers -> Nat] /\ base \in [Writers -> Nat]
    /\ clock \in Nat /\ issued \in Nat /\ last \in Nat /\ floor \in Nat
    /\ log \subseteq Events /\ rows \subseteq log /\ doomed \subseteq rows

LoopTypeOK ==
    /\ pc \in {"closed", "opened", "read", "top", "page", "waiting", "closing", "refused"}
    /\ cursor \in Nat
    /\ page = NoPage \/ page \in Pages
    /\ published \in Nat \cup {NoCursor}
    /\ announced \in BOOLEAN /\ pending \in BOOLEAN
    /\ notices \subseteq Nat

ClientTypeOK ==
    /\ held \in Nat \cup {NoCursor} /\ start \in Nat \cup {NoCursor}
    /\ got \in Seq(Nat) /\ told \in Nat /\ live \in BOOLEAN

LinkTypeOK ==
    /\ since \in Since
    /\ wire \in Seq(Frames)
    /\ opened \in Nat /\ backlog \in Nat
    /\ drops \in 0..MaxDrops

LEMMA Types == TypeOK <=> StoreTypeOK /\ LoopTypeOK /\ ClientTypeOK /\ LinkTypeOK
BY DEF TypeOK, StoreTypeOK, LoopTypeOK, ClientTypeOK, LinkTypeOK

\* What a step leaves alone keeps its type and its numbering.
LEMMA TypesKept ==
    /\ StoreTypeOK /\ Numbering /\ UNCHANGED storeVars => StoreTypeOK' /\ Numbering'
    /\ LoopTypeOK /\ UNCHANGED loopVars => LoopTypeOK'
    /\ ClientTypeOK /\ UNCHANGED clientVars => ClientTypeOK'
    /\ LinkTypeOK /\ UNCHANGED linkVars => LinkTypeOK'
<1>1. StoreTypeOK /\ UNCHANGED storeVars => StoreTypeOK'
    BY DEF StoreTypeOK, Events
<1>2. Numbering /\ UNCHANGED storeVars => Numbering'
    BY DEF Numbering, CounterInOrder, LogNumbered, Retained, Seqs
<1>3. LoopTypeOK /\ UNCHANGED loopVars => LoopTypeOK'
    BY DEF LoopTypeOK, Pages, Events
<1>4. ClientTypeOK /\ UNCHANGED clientVars => ClientTypeOK'
    BY DEF ClientTypeOK
<1>5. LinkTypeOK /\ UNCHANGED linkVars => LinkTypeOK'
    BY DEF LinkTypeOK, Frames
<1>6. QED
    BY <1>1, <1>2, <1>3, <1>4, <1>5

Complete == PositionsCommitted /\ ClientComplete /\ WireComplete /\ LoopComplete

\* A step of the store adds events past the head only: nothing that was complete is not.
LEMMA StoreFrame ==
    ASSUME TypeOK, Complete,
           UNCHANGED <<clientVars, linkVars, pc, cursor, page, published>>,
           log \subseteq log', \A r \in log' \ log : r.seq \in Nat /\ last < r.seq,
           last' \in Nat, last <= last'
    PROVE  Complete'
<1> USE DEF Complete
<1>t. /\ last \in Nat /\ cursor \in Nat /\ backlog \in Nat /\ opened \in Nat /\ told \in Nat
      /\ held \in Nat \cup {NoCursor} /\ start \in Nat \cup {NoCursor}
      /\ \A i \in 1..Len(wire) : wire[i].seq \in Nat
    <2>1. wire \in Seq(Frames)
        BY DEF TypeOK
    <2>2. \A i \in 1..Len(wire) : wire[i] \in Frames
        BY <2>1, ElementOfSeq
    <2>3. QED
        BY <2>2 DEF TypeOK, Frames
<1>1. PositionsCommitted'
    BY <1>t DEF PositionsCommitted
<1>2. \A n, i : Accounted(n, i)' = Accounted(n, i)
    BY DEF Accounted
<1>3. \A n \in Nat : \A i : n <= last /\ AccountedTo(n, i) => AccountedTo(n, i)'
    <2>1. SUFFICES ASSUME NEW n \in Nat, NEW i, n <= last, AccountedTo(n, i),
                          NEW r \in log', Origin < r.seq, r.seq <= n, r.topic \in Wanted
                   PROVE  Accounted(r.seq, i)'
        BY DEF AccountedTo, Origin
    <2>2. r \in log
        BY <1>t, <2>1
    <2>3. Accounted(r.seq, i)
        BY <2>1, <2>2 DEF AccountedTo
    <2>4. QED
        BY <1>2, <2>3
<1>4. ClientComplete'
    BY <1>t, <1>3 DEF ClientComplete, PositionsCommitted
<1>5. WireComplete'
    BY <1>t, <1>3 DEF WireComplete, PositionsCommitted, Connected
<1>6. PageComplete => PageComplete'
    <2>1. SUFFICES ASSUME PageComplete PROVE PageComplete'
        OBVIOUS
    <2>2. page.scanned \in Nat /\ page.floor \in Nat /\ Pages' = Pages
        BY <2>1 DEF PageComplete, Pages, Events
    <2>3. ASSUME NEW r \in log', r.seq <= page.scanned PROVE r \in log
        BY <1>t, <2>1, <2>2, <2>3 DEF PageComplete
    <2>4. \A r \in log' : cursor < r.seq /\ r.seq <= page.scanned /\ r.topic \in Wanted =>
              r \in page.rows \/ r.seq <= page.floor
        BY <2>1, <2>3 DEF PageComplete
    <2>5. page.scanned <= last' /\ page.floor <= last'
        BY <1>t, <2>1, <2>2 DEF PageComplete
    <2>6. QED
        BY <2>1, <2>2, <2>4, <2>5 DEF PageComplete
<1>7. LoopComplete'
    BY <1>t, <1>3, <1>6 DEF LoopComplete, PositionsCommitted, Connected
<1>8. QED
    BY <1>1, <1>4, <1>5, <1>7

\* The parts of the invariant that a step of the store establishes; the rest is a frame.
LEMMA StoreStep ==
    ASSUME Inv, StoreTypeOK', LoopTypeOK', Numbering',
           UNCHANGED <<clientVars, linkVars, pc, cursor, page, published>>,
           log \subseteq log', \A r \in log' \ log : last < r.seq, last <= last'
    PROVE  Inv'
<1>1. ClientTypeOK' /\ LinkTypeOK'
    BY Types, TypesKept DEF Inv
<1>2. TypeOK'
    BY <1>1 DEF TypeOK, StoreTypeOK, LoopTypeOK, ClientTypeOK, LinkTypeOK
<1>3. \A r \in log' : r.seq \in Nat
    BY DEF StoreTypeOK, Events
<1>4. Complete'
    BY <1>3, StoreFrame DEF Inv, Complete, StoreTypeOK
<1>5. QED
    BY <1>2, <1>4 DEF Inv, Complete

\* The batches are not empty.
LEMMA BatchLengths ==
    \A w \in Writers : /\ Len(Batch[w]) \in Nat /\ Len(Batch[w]) > 0
                       /\ DOMAIN Batch[w] = 1..Len(Batch[w])
                       /\ \A i \in 1..Len(Batch[w]) : Batch[w][i] \in Topics
<1>1. \A w \in Writers : Batch[w] \in Seq(Topics) /\ Batch[w] # <<>>
    BY StreamAssumption
<1>2. QED
    BY <1>1, EmptySeq, LenProperties, ElementOfSeq

\* Preservation: a transaction begins.
LEMMA BeginInv == ASSUME Inv, NEW w \in Writers, Begin(w) PROVE Inv'
<1>1. StoreTypeOK'
    BY Types DEF Inv, StoreTypeOK, Begin
<1>2. CounterInOrder'
    BY Types DEF Inv, StoreTypeOK, Numbering, CounterInOrder, Begin
<1>3. LogNumbered' /\ Retained'
    BY DEF Inv, Numbering, LogNumbered, Retained, Seqs, Begin
<1>4. QED
    BY <1>1, <1>2, <1>3, StoreStep, Types, TypesKept DEF Inv, Numbering, Begin, StoreTypeOK

\* Preservation: numbers are issued under the lock of the counter row.
LEMMA AppendEventsInv == ASSUME Inv, NEW w \in Writers, AppendEvents(w) PROVE Inv'
<1>1. StoreTypeOK'
    BY Types, BatchLengths DEF Inv, StoreTypeOK, AppendEvents
<1>2. CounterInOrder'
    <2>1. \A x \in Writers : tx[x] # "appended"
        BY DEF AppendEvents, CounterFree
    <2>2. issued = last
        BY <2>1 DEF Inv, Numbering, CounterInOrder
    <2>3. QED
        BY <2>1, <2>2, Types DEF Inv, StoreTypeOK, CounterInOrder, AppendEvents
<1>3. LogNumbered' /\ Retained'
    BY DEF Inv, Numbering, LogNumbered, Retained, Seqs, AppendEvents
<1>4. QED
    BY <1>1, <1>2, <1>3, StoreStep, Types, TypesKept DEF Inv, Numbering, AppendEvents, StoreTypeOK

\* Preservation: a rollback gives its numbers back while nobody has read them.
LEMMA RollbackInv == ASSUME Inv, NEW w \in Writers, Rollback(w) PROVE Inv'
<1>1. StoreTypeOK'
    BY Types DEF Inv, StoreTypeOK, Rollback
<1>2. CounterInOrder'
    BY Types DEF Inv, StoreTypeOK, Numbering, CounterInOrder, Rollback
<1>3. LogNumbered' /\ Retained'
    BY DEF Inv, Numbering, LogNumbered, Retained, Seqs, Rollback
<1>4. QED
    BY <1>1, <1>2, <1>3, StoreStep, Types, TypesKept DEF Inv, Numbering, Rollback, StoreTypeOK

\* Preservation: a commit continues the log where it ends.
LEMMA CommitInv == ASSUME Inv, NEW w \in Writers, Commit(w) PROVE Inv'
<1> DEFINE n == Len(Batch[w])
           event(i) == [seq |-> base[w] + i, topic |-> Batch[w][i], at |-> at[w]]
           new == {event(i) : i \in 1..n}
<1>1. /\ n \in Nat /\ n > 0 /\ DOMAIN Batch[w] = 1..n
      /\ \A i \in 1..n : Batch[w][i] \in Topics
    BY BatchLengths
<1>2. StoreTypeOK /\ Numbering
    BY Types DEF Inv
<1>3. base[w] = last /\ issued = last + n
    BY <1>2 DEF Numbering, CounterInOrder, Commit
<1>4. log' = log \cup new /\ rows' = rows \cup new
    BY <1>1 DEF Commit
<1>5. last' = last + n
    BY <1>1, <1>2, <1>3 DEF Commit, Max, StoreTypeOK
<1>6. \A i \in 1..n : event(i) \in Events /\ event(i).seq = last + i
    BY <1>1, <1>2, <1>3 DEF Events, StoreTypeOK
<1> HIDE DEF n, event
<1>7. \A r \in new : r \in Events /\ \E i \in 1..n : r = event(i) /\ r.seq = last + i
    BY <1>6
<1>8. \A i \in 1..n : \E r \in new : r.seq = last + i
    BY <1>6
<1>9. IsFiniteSet(new)
    <2> DEFINE f == [i \in 1..n |-> event(i)]
    <2>1. f \in Surjection(1..n, new)
        BY Fun_IsSurj
    <2>2. QED
        BY <1>1, <2>1, FS_NatSurjection DEF ExistsSurjection
<1> HIDE DEF new
<1>10. last \in Nat /\ log \subseteq Events /\ rows \subseteq log /\ doomed \subseteq rows
    BY <1>2 DEF StoreTypeOK
<1>11. tx' \in [Writers -> {"idle", "open", "appended", "ended"}]
    BY <1>2 DEF StoreTypeOK, Commit
<1>12. log' \subseteq Events /\ rows' \subseteq log' /\ doomed \subseteq rows'
    BY <1>4, <1>7, <1>10
<1>13. StoreTypeOK'
    BY <1>1, <1>2, <1>5, <1>10, <1>11, <1>12 DEF StoreTypeOK, Commit, Events
<1>14. CounterInOrder'
    <2>1. \A x \in Writers : tx'[x] # "appended"
        BY <1>2 DEF StoreTypeOK, Numbering, CounterInOrder, Commit
    <2>2. issued' = last'
        BY <1>3, <1>5 DEF Commit
    <2>3. QED
        BY <2>1, <2>2 DEF CounterInOrder
<1>15. LogNumbered'
    <2>1. IsFiniteSet(log')
        BY <1>2, <1>4, <1>9, FS_Union DEF Numbering, LogNumbered
    <2>2. \A r \in log : r.seq \in 1..last
        BY <1>2 DEF Numbering, LogNumbered, Seqs
    <2>3. \A r, q \in log' : r.seq = q.seq => r = q
        <3>1. SUFFICES ASSUME NEW r \in log', NEW q \in log', r.seq = q.seq PROVE r = q
            OBVIOUS
        <3>2. CASE r \in log /\ q \in log
            BY <1>2, <3>1, <3>2 DEF Numbering, LogNumbered
        <3>3. CASE r \in log /\ q \in new
            BY <1>1, <1>7, <1>10, <2>2, <3>1, <3>3
        <3>4. CASE r \in new /\ q \in log
            BY <1>1, <1>7, <1>10, <2>2, <3>1, <3>4
        <3>5. CASE r \in new /\ q \in new
            <4>1. PICK i \in 1..n : r = event(i) /\ r.seq = last + i
                BY <1>7, <3>5
            <4>2. PICK j \in 1..n : q = event(j) /\ q.seq = last + j
                BY <1>7, <3>5
            <4>3. i = j
                BY <1>1, <1>10, <3>1, <4>1, <4>2
            <4>4. QED
                BY <4>1, <4>2, <4>3
        <3>6. QED
            BY <1>4, <3>2, <3>3, <3>4, <3>5
    <2>4. \A r \in log' : r.seq \in 1..(last + n)
        BY <1>1, <1>4, <1>7, <1>10, <2>2
    <2>5. ASSUME NEW k \in 1..(last + n) PROVE \E r \in log' : r.seq = k
        <3>1. CASE k <= last
            <4>1. k \in Seqs(log)
                BY <1>2, <1>10, <3>1 DEF Numbering, LogNumbered
            <4>2. QED
                BY <1>4, <4>1 DEF Seqs
        <3>2. CASE k > last
            <4>1. k - last \in 1..n /\ k = last + (k - last)
                BY <1>1, <1>10, <3>2
            <4>2. QED
                BY <1>4, <1>8, <4>1
        <3>3. QED
            BY <1>10, <3>1, <3>2
    <2>6. Seqs(log') = 1..last'
        BY <1>5, <2>4, <2>5 DEF Seqs
    <2>7. QED
        BY <2>1, <2>3, <2>6 DEF LogNumbered, Seqs
<1>16. Retained'
    <2>1. log' \ rows' \subseteq log \ rows
        BY <1>4
    <2>2. floor <= last /\ floor \in Nat /\ floor' = floor
        BY <1>2 DEF Numbering, Retained, StoreTypeOK, Commit
    <2>3. floor <= last'
        BY <1>1, <1>5, <1>10, <2>2
    <2>4. QED
        BY <1>2, <2>1, <2>2, <2>3 DEF Numbering, Retained
<1>17. LoopTypeOK'
    <2>1. LoopTypeOK /\ base[w] + Len(Batch[w]) \in Nat
        BY <1>1, <1>2, Types DEF Inv, StoreTypeOK, n
    <2>2. notices' \subseteq Nat
        BY <2>1 DEF LoopTypeOK, Commit
    <2>3. QED
        BY <2>1, <2>2 DEF LoopTypeOK, Commit, Pages, Events
<1>18. \A r \in log' \ log : last < r.seq
    BY <1>1, <1>4, <1>7, <1>10
<1>19. log \subseteq log' /\ last <= last'
    BY <1>1, <1>4, <1>5, <1>10
<1>20. UNCHANGED <<clientVars, linkVars, pc, cursor, page, published>>
    BY DEF Commit
<1>21. QED
    BY <1>13, <1>14, <1>15, <1>16, <1>17, <1>18, <1>19, <1>20, StoreStep DEF Numbering

\* Preservation: a sweep deletes.
LEMMA SweepDeletesInv == ASSUME Inv, SweepDeletes PROVE Inv'
<1>1. StoreTypeOK'
    BY Types DEF Inv, StoreTypeOK, SweepDeletes, Events
<1>2. CounterInOrder' /\ LogNumbered' /\ Retained'
    BY DEF Inv, Numbering, CounterInOrder, LogNumbered, Retained, Seqs, SweepDeletes
<1>3. QED
    BY <1>1, <1>2, StoreStep, Types, TypesKept DEF Inv, Numbering, SweepDeletes, StoreTypeOK

\* Preservation: a sweep commits, and the floor rises over what it deleted.
LEMMA SweepCommitsInv == ASSUME Inv, SweepCommits PROVE Inv'
<1>0. StoreTypeOK /\ Numbering
    BY Types DEF Inv
<1>1. Seqs(doomed) \in SUBSET (0..last) /\ Seqs(doomed) # {} /\ last \in Nat
    <2>1. doomed \subseteq log /\ doomed # {}
        BY <1>0 DEF StoreTypeOK, SweepCommits
    <2>2. Seqs(doomed) \subseteq Seqs(log)
        BY <2>1 DEF Seqs
    <2>3. Seqs(doomed) \subseteq 1..last
        BY <1>0, <2>2 DEF Numbering, LogNumbered
    <2>4. QED
        BY <1>0, <2>1, <2>3 DEF StoreTypeOK, Seqs
<1>2. /\ Highest(Seqs(doomed)) \in Seqs(doomed)
      /\ \A m \in Seqs(doomed) : m <= Highest(Seqs(doomed))
    BY <1>1, HighestOf
<1>3. /\ floor' \in Nat /\ floor <= floor' /\ floor' <= last
      /\ \A m \in Seqs(doomed) : m <= floor'
    BY <1>0, <1>1, <1>2 DEF StoreTypeOK, Numbering, Retained, SweepCommits, Max
<1>4. StoreTypeOK'
    BY <1>0, <1>3 DEF StoreTypeOK, SweepCommits, Events
<1>5. CounterInOrder' /\ LogNumbered'
    BY <1>0 DEF Numbering, CounterInOrder, LogNumbered, Seqs, SweepCommits
<1>6. Retained'
    <2>1. SUFFICES ASSUME NEW r \in log, r \notin rows \ doomed PROVE r.seq <= floor'
        BY <1>3 DEF Retained, SweepCommits
    <2>2. CASE r \in doomed
        BY <1>3, <2>2 DEF Seqs
    <2>3. CASE r \notin doomed
        <3>1. r.seq <= floor /\ r.seq \in Nat
            BY <1>0, <2>1, <2>3 DEF Numbering, Retained, StoreTypeOK, Events
        <3>2. QED
            BY <1>0, <1>3, <3>1 DEF StoreTypeOK
    <2>4. QED
        BY <2>2, <2>3
<1>7. QED
    BY <1>4, <1>5, <1>6, StoreStep, Types, TypesKept
    DEF Inv, Numbering, SweepCommits, StoreTypeOK

----
\* A step of the loop that neither moves the cursor nor writes.
LEMMA LoopStep ==
    ASSUME Inv, LoopTypeOK',
           UNCHANGED <<storeVars, clientVars, linkVars, cursor, published>>,
           Connected' => Connected, ~Connected' => wire = <<>>,
           pc' = "page" \/ (pc' = "opened" /\ page' # NoPage) => PageComplete'
    PROVE  Inv'
<1>1. StoreTypeOK' /\ Numbering' /\ ClientTypeOK' /\ LinkTypeOK'
    BY Types, TypesKept DEF Inv
<1>2. TypeOK'
    BY <1>1 DEF TypeOK, StoreTypeOK, LoopTypeOK, ClientTypeOK, LinkTypeOK
<1>3. \A n, i : AccountedTo(n, i)' = AccountedTo(n, i)
    BY DEF AccountedTo, Accounted, Origin
<1>4. PositionsCommitted'
    BY DEF Inv, PositionsCommitted
<1>5. ClientComplete'
    BY <1>3 DEF Inv, ClientComplete
<1>6. WireComplete'
    BY <1>3 DEF Inv, WireComplete
<1>7. LoopComplete'
    BY <1>3 DEF Inv, LoopComplete
<1>8. QED
    BY <1>1, <1>2, <1>4, <1>5, <1>6, <1>7 DEF Inv

\* A page that was complete is, while the log, the cursor and it are the same.
LEMMA PageKept ==
    ASSUME PageComplete, UNCHANGED <<log, last, cursor, page, backlog>> PROVE PageComplete'
BY DEF PageComplete, Pages, Events

\* Preservation: the stream starts.
LEMMA StartStreamInv == ASSUME Inv, StartStream PROVE Inv'
<1>1. LoopTypeOK'
    BY Types DEF Inv, LoopTypeOK, StartStream, Pages, Events
<1>2. pc' = "page" => PageComplete'
    BY PageKept DEF Inv, LoopComplete, StartStream
<1>3. Connected /\ Connected' /\ pc' # "opened"
    BY DEF StartStream, Connected
<1>4. QED
    BY <1>1, <1>2, <1>3, LoopStep DEF StartStream

\* Preservation: a page is read.
LEMMA ReadPageInv == ASSUME Inv, ReadPage PROVE Inv'
<1>1. LoopTypeOK /\ LogNumbered /\ Retained
    BY Types DEF Inv, Numbering
<1>2. PageComplete'
    BY <1>1, ReadAtCursor DEF Inv, PositionsCommitted, ReadPage, LoopTypeOK
<1>3. page' \in Pages'
    BY <1>2 DEF PageComplete
<1>4. LoopTypeOK'
    BY <1>1, <1>3 DEF LoopTypeOK, ReadPage
<1>5. Connected /\ Connected'
    BY DEF ReadPage, Connected
<1>6. QED
    BY <1>2, <1>4, <1>5, LoopStep DEF ReadPage

\* Preservation: a wake.
LEMMA WakeInv == ASSUME Inv, Wake PROVE Inv'
<1>1. PICK n \in notices : /\ Listening
                           /\ notices' = notices \ {n}
                           /\ pending' = (pending \/ (n > cursor /\ pc # "waiting"))
                           /\ pc' = IF n > cursor /\ pc = "waiting" THEN "top" ELSE pc
    BY Zenon DEF Wake
<1>2. pc \in {"read", "top", "page", "waiting"}
    BY <1>1 DEF Listening
<1>3. LoopTypeOK
    BY Types DEF Inv
<1>4. pending' \in BOOLEAN
    BY <1>1
<1>5. pc' = pc \/ pc' = "top"
    BY <1>1
<1>6. LoopTypeOK'
    BY <1>1, <1>3, <1>4, <1>5 DEF LoopTypeOK, Wake, Pages, Events
<1>7. Connected /\ Connected' /\ (pc' = "page" => pc = "page") /\ pc' # "opened"
    BY <1>2, <1>5 DEF Connected
<1>8. pc' = "page" => PageComplete'
    BY <1>7, PageKept DEF Inv, LoopComplete, Wake
<1>9. QED
    BY <1>6, <1>7, <1>8, LoopStep DEF Wake

\* Preservation: the poll interval, the lifetime cap, the end of a stream.
LEMMA TurnInv == ASSUME Inv, Poll \/ Cap \/ Ended PROVE Inv'
<1>1. LoopTypeOK'
    BY Types DEF Inv, LoopTypeOK, Poll, Cap, Ended, Pages, Events
<1>2. UNCHANGED <<storeVars, clientVars, linkVars, cursor, published>>
    BY DEF Poll, Cap, Ended
<1>3. Connected /\ (~Connected' => wire = <<>>) /\ pc' \notin {"page", "opened"}
    BY DEF Poll, Cap, Ended, Connected
<1>4. QED
    BY <1>1, <1>2, <1>3, LoopStep

\* Preservation: the client connects, at the id it holds.
LEMMA ConnectInv == ASSUME Inv, Connect PROVE Inv'
<1> DEFINE asked == IF held # NoCursor THEN held ELSE since
<1>0. /\ StoreTypeOK /\ LoopTypeOK /\ ClientTypeOK /\ LinkTypeOK /\ Numbering
      /\ PositionsCommitted /\ ClientComplete /\ WireComplete
    BY Types DEF Inv
<1>1. asked \in Nat \cup {NoCursor} /\ last \in Nat /\ cursor \in Nat
    BY <1>0, StreamAssumption DEF StoreTypeOK, LoopTypeOK, ClientTypeOK, LinkTypeOK
<1>2. wire = <<>> /\ wire' = <<>> /\ pc = "closed"
    BY <1>0 DEF WireComplete, Connected, Connect
<1>3. \/ /\ asked # NoCursor /\ asked > last
         /\ pc' = "refused" /\ UNCHANGED <<cursor, page>>
      \/ /\ pc' = "opened"
         /\ asked = NoCursor \/ ~ (asked > last)
         /\ cursor' = IF asked = NoCursor THEN last ELSE asked
         /\ page' = IF asked = NoCursor THEN NoPage ELSE Page(asked)
    BY DEF Connect
<1>4. opened' = cursor' /\ backlog' = last /\ published' = NoCursor /\ live' = FALSE
      /\ UNCHANGED <<storeVars, held, got, told, start, since, drops>>
    BY DEF Connect
<1> HIDE DEF asked
<1>5. cursor' \in Nat /\ cursor' <= last
    BY <1>0, <1>1, <1>3 DEF PositionsCommitted
<1>6. StoreTypeOK' /\ Numbering'
    BY <1>0, <1>4, TypesKept
<1>7. pc' = "opened" /\ page' # NoPage => PageComplete'
    <2>1. SUFFICES ASSUME pc' = "opened", page' # NoPage PROVE PageComplete'
        OBVIOUS
    <2>2. page' = Page(cursor')
        BY <1>3, <2>1
    <2>3. LogNumbered /\ Retained /\ TypeOK /\ cursor <= last /\ backlog <= last /\ last <= last
        BY <1>0, <1>1 DEF Numbering, Inv, PositionsCommitted
    <2>4. QED
        BY <1>4, <1>5, <2>2, <2>3, ReadAtCursor
<1>8. LoopTypeOK'
    <2>1. page' = NoPage' \/ page' \in Pages'
        BY <1>0, <1>3, <1>7, <1>4 DEF PageComplete, LoopTypeOK, Pages, Events
    <2>2. announced' = FALSE /\ pending' = FALSE /\ notices' = {}
        BY DEF Connect
    <2>3. QED
        BY <1>3, <1>4, <1>5, <2>1, <2>2 DEF LoopTypeOK
<1>9. ClientTypeOK' /\ LinkTypeOK'
    BY <1>0, <1>1, <1>2, <1>4, <1>5 DEF ClientTypeOK, LinkTypeOK, Frames
<1>10. TypeOK'
    BY <1>6, <1>8, <1>9 DEF TypeOK, StoreTypeOK, LoopTypeOK, ClientTypeOK, LinkTypeOK
<1>11. PositionsCommitted'
    BY <1>0, <1>1, <1>2, <1>4, <1>5 DEF PositionsCommitted
<1>12. ASSUME start # NoCursor, NEW n, NEW i, AccountedTo(n, i) PROVE AccountedTo(n, i)'
    BY <1>2, <1>4, <1>12 DEF AccountedTo, Accounted, Origin
<1>13. ClientComplete'
    BY <1>0, <1>4, <1>12 DEF ClientComplete
<1>14. WireComplete'
    BY <1>2, <1>4 DEF WireComplete, Connected
<1>15. ASSUME pc' = "opened" PROVE AccountedTo(cursor, 0)'
    <2>1. CASE start # NoCursor
        <3>1. held # NoCursor /\ AccountedTo(held, 0)
            BY <1>0, <2>1 DEF ClientComplete
        <3>2. cursor' = held
            BY <1>3, <1>15, <3>1 DEF asked
        <3>3. QED
            BY <1>12, <2>1, <3>1, <3>2 DEF AccountedTo, Accounted, Origin
    <2>2. CASE start = NoCursor
        <3>1. Origin' = cursor'
            BY <1>4, <2>2 DEF Origin
        <3>2. \A r \in log' : r.seq \in Nat
            BY <1>6 DEF StoreTypeOK, Events
        <3>3. QED
            BY <1>5, <3>1, <3>2 DEF AccountedTo
    <2>3. QED
        BY <2>1, <2>2
<1>16. LoopComplete'
    <2>1. Len(wire') = 0
        BY <1>2
    <2>2. Connected' => pc' = "opened"
        BY <1>3 DEF Connected
    <2>3. Connected' => AccountedTo(cursor, Len(wire))'
        BY <1>15, <2>1, <2>2
    <2>4. pc' # "page"
        BY <1>3
    <2>5. QED
        BY <1>7, <2>3, <2>4 DEF LoopComplete
<1>17. QED
    BY <1>6, <1>10, <1>11, <1>13, <1>14, <1>16 DEF Inv

\* Preservation: the connection breaks.
LEMMA DropInv == ASSUME Inv, Drop PROVE Inv'
<1>0. /\ StoreTypeOK /\ LoopTypeOK /\ ClientTypeOK /\ LinkTypeOK /\ Numbering
      /\ PositionsCommitted /\ ClientComplete
    BY Types DEF Inv
<1>1. wire' = <<>> /\ pc' = "closed" /\ notices' = {} /\ drops' = drops + 1 /\ drops < MaxDrops
      /\ UNCHANGED <<storeVars, clientVars, cursor, page, published, announced, pending,
                     since, opened, backlog>>
    BY DEF Drop
<1>2. StoreTypeOK' /\ Numbering' /\ ClientTypeOK'
    BY <1>0, <1>1, TypesKept
<1>3. LoopTypeOK'
    BY <1>0, <1>1 DEF LoopTypeOK, Pages, Events
<1>4. LinkTypeOK'
    BY <1>0, <1>1, StreamAssumption DEF LinkTypeOK, Frames
<1>5. TypeOK'
    BY <1>2, <1>3, <1>4 DEF TypeOK, StoreTypeOK, LoopTypeOK, ClientTypeOK, LinkTypeOK
<1>6. PositionsCommitted'
    BY <1>0, <1>1 DEF PositionsCommitted
<1>7. \A n : AccountedTo(n, 0)' = AccountedTo(n, 0)
    BY <1>1 DEF AccountedTo, Accounted, Origin
<1>8. ClientComplete'
    BY <1>0, <1>1, <1>7 DEF ClientComplete
<1>9. WireComplete' /\ LoopComplete'
    BY <1>1 DEF WireComplete, LoopComplete, Connected
<1>10. QED
    BY <1>2, <1>5, <1>6, <1>8, <1>9 DEF Inv

----
\* A longer part of the wire accounts for more, and a lower number needs less.
LEMMA AccountedMore ==
    ASSUME TypeOK, NEW n \in Nat, NEW m \in Nat, m <= n, NEW i \in Nat, NEW j \in Nat, i <= j,
           AccountedTo(n, i)
    PROVE  AccountedTo(m, j)
<1>1. SUFFICES ASSUME NEW r \in log, Origin < r.seq, r.seq <= m, r.topic \in Wanted
               PROVE  Accounted(r.seq, j)
    BY DEF AccountedTo
<1>2. r.seq \in Nat
    BY DEF TypeOK, Events
<1>3. Accounted(r.seq, i)
    BY <1>1, <1>2 DEF AccountedTo
<1>4. QED
    BY <1>3 DEF Accounted

\* Frames written behind those on the wire take nothing from what those account for.
LEMMA WireGrows ==
    ASSUME TypeOK, NEW more \in Seq(Frames), wire' = wire \o more,
           UNCHANGED <<log, told, got, start, opened>>
    PROVE  /\ wire' \in Seq(Frames) /\ Len(wire') = Len(wire) + Len(more)
           /\ \A i \in 1..Len(wire) : wire'[i] = wire[i]
           /\ \A i \in 1..Len(more) : wire'[Len(wire) + i] = more[i]
           /\ \A n \in Nat : \A i \in 0..Len(wire) : AccountedTo(n, i) => AccountedTo(n, i)'
<1>1. wire \in Seq(Frames)
    BY DEF TypeOK
<1>2. Len(wire) \in Nat /\ Len(more) \in Nat
    BY <1>1
<1>3. /\ wire' \in Seq(Frames) /\ Len(wire') = Len(wire) + Len(more)
      /\ \A i \in 1..Len(wire) : wire'[i] = wire[i]
      /\ \A i \in 1..Len(more) : wire'[Len(wire) + i] = more[i]
    BY <1>1, <1>2, ConcatProperties
<1>4. ASSUME NEW n, NEW i \in 0..Len(wire), Accounted(n, i) PROVE Accounted(n, i)'
    BY <1>2, <1>3, <1>4 DEF Accounted
<1>5. ASSUME NEW n \in Nat, NEW i \in 0..Len(wire), AccountedTo(n, i) PROVE AccountedTo(n, i)'
    BY <1>4, <1>5 DEF AccountedTo, Origin
<1>6. QED
    BY <1>3, <1>5

\* Preservation: the client is told of a truncation, which accounts for all it spans.
LEMMA TruncatedInv == ASSUME Inv, Truncated PROVE Inv'
<1> DEFINE f == Frame("truncated", page.floor)
<1>0. /\ StoreTypeOK /\ LoopTypeOK /\ ClientTypeOK /\ LinkTypeOK /\ Numbering
      /\ PositionsCommitted /\ ClientComplete /\ WireComplete /\ LoopComplete /\ TypeOK
    BY Types DEF Inv
<1>1. pc = "page" /\ pc' = "top" /\ wire' = Append(wire, f) /\ cursor' = page.floor
      /\ UNCHANGED <<storeVars, page, published, announced, pending, notices, clientVars,
                     since, opened, backlog, drops>>
    BY DEF Truncated
<1>2. page.floor \in Nat /\ page.floor <= last
    BY <1>0, <1>1 DEF LoopComplete, PageComplete, Pages
<1>3. f \in Frames /\ f.kind = "truncated" /\ f.seq = page.floor
    BY <1>2 DEF Frame, Frames
<1> HIDE DEF f
<1>4. wire \in Seq(Frames) /\ Len(wire) \in Nat /\ <<f>> \in Seq(Frames) /\ wire' = wire \o <<f>>
    BY <1>0, <1>1, <1>3, AppendIsConcat DEF LinkTypeOK
<1>5. /\ wire' \in Seq(Frames) /\ Len(wire') = Len(wire) + 1
      /\ \A i \in 1..Len(wire) : wire'[i] = wire[i]
      /\ wire'[Len(wire) + 1] = f
      /\ \A n \in Nat : \A i \in 0..Len(wire) : AccountedTo(n, i) => AccountedTo(n, i)'
    <2>1. Len(<<f>>) = 1 /\ <<f>>[1] = f
        OBVIOUS
    <2>2. UNCHANGED <<log, told, got, start, opened>>
        BY <1>1
    <2>3. /\ wire' \in Seq(Frames) /\ Len(wire') = Len(wire) + Len(<<f>>)
          /\ \A i \in 1..Len(wire) : wire'[i] = wire[i]
          /\ \A i \in 1..Len(<<f>>) : wire'[Len(wire) + i] = <<f>>[i]
          /\ \A n \in Nat : \A i \in 0..Len(wire) : AccountedTo(n, i) => AccountedTo(n, i)'
        BY <1>0, <1>4, <2>2, WireGrows
    <2>4. QED
        BY <2>1, <2>3
<1>6. \A i \in 1..Len(wire) : wire[i].seq \in Nat
    <2>1. \A i \in 1..Len(wire) : wire[i] \in Frames
        BY <1>4, ElementOfSeq
    <2>2. QED
        BY <2>1 DEF Frames
<1>7. \A i \in 1..Len(wire') : i \in 1..Len(wire) \/ i = Len(wire) + 1
    BY <1>4, <1>5
<1>8. StoreTypeOK' /\ Numbering' /\ ClientTypeOK'
    BY <1>0, <1>1, TypesKept
<1>9. LoopTypeOK' /\ LinkTypeOK'
    BY <1>0, <1>1, <1>2, <1>5 DEF LoopTypeOK, LinkTypeOK, Pages, Events, Frames
<1>10. TypeOK'
    BY <1>8, <1>9 DEF TypeOK, StoreTypeOK, LoopTypeOK, ClientTypeOK, LinkTypeOK
<1>11. PositionsCommitted'
    BY <1>0, <1>1, <1>2, <1>3, <1>5, <1>7 DEF PositionsCommitted
<1>12. ClientComplete'
    BY <1>0, <1>1, <1>4, <1>5 DEF ClientComplete, ClientTypeOK, LinkTypeOK
<1>13. WireComplete'
    <2>1. Connected /\ Connected'
        BY <1>1 DEF Connected
    <2>2. ASSUME NEW i \in 1..Len(wire'), wire'[i].kind # "truncated"
          PROVE  i \in 1..Len(wire) /\ wire'[i] = wire[i] /\ AccountedTo(wire[i].seq, i)'
        BY <1>0, <1>3, <1>4, <1>5, <1>6, <1>7, <2>2 DEF WireComplete
    <2>3. ASSUME NEW i \in 1..Len(wire'), wire'[i].kind = "live"
          PROVE  /\ backlog <= wire'[i].seq
                 /\ start # NoCursor \/ \E k \in 1..(i - 1) : wire'[k].kind \in Position
        <3>1. i \in 1..Len(wire) /\ wire'[i] = wire[i] /\ wire[i].kind = "live"
            BY <2>2, <2>3
        <3>2. \A k \in 1..(i - 1) : wire'[k] = wire[k]
            BY <1>4, <1>5, <3>1
        <3>3. QED
            BY <1>0, <3>1, <3>2 DEF WireComplete
    <2>4. ASSUME published # NoCursor
          PROVE  start # NoCursor \/ \E k \in 1..Len(wire') : wire'[k].kind \in Position
        BY <1>0, <1>4, <1>5, <2>1, <2>4 DEF WireComplete
    <2>5. QED
        BY <1>1, <2>1, <2>2, <2>3, <2>4 DEF WireComplete
<1>14. LoopComplete'
    <2>1. ASSUME NEW r \in log', r.seq <= page.floor PROVE Accounted(r.seq, Len(wire))'
        BY <1>3, <1>4, <1>5, <2>1 DEF Accounted
    <2>2. AccountedTo(cursor, Len(wire))'
        BY <1>1, <1>5, <2>1 DEF AccountedTo
    <2>3. QED
        BY <1>1, <2>2 DEF LoopComplete
<1>15. QED
    BY <1>8, <1>10, <1>11, <1>12, <1>13, <1>14 DEF Inv

\* What a page writes behind what the wire holds: its rows in order, then a checkpoint when they
\* do not give the position it reached, then the announcement when nothing was left to read.
LEMMA DeliverFrames ==
    ASSUME Inv, Deliver
    PROVE  \E n \in Nat, reached \in Nat, more \in BOOLEAN, tail \in Seq(Frames) :
               /\ reached = page.scanned /\ more = (reached > cursor /\ page.scanned < page.head)
               /\ cursor' = reached /\ published' = reached
               /\ pc' \in {"top", "waiting"}
               /\ announced' \in BOOLEAN /\ pending' \in BOOLEAN
               /\ Len(tail) >= n /\ wire' = wire \o tail
               /\ \A i \in 1..n : tail[i].kind = "data" /\ tail[i].seq \in Seqs(page.rows)
               /\ \A r \in page.rows : \E i \in 1..n : tail[i].seq = r.seq
               /\ \A i, j \in 1..n : i < j => tail[i].seq < tail[j].seq
               /\ \A i \in 1..Len(tail) : i > n =>
                      tail[i].kind \in {"checkpoint", "live"} /\ tail[i].seq = reached
               /\ \A i \in 1..Len(tail) : tail[i].kind = "live" =>
                      /\ ~more
                      /\ published = reached \/ \E k \in 1..(i - 1) : tail[k].kind \in Position
               /\ published = reached \/ \E k \in 1..Len(tail) : tail[k].kind \in Position
<1> DEFINE reached == Max(cursor, page.scanned)
           delivered == IF page.rows = {} THEN published ELSE Highest(Seqs(page.rows))
           more == reached > cursor /\ page.scanned < page.head
           D == DataFrames(page.rows)
           C == Checkpoint(delivered, reached)
           L == IF more \/ announced THEN <<>> ELSE <<Frame("live", reached)>>
           n == Len(D)
           tail == D \o C \o L
<1>0. StoreTypeOK /\ LoopTypeOK /\ LinkTypeOK /\ LogNumbered /\ TypeOK /\ PageComplete
    BY Types DEF Inv, Numbering, LoopComplete, Deliver
<1>1. page.scanned \in Nat /\ page.head \in Nat /\ cursor \in Nat /\ cursor <= page.scanned
    BY <1>0 DEF PageComplete, Pages, LoopTypeOK
<1>2. reached = page.scanned /\ reached \in Nat
    BY <1>1 DEF Max
<1>3. Numbered(page.rows)
    <2>1. page.rows \subseteq log /\ IsFiniteSet(page.rows)
        BY <1>0, FS_Subset DEF PageComplete, LogNumbered
    <2>2. Seqs(page.rows) \in SUBSET Nat
        BY <1>0, <2>1 DEF Seqs, StoreTypeOK, Events
    <2>3. QED
        BY <1>0, <2>1, <2>2 DEF Numbered, LogNumbered
<1>4. /\ D \in Seq(Frames) /\ n \in Nat
      /\ \A i \in 1..n : D[i].kind = "data" /\ D[i].seq \in Seqs(page.rows)
      /\ \A r \in page.rows : \E i \in 1..n : D[i].seq = r.seq
      /\ \A i, j \in 1..n : i < j => D[i].seq < D[j].seq
    BY <1>3, DataFramesOf
<1>5. /\ wire' = wire \o D \o C \o L
      /\ cursor' = reached /\ published' = reached
      /\ pc' = IF more \/ pending THEN "top" ELSE "waiting"
      /\ announced' = (announced \/ ~more) /\ pending' = (pending /\ more)
    BY DEF Deliver
<1>6. Frame("checkpoint", reached) \in Frames /\ Frame("live", reached) \in Frames
    BY <1>2 DEF Frame, Frames
<1>7. /\ C \in Seq(Frames) /\ Len(C) \in {0, 1}
      /\ reached # delivered => Len(C) = 1
      /\ \A i \in 1..Len(C) : C[i].kind = "checkpoint" /\ C[i].seq = reached
    <2>1. CASE reached = delivered
        BY <2>1 DEF Checkpoint
    <2>2. CASE reached # delivered
        <3>1. C = <<[kind |-> "checkpoint", seq |-> reached]>>
            BY <2>2 DEF Checkpoint, Frame
        <3>2. [kind |-> "checkpoint", seq |-> reached] \in Frames
            BY <1>6 DEF Frame
        <3> HIDE DEF C, reached, delivered
        <3>3. C \in Seq(Frames) /\ Len(C) = 1 /\ C[1] = [kind |-> "checkpoint", seq |-> reached]
            BY <3>1, <3>2
        <3>4. QED
            BY <3>3
    <2>3. QED
        BY <2>1, <2>2
<1>8. /\ L \in Seq(Frames) /\ Len(L) \in {0, 1}
      /\ \A i \in 1..Len(L) : L[i].kind = "live" /\ L[i].seq = reached /\ ~more
    <2>1. CASE more \/ announced
        BY <2>1
    <2>2. CASE ~ (more \/ announced)
        <3>1. L = <<[kind |-> "live", seq |-> reached]>> /\ ~more
            BY <2>2 DEF Frame
        <3>2. QED
            BY <1>6, <3>1 DEF Frame
    <2>3. QED
        BY <2>1, <2>2
<1>9. more \in BOOLEAN /\ announced' \in BOOLEAN /\ pending' \in BOOLEAN
      /\ pc' \in {"top", "waiting"}
    <2>1. announced \in BOOLEAN /\ pending \in BOOLEAN /\ more \in BOOLEAN
        BY <1>0 DEF LoopTypeOK
    <2>2. QED
        BY <1>5, <2>1
<1>10. delivered = published \/ n > 0
    BY <1>4, FS_EmptySet
<1> HIDE DEF D, C, L, n, delivered
<1>11. /\ D \o C \in Seq(Frames) /\ Len(D \o C) = n + Len(C)
       /\ \A i \in 1..(n + Len(C)) : (D \o C)[i] = IF i <= n THEN D[i] ELSE C[i - n]
    BY <1>4, <1>7, ConcatProperties DEF n
<1>12. /\ tail \in Seq(Frames) /\ Len(tail) = n + Len(C) + Len(L)
       /\ \A i \in 1..(n + Len(C) + Len(L)) :
              tail[i] = IF i <= n + Len(C) THEN (D \o C)[i] ELSE L[i - (n + Len(C))]
    BY <1>8, <1>11, ConcatProperties
<1>13. wire' = wire \o tail
    <2>1. wire \in Seq(Frames)
        BY <1>0 DEF LinkTypeOK
    <2>2. wire \o D \o C = wire \o (D \o C)
        BY <1>4, <1>7, <2>1, ConcatAssociative
    <2> DEFINE E == D \o C
    <2>3. E \in Seq(Frames)
        BY <1>11
    <2> HIDE DEF E
    <2>4. (wire \o E) \o L = wire \o (E \o L)
        BY <1>8, <2>1, <2>3, ConcatAssociative
    <2>5. QED
        BY <1>5, <2>2, <2>4 DEF E
<1> HIDE DEF tail, reached, more
<1>14. \A i \in 1..n : tail[i] = D[i]
    BY <1>4, <1>7, <1>8, <1>11, <1>12
<1>15. ASSUME NEW i \in 1..Len(tail), i > n
       PROVE  \/ i = n + 1 /\ Len(C) = 1 /\ tail[i] = C[1]
              \/ i = n + Len(C) + 1 /\ Len(L) = 1 /\ tail[i] = L[1]
    <2>1. CASE i <= n + Len(C)
        <3>1. Len(C) = 1 /\ i = n + 1
            BY <1>4, <1>7, <1>15, <2>1
        <3>2. /\ i \in 1..(n + Len(C)) /\ i \in 1..(n + Len(C) + Len(L))
              /\ ~ (i <= n) /\ i - n = 1
            BY <1>4, <1>7, <1>8, <3>1
        <3>4. (D \o C)[i] = C[i - n]
            BY <1>11, <3>2
        <3>5. tail[i] = (D \o C)[i]
            BY <1>12, <2>1, <3>2
        <3>6. tail[i] = C[1]
            BY <3>2, <3>4, <3>5
        <3>3. QED
            BY <3>1, <3>6
    <2>2. CASE i > n + Len(C)
        <3>0. i \in Nat /\ i <= n + Len(C) + Len(L) /\ n \in Nat /\ Len(C) \in Nat
            BY <1>4, <1>7, <1>12
        <3>1. Len(L) = 1 /\ i = n + Len(C) + 1
            BY <1>8, <2>2, <3>0
        <3>2. tail[i] = L[1]
            BY <1>4, <1>7, <1>8, <1>12, <3>1
        <3>3. QED
            BY <3>1, <3>2
    <2>3. QED
        BY <1>4, <1>7, <1>12, <2>1, <2>2
<1>16. \A i \in 1..Len(tail) : i > n =>
           tail[i].kind \in {"checkpoint", "live"} /\ tail[i].seq = reached
    BY <1>7, <1>8, <1>15
<1>17. ASSUME published # reached PROVE \E k \in 1..(n + Len(C)) : tail[k].kind \in Position
    <2>1. n > 0 \/ Len(C) = 1
        BY <1>7, <1>10, <1>17
    <2>2. CASE n > 0
        BY <1>4, <1>7, <1>14, <2>2 DEF Position
    <2>3. CASE n = 0 /\ Len(C) = 1
        <3>1. tail[1] = C[1]
            BY <1>7, <1>8, <1>11, <1>12, <2>3
        <3>2. QED
            BY <1>7, <2>3, <3>1 DEF Position
    <2>4. QED
        BY <1>4, <2>1, <2>2, <2>3
<1>18. ASSUME NEW i \in 1..Len(tail), tail[i].kind = "live"
       PROVE  /\ ~more
              /\ published = reached \/ \E k \in 1..(i - 1) : tail[k].kind \in Position
    <2>1. i > n
        BY <1>4, <1>12, <1>14, <1>18, <1>7, <1>8
    <2>2. i = n + Len(C) + 1 /\ Len(L) = 1
        BY <1>7, <1>15, <1>18, <2>1
    <2>3. QED
        BY <1>4, <1>7, <1>8, <1>17, <2>2
<1>19. Len(tail) >= n /\ (published = reached \/ \E k \in 1..Len(tail) : tail[k].kind \in Position)
    BY <1>4, <1>7, <1>8, <1>12, <1>17
<1>20. /\ \A i \in 1..n : tail[i].kind = "data" /\ tail[i].seq \in Seqs(page.rows)
       /\ \A r \in page.rows : \E i \in 1..n : tail[i].seq = r.seq
       /\ \A i, j \in 1..n : i < j => tail[i].seq < tail[j].seq
    BY <1>4, <1>14
<1>21. n \in Nat /\ reached \in Nat /\ more \in BOOLEAN /\ tail \in Seq(Frames)
    BY <1>2, <1>4, <1>9, <1>12
<1>22. more = (reached > cursor /\ page.scanned < page.head)
    BY DEF more
<1>23. QED
    BY <1>2, <1>5, <1>9, <1>13, <1>16, <1>18, <1>19, <1>20, <1>21, <1>22

\* Preservation: a page is written.
LEMMA DeliverInv == ASSUME Inv, Deliver PROVE Inv'
<1>0. /\ StoreTypeOK /\ LoopTypeOK /\ ClientTypeOK /\ LinkTypeOK /\ Numbering
      /\ PositionsCommitted /\ ClientComplete /\ WireComplete /\ LoopComplete /\ TypeOK
    BY Types DEF Inv
<1>1. PICK n \in Nat, reached \in Nat, more \in BOOLEAN, tail \in Seq(Frames) :
               /\ reached = page.scanned /\ more = (reached > cursor /\ page.scanned < page.head)
               /\ cursor' = reached /\ published' = reached
               /\ pc' \in {"top", "waiting"}
               /\ announced' \in BOOLEAN /\ pending' \in BOOLEAN
               /\ Len(tail) >= n /\ wire' = wire \o tail
               /\ \A i \in 1..n : tail[i].kind = "data" /\ tail[i].seq \in Seqs(page.rows)
               /\ \A r \in page.rows : \E i \in 1..n : tail[i].seq = r.seq
               /\ \A i, j \in 1..n : i < j => tail[i].seq < tail[j].seq
               /\ \A i \in 1..Len(tail) : i > n =>
                      tail[i].kind \in {"checkpoint", "live"} /\ tail[i].seq = reached
               /\ \A i \in 1..Len(tail) : tail[i].kind = "live" =>
                      /\ ~more
                      /\ published = reached \/ \E k \in 1..(i - 1) : tail[k].kind \in Position
               /\ published = reached \/ \E k \in 1..Len(tail) : tail[k].kind \in Position
    BY DeliverFrames
<1>a. /\ n \in Nat /\ n <= Len(tail)
      /\ \A i \in 1..n : tail[i].seq \in Seqs(page.rows)
      /\ \A i, j \in 1..n : i < j => tail[i].seq < tail[j].seq
      /\ \A i \in 1..Len(tail) : i > n => tail[i].seq = reached
    BY <1>1
<1>b. ~more => ~ (reached > cursor /\ page.scanned < page.head)
    BY <1>1
<1>2. /\ pc = "page" /\ cursor >= page.floor
      /\ UNCHANGED <<storeVars, page, notices, clientVars, since, opened, backlog, drops>>
    BY DEF Deliver
<1>3. PageComplete /\ Connected /\ Connected'
    BY <1>0, <1>1, <1>2 DEF LoopComplete, Connected
<1>4. /\ cursor \in Nat /\ last \in Nat /\ backlog \in Nat /\ page.floor \in Nat
      /\ page.head \in Nat /\ page.scanned \in Nat /\ reached <= last /\ cursor <= reached
      /\ \A r \in log : r.seq \in Nat
    BY <1>0, <1>1, <1>3 DEF StoreTypeOK, LoopTypeOK, LinkTypeOK, PageComplete, Pages, Events
<1>5. /\ wire' \in Seq(Frames) /\ Len(wire') = Len(wire) + Len(tail)
      /\ \A i \in 1..Len(wire) : wire'[i] = wire[i]
      /\ \A i \in 1..Len(tail) : wire'[Len(wire) + i] = tail[i]
      /\ \A m \in Nat : \A i \in 0..Len(wire) : AccountedTo(m, i) => AccountedTo(m, i)'
    <2>1. UNCHANGED <<log, told, got, start, opened>>
        BY <1>2
    <2>2. QED
        BY <1>0, <1>1, <2>1, WireGrows
<1>6. wire \in Seq(Frames) /\ Len(wire) \in Nat /\ Len(tail) \in Nat
    BY <1>0, <1>1 DEF LinkTypeOK
<1>7. \A i \in 1..Len(wire) : wire[i].seq \in Nat
    <2>1. \A i \in 1..Len(wire) : wire[i] \in Frames
        BY <1>6, ElementOfSeq
    <2>2. QED
        BY <2>1 DEF Frames
<1>8. \A i \in 1..Len(wire') :
          i \in 1..Len(wire) \/ \E k \in 1..Len(tail) : i = Len(wire) + k /\ wire'[i] = tail[k]
    <2>1. SUFFICES ASSUME NEW i \in 1..Len(wire'), i \notin 1..Len(wire)
                   PROVE  \E k \in 1..Len(tail) : i = Len(wire) + k /\ wire'[i] = tail[k]
        OBVIOUS
    <2>2. i - Len(wire) \in 1..Len(tail) /\ i = Len(wire) + (i - Len(wire))
        BY <1>5, <1>6, <2>1
    <2>3. QED
        BY <1>5, <2>2
<1>9. \A i \in 1..Len(tail) : tail[i].seq \in Nat /\ tail[i].seq <= reached
    <2>1. SUFFICES ASSUME NEW i \in 1..Len(tail)
                   PROVE  tail[i].seq \in Nat /\ tail[i].seq <= reached
        OBVIOUS
    <2>2. CASE i > n
        BY <1>a, <2>2
    <2>3. CASE ~ (i > n)
        <3>1. i \in 1..n
            BY <1>a, <2>3
        <3>2. PICK r \in page.rows : r.seq = tail[i].seq
            BY <1>a, <3>1 DEF Seqs
        <3>3. r \in log /\ r.seq <= page.scanned
            BY <1>3 DEF PageComplete
        <3>4. QED
            BY <1>1, <1>4, <3>2, <3>3
    <2>4. QED
        BY <2>2, <2>3
<1>10. StoreTypeOK' /\ Numbering' /\ ClientTypeOK'
    BY <1>0, <1>2, TypesKept
<1>11. LoopTypeOK' /\ LinkTypeOK'
    <2>1. LoopTypeOK'
        BY <1>0, <1>1, <1>2 DEF LoopTypeOK, Pages, Events
    <2>2. LinkTypeOK'
        BY <1>0, <1>2, <1>5 DEF LinkTypeOK, Frames
    <2>3. QED
        BY <2>1, <2>2
<1>12. TypeOK'
    BY <1>10, <1>11 DEF TypeOK, StoreTypeOK, LoopTypeOK, ClientTypeOK, LinkTypeOK
<1>13. PositionsCommitted'
    <2>1. \A i \in 1..Len(wire') : wire'[i].seq <= last
        <3>1. \A i \in 1..Len(wire) : wire'[i].seq <= last
            BY <1>0, <1>5 DEF PositionsCommitted
        <3>2. \A k \in 1..Len(tail) : tail[k].seq <= last
            BY <1>4, <1>9
        <3>3. QED
            BY <1>8, <3>1, <3>2
    <2>2. QED
        BY <1>0, <1>1, <1>2, <1>4, <2>1 DEF PositionsCommitted
<1>14. ClientComplete'
    BY <1>0, <1>2, <1>5, <1>6 DEF ClientComplete, ClientTypeOK, LinkTypeOK
<1>15. AccountedTo(cursor, Len(wire))
    BY <1>0, <1>3 DEF LoopComplete
<1>16. \A r \in log : Origin < r.seq /\ r.seq <= cursor /\ r.topic \in Wanted =>
           Accounted(r.seq, Len(wire))
    BY <1>15 DEF AccountedTo
<1>17. \A r \in log : cursor < r.seq /\ r.seq <= reached /\ r.topic \in Wanted =>
           \E k \in 1..n : tail[k].seq = r.seq /\ tail[k].kind = "data"
    BY <1>1, <1>2, <1>3, <1>4 DEF PageComplete
<1>18. ASSUME NEW r \in log, NEW i \in 0..Len(tail), Accounted(r.seq, Len(wire))
       PROVE  \A j \in 0..Len(wire') : j = Len(wire) + i => Accounted(r.seq, j)'
    <2>1. SUFFICES ASSUME NEW j \in 0..Len(wire'), j = Len(wire) + i PROVE Accounted(r.seq, j)'
        OBVIOUS
    <2>2. \A k \in 1..Len(wire) : k \in 1..j /\ wire'[k] = wire[k]
        BY <1>5, <1>6, <2>1
    <2>3. QED
        BY <1>2, <1>18, <2>2 DEF Accounted
<1>19. ASSUME NEW r \in log, NEW i \in 1..Len(tail), NEW k \in 1..i,
              tail[k].seq = r.seq, tail[k].kind = "data"
       PROVE  \A j \in 0..Len(wire') : j = Len(wire) + i => Accounted(r.seq, j)'
    <2>3. k \in 1..Len(tail) /\ Len(wire) + k \in 1..(Len(wire) + i)
        BY <1>6
    <2>1. Len(wire) + k \in 1..(Len(wire) + i) /\ wire'[Len(wire) + k] = tail[k]
        BY <1>5, <2>3
    <2>2. QED
        BY <1>19, <2>1 DEF Accounted
<1>20. Origin' = Origin /\ log' = log
    BY <1>2 DEF Origin
<1>21. ASSUME NEW i \in 1..Len(tail), NEW j \in 1..Len(wire'), j = Len(wire) + i
       PROVE  AccountedTo(wire[j].seq, j)'
    <2>1. wire'[j].seq = tail[i].seq
        BY <1>5, <1>21
    <2>2. SUFFICES ASSUME NEW r \in log, Origin < r.seq, r.seq <= tail[i].seq, r.topic \in Wanted
                   PROVE  Accounted(r.seq, j)'
        BY <1>20, <2>1 DEF AccountedTo
    <2>3. CASE r.seq <= cursor
        BY <1>16, <1>18, <1>21, <2>2, <2>3
    <2>4. CASE r.seq > cursor
        <3>1. r.seq <= reached
            BY <1>4, <1>9, <2>2
        <3>2. PICK k \in 1..n : tail[k].seq = r.seq /\ tail[k].kind = "data"
            BY <1>4, <1>17, <2>2, <2>4, <3>1
        <3>3. k <= i
            <4>1. CASE i > n
                BY <4>1, <1>1
            <4>2. CASE i <= n
                <5>1. ~ (tail[i].seq < tail[k].seq)
                    BY <1>4, <1>9, <2>2, <3>2
                <5>2. i \in 1..n /\ ~ (i < k)
                    BY <1>a, <4>2, <5>1
                <5>3. QED
                    BY <5>2
            <4>3. QED
                BY <4>1, <4>2, <1>1, <1>6
        <3>4. k \in 1..i
            BY <3>3
        <3>5. QED
            BY <1>19, <1>21, <3>2, <3>4
    <2>5. QED
        BY <1>4, <2>3, <2>4
<1>22. WireComplete'
    <2>1. ASSUME NEW i \in 1..Len(wire'), wire'[i].kind # "truncated"
          PROVE  AccountedTo(wire[i].seq, i)'
        <3>1. CASE i \in 1..Len(wire)
            <4>1. wire'[i] = wire[i] /\ AccountedTo(wire[i].seq, i)
                BY <1>0, <1>5, <2>1, <3>1 DEF WireComplete
            <4>2. i \in 0..Len(wire) /\ wire[i].seq \in Nat
                BY <1>6, <1>7, <3>1
            <4>3. \A m \in Nat : m = wire[i].seq => AccountedTo(m, i)'
                BY <1>5, <4>1, <4>2
            <4>4. QED
                BY <4>1, <4>2, <4>3 DEF AccountedTo
        <3>2. CASE i \notin 1..Len(wire)
            BY <1>8, <1>21, <3>2
        <3>3. QED
            BY <3>1, <3>2
    <2>2. ASSUME published = reached
          PROVE  start # NoCursor \/ \E k \in 1..Len(wire) : wire'[k].kind \in Position
        BY <1>0, <1>3, <1>4, <1>5, <2>2, StreamAssumption DEF WireComplete
    <2>3. ASSUME NEW i \in 1..Len(wire'), wire'[i].kind = "live"
          PROVE  /\ backlog <= wire'[i].seq
                 /\ start # NoCursor \/ \E k \in 1..(i - 1) : wire'[k].kind \in Position
        <3>1. CASE i \in 1..Len(wire)
            <4>1. wire[i].kind = "live" /\ wire'[i] = wire[i]
                BY <1>5, <2>3, <3>1
            <4>2. \A k \in 1..(i - 1) : wire'[k] = wire[k]
                BY <1>5, <1>6, <3>1
            <4>3. QED
                BY <1>0, <3>1, <4>1, <4>2 DEF WireComplete
        <3>2. CASE i \notin 1..Len(wire)
            <4>1. PICK k \in 1..Len(tail) : i = Len(wire) + k /\ wire'[i] = tail[k]
                BY <1>8, <3>2
            <4>2. ~more /\ tail[k].kind = "live"
                BY <1>1, <2>3, <4>1
            <4>3. k > n /\ tail[k].seq = reached
                BY <1>1, <4>2
            <4>4. backlog <= reached
                <5>1. \/ page.scanned = cursor \/ page.scanned >= page.head
                    BY <1>1, <1>b, <1>4, <4>2
                <5>2. page.head <= reached
                    BY <1>1, <1>2, <1>3, <1>4, <5>1 DEF PageComplete
                <5>3. QED
                    BY <1>3, <1>4, <5>2 DEF PageComplete
            <4>5. start # NoCursor \/ \E m \in 1..(i - 1) : wire'[m].kind \in Position
                <5>1. CASE published = reached
                    BY <1>6, <2>2, <4>1, <5>1
                <5>2. CASE published # reached
                    <6>1. PICK m \in 1..(k - 1) : tail[m].kind \in Position
                        BY <1>1, <4>2, <5>2
                    <6>2. Len(wire) + m \in 1..(i - 1) /\ wire'[Len(wire) + m] = tail[m]
                        BY <1>5, <1>6, <4>1, <6>1
                    <6>3. QED
                        BY <6>1, <6>2
                <5>3. QED
                    BY <5>1, <5>2
            <4>6. QED
                BY <4>1, <4>3, <4>4, <4>5
        <3>3. QED
            BY <3>1, <3>2
    <2>4. start # NoCursor \/ \E k \in 1..Len(wire') : wire'[k].kind \in Position
        <3>1. CASE published = reached
            BY <1>5, <1>6, <2>2, <3>1
        <3>2. CASE published # reached
            <4>1. PICK m \in 1..Len(tail) : tail[m].kind \in Position
                BY <1>1, <3>2
            <4>2. Len(wire) + m \in 1..Len(wire') /\ wire'[Len(wire) + m] = tail[m]
                BY <1>5, <1>6, <4>1
            <4>3. QED
                BY <4>1, <4>2
        <3>3. QED
            BY <3>1, <3>2
    <2>5. QED
        BY <1>2, <1>3, <2>1, <2>3, <2>4 DEF WireComplete
<1>23. LoopComplete'
    <2>1. ASSUME NEW r \in log, Origin < r.seq, r.seq <= reached, r.topic \in Wanted
          PROVE  Accounted(r.seq, Len(wire))'
        <3>1. Len(wire') \in 0..Len(wire') /\ Len(tail) \in 0..Len(tail)
              /\ Len(wire') = Len(wire) + Len(tail)
            BY <1>5, <1>6
        <3>2. CASE r.seq <= cursor
            BY <1>16, <1>18, <2>1, <3>1, <3>2
        <3>3. CASE r.seq > cursor
            <4>1. PICK k \in 1..n : tail[k].seq = r.seq /\ tail[k].kind = "data"
                BY <1>4, <1>17, <2>1, <3>3
            <4>2. k \in 1..Len(tail) /\ Len(tail) \in 1..Len(tail)
                BY <1>1, <1>6, <4>1
            <4>3. QED
                BY <1>19, <3>1, <4>1, <4>2
        <3>4. QED
            BY <1>4, <3>2, <3>3
    <2>2. AccountedTo(cursor, Len(wire))'
        BY <1>1, <1>20, <2>1 DEF AccountedTo
    <2>3. QED
        BY <1>1, <2>2 DEF LoopComplete
<1>24. QED
    BY <1>10, <1>12, <1>13, <1>14, <1>22, <1>23 DEF Inv

\* The client takes the first frame: what the wire accounted for with it, it does without it.
LEMMA ReceiveShifts ==
    ASSUME Inv, Receive, NEW n \in Nat, NEW i \in Nat, i < Len(wire), AccountedTo(n, i + 1)
    PROVE  AccountedTo(n, i)'
<1> DEFINE f == wire[1]
<1>0. StoreTypeOK /\ ClientTypeOK /\ LinkTypeOK
    BY Types DEF Inv
<1>1. /\ wire \in Seq(Frames) /\ wire # <<>> /\ wire' = Tail(wire) /\ Head(wire) = f
      /\ got' = IF f.kind = "data" THEN Append(got, f.seq) ELSE got
      /\ told' = IF f.kind = "truncated" THEN Max(told, f.seq) ELSE told
      /\ start' = IF start = NoCursor /\ f.kind # "truncated" THEN opened ELSE start
      /\ UNCHANGED <<log, opened>>
    BY <1>0 DEF Receive, LinkTypeOK
<1>2. /\ f \in Frames /\ Len(wire) \in Nat /\ Len(wire') = Len(wire) - 1
      /\ \A k \in 1..Len(wire') : wire'[k] = wire[k + 1]
    BY <1>1, HeadTailProperties, LenProperties
<1>3. f.seq \in Nat /\ told \in Nat /\ got \in Seq(Nat)
    BY <1>0, <1>2 DEF Frames, ClientTypeOK
<1> HIDE DEF f
<1>4. told' \in Nat /\ told <= told' /\ (f.kind = "truncated" => f.seq <= told')
    BY <1>1, <1>3 DEF Max
<1>5. /\ \A k \in 1..Len(got) : k \in 1..Len(got') /\ got'[k] = got[k]
      /\ f.kind = "data" => \E k \in 1..Len(got') : got'[k] = f.seq
    <2>1. CASE f.kind = "data"
        <3>1. got' = Append(got, f.seq) /\ Len(got) \in Nat
            BY <1>1, <1>3, <2>1
        <3>2. /\ Len(got') = Len(got) + 1 /\ got'[Len(got) + 1] = f.seq
              /\ \A k \in 1..Len(got) : got'[k] = got[k]
            BY <1>3, <3>1, AppendProperties
        <3>3. QED
            BY <3>1, <3>2
    <2>2. CASE f.kind # "data"
        BY <1>1, <2>2
    <2>3. QED
        BY <2>1, <2>2
<1>6. Origin' = Origin
    BY <1>1 DEF Origin
<1>7. SUFFICES ASSUME NEW r \in log, Origin < r.seq, r.seq <= n, r.topic \in Wanted
               PROVE  Accounted(r.seq, i)'
    BY <1>1, <1>6 DEF AccountedTo
<1>8. r.seq \in Nat
    BY <1>0 DEF StoreTypeOK, Events
<1>9. Accounted(r.seq, i + 1)
    BY <1>7 DEF AccountedTo
<1>10. CASE r.seq <= told
    BY <1>3, <1>4, <1>8, <1>10 DEF Accounted
<1>11. CASE \E k \in 1..Len(got) : got[k] = r.seq
    BY <1>5, <1>11 DEF Accounted
<1>12. ASSUME NEW k \in 1..(i + 1),
              \/ wire[k].kind = "data" /\ wire[k].seq = r.seq
              \/ wire[k].kind = "truncated" /\ r.seq <= wire[k].seq
       PROVE  Accounted(r.seq, i)'
    <2>1. CASE k = 1
        <3>1. \/ f.kind = "data" /\ f.seq = r.seq
              \/ f.kind = "truncated" /\ r.seq <= f.seq
            BY <1>12, <2>1 DEF f
        <3>2. QED
            BY <1>3, <1>4, <1>5, <1>8, <3>1 DEF Accounted
    <2>2. CASE k # 1
        <3>1. k - 1 \in 1..i /\ k - 1 \in 1..Len(wire') /\ (k - 1) + 1 = k
            BY <1>2, <2>2
        <3>2. wire'[k - 1] = wire[k]
            BY <1>2, <3>1
        <3>3. QED
            BY <1>12, <3>1, <3>2 DEF Accounted
    <2>3. QED
        BY <2>1, <2>2
<1>13. QED
    BY <1>9, <1>10, <1>11, <1>12 DEF Accounted

\* Preservation: the client takes a frame.
LEMMA ReceiveInv == ASSUME Inv, Receive PROVE Inv'
<1> DEFINE f == wire[1]
<1>0. /\ StoreTypeOK /\ LoopTypeOK /\ ClientTypeOK /\ LinkTypeOK /\ Numbering
      /\ PositionsCommitted /\ ClientComplete /\ WireComplete /\ LoopComplete /\ TypeOK
    BY Types DEF Inv
<1>1. /\ wire \in Seq(Frames) /\ wire # <<>> /\ wire' = Tail(wire) /\ Head(wire) = f
      /\ held' = IF f.kind \in {"data", "checkpoint"} THEN f.seq ELSE held
      /\ got' = IF f.kind = "data" THEN Append(got, f.seq) ELSE got
      /\ told' = IF f.kind = "truncated" THEN Max(told, f.seq) ELSE told
      /\ live' = (live \/ f.kind = "live")
      /\ start' = IF start = NoCursor /\ f.kind # "truncated" THEN opened ELSE start
      /\ UNCHANGED <<storeVars, loopVars, since, opened, backlog, drops>>
    BY <1>0 DEF Receive, LinkTypeOK
<1>2. /\ f \in Frames /\ Len(wire) \in Nat /\ Len(wire) > 0 /\ Len(wire') = Len(wire) - 1
      /\ wire' \in Seq(Frames)
      /\ \A k \in 1..Len(wire') : wire'[k] = wire[k + 1]
    BY <1>1, HeadTailProperties, LenProperties, EmptySeq
<1>3. f.seq \in Nat /\ told \in Nat /\ f.kind \in {"data", "checkpoint", "truncated", "live"}
      /\ got \in Seq(Nat)
    BY <1>0, <1>2 DEF Frames, ClientTypeOK
<1>4. Connected
    BY <1>0, <1>1 DEF WireComplete
<1>5. \A n \in Nat : \A i \in Nat : i < Len(wire) /\ AccountedTo(n, i + 1) => AccountedTo(n, i)'
    BY ReceiveShifts
<1>6. \A n \in Nat : AccountedTo(n, 0) => AccountedTo(n, 0)'
    <2>1. SUFFICES ASSUME NEW n \in Nat, AccountedTo(n, 0) PROVE AccountedTo(n, 0)'
        OBVIOUS
    <2>2. AccountedTo(n, 1)
        BY <1>0, <2>1, AccountedMore
    <2>3. 0 + 1 = 1 /\ 0 < Len(wire)
        BY <1>2
    <2>4. QED
        BY <1>5, <2>2, <2>3
<1>7. f.kind # "truncated" => \A n \in Nat : n = f.seq => AccountedTo(n, 0)'
    <2>1. SUFFICES ASSUME f.kind # "truncated", NEW n \in Nat, n = f.seq
                   PROVE  AccountedTo(n, 0)'
        OBVIOUS
    <2>2. 1 \in 1..Len(wire) /\ 0 + 1 = 1 /\ 0 < Len(wire)
        BY <1>2
    <2>3. AccountedTo(n, 1)
        BY <1>0, <2>1, <2>2 DEF WireComplete
    <2>4. QED
        BY <1>5, <2>2, <2>3
<1>8. StoreTypeOK' /\ Numbering' /\ LoopTypeOK'
    BY <1>0, <1>1, TypesKept
<1>9. ClientTypeOK'
    <2>1. got' \in Seq(Nat)
        BY <1>1, <1>3, AppendProperties
    <2>2. live' \in BOOLEAN
        BY <1>0, <1>1 DEF ClientTypeOK
    <2>3. told' \in Nat /\ held' \in Nat \cup {NoCursor} /\ start' \in Nat \cup {NoCursor}
        BY <1>0, <1>1, <1>3 DEF ClientTypeOK, LinkTypeOK, Max
    <2>4. QED
        BY <2>1, <2>2, <2>3 DEF ClientTypeOK
<1>10. LinkTypeOK'
    BY <1>0, <1>1, <1>2 DEF LinkTypeOK, Frames
<1>11. TypeOK'
    BY <1>8, <1>9, <1>10 DEF TypeOK, StoreTypeOK, LoopTypeOK, ClientTypeOK, LinkTypeOK
<1>12. 1 \in 1..Len(wire) /\ \A i \in 1..Len(wire') : i + 1 \in 1..Len(wire) /\ i \in Nat
    BY <1>2
<1>13. PositionsCommitted'
    <2>1. f.seq <= last
        BY <1>0, <1>12 DEF PositionsCommitted
    <2>2. \A i \in 1..Len(wire') : wire'[i].seq <= last
        BY <1>0, <1>2, <1>12 DEF PositionsCommitted
    <2>3. told' <= last
        BY <1>0, <1>1, <2>1 DEF PositionsCommitted, Max
    <2>4. (held' # NoCursor => held' <= last) /\ (start' # NoCursor => start' <= last)
        BY <1>0, <1>1, <2>1 DEF PositionsCommitted
    <2>5. QED
        BY <1>0, <1>1, <2>2, <2>3, <2>4 DEF PositionsCommitted
<1>14. f.kind = "live" => backlog <= f.seq /\ start # NoCursor
    <2>1. 1..(1 - 1) = {}
        OBVIOUS
    <2>2. QED
        BY <1>0, <1>12, <2>1 DEF WireComplete
<1> HIDE DEF f
<1>15. ClientComplete'
    <2>1. opened # NoCursor /\ f.seq # NoCursor
        BY <1>0, <1>3, StreamAssumption DEF LinkTypeOK
    <2>2. start' = NoCursor <=> held' = NoCursor
        BY <1>0, <1>1, <1>3, <1>14, <2>1 DEF ClientComplete
    <2>3. ASSUME held' # NoCursor PROVE AccountedTo(held, 0)'
        <3>1. CASE f.kind \in {"data", "checkpoint"}
            <4>1. held' = f.seq
                BY <1>1, <3>1
            <4>2. \A n \in Nat : n = f.seq => AccountedTo(n, 0)'
                BY <1>7, <3>1
            <4>3. \A n \in Nat : n = held' => AccountedTo(n, 0)'
                BY <4>1, <4>2
            <4>4. held' \in Nat
                BY <1>3, <4>1
            <4>5. QED
                BY <4>3, <4>4 DEF AccountedTo
        <3>2. CASE f.kind \notin {"data", "checkpoint"}
            <4>1. held' = held /\ held \in Nat
                BY <1>0, <1>1, <2>3, <3>2 DEF ClientTypeOK
            <4>2. AccountedTo(held, 0)
                BY <1>0, <2>3, <4>1 DEF ClientComplete
            <4>3. \A n \in Nat : n = held => AccountedTo(n, 0)'
                BY <1>6, <4>2
            <4>4. QED
                BY <4>1, <4>3 DEF AccountedTo
        <3>3. QED
            BY <3>1, <3>2
    <2>4. ASSUME live' PROVE start' # NoCursor
        BY <1>0, <1>1, <1>3, <1>14, <2>1, <2>4 DEF ClientComplete
    <2>5. ASSUME live' PROVE AccountedTo(backlog, 0)'
        <3>1. backlog \in Nat /\ backlog' = backlog
            BY <1>0, <1>1 DEF LinkTypeOK
        <3>2. CASE live
            <4>1. AccountedTo(backlog, 0)
                BY <1>0, <3>2 DEF ClientComplete
            <4>2. \A n \in Nat : n = backlog => AccountedTo(n, 0)'
                BY <1>6, <4>1
            <4>3. QED
                BY <3>1, <4>2 DEF AccountedTo
        <3>3. CASE f.kind = "live"
            <4>1. AccountedTo(f.seq, 1)
                BY <1>0, <1>12, <3>3 DEF WireComplete, f
            <4>2. AccountedTo(backlog, 1)
                BY <1>0, <1>3, <1>14, <3>1, <3>3, <4>1, AccountedMore
            <4>3. 0 + 1 = 1 /\ 0 < Len(wire)
                BY <1>2
            <4>4. \A n \in Nat : n = backlog => AccountedTo(n, 0)'
                BY <1>5, <4>2, <4>3
            <4>5. QED
                BY <3>1, <4>4 DEF AccountedTo
        <3>4. QED
            BY <1>1, <2>5, <3>2, <3>3
    <2>6. QED
        BY <2>2, <2>3, <2>4, <2>5 DEF ClientComplete
<1>16. start # NoCursor => start' # NoCursor
    BY <1>0, <1>1, StreamAssumption DEF LinkTypeOK
<1>17. ASSUME NEW i \in 1..Len(wire), \E k \in 1..i : wire[k].kind \in Position
       PROVE  start' # NoCursor \/ \E k \in 1..(i - 1) : wire'[k].kind \in Position
    <2>1. PICK k \in 1..i : wire[k].kind \in Position
        BY <1>17
    <2>2. CASE k = 1
        BY <1>0, <1>1, <2>1, <2>2, StreamAssumption DEF Position, LinkTypeOK, f
    <2>3. CASE k # 1
        <3>1. k - 1 \in 1..(i - 1) /\ k - 1 \in 1..Len(wire') /\ (k - 1) + 1 = k
            BY <1>2, <2>3
        <3>2. wire'[k - 1] = wire[k]
            BY <1>2, <3>1
        <3>3. QED
            BY <2>1, <3>1, <3>2
    <2>4. QED
        BY <2>2, <2>3
<1>18. WireComplete'
    <2>1. Connected' = Connected
        BY <1>1 DEF Connected
    <2>2. ASSUME NEW i \in 1..Len(wire'), wire'[i].kind # "truncated"
          PROVE  AccountedTo(wire[i].seq, i)'
        <3>1. wire'[i] = wire[i + 1] /\ i + 1 \in 1..Len(wire) /\ i \in Nat /\ i < Len(wire)
            BY <1>2, <1>12
        <3>2. AccountedTo(wire[i + 1].seq, i + 1)
            BY <1>0, <2>2, <3>1 DEF WireComplete
        <3>3. wire[i + 1].seq \in Nat
            <4>1. wire[i + 1] \in Frames
                BY <1>1, <3>1, ElementOfSeq
            <4>2. QED
                BY <4>1 DEF Frames
        <3>4. \A n \in Nat : n = wire[i + 1].seq => AccountedTo(n, i)'
            BY <1>5, <3>1, <3>2
        <3>5. QED
            BY <3>1, <3>3, <3>4 DEF AccountedTo
    <2>3. ASSUME NEW i \in 1..Len(wire'), wire'[i].kind = "live"
          PROVE  /\ backlog <= wire'[i].seq
                 /\ start' # NoCursor \/ \E k \in 1..(i - 1) : wire'[k].kind \in Position
        <3>1. wire'[i] = wire[i + 1] /\ i + 1 \in 1..Len(wire) /\ i \in 1..Len(wire)
              /\ (i + 1) - 1 = i
            BY <1>2, <1>12
        <3>2. /\ backlog <= wire[i + 1].seq
              /\ start # NoCursor \/ \E k \in 1..i : wire[k].kind \in Position
            BY <1>0, <2>3, <3>1 DEF WireComplete
        <3>3. QED
            BY <1>16, <1>17, <3>1, <3>2
    <2>4. ASSUME published # NoCursor
          PROVE  start' # NoCursor \/ \E k \in 1..Len(wire') : wire'[k].kind \in Position
        <3>1. start # NoCursor \/ \E k \in 1..Len(wire) : wire[k].kind \in Position
            BY <1>0, <1>4, <2>4 DEF WireComplete
        <3>2. Len(wire) \in 1..Len(wire) /\ Len(wire) - 1 = Len(wire')
            BY <1>2
        <3>3. QED
            BY <1>16, <1>17, <3>1, <3>2
    <2>5. QED
        BY <1>1, <1>4, <2>1, <2>2, <2>3, <2>4 DEF WireComplete
<1>19. LoopComplete'
    <2>1. AccountedTo(cursor, Len(wire)) /\ cursor \in Nat
        BY <1>0, <1>4 DEF LoopComplete, LoopTypeOK
    <2>2. Len(wire') \in Nat /\ Len(wire') < Len(wire) /\ Len(wire') + 1 = Len(wire)
        BY <1>2
    <2>3. \A n \in Nat, i \in Nat : n = cursor /\ i = Len(wire') => AccountedTo(n, i)'
        BY <1>5, <2>1, <2>2
    <2>4. AccountedTo(cursor, Len(wire))'
        BY <1>1, <2>1, <2>2, <2>3 DEF AccountedTo
    <2>5. PageComplete => PageComplete'
        BY <1>1, PageKept
    <2>6. QED
        BY <1>0, <1>1, <2>4, <2>5 DEF LoopComplete
<1>20. QED
    BY <1>8, <1>11, <1>13, <1>15, <1>18, <1>19 DEF Inv

----
\* The initial state satisfies the invariant.
LEMMA InitInv == Init => Inv
<1> SUFFICES ASSUME Init PROVE Inv
    OBVIOUS
<1>1. TypeOK
    <2>1. StoreTypeOK
        BY DEF Init, StoreTypeOK
    <2>2. LoopTypeOK
        BY DEF Init, LoopTypeOK
    <2>3. ClientTypeOK
        <3>1. got \in Seq(Nat)
            BY DEF Init
        <3>2. QED
            BY <3>1 DEF Init, ClientTypeOK
    <2>4. LinkTypeOK
        <3>1. wire \in Seq(Frames)
            BY DEF Init
        <3>2. drops \in 0..MaxDrops
            BY StreamAssumption DEF Init
        <3>3. QED
            BY <3>1, <3>2 DEF Init, LinkTypeOK
    <2>5. QED
        BY <2>1, <2>2, <2>3, <2>4, Types
<1>2. CounterInOrder /\ Retained
    BY DEF Init, CounterInOrder, Retained
<1>3. LogNumbered
    BY FS_EmptySet DEF Init, LogNumbered, Seqs
<1>4. Len(wire) = 0 /\ log = {}
    BY DEF Init
<1>5. PositionsCommitted
    BY <1>4 DEF Init, PositionsCommitted
<1>6. ClientComplete /\ WireComplete /\ LoopComplete
    BY <1>4 DEF Init, ClientComplete, WireComplete, LoopComplete, Connected
<1>7. QED
    BY <1>1, <1>2, <1>3, <1>5, <1>6 DEF Inv, Numbering

\* Every step preserves the invariant.
LEMMA InvStep == Inv /\ [Next]_vars => Inv'
<1> SUFFICES ASSUME Inv, [Next]_vars PROVE Inv'
    OBVIOUS
<1>1. CASE UNCHANGED vars
    <2>1. LoopTypeOK'
        BY <1>1, Types, TypesKept DEF Inv
    <2>2. pc' = "page" \/ (pc' = "opened" /\ page' # NoPage) => PageComplete'
        BY <1>1, PageKept DEF Inv, LoopComplete
    <2>3. Connected' = Connected /\ (~Connected => wire = <<>>)
        BY <1>1 DEF Inv, WireComplete, Connected
    <2>4. QED
        BY <1>1, <2>1, <2>2, <2>3, LoopStep
<1>2. ASSUME NEW w \in Writers, Begin(w) \/ AppendEvents(w) \/ Commit(w) \/ Rollback(w)
      PROVE  Inv'
    BY <1>2, BeginInv, AppendEventsInv, CommitInv, RollbackInv
<1>3. CASE SweepDeletes \/ SweepCommits
    BY <1>3, SweepDeletesInv, SweepCommitsInv
<1>4. CASE Connect \/ StartStream \/ ReadPage \/ Truncated \/ Deliver
    BY <1>4, ConnectInv, StartStreamInv, ReadPageInv, TruncatedInv, DeliverInv
<1>5. CASE Wake \/ Poll \/ Cap \/ Receive \/ Ended \/ Drop
    BY <1>5, WakeInv, TurnInv, ReceiveInv, DropInv
<1>6. QED
    BY <1>1, <1>2, <1>3, <1>4, <1>5 DEF Next

\* The inductive invariant of the stream.
THEOREM StreamInvariant == Spec => []Inv
BY InitInv, InvStep, PTL DEF Spec

\* Types (TypeOK), for every number of transactions, batches, topics and connections.
THEOREM TypeCorrect == Spec => []TypeOK
<1>1. Inv => TypeOK
    BY DEF Inv
<1>2. QED
    BY <1>1, StreamInvariant, PTL

\* The visible sequence has no gap but what retention deleted (GapFree; event-bus.ts:16-18).
THEOREM LogHasNoGap == Spec => []GapFree
<1>1. LogNumbered => Cardinality(log) = last \/ last \notin Nat
    <2>1. SUFFICES ASSUME LogNumbered, last \in Nat PROVE Cardinality(log) = last
        OBVIOUS
    <2>2. Numbered(log)
        BY <2>1 DEF LogNumbered, Numbered
    <2>3. Cardinality(Seqs(log)) = Cardinality(log) /\ Cardinality(1..last) = last
        BY <2>1, <2>2, SeqsCount, FS_Interval
    <2>4. QED
        BY <2>1, <2>3 DEF LogNumbered
<1>2. Inv => GapFree
    BY <1>1 DEF Inv, TypeOK, Numbering, LogNumbered, Retained, GapFree
<1>3. QED
    BY <1>2, StreamInvariant, PTL

\* A client that read rayspec.live has every event it wants of the backlog its connection
\* opened with, or was told that it is gone (LiveMeansCaughtUp; subscribe.ts:89).
THEOREM LiveIsCaughtUp == Spec => []LiveMeansCaughtUp
<1>1. Inv => LiveMeansCaughtUp
    <2>1. SUFFICES ASSUME Inv, live,
                          NEW r \in log, start < r.seq, r.seq <= backlog, r.topic \in Wanted,
                          r.seq > told
                   PROVE  \E i \in DOMAIN got : got[i] = r.seq
        BY DEF LiveMeansCaughtUp
    <2>2. start # NoCursor /\ AccountedTo(backlog, 0)
        BY <2>1 DEF Inv, ClientComplete
    <2>3. Accounted(r.seq, 0)
        BY <2>1, <2>2 DEF AccountedTo, Origin
    <2>4. r.seq \in Nat /\ told \in Nat /\ got \in Seq(Nat)
        BY <2>1 DEF Inv, TypeOK, Events
    <2>5. DOMAIN got = 1..Len(got)
        BY <2>4, LenProperties
    <2>6. QED
        BY <2>1, <2>3, <2>4, <2>5 DEF Accounted
<1>2. QED
    BY <1>1, StreamInvariant, PTL

----
(***************************************************************************)
(* The refinement of EventFeed.  The invariant says that nothing between   *)
(* two positions is left out; in addition, positions only grow.            *)
(***************************************************************************)

\* Where the frames on the wire find the client.
Reached == IF held = NoCursor THEN opened ELSE held

\* The client was handed events up to the id it holds, and began below it.
ClientOrdered ==
    /\ \A k \in 1..Len(got) : held # NoCursor /\ got[k] <= held
    /\ held # NoCursor => start <= held

\* A frame takes the client from position n further, or leaves its position alone.
Advances(f, n) ==
    /\ f.kind = "data" => n < f.seq
    /\ f.kind = "checkpoint" => n <= f.seq

\* An event of the log that the subscription asks for.
IsWanted(n) == \E r \in log : r.seq = n /\ r.topic \in Wanted

WireOrdered ==
    /\ \A i \in 1..Len(wire) : Advances(wire[i], Reached)
    /\ \A i, j \in 1..Len(wire) :
           j < i /\ wire[j].kind \in Position => Advances(wire[i], wire[j].seq)
    /\ \A i \in 1..Len(wire) : wire[i].kind \in Position => wire[i].seq <= cursor
    /\ \A i \in 1..Len(wire) : wire[i].kind = "data" => IsWanted(wire[i].seq)

LoopOrdered ==
    /\ Connected => Reached <= cursor
    /\ pc = "page" \/ (pc = "opened" /\ page # NoPage) => \A r \in page.rows : r.topic \in Wanted

Ordered == ClientOrdered /\ WireOrdered /\ LoopOrdered

\* A step that leaves the positions alone, and reads no page but of wanted events.
LEMMA OrderKept ==
    ASSUME Ordered, log \subseteq log', UNCHANGED <<held, got, start, opened, wire, cursor>>,
           Connected' => Connected,
           pc' = "page" \/ (pc' = "opened" /\ page' # NoPage) =>
               \A r \in page'.rows : r.topic \in Wanted
    PROVE  Ordered'
<1>1. \A n : IsWanted(n) => IsWanted(n)'
    BY DEF IsWanted
<1>2. ClientOrdered'
    BY DEF Ordered, ClientOrdered
<1>3. WireOrdered'
    BY <1>1 DEF Ordered, WireOrdered, Reached, Advances, Position
<1>4. LoopOrdered'
    BY DEF Ordered, LoopOrdered, Reached
<1>5. QED
    BY <1>2, <1>3, <1>4 DEF Ordered

\* Frames written at the cursor or behind it keep the wire in order.
LEMMA OrderGrows ==
    ASSUME Inv, Ordered, Connected, NEW more \in Seq(Frames), wire' = wire \o more,
           cursor' \in Nat, cursor <= cursor', UNCHANGED <<log, page, held, got, start, opened>>,
           pc' \notin {"page", "opened"},
           \A i \in 1..Len(more) :
               /\ Advances(more[i], cursor)
               /\ more[i].kind \in Position => more[i].seq <= cursor'
               /\ more[i].kind = "data" => IsWanted(more[i].seq),
           \A i, j \in 1..Len(more) :
               j < i /\ more[j].kind \in Position => Advances(more[i], more[j].seq)
    PROVE  Ordered'
<1>0. LoopTypeOK /\ ClientTypeOK /\ LinkTypeOK /\ WireOrdered /\ LoopOrdered
    BY Types DEF Inv, Ordered
<1>1. wire \in Seq(Frames) /\ Len(wire) \in Nat /\ Len(more) \in Nat
    BY <1>0 DEF LinkTypeOK
<1>2. /\ Len(wire') = Len(wire) + Len(more)
      /\ \A i \in 1..Len(wire) : wire'[i] = wire[i]
      /\ \A i \in 1..Len(more) : wire'[Len(wire) + i] = more[i]
    BY <1>1, ConcatProperties
<1>3. \A i \in 1..Len(wire) : wire[i].seq \in Nat
    <2>1. \A i \in 1..Len(wire) : wire[i] \in Frames
        BY <1>1, ElementOfSeq
    <2>2. QED
        BY <2>1 DEF Frames
<1>4. \A i \in 1..Len(more) : more[i].seq \in Nat
    <2>1. \A i \in 1..Len(more) : more[i] \in Frames
        BY ElementOfSeq
    <2>2. QED
        BY <2>1 DEF Frames
<1>5. ASSUME NEW i \in 1..Len(wire'), i > Len(wire)
      PROVE  i - Len(wire) \in 1..Len(more) /\ wire'[i] = more[i - Len(wire)]
    <2>1. i - Len(wire) \in 1..Len(more) /\ Len(wire) + (i - Len(wire)) = i
        BY <1>1, <1>2, <1>5
    <2>2. QED
        BY <1>2, <2>1
<1>6. Reached' = Reached /\ Reached \in Nat /\ Reached <= cursor /\ cursor \in Nat
    BY <1>0 DEF Reached, LoopOrdered, LoopTypeOK, ClientTypeOK, LinkTypeOK
<1>7. \A n : IsWanted(n)' <=> IsWanted(n)
    BY DEF IsWanted
<1>8. ASSUME NEW i \in 1..Len(wire')
      PROVE  /\ Advances(wire'[i], Reached)
             /\ wire'[i].kind \in Position => wire'[i].seq <= cursor'
             /\ wire'[i].kind = "data" => IsWanted(wire'[i].seq)
    <2>1. CASE i <= Len(wire)
        <3>1. i \in 1..Len(wire) /\ wire'[i] = wire[i]
            BY <1>1, <1>2, <2>1
        <3>2. QED
            BY <1>0, <1>3, <1>6, <3>1 DEF WireOrdered
    <2>2. CASE i > Len(wire)
        <3>1. i - Len(wire) \in 1..Len(more) /\ wire'[i] = more[i - Len(wire)]
            BY <1>5, <2>2
        <3>2. QED
            BY <1>4, <1>6, <3>1 DEF Advances
    <2>3. QED
        BY <1>1, <1>2, <2>1, <2>2
<1>9. ASSUME NEW i \in 1..Len(wire'), NEW j \in 1..Len(wire'), j < i, wire'[j].kind \in Position
      PROVE  Advances(wire'[i], wire'[j].seq)
    <2>1. CASE i <= Len(wire)
        <3>1. i \in 1..Len(wire) /\ wire'[i] = wire[i] /\ j \in 1..Len(wire) /\ wire'[j] = wire[j]
            BY <1>1, <1>2, <1>9, <2>1
        <3>2. QED
            BY <1>0, <1>9, <3>1 DEF WireOrdered
    <2>2. CASE i > Len(wire) /\ j <= Len(wire)
        <3>1. i - Len(wire) \in 1..Len(more) /\ wire'[i] = more[i - Len(wire)]
            BY <1>5, <2>2
        <3>2. j \in 1..Len(wire) /\ wire'[j] = wire[j]
            BY <1>1, <1>2, <2>2
        <3>3. wire[j].seq <= cursor
            BY <1>0, <1>9, <3>2 DEF WireOrdered
        <3>4. QED
            BY <1>3, <1>4, <1>6, <3>1, <3>2, <3>3 DEF Advances
    <2>3. CASE j > Len(wire)
        <3>0. i > Len(wire)
            BY <1>1, <1>2, <1>9, <2>3
        <3>1. i - Len(wire) \in 1..Len(more) /\ wire'[i] = more[i - Len(wire)]
            BY <1>5, <3>0
        <3>2. j - Len(wire) \in 1..Len(more) /\ wire'[j] = more[j - Len(wire)]
            BY <1>5, <2>3
        <3>3. j - Len(wire) < i - Len(wire)
            BY <1>1, <1>2, <1>9
        <3>4. QED
            BY <1>9, <3>1, <3>2, <3>3
    <2>4. QED
        BY <1>1, <1>2, <2>1, <2>2, <2>3
<1>10. WireOrdered'
    <2>1. \A i \in 1..Len(wire') : Advances(wire[i], Reached)'
        BY <1>6, <1>8 DEF Advances
    <2>2. \A i, j \in 1..Len(wire') :
              j < i /\ wire'[j].kind \in Position => Advances(wire[i], wire[j].seq)'
        BY <1>9 DEF Advances
    <2>3. \A i \in 1..Len(wire') : wire'[i].kind = "data" => IsWanted(wire[i].seq)'
        BY <1>8 DEF IsWanted
    <2>4. QED
        BY <1>8, <2>1, <2>2, <2>3 DEF WireOrdered, Position
<1>11. ClientOrdered'
    BY DEF Ordered, ClientOrdered
<1>12. LoopOrdered'
    BY <1>0, <1>6 DEF LoopOrdered
<1>13. QED
    BY <1>10, <1>11, <1>12 DEF Ordered

\* The order is kept: a truncation gives no position.
LEMMA TruncatedOrder == ASSUME Inv, Ordered, Truncated PROVE Ordered'
<1> DEFINE f == Frame("truncated", page.floor)
<1>0. LoopTypeOK /\ LinkTypeOK /\ LoopComplete
    BY Types DEF Inv
<1>1. /\ pc = "page" /\ pc' = "top"
      /\ wire' = Append(wire, f)
      /\ cursor' = page.floor
      /\ cursor < page.floor
      /\ UNCHANGED <<log, page, held, got, start, opened>>
    BY DEF Truncated, storeVars, clientVars
<1>2. page.floor \in Nat /\ cursor \in Nat
    BY <1>0, <1>1 DEF LoopComplete, PageComplete, Pages, LoopTypeOK
<1>3. f \in Frames /\ f.kind = "truncated"
    BY <1>2 DEF Frame, Frames
<1> HIDE DEF f
<1>4. <<f>> \in Seq(Frames) /\ wire' = wire \o <<f>> /\ Len(<<f>>) = 1 /\ <<f>>[1] = f
    BY <1>0, <1>1, <1>3, AppendIsConcat DEF LinkTypeOK
<1> DEFINE more == <<f>>
<1>5. \A i \in 1..Len(more) : more[i].kind = "truncated"
    BY <1>3, <1>4
<1>6. more \in Seq(Frames) /\ wire' = wire \o more
    BY <1>4
<1> HIDE DEF more
<1>7. Connected
    BY <1>1 DEF Connected
<1>8. cursor' \in Nat /\ cursor <= cursor'
    BY <1>1, <1>2
<1>9. QED
    BY <1>1, <1>5, <1>6, <1>7, <1>8, OrderGrows DEF Advances, Position

\* The order is kept: the rows of a page are behind the cursor and in order, and the checkpoint
\* and the cursor are not below them.
LEMMA DeliverOrder == ASSUME Inv, Ordered, Deliver PROVE Ordered'
<1>0. LoopTypeOK /\ LinkTypeOK /\ StoreTypeOK /\ LoopOrdered
    BY Types DEF Inv, Ordered
<1>1. pc = "page" /\ UNCHANGED <<log, page, held, got, start, opened>>
    BY DEF Deliver, storeVars, clientVars
<1>2. PageComplete /\ Connected
    BY <1>1 DEF Inv, LoopComplete, Connected
<1>3. PICK n \in Nat, reached \in Nat, more \in BOOLEAN, tail \in Seq(Frames) :
               /\ reached = page.scanned /\ more = (reached > cursor /\ page.scanned < page.head)
               /\ cursor' = reached /\ published' = reached
               /\ pc' \in {"top", "waiting"}
               /\ announced' \in BOOLEAN /\ pending' \in BOOLEAN
               /\ Len(tail) >= n /\ wire' = wire \o tail
               /\ \A i \in 1..n : tail[i].kind = "data" /\ tail[i].seq \in Seqs(page.rows)
               /\ \A r \in page.rows : \E i \in 1..n : tail[i].seq = r.seq
               /\ \A i, j \in 1..n : i < j => tail[i].seq < tail[j].seq
               /\ \A i \in 1..Len(tail) : i > n =>
                      tail[i].kind \in {"checkpoint", "live"} /\ tail[i].seq = reached
               /\ \A i \in 1..Len(tail) : tail[i].kind = "live" =>
                      /\ ~more
                      /\ published = reached \/ \E k \in 1..(i - 1) : tail[k].kind \in Position
               /\ published = reached \/ \E k \in 1..Len(tail) : tail[k].kind \in Position
    BY DeliverFrames
<1>4. cursor \in Nat /\ cursor <= reached /\ Len(tail) \in Nat
    BY <1>0, <1>2, <1>3 DEF PageComplete, LoopTypeOK
<1>5. ASSUME NEW i \in 1..n
      PROVE  /\ tail[i].kind = "data" /\ tail[i].seq \in Nat
             /\ cursor < tail[i].seq /\ tail[i].seq <= reached
             /\ IsWanted(tail[i].seq)
    <2>1. PICK r \in page.rows : r.seq = tail[i].seq
        BY <1>3, <1>5 DEF Seqs
    <2>2. r \in log /\ cursor < r.seq /\ r.seq <= reached
        BY <1>2, <1>3 DEF PageComplete
    <2>3. r.topic \in Wanted
        BY <1>0, <1>1 DEF LoopOrdered
    <2>4. QED
        BY <1>0, <1>3, <2>1, <2>2, <2>3 DEF IsWanted, StoreTypeOK, Events
<1>6. ASSUME NEW i \in 1..Len(tail)
      PROVE  /\ Advances(tail[i], cursor)
             /\ tail[i].kind \in Position => tail[i].seq <= cursor'
             /\ tail[i].kind = "data" => IsWanted(tail[i].seq)
    <2>1. CASE i <= n
        <3>1. i \in 1..n
            BY <1>4, <2>1
        <3>2. QED
            BY <1>3, <1>5, <3>1 DEF Advances
    <2>2. CASE i > n
        BY <1>3, <1>4, <2>2 DEF Advances
    <2>3. QED
        BY <1>4, <2>1, <2>2
<1>7. ASSUME NEW i \in 1..Len(tail), NEW j \in 1..Len(tail), j < i
      PROVE  Advances(tail[i], tail[j].seq)
    <2>1. CASE i <= n
        <3>1. i \in 1..n /\ j \in 1..n
            BY <1>4, <1>7, <2>1
        <3>2. QED
            BY <1>3, <1>5, <1>7, <3>1 DEF Advances
    <2>2. CASE i > n
        <3>1. tail[j].seq <= reached
            <4>1. CASE j <= n
                <5>1. j \in 1..n
                    BY <1>4, <4>1
                <5>2. QED
                    BY <1>5, <5>1
            <4>2. CASE j > n
                BY <1>3, <4>2
            <4>3. QED
                BY <1>4, <4>1, <4>2
        <3>2. tail[i].kind \in {"checkpoint", "live"} /\ tail[i].seq = reached
            BY <1>3, <2>2
        <3>3. QED
            BY <3>1, <3>2 DEF Advances
    <2>3. QED
        BY <1>4, <2>1, <2>2
<1>8. QED
    BY <1>1, <1>2, <1>3, <1>4, <1>6, <1>7, OrderGrows

\* The order is kept: a connection begins where the client is.
LEMMA ConnectOrder == ASSUME Inv, Ordered, Connect PROVE Ordered'
<1> DEFINE asked == IF held # NoCursor THEN held ELSE since
<1>0. /\ StoreTypeOK /\ ClientTypeOK /\ LinkTypeOK /\ ClientOrdered /\ WireComplete
    BY Types DEF Inv, Ordered
<1>1. wire' = <<>> /\ opened' = cursor' /\ UNCHANGED <<held, got, start>>
    BY <1>0 DEF WireComplete, Connected, Connect
<1>2. pc' = "refused"
      \/ /\ pc' = "opened"
         /\ cursor' = IF asked = NoCursor THEN last ELSE asked
         /\ page' = IF asked = NoCursor THEN NoPage ELSE Page(asked)
    BY DEF Connect
<1>3. ClientOrdered'
    BY <1>0, <1>1 DEF ClientOrdered
<1>4. Len(wire') = 0
    BY <1>1
<1>5. WireOrdered'
    BY <1>4 DEF WireOrdered
<1>6. Connected' => (Reached <= cursor)'
    <2>1. CASE held # NoCursor
        BY <1>0, <1>1, <1>2, <2>1 DEF Connected, Reached, ClientTypeOK
    <2>2. CASE held = NoCursor
        <3>1. pc' = "opened" => cursor' \in Nat
            BY <1>0, <1>2, <2>2, StreamAssumption DEF StoreTypeOK, LinkTypeOK
        <3>2. QED
            BY <1>1, <1>2, <2>2, <3>1 DEF Connected, Reached
    <2>3. QED
        BY <2>1, <2>2
<1>7. pc' = "page" \/ (pc' = "opened" /\ page' # NoPage) =>
          \A r \in page'.rows : r.topic \in Wanted
    BY <1>2 DEF Page
<1>8. QED
    BY <1>3, <1>5, <1>6, <1>7 DEF Ordered, LoopOrdered

\* The order is kept: the client takes a frame, which is at or behind where it is.
LEMMA ReceiveOrder == ASSUME Inv, Ordered, Receive PROVE Ordered'
<1> DEFINE f == wire[1]
<1>0. /\ LoopTypeOK /\ ClientTypeOK /\ LinkTypeOK /\ ClientComplete
      /\ ClientOrdered /\ WireOrdered /\ LoopOrdered
    BY Types DEF Inv, Ordered
<1>1. /\ wire \in Seq(Frames) /\ wire # <<>> /\ wire' = Tail(wire) /\ Head(wire) = f
      /\ held' = IF f.kind \in {"data", "checkpoint"} THEN f.seq ELSE held
      /\ got' = IF f.kind = "data" THEN Append(got, f.seq) ELSE got
      /\ start' = IF start = NoCursor /\ f.kind # "truncated" THEN opened ELSE start
      /\ UNCHANGED <<log, pc, cursor, page, opened>>
    BY <1>0 DEF Receive, LinkTypeOK, storeVars, loopVars
<1>2. /\ f \in Frames /\ Len(wire) \in Nat /\ Len(wire) > 0 /\ Len(wire') = Len(wire) - 1
      /\ \A k \in 1..Len(wire') : wire'[k] = wire[k + 1]
    BY <1>1, HeadTailProperties, LenProperties, EmptySeq
<1>3. f.seq \in Nat /\ f.seq # NoCursor /\ f.kind \in {"data", "checkpoint", "truncated", "live"}
      /\ got \in Seq(Nat) /\ opened \in Nat /\ opened # NoCursor
    BY <1>0, <1>2, StreamAssumption DEF Frames, ClientTypeOK, LinkTypeOK
<1>4. 1 \in 1..Len(wire) /\ \A i \in 1..Len(wire') : i + 1 \in 1..Len(wire) /\ 1 < i + 1
    BY <1>2
<1>5. Advances(f, Reached) /\ Reached \in Nat
    BY <1>0, <1>3, <1>4 DEF WireOrdered, Reached, ClientTypeOK
<1>6. f.kind \in Position => f.seq <= cursor
    BY <1>0, <1>4 DEF WireOrdered
<1>7. \A i \in 1..Len(wire') : f.kind \in Position => Advances(wire'[i], f.seq)
    BY <1>0, <1>2, <1>4 DEF WireOrdered
<1> HIDE DEF f
<1>8. Reached' = IF f.kind \in Position THEN f.seq ELSE Reached
    BY <1>1, <1>3 DEF Reached, Position
<1>9. ClientOrdered'
    <2>1. CASE f.kind = "data"
        <3>1. /\ got' = Append(got, f.seq) /\ held' = f.seq
              /\ Len(got') = Len(got) + 1 /\ Len(got) \in Nat
              /\ \A k \in 1..Len(got) : got'[k] = got[k]
              /\ got'[Len(got) + 1] = f.seq
            BY <1>1, <1>3, <2>1, AppendProperties
        <3>2. Reached < f.seq
            BY <1>5, <2>1 DEF Advances
        <3>3. \A k \in 1..Len(got) : got[k] \in Nat /\ got[k] <= Reached
            BY <1>0, <1>3, ElementOfSeq DEF ClientOrdered, Reached
        <3>4. ASSUME NEW k \in 1..Len(got') PROVE got'[k] <= f.seq
            <4>1. k \in 1..Len(got) \/ k = Len(got) + 1
                BY <3>1
            <4>2. QED
                BY <1>3, <1>5, <3>1, <3>2, <3>3, <4>1
        <3>5. start' <= f.seq
            BY <1>0, <1>1, <1>3, <1>5, <2>1, <3>2
               DEF ClientOrdered, ClientComplete, ClientTypeOK, Reached
        <3>6. QED
            BY <1>3, <3>1, <3>4, <3>5 DEF ClientOrdered
    <2>2. CASE f.kind = "checkpoint"
        <3>1. got' = got /\ held' = f.seq
            BY <1>1, <2>2
        <3>2. Reached <= f.seq
            BY <1>5, <2>2 DEF Advances
        <3>3. \A k \in 1..Len(got) : got[k] \in Nat /\ got[k] <= Reached
            BY <1>0, <1>3, ElementOfSeq DEF ClientOrdered, Reached
        <3>4. start' <= f.seq
            BY <1>0, <1>1, <1>3, <1>5, <2>2, <3>2
               DEF ClientOrdered, ClientComplete, ClientTypeOK, Reached
        <3>5. QED
            BY <1>3, <1>5, <3>1, <3>2, <3>3, <3>4 DEF ClientOrdered
    <2>3. CASE f.kind \notin {"data", "checkpoint"}
        <3>1. got' = got /\ held' = held /\ (held # NoCursor => start' = start)
            BY <1>0, <1>1, <2>3 DEF ClientComplete
        <3>2. QED
            BY <1>0, <3>1 DEF ClientOrdered
    <2>4. QED
        BY <1>3, <2>1, <2>2, <2>3
<1>10. WireOrdered'
    <2>1. \A i \in 1..Len(wire') : Advances(wire'[i], Reached')
        BY <1>0, <1>2, <1>4, <1>7, <1>8 DEF WireOrdered
    <2>2. ASSUME NEW i \in 1..Len(wire'), NEW j \in 1..Len(wire'), j < i,
                 wire'[j].kind \in Position
          PROVE  Advances(wire'[i], wire'[j].seq)
        <3>1. i + 1 \in 1..Len(wire) /\ j + 1 \in 1..Len(wire) /\ j + 1 < i + 1
            BY <1>4, <2>2
        <3>2. wire'[i] = wire[i + 1] /\ wire'[j] = wire[j + 1]
            BY <1>2
        <3>3. QED
            BY <1>0, <2>2, <3>1, <3>2 DEF WireOrdered
    <2>3. \A i \in 1..Len(wire') :
              /\ wire'[i].kind \in Position => wire'[i].seq <= cursor'
              /\ wire'[i].kind = "data" => IsWanted(wire'[i].seq)
        BY <1>0, <1>1, <1>2, <1>4 DEF WireOrdered
    <2>4. \A n : IsWanted(n) => \E r \in log' : r.seq = n /\ r.topic \in Wanted
        BY <1>1 DEF IsWanted
    <2>5. QED
        BY <2>1, <2>2, <2>3, <2>4 DEF WireOrdered, Advances, IsWanted, Position
<1>11. LoopOrdered'
    <2>1. Connected' => Reached' <= cursor'
        BY <1>0, <1>1, <1>6, <1>8 DEF LoopOrdered, Connected
    <2>2. QED
        BY <1>0, <1>1, <2>1 DEF LoopOrdered
<1>12. QED
    BY <1>9, <1>10, <1>11 DEF Ordered

\* The order is kept: what was on the wire is lost.
LEMMA DropOrder == ASSUME Inv, Ordered, Drop PROVE Ordered'
<1>1. wire' = <<>> /\ pc' = "closed" /\ UNCHANGED <<held, got, start, opened, cursor>>
    BY DEF Drop, clientVars
<1>2. Len(wire') = 0
    BY <1>1
<1>3. ClientOrdered' /\ LoopOrdered'
    BY <1>1 DEF Ordered, ClientOrdered, LoopOrdered, Connected
<1>4. WireOrdered'
    BY <1>2 DEF WireOrdered
<1>5. QED
    BY <1>3, <1>4 DEF Ordered

\* Every step keeps the order.
LEMMA OrderStep == Inv /\ Ordered /\ [Next]_vars => Ordered'
<1> SUFFICES ASSUME Inv, Ordered, [Next]_vars PROVE Ordered'
    OBVIOUS
<1>0. pc = "page" \/ (pc = "opened" /\ page # NoPage) => \A r \in page.rows : r.topic \in Wanted
    BY DEF Ordered, LoopOrdered
<1>1. CASE UNCHANGED vars
    BY <1>0, <1>1, OrderKept DEF Connected, vars, storeVars, loopVars, clientVars, linkVars
<1>2. ASSUME NEW w \in Writers, Begin(w) \/ AppendEvents(w) \/ Commit(w) \/ Rollback(w)
      PROVE  Ordered'
    <2>1. log \subseteq log'
        BY <1>2 DEF Begin, AppendEvents, Commit, Rollback
    <2>2. UNCHANGED <<held, got, start, opened, wire, cursor, pc, page>>
        BY <1>2 DEF Begin, AppendEvents, Commit, Rollback, loopVars, clientVars, linkVars
    <2>3. QED
        BY <1>0, <2>1, <2>2, OrderKept DEF Connected
<1>3. CASE SweepDeletes \/ SweepCommits
    <2>1. UNCHANGED <<log, held, got, start, opened, wire, cursor, pc, page>>
        BY <1>3 DEF SweepDeletes, SweepCommits, loopVars, clientVars, linkVars
    <2>2. QED
        BY <1>0, <2>1, OrderKept DEF Connected
<1>4. CASE StartStream \/ ReadPage \/ Wake \/ Poll \/ Cap \/ Ended
    <2>1. UNCHANGED <<log, held, got, start, opened, wire, cursor>>
        BY <1>4 DEF StartStream, ReadPage, Wake, Poll, Cap, Ended, storeVars, clientVars, linkVars
    <2>2. Connected' => Connected
        BY <1>4 DEF StartStream, ReadPage, Wake, Poll, Cap, Ended, Connected, Listening
    <2>3. pc' = "page" \/ (pc' = "opened" /\ page' # NoPage) =>
              \A r \in page'.rows : r.topic \in Wanted
        <3>1. CASE StartStream
            BY <1>0, <3>1 DEF StartStream
        <3>2. CASE ReadPage
            BY <3>2 DEF ReadPage, Page
        <3>3. CASE Wake
            <4>1. UNCHANGED page /\ (pc' = "top" \/ pc' = pc)
                BY <3>3 DEF Wake
            <4>2. QED
                BY <1>0, <4>1
        <3>4. CASE Poll \/ Cap \/ Ended
            BY <3>4 DEF Poll, Cap, Ended
        <3>5. QED
            BY <1>4, <3>1, <3>2, <3>3, <3>4
    <2>4. QED
        BY <2>1, <2>2, <2>3, OrderKept
<1>5. CASE Connect \/ Truncated \/ Deliver \/ Receive \/ Drop
    BY <1>5, ConnectOrder, TruncatedOrder, DeliverOrder, ReceiveOrder, DropOrder
<1>6. QED
    BY <1>1, <1>2, <1>3, <1>4, <1>5 DEF Next

\* The client's positions only grow, and events reach it in order.
THEOREM PositionsGrow == Spec => []Ordered
<1>1. Init => Ordered
    <2>1. SUFFICES ASSUME Init PROVE Ordered
        OBVIOUS
    <2>2. Len(wire) = 0 /\ Len(got) = 0 /\ held = NoCursor /\ pc = "closed"
        BY <2>1 DEF Init
    <2>3. QED
        BY <2>2 DEF Ordered, ClientOrdered, WireOrdered, LoopOrdered, Connected
<1>2. QED
    BY <1>1, OrderStep, StreamInvariant, PTL DEF Spec

\* The log of the feed, and the position of its subscriber.
FeedLog ==
    [n \in 1..last |-> IF n \in Seqs(log) THEN (CHOOSE r \in log : r.seq = n).topic ELSE NoCursor]
FeedPosition == IF start = NoCursor THEN NoCursor ELSE IF held = NoCursor THEN start ELSE held

\* The feed's log is the committed log in its order.
FeedLogged ==
    /\ DOMAIN FeedLog = 1..last /\ Len(FeedLog) = last
    /\ \A r \in log : r.seq \in 1..last /\ FeedLog[r.seq] = r.topic
    /\ \A n \in 1..last : \E r \in log : r.seq = n /\ FeedLog[n] = r.topic

LEMMA FeedLogOf == ASSUME StoreTypeOK, LogNumbered PROVE FeedLogged
<1>1. last \in Nat
    BY DEF StoreTypeOK
<1>2. DOMAIN FeedLog = 1..last /\ Len(FeedLog) = last
    BY <1>1 DEF FeedLog
<1>3. ASSUME NEW r \in log PROVE r.seq \in 1..last /\ FeedLog[r.seq] = r.topic
    <2>1. r.seq \in Seqs(log)
        BY DEF Seqs
    <2>2. r.seq \in 1..last
        BY <2>1 DEF LogNumbered
    <2>3. (CHOOSE q \in log : q.seq = r.seq) = r
        BY DEF LogNumbered
    <2>4. QED
        BY <2>1, <2>2, <2>3 DEF FeedLog
<1>4. ASSUME NEW n \in 1..last PROVE \E r \in log : r.seq = n /\ FeedLog[n] = r.topic
    <2>1. PICK r \in log : r.seq = n
        BY DEF LogNumbered, Seqs
    <2>2. QED
        BY <1>3, <2>1
<1>5. QED
    BY <1>2, <1>3, <1>4 DEF FeedLogged

\* A commit publishes: the log grows behind its end.
LEMMA CommitPublishes ==
    ASSUME Inv, FeedLogged, FeedLogged', last' \in Nat, NEW w \in Writers, Commit(w)
    PROVE  /\ Len(FeedLog') > Len(FeedLog)
           /\ SubSeq(FeedLog', 1, Len(FeedLog)) = FeedLog
           /\ UNCHANGED <<FeedPosition, got, told>>
<1>0. StoreTypeOK /\ CounterInOrder
    BY Types DEF Inv, Numbering
<1>1. /\ DOMAIN FeedLog = 1..last /\ Len(FeedLog) = last
      /\ \A n \in 1..last : \E r \in log : r.seq = n /\ FeedLog[n] = r.topic
    BY DEF FeedLogged
<1>2. /\ Len(FeedLog') = last'
      /\ \A r \in log' : r.seq \in 1..last' /\ FeedLog'[r.seq] = r.topic
    BY DEF FeedLogged
<1>3. last \in Nat /\ last' \in Nat /\ last' > last
    <2>1. base[w] = last /\ Len(Batch[w]) \in Nat /\ Len(Batch[w]) > 0
        BY <1>0, BatchLengths DEF CounterInOrder, Commit
    <2>2. last' = Max(last, base[w] + Len(Batch[w]))
        BY DEF Commit
    <2>3. QED
        BY <1>0, <2>1, <2>2 DEF Max, StoreTypeOK
<1>4. log \subseteq log' /\ UNCHANGED <<held, got, told, start>>
    BY DEF Commit, clientVars
<1>5. \A n \in 1..last : FeedLog'[n] = FeedLog[n]
    BY <1>1, <1>2, <1>4
<1>6. SubSeq(FeedLog', 1, last) = [n \in 1..last |-> FeedLog'[n]]
    <2>1. SubSeq(FeedLog', 1, last) = [n \in 1..(last - 1 + 1) |-> FeedLog'[n + 1 - 1]]
        BY <1>3
    <2>2. QED
        BY <1>3, <2>1
<1>7. FeedLog = [n \in 1..last |-> FeedLog[n]]
    BY <1>1 DEF FeedLog
<1>8. SubSeq(FeedLog', 1, last) = FeedLog
    BY <1>5, <1>6, <1>7
<1>9. QED
    BY <1>1, <1>2, <1>3, <1>4, <1>8 DEF FeedPosition

\* Nothing the subscriber wants lies between two positions, but what it was told is gone.
NothingBetween(from, to) == \A n \in (from + 1)..to : FeedLog[n] \in Wanted => n <= told

\* A frame that gives a position leaves nothing out between the client's position and its own.
LEMMA NothingLeftOut ==
    ASSUME Inv, Ordered, FeedLogged, wire # <<>>, wire[1].kind \in Position,
           NEW to \in Nat, to <= wire[1].seq, wire[1].kind = "data" => to < wire[1].seq
    PROVE  NothingBetween(Reached, to)
<1> DEFINE f == wire[1]
<1>0. /\ StoreTypeOK /\ ClientTypeOK /\ LinkTypeOK /\ PositionsCommitted /\ WireComplete
      /\ ClientComplete /\ ClientOrdered
    BY Types DEF Inv, Ordered
<1>1. wire \in Seq(Frames) /\ Len(wire) \in Nat /\ 1 \in 1..Len(wire)
    BY <1>0, EmptySeq DEF LinkTypeOK
<1>2. f \in Frames
    BY <1>1, ElementOfSeq
<1>3. f.seq \in Nat /\ f.seq <= last /\ last \in Nat /\ told \in Nat /\ got \in Seq(Nat)
      /\ Reached \in Nat
    BY <1>0, <1>1, <1>2
       DEF Frames, PositionsCommitted, StoreTypeOK, ClientTypeOK, LinkTypeOK, Reached
<1>4. AccountedTo(f.seq, 1) /\ f.kind \in {"data", "checkpoint"}
    BY <1>0, <1>1 DEF WireComplete, Position
<1>5. SUFFICES ASSUME NEW n \in (Reached + 1)..to, FeedLog[n] \in Wanted PROVE n <= told
    BY DEF NothingBetween
<1>6. n \in Nat /\ Reached < n /\ n <= to /\ n <= f.seq /\ n \in 1..last
    BY <1>3
<1>7. PICK r \in log : r.seq = n /\ r.topic \in Wanted
    BY <1>5, <1>6 DEF FeedLogged
<1>8. Origin \in Nat /\ Origin <= Reached
    BY <1>0, <1>3, StreamAssumption
       DEF ClientComplete, ClientOrdered, ClientTypeOK, LinkTypeOK, Origin, Reached
<1>9. Accounted(n, 1)
    BY <1>4, <1>6, <1>7, <1>8, <1>3 DEF AccountedTo
<1>10. \A k \in 1..Len(got) : got[k] # n
    BY <1>0, <1>3, <1>6, ElementOfSeq DEF ClientOrdered, Reached
<1>11. \A k \in 1..1 : ~ (wire[k].kind = "data" /\ wire[k].seq = n) /\ wire[k].kind # "truncated"
    BY <1>3, <1>4, <1>6
<1>12. QED
    BY <1>9, <1>10, <1>11 DEF Accounted

\* A frame received is a step of the feed.
LEMMA ReceiveFeeds ==
    ASSUME Inv, Ordered, FeedLogged, Receive
    PROVE  \/ Feed!Deliver \/ Feed!Skip \/ Feed!Tell
           \/ UNCHANGED <<FeedLog, FeedPosition, got, told>>
<1> DEFINE f == wire[1]
           from == Reached
<1>0. /\ StoreTypeOK /\ ClientTypeOK /\ LinkTypeOK /\ PositionsCommitted /\ WireComplete
      /\ ClientComplete /\ ClientOrdered /\ WireOrdered
    BY Types DEF Inv, Ordered
<1>1. /\ wire \in Seq(Frames) /\ wire # <<>> /\ Head(wire) = f
      /\ held' = IF f.kind \in {"data", "checkpoint"} THEN f.seq ELSE held
      /\ got' = IF f.kind = "data" THEN Append(got, f.seq) ELSE got
      /\ told' = IF f.kind = "truncated" THEN Max(told, f.seq) ELSE told
      /\ start' = IF start = NoCursor /\ f.kind # "truncated" THEN opened ELSE start
      /\ UNCHANGED <<log, last, opened>>
    BY <1>0 DEF Receive, LinkTypeOK, storeVars
<1>2. 1 \in 1..Len(wire) /\ f \in Frames
    BY <1>1, HeadTailProperties, LenProperties, EmptySeq
<1>3. /\ f.seq \in Nat /\ f.seq # NoCursor /\ f.seq <= last /\ last \in Nat /\ told \in Nat
      /\ f.kind \in {"data", "checkpoint", "truncated", "live"}
      /\ opened \in Nat /\ opened # NoCursor /\ opened <= last
    BY <1>0, <1>2, StreamAssumption
       DEF Frames, PositionsCommitted, StoreTypeOK, ClientTypeOK, LinkTypeOK
<1>4. FeedLog' = FeedLog /\ Len(FeedLog) = last
    <2>1. log' = log /\ last' = last
        BY <1>1
    <2>2. FeedLog' = FeedLog
        BY <2>1 DEF FeedLog, Seqs
    <2>3. QED
        BY <2>2 DEF FeedLogged
<1>5. /\ FeedPosition = held
      /\ from \in Nat /\ from <= last /\ (held # NoCursor => from = held)
    BY <1>0, <1>3 DEF ClientComplete, FeedPosition, Reached, ClientTypeOK, PositionsCommitted
<1>6. Advances(f, from)
    BY <1>0, <1>2 DEF WireOrdered
<1>7. f.kind = "data" => IsWanted(f.seq)
    BY <1>0, <1>2 DEF WireOrdered
<1>8. f.kind = "live" => start # NoCursor
    <2>1. 1..(1 - 1) = {}
        OBVIOUS
    <2>2. QED
        BY <1>0, <1>2, <2>1 DEF WireComplete
<1>9. \A to \in Nat : f.kind \in Position /\ to <= f.seq /\ (f.kind = "data" => to < f.seq) =>
          NothingBetween(from, to)
    BY <1>1, NothingLeftOut
<1>10. from \in (IF FeedPosition = NoCursor THEN 0..Len(FeedLog) ELSE {FeedPosition})
    BY <1>3, <1>4, <1>5
<1> HIDE DEF f, from
<1>11. f.kind \in Position => FeedPosition' = f.seq
    BY <1>0, <1>1, <1>3 DEF FeedPosition, Position, ClientComplete
<1>12. CASE f.kind = "data"
    <2>1. f.seq \in 1..Len(FeedLog) /\ FeedLog[f.seq] \in Wanted
        <3>1. PICK r \in log : r.seq = f.seq /\ r.topic \in Wanted
            BY <1>7, <1>12 DEF IsWanted
        <3>2. QED
            BY <1>4, <3>1 DEF FeedLogged
    <2>2. from < f.seq /\ f.seq - 1 \in Nat /\ f.seq - 1 < f.seq
        BY <1>3, <1>5, <1>6, <1>12 DEF Advances
    <2>3. NothingBetween(from, f.seq - 1)
        BY <1>3, <1>9, <1>12, <2>2 DEF Position
    <2>4. FeedPosition' = f.seq /\ got' = Append(got, f.seq) /\ UNCHANGED <<FeedLog, told>>
        BY <1>1, <1>4, <1>11, <1>12 DEF Position
    <2>5. Feed!Deliver
        BY <1>10, <2>1, <2>2, <2>3, <2>4
           DEF Feed!Deliver, Feed!From, Feed!Nothing, NothingBetween, FeedLog, FeedPosition
    <2>6. QED
        BY <2>5
<1>13. CASE f.kind = "checkpoint"
    <2>1. f.seq \in 0..Len(FeedLog) /\ from <= f.seq
        BY <1>3, <1>4, <1>6, <1>13 DEF Advances
    <2>2. NothingBetween(from, f.seq)
        BY <1>3, <1>9, <1>13 DEF Position
    <2>3. FeedPosition' = f.seq /\ UNCHANGED <<FeedLog, got, told>>
        BY <1>1, <1>4, <1>11, <1>13 DEF Position
    <2>4. Feed!Skip
        BY <1>10, <2>1, <2>2, <2>3
           DEF Feed!Skip, Feed!From, Feed!Nothing, NothingBetween, FeedLog, FeedPosition
    <2>5. QED
        BY <2>4
<1>14. CASE f.kind = "truncated"
    <2>1. UNCHANGED <<FeedLog, FeedPosition, got>>
        BY <1>1, <1>4, <1>14 DEF FeedPosition
    <2>2. told' = told \/ told' \in (told + 1)..Len(FeedLog)
        BY <1>1, <1>3, <1>4, <1>14 DEF Max
    <2>3. QED
        BY <2>1, <2>2 DEF Feed!Tell, FeedLog, FeedPosition
<1>15. CASE f.kind = "live"
    BY <1>1, <1>4, <1>8, <1>15 DEF FeedPosition
<1>16. QED
    BY <1>3, <1>12, <1>13, <1>14, <1>15

\* The subscription hands out what the abstract feed does, through caps, broken connections,
\* sweeps and lost wakes (ImplementsFeed; subscribe.ts:47-56, event-bus.ts:224-231).
THEOREM FeedImplemented == Spec => ImplementsFeed
<1> DEFINE Known == Inv /\ Ordered /\ FeedLogged /\ last \in Nat
<1>1. Init => Feed!Init
    <2>1. SUFFICES ASSUME Init PROVE Feed!Init
        OBVIOUS
    <2>2. last = 0 /\ start = NoCursor /\ got = <<>> /\ told = 0
        BY <2>1 DEF Init
    <2>3. FeedLog = <<>>
        BY <2>2 DEF FeedLog
    <2>4. QED
        BY <2>2, <2>3 DEF Feed!Init, FeedLog
<1>2. Inv => FeedLogged /\ last \in Nat
    BY Types, FeedLogOf DEF Inv, Numbering, StoreTypeOK
<1>3. Known /\ Known' /\ [Next]_vars => [Feed!Next]_Feed!vars
    <2>1. SUFFICES ASSUME Known, Known', [Next]_vars
                   PROVE  Feed!Next \/ UNCHANGED <<FeedLog, FeedPosition, got, told>>
        BY DEF Feed!vars, FeedLog, FeedPosition
    <2>2. ASSUME UNCHANGED <<log, last, held, got, told, start>>
          PROVE  UNCHANGED <<FeedLog, FeedPosition, got, told>>
        BY <2>2 DEF FeedLog, FeedPosition, Seqs
    <2>3. CASE UNCHANGED vars
        BY <2>2, <2>3 DEF vars, storeVars, clientVars
    <2>4. ASSUME NEW w \in Writers, Commit(w) PROVE Feed!Publish
        <3>1. /\ Len(FeedLog') > Len(FeedLog)
              /\ SubSeq(FeedLog', 1, Len(FeedLog)) = FeedLog
              /\ UNCHANGED <<FeedPosition, got, told>>
            BY <2>1, <2>4, CommitPublishes
        <3>2. QED
            BY <3>1 DEF Feed!Publish, FeedLog, FeedPosition
    <2>5. ASSUME NEW w \in Writers, Begin(w) \/ AppendEvents(w) \/ Rollback(w)
          PROVE  UNCHANGED <<log, last, held, got, told, start>>
        BY <2>5 DEF Begin, AppendEvents, Rollback, clientVars
    <2>6. CASE \/ SweepDeletes \/ SweepCommits \/ Connect \/ StartStream \/ ReadPage \/ Truncated
               \/ Deliver \/ Wake \/ Poll \/ Cap \/ Ended \/ Drop
        <3>1. UNCHANGED <<log, last, held, got, told, start>>
            BY <2>6 DEF SweepDeletes, SweepCommits, Connect, StartStream, ReadPage, Truncated,
                        Deliver, Wake, Poll, Cap, Ended, Drop, storeVars, clientVars
        <3>2. QED
            BY <2>2, <3>1
    <2>7. CASE Receive
        BY <2>1, <2>7, ReceiveFeeds DEF Feed!Next
    <2>8. QED
        BY <2>1, <2>2, <2>3, <2>4, <2>5, <2>6, <2>7 DEF Next, Feed!Next
<1>4. QED
    BY <1>1, <1>2, <1>3, StreamInvariant, PositionsGrow, PTL DEF Spec, ImplementsFeed, Feed!Spec
====
