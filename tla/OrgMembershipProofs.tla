------------------------- MODULE OrgMembershipProofs -------------------------
(***************************************************************************)
(* What holds of OrgMembership for every set of accounts, invites and      *)
(* request slots: the types, the role a reactivated row gets, that an      *)
(* invite gives one membership, and, when requests run one at a time, that *)
(* the organization keeps an owner.                                        *)
(***************************************************************************)
EXTENDS OrgMembership, FiniteSetTheorems, TLAPS

USE DEF vars

-----------------------------------------------------------------------------
(* Types.                                                                  *)

LEMMA InitTypes == Init => TypeOK
<1> SUFFICES ASSUME Init PROVE TypeOK
  OBVIOUS
<1> QED BY DEF Init, TypeOK, Rows, Roles, InviteRows

\* Stamping an issued invite leaves it issued.
LEMMA StampedInvite ==
  ASSUME NEW row \in InviteRows, row # Unissued
  PROVE  /\ [row EXCEPT !.expired = TRUE] \in InviteRows \ {Unissued}
         /\ [row EXCEPT !.consumed = TRUE] \in InviteRows \ {Unissued}
  BY DEF InviteRows, Unissued

\* Every row, invite and request slot keeps its type and its job.
THEOREM TypeCorrect == Spec => []TypeOK
<1>Start. ASSUME TypeOK, NEW r \in Requests, Start(r) PROVE TypeOK'
  BY <1>Start DEF Start, Goto, TypeOK, Jobs, NoJob
<1>ReadMember. ASSUME TypeOK, NEW r \in Requests, ReadMember(r) PROVE TypeOK'
  BY <1>ReadMember DEF ReadMember, Goto, Respond, TypeOK, NoJob
<1>CountOwners. ASSUME TypeOK, NEW r \in Requests, CountOwners(r) PROVE TypeOK'
  <2>1. Cardinality(Owners) \in Nat
    BY UsersAssumption, FS_Subset, FS_CardinalityType DEF Owners
  <2> QED BY <2>1, <1>CountOwners DEF CountOwners, Goto, Respond, TypeOK, NoJob
<1>WriteMember. ASSUME TypeOK, NEW r \in Requests, WriteMember(r) PROVE TypeOK'
  <2>1. memberships' \in [Users -> Rows]
    <3> DEFINE u == job[r].user
    <3>1. /\ u \in Users
          /\ job[r].op = "role" => job[r].role \in Roles
          /\ job[r].op \in {"role", "remove"}
      BY <1>WriteMember DEF WriteMember, TypeOK, Jobs, NoJob
    <3>2. CASE memberships[u] = NoRow
      BY <3>2, <1>WriteMember DEF WriteMember, TypeOK
    <3>3. CASE memberships[u] # NoRow
      <4>1. memberships[u] \in [role : Roles, live : BOOLEAN]
        BY <1>WriteMember, <3>1, <3>3 DEF TypeOK, Rows
      <4>2. CASE job[r].op = "remove"
        BY <4>1, <4>2, <3>1, <3>3, <1>WriteMember DEF WriteMember, TypeOK, Rows
      <4>3. CASE job[r].op = "role"
        <5>1. [memberships[u] EXCEPT !.role = job[r].role] \in Rows
          BY <4>1, <4>3, <3>1 DEF Rows
        <5>2. memberships' = [memberships EXCEPT ![u] = [memberships[u] EXCEPT !.role = job[r].role]]
          BY <4>3, <3>3, <1>WriteMember DEF WriteMember
        <5> QED BY <1>WriteMember, <5>1, <5>2, <3>1 DEF TypeOK
      <4> QED BY <3>1, <4>2, <4>3
    <3> QED BY <3>2, <3>3
  <2> QED BY <2>1, <1>WriteMember DEF WriteMember, Goto, Respond, TypeOK, NoJob
<1>AddMember. ASSUME TypeOK, NEW r \in Requests, AddMember(r) PROVE TypeOK'
  <2>1. memberships' \in [Users -> Rows]
    BY <1>AddMember DEF AddMember, Upsert, TypeOK, Rows, NoRow, Jobs, NoJob, Roles
  <2> QED BY <2>1, <1>AddMember DEF AddMember, Goto, Respond, TypeOK, NoJob
<1>IssueInvite. ASSUME TypeOK, NEW r \in Requests, IssueInvite(r) PROVE TypeOK'
  <2>1. /\ invites' \in [Invites -> InviteRows]
        /\ \A i \in Invites : invites[i] # Unissued => invites'[i] = invites[i]
    BY <1>IssueInvite DEF IssueInvite, TypeOK, InviteRows, Jobs, NoJob, Roles
  <2>2. \A s \in Requests \ {r} : pc'[s] = pc[s] /\ job'[s] = job[s]
    BY <1>IssueInvite DEF IssueInvite, Goto, Respond, TypeOK
  <2>3. \A s \in Requests : pc'[s] \in {"consume", "attach"} => invites'[job'[s].invite] # Unissued
    BY <2>1, <2>2, <1>IssueInvite DEF IssueInvite, Goto, Respond, TypeOK, Jobs, NoJob
  <2> QED BY <2>1, <2>3, <1>IssueInvite DEF IssueInvite, Goto, Respond, TypeOK, NoJob
<1>ExpireInvite. ASSUME TypeOK, NEW i \in Invites, ExpireInvite(i) PROVE TypeOK'
  <2>1. /\ invites' \in [Invites -> InviteRows]
        /\ \A k \in Invites : invites[k] # Unissued => invites'[k] # Unissued
    BY <1>ExpireInvite, StampedInvite DEF ExpireInvite, TypeOK
  <2> QED BY <2>1, <1>ExpireInvite DEF ExpireInvite, TypeOK, Jobs, NoJob
<1>ResolveInvite. ASSUME TypeOK, NEW r \in Requests, ResolveInvite(r) PROVE TypeOK'
  BY <1>ResolveInvite DEF ResolveInvite, Goto, Respond, TypeOK, NoJob
<1>ConsumeInvite. ASSUME TypeOK, NEW r \in Requests, ConsumeInvite(r) PROVE TypeOK'
  <2>1. /\ invites' \in [Invites -> InviteRows]
        /\ \A k \in Invites : invites[k] # Unissued => invites'[k] # Unissued
    <3> DEFINE i == job[r].invite
    <3>1. i \in Invites /\ invites[i] \in InviteRows /\ invites[i] # Unissued
      BY <1>ConsumeInvite DEF ConsumeInvite, TypeOK, Jobs, NoJob
    <3>2. [invites[i] EXCEPT !.consumed = TRUE] \in InviteRows \ {Unissued}
      BY <3>1, StampedInvite
    <3>3. invites' \in {invites, [invites EXCEPT ![i] = [invites[i] EXCEPT !.consumed = TRUE]]}
      BY <1>ConsumeInvite DEF ConsumeInvite
    <3> QED BY <1>ConsumeInvite, <3>1, <3>2, <3>3 DEF TypeOK
  <2> QED BY <2>1, <1>ConsumeInvite DEF ConsumeInvite, Goto, Respond, TypeOK, Jobs, NoJob
<1>AttachInvited. ASSUME TypeOK, NEW r \in Requests, AttachInvited(r) PROVE TypeOK'
  <2>1. /\ job[r].invite \in Invites
        /\ invites[job[r].invite] \in [email : Users, role : Roles, expired : BOOLEAN, consumed : BOOLEAN]
    BY <1>AttachInvited DEF AttachInvited, TypeOK, InviteRows, Jobs, NoJob
  <2>2. memberships' \in [Users -> Rows]
    BY <2>1, <1>AttachInvited DEF AttachInvited, Upsert, TypeOK, Rows, NoRow
  <2> QED BY <2>1, <2>2, <1>AttachInvited DEF AttachInvited, Goto, Respond, TypeOK, NoJob
<1>Purge. ASSUME TypeOK, Purge PROVE TypeOK'
  BY <1>Purge DEF Purge, TypeOK, Rows, NoRow
<1>Interrupted. ASSUME TypeOK, NEW r \in Requests, Interrupted(r) PROVE TypeOK'
  BY <1>Interrupted DEF Interrupted, Goto, Respond, TypeOK, NoJob
<1>stutter. ASSUME TypeOK, UNCHANGED vars PROVE TypeOK'
  BY <1>stutter DEF TypeOK
<1>next. TypeOK /\ [Next]_vars => TypeOK'
  BY <1>Start, <1>ReadMember, <1>CountOwners, <1>WriteMember, <1>AddMember, <1>IssueInvite,
     <1>ExpireInvite, <1>ResolveInvite, <1>ConsumeInvite, <1>AttachInvited, <1>Purge,
     <1>Interrupted, <1>stutter
     DEF Next, RequestStep
<1> QED BY InitTypes, <1>next, PTL DEF Spec

-----------------------------------------------------------------------------
(* The role of a reactivated row.                                          *)

\* A revoked member comes back only with the role the add or the invite
\* grants: a setRole that wrote a tombstone has no effect on who they are.
THEOREM Reactivation == Spec => ReactivatedWithGrant
<1> DEFINE Granted ==
      \A u \in Users :
        ~ memberships[u].live /\ memberships'[u].live =>
          \E r \in Requests :
            \/ /\ pc[r] = "add" /\ job[r].user = u
               /\ memberships'[u].role = "member"
            \/ /\ pc[r] = "attach" /\ invites[job[r].invite].email = u
               /\ memberships'[u].role = invites[job[r].invite].role
<1>WriteMember. ASSUME TypeOK, NEW r \in Requests, WriteMember(r) PROVE Granted
  <2> SUFFICES ASSUME NEW u \in Users, ~ memberships[u].live, memberships'[u].live PROVE FALSE
    OBVIOUS
  <2>1. memberships[u] \in Rows
    BY <1>WriteMember DEF TypeOK
  <2> QED BY <2>1, <1>WriteMember DEF WriteMember, TypeOK, Rows, NoRow
<1>AddMember. ASSUME TypeOK, NEW r \in Requests, AddMember(r) PROVE Granted
  <2>1. job[r].role = "member"
    BY <1>AddMember DEF AddMember, TypeOK, Jobs, NoJob
  <2> QED BY <2>1, <1>AddMember DEF AddMember, Upsert, TypeOK
<1>AttachInvited. ASSUME TypeOK, NEW r \in Requests, AttachInvited(r) PROVE Granted
  BY <1>AttachInvited DEF AttachInvited, Upsert, TypeOK
<1>Purge. ASSUME TypeOK, Purge PROVE Granted
  BY <1>Purge DEF Purge, TypeOK, NoRow
<1>others. ASSUME UNCHANGED memberships PROVE Granted
  BY <1>others
<1>next. TypeOK /\ [Next]_vars => [Granted]_vars
  BY <1>WriteMember, <1>AddMember, <1>AttachInvited, <1>Purge, <1>others
     DEF Next, RequestStep, Start, ReadMember, CountOwners, IssueInvite, ExpireInvite,
         ResolveInvite, ConsumeInvite, Interrupted
<1> QED BY <1>next, TypeCorrect, PTL DEF Spec, ReactivatedWithGrant

-----------------------------------------------------------------------------
(* What an invite gives.                                                   *)

\* The stamp admits one request to the attach of an invite, and nobody is
\* there before it or after the membership is written.
RedeemedOnce ==
  /\ \A i \in Invites :
       /\ attached[i] <= 1
       /\ attached[i] = 1 => invites[i].consumed
  /\ \A r \in Requests : pc[r] = "attach" =>
       /\ invites[job[r].invite].consumed
       /\ attached[job[r].invite] = 0
  /\ \A r, s \in Requests :
       pc[r] = "attach" /\ pc[s] = "attach" /\ job[r].invite = job[s].invite => r = s

\* A step that keeps the stamps and the memberships given, and brings nobody
\* to an attach, keeps the invites redeemed once.
LEMMA NobodyAttaches ==
  ASSUME RedeemedOnce, attached' = attached,
         \A i \in Invites : invites[i].consumed => invites'[i].consumed,
         \A r \in Requests : pc'[r] = "attach" => pc[r] = "attach" /\ job'[r] = job[r],
         \A r \in Requests : pc[r] = "attach" => job[r].invite \in Invites
  PROVE  RedeemedOnce'
  BY DEF RedeemedOnce

\* An invite gives one membership, once: however many requests redeem it at
\* the same time or again, ConsumeInvite lets one of them through.
THEOREM OneMembershipPerInvite == Spec => []InviteGrantsOnce
<1>init. Init => RedeemedOnce
  BY DEF Init, RedeemedOnce
<1>held. ASSUME TypeOK, NEW r \in Requests, pc[r] \in {"issue", "accept", "consume", "attach"}
         PROVE  job[r].invite \in Invites
  BY <1>held DEF TypeOK, Jobs, NoJob
<1>others. ASSUME TypeOK, RedeemedOnce, attached' = attached,
                  \A i \in Invites : invites[i].consumed => invites'[i].consumed,
                  \A r \in Requests : pc'[r] = "attach" => pc[r] = "attach" /\ job'[r] = job[r]
           PROVE  RedeemedOnce'
  BY <1>others, <1>held, NobodyAttaches
<1>Respond. ASSUME TypeOK, NEW r \in Requests, Respond(r)
            PROVE  \A s \in Requests : pc'[s] = "attach" => pc[s] = "attach" /\ job'[s] = job[s]
  BY <1>Respond DEF Respond, Goto, TypeOK
<1>Start. ASSUME TypeOK, RedeemedOnce, NEW r \in Requests, Start(r) PROVE RedeemedOnce'
  <2>1. \A s \in Requests : pc'[s] = "attach" => pc[s] = "attach" /\ job'[s] = job[s]
    BY <1>Start DEF Start, Goto, TypeOK, Jobs
  <2> QED BY <2>1, <1>Start, <1>others DEF Start
<1>moved. ASSUME TypeOK, NEW r \in Requests, NEW label, label # "attach", Goto(r, label), UNCHANGED job
          PROVE  \A s \in Requests : pc'[s] = "attach" => pc[s] = "attach" /\ job'[s] = job[s]
  BY <1>moved DEF Goto, TypeOK
<1>ReadMember. ASSUME TypeOK, RedeemedOnce, NEW r \in Requests, ReadMember(r) PROVE RedeemedOnce'
  BY <1>ReadMember, <1>Respond, <1>moved, <1>others DEF ReadMember
<1>CountOwners. ASSUME TypeOK, RedeemedOnce, NEW r \in Requests, CountOwners(r) PROVE RedeemedOnce'
  BY <1>CountOwners, <1>Respond, <1>moved, <1>others DEF CountOwners
<1>WriteMember. ASSUME TypeOK, RedeemedOnce, NEW r \in Requests, WriteMember(r) PROVE RedeemedOnce'
  BY <1>WriteMember, <1>Respond, <1>others DEF WriteMember
<1>AddMember. ASSUME TypeOK, RedeemedOnce, NEW r \in Requests, AddMember(r) PROVE RedeemedOnce'
  BY <1>AddMember, <1>Respond, <1>others DEF AddMember
<1>IssueInvite. ASSUME TypeOK, RedeemedOnce, NEW r \in Requests, IssueInvite(r) PROVE RedeemedOnce'
  <2>1. \A i \in Invites : invites[i].consumed => invites'[i].consumed
    BY <1>IssueInvite DEF IssueInvite, TypeOK, Unissued
  <2> QED BY <2>1, <1>IssueInvite, <1>Respond, <1>others DEF IssueInvite
<1>ExpireInvite. ASSUME TypeOK, RedeemedOnce, NEW i \in Invites, ExpireInvite(i) PROVE RedeemedOnce'
  <2>1. \A k \in Invites : invites[k].consumed => invites'[k].consumed
    BY <1>ExpireInvite DEF ExpireInvite, TypeOK, InviteRows, Unissued
  <2> QED BY <2>1, <1>ExpireInvite, <1>others DEF ExpireInvite
<1>ResolveInvite. ASSUME TypeOK, RedeemedOnce, NEW r \in Requests, ResolveInvite(r) PROVE RedeemedOnce'
  BY <1>ResolveInvite, <1>Respond, <1>moved, <1>others DEF ResolveInvite
<1>ConsumeInvite. ASSUME TypeOK, RedeemedOnce, NEW r \in Requests, ConsumeInvite(r) PROVE RedeemedOnce'
  <2> DEFINE i == job[r].invite
  <2>1. CASE invites[i].consumed
    BY <2>1, <1>ConsumeInvite, <1>Respond, <1>others DEF ConsumeInvite
  <2>2. CASE ~ invites[i].consumed
    <3>1. /\ i \in Invites
          /\ invites[i] \in InviteRows
      BY <1>ConsumeInvite, <1>held DEF ConsumeInvite, TypeOK
    <3>2. /\ invites'[i].consumed
          /\ \A k \in Invites : invites[k].consumed => invites'[k].consumed
      BY <2>2, <3>1, <1>ConsumeInvite DEF ConsumeInvite, TypeOK, InviteRows, Unissued
    <3>3. /\ \A s \in Requests : pc'[s] = "attach" => s = r \/ pc[s] = "attach"
          /\ UNCHANGED <<job, attached>>
      BY <2>2, <1>ConsumeInvite DEF ConsumeInvite, Goto, TypeOK
    <3>4. \A s \in Requests : pc[s] = "attach" => job[s].invite # i
      BY <2>2, <1>ConsumeInvite DEF RedeemedOnce
    <3>5. ~ invites[i].consumed
      BY <2>2
    <3> HIDE DEF i
    <3>6. attached[i] # 1
      BY <3>1, <3>5, <1>ConsumeInvite DEF RedeemedOnce
    <3>7. attached[i] = 0
      <4>1. attached[i] \in Nat /\ attached[i] <= 1
        BY <3>1, <1>ConsumeInvite DEF RedeemedOnce, TypeOK
      <4> QED BY <4>1, <3>6
    <3>8. ASSUME NEW s \in Requests, pc'[s] = "attach"
          PROVE  /\ invites'[job[s].invite].consumed
                 /\ attached[job[s].invite] = 0
      <4>1. CASE s = r
        BY <4>1, <3>2, <3>7 DEF i
      <4>2. CASE pc[s] = "attach"
        BY <4>2, <3>2, <1>held, <1>ConsumeInvite DEF RedeemedOnce
      <4> QED BY <3>3, <3>8, <4>1, <4>2
    <3>9. \A s, t \in Requests :
            pc'[s] = "attach" /\ pc'[t] = "attach" /\ job[s].invite = job[t].invite => s = t
      <4>1. job[r].invite = i
        BY DEF i
      <4> QED BY <4>1, <3>3, <3>4, <1>ConsumeInvite DEF RedeemedOnce
    <3> QED BY <3>2, <3>3, <3>8, <3>9, <1>ConsumeInvite DEF RedeemedOnce
  <2> QED BY <2>1, <2>2
<1>AttachInvited. ASSUME TypeOK, RedeemedOnce, NEW r \in Requests, AttachInvited(r) PROVE RedeemedOnce'
  <2> DEFINE i == job[r].invite
  <2>1. i \in Invites /\ attached[i] = 0 /\ invites[i].consumed
    BY <1>AttachInvited, <1>held DEF AttachInvited, RedeemedOnce
  <2>2. attached' = [attached EXCEPT ![i] = 1] /\ invites' = invites
    BY <2>1, <1>AttachInvited DEF AttachInvited, TypeOK
  <2>3. \A s \in Requests : pc'[s] = "attach" => pc[s] = "attach" /\ job'[s] = job[s] /\ job[s].invite # i
    BY <1>AttachInvited DEF AttachInvited, Respond, Goto, RedeemedOnce, TypeOK
  <2> HIDE DEF i
  <2>4. \A k \in Invites \ {i} : attached'[k] = attached[k]
    BY <2>1, <2>2, <1>AttachInvited DEF TypeOK
  <2>5. attached'[i] = 1
    BY <2>1, <2>2, <1>AttachInvited DEF TypeOK
  <2>6. \A k \in Invites : attached'[k] <= 1 /\ (attached'[k] = 1 => invites'[k].consumed)
    <3> SUFFICES ASSUME NEW k \in Invites
                 PROVE  attached'[k] <= 1 /\ (attached'[k] = 1 => invites'[k].consumed)
      OBVIOUS
    <3>1. CASE k = i
      BY <3>1, <2>1, <2>2, <2>5
    <3>2. CASE k # i
      BY <3>2, <2>2, <2>4, <1>AttachInvited DEF RedeemedOnce
    <3> QED BY <3>1, <3>2
  <2>7. \A s \in Requests : pc'[s] = "attach" =>
          invites'[job'[s].invite].consumed /\ attached'[job'[s].invite] = 0
    BY <2>2, <2>3, <2>4, <1>held, <1>AttachInvited DEF RedeemedOnce
  <2>8. \A s, t \in Requests :
          pc'[s] = "attach" /\ pc'[t] = "attach" /\ job'[s].invite = job'[t].invite => s = t
    BY <2>3, <1>AttachInvited DEF RedeemedOnce
  <2> QED BY <2>6, <2>7, <2>8, <1>AttachInvited DEF RedeemedOnce
<1>Purge. ASSUME TypeOK, RedeemedOnce, Purge PROVE RedeemedOnce'
  BY <1>Purge, <1>others DEF Purge
<1>Interrupted. ASSUME TypeOK, RedeemedOnce, NEW r \in Requests, Interrupted(r) PROVE RedeemedOnce'
  BY <1>Interrupted, <1>Respond, <1>others DEF Interrupted
<1>stutter. ASSUME TypeOK, RedeemedOnce, UNCHANGED vars PROVE RedeemedOnce'
  BY <1>stutter, <1>others
<1>next. TypeOK /\ RedeemedOnce /\ [Next]_vars => RedeemedOnce'
  BY <1>Start, <1>ReadMember, <1>CountOwners, <1>WriteMember, <1>AddMember, <1>IssueInvite,
     <1>ExpireInvite, <1>ResolveInvite, <1>ConsumeInvite, <1>AttachInvited, <1>Purge,
     <1>Interrupted, <1>stutter
     DEF Next, RequestStep
<1>implied. RedeemedOnce => InviteGrantsOnce
  BY DEF RedeemedOnce, InviteGrantsOnce
<1> QED BY <1>init, <1>next, <1>implied, TypeCorrect, PTL DEF Spec

-----------------------------------------------------------------------------
(* One request at a time.                                                  *)

\* With one request at a time, a request about to take an owner away has
\* counted another one that is still there.
KeepsAnother ==
  \A r \in Requests :
    pc[r] = "write" /\ TakesOwnership(job[r]) /\ job[r].user \in Owners => Cardinality(Owners) > 1

OwnerKept == TypeOK /\ LastOwner /\ KeepsAnother

LEMMA OwnersFinite == IsFiniteSet(Owners) /\ Cardinality(Owners) \in Nat
  BY UsersAssumption, FS_Subset, FS_CardinalityType DEF Owners

LEMMA AnotherOwner ==
  ASSUME NEW u \in Users, Cardinality(Owners) > 1
  PROVE  \E v \in Owners : v # u
<1>1. CASE Owners \subseteq {u}
  <2>1. Cardinality({u}) = 1 /\ IsFiniteSet({u})
    BY FS_Singleton
  <2>2. Cardinality(Owners) <= 1
    BY <1>1, <2>1, FS_Subset
  <2> QED BY <2>2, OwnersFinite
<1> QED BY <1>1

\* A step that leaves the owners, and what every request is about to write,
\* as they are keeps an owner.
LEMMA OwnersUnchanged ==
  ASSUME OwnerKept, TypeOK', Owners' = Owners,
         \A r \in Requests : pc'[r] = "write" => pc[r] = "write" /\ job'[r] = job[r]
  PROVE  OwnerKept'
  BY DEF OwnerKept, LastOwner, KeepsAnother, TakesOwnership

\* A step that only adds owners, while no request is about to write, too.
LEMMA OwnersGrow ==
  ASSUME OwnerKept, TypeOK', Owners \subseteq Owners', \A r \in Requests : pc'[r] # "write"
  PROVE  OwnerKept'
  BY DEF OwnerKept, LastOwner, KeepsAnother

\* With one request at a time the organization always keeps an owner: what
\* setRole and removeMember promise is true of the code without the overlap.
THEOREM SerialLastOwner ==
  ASSUME NEW q, Requests = {q}
  PROVE  Spec => []LastOwner
<1>init. Init => OwnerKept
  <2> SUFFICES ASSUME Init PROVE OwnerKept
    OBVIOUS
  <2>1. Founder \in Owners
    BY FounderAssumption DEF Init, Owners
  <2> QED BY <2>1, InitTypes DEF OwnerKept, LastOwner, KeepsAnother, Init
<1>CountOwners. ASSUME OwnerKept, TypeOK', CountOwners(q) PROVE OwnerKept'
  <2>1. Owners' = Owners
    BY <1>CountOwners DEF CountOwners, Owners
  <2>2. CASE Cardinality(Owners) <= 1
    <3>1. pc'[q] # "write"
      BY <2>2, <1>CountOwners, OwnersFinite DEF CountOwners, Respond, Goto, OwnerKept, TypeOK
    <3> QED BY <2>1, <3>1, <1>CountOwners, OwnersGrow
  <2>3. CASE Cardinality(Owners) > 1
    BY <2>1, <2>3, <1>CountOwners DEF OwnerKept, LastOwner, KeepsAnother
  <2> QED BY <2>2, <2>3, OwnersFinite
<1>ReadMember. ASSUME OwnerKept, TypeOK', ReadMember(q) PROVE OwnerKept'
  <2>1. Owners' = Owners
    BY <1>ReadMember DEF ReadMember, Owners
  <2>2. job[q].user \in Owners /\ TakesOwnership(job[q]) => pc'[q] # "write"
    BY <1>ReadMember DEF ReadMember, Owners, Goto, Respond, OwnerKept, TypeOK
  <2>3. pc'[q] = "write" => job'[q] = job[q]
    BY <1>ReadMember DEF ReadMember, Goto, Respond, OwnerKept, TypeOK
  <2> QED BY <2>1, <2>2, <2>3, <1>ReadMember DEF OwnerKept, LastOwner, KeepsAnother, TakesOwnership
<1>WriteMember. ASSUME OwnerKept, TypeOK', WriteMember(q) PROVE OwnerKept'
  <2> DEFINE u == job[q].user
  <2>1. pc'[q] # "write"
    BY <1>WriteMember DEF WriteMember, Respond, Goto, OwnerKept, TypeOK
  <2>2. u \in Users /\ job[q].op \in {"role", "remove"}
    BY <1>WriteMember DEF WriteMember, OwnerKept, TypeOK, Jobs, NoJob
  <2>3. \A v \in Users \ {u} : memberships'[v] = memberships[v]
    BY <1>WriteMember DEF WriteMember, OwnerKept, TypeOK
  <2>4. CASE u \in Owners /\ TakesOwnership(job[q])
    <3>1. Cardinality(Owners) > 1
      BY <2>4, <1>WriteMember DEF WriteMember, OwnerKept, KeepsAnother
    <3>2. PICK v \in Owners : v # u
      BY <3>1, <2>2, AnotherOwner
    <3>3. v \in Owners'
      BY <3>2, <2>3 DEF Owners
    <3> QED BY <3>3, <2>1, <1>WriteMember DEF OwnerKept, LastOwner, KeepsAnother
  <2>5. CASE ~ (u \in Owners /\ TakesOwnership(job[q]))
    <3>1. u \in Owners => u \in Owners'
      BY <2>2, <2>5, <1>WriteMember DEF WriteMember, Owners, TakesOwnership, OwnerKept, TypeOK, NoRow
    <3>2. Owners \subseteq Owners'
      BY <3>1, <2>3 DEF Owners
    <3> QED BY <3>2, <2>1, <1>WriteMember, OwnersGrow
  <2> QED BY <2>4, <2>5
<1>Upsert. ASSUME OwnerKept, TypeOK', NEW u \in Users, NEW role, Upsert(u, role), pc'[q] # "write"
           PROVE  OwnerKept'
  <2>1. Owners \subseteq Owners'
    BY <1>Upsert DEF Upsert, Owners, OwnerKept, TypeOK
  <2> QED BY <2>1, <1>Upsert, OwnersGrow
<1>AddMember. ASSUME OwnerKept, TypeOK', AddMember(q) PROVE OwnerKept'
  <2>1. job[q].user \in Users /\ pc'[q] # "write"
    BY <1>AddMember DEF AddMember, Respond, Goto, OwnerKept, TypeOK, Jobs, NoJob
  <2> QED BY <2>1, <1>AddMember, <1>Upsert DEF AddMember
<1>AttachInvited. ASSUME OwnerKept, TypeOK', AttachInvited(q) PROVE OwnerKept'
  <2>1. job[q].invite \in Invites /\ invites[job[q].invite] # Unissued
    BY <1>AttachInvited DEF AttachInvited, OwnerKept, TypeOK, Jobs, NoJob
  <2>2. invites[job[q].invite].email \in Users /\ pc'[q] # "write"
    BY <2>1, <1>AttachInvited DEF AttachInvited, Respond, Goto, OwnerKept, TypeOK, InviteRows
  <2> QED BY <2>2, <1>AttachInvited, <1>Upsert DEF AttachInvited
<1>Purge. ASSUME OwnerKept, TypeOK', Purge PROVE OwnerKept'
  <2>1. Owners' = Owners
    BY <1>Purge DEF Purge, Owners, OwnerKept, TypeOK, NoRow
  <2> QED BY <2>1, <1>Purge, OwnersUnchanged DEF Purge
<1>others. ASSUME OwnerKept, TypeOK', UNCHANGED memberships, pc'[q] = "write" => UNCHANGED <<pc, job>>
           PROVE  OwnerKept'
  <2>1. Owners' = Owners
    BY <1>others DEF Owners
  <2> QED BY <2>1, <1>others, OwnersUnchanged
<1>Start. ASSUME OwnerKept, Start(q) PROVE UNCHANGED memberships /\ pc'[q] # "write"
  BY <1>Start DEF Start, Goto, OwnerKept, TypeOK, Jobs
<1>Answered. ASSUME OwnerKept, IssueInvite(q) \/ ResolveInvite(q) \/ ConsumeInvite(q) \/ Interrupted(q)
             PROVE  UNCHANGED memberships /\ pc'[q] # "write"
  BY <1>Answered DEF IssueInvite, ResolveInvite, ConsumeInvite, Interrupted, Respond, Goto,
                     OwnerKept, TypeOK
<1>next. OwnerKept /\ TypeOK' /\ [Next]_vars => OwnerKept'
  BY <1>CountOwners, <1>ReadMember, <1>WriteMember, <1>AddMember, <1>AttachInvited, <1>Purge,
     <1>Start, <1>Answered, <1>others
     DEF Next, RequestStep, ExpireInvite
<1> QED BY <1>init, <1>next, TypeCorrect, PTL DEF Spec, OwnerKept

=============================================================================
