---------------------------- MODULE OrgMembership ----------------------------
(***************************************************************************)
(* The membership of one organization: the rows of `memberships` and       *)
(* `invites`, and the HTTP requests that change them                       *)
(* (routes/orgs.ts, routes/invites.ts over OrgStore and InviteStore).      *)
(*                                                                         *)
(* A request first passes requirePermission, which looks its actor's       *)
(* membership up live; then it runs its store call.  setRole and           *)
(* removeMember are transactions of three statements (read the member,     *)
(* count the owners, update) at the database's default isolation, READ     *)
(* COMMITTED: each statement sees what was committed when it began, takes  *)
(* no lock before the update, and the update names only the row's key.     *)
(* The update is the last statement, so it is also the commit.  addMember, *)
(* addInvitedMember, consume and the purge are one statement each.         *)
(*                                                                         *)
(* An account and its email are one value: a redeem that finds no account  *)
(* creates it, and one that finds an account requires its owner, so in     *)
(* both cases the membership goes to the account of the invite's email.    *)
(***************************************************************************)
EXTENDS Integers, FiniteSets

CONSTANTS
    Users,      \* accounts
    Founder,    \* the account createOrgWithOwner made the first owner
    Invites,    \* invite rows that may be issued
    Requests    \* request slots: as many requests may run at once

ASSUME FounderAssumption == Founder \in Users
ASSUME UsersAssumption == IsFiniteSet(Users)

Roles == {"owner", "admin", "member"}

VARIABLES
    memberships,    \* the row of each account
    invites,        \* the row of each invite
    pc,             \* where each request is
    job,            \* what each request was asked to do
    counted,        \* owners.length as the request read it; 0 before it did
    attached        \* history: memberships written for each invite

vars == <<memberships, invites, pc, job, counted, attached>>

\* An account without a row, a row with status 'active' and deleted_at NULL
\* (live), or a tombstone: status 'revoked' and deleted_at set.
NoRow == [role |-> "none", live |-> FALSE]

Rows == {NoRow} \cup [role : Roles, live : BOOLEAN]

Unissued == [email |-> "none", role |-> "none", expired |-> FALSE, consumed |-> FALSE]

InviteRows ==
    {Unissued} \cup [email : Users, role : Roles, expired : BOOLEAN, consumed : BOOLEAN]

\* What a request asks for.  addMember always grants 'member'.
Jobs ==
    [op : {"role"}, user : Users, role : Roles]
        \cup [op : {"remove"}, user : Users]
        \cup [op : {"add"}, user : Users, role : {"member"}]
        \cup [op : {"issue"}, invite : Invites, user : Users, role : Roles]
        \cup [op : {"accept"}, invite : Invites]

NoJob == [op |-> "none"]

Owners == {u \in Users : memberships[u].live /\ memberships[u].role = "owner"}

Init ==
    /\ memberships =
         [u \in Users |-> IF u = Founder THEN [role |-> "owner", live |-> TRUE] ELSE NoRow]
    /\ invites = [i \in Invites |-> Unissued]
    /\ pc = [r \in Requests |-> "idle"]
    /\ job = [r \in Requests |-> NoJob]
    /\ counted = [r \in Requests |-> 0]
    /\ attached = [i \in Invites |-> 0]

Goto(r, label) == pc' = [pc EXCEPT ![r] = label]

\* The response is sent and the slot is free.
Respond(r) ==
    /\ Goto(r, "idle")
    /\ job' = [job EXCEPT ![r] = NoJob]
    /\ counted' = [counted EXCEPT ![r] = 0]

-----------------------------------------------------------------------------
(***************************************************************************)
(* Admission.  Every change of members and every invite needs a live       *)
(* owner; only a redeem does not.                                          *)
(***************************************************************************)

Start(r) ==
    /\ pc[r] = "idle"
    /\ \E j \in Jobs :
         /\ j.op # "accept" => Owners # {}
         /\ j.op = "issue" => invites[j.invite] = Unissued
         /\ job' = [job EXCEPT ![r] = j]
         /\ Goto(r, j.op)
    /\ UNCHANGED <<memberships, invites, counted, attached>>

-----------------------------------------------------------------------------
(***************************************************************************)
(* setRole and removeMember                                                *)
(***************************************************************************)

TakesOwnership(j) == j.op = "remove" \/ j.role # "owner"

ReadMember(r) ==
    /\ pc[r] \in {"role", "remove"}
    /\ LET row == memberships[job[r].user] IN
         \/ /\ ~ row.live
            /\ Respond(r)
         \/ /\ row.live
            /\ Goto(r, IF row.role = "owner" /\ TakesOwnership(job[r]) THEN "count" ELSE "write")
            /\ UNCHANGED <<job, counted>>
    /\ UNCHANGED <<memberships, invites, attached>>

CountOwners(r) ==
    /\ pc[r] = "count"
    /\ LET owners == Cardinality(Owners) IN
         \/ /\ owners <= 1
            /\ Respond(r)
         \/ /\ owners > 1
            /\ Goto(r, "write")
            /\ counted' = [counted EXCEPT ![r] = owners]
            /\ UNCHANGED job
    /\ UNCHANGED <<memberships, invites, attached>>

\* The update matches the row by its key alone: a row revoked since it was
\* read is written too, and one purged since then matches nothing.
WriteMember(r) ==
    /\ pc[r] = "write"
    /\ LET u == job[r].user IN
         memberships' =
           IF memberships[u] = NoRow THEN memberships
           ELSE IF job[r].op = "remove" THEN [memberships EXCEPT ![u].live = FALSE]
           ELSE [memberships EXCEPT ![u].role = job[r].role]
    /\ Respond(r)
    /\ UNCHANGED <<invites, attached>>

-----------------------------------------------------------------------------
(***************************************************************************)
(* addMember and addInvitedMember: one INSERT .. ON CONFLICT DO UPDATE     *)
(***************************************************************************)

\* Mutant: a reactivated row keeps the role it was revoked with.
UpsertKeepingRole(u, role) ==
    memberships' =
      [memberships EXCEPT ![u] =
         [role |-> IF @ = NoRow THEN role ELSE @.role, live |-> TRUE]]

Upsert(u, role) ==
    memberships' =
      [memberships EXCEPT ![u] = [role |-> IF @.live THEN @.role ELSE role, live |-> TRUE]]

AddMember(r) ==
    /\ pc[r] = "add"
    /\ Upsert(job[r].user, job[r].role)
    /\ Respond(r)
    /\ UNCHANGED <<invites, attached>>

-----------------------------------------------------------------------------
(***************************************************************************)
(* Invites                                                                 *)
(***************************************************************************)

IssueInvite(r) ==
    /\ pc[r] = "issue"
    /\ LET i == job[r].invite IN
         invites' =
           IF invites[i] = Unissued
           THEN [invites EXCEPT ![i] = [email |-> job[r].user, role |-> job[r].role,
                                        expired |-> FALSE, consumed |-> FALSE]]
           ELSE invites
    /\ Respond(r)
    /\ UNCHANGED <<memberships, attached>>

\* expires_at passes.
ExpireInvite(i) ==
    /\ invites[i] # Unissued
    /\ ~ invites[i].expired
    /\ invites' = [invites EXCEPT ![i].expired = TRUE]
    /\ UNCHANGED <<memberships, pc, job, counted, attached>>

ResolveInvite(r) ==
    /\ pc[r] = "accept"
    /\ LET row == invites[job[r].invite] IN
         \/ /\ row = Unissued \/ row.consumed \/ row.expired
            /\ Respond(r)
         \/ /\ row # Unissued /\ ~ row.consumed /\ ~ row.expired
            /\ Goto(r, "consume")
            /\ UNCHANGED <<job, counted>>
    /\ UNCHANGED <<memberships, invites, attached>>

\* Mutant: the stamp does not require consumed_at IS NULL.
ConsumeInviteAgain(r) ==
    /\ pc[r] = "consume"
    /\ invites' = [invites EXCEPT ![job[r].invite].consumed = TRUE]
    /\ Goto(r, "attach")
    /\ UNCHANGED <<memberships, job, counted, attached>>

\* The stamp decides; expires_at is not looked at again.
ConsumeInvite(r) ==
    /\ pc[r] = "consume"
    /\ LET i == job[r].invite IN
         \/ /\ invites[i].consumed
            /\ Respond(r)
            /\ UNCHANGED invites
         \/ /\ ~ invites[i].consumed
            /\ invites' = [invites EXCEPT ![i].consumed = TRUE]
            /\ Goto(r, "attach")
            /\ UNCHANGED <<job, counted>>
    /\ UNCHANGED <<memberships, attached>>

AttachInvited(r) ==
    /\ pc[r] = "attach"
    /\ LET i == job[r].invite IN
         /\ Upsert(invites[i].email, invites[i].role)
         /\ attached' = [attached EXCEPT ![i] = @ + 1]
    /\ Respond(r)
    /\ UNCHANGED invites

-----------------------------------------------------------------------------
(***************************************************************************)
(* The retention purge, and a process that stops                           *)
(***************************************************************************)

\* The purge deletes the tombstones that are old enough.
Purge ==
    /\ \E S \in SUBSET {u \in Users : memberships[u] # NoRow /\ ~ memberships[u].live} :
         /\ S # {}
         /\ memberships' = [u \in Users |-> IF u \in S THEN NoRow ELSE memberships[u]]
    /\ UNCHANGED <<invites, pc, job, counted, attached>>

\* The process, or the connection, ends between two statements: an open
\* transaction has written nothing yet, a consumed invite stays consumed.
Interrupted(r) ==
    /\ pc[r] # "idle"
    /\ Respond(r)
    /\ UNCHANGED <<memberships, invites, attached>>

RequestStep(r) ==
    \/ Start(r)
    \/ ReadMember(r) \/ CountOwners(r) \/ WriteMember(r)
    \/ AddMember(r)
    \/ IssueInvite(r) \/ ResolveInvite(r) \/ ConsumeInvite(r) \/ AttachInvited(r)
    \/ Interrupted(r)

Next ==
    \/ \E r \in Requests : RequestStep(r)
    \/ \E i \in Invites : ExpireInvite(i)
    \/ Purge

Spec == Init /\ [][Next]_vars

-----------------------------------------------------------------------------
(***************************************************************************)
(* Properties                                                              *)
(***************************************************************************)

\* Every row, invite and request is one the code can produce; a request holds
\* a count only when it is about to write, and its job fits where it is.
TypeOK ==
    /\ memberships \in [Users -> Rows]
    /\ invites \in [Invites -> InviteRows]
    /\ pc \in [Requests -> {"idle", "role", "remove", "count", "write", "add",
                            "issue", "accept", "consume", "attach"}]
    /\ job \in [Requests -> Jobs \cup {NoJob}]
    /\ counted \in [Requests -> Nat]
    /\ attached \in [Invites -> Nat]
    /\ \A r \in Requests :
         /\ pc[r] \in {"role", "remove", "add", "issue", "accept"} => job[r].op = pc[r]
         /\ pc[r] \in {"count", "write"} => job[r].op \in {"role", "remove"}
         /\ pc[r] \in {"consume", "attach"} =>
              /\ job[r].op = "accept"
              /\ invites[job[r].invite] # Unissued
         /\ pc[r] = "idle" => job[r] = NoJob

\* The organization never loses its last active owner: setRole and
\* removeMember refuse the change that would, however requests interleave.
LastOwner == Owners # {}

\* As long as the number of owners a request read is still the number there
\* is when it writes, its write leaves an owner: the refusal itself is right,
\* whatever happened to the rows in between.
RefusalSound ==
    [][\A r \in Requests :
         (WriteMember(r) /\ counted[r] # 0 /\ counted[r] = Cardinality(Owners))
           => Owners' # {}]_vars

\* A revoked membership becomes active again only with the role the add or
\* the invite grants, never with the role left on the row, not even one a
\* setRole that raced the removal wrote there.
ReactivatedWithGrant ==
    [][\A u \in Users :
         ~ memberships[u].live /\ memberships'[u].live =>
           \E r \in Requests :
             \/ /\ pc[r] = "add" /\ job[r].user = u
                /\ memberships'[u].role = "member"
             \/ /\ pc[r] = "attach" /\ invites[job[r].invite].email = u
                /\ memberships'[u].role = invites[job[r].invite].role]_vars

\* An invite gives one membership, once: a replayed or concurrent redeem does
\* not bring back a member who was removed after the first one.
InviteGrantsOnce == \A i \in Invites : attached[i] <= 1

=============================================================================
