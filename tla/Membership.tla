------------------------------ MODULE Membership ------------------------------
(***************************************************************************)
(* The members of one organization (organization_members) and the          *)
(* invitations to it: src/lib/server/tenancy.ts and invitations.ts, and    *)
(* the routes that call them.                                              *)
(*                                                                         *)
(* Changing a role and leaving read the role, count the admins and write,  *)
(* in three statements; accepting an invitation looks it up, marks it and  *)
(* inserts the member, in three statements.  In the self_hosted mode the   *)
(* organization is the default one, and a signed-in user for whom a request *)
(* finds no membership is made a member of it.  req[r] holds the locals of *)
(* the handler of request r.  A handler that dies stops where it is.       *)
(***************************************************************************)
EXTENDS Naturals, FiniteSets

CONSTANTS
  Users,
  Founders,       \* the users who are admins at the start
  Invitations,    \* invitation tokens
  Requests,       \* handlers under way at a time
  NoUser,
  NoInvitation,
  SelfHosted,     \* deploymentMode() is 'self_hosted', as by default
  MaxWrites,      \* bound: requests begun
  MaxDeletions    \* bound: accounts deleted

ASSUME FoundersAssumption == Founders \subseteq Users /\ Founders # {}
ASSUME NobodyAssumption   == NoUser \notin Users /\ NoInvitation \notin Invitations
ASSUME ModeAssumption     == SelfHosted \in BOOLEAN

VARIABLES
  role,        \* organization_members.role; "none" without a row
  account,     \* users whose "user" row exists
  invitation,  \* the rows of invitations
  req,         \* per request: what it does and its locals
  joined,      \* per invitation: how many members it made
  writes, deletions

memberVars == <<role, account, invitation, req, joined, writes, deletions>>

Roles == {"admin", "editor"}    \* editor stands for viewer as well

NotSent == [sent |-> FALSE, to |-> NoUser, role |-> "editor", accepted |-> NoUser,
            revoked |-> FALSE, expired |-> FALSE]

\* overtaken: a member changed after this request read the role.
NoRequest == [kind |-> "none", at |-> "idle", user |-> NoUser, role |-> "none",
              token |-> NoInvitation, overtaken |-> FALSE]

MemberTypeOK ==
  /\ role \in [Users -> Roles \cup {"none"}]
  /\ account \subseteq Users
  /\ invitation \in [Invitations ->
       [sent : BOOLEAN, to : Users \cup {NoUser}, role : Roles,
        accepted : Users \cup {NoUser}, revoked : BOOLEAN, expired : BOOLEAN]]
  /\ req \in [Requests ->
       [kind : {"none", "change", "leave", "accept", "resolve"},
        at : {"idle", "role", "count", "write", "mark", "join", "ensure"}, user : Users \cup {NoUser},
        role : Roles \cup {"none"}, token : Invitations \cup {NoInvitation}, overtaken : BOOLEAN]]
  /\ joined \in [Invitations -> Nat]
  /\ writes \in Nat
  /\ deletions \in Nat

MemberInit ==
  /\ role = [u \in Users |-> IF u \in Founders THEN "admin" ELSE "none"]
  /\ account = Users
  /\ invitation = [i \in Invitations |-> NotSent]
  /\ req = [r \in Requests |-> NoRequest]
  /\ joined = [i \in Invitations |-> 0]
  /\ writes = 0
  /\ deletions = 0

Admins      == {u \in Users : role[u] = "admin"}
Ends(r)     == req' = [req EXCEPT ![r] = NoRequest]
Starts(r, l) ==
  /\ req[r].at = "idle"
  /\ writes < MaxWrites
  /\ writes' = writes + 1
  /\ req' = [req EXCEPT ![r] = l]
  /\ UNCHANGED <<role, account, invitation, joined, deletions>>

\* Request r ends with a write to the members: what the others have read is old.
EndsWith(r, newRole) ==
  /\ role' = newRole
  /\ req' = [q \in Requests |->
               IF q = r THEN NoRequest
               ELSE IF newRole # role /\ req[q].at \in {"count", "write"}
               THEN [req[q] EXCEPT !.overtaken = TRUE] ELSE req[q]]

-----------------------------------------------------------------------------
(* setOrganizationMemberRole and leaveOrganization *)

\* PATCH /api/team/users by an admin; a promotion needs no check.
ChangeRole(r, u, new) ==
  /\ Admins # {}
  /\ Starts(r, [NoRequest EXCEPT !.kind = "change", !.user = u, !.role = new,
                                 !.at = IF new = "admin" THEN "write" ELSE "role"])

\* DELETE /api/orgs/:id
Leave(r, u) ==
  /\ u \in account
  /\ Starts(r, [NoRequest EXCEPT !.kind = "leave", !.user = u, !.at = "role"])

ReadRole(r) ==
  /\ req[r].at = "role"
  /\ IF role[req[r].user] = "admin" THEN req' = [req EXCEPT ![r].at = "count"]
     ELSE IF role[req[r].user] = "none" /\ req[r].kind = "leave" THEN Ends(r)
     ELSE req' = [req EXCEPT ![r].at = "write"]
  /\ UNCHANGED <<role, account, invitation, joined, writes, deletions>>

\* Faulty variant: off by one.
TooFewAdmins_None == Cardinality(Admins) < 1

TooFewAdmins == Cardinality(Admins) <= 1

\* "A workspace must keep at least one admin.", "Transfer admin access before leaving".
CountAdmins(r) ==
  /\ req[r].at = "count"
  /\ IF TooFewAdmins THEN Ends(r) ELSE req' = [req EXCEPT ![r].at = "write"]
  /\ UNCHANGED <<role, account, invitation, joined, writes, deletions>>

\* Faulty variant: the UPDATE is an upsert.
WriteRole_Upserts(r) ==
  /\ req[r].at = "write"
  /\ EndsWith(r, [role EXCEPT ![req[r].user] =
                    IF req[r].kind = "leave" THEN "none" ELSE req[r].role])
  /\ UNCHANGED <<account, invitation, joined, writes, deletions>>

\* The UPDATE or DELETE: it matches a member that is still there.
WriteRole(r) ==
  /\ req[r].at = "write"
  /\ EndsWith(r, [role EXCEPT ![req[r].user] =
                    IF @ = "none" \/ req[r].kind = "leave" THEN "none" ELSE req[r].role])
  /\ UNCHANGED <<account, invitation, joined, writes, deletions>>

\* deleteAccount: the member's row goes with it (ON DELETE CASCADE).
DeleteAccount(r, u) ==
  /\ req[r].at = "idle"
  /\ u \in account
  /\ deletions < MaxDeletions
  /\ deletions' = deletions + 1
  /\ account' = account \ {u}
  /\ EndsWith(r, [role EXCEPT ![u] = "none"])
  /\ UNCHANGED <<invitation, joined, writes>>

-----------------------------------------------------------------------------
(* Invitations *)

\* createInvitation, by an admin, for the user with that address.
Invite(i, u, new) ==
  /\ Admins # {}
  /\ ~invitation[i].sent
  /\ invitation' = [invitation EXCEPT ![i].sent = TRUE, ![i].to = u, ![i].role = new]
  /\ UNCHANGED <<role, account, req, joined, writes, deletions>>

Expires(i) ==
  /\ invitation[i].sent /\ ~invitation[i].expired
  /\ invitation' = [invitation EXCEPT ![i].expired = TRUE]
  /\ UNCHANGED <<role, account, req, joined, writes, deletions>>

Open(i) == invitation[i].sent /\ invitation[i].accepted = NoUser
             /\ ~invitation[i].revoked /\ ~invitation[i].expired

\* revokeInvitation: WHERE accepted_at IS NULL.
RevokeInvitation(i) ==
  /\ invitation[i].sent
  /\ invitation[i].accepted = NoUser
  /\ invitation' = [invitation EXCEPT ![i].revoked = TRUE]
  /\ UNCHANGED <<role, account, req, joined, writes, deletions>>

\* The accept routes: the invitation is looked up and the address compared ...
Accept(r, u, i) ==
  /\ u \in account
  /\ Open(i)
  /\ invitation[i].to = u
  /\ Starts(r, [NoRequest EXCEPT !.kind = "accept", !.at = "mark", !.user = u, !.token = i])

\* Faulty variant: the look-up is trusted, the row is marked whatever it says now.
MayMark_LookedUp(i) == invitation[i].sent

\* The WHERE clause of markInvitationAccepted.
MayMark(i) == Open(i)

\* ... markInvitationAccepted ...
MarkAccepted(r) ==
  /\ req[r].at = "mark"
  /\ LET i == req[r].token IN
     IF MayMark(i)
     THEN /\ invitation' = [invitation EXCEPT ![i].accepted = req[r].user]
          /\ req' = [req EXCEPT ![r].at = "join", ![r].role = invitation[i].role]
     ELSE Ends(r) /\ UNCHANGED invitation
  /\ UNCHANGED <<role, account, joined, writes, deletions>>

\* ... and upsertOrganizationMember: the invitation's role, whatever the member had.
Join(r) ==
  /\ req[r].at = "join"
  /\ req[r].user \in account
  /\ EndsWith(r, [role EXCEPT ![req[r].user] = req[r].role])
  /\ joined' = [joined EXCEPT ![req[r].token] = @ + 1]
  /\ UNCHANGED <<account, invitation, writes, deletions>>

-----------------------------------------------------------------------------
(* resolveTenantContext, on a request of a signed-in user *)

\* In the self_hosted mode, when its SELECT finds nothing: the user is no member,
\* or the cookie names a project that is not there.  new: the role of the account.
ResolveTenant(r, u, new) ==
  /\ SelfHosted
  /\ u \in account
  /\ Starts(r, [NoRequest EXCEPT !.kind = "resolve", !.at = "ensure", !.user = u, !.role = new])

\* ensureDefaultMembership: an upsert that only leaves an admin as it is.
EnsureMember(r) ==
  /\ req[r].at = "ensure"
  /\ req[r].user \in account
  /\ EndsWith(r, [role EXCEPT ![req[r].user] = IF @ = "admin" THEN "admin" ELSE req[r].role])
  /\ UNCHANGED <<account, invitation, joined, writes, deletions>>

\* The handler dies, or its next statement fails.
RequestDies(r) ==
  /\ req[r].at # "idle"
  /\ Ends(r)
  /\ UNCHANGED <<role, account, invitation, joined, writes, deletions>>

MemberNext ==
  \/ \E r \in Requests : \E u \in Users :
       \/ \E new \in Roles : ChangeRole(r, u, new) \/ ResolveTenant(r, u, new)
       \/ Leave(r, u)
       \/ DeleteAccount(r, u)
       \/ \E i \in Invitations : Accept(r, u, i)
  \/ \E r \in Requests : \/ ReadRole(r) \/ CountAdmins(r) \/ WriteRole(r)
                         \/ MarkAccepted(r) \/ Join(r) \/ EnsureMember(r) \/ RequestDies(r)
  \/ \E i \in Invitations : \/ \E u \in Users : \E new \in Roles : Invite(i, u, new)
                            \/ Expires(i) \/ RevokeInvitation(i)

MemberSpec == MemberInit /\ [][MemberNext]_memberVars

-----------------------------------------------------------------------------
(* What is promised *)

\* An invitation makes one member at most, however many requests accept it at
\* once, and none once it was revoked: what the look-up said is old by the time
\* the row is marked.  A request about to insert the member is the only one.
InvitationUsedOnce ==
  \A i \in Invitations :
    LET joining == {r \in Requests : req[r].at = "join" /\ req[r].token = i} IN
    /\ joined[i] + Cardinality(joining) <= 1
    /\ joining # {} \/ joined[i] > 0 => invitation[i].accepted # NoUser
    /\ invitation[i].accepted # NoUser => ~invitation[i].revoked

\* u was sent an invitation and accepted it; it makes no other member, and gives
\* the role it was sent with.
JoinsByInvitation(u) ==
  \E i \in Invitations :
    /\ invitation[i].to = u /\ invitation[i].accepted = u
    /\ joined[i] = 0 /\ joined'[i] = 1
    /\ role'[u] = invitation[i].role

\* u signed in to a self-hosted app and sent a request, of whatever kind; that
\* brings back a user who has left as well.
JoinsByDefault(u) ==
  SelfHosted /\ \E r \in Requests :
    req[r].kind = "resolve" /\ req[r].user = u /\ req'[r] = NoRequest /\ role'[u] = req[r].role

\* Nobody becomes a member but by an invitation addressed to them or, where the app
\* is self-hosted, by a request of their own: a change of role that was under way
\* when its member left, or was deleted, does not bring them back.
MembersWereInvited ==
  [][\A u \in Users : role[u] = "none" /\ role'[u] # "none" =>
       u \in account /\ (JoinsByInvitation(u) \/ JoinsByDefault(u))]_role

\* A change of role or a leave takes the last admin away only when the members
\* changed between what it read and its write.
LastAdminStays ==
  [][\A r \in Requests :
       req[r].at = "write" /\ req'[r] = NoRequest /\ Admins # {} /\ ~req[r].overtaken
         => Admins' # {}]_role
=============================================================================
