----------------------------- MODULE Memberships -----------------------------
(***************************************************************************)
(* The users of one organization: UsersService, PermissionsService and     *)
(* UserSessionsService as AdminService and AuthService drive them.         *)
(*                                                                         *)
(* Inviting, accepting, cancelling, suspending and restoring a user each   *)
(* write several collections in turn: the account, its membership, its     *)
(* permissions, its invitation, its session.  Requests may overlap, and    *)
(* each may stop between any two awaits.  Reading a user writes too: an    *)
(* account of this organization that has no membership left gets one       *)
(* (`ensureMembershipsBackfill`).                                          *)
(*                                                                         *)
(* Users are accounts: after the deletion of an account its address is     *)
(* free, and the next one that takes it is another user.                   *)
(***************************************************************************)
EXTENDS Naturals, Sequences, FiniteSets

CONSTANTS
  Requests,     (* requests that may be in flight at the same time          *)
  Users,        (* accounts, existing or to come                            *)
  Founder,      (* the account that created the organization                *)
  Elsewhere,    (* accounts that are members of another organization        *)
  Nobody,       (* no user                                                  *)
  MaxSeats,     (* maxUsers of the subscription                             *)
  MaxCalls,     (* bound on the calls                                       *)
  MaxAborts     (* bound on the requests stopped between two awaits         *)

ASSUME MembershipsAssumption ==
  /\ Founder \in Users
  /\ Nobody \notin Users
  /\ Elsewhere \subseteq Users \ {Founder}
  /\ IsFiniteSet(Users)
  /\ MaxSeats \in Nat \ {0}
  /\ {MaxCalls, MaxAborts} \subseteq Nat

VARIABLES
  account,      (* users: existence, passwordHash and deletedAt             *)
  current,      (* users: organizationId                                    *)
  member,       (* organization_memberships: status and deletedAt           *)
  role,         (* organization_memberships: role                           *)
  assigned,     (* user_permission_assignments: who has one                 *)
  invitations,  (* invitations, in the order of their creation              *)
  session,      (* user_sessions of one class of devices                    *)
  pc,           (* requests: the await a request is at                      *)
  op,           (* requests: what was asked                                 *)
  calls,        (* calls so far                                             *)
  aborts,       (* requests stopped so far                                  *)
  overlapped    (* two requests have been in flight at the same time        *)

accountVars == <<account, current>>
memberVars  == <<member, role>>
documents   == <<accountVars, memberVars, assigned, invitations, session>>
history     == <<calls, aborts, overlapped>>
vars        == <<documents, pc, op, history>>

Roles == {"admin", "member"}

(* `org` is what a request has read of organizationId, or what it will     *)
(* make it.                                                                *)
Organizations == {"none", "here", "elsewhere"}
Op == [kind: {"none", "find", "login", "switch", "invite", "accept", "cancel",
              "suspend", "restore"},
       user: Users \cup {Nobody}, role: Roles, invitation: Nat, org: Organizations]
NoOp == [kind |-> "none", user |-> Nobody, role |-> "member", invitation |-> 0,
         org |-> "none"]

Invitation == [user: Users, status: {"pending", "accepted", "cancelled"}]

Awaits == {"find", "create", "enrol", "assign", "issue", "identify", "revive",
           "check", "register", "activate", "settle", "answer", "choose",
           "replace", "open", "patch", "annul", "cancel", "withdraw", "remove",
           "count", "retire", "unassign", "disable", "revoke", "move", "reread",
           "restore"}

TypeOK ==
  /\ account \in [Users -> {"absent", "bare", "registered", "deleted"}]
  /\ current \in [Users -> Organizations]
  /\ member \in [Users -> {"none", "invited", "active", "disabled", "deleted"}]
  /\ role \in [Users -> Roles]
  /\ assigned \in SUBSET Users
  /\ invitations \in Seq(Invitation)
  /\ session \in SUBSET Users
  /\ pc \in [Requests -> Awaits \cup {"idle"}]
  /\ op \in [Requests -> Op]
  /\ {calls, aborts} \subseteq Nat
  /\ overlapped \in BOOLEAN
  /\ \A r \in Requests :
       /\ pc[r] # "idle" => op[r].user \in Users
       /\ op[r].invitation \in 0..Len(invitations)

(* The organization as its founder has created it.  Others may have an     *)
(* account, in another organization or in none yet.                        *)
Init ==
  /\ account \in [Users -> {"absent", "registered"}]
  /\ \A u \in Elsewhere \cup {Founder} : account[u] = "registered"
  /\ current = [u \in Users |-> IF u = Founder THEN "here"
                                ELSE IF u \in Elsewhere THEN "elsewhere"
                                ELSE "none"]
  /\ member = [u \in Users |-> IF u = Founder THEN "active" ELSE "none"]
  /\ role = [u \in Users |-> IF u = Founder THEN "admin" ELSE "member"]
  /\ assigned = {}
  /\ invitations = << >>
  /\ session = {Founder}
  /\ pc = [r \in Requests |-> "idle"]
  /\ op = [r \in Requests |-> NoOp]
  /\ calls = 0
  /\ aborts = 0
  /\ overlapped = FALSE

-----------------------------------------------------------------------------
(* Vocabulary of the operations.                                           *)

Quiet == \A r \in Requests : pc[r] = "idle"

Enter(r, to, o) ==
  /\ pc[r] = "idle"
  /\ calls < MaxCalls
  /\ calls' = calls + 1
  /\ pc' = [pc EXCEPT ![r] = to]
  /\ op' = [op EXCEPT ![r] = o]
  /\ overlapped' = (overlapped \/ ~Quiet)
  /\ UNCHANGED aborts

Advance(r, from, to) ==
  /\ pc[r] = from
  /\ pc' = [pc EXCEPT ![r] = to]
  /\ UNCHANGED <<op, history>>

(* An await after the account has been read.                               *)
AdvanceKnowing(r, from, to) ==
  /\ pc[r] = from
  /\ pc' = [pc EXCEPT ![r] = to]
  /\ op' = [op EXCEPT ![r].org = current[op[r].user]]
  /\ UNCHANGED history

Leave(r, from) ==
  /\ pc[r] = from
  /\ pc' = [pc EXCEPT ![r] = "idle"]
  /\ op' = [op EXCEPT ![r] = NoOp]
  /\ UNCHANGED history

Exists(u) == account[u] \in {"bare", "registered"}
Live(u)   == member[u] \in {"invited", "active", "disabled"}

(* Memberships that count for a seat, of the accounts that exist.          *)
Seats == {u \in Users : Exists(u) /\ member[u] \in {"invited", "active"}}

ActiveAdmins == {u \in Users : member[u] = "active" /\ role[u] = "admin"}

Pending(i) == invitations[i].status = "pending"

(* Upsert of a membership: the filter has no deletedAt, so a deleted one   *)
(* comes back.                                                             *)
Enrol(u, status, as) ==
  /\ member' = [member EXCEPT ![u] = status]
  /\ role' = [role EXCEPT ![u] = as]

(* `membership.save()` of a document read earlier: a deleted one stays so. *)
SaveMember(u, status) ==
  /\ member' = [member EXCEPT ![u] = IF Live(u) THEN status ELSE @]
  /\ UNCHANGED role

(* `doc.save()` writes organizationId if it is not what was read.          *)
SaveCurrent(r, org) ==
  current' = [current EXCEPT ![op[r].user] = IF op[r].org = org THEN @ ELSE org]

-----------------------------------------------------------------------------
(* findById, listOrganizationMemberships: reading a user.                  *)
Lacking(u) == /\ current[u] = "here"
              /\ ~Live(u)
              /\ u \notin Elsewhere

FindUser(r, u) ==
  /\ Exists(u)
  /\ Lacking(u)
  /\ Enter(r, "revive", [NoOp EXCEPT !.kind = "find", !.user = u])
  /\ UNCHANGED documents

(* The upsert of ensureMembershipsBackfill, and what comes after it.       *)
Revive(r) ==
  /\ \/ op[r].kind = "find" /\ Leave(r, "revive")
     \/ op[r].kind = "login" /\ Advance(r, "revive", "choose")
     \/ op[r].kind = "accept" /\ Advance(r, "revive", "check")
  /\ Enrol(op[r].user, "active", "member")
  /\ UNCHANGED <<accountVars, assigned, invitations, session>>

-----------------------------------------------------------------------------
(* createSession: the session of the same class of devices is deleted,     *)
(* then the new one inserted; the unique index refuses a second one.       *)
ReplaceSession(r) ==
  /\ pc[r] = "replace"
  /\ IF Exists(op[r].user)
     THEN /\ Advance(r, "replace", "open")
          /\ session' = session \ {op[r].user}
     ELSE /\ Leave(r, "replace")
          /\ UNCHANGED session
  /\ UNCHANGED <<accountVars, memberVars, assigned, invitations>>

OpenSession(r) ==
  /\ Leave(r, "open")
  /\ session' = session \cup {op[r].user}
  /\ UNCHANGED <<accountVars, memberVars, assigned, invitations>>

ActiveIn(u, org) == \/ org = "here" /\ member[u] = "active"
                    \/ org = "elsewhere" /\ u \in Elsewhere

(* login: validateCredentials chooses the organization.                    *)
LoginRead(r, u) ==
  /\ account[u] = "registered"
  /\ Enter(r, IF Lacking(u) THEN "revive" ELSE "choose",
           [NoOp EXCEPT !.kind = "login", !.user = u])
  /\ UNCHANGED documents

(* Without an organization the account goes on to create one; with no      *)
(* active membership it is refused.                                        *)
LoginChoose(r) ==
  LET u == op[r].user
  IN  /\ pc[r] = "choose"
      /\ \/ /\ ActiveIn(u, current[u])
            /\ Advance(r, "choose", "replace")
            /\ UNCHANGED current
         \/ /\ current[u] # "none"
            /\ ~ActiveIn(u, current[u])
            /\ \E org \in Organizations :
                 ActiveIn(u, org) /\ current' = [current EXCEPT ![u] = org]
            /\ Advance(r, "choose", "replace")
         \/ /\ current[u] = "none" \/ \A org \in Organizations : ~ActiveIn(u, org)
            /\ Leave(r, "choose")
            /\ UNCHANGED current
      /\ UNCHANGED <<account, memberVars, assigned, invitations, session>>

(* switchOrganization keeps the session.                                   *)
SwitchRead(r, u, org) ==
  /\ u \in session
  /\ Exists(u)
  /\ ActiveIn(u, org)
  /\ Enter(r, "patch", [NoOp EXCEPT !.kind = "switch", !.user = u, !.org = org])
  /\ UNCHANGED documents

SwitchPatch(r) ==
  LET u == op[r].user
  IN  /\ Leave(r, "patch")
      /\ current' = [current EXCEPT ![u] = IF Exists(u) THEN op[r].org ELSE @]
      /\ UNCHANGED <<account, memberVars, assigned, invitations, session>>

(* logout, changePassword, confirmPasswordReset.                           *)
EndSession(u) ==
  /\ u \in session
  /\ session' = session \ {u}
  /\ overlapped' = (overlapped \/ ~Quiet)
  /\ UNCHANGED <<accountVars, memberVars, assigned, invitations, pc, op, calls,
                 aborts>>

-----------------------------------------------------------------------------
(* inviteUser counts the seats ...                                         *)
SeatLeft == Cardinality(Seats) <= MaxSeats              \* slip of SeatFree
SeatFree == Cardinality(Seats) < MaxSeats

InviteRead(r, u, as) ==
  /\ session # {}
  /\ account[u] # "deleted"
  /\ SeatFree
  /\ Enter(r, "find", [NoOp EXCEPT !.kind = "invite", !.user = u, !.role = as])
  /\ UNCHANGED documents

(* ... looks for the account of the address and its membership ...         *)
InviteFind(r) ==
  LET u == op[r].user
  IN  /\ pc[r] = "find"
      /\ \/ account[u] = "absent" /\ Advance(r, "find", "create")
         \/ Exists(u) /\ ~Live(u) /\ Advance(r, "find", "enrol")
         \/ Exists(u) /\ Live(u) /\ Leave(r, "find")
         \/ account[u] = "deleted" /\ Leave(r, "find")
      /\ UNCHANGED documents

(* ... creates an account, unless another invitation has just done so ...  *)
InviteCreate(r) ==
  LET u == op[r].user
  IN  /\ pc[r] = "create"
      /\ IF account[u] = "absent"
         THEN /\ Advance(r, "create", "enrol")
              /\ account' = [account EXCEPT ![u] = "bare"]
              /\ current' = [current EXCEPT ![u] = "here"]
         ELSE /\ Leave(r, "create")
              /\ UNCHANGED accountVars
      /\ UNCHANGED <<memberVars, assigned, invitations, session>>

(* ... makes it an invited member ...                                      *)
InviteEnrol(r) ==
  /\ Advance(r, "enrol", "assign")
  /\ Enrol(op[r].user, "invited", op[r].role)
  /\ UNCHANGED <<accountVars, assigned, invitations, session>>

(* ... assigns the permissions of a member, unless the profile is unknown  *)
(* or the membership is gone ...                                           *)
InviteAssign(r) ==
  LET u == op[r].user
  IN  /\ pc[r] = "assign"
      /\ \/ /\ Live(u)
            /\ Advance(r, "assign", "issue")
            /\ assigned' = IF op[r].role = "admin" THEN assigned
                                                   ELSE assigned \cup {u}
         \/ /\ ~Live(u) \/ op[r].role = "member"
            /\ Leave(r, "assign")
            /\ UNCHANGED assigned
      /\ UNCHANGED <<accountVars, memberVars, invitations, session>>

(* ... and issues the invitation; a unique index refuses a second pending  *)
(* one for the address.                                                    *)
InviteIssue(r) ==
  LET u == op[r].user
  IN  /\ Leave(r, "issue")
      /\ invitations' =
           IF \E i \in DOMAIN invitations : invitations[i].user = u /\ Pending(i)
           THEN invitations
           ELSE Append(invitations, [user |-> u, status |-> "pending"])
      /\ UNCHANGED <<accountVars, memberVars, assigned, session>>

-----------------------------------------------------------------------------
(* acceptInvitation resolves the token ...                                 *)
AcceptRead(r, i) ==
  /\ Pending(i)
  /\ Enter(r, "identify", [NoOp EXCEPT !.kind = "accept", !.invitation = i,
                                       !.user = invitations[i].user])
  /\ UNCHANGED documents

(* ... activateInvitedUser reads the account, which may be revived ...     *)
AcceptIdentify(r) ==
  LET u == op[r].user
  IN  /\ pc[r] = "identify"
      /\ IF Exists(u)
         THEN AdvanceKnowing(r, "identify",
                             IF Lacking(u) THEN "revive" ELSE "check")
         ELSE Leave(r, "identify")
      /\ UNCHANGED documents

(* ... requires an invited membership, and a password ...                  *)
AcceptCheck(r) ==
  /\ pc[r] = "check"
  /\ IF member[op[r].user] = "invited" THEN Advance(r, "check", "register")
                                ELSE Leave(r, "check")
  /\ UNCHANGED documents

(* ... saves the account ...                                               *)
AcceptRegister(r) ==
  LET u == op[r].user
  IN  /\ Advance(r, "register", "activate")
      /\ account' = [account EXCEPT ![u] = IF @ = "bare" THEN "registered" ELSE @]
      /\ SaveCurrent(r, "here")
      /\ UNCHANGED <<memberVars, assigned, invitations, session>>

(* ... and activates its live membership, whatever it has become.          *)
SaveAccepted(r) ==                                      \* slip of AcceptActivate
  /\ Advance(r, "activate", "settle")
  /\ SaveMember(op[r].user, "accepted")
  /\ UNCHANGED <<accountVars, assigned, invitations, session>>
AcceptActivate(r) ==
  /\ pc[r] = "activate"
  /\ IF Live(op[r].user) THEN Advance(r, "activate", "settle")
                         ELSE Leave(r, "activate")
  /\ SaveMember(op[r].user, "active")
  /\ UNCHANGED <<accountVars, assigned, invitations, session>>

(* permissions.acceptInvitation looks for the pending invitation and saves *)
(* it; then the user is logged in.                                         *)
AcceptSettle(r) ==
  /\ pc[r] = "settle"
  /\ IF Pending(op[r].invitation) THEN Advance(r, "settle", "answer")
                                  ELSE Leave(r, "settle")
  /\ UNCHANGED documents

AcceptAnswer(r) ==
  /\ Advance(r, "answer", "replace")
  /\ invitations' = [invitations EXCEPT ![op[r].invitation].status = "accepted"]
  /\ UNCHANGED <<accountVars, memberVars, assigned, session>>

-----------------------------------------------------------------------------
(* cancelInvitation finds the pending invitation, twice, and saves it ...  *)
CancelRead(r, i) ==
  /\ session # {}
  /\ Pending(i)
  /\ Enter(r, "annul", [NoOp EXCEPT !.kind = "cancel", !.invitation = i,
                                    !.user = invitations[i].user])
  /\ UNCHANGED documents

CancelAnnul(r) ==
  /\ pc[r] = "annul"
  /\ IF Pending(op[r].invitation) THEN Advance(r, "annul", "cancel")
                                  ELSE Leave(r, "annul")
  /\ UNCHANGED documents

CancelNothing(r) ==                                     \* slip of CancelSave
  /\ Advance(r, "cancel", "withdraw")
  /\ UNCHANGED documents
CancelSave(r) ==
  /\ Advance(r, "cancel", "withdraw")
  /\ invitations' = [invitations EXCEPT ![op[r].invitation].status = "cancelled"]
  /\ UNCHANGED <<accountVars, memberVars, assigned, session>>

(* ... cancelOrganizationInvitation reads the account and the membership   *)
(* ...                                                                     *)
CancelWithdraw(r) ==
  LET u == op[r].user
  IN  /\ pc[r] = "withdraw"
      /\ IF Exists(u) /\ member[u] = "invited"
         THEN AdvanceKnowing(r, "withdraw", "remove")
         ELSE Leave(r, "withdraw")
      /\ UNCHANGED documents

(* ... deletes the membership, by _id ...                                  *)
CancelRemove(r) ==
  /\ Advance(r, "remove", "count")
  /\ member' = [member EXCEPT ![op[r].user] = "deleted"]
  /\ UNCHANGED <<accountVars, role, assigned, invitations, session>>

(* ... counts what is left to the account, deletes it or moves it to       *)
(* another organization ...                                                *)
CancelCount(r) ==
  LET u == op[r].user
  IN  /\ pc[r] = "count"
      /\ IF ~Live(u) /\ u \notin Elsewhere
         THEN Advance(r, "count", "retire") /\ UNCHANGED current
         ELSE /\ Advance(r, "count", "unassign")
              /\ \/ op[r].org = "here" /\ u \in Elsewhere
                      /\ SaveCurrent(r, "elsewhere")
                 \/ /\ op[r].org # "here" \/ Live(u)
                    /\ UNCHANGED current
      /\ UNCHANGED <<account, memberVars, assigned, invitations, session>>

CancelRetire(r) ==
  LET u == op[r].user
  IN  /\ Advance(r, "retire", "unassign")
      /\ account' = [account EXCEPT ![u] = "deleted"]
      /\ current' = [current EXCEPT ![u] = IF op[r].org = "here" THEN "none"
                                                                ELSE @]
      /\ UNCHANGED <<memberVars, assigned, invitations, session>>

(* ... and deletes the assignment of permissions.                          *)
CancelUnassign(r) ==
  /\ Leave(r, "unassign")
  /\ assigned' = assigned \ {op[r].user}
  /\ UNCHANGED <<accountVars, memberVars, invitations, session>>

-----------------------------------------------------------------------------
(* deactivateOrganizationMembership, by another user: reads the membership *)
(* and counts the other active administrators ...                          *)
AnyAdmins(u)   == role[u] = "admin" => ActiveAdmins # {} \* slip of OtherAdmins
OtherAdmins(u) == role[u] = "admin" => ActiveAdmins \ {u} # {}

SuspendRead(r, u, by) ==
  /\ by \in session
  /\ by # u
  /\ Exists(u)
  /\ member[u] = "active"
  /\ OtherAdmins(u)
  /\ Enter(r, "disable", [NoOp EXCEPT !.kind = "suspend", !.user = u,
                                      !.org = current[u]])
  /\ UNCHANGED documents

SuspendSave(r) ==
  /\ Advance(r, "disable", "revoke")
  /\ SaveMember(op[r].user, "disabled")
  /\ UNCHANGED <<accountVars, assigned, invitations, session>>

(* ... revokes the sessions, and moves the account to another organization *)
(* where it is active.                                                     *)
RevokeNone(r) ==                                        \* slip of SuspendRevoke
  /\ Advance(r, "revoke", "move")
  /\ UNCHANGED documents
SuspendRevoke(r) ==
  /\ pc[r] = "revoke"
  /\ IF Exists(op[r].user)
     THEN /\ Advance(r, "revoke", "move")
          /\ session' = session \ {op[r].user}
     ELSE /\ Leave(r, "revoke")
          /\ UNCHANGED session
  /\ UNCHANGED <<accountVars, memberVars, assigned, invitations>>

SuspendMove(r) ==
  LET u == op[r].user
  IN  /\ Leave(r, "move")
      /\ \/ /\ op[r].org = "here"
            /\ u \in Elsewhere
            /\ SaveCurrent(r, "elsewhere")
         \/ /\ op[r].org # "here" \/ u \notin Elsewhere \/ member[u] = "active"
            /\ UNCHANGED current
      /\ UNCHANGED <<account, memberVars, assigned, invitations, session>>

-----------------------------------------------------------------------------
(* reactivateOrganizationUser counts the seats, reads the membership and   *)
(* saves it.                                                               *)
RestoreRead(r, u) ==
  /\ session # {}
  /\ SeatFree
  /\ Enter(r, "reread", [NoOp EXCEPT !.kind = "restore", !.user = u])
  /\ UNCHANGED documents

RestoreReread(r) ==
  /\ pc[r] = "reread"
  /\ IF Exists(op[r].user) /\ member[op[r].user] = "disabled"
     THEN AdvanceKnowing(r, "reread", "restore")
     ELSE Leave(r, "reread")
  /\ UNCHANGED documents

RestoreSave(r) ==
  LET u == op[r].user
  IN  /\ Leave(r, "restore")
      /\ SaveMember(u, "active")
      /\ current' = [current EXCEPT ![u] = IF op[r].org = "none" THEN "here"
                                                                ELSE @]
      /\ UNCHANGED <<account, assigned, invitations, session>>

(* An exception or a restart stops a request; what it wrote stays.         *)
Abort(r) ==
  /\ aborts < MaxAborts
  /\ pc[r] # "idle"
  /\ aborts' = aborts + 1
  /\ pc' = [pc EXCEPT ![r] = "idle"]
  /\ op' = [op EXCEPT ![r] = NoOp]
  /\ UNCHANGED <<documents, calls, overlapped>>

-----------------------------------------------------------------------------
Call(r) ==
  \/ \E u \in Users :
       \/ FindUser(r, u)
       \/ LoginRead(r, u)
       \/ \E org \in {"here", "elsewhere"} : SwitchRead(r, u, org)
       \/ RestoreRead(r, u)
       \/ \E as \in Roles : InviteRead(r, u, as)
       \/ \E by \in Users : SuspendRead(r, u, by)
  \/ \E i \in DOMAIN invitations : AcceptRead(r, i) \/ CancelRead(r, i)

Continue(r) ==
  \/ Revive(r)
  \/ LoginChoose(r) \/ ReplaceSession(r) \/ OpenSession(r) \/ SwitchPatch(r)
  \/ InviteFind(r) \/ InviteCreate(r) \/ InviteEnrol(r) \/ InviteAssign(r)
  \/ InviteIssue(r)
  \/ AcceptIdentify(r) \/ AcceptCheck(r) \/ AcceptRegister(r)
  \/ AcceptActivate(r) \/ AcceptSettle(r) \/ AcceptAnswer(r)
  \/ CancelAnnul(r) \/ CancelSave(r) \/ CancelWithdraw(r) \/ CancelRemove(r)
  \/ CancelCount(r) \/ CancelRetire(r) \/ CancelUnassign(r)
  \/ SuspendSave(r) \/ SuspendRevoke(r) \/ SuspendMove(r)
  \/ RestoreReread(r) \/ RestoreSave(r)

Next ==
  \/ \E u \in Users : EndSession(u)
  \/ \E r \in Requests : Call(r) \/ Continue(r) \/ Abort(r)

Spec == Init /\ [][Next]_vars

-----------------------------------------------------------------------------
(***************************************************************************)
(* Properties of requests that have not overlapped, even if some stopped.  *)
(***************************************************************************)

(* "Impossible de desactiver le dernier administrateur de l'organisation": *)
(* whoever is invited, joins, is suspended or restored, and wherever these *)
(* stop, one active administrator remains, with an account that exists.    *)
AdministratorRemains ==
  ~overlapped => \E u \in ActiveAdmins : Exists(u)

(* The same of requests that overlap, which the message promises as well.  *)
AdministratorAlways == ActiveAdmins # {}

(***************************************************************************)
(* Properties of requests that have neither overlapped nor stopped.        *)
(***************************************************************************)
Calm == ~overlapped /\ aborts = 0

(* Once nothing runs, an invitation that is pending can be accepted or     *)
(* cancelled: its account exists and its membership is still an invited    *)
(* one.                                                                    *)
InvitationsAnswerable ==
  Calm /\ Quiet =>
    \A i \in DOMAIN invitations :
      LET u == invitations[i].user
      IN  Pending(i) => /\ Exists(u)
                        /\ member[u] = "invited"
                        /\ role[u] = "member" => u \in assigned

(* A user who was suspended and has no other organization has no session.  *)
SuspendedHasNoSession ==
  Calm /\ Quiet =>
    \A u \in Users \ Elsewhere : member[u] = "disabled" => u \notin session

(* The organization as a Roster.                                           *)
StandingOf(status) ==
  CASE status = "invited"  -> "invited"
    [] status = "active"   -> "member"
    [] status = "disabled" -> "suspended"
    [] OTHER               -> "outside"

Standing == [u \in Users |-> StandingOf(member[u])]
Admins   == {u \in Users : Live(u) /\ role[u] = "admin"}

R == INSTANCE Roster WITH standing <- Standing, admins <- Admins

(* However a step of the service is split over collections, it is a step   *)
(* of the Roster: seats are never exceeded, nobody joins without an        *)
(* invitation that still stands and the last administrator stays.          *)
FollowsRoster == R!RosterInit /\ [][Calm' => [R!RosterNext]_(R!roster)]_vars

=============================================================================
