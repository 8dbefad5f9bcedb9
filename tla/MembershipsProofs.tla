-------------------------- MODULE MembershipsProofs --------------------------
(***************************************************************************)
(* What Memberships promises, for any users, requests, seats and stops.    *)
(***************************************************************************)
EXTENDS Memberships, FiniteSetTheorems, TLAPS

-----------------------------------------------------------------------------
(* The inductive invariant.  While requests do not overlap at most one is  *)
(* in flight, and what it has read still holds when it writes.             *)

Alone == \A r, s \in Requests : pc[r] # "idle" /\ pc[s] # "idle" => r = s

MembersExist == \A u \in Users : Live(u) => Exists(u)

Knows(r) ==
  LET u == op[r].user
  IN  /\ pc[r] \in {"enrol", "revive"} => Exists(u)
      /\ pc[r] \in {"enrol", "revive", "count", "retire", "unassign"} => ~Live(u)
      /\ pc[r] \in {"remove", "register", "activate", "assign", "issue"} =>
           member[u] = "invited"
      /\ pc[r] \in {"assign", "issue"} => role[u] = op[r].role
      /\ pc[r] = "disable" => member[u] = "active" /\ OtherAdmins(u)
      /\ pc[r] \in {"revoke", "restore"} => member[u] = "disabled"
      /\ pc[r] \in {"settle", "answer"} => member[u] = "active"
      /\ pc[r] \in {"replace", "open"} => member[u] = "active" \/ u \in Elsewhere
      /\ pc[r] = "patch" => ActiveIn(u, op[r].org)
      /\ pc[r] \in {"find", "create", "enrol", "reread", "restore"} => SeatFree

SoloInv ==
  ~overlapped => /\ Alone
                 /\ MembersExist
                 /\ \A r \in Requests : Knows(r)
                 /\ ActiveAdmins # {}

-----------------------------------------------------------------------------
(* Types.                                                                  *)

DocumentsOK ==
  /\ account \in [Users -> {"absent", "bare", "registered", "deleted"}]
  /\ current \in [Users -> Organizations]
  /\ member \in [Users -> {"none", "invited", "active", "disabled", "deleted"}]
  /\ role \in [Users -> Roles]
  /\ assigned \in SUBSET Users
  /\ invitations \in Seq(Invitation)
  /\ session \in SUBSET Users

RequestsOK ==
  /\ pc \in [Requests -> Awaits \cup {"idle"}]
  /\ op \in [Requests -> Op]
  /\ {calls, aborts} \subseteq Nat
  /\ overlapped \in BOOLEAN

PointersOK ==
  \A r \in Requests :
    /\ pc[r] # "idle" => op[r].user \in Users
    /\ op[r].invitation \in 0..Len(invitations)

(* The type invariant in three parts.                                      *)
LEMMA TypeParts == TypeOK <=> DocumentsOK /\ RequestsOK /\ PointersOK
  BY DEF TypeOK, DocumentsOK, RequestsOK, PointersOK

(* The document writes of a step keep the types of the documents, and no   *)
(* invitation disappears.                                                  *)
Writes == DocumentsOK' /\ Len(invitations') >= Len(invitations)

(* A step that writes no document keeps them.                              *)
LEMMA NothingWritten ==
  ASSUME TypeOK, UNCHANGED documents
  PROVE  Writes
  <1>1. Len(invitations) \in Nat  BY DEF TypeOK
  <1>2. UNCHANGED <<account, current, member, role, assigned, invitations, session>>
    BY DEF documents, accountVars, memberVars
  <1> QED  BY <1>1, <1>2 DEF Writes, TypeOK, DocumentsOK

(* A request that enters with a well-formed question keeps the types ...   *)
LEMMA EnterType ==
  ASSUME TypeOK, NEW r \in Requests, NEW to \in Awaits, NEW o \in Op,
         o.user \in Users, o.invitation \in 0..Len(invitations),
         Enter(r, to, o), UNCHANGED documents
  PROVE  TypeOK'
  <1>1. DocumentsOK' /\ Len(invitations') = Len(invitations)
    BY NothingWritten DEF Writes, documents
  <1>2. RequestsOK'  BY DEF Enter, TypeOK, RequestsOK, Quiet
  <1>3. PointersOK'  BY <1>1 DEF Enter, TypeOK, PointersOK
  <1> QED  BY <1>1, <1>2, <1>3, TypeParts DEF DocumentsOK, RequestsOK, PointersOK, TypeOK

(* ... and so does one that goes on or ends, whatever it writes.           *)
LEMMA GoOnType ==
  ASSUME TypeOK, NEW r \in Requests, NEW from \in Awaits, Writes,
         \/ \E to \in Awaits : Advance(r, from, to) \/ AdvanceKnowing(r, from, to)
         \/ Leave(r, from)
  PROVE  TypeOK'
  <1>1. from # "idle"  BY DEF Awaits
  <1>2. pc[r] = from /\ op[r] \in Op /\ op[r].user \in Users
    BY <1>1 DEF Advance, AdvanceKnowing, Leave, TypeOK
  <1>3. RequestsOK'
    <2>1. CASE Leave(r, from)
      <3>1. NoOp \in Op  BY DEF NoOp, Op, Roles, Organizations
      <3> QED  BY <2>1, <3>1 DEF Leave, history, TypeOK, RequestsOK
    <2>2. CASE \E to \in Awaits : Advance(r, from, to)
      BY <2>2 DEF Advance, history, TypeOK, RequestsOK
    <2>3. CASE \E to \in Awaits : AdvanceKnowing(r, from, to)
      <3>1. [op[r] EXCEPT !.org = current[op[r].user]] \in Op
        BY <1>2 DEF Op, TypeOK
      <3>2. op' \in [Requests -> Op]
        BY <2>3, <3>1 DEF AdvanceKnowing, TypeOK
      <3>3. pc' \in [Requests -> Awaits \cup {"idle"}] /\ UNCHANGED history
        BY <2>3 DEF AdvanceKnowing, TypeOK
      <3> QED  BY <3>2, <3>3 DEF history, TypeOK, RequestsOK
    <2> QED  BY <2>1, <2>2, <2>3
  <1>4. ASSUME NEW s \in Requests
        PROVE  /\ pc'[s] # "idle" => op'[s].user \in Users
               /\ op'[s].invitation \in 0..Len(invitations')
    <2>1. op[s].invitation \in 0..Len(invitations')
      <3>1. Len(invitations) \in Nat /\ Len(invitations') \in Nat
        BY DEF Writes, DocumentsOK, TypeOK
      <3> QED  BY <3>1 DEF Writes, TypeOK
    <2>2. Len(invitations') \in Nat  BY DEF Writes, DocumentsOK
    <2>3. pc[s] # "idle" => op[s].user \in Users  BY DEF TypeOK
    <2>4. CASE Leave(r, from)
      BY <2>1, <2>2, <2>3, <2>4 DEF Leave, NoOp, TypeOK
    <2>5. CASE \E to \in Awaits : Advance(r, from, to)
      BY <1>2, <2>1, <2>3, <2>5 DEF Advance, TypeOK
    <2>6. CASE \E to \in Awaits : AdvanceKnowing(r, from, to)
      <3>1. op'[s].user = op[s].user /\ op'[s].invitation = op[s].invitation
        BY <2>6 DEF AdvanceKnowing, TypeOK, Op
      <3>2. s # r => pc'[s] = pc[s]  BY <2>6 DEF AdvanceKnowing, TypeOK
      <3> QED  BY <1>2, <2>1, <2>3, <3>1, <3>2
    <2> QED  BY <2>4, <2>5, <2>6
  <1>5. DocumentsOK' /\ RequestsOK' /\ PointersOK'
    BY <1>3, <1>4 DEF Writes, PointersOK
  <1> QED  BY <1>5 DEF DocumentsOK, RequestsOK, PointersOK, TypeOK

(* The invitations stay a sequence of them when one is added ...           *)
LEMMA InvitationsType ==
  ASSUME invitations \in Seq(Invitation)
  PROVE  /\ Len(invitations) \in Nat
         /\ DOMAIN invitations = 1..Len(invitations)
         /\ \A i \in DOMAIN invitations :
              i \in 1..Len(invitations) /\ invitations[i] \in Invitation
         /\ \A x \in Invitation :
              /\ Append(invitations, x) \in Seq(Invitation)
              /\ Len(Append(invitations, x)) = Len(invitations) + 1
  OBVIOUS

(* ... and when one is answered.                                           *)
LEMMA AnsweredType ==
  ASSUME invitations \in Seq(Invitation), NEW i,
         NEW status \in {"pending", "accepted", "cancelled"},
         invitations' = [invitations EXCEPT ![i].status = status]
  PROVE  /\ invitations' \in Seq(Invitation)
         /\ Len(invitations') = Len(invitations)
  <1>1. /\ Len(invitations) \in Nat
        /\ DOMAIN invitations = 1..Len(invitations)
        /\ \A j \in DOMAIN invitations : invitations[j] \in Invitation
    OBVIOUS
  <1>2. ASSUME NEW j \in 1..Len(invitations)  PROVE invitations'[j] \in Invitation
    <2>1. invitations[j] \in Invitation  BY <1>1
    <2>2. [invitations[j] EXCEPT !.status = status] \in Invitation
      BY <2>1 DEF Invitation
    <2> QED  BY <1>1, <2>1, <2>2
  <1>3. DOMAIN invitations' = 1..Len(invitations)  BY <1>1
  <1>4. invitations' \in [1..Len(invitations) -> Invitation]
    <2>1. invitations' = [j \in 1..Len(invitations) |-> invitations'[j]]  BY <1>1
    <2> QED  BY <1>2, <2>1
  <1> QED  BY <1>1, <1>4

(* The questions requests enter with.                                      *)
LEMMA CallType ==
  ASSUME TypeOK, NEW r \in Requests, Call(r)
  PROVE  TypeOK'
  <1>1. Len(invitations) \in Nat /\ 0 \in 0..Len(invitations)  BY DEF TypeOK
  <1>2. ASSUME NEW u \in Users, NEW to \in Awaits, NEW o \in Op,
               o.user = u, o.invitation = 0, Enter(r, to, o), UNCHANGED documents
        PROVE  TypeOK'
    BY <1>1, <1>2, EnterType
  <1>3. ASSUME NEW u \in Users, FindUser(r, u)  PROVE TypeOK'
    BY <1>2, <1>3 DEF FindUser, NoOp, Op, Roles, Organizations, Awaits
  <1>4. ASSUME NEW u \in Users, LoginRead(r, u)  PROVE TypeOK'
    BY <1>2, <1>4 DEF LoginRead, NoOp, Op, Roles, Organizations, Awaits
  <1>5. ASSUME NEW u \in Users, NEW org \in {"here", "elsewhere"}, SwitchRead(r, u, org)
        PROVE  TypeOK'
    BY <1>2, <1>5 DEF SwitchRead, NoOp, Op, Roles, Organizations, Awaits
  <1>6. ASSUME NEW u \in Users, RestoreRead(r, u)  PROVE TypeOK'
    BY <1>2, <1>6 DEF RestoreRead, NoOp, Op, Roles, Organizations, Awaits
  <1>7. ASSUME NEW u \in Users, NEW as \in Roles, InviteRead(r, u, as)
        PROVE  TypeOK'
    BY <1>2, <1>7 DEF InviteRead, NoOp, Op, Roles, Organizations, Awaits
  <1>8. ASSUME NEW u \in Users, NEW by \in Users, SuspendRead(r, u, by)
        PROVE  TypeOK'
    <2>1. current[u] \in Organizations  BY DEF TypeOK
    <2> QED  BY <1>2, <1>8, <2>1 DEF SuspendRead, NoOp, Op, Roles, Awaits
  <1>9. ASSUME NEW i \in DOMAIN invitations, AcceptRead(r, i) \/ CancelRead(r, i)
        PROVE  TypeOK'
    <2>1. i \in 0..Len(invitations) /\ i \in Nat /\ invitations[i].user \in Users
      BY InvitationsType DEF TypeOK, Invitation
    <2>2. CASE AcceptRead(r, i)
      BY <2>1, <2>2, EnterType DEF AcceptRead, NoOp, Op, Roles, Organizations, Awaits
    <2>3. CASE CancelRead(r, i)
      BY <2>1, <2>3, EnterType DEF CancelRead, NoOp, Op, Roles, Organizations, Awaits
    <2> QED  BY <1>9, <2>2, <2>3
  <1> QED  BY <1>3, <1>4, <1>5, <1>6, <1>7, <1>8, <1>9 DEF Call

(* What the steps of a request write.                                      *)
LEMMA ContinueType ==
  ASSUME TypeOK, NEW r \in Requests, Continue(r)
  PROVE  TypeOK'
  <1> DEFINE u == op[r].user
  <1>1. pc[r] # "idle" => u \in Users  BY DEF TypeOK
  <1>2. op[r] \in Op /\ Len(invitations) \in Nat  BY DEF TypeOK
  <1>3. ASSUME UNCHANGED <<account, current, role, assigned, invitations, session>>,
               u \in Users,
               \E m \in {"none", "invited", "active", "disabled", "deleted"} :
                 member' = [member EXCEPT ![u] = m]
        PROVE  Writes
    BY <1>2, <1>3 DEF Writes, DocumentsOK, TypeOK
  <1>4. ASSUME UNCHANGED <<member, role, assigned, invitations, session>>,
               account' \in [Users -> {"absent", "bare", "registered", "deleted"}],
               current' \in [Users -> Organizations]
        PROVE  Writes
    BY <1>2, <1>4 DEF Writes, DocumentsOK, TypeOK
  <1>5. ASSUME UNCHANGED <<account, current, member, role, assigned, invitations>>,
               session' \subseteq session \cup {u}, u \in Users
        PROVE  Writes
    BY <1>2, <1>5 DEF Writes, DocumentsOK, TypeOK
  <1>6. ASSUME UNCHANGED <<account, current, member, role, invitations, session>>,
               assigned' \subseteq assigned \cup {u}, u \in Users
        PROVE  Writes
    BY <1>2, <1>6 DEF Writes, DocumentsOK, TypeOK
  <1>7. ASSUME UNCHANGED <<account, current, member, role, assigned, session>>,
               invitations' \in Seq(Invitation),
               Len(invitations') >= Len(invitations)
        PROVE  Writes
    BY <1>2, <1>7 DEF Writes, DocumentsOK, TypeOK
  <1>8. ASSUME UNCHANGED <<account, current, assigned, invitations, session>>,
               u \in Users,
               \E m \in {"invited", "active"}, as \in Roles : Enrol(u, m, as)
        PROVE  Writes
    <2>1. PICK m \in {"invited", "active"}, as \in Roles : Enrol(u, m, as)  BY <1>8
    <2>2. /\ member' \in [Users -> {"none", "invited", "active", "disabled", "deleted"}]
          /\ role' \in [Users -> Roles]
      BY <2>1 DEF Enrol, TypeOK
    <2> QED  BY <1>2, <1>8, <2>2 DEF Writes, DocumentsOK, TypeOK
  <1> HIDE DEF u
  <1>9. CASE Revive(r)
    <2>1. pc[r] = "revive" /\ u \in Users
      BY <1>1, <1>9 DEF Revive, Leave, Advance
    <2>2. Writes
      BY <1>8, <1>9, <2>1 DEF Revive, Roles, accountVars, u
    <2> QED  BY <1>9, <2>2, GoOnType DEF Revive, Awaits
  <1>10. CASE LoginChoose(r)
    <2>1. current' \in [Users -> Organizations]
      BY <1>10 DEF LoginChoose, TypeOK
    <2>2. Writes  BY <1>4, <1>10, <2>1 DEF LoginChoose, memberVars, TypeOK
    <2> QED  BY <1>10, <2>2, GoOnType DEF LoginChoose, Awaits
  <1>11. CASE ReplaceSession(r)
    <2>1. Writes
      BY <1>1, <1>5, <1>11 DEF ReplaceSession, accountVars, memberVars, u
    <2> QED  BY <1>11, <2>1, GoOnType DEF ReplaceSession, Awaits
  <1>12. CASE OpenSession(r)
    <2>1. Writes
      BY <1>1, <1>5, <1>12 DEF OpenSession, Leave, accountVars, memberVars, u
    <2> QED  BY <1>12, <2>1, GoOnType DEF OpenSession, Awaits
  <1>13. CASE SwitchPatch(r)
    <2>1. current' \in [Users -> Organizations]
      BY <1>2, <1>13 DEF SwitchPatch, Op, TypeOK
    <2>2. Writes  BY <1>4, <1>13, <2>1 DEF SwitchPatch, memberVars, TypeOK
    <2> QED  BY <1>13, <2>2, GoOnType DEF SwitchPatch, Awaits
  <1>14. CASE InviteFind(r)
    BY <1>14, NothingWritten, GoOnType DEF InviteFind, Awaits
  <1>15. CASE InviteCreate(r)
    <2>1. /\ account' \in [Users -> {"absent", "bare", "registered", "deleted"}]
          /\ current' \in [Users -> Organizations]
      <3>1. \/ UNCHANGED accountVars
            \/ /\ account' = [account EXCEPT ![u] = "bare"]
               /\ current' = [current EXCEPT ![u] = "here"]
        BY <1>15 DEF InviteCreate, u
      <3> QED  BY <3>1 DEF accountVars, Organizations, TypeOK
    <2>2. Writes  BY <1>4, <1>15, <2>1 DEF InviteCreate, memberVars
    <2> QED  BY <1>15, <2>2, GoOnType DEF InviteCreate, Awaits
  <1>16. CASE InviteEnrol(r)
    <2>1. op[r].role \in Roles  BY <1>2 DEF Op
    <2>2. u \in Users  BY <1>1, <1>16 DEF InviteEnrol, Advance
    <2>3. Writes  BY <1>8, <1>16, <2>1, <2>2 DEF InviteEnrol, accountVars, u
    <2> QED  BY <1>16, <2>3, GoOnType DEF InviteEnrol, Awaits
  <1>17. CASE InviteAssign(r)
    <2>1. Writes
      BY <1>1, <1>6, <1>17 DEF InviteAssign, accountVars, memberVars, u
    <2> QED  BY <1>17, <2>1, GoOnType DEF InviteAssign, Awaits
  <1>18. CASE InviteIssue(r)
    <2>1. u \in Users  BY <1>1, <1>18 DEF InviteIssue, Leave
    <2>2. /\ invitations' \in Seq(Invitation)
          /\ Len(invitations') >= Len(invitations)
      <3>1. [user |-> u, status |-> "pending"] \in Invitation  BY <2>1 DEF Invitation
      <3> QED  BY <1>2, <1>18, <3>1, InvitationsType DEF InviteIssue, TypeOK, u
    <2>3. Writes  BY <1>7, <1>18, <2>2 DEF InviteIssue, accountVars, memberVars
    <2> QED  BY <1>18, <2>3, GoOnType DEF InviteIssue, Awaits
  <1>19. CASE AcceptIdentify(r)
    BY <1>19, NothingWritten, GoOnType DEF AcceptIdentify, Awaits
  <1>20. CASE AcceptCheck(r)
    BY <1>20, NothingWritten, GoOnType DEF AcceptCheck, Awaits
  <1>21. CASE AcceptRegister(r)
    <2>1. /\ account' \in [Users -> {"absent", "bare", "registered", "deleted"}]
          /\ current' \in [Users -> Organizations]
      BY <1>21 DEF AcceptRegister, SaveCurrent, Organizations, TypeOK
    <2>2. Writes  BY <1>4, <1>21, <2>1 DEF AcceptRegister, memberVars
    <2> QED  BY <1>21, <2>2, GoOnType DEF AcceptRegister, Awaits
  <1>22. CASE AcceptActivate(r)
    <2>1. Writes
      BY <1>1, <1>3, <1>22 DEF AcceptActivate, SaveMember, accountVars, TypeOK, u
    <2> QED  BY <1>22, <2>1, GoOnType DEF AcceptActivate, Awaits
  <1>23. CASE AcceptSettle(r)
    BY <1>23, NothingWritten, GoOnType DEF AcceptSettle, Awaits
  <1>24. CASE AcceptAnswer(r)
    <2>1. /\ invitations' \in Seq(Invitation)
          /\ Len(invitations') >= Len(invitations)
      <3>1. invitations \in Seq(Invitation)  BY DEF TypeOK
      <3>2. invitations' = [invitations EXCEPT ![op[r].invitation].status = "accepted"]
        BY <1>24 DEF AcceptAnswer
      <3>3. /\ invitations' \in Seq(Invitation)
            /\ Len(invitations') = Len(invitations)
        BY <3>1, <3>2, AnsweredType
      <3> QED  BY <1>2, <3>3
    <2>2. Writes  BY <1>7, <1>24, <2>1 DEF AcceptAnswer, accountVars, memberVars
    <2> QED  BY <1>24, <2>2, GoOnType DEF AcceptAnswer, Awaits
  <1>25. CASE CancelAnnul(r)
    BY <1>25, NothingWritten, GoOnType DEF CancelAnnul, Awaits
  <1>26. CASE CancelSave(r)
    <2>1. /\ invitations' \in Seq(Invitation)
          /\ Len(invitations') >= Len(invitations)
      <3>1. invitations \in Seq(Invitation)  BY DEF TypeOK
      <3>2. invitations' = [invitations EXCEPT ![op[r].invitation].status = "cancelled"]
        BY <1>26 DEF CancelSave
      <3>3. /\ invitations' \in Seq(Invitation)
            /\ Len(invitations') = Len(invitations)
        BY <3>1, <3>2, AnsweredType
      <3> QED  BY <1>2, <3>3
    <2>2. Writes  BY <1>7, <1>26, <2>1 DEF CancelSave, accountVars, memberVars
    <2> QED  BY <1>26, <2>2, GoOnType DEF CancelSave, Awaits
  <1>27. CASE CancelWithdraw(r)
    BY <1>27, NothingWritten, GoOnType DEF CancelWithdraw, Awaits
  <1>28. CASE CancelRemove(r)
    <2>1. Writes
      BY <1>1, <1>3, <1>28 DEF CancelRemove, Advance, accountVars, u
    <2> QED  BY <1>28, <2>1, GoOnType DEF CancelRemove, Awaits
  <1>29. CASE CancelCount(r)
    <2>1. current' \in [Users -> Organizations]
      BY <1>29 DEF CancelCount, SaveCurrent, Organizations, TypeOK
    <2>2. Writes  BY <1>4, <1>29, <2>1 DEF CancelCount, memberVars, TypeOK
    <2> QED  BY <1>29, <2>2, GoOnType DEF CancelCount, Awaits
  <1>30. CASE CancelRetire(r)
    <2>1. /\ account' \in [Users -> {"absent", "bare", "registered", "deleted"}]
          /\ current' \in [Users -> Organizations]
      BY <1>30 DEF CancelRetire, Organizations, TypeOK
    <2>2. Writes  BY <1>4, <1>30, <2>1 DEF CancelRetire, memberVars
    <2> QED  BY <1>30, <2>2, GoOnType DEF CancelRetire, Awaits
  <1>31. CASE CancelUnassign(r)
    <2>1. Writes
      BY <1>1, <1>6, <1>31 DEF CancelUnassign, Leave, accountVars, memberVars, u
    <2> QED  BY <1>31, <2>1, GoOnType DEF CancelUnassign, Awaits
  <1>32. CASE SuspendSave(r)
    <2>1. Writes
      BY <1>1, <1>3, <1>32 DEF SuspendSave, Advance, SaveMember, accountVars, TypeOK, u
    <2> QED  BY <1>32, <2>1, GoOnType DEF SuspendSave, Awaits
  <1>33. CASE SuspendRevoke(r)
    <2>1. Writes
      BY <1>1, <1>5, <1>33 DEF SuspendRevoke, accountVars, memberVars, u
    <2> QED  BY <1>33, <2>1, GoOnType DEF SuspendRevoke, Awaits
  <1>34. CASE SuspendMove(r)
    <2>1. current' \in [Users -> Organizations]
      BY <1>34 DEF SuspendMove, SaveCurrent, Organizations, TypeOK
    <2>2. Writes  BY <1>4, <1>34, <2>1 DEF SuspendMove, memberVars, TypeOK
    <2> QED  BY <1>34, <2>2, GoOnType DEF SuspendMove, Awaits
  <1>35. CASE RestoreReread(r)
    BY <1>35, NothingWritten, GoOnType DEF RestoreReread, Awaits
  <1>36. CASE RestoreSave(r)
    <2>1. u \in Users  BY <1>1, <1>36 DEF RestoreSave, Leave
    <2>2. /\ current' \in [Users -> Organizations]
          /\ member' \in [Users -> {"none", "invited", "active", "disabled", "deleted"}]
      BY <1>36 DEF RestoreSave, SaveMember, Organizations, TypeOK
    <2>3. UNCHANGED <<account, role, assigned, invitations, session>>
      BY <1>36 DEF RestoreSave, SaveMember
    <2>4. Writes  BY <1>2, <2>2, <2>3 DEF Writes, DocumentsOK, TypeOK
    <2> QED  BY <1>36, <2>4, GoOnType DEF RestoreSave, Awaits
  <1> QED
    BY <1>9, <1>10, <1>11, <1>12, <1>13, <1>14, <1>15, <1>16, <1>17, <1>18, <1>19,
       <1>20, <1>21, <1>22, <1>23, <1>24, <1>25, <1>26, <1>27, <1>28, <1>29, <1>30,
       <1>31, <1>32, <1>33, <1>34, <1>35, <1>36 DEF Continue

(* Every step keeps the types.                                             *)
LEMMA TypeStep == TypeOK /\ [Next]_vars => TypeOK'
  <1> SUFFICES ASSUME TypeOK, [Next]_vars  PROVE TypeOK'
    OBVIOUS
  <1>1. CASE \E r \in Requests : Call(r)  BY <1>1, CallType
  <1>2. CASE \E r \in Requests : Continue(r)  BY <1>2, ContinueType
  <1>3. ASSUME NEW r \in Requests, Abort(r)  PROVE TypeOK'
    <2>1. NoOp \in Op  BY DEF NoOp, Op, Roles, Organizations
    <2>2. Writes /\ UNCHANGED invitations
      BY <1>3, NothingWritten DEF Abort, documents
    <2>3. RequestsOK'
      BY <1>3, <2>1 DEF Abort, RequestsOK, TypeOK
    <2>4. Len(invitations) \in Nat  BY DEF TypeOK
    <2>5. PointersOK'
      BY <1>3, <2>2, <2>4 DEF Abort, NoOp, PointersOK, TypeOK
    <2>6. DocumentsOK' /\ RequestsOK' /\ PointersOK'
      BY <2>2, <2>3, <2>5 DEF Writes
    <2> QED  BY <2>6 DEF DocumentsOK, RequestsOK, PointersOK, TypeOK
  <1>4. ASSUME NEW u \in Users, EndSession(u)  PROVE TypeOK'
    BY <1>4 DEF EndSession, accountVars, memberVars, Quiet, TypeOK
  <1>5. CASE UNCHANGED vars
    BY <1>5 DEF vars, documents, accountVars, memberVars, history, TypeOK
  <1> QED  BY <1>1, <1>2, <1>3, <1>4, <1>5 DEF Next

-----------------------------------------------------------------------------
(* Requests that have not overlapped.                                      *)

GoesOn(r, from) ==
  \/ \E to \in Awaits : Advance(r, from, to) \/ AdvanceKnowing(r, from, to)
  \/ Leave(r, from)

(* The request that goes on is the only one in flight.                     *)
LEMMA OnlyOne ==
  ASSUME TypeOK, SoloInv, ~overlapped, NEW r \in Requests, NEW from \in Awaits,
         GoesOn(r, from)
  PROVE  /\ Knows(r)
         /\ op[r].user \in Users
         /\ ~overlapped'
         /\ Alone'
         /\ \A s \in Requests \ {r} : pc[s] = "idle" /\ pc'[s] = "idle"
  <1>1. from # "idle" /\ pc[r] = from
    BY DEF GoesOn, Advance, AdvanceKnowing, Leave, Awaits
  <1>2. \A s \in Requests \ {r} : pc[s] = "idle"
    BY <1>1 DEF SoloInv, Alone
  <1>3. \A s \in Requests \ {r} : pc'[s] = "idle"
    BY <1>2 DEF GoesOn, Advance, AdvanceKnowing, Leave, TypeOK
  <1>4. ~overlapped'
    BY DEF GoesOn, Advance, AdvanceKnowing, Leave, history
  <1> QED  BY <1>1, <1>2, <1>3, <1>4 DEF SoloInv, Alone, TypeOK

(* A request that knows what it has to know afterwards keeps SoloInv.      *)
LEMMA SoloGoOn ==
  ASSUME TypeOK, SoloInv, NEW r \in Requests, NEW from \in Awaits, GoesOn(r, from),
         ~overlapped => /\ MembersExist'
                        /\ ActiveAdmins' # {}
                        /\ pc'[r] # "idle" => Knows(r)'
  PROVE  SoloInv'
  <1>1. CASE overlapped
    BY <1>1 DEF SoloInv, GoesOn, Advance, AdvanceKnowing, Leave, history
  <1>2. CASE ~overlapped
    <2>1. Alone' /\ \A s \in Requests \ {r} : pc'[s] = "idle"
      BY <1>2, OnlyOne
    <2>2. ASSUME NEW s \in Requests  PROVE Knows(s)'
      <3>1. CASE pc'[s] = "idle"  BY <3>1 DEF Knows
      <3>2. CASE pc'[s] # "idle"  BY <1>2, <2>1, <3>2
      <3> QED  BY <3>1, <3>2
    <2> QED  BY <1>2, <2>1, <2>2 DEF SoloInv
  <1> QED  BY <1>1, <1>2

(* Steps that leave accounts and memberships as they are.                  *)
LEMMA SteadyFacts ==
  ASSUME UNCHANGED <<account, member, role>>
  PROVE  /\ MembersExist' = MembersExist
         /\ ActiveAdmins' = ActiveAdmins
         /\ SeatFree' = SeatFree
         /\ \A u : OtherAdmins(u)' = OtherAdmins(u)
  <1>1. Seats' = Seats  BY DEF Seats, Exists
  <1>2. ActiveAdmins' = ActiveAdmins  BY DEF ActiveAdmins
  <1> QED  BY <1>1, <1>2 DEF MembersExist, Live, Exists, SeatFree, OtherAdmins

(* A request that goes on without writing any keeps SoloInv.               *)
LEMMA SoloSteady ==
  ASSUME TypeOK, SoloInv, NEW r \in Requests, NEW from \in Awaits, GoesOn(r, from),
         UNCHANGED <<account, member, role>>,
         ~overlapped /\ pc'[r] # "idle" => Knows(r)'
  PROVE  SoloInv'
  BY SteadyFacts, SoloGoOn DEF SoloInv

(* A request that enters has to know what it has just read.                *)
LEMMA SoloEnter ==
  ASSUME TypeOK, SoloInv, NEW r \in Requests, NEW to \in Awaits, NEW o,
         Enter(r, to, o), UNCHANGED documents,
         ~overlapped /\ Quiet => Knows(r)'
  PROVE  SoloInv'
  <1> SUFFICES ASSUME ~overlapped'  PROVE SoloInv'
    BY DEF SoloInv
  <1>1. ~overlapped /\ Quiet  BY DEF Enter, TypeOK
  <1>2. \A s \in Requests \ {r} : pc'[s] = "idle"
    BY <1>1 DEF Enter, Quiet, TypeOK
  <1>3. Alone'  BY <1>2 DEF Alone
  <1>4. ASSUME NEW s \in Requests  PROVE Knows(s)'
    <2>1. CASE s = r  BY <1>1, <2>1
    <2>2. CASE s # r
      <3>1. pc'[s] = "idle"  BY <1>2, <2>2
      <3> QED  BY <3>1 DEF Knows
    <2> QED  BY <2>1, <2>2
  <1>5. MembersExist' /\ ActiveAdmins' # {}
    <2>1. UNCHANGED <<account, member, role>>
      BY DEF documents, accountVars, memberVars
    <2> QED  BY <1>1, <2>1, SteadyFacts DEF SoloInv
  <1> QED  BY <1>3, <1>4, <1>5 DEF SoloInv

(* What the calls have read holds of a quiet organization.                 *)
LEMMA SoloCall ==
  ASSUME TypeOK, SoloInv, NEW r \in Requests, Call(r)
  PROVE  SoloInv'
  <1>0. ASSUME NEW to \in Awaits, NEW o, Enter(r, to, o)
        PROVE  pc'[r] = to /\ op'[r] = o
    BY <1>0 DEF Enter, TypeOK
  <1>u. ASSUME UNCHANGED documents  PROVE UNCHANGED <<account, member, role, current>>
    BY <1>u DEF documents, accountVars, memberVars
  <1>1. ASSUME NEW u \in Users, FindUser(r, u)  PROVE SoloInv'
    <2> DEFINE o == [NoOp EXCEPT !.kind = "find", !.user = u]
    <2>1. Enter(r, "revive", o) /\ UNCHANGED documents /\ "revive" \in Awaits
      BY <1>1 DEF FindUser, Awaits
    <2>o. o.user = u  BY DEF NoOp
    <2> HIDE DEF o
    <2>2. pc'[r] = "revive" /\ op'[r].user = u  BY <1>0, <2>1, <2>o
    <2>3. Knows(r)'
      BY <1>1, <1>u, <2>1, <2>2 DEF Knows, FindUser, Lacking, Exists, Live
    <2> QED  BY <2>1, <2>3, SoloEnter
  <1>2. ASSUME NEW u \in Users, LoginRead(r, u)  PROVE SoloInv'
    <2> DEFINE o == [NoOp EXCEPT !.kind = "login", !.user = u]
               to == IF Lacking(u) THEN "revive" ELSE "choose"
    <2>1. Enter(r, to, o) /\ UNCHANGED documents /\ to \in Awaits
      BY <1>2 DEF LoginRead, Awaits
    <2>o. o.user = u  BY DEF NoOp
    <2> HIDE DEF o
    <2>2. pc'[r] = to /\ op'[r].user = u  BY <1>0, <2>1, <2>o
    <2>3. Knows(r)'
      BY <1>2, <1>u, <2>1, <2>2 DEF Knows, LoginRead, Lacking, Exists, Live
    <2> QED  BY <2>1, <2>3, SoloEnter
  <1>3. ASSUME NEW u \in Users, NEW org \in {"here", "elsewhere"}, SwitchRead(r, u, org)
        PROVE  SoloInv'
    <2> DEFINE o == [NoOp EXCEPT !.kind = "switch", !.user = u, !.org = org]
    <2>1. Enter(r, "patch", o) /\ UNCHANGED documents /\ "patch" \in Awaits
      BY <1>3 DEF SwitchRead, Awaits
    <2>o. o.user = u /\ o.org = org  BY DEF NoOp
    <2> HIDE DEF o
    <2>2. pc'[r] = "patch" /\ op'[r].user = u /\ op'[r].org = org
      BY <1>0, <2>1, <2>o
    <2>3. Knows(r)'
      BY <1>3, <1>u, <2>1, <2>2 DEF Knows, SwitchRead, ActiveIn
    <2> QED  BY <2>1, <2>3, SoloEnter
  <1>4. ASSUME NEW u \in Users, RestoreRead(r, u)  PROVE SoloInv'
    <2> DEFINE o == [NoOp EXCEPT !.kind = "restore", !.user = u]
    <2>1. Enter(r, "reread", o) /\ UNCHANGED documents /\ "reread" \in Awaits
      BY <1>4 DEF RestoreRead, Awaits
    <2>2. pc'[r] = "reread"  BY <1>0, <2>1
    <2>3. SeatFree'  BY <1>4, <1>u, <2>1, SteadyFacts DEF RestoreRead
    <2>4. Knows(r)'  BY <2>2, <2>3 DEF Knows
    <2> QED  BY <2>1, <2>4, SoloEnter
  <1>5. ASSUME NEW u \in Users, NEW as \in Roles, InviteRead(r, u, as)
        PROVE  SoloInv'
    <2> DEFINE o == [NoOp EXCEPT !.kind = "invite", !.user = u, !.role = as]
    <2>1. Enter(r, "find", o) /\ UNCHANGED documents /\ "find" \in Awaits
      BY <1>5 DEF InviteRead, Awaits
    <2>2. pc'[r] = "find"  BY <1>0, <2>1
    <2>3. SeatFree'  BY <1>5, <1>u, <2>1, SteadyFacts DEF InviteRead
    <2>4. Knows(r)'  BY <2>2, <2>3 DEF Knows
    <2> QED  BY <2>1, <2>4, SoloEnter
  <1>6. ASSUME NEW u \in Users, NEW by \in Users, SuspendRead(r, u, by)
        PROVE  SoloInv'
    <2> DEFINE o == [NoOp EXCEPT !.kind = "suspend", !.user = u, !.org = current[u]]
    <2>1. Enter(r, "disable", o) /\ UNCHANGED documents /\ "disable" \in Awaits
      BY <1>6 DEF SuspendRead, Awaits
    <2>o. o.user = u  BY DEF NoOp
    <2> HIDE DEF o
    <2>2. pc'[r] = "disable" /\ op'[r].user = u  BY <1>0, <2>1, <2>o
    <2>3. OtherAdmins(u)'  BY <1>6, <1>u, <2>1, SteadyFacts DEF SuspendRead
    <2>4. OtherAdmins(op[r].user)'  BY <2>2, <2>3 DEF OtherAdmins, ActiveAdmins
    <2>5. Knows(r)'
      BY <1>6, <1>u, <2>1, <2>2, <2>4 DEF Knows, SuspendRead
    <2> QED  BY <2>1, <2>5, SoloEnter
  <1>7. ASSUME NEW i \in DOMAIN invitations, AcceptRead(r, i) \/ CancelRead(r, i)
        PROVE  SoloInv'
    <2>1. PICK to \in {"identify", "annul"} :
            \E o : Enter(r, to, o) /\ UNCHANGED documents
      BY <1>7 DEF AcceptRead, CancelRead
    <2>2. PICK o : Enter(r, to, o) /\ UNCHANGED documents  BY <2>1
    <2>3. to \in Awaits  BY DEF Awaits
    <2>4. Knows(r)'  BY <1>0, <2>2, <2>3 DEF Knows
    <2> QED  BY <2>2, <2>3, <2>4, SoloEnter
  <1> QED  BY <1>1, <1>2, <1>3, <1>4, <1>5, <1>6, <1>7 DEF Call

(* What a request was asked does not change on the way.                    *)
LEMMA SameQuestion ==
  ASSUME TypeOK, NEW r \in Requests, NEW from \in Awaits, GoesOn(r, from)
  PROVE  /\ pc[r] = from
         /\ pc'[r] \in Awaits \cup {"idle"}
         /\ pc'[r] # "idle" => /\ op'[r].user = op[r].user
                               /\ op'[r].role = op[r].role
                               /\ op'[r].invitation = op[r].invitation
                               /\ op'[r].kind = op[r].kind
  <1>1. CASE Leave(r, from)  BY <1>1 DEF Leave, TypeOK
  <1>2. CASE \E to \in Awaits : Advance(r, from, to)
    BY <1>2 DEF Advance, TypeOK
  <1>3. CASE \E to \in Awaits : AdvanceKnowing(r, from, to)
    <2>1. op[r] \in Op  BY DEF TypeOK
    <2>2. op'[r] = [op[r] EXCEPT !.org = current[op[r].user]]
      BY <1>3 DEF AdvanceKnowing, TypeOK
    <2>3. pc[r] = from /\ pc'[r] \in Awaits
      BY <1>3 DEF AdvanceKnowing, TypeOK
    <2> QED  BY <2>1, <2>2, <2>3 DEF Op
  <1> QED  BY <1>1, <1>2, <1>3 DEF GoesOn

(* The steps of a request alone.                                           *)
LEMMA SoloContinue ==
  ASSUME TypeOK, SoloInv, NEW r \in Requests, NEW u, u = op[r].user, Continue(r)
  PROVE  SoloInv'
  <1>1. ASSUME NEW from \in Awaits, GoesOn(r, from), ~overlapped
        PROVE  Knows(r) /\ u \in Users /\ pc[r] = from
    BY <1>1, OnlyOne, SameQuestion
  <1>2. ASSUME NEW from \in Awaits, GoesOn(r, from),
               UNCHANGED <<account, member, role>>
        PROVE  /\ OtherAdmins(u)' = OtherAdmins(u)
               /\ SeatFree' = SeatFree
               /\ member'[u] = member[u] /\ role'[u] = role[u]
               /\ Exists(u)' = Exists(u) /\ Live(u)' = Live(u)
               /\ pc'[r] # "idle" => op'[r].user = u
    BY <1>2, SteadyFacts, SameQuestion DEF Exists, Live
  <1>3. CASE LoginChoose(r)
    <2>1. GoesOn(r, "choose") /\ UNCHANGED <<account, member, role>>
      BY <1>3 DEF LoginChoose, GoesOn, memberVars, Awaits
    <2>2. pc'[r] = "idle" \/ (pc'[r] = "replace" /\ (member[u] = "active" \/ u \in Elsewhere))
      BY <1>3 DEF LoginChoose, Leave, Advance, ActiveIn, TypeOK
    <2>3. ~overlapped /\ pc'[r] # "idle" => Knows(r)'
      BY <1>2, <2>1, <2>2 DEF Knows, Awaits
    <2> QED  BY <2>1, <2>3, SoloSteady DEF Awaits
  <1>4. CASE ReplaceSession(r)
    <2>1. GoesOn(r, "replace") /\ UNCHANGED <<account, member, role>>
      BY <1>4 DEF ReplaceSession, GoesOn, accountVars, memberVars, Awaits
    <2>2. pc'[r] = "idle" \/ pc'[r] = "open"
      BY <1>4 DEF ReplaceSession, Leave, Advance, TypeOK
    <2>3. ~overlapped /\ pc'[r] # "idle" => Knows(r)'
      BY <1>1, <1>2, <2>1, <2>2 DEF Knows, Awaits
    <2> QED  BY <2>1, <2>3, SoloSteady DEF Awaits
  <1>5. CASE OpenSession(r) \/ InviteIssue(r) \/ CancelUnassign(r)
    <2>1. PICK from \in {"open", "issue", "unassign"} : Leave(r, from)
      BY <1>5 DEF OpenSession, InviteIssue, CancelUnassign
    <2>2. UNCHANGED <<account, member, role>>
      BY <1>5 DEF OpenSession, InviteIssue, CancelUnassign, accountVars, memberVars
    <2>3. pc'[r] = "idle"  BY <2>1 DEF Leave, TypeOK
    <2> QED  BY <2>1, <2>2, <2>3, SoloSteady DEF GoesOn, Awaits
  <1>6. CASE SwitchPatch(r) \/ SuspendMove(r)
    <2>1. PICK from \in {"patch", "move"} : Leave(r, from)
      BY <1>6 DEF SwitchPatch, SuspendMove
    <2>2. UNCHANGED <<account, member, role>>
      BY <1>6 DEF SwitchPatch, SuspendMove, memberVars
    <2>3. pc'[r] = "idle"  BY <2>1 DEF Leave, TypeOK
    <2> QED  BY <2>1, <2>2, <2>3, SoloSteady DEF GoesOn, Awaits
  <1>7. CASE InviteFind(r)
    <2>1. GoesOn(r, "find") /\ UNCHANGED <<account, member, role>>
      BY <1>7 DEF InviteFind, GoesOn, documents, accountVars, memberVars, Awaits
    <2>2. \/ pc'[r] \in {"idle", "create"}
          \/ pc'[r] = "enrol" /\ Exists(u) /\ ~Live(u)
      BY <1>7 DEF InviteFind, Leave, Advance, TypeOK
    <2>3. ~overlapped /\ pc'[r] # "idle" => Knows(r)'
      BY <1>1, <1>2, <2>1, <2>2 DEF Knows, Awaits
    <2> QED  BY <2>1, <2>3, SoloSteady DEF Awaits
  <1>8. CASE InviteAssign(r)
    <2>1. GoesOn(r, "assign") /\ UNCHANGED <<account, member, role>>
      BY <1>8 DEF InviteAssign, GoesOn, accountVars, memberVars, Awaits
    <2>2. pc'[r] \in {"idle", "issue"}
      BY <1>8 DEF InviteAssign, Leave, Advance, TypeOK
    <2>3. ~overlapped /\ pc'[r] # "idle" => Knows(r)'
      BY <1>1, <1>2, <2>1, <2>2, SameQuestion DEF Knows, Awaits
    <2> QED  BY <2>1, <2>3, SoloSteady DEF Awaits
  <1>9. CASE AcceptIdentify(r)
    <2>1. GoesOn(r, "identify") /\ UNCHANGED <<account, member, role>>
      BY <1>9 DEF AcceptIdentify, GoesOn, documents, accountVars, memberVars, Awaits
    <2>2. \/ pc'[r] \in {"idle", "check"}
          \/ pc'[r] = "revive" /\ Exists(u) /\ ~Live(u)
      BY <1>9 DEF AcceptIdentify, Leave, AdvanceKnowing, Lacking, TypeOK
    <2>3. ~overlapped /\ pc'[r] # "idle" => Knows(r)'
      BY <1>2, <2>1, <2>2 DEF Knows, Awaits
    <2> QED  BY <2>1, <2>3, SoloSteady DEF Awaits
  <1>10. CASE AcceptCheck(r)
    <2>1. GoesOn(r, "check") /\ UNCHANGED <<account, member, role>>
      BY <1>10 DEF AcceptCheck, GoesOn, documents, accountVars, memberVars, Awaits
    <2>2. pc'[r] = "idle" \/ (pc'[r] = "register" /\ member[u] = "invited")
      BY <1>10 DEF AcceptCheck, Leave, Advance, TypeOK
    <2>3. ~overlapped /\ pc'[r] # "idle" => Knows(r)'
      BY <1>2, <2>1, <2>2 DEF Knows, Awaits
    <2> QED  BY <2>1, <2>3, SoloSteady DEF Awaits
  <1>11. CASE AcceptSettle(r)
    <2>1. GoesOn(r, "settle") /\ UNCHANGED <<account, member, role>>
      BY <1>11 DEF AcceptSettle, GoesOn, documents, accountVars, memberVars, Awaits
    <2>2. pc'[r] \in {"idle", "answer"}
      BY <1>11 DEF AcceptSettle, Leave, Advance, TypeOK
    <2>3. ~overlapped /\ pc'[r] # "idle" => Knows(r)'
      BY <1>1, <1>2, <2>1, <2>2 DEF Knows, Awaits
    <2> QED  BY <2>1, <2>3, SoloSteady DEF Awaits
  <1>12. CASE AcceptAnswer(r)
    <2>1. GoesOn(r, "answer") /\ UNCHANGED <<account, member, role>>
      BY <1>12 DEF AcceptAnswer, GoesOn, accountVars, memberVars, Awaits
    <2>2. pc'[r] = "replace"
      BY <1>12 DEF AcceptAnswer, Advance, TypeOK
    <2>3. ~overlapped /\ pc'[r] # "idle" => Knows(r)'
      BY <1>1, <1>2, <2>1, <2>2 DEF Knows, Awaits
    <2> QED  BY <2>1, <2>3, SoloSteady DEF Awaits
  <1>13. CASE CancelAnnul(r)
    <2>1. GoesOn(r, "annul") /\ UNCHANGED <<account, member, role>>
      BY <1>13 DEF CancelAnnul, GoesOn, documents, accountVars, memberVars, Awaits
    <2>2. pc'[r] \in {"idle", "cancel"}
      BY <1>13 DEF CancelAnnul, Leave, Advance, TypeOK
    <2>3. ~overlapped /\ pc'[r] # "idle" => Knows(r)'
      BY <2>1, <2>2 DEF Knows, Awaits
    <2> QED  BY <2>1, <2>3, SoloSteady DEF Awaits
  <1>14. CASE CancelSave(r)
    <2>1. GoesOn(r, "cancel") /\ UNCHANGED <<account, member, role>>
      BY <1>14 DEF CancelSave, GoesOn, accountVars, memberVars, Awaits
    <2>2. pc'[r] = "withdraw"
      BY <1>14 DEF CancelSave, Advance, TypeOK
    <2>3. ~overlapped /\ pc'[r] # "idle" => Knows(r)'
      BY <2>1, <2>2 DEF Knows, Awaits
    <2> QED  BY <2>1, <2>3, SoloSteady DEF Awaits
  <1>15. CASE CancelWithdraw(r)
    <2>1. GoesOn(r, "withdraw") /\ UNCHANGED <<account, member, role>>
      BY <1>15 DEF CancelWithdraw, GoesOn, documents, accountVars, memberVars, Awaits
    <2>2. pc'[r] = "idle" \/ (pc'[r] = "remove" /\ member[u] = "invited")
      BY <1>15 DEF CancelWithdraw, Leave, AdvanceKnowing, TypeOK
    <2>3. ~overlapped /\ pc'[r] # "idle" => Knows(r)'
      BY <1>2, <2>1, <2>2 DEF Knows, Awaits
    <2> QED  BY <2>1, <2>3, SoloSteady DEF Awaits
  <1>16. CASE CancelCount(r)
    <2>1. GoesOn(r, "count") /\ UNCHANGED <<account, member, role>>
      BY <1>16 DEF CancelCount, GoesOn, memberVars, Awaits
    <2>2. pc'[r] \in {"retire", "unassign"}
      BY <1>16 DEF CancelCount, Advance, TypeOK
    <2>3. ~overlapped /\ pc'[r] # "idle" => Knows(r)'
      BY <1>1, <1>2, <2>1, <2>2 DEF Knows, Awaits
    <2> QED  BY <2>1, <2>3, SoloSteady DEF Awaits
  <1>17. CASE SuspendRevoke(r)
    <2>1. GoesOn(r, "revoke") /\ UNCHANGED <<account, member, role>>
      BY <1>17 DEF SuspendRevoke, GoesOn, accountVars, memberVars, Awaits
    <2>2. pc'[r] \in {"idle", "move"}
      BY <1>17 DEF SuspendRevoke, Leave, Advance, TypeOK
    <2>3. ~overlapped /\ pc'[r] # "idle" => Knows(r)'
      BY <2>1, <2>2 DEF Knows, Awaits
    <2> QED  BY <2>1, <2>3, SoloSteady DEF Awaits
  <1>18. CASE RestoreReread(r)
    <2>1. GoesOn(r, "reread") /\ UNCHANGED <<account, member, role>>
      BY <1>18 DEF RestoreReread, GoesOn, documents, accountVars, memberVars, Awaits
    <2>2. pc'[r] = "idle" \/ (pc'[r] = "restore" /\ member[u] = "disabled")
      BY <1>18 DEF RestoreReread, Leave, AdvanceKnowing, TypeOK
    <2>3. ~overlapped /\ pc'[r] # "idle" => Knows(r)'
      BY <1>1, <1>2, <2>1, <2>2 DEF Knows, Awaits
    <2> QED  BY <2>1, <2>3, SoloSteady DEF Awaits
  <1>19. CASE Revive(r)
    <2>1. GoesOn(r, "revive") /\ "revive" \in Awaits
      BY <1>19 DEF Revive, GoesOn, Awaits
    <2>2. ASSUME ~overlapped
          PROVE  MembersExist' /\ ActiveAdmins' # {} /\ (pc'[r] # "idle" => Knows(r)')
      <3>1. Exists(u) /\ ~Live(u) /\ u \in Users
        BY <1>1, <2>1, <2>2 DEF Knows
      <3>2. /\ UNCHANGED account
            /\ \A v \in Users \ {u} : member'[v] = member[v] /\ role'[v] = role[v]
        BY <1>19 DEF Revive, Enrol, accountVars, TypeOK
      <3>3. MembersExist'
        BY <2>2, <3>1, <3>2 DEF SoloInv, MembersExist, Live, Exists
      <3>4. ActiveAdmins \subseteq ActiveAdmins'
        BY <3>1, <3>2 DEF ActiveAdmins, Live
      <3>5. ActiveAdmins' # {}  BY <2>2, <3>4 DEF SoloInv
      <3>6. pc'[r] \in {"idle", "choose", "check"}
        BY <1>19 DEF Revive, Leave, Advance, TypeOK
      <3>7. pc'[r] # "idle" => Knows(r)'  BY <3>6 DEF Knows
      <3> QED  BY <3>3, <3>5, <3>7
    <2> QED  BY <2>1, <2>2, SoloGoOn
  <1>20. CASE InviteCreate(r)
    <2>1. GoesOn(r, "create") /\ "create" \in Awaits
      BY <1>20 DEF InviteCreate, GoesOn, Awaits
    <2>2. ASSUME ~overlapped
          PROVE  MembersExist' /\ ActiveAdmins' # {} /\ (pc'[r] # "idle" => Knows(r)')
      <3>1. SeatFree /\ u \in Users  BY <1>1, <2>1, <2>2 DEF Knows
      <3>2. UNCHANGED <<member, role>>  BY <1>20 DEF InviteCreate, memberVars
      <3>3. CASE account[u] # "absent"
        <4>1. pc'[r] = "idle" /\ UNCHANGED account
          BY <1>20, <3>3 DEF InviteCreate, Leave, accountVars, TypeOK
        <4> QED  BY <2>2, <3>2, <4>1, SteadyFacts DEF SoloInv
      <3>4. CASE account[u] = "absent"
        <4>1. ~Live(u)  BY <2>2, <3>1, <3>4 DEF SoloInv, MembersExist, Exists
        <4>2. /\ pc'[r] = "enrol"
              /\ account' = [account EXCEPT ![u] = "bare"]
          BY <1>20, <3>4 DEF InviteCreate, Advance, TypeOK
        <4>3. op'[r].user = u  BY <2>1, <4>2, SameQuestion
        <4>4. \A v \in Users : v # u => Exists(v)' = Exists(v)
          BY <4>2 DEF Exists, TypeOK
        <4>5. Exists(u)' /\ ~Live(u)'
          BY <3>1, <3>2, <4>1, <4>2 DEF Exists, Live, TypeOK
        <4>6. MembersExist'
          BY <2>2, <3>2, <4>4, <4>5 DEF SoloInv, MembersExist, Live
        <4>7. Seats' = Seats
          BY <3>2, <4>1, <4>4 DEF Seats, Live
        <4>8. ActiveAdmins' # {}  BY <2>2, <3>2 DEF SoloInv, ActiveAdmins
        <4>9. Knows(r)'
          BY <3>1, <4>2, <4>3, <4>5, <4>7 DEF Knows, SeatFree, Exists, Live
        <4> QED  BY <4>6, <4>8, <4>9
      <3> QED  BY <3>3, <3>4
    <2> QED  BY <2>1, <2>2, SoloGoOn
  <1>21. CASE InviteEnrol(r)
    <2>1. GoesOn(r, "enrol") /\ "enrol" \in Awaits
      BY <1>21 DEF InviteEnrol, GoesOn, Awaits
    <2>2. ASSUME ~overlapped
          PROVE  MembersExist' /\ ActiveAdmins' # {} /\ (pc'[r] # "idle" => Knows(r)')
      <3>1. Exists(u) /\ ~Live(u) /\ u \in Users
        BY <1>1, <2>1, <2>2 DEF Knows
      <3>2. /\ UNCHANGED account
            /\ \A v \in Users \ {u} : member'[v] = member[v] /\ role'[v] = role[v]
            /\ member'[u] = "invited" /\ role'[u] = op[r].role
        BY <1>21, <3>1 DEF InviteEnrol, Enrol, accountVars, TypeOK
      <3>3. MembersExist'
        BY <2>2, <3>1, <3>2 DEF SoloInv, MembersExist, Live, Exists
      <3>4. ActiveAdmins \subseteq ActiveAdmins'
        BY <3>1, <3>2 DEF ActiveAdmins, Live
      <3>5. ActiveAdmins' # {}  BY <2>2, <3>4 DEF SoloInv
      <3>6. pc'[r] = "assign"  BY <1>21 DEF InviteEnrol, Advance, TypeOK
      <3>7. op'[r].user = u /\ op'[r].role = op[r].role
        BY <2>1, <3>6, SameQuestion
      <3>8. Knows(r)'  BY <3>2, <3>6, <3>7 DEF Knows
      <3> QED  BY <3>3, <3>5, <3>8
    <2> QED  BY <2>1, <2>2, SoloGoOn
  <1>22. CASE AcceptRegister(r)
    <2>1. GoesOn(r, "register") /\ "register" \in Awaits
      BY <1>22 DEF AcceptRegister, GoesOn, Awaits
    <2>2. ASSUME ~overlapped
          PROVE  MembersExist' /\ ActiveAdmins' # {} /\ (pc'[r] # "idle" => Knows(r)')
      <3>1. member[u] = "invited" /\ u \in Users
        BY <1>1, <2>1, <2>2 DEF Knows
      <3>2. UNCHANGED <<member, role>>  BY <1>22 DEF AcceptRegister, memberVars
      <3>3. \A v \in Users : Exists(v) => Exists(v)'
        BY <1>22 DEF AcceptRegister, Exists, TypeOK
      <3>4. MembersExist'
        BY <2>2, <3>2, <3>3 DEF SoloInv, MembersExist, Live
      <3>5. ActiveAdmins' # {}  BY <2>2, <3>2 DEF SoloInv, ActiveAdmins
      <3>6. pc'[r] = "activate"  BY <1>22 DEF AcceptRegister, Advance, TypeOK
      <3>7. op'[r].user = u  BY <2>1, <3>6, SameQuestion
      <3>8. Knows(r)'  BY <3>1, <3>2, <3>6, <3>7 DEF Knows
      <3> QED  BY <3>4, <3>5, <3>8
    <2> QED  BY <2>1, <2>2, SoloGoOn
  <1>23. CASE AcceptActivate(r)
    <2>1. GoesOn(r, "activate") /\ "activate" \in Awaits
      BY <1>23 DEF AcceptActivate, GoesOn, Awaits
    <2>2. ASSUME ~overlapped
          PROVE  MembersExist' /\ ActiveAdmins' # {} /\ (pc'[r] # "idle" => Knows(r)')
      <3>1. member[u] = "invited" /\ u \in Users /\ Live(u)
        BY <1>1, <2>1, <2>2 DEF Knows, Live
      <3>2. /\ UNCHANGED <<account, role>>
            /\ \A v \in Users \ {u} : member'[v] = member[v]
            /\ member'[u] = "active"
        BY <1>23, <3>1 DEF AcceptActivate, SaveMember, accountVars, TypeOK
      <3>3. MembersExist'
        BY <2>2, <3>1, <3>2 DEF SoloInv, MembersExist, Live, Exists
      <3>4. ActiveAdmins \subseteq ActiveAdmins'
        BY <3>1, <3>2 DEF ActiveAdmins
      <3>5. ActiveAdmins' # {}  BY <2>2, <3>4 DEF SoloInv
      <3>6. pc'[r] = "settle"
        BY <1>23, <3>1 DEF AcceptActivate, Advance, TypeOK
      <3>7. op'[r].user = u  BY <2>1, <3>6, SameQuestion
      <3>8. Knows(r)'  BY <3>2, <3>6, <3>7 DEF Knows
      <3> QED  BY <3>3, <3>5, <3>8
    <2> QED  BY <2>1, <2>2, SoloGoOn
  <1>24. CASE CancelRemove(r)
    <2>1. GoesOn(r, "remove") /\ "remove" \in Awaits
      BY <1>24 DEF CancelRemove, GoesOn, Awaits
    <2>2. ASSUME ~overlapped
          PROVE  MembersExist' /\ ActiveAdmins' # {} /\ (pc'[r] # "idle" => Knows(r)')
      <3>1. member[u] = "invited" /\ u \in Users
        BY <1>1, <2>1, <2>2 DEF Knows
      <3>2. /\ UNCHANGED <<account, role>>
            /\ \A v \in Users \ {u} : member'[v] = member[v]
            /\ member'[u] = "deleted"
        BY <1>24, <3>1 DEF CancelRemove, accountVars, TypeOK
      <3>3. MembersExist'
        BY <2>2, <3>1, <3>2 DEF SoloInv, MembersExist, Live, Exists
      <3>4. ActiveAdmins \subseteq ActiveAdmins'
        BY <3>1, <3>2 DEF ActiveAdmins
      <3>5. ActiveAdmins' # {}  BY <2>2, <3>4 DEF SoloInv
      <3>6. pc'[r] = "count"  BY <1>24 DEF CancelRemove, Advance, TypeOK
      <3>7. op'[r].user = u  BY <2>1, <3>6, SameQuestion
      <3>8. Knows(r)'  BY <3>2, <3>6, <3>7 DEF Knows, Live
      <3> QED  BY <3>3, <3>5, <3>8
    <2> QED  BY <2>1, <2>2, SoloGoOn
  <1>25. CASE CancelRetire(r)
    <2>1. GoesOn(r, "retire") /\ "retire" \in Awaits
      BY <1>25 DEF CancelRetire, GoesOn, Awaits
    <2>2. ASSUME ~overlapped
          PROVE  MembersExist' /\ ActiveAdmins' # {} /\ (pc'[r] # "idle" => Knows(r)')
      <3>1. ~Live(u) /\ u \in Users
        BY <1>1, <2>1, <2>2 DEF Knows
      <3>2. UNCHANGED <<member, role>>  BY <1>25 DEF CancelRetire, memberVars
      <3>3. \A v \in Users \ {u} : Exists(v) => Exists(v)'
        BY <1>25 DEF CancelRetire, Exists, TypeOK
      <3>4. MembersExist'
        BY <2>2, <3>1, <3>2, <3>3 DEF SoloInv, MembersExist, Live
      <3>5. ActiveAdmins' # {}  BY <2>2, <3>2 DEF SoloInv, ActiveAdmins
      <3>6. pc'[r] = "unassign"  BY <1>25 DEF CancelRetire, Advance, TypeOK
      <3>7. op'[r].user = u  BY <2>1, <3>6, SameQuestion
      <3>8. Knows(r)'  BY <3>1, <3>2, <3>6, <3>7 DEF Knows, Live
      <3> QED  BY <3>4, <3>5, <3>8
    <2> QED  BY <2>1, <2>2, SoloGoOn
  <1>26. CASE SuspendSave(r)
    <2>1. GoesOn(r, "disable") /\ "disable" \in Awaits
      BY <1>26 DEF SuspendSave, GoesOn, Awaits
    <2>2. ASSUME ~overlapped
          PROVE  MembersExist' /\ ActiveAdmins' # {} /\ (pc'[r] # "idle" => Knows(r)')
      <3>1. member[u] = "active" /\ u \in Users /\ Live(u) /\ OtherAdmins(u)
        BY <1>1, <2>1, <2>2 DEF Knows, Live
      <3>2. /\ UNCHANGED <<account, role>>
            /\ \A v \in Users \ {u} : member'[v] = member[v]
            /\ member'[u] = "disabled"
        BY <1>26, <3>1 DEF SuspendSave, SaveMember, accountVars, TypeOK
      <3>3. MembersExist'
        BY <2>2, <3>1, <3>2 DEF SoloInv, MembersExist, Live, Exists
      <3>4. ActiveAdmins \ {u} \subseteq ActiveAdmins'
        BY <3>2 DEF ActiveAdmins
      <3>5. ActiveAdmins \ {u} # {}
        <4>1. CASE role[u] = "admin"  BY <3>1, <4>1 DEF OtherAdmins
        <4>2. CASE role[u] # "admin"
          <5>1. u \notin ActiveAdmins  BY <4>2 DEF ActiveAdmins
          <5> QED  BY <2>2, <5>1 DEF SoloInv
        <4> QED  BY <4>1, <4>2
      <3>6. pc'[r] = "revoke"  BY <1>26 DEF SuspendSave, Advance, TypeOK
      <3>7. op'[r].user = u  BY <2>1, <3>6, SameQuestion
      <3>8. Knows(r)'  BY <3>2, <3>6, <3>7 DEF Knows
      <3> QED  BY <3>3, <3>4, <3>5, <3>8
    <2> QED  BY <2>1, <2>2, SoloGoOn
  <1>27. CASE RestoreSave(r)
    <2>1. GoesOn(r, "restore") /\ "restore" \in Awaits
      BY <1>27 DEF RestoreSave, GoesOn, Awaits
    <2>2. ASSUME ~overlapped
          PROVE  MembersExist' /\ ActiveAdmins' # {} /\ (pc'[r] # "idle" => Knows(r)')
      <3>1. member[u] = "disabled" /\ u \in Users /\ Live(u)
        BY <1>1, <2>1, <2>2 DEF Knows, Live
      <3>2. /\ UNCHANGED <<account, role>>
            /\ \A v \in Users \ {u} : member'[v] = member[v]
            /\ member'[u] = "active"
        BY <1>27, <3>1 DEF RestoreSave, SaveMember, TypeOK
      <3>3. MembersExist'
        BY <2>2, <3>1, <3>2 DEF SoloInv, MembersExist, Live, Exists
      <3>4. ActiveAdmins \subseteq ActiveAdmins'
        BY <3>1, <3>2 DEF ActiveAdmins
      <3>5. ActiveAdmins' # {}  BY <2>2, <3>4 DEF SoloInv
      <3>6. pc'[r] = "idle"  BY <1>27 DEF RestoreSave, Leave, TypeOK
      <3> QED  BY <3>3, <3>5, <3>6
    <2> QED  BY <2>1, <2>2, SoloGoOn
  <1> QED
    BY <1>3, <1>4, <1>5, <1>6, <1>7, <1>8, <1>9, <1>10, <1>11, <1>12, <1>13, <1>14,
       <1>15, <1>16, <1>17, <1>18, <1>19, <1>20, <1>21, <1>22, <1>23, <1>24, <1>25,
       <1>26, <1>27 DEF Continue

(* Every step keeps SoloInv.                                               *)
LEMMA SoloStep ==
  ASSUME TypeOK, SoloInv, [Next]_vars
  PROVE  SoloInv'
  <1>1. ASSUME NEW r \in Requests, Call(r)  PROVE SoloInv'
    BY <1>1, SoloCall
  <1>2. ASSUME NEW r \in Requests, Continue(r)  PROVE SoloInv'
    BY <1>2, SoloContinue
  <1>3. ASSUME NEW r \in Requests, Abort(r)  PROVE SoloInv'
    <2>1. UNCHANGED <<account, member, role, overlapped>>
      BY <1>3 DEF Abort, documents, accountVars, memberVars
    <2>2. \A s \in Requests : pc'[s] # "idle" =>
            pc[s] # "idle" /\ pc'[s] = pc[s] /\ op'[s] = op[s]
      BY <1>3 DEF Abort, TypeOK
    <2>3. ASSUME ~overlapped, NEW s \in Requests  PROVE Knows(s)'
      <3>1. CASE pc'[s] = "idle"  BY <3>1 DEF Knows
      <3>2. CASE pc'[s] # "idle"
        <4>2. s = r  BY <1>3, <2>2, <2>3, <3>2 DEF SoloInv, Alone, Abort
        <4> QED  BY <1>3, <3>2, <4>2 DEF Abort, TypeOK
      <3> QED  BY <3>1, <3>2
    <2> QED  BY <2>1, <2>2, <2>3, SteadyFacts DEF SoloInv, Alone
  <1>4. ASSUME NEW u \in Users, EndSession(u)  PROVE SoloInv'
    <2>1. UNCHANGED <<account, member, role, pc>>
      BY <1>4 DEF EndSession, accountVars, memberVars
    <2>2. ASSUME ~overlapped', NEW s \in Requests  PROVE Knows(s)'
      <3>1. pc'[s] = "idle"  BY <1>4, <2>1, <2>2 DEF EndSession, Quiet
      <3> QED  BY <3>1 DEF Knows
    <2>3. ~overlapped' => ~overlapped  BY <1>4 DEF EndSession
    <2> QED  BY <2>1, <2>2, <2>3, SteadyFacts DEF SoloInv, Alone
  <1>5. CASE UNCHANGED vars
    BY <1>5 DEF vars, documents, accountVars, memberVars, history, SoloInv, Alone,
                MembersExist, Knows, ActiveAdmins, OtherAdmins, SeatFree, Seats,
                ActiveIn, Live, Exists
  <1> QED  BY <1>1, <1>2, <1>3, <1>4, <1>5 DEF Next

(* A new organization is well-formed ...                                   *)
LEMMA TypeInit ==
  ASSUME Init
  PROVE  TypeOK
  <1>1. NoOp \in Op  BY DEF NoOp, Op, Roles, Organizations
  <1>2. invitations \in Seq(Invitation) /\ Len(invitations) = 0  BY DEF Init
  <1>3. overlapped \in BOOLEAN  BY Zenon DEF Init
  <1>4. Founder \in Users  BY MembershipsAssumption
  <1>5. DocumentsOK
    BY <1>2, <1>4 DEF Init, DocumentsOK, Roles, Organizations
  <1>6. RequestsOK  BY <1>1, <1>3 DEF Init, RequestsOK
  <1>7. PointersOK  BY <1>2 DEF Init, PointersOK, NoOp
  <1> QED  BY <1>5, <1>6, <1>7, TypeParts

(* ... and has its founder for administrator.                              *)
LEMMA SoloInit ==
  ASSUME Init
  PROVE  SoloInv
  <1>1. Founder \in Users  BY MembershipsAssumption
  <1>2. Founder \in ActiveAdmins  BY <1>1 DEF Init, ActiveAdmins
  <1>3. MembersExist  BY <1>1 DEF Init, MembersExist, Live, Exists
  <1>4. Alone /\ \A r \in Requests : Knows(r)
    BY DEF Init, Alone, Knows
  <1> QED  BY <1>2, <1>3, <1>4 DEF SoloInv

(* Types, and what a request in flight knows, are kept together.           *)
LEMMA SoloAlways == Spec => [](TypeOK /\ SoloInv)
  <1>1. Init => TypeOK /\ SoloInv  BY TypeInit, SoloInit
  <1>2. TypeOK /\ SoloInv /\ [Next]_vars => (TypeOK /\ SoloInv)'
    BY TypeStep, SoloStep
  <1> QED  BY <1>1, <1>2, PTL DEF Spec

(* Every reachable state is well-formed.                                   *)
THEOREM TypeCorrect == Spec => []TypeOK
  BY SoloAlways, PTL

(* deactivateOrganizationMembership keeps an administrator: as long as     *)
(* requests do not overlap, and wherever they stop, the organization has   *)
(* an active administrator whose account exists.                           *)
THEOREM AdministratorStays == Spec => []AdministratorRemains
  <1>1. TypeOK /\ SoloInv => AdministratorRemains
    BY DEF SoloInv, AdministratorRemains, MembersExist, ActiveAdmins, Live
  <1> QED  BY <1>1, SoloAlways, PTL

-----------------------------------------------------------------------------
(* Requests that have neither overlapped nor stopped.  An account without  *)
(* its membership, a session of a suspended user and a pending invitation  *)
(* of somebody who is not invited are those of the request in flight.      *)
Lacks(u) == Exists(u) /\ Lacking(u)
Stays(u) == member[u] = "disabled" /\ u \in session \ Elsewhere
Owner(i) == invitations[i].user
Stands(i) ==
  member[Owner(i)] = "invited" /\ (role[Owner(i)] = "member" => Owner(i) \in assigned)

Completes(r, u) == op[r].user = u /\ pc[r] \in {"enrol", "count", "retire"}
Revokes(r, u)   == op[r].user = u /\ pc[r] = "revoke"
Settles(r, i)   == op[r].invitation = i /\ pc[r] \in {"settle", "answer"}

(* A request with an invitation has it pending, and one that withdraws a   *)
(* membership has left none.                                               *)
Holds(r) ==
  /\ pc[r] # "revive"
  /\ pc[r] = "issue" /\ op[r].role = "member" => op[r].user \in assigned
  /\ pc[r] \in {"withdraw", "remove", "count", "retire", "unassign"} =>
       \A i \in DOMAIN invitations : Pending(i) => Owner(i) # op[r].user
  /\ pc[r] \in {"identify", "check", "register", "activate", "settle", "answer",
               "annul", "cancel"} =>
       /\ op[r].invitation \in DOMAIN invitations
       /\ Owner(op[r].invitation) = op[r].user
       /\ Pending(op[r].invitation)

OnePending ==
  \A i, j \in DOMAIN invitations : Pending(i) /\ Pending(j) /\ Owner(i) = Owner(j) => i = j

CalmInv ==
  Calm => /\ \A u \in Users : Lacks(u) => \E r \in Requests : Completes(r, u)
          /\ \A u \in Users : Stays(u) => \E r \in Requests : Revokes(r, u)
          /\ \A i \in DOMAIN invitations : Pending(i) =>
               Stands(i) \/ \E r \in Requests : Settles(r, i)
          /\ \A r \in Requests : Holds(r)
          /\ OnePending

(* What CalmInv says when r is the request in flight.                      *)
NoneLacks(r) == \A v \in Users : Lacks(v) => Completes(r, v)
NoneStays(r) == \A v \in Users : Stays(v) => Revokes(r, v)
AllStand(r)  == \A i \in DOMAIN invitations : Pending(i) => Stands(i) \/ Settles(r, i)
CalmOf(r)    == NoneLacks(r) /\ NoneStays(r) /\ AllStand(r) /\ Holds(r) /\ OnePending

LEMMA CalmMine ==
  ASSUME TypeOK, SoloInv, CalmInv, Calm, NEW r \in Requests, NEW from \in Awaits,
         GoesOn(r, from)
  PROVE  CalmOf(r) /\ Calm' /\ Knows(r) /\ MembersExist /\ op[r].user \in Users
  <1>1. ~overlapped  BY DEF Calm
  <1>2. /\ Knows(r) /\ op[r].user \in Users /\ ~overlapped'
        /\ \A s \in Requests \ {r} : pc[s] = "idle"
    BY <1>1, OnlyOne
  <1>3. Calm'
    BY <1>2 DEF Calm, GoesOn, Advance, AdvanceKnowing, Leave, history
  <1>4. \A s \in Requests : \A v : (Completes(s, v) \/ Revokes(s, v) \/ Settles(s, v)) => s = r
    BY <1>2 DEF Completes, Revokes, Settles
  <1>5. CalmOf(r)
    BY <1>4 DEF CalmInv, CalmOf, NoneLacks, NoneStays, AllStand
  <1> QED  BY <1>1, <1>2, <1>3, <1>5 DEF SoloInv

(* A request that leaves everything in order keeps CalmInv.                *)
LEMMA CalmGoOn ==
  ASSUME TypeOK, SoloInv, CalmInv, NEW r \in Requests, NEW from \in Awaits,
         GoesOn(r, from), Calm => CalmOf(r)'
  PROVE  CalmInv'
  <1>1. CASE ~Calm
    BY <1>1 DEF CalmInv, Calm, GoesOn, Advance, AdvanceKnowing, Leave, history
  <1>2. CASE Calm
    <2>1. \A s \in Requests \ {r} : pc'[s] = "idle"
      BY <1>2, OnlyOne DEF Calm
    <2>2. \A s \in Requests : Holds(s)'
      BY <1>2, <2>1 DEF CalmOf, Holds
    <2> QED  BY <1>2, <2>2 DEF CalmInv, CalmOf, NoneLacks, NoneStays, AllStand
  <1> QED  BY <1>1, <1>2

(* What a step of r leaves in order by what it leaves alone.               *)
LEMMA LackKept ==
  ASSUME NEW r \in Requests, NoneLacks(r), pc[r] \notin {"enrol", "count", "retire"},
         UNCHANGED <<account, current, member>>
  PROVE  NoneLacks(r)'
  BY DEF NoneLacks, Completes, Lacks, Lacking, Exists, Live

LEMMA StayKept ==
  ASSUME NEW r \in Requests, NoneStays(r), pc[r] # "revoke", UNCHANGED member,
         session' \subseteq session
  PROVE  NoneStays(r)'
  BY DEF NoneStays, Revokes, Stays

LEMMA StandKept ==
  ASSUME NEW r \in Requests, AllStand(r), pc[r] \notin {"settle", "answer"},
         UNCHANGED <<member, role, invitations>>, assigned \subseteq assigned'
  PROVE  AllStand(r)'
  BY DEF AllStand, Settles, Stands, Owner, Pending

LEMMA PendingKept ==
  ASSUME OnePending, UNCHANGED invitations
  PROVE  OnePending'
  BY DEF OnePending, Owner, Pending

(* A request that leaves has nothing to hold any more ...                  *)
LEMMA LeaveHolds ==
  ASSUME NEW r \in Requests, pc'[r] = "idle"
  PROVE  Holds(r)'
  BY DEF Holds

(* ... and one that goes on holds what it held.                            *)
LEMMA GoOnHolds ==
  ASSUME TypeOK, NEW r \in Requests, NEW from \in Awaits, GoesOn(r, from), Holds(r),
         UNCHANGED invitations,
         pc'[r] # "revive",
         pc'[r] = "issue" /\ op[r].role = "member" => op[r].user \in assigned',
         pc'[r] \in {"withdraw", "remove", "count", "retire", "unassign"} =>
           from \in {"withdraw", "remove", "count", "retire"},
         pc'[r] \in {"identify", "check", "register", "activate", "settle", "answer",
                     "annul", "cancel"} =>
           from \in {"identify", "check", "register", "activate", "settle", "annul"}
  PROVE  Holds(r)'
  <1>1. CASE pc'[r] = "idle"  BY <1>1, LeaveHolds
  <1>2. CASE pc'[r] # "idle"
    <2>1. /\ pc[r] = from /\ op'[r].user = op[r].user
          /\ op'[r].role = op[r].role /\ op'[r].invitation = op[r].invitation
      BY <1>2, SameQuestion
    <2> QED  BY <2>1 DEF Holds, Owner, Pending
  <1> QED  BY <1>1, <1>2

(* A request that goes on and writes nothing of it keeps CalmInv.          *)
LEMMA CalmSteady ==
  ASSUME TypeOK, SoloInv, CalmInv, NEW r \in Requests, NEW from \in Awaits,
         GoesOn(r, from),
         from \notin {"enrol", "count", "retire", "revoke", "settle", "answer"},
         UNCHANGED <<account, current, member, role, invitations>>,
         session' \subseteq session, assigned \subseteq assigned',
         CalmOf(r) => Holds(r)'
  PROVE  CalmInv'
  <1>1. pc[r] = from  BY SameQuestion
  <1>2. ASSUME Calm  PROVE CalmOf(r)'
    <2>1. CalmOf(r)  BY <1>2, CalmMine
    <2> QED
      BY <1>1, <2>1, LackKept, StayKept, StandKept, PendingKept DEF CalmOf
  <1> QED  BY <1>2, CalmGoOn

(* Invitations answered and issued.                                        *)
LEMMA AnsweredFacts ==
  ASSUME TypeOK, NEW i \in DOMAIN invitations, NEW status \in {"accepted", "cancelled"},
         invitations' = [invitations EXCEPT ![i].status = status]
  PROVE  /\ DOMAIN invitations' = DOMAIN invitations
         /\ \A j \in DOMAIN invitations : /\ Owner(j)' = Owner(j)
                                          /\ Pending(j)' <=> j # i /\ Pending(j)
  <1>0. /\ invitations \in Seq(Invitation)
        /\ DOMAIN invitations = 1..Len(invitations)
    BY InvitationsType DEF TypeOK
  <1>1. \A j \in DOMAIN invitations : invitations[j] \in Invitation
    BY <1>0, InvitationsType
  <1>2. DOMAIN invitations' = DOMAIN invitations  BY <1>0
  <1>3. \A j \in DOMAIN invitations : invitations'[j] =
          IF j = i THEN [invitations[j] EXCEPT !.status = status] ELSE invitations[j]
    BY <1>0
  <1>4. [invitations[i] EXCEPT !.status = status].status = status
    BY <1>1 DEF Invitation
  <1>5. [invitations[i] EXCEPT !.status = status].user = invitations[i].user
    BY <1>1 DEF Invitation
  <1> QED  BY <1>2, <1>3, <1>4, <1>5 DEF Owner, Pending

LEMMA IssuedFacts ==
  ASSUME TypeOK, NEW u \in Users,
         invitations' = Append(invitations, [user |-> u, status |-> "pending"])
  PROVE  \E n \in DOMAIN invitations' :
           /\ DOMAIN invitations' = DOMAIN invitations \cup {n}
           /\ Owner(n)' = u
           /\ \A j \in DOMAIN invitations : /\ j # n
                                            /\ Owner(j)' = Owner(j)
                                            /\ Pending(j)' <=> Pending(j)
  <1>0. PICK n : n = Len(invitations) + 1  OBVIOUS
  <1>1. Len(invitations) \in Nat /\ DOMAIN invitations = 1..Len(invitations)
    BY InvitationsType DEF TypeOK
  <1>2. invitations \in Seq(Invitation) /\ [user |-> u, status |-> "pending"] \in Invitation
    BY DEF TypeOK, Invitation
  <1>3. DOMAIN invitations' = 1..n  BY <1>0, <1>1, <1>2
  <1>4. invitations'[n] = [user |-> u, status |-> "pending"]  BY <1>0, <1>1, <1>2
  <1>5. \A j \in DOMAIN invitations : invitations'[j] = invitations[j]
    BY <1>1, <1>2
  <1>6. \A j \in DOMAIN invitations : j # n  BY <1>0, <1>1
  <1>7. n \in DOMAIN invitations' /\ DOMAIN invitations' = DOMAIN invitations \cup {n}
    BY <1>0, <1>1, <1>3
  <1>8. Owner(n)' = u
    <2>1. invitations'[n].user = u  BY <1>0, <1>1, <1>2
    <2> QED  BY <2>1 DEF Owner
  <1>9. \A j \in DOMAIN invitations : Owner(j)' = Owner(j) /\ (Pending(j)' <=> Pending(j))
    BY <1>5 DEF Owner, Pending
  <1> QED  BY <1>6, <1>7, <1>8, <1>9

(* Between requests, nobody is left half-way.                              *)
LEMMA QuietFacts ==
  ASSUME CalmInv, Calm, Quiet
  PROVE  /\ \A v \in Users : ~Lacks(v) /\ ~Stays(v)
         /\ \A i \in DOMAIN invitations : Pending(i) => Stands(i)
         /\ OnePending
  <1>1. \A s \in Requests : \A v : ~Completes(s, v) /\ ~Revokes(s, v) /\ ~Settles(s, v)
    BY DEF Quiet, Completes, Revokes, Settles
  <1> QED  BY <1>1 DEF CalmInv

(* A request that enters writes nothing.                                   *)
LEMMA CalmEnter ==
  ASSUME TypeOK, CalmInv, NEW r \in Requests, NEW to, NEW o,
         Enter(r, to, o), UNCHANGED documents,
         Calm /\ Quiet => Holds(r)'
  PROVE  CalmInv'
  <1> SUFFICES ASSUME Calm'  PROVE CalmInv'
    BY DEF CalmInv
  <1>1. Calm /\ Quiet  BY DEF Calm, Enter, TypeOK
  <1>2. \A s \in Requests \ {r} : pc'[s] = "idle"
    BY <1>1 DEF Enter, Quiet, TypeOK
  <1>3. \A s \in Requests : Holds(s)'
    BY <1>1, <1>2 DEF Holds
  <1>4. UNCHANGED <<account, current, member, role, assigned, invitations, session>>
    BY DEF documents, accountVars, memberVars
  <1>5. /\ \A v \in Users : ~Lacks(v)' /\ ~Stays(v)'
        /\ \A i \in DOMAIN invitations' : Pending(i)' => Stands(i)'
        /\ OnePending'
    BY <1>1, <1>4, QuietFacts
       DEF Lacks, Lacking, Exists, Live, Stays, Stands, Pending, Owner, OnePending
  <1> QED  BY <1>3, <1>5 DEF CalmInv

(* Nobody is found without a membership, and an invitation that is         *)
(* answered is pending.                                                    *)
LEMMA CalmCall ==
  ASSUME TypeOK, CalmInv, NEW r \in Requests, Call(r)
  PROVE  CalmInv'
  <1>1. ASSUME NEW to \in {"choose", "patch", "reread", "find", "disable"}, NEW o,
               Enter(r, to, o), UNCHANGED documents
        PROVE  CalmInv'
    <2>1. pc'[r] = to  BY <1>1 DEF Enter, TypeOK
    <2>2. Holds(r)'  BY <2>1 DEF Holds
    <2> QED  BY <1>1, <2>2, CalmEnter
  <1>2. ASSUME NEW u \in Users, Lacks(u), NEW o, Enter(r, "revive", o), UNCHANGED documents
        PROVE  CalmInv'
    <2>1. ~(Calm /\ Quiet)  BY <1>2, QuietFacts
    <2> QED  BY <1>2, <2>1, CalmEnter
  <1>3. ASSUME NEW u \in Users, FindUser(r, u)  PROVE CalmInv'
    BY <1>2, <1>3 DEF FindUser, Lacks
  <1>4. ASSUME NEW u \in Users, LoginRead(r, u)  PROVE CalmInv'
    <2>1. CASE Lacking(u)
      BY <1>2, <1>4, <2>1 DEF LoginRead, Lacks, Exists
    <2>2. CASE ~Lacking(u)  BY <1>1, <1>4, <2>2 DEF LoginRead
    <2> QED  BY <2>1, <2>2
  <1>5. ASSUME NEW u \in Users,
               \/ \E org \in {"here", "elsewhere"} : SwitchRead(r, u, org)
               \/ RestoreRead(r, u)
               \/ \E as \in Roles : InviteRead(r, u, as)
               \/ \E by \in Users : SuspendRead(r, u, by)
        PROVE  CalmInv'
    BY <1>1, <1>5 DEF SwitchRead, RestoreRead, InviteRead, SuspendRead
  <1>6. ASSUME NEW i \in DOMAIN invitations, AcceptRead(r, i) \/ CancelRead(r, i)
        PROVE  CalmInv'
    <2>1. PICK to \in {"identify", "annul"}, kind \in {"accept", "cancel"} :
            /\ Enter(r, to, [NoOp EXCEPT !.kind = kind, !.invitation = i,
                                         !.user = invitations[i].user])
            /\ UNCHANGED documents
            /\ Pending(i)
      BY <1>6 DEF AcceptRead, CancelRead
    <2> DEFINE o == [NoOp EXCEPT !.kind = kind, !.invitation = i,
                                 !.user = invitations[i].user]
    <2>2. o.user = Owner(i) /\ o.invitation = i  BY DEF NoOp, Owner
    <2>3. Enter(r, to, o)  BY <2>1
    <2> HIDE DEF o
    <2>4. pc'[r] = to /\ op'[r] = o  BY <2>3 DEF Enter, TypeOK
    <2>5. UNCHANGED invitations  BY <2>1 DEF documents
    <2>6. Holds(r)'  BY <2>1, <2>2, <2>4, <2>5 DEF Holds, Owner, Pending
    <2> QED  BY <2>1, <2>3, <2>6, CalmEnter
  <1> QED  BY <1>3, <1>4, <1>5, <1>6 DEF Call

(* The steps of a request alone.                                           *)
LEMMA CalmContinue ==
  ASSUME TypeOK, SoloInv, CalmInv, NEW r \in Requests, NEW u, u = op[r].user, Continue(r)
  PROVE  CalmInv'
  <1>1. ASSUME NEW from \in Awaits, GoesOn(r, from), Calm
        PROVE  /\ pc[r] = from /\ u \in Users
               /\ Knows(r) /\ MembersExist
               /\ NoneLacks(r) /\ NoneStays(r) /\ AllStand(r) /\ Holds(r) /\ OnePending
               /\ pc'[r] # "idle" =>
                    /\ op'[r].user = u /\ op'[r].role = op[r].role
                    /\ op'[r].invitation = op[r].invitation
    BY <1>1, CalmMine, SameQuestion DEF CalmOf
  <1>2. ASSUME NEW from \in Awaits, GoesOn(r, from),
               Calm => /\ NoneLacks(r)' /\ NoneStays(r)' /\ AllStand(r)'
                       /\ Holds(r)' /\ OnePending'
        PROVE  CalmInv'
    BY <1>2, CalmGoOn DEF CalmOf
  <1>3. CASE InviteFind(r)
    <2>1. GoesOn(r, "find") /\ UNCHANGED documents /\ "find" \in Awaits
      BY <1>3 DEF InviteFind, GoesOn, Awaits
    <2>2. pc'[r] \in {"idle", "create", "enrol"}
      BY <1>3 DEF InviteFind, Leave, Advance, TypeOK
    <2>3. CalmOf(r) => Holds(r)'
      BY <2>1, <2>2, GoOnHolds DEF CalmOf, documents
    <2> QED  BY <2>1, <2>3, CalmSteady DEF documents, accountVars, memberVars
  <1>4. CASE InviteAssign(r)
    <2>1. /\ GoesOn(r, "assign") /\ "assign" \in Awaits
          /\ UNCHANGED <<account, current, member, role, invitations, session>>
      BY <1>4 DEF InviteAssign, GoesOn, Awaits, accountVars, memberVars
    <2>2. /\ pc'[r] \in {"idle", "issue"}
          /\ pc'[r] = "issue" /\ op[r].role # "admin" => u \in assigned'
          /\ assigned \subseteq assigned'
      BY <1>4 DEF InviteAssign, Leave, Advance, TypeOK
    <2>3. CalmOf(r) => Holds(r)'
      BY <2>1, <2>2, GoOnHolds DEF CalmOf
    <2> QED  BY <2>1, <2>2, <2>3, CalmSteady
  <1>5. CASE AcceptIdentify(r)
    <2>1. GoesOn(r, "identify") /\ UNCHANGED documents /\ "identify" \in Awaits
      BY <1>5 DEF AcceptIdentify, GoesOn, Awaits
    <2>2. ASSUME CalmOf(r)  PROVE Holds(r)'
      <3>1. u \in Users /\ pc[r] = "identify"
        BY <1>5 DEF AcceptIdentify, TypeOK
      <3>2. ~Lacks(u)  BY <2>2, <3>1 DEF CalmOf, NoneLacks, Completes
      <3>3. pc'[r] \in {"idle", "check"}
        BY <1>5, <3>2 DEF AcceptIdentify, Leave, AdvanceKnowing, Lacks, TypeOK
      <3> QED  BY <2>1, <2>2, <3>3, GoOnHolds DEF CalmOf, documents
    <2> QED  BY <2>1, <2>2, CalmSteady DEF documents, accountVars, memberVars
  <1>6. CASE AcceptCheck(r)
    <2>1. GoesOn(r, "check") /\ UNCHANGED documents /\ "check" \in Awaits
      BY <1>6 DEF AcceptCheck, GoesOn, Awaits
    <2>2. pc'[r] \in {"idle", "register"}
      BY <1>6 DEF AcceptCheck, Leave, Advance, TypeOK
    <2>3. CalmOf(r) => Holds(r)'
      BY <2>1, <2>2, GoOnHolds DEF CalmOf, documents
    <2> QED  BY <2>1, <2>3, CalmSteady DEF documents, accountVars, memberVars
  <1>7. CASE CancelAnnul(r)
    <2>1. GoesOn(r, "annul") /\ UNCHANGED documents /\ "annul" \in Awaits
      BY <1>7 DEF CancelAnnul, GoesOn, Awaits
    <2>2. pc'[r] \in {"idle", "cancel"}
      BY <1>7 DEF CancelAnnul, Leave, Advance, TypeOK
    <2>3. CalmOf(r) => Holds(r)'
      BY <2>1, <2>2, GoOnHolds DEF CalmOf, documents
    <2> QED  BY <2>1, <2>3, CalmSteady DEF documents, accountVars, memberVars
  <1>8. CASE CancelWithdraw(r)
    <2>1. GoesOn(r, "withdraw") /\ UNCHANGED documents /\ "withdraw" \in Awaits
      BY <1>8 DEF CancelWithdraw, GoesOn, Awaits
    <2>2. pc'[r] \in {"idle", "remove"}
      BY <1>8 DEF CancelWithdraw, Leave, AdvanceKnowing, TypeOK
    <2>3. CalmOf(r) => Holds(r)'
      BY <2>1, <2>2, GoOnHolds DEF CalmOf, documents
    <2> QED  BY <2>1, <2>3, CalmSteady DEF documents, accountVars, memberVars
  <1>9. CASE RestoreReread(r)
    <2>1. GoesOn(r, "reread") /\ UNCHANGED documents /\ "reread" \in Awaits
      BY <1>9 DEF RestoreReread, GoesOn, Awaits
    <2>2. pc'[r] \in {"idle", "restore"}
      BY <1>9 DEF RestoreReread, Leave, AdvanceKnowing, TypeOK
    <2>3. CalmOf(r) => Holds(r)'
      BY <2>1, <2>2, GoOnHolds DEF CalmOf, documents
    <2> QED  BY <2>1, <2>3, CalmSteady DEF documents, accountVars, memberVars
  <1>10. CASE ReplaceSession(r)
    <2>1. /\ GoesOn(r, "replace") /\ "replace" \in Awaits
          /\ UNCHANGED <<account, current, member, role, invitations, assigned>>
      BY <1>10 DEF ReplaceSession, GoesOn, Awaits, accountVars, memberVars
    <2>2. pc'[r] \in {"idle", "open"} /\ session' \subseteq session
      BY <1>10 DEF ReplaceSession, Leave, Advance, TypeOK
    <2>3. CalmOf(r) => Holds(r)'
      BY <2>1, <2>2, GoOnHolds DEF CalmOf
    <2> QED  BY <2>1, <2>2, <2>3, CalmSteady
  <1>11. CASE Revive(r)
    <2>1. GoesOn(r, "revive") /\ "revive" \in Awaits
      BY <1>11 DEF Revive, GoesOn, Awaits
    <2>2. ~Calm  BY <1>1, <2>1 DEF Holds
    <2> QED  BY <1>2, <2>1, <2>2
  <1>12. CASE LoginChoose(r)
    <2>1. /\ GoesOn(r, "choose") /\ "choose" \in Awaits
          /\ UNCHANGED <<account, member, role, assigned, invitations, session>>
      BY <1>12 DEF LoginChoose, GoesOn, memberVars, Awaits
    <2>2. pc'[r] \in {"idle", "replace"}
      BY <1>12 DEF LoginChoose, Leave, Advance, TypeOK
    <2>3. ASSUME Calm
          PROVE  /\ NoneLacks(r)' /\ NoneStays(r)' /\ AllStand(r)'
                 /\ Holds(r)' /\ OnePending'
      <3>1. pc[r] = "choose" /\ Holds(r) /\ OnePending /\ NoneLacks(r) /\ NoneStays(r)
            /\ AllStand(r)
        BY <1>1, <2>1, <2>3
      <3>2. \A v \in Users : Lacking(v)' => Lacking(v)
        BY <1>12 DEF LoginChoose, ActiveIn, Lacking, Live, memberVars, TypeOK
      <3>3. NoneLacks(r)'
        BY <2>1, <3>1, <3>2 DEF NoneLacks, Completes, Lacks, Exists
      <3>4. Holds(r)'  BY <2>1, <2>2, <3>1, GoOnHolds
      <3> QED  BY <2>1, <3>1, <3>3, <3>4, StayKept, StandKept, PendingKept
    <2> QED  BY <1>2, <2>1, <2>3
  <1>13. CASE OpenSession(r)
    <2>1. /\ GoesOn(r, "open") /\ "open" \in Awaits
          /\ UNCHANGED <<account, current, member, role, assigned, invitations>>
      BY <1>13 DEF OpenSession, GoesOn, accountVars, memberVars, Awaits
    <2>2. pc'[r] = "idle"  BY <1>13 DEF OpenSession, Leave, TypeOK
    <2>3. ASSUME Calm
          PROVE  /\ NoneLacks(r)' /\ NoneStays(r)' /\ AllStand(r)'
                 /\ Holds(r)' /\ OnePending'
      <3>1. pc[r] = "open" /\ OnePending /\ NoneLacks(r) /\ NoneStays(r) /\ AllStand(r)
            /\ Knows(r)
        BY <1>1, <2>1, <2>3
      <3>2. session' = session \cup {u}  BY <1>13 DEF OpenSession
      <3>3. member[u] = "active" \/ u \in Elsewhere  BY <3>1 DEF Knows
      <3>4. \A v \in Users : Stays(v)' => Stays(v)
        BY <2>1, <3>2, <3>3 DEF Stays
      <3>5. NoneStays(r)'  BY <3>1, <3>4 DEF NoneStays, Revokes
      <3> QED
        BY <2>1, <2>2, <3>1, <3>5, LackKept, StandKept, PendingKept, LeaveHolds
    <2> QED  BY <1>2, <2>1, <2>3
  <1>14. CASE SwitchPatch(r)
    <2>1. /\ GoesOn(r, "patch") /\ "patch" \in Awaits
          /\ UNCHANGED <<account, member, role, assigned, invitations, session>>
      BY <1>14 DEF SwitchPatch, GoesOn, memberVars, Awaits
    <2>2. pc'[r] = "idle"  BY <1>14 DEF SwitchPatch, Leave, TypeOK
    <2>3. ASSUME Calm
          PROVE  /\ NoneLacks(r)' /\ NoneStays(r)' /\ AllStand(r)'
                 /\ Holds(r)' /\ OnePending'
      <3>1. pc[r] = "patch" /\ OnePending /\ NoneLacks(r) /\ NoneStays(r) /\ AllStand(r)
            /\ Knows(r)
        BY <1>1, <2>1, <2>3
      <3>2. ActiveIn(u, op[r].org)  BY <3>1 DEF Knows
      <3>3. \A v \in Users : Lacking(v)' => Lacking(v)
        BY <1>14, <2>1, <3>2 DEF SwitchPatch, ActiveIn, Lacking, Live, TypeOK
      <3>4. NoneLacks(r)'
        BY <2>1, <3>1, <3>3 DEF NoneLacks, Completes, Lacks, Exists
      <3> QED
        BY <2>1, <2>2, <3>1, <3>4, StayKept, StandKept, PendingKept, LeaveHolds
    <2> QED  BY <1>2, <2>1, <2>3
  <1>15. CASE SuspendMove(r)
    <2>1. /\ GoesOn(r, "move") /\ "move" \in Awaits
          /\ UNCHANGED <<account, member, role, assigned, invitations, session>>
      BY <1>15 DEF SuspendMove, GoesOn, memberVars, Awaits
    <2>2. pc'[r] = "idle"  BY <1>15 DEF SuspendMove, Leave, TypeOK
    <2>3. ASSUME Calm
          PROVE  /\ NoneLacks(r)' /\ NoneStays(r)' /\ AllStand(r)'
                 /\ Holds(r)' /\ OnePending'
      <3>1. pc[r] = "move" /\ OnePending /\ NoneLacks(r) /\ NoneStays(r) /\ AllStand(r)
        BY <1>1, <2>1, <2>3
      <3>2. \A v \in Users : Lacking(v)' => Lacking(v)
        BY <1>15, <2>1 DEF SuspendMove, SaveCurrent, Lacking, Live, TypeOK
      <3>3. NoneLacks(r)'
        BY <2>1, <3>1, <3>2 DEF NoneLacks, Completes, Lacks, Exists
      <3> QED
        BY <2>1, <2>2, <3>1, <3>3, StayKept, StandKept, PendingKept, LeaveHolds
    <2> QED  BY <1>2, <2>1, <2>3
  <1>16. CASE InviteCreate(r)
    <2>1. /\ GoesOn(r, "create") /\ "create" \in Awaits
          /\ UNCHANGED <<member, role, assigned, invitations, session>>
      BY <1>16 DEF InviteCreate, GoesOn, memberVars, Awaits
    <2>2. \/ pc'[r] = "idle" /\ UNCHANGED <<account, current>>
          \/ /\ pc'[r] = "enrol"
             /\ \A v \in Users \ {u} : account'[v] = account[v] /\ current'[v] = current[v]
      BY <1>16 DEF InviteCreate, Leave, Advance, accountVars, TypeOK
    <2>3. ASSUME Calm
          PROVE  /\ NoneLacks(r)' /\ NoneStays(r)' /\ AllStand(r)'
                 /\ Holds(r)' /\ OnePending'
      <3>1. pc[r] = "create" /\ OnePending /\ NoneLacks(r) /\ NoneStays(r) /\ AllStand(r)
            /\ Holds(r) /\ (pc'[r] # "idle" => op'[r].user = u)
        BY <1>1, <2>1, <2>3
      <3>2. NoneLacks(r)'
        <4>1. \A v \in Users : ~Lacks(v)  BY <3>1 DEF NoneLacks, Completes
        <4>2. \A v \in Users : Lacks(v)' => pc'[r] = "enrol" /\ v = u
          BY <2>1, <2>2, <4>1 DEF Lacks, Lacking, Exists, Live
        <4> QED  BY <3>1, <4>2 DEF NoneLacks, Completes
      <3>3. Holds(r)'  BY <2>1, <2>2, <3>1, GoOnHolds
      <3> QED  BY <2>1, <3>1, <3>2, <3>3, StayKept, StandKept, PendingKept
    <2> QED  BY <1>2, <2>1, <2>3
  <1>17. CASE InviteEnrol(r)
    <2>1. /\ GoesOn(r, "enrol") /\ "enrol" \in Awaits
          /\ UNCHANGED <<account, current, assigned, invitations, session>>
      BY <1>17 DEF InviteEnrol, GoesOn, accountVars, Awaits
    <2>2. pc'[r] = "assign"  BY <1>17 DEF InviteEnrol, Advance, TypeOK
    <2>3. ASSUME Calm
          PROVE  /\ NoneLacks(r)' /\ NoneStays(r)' /\ AllStand(r)'
                 /\ Holds(r)' /\ OnePending'
      <3>1. /\ pc[r] = "enrol" /\ OnePending /\ NoneLacks(r) /\ NoneStays(r) /\ AllStand(r)
            /\ Holds(r) /\ Knows(r) /\ u \in Users
        BY <1>1, <2>1, <2>3
      <3>2. /\ \A v \in Users \ {u} : member'[v] = member[v] /\ role'[v] = role[v]
            /\ member'[u] = "invited"
        BY <1>17, <3>1 DEF InviteEnrol, Enrol, TypeOK
      <3>3. NoneLacks(r)'
        BY <2>1, <3>1, <3>2 DEF NoneLacks, Completes, Lacks, Lacking, Exists, Live
      <3>4. NoneStays(r)'
        BY <2>1, <3>1, <3>2 DEF NoneStays, Revokes, Stays
      <3>5. AllStand(r)'
        <4>1. ~Live(u)  BY <3>1 DEF Knows
        <4>2. \A i \in DOMAIN invitations : Pending(i) => Stands(i)
          BY <3>1 DEF AllStand, Settles
        <4>3. \A i \in DOMAIN invitations : Pending(i) => Owner(i) # u
          BY <4>1, <4>2 DEF Stands, Live
        <4>4. \A i \in DOMAIN invitations : Owner(i) \in Users
          BY InvitationsType DEF Owner, Invitation, TypeOK
        <4> QED
          BY <2>1, <3>2, <4>2, <4>3, <4>4 DEF AllStand, Stands, Pending, Owner
      <3>6. Holds(r)'  BY <2>1, <2>2, <3>1, GoOnHolds
      <3> QED  BY <2>1, <3>1, <3>3, <3>4, <3>5, <3>6, PendingKept
    <2> QED  BY <1>2, <2>1, <2>3
  <1>18. CASE InviteIssue(r)
    <2>1. /\ GoesOn(r, "issue") /\ "issue" \in Awaits
          /\ UNCHANGED <<account, current, member, role, assigned, session>>
      BY <1>18 DEF InviteIssue, GoesOn, accountVars, memberVars, Awaits
    <2>2. pc'[r] = "idle"  BY <1>18 DEF InviteIssue, Leave, TypeOK
    <2>3. ASSUME Calm
          PROVE  /\ NoneLacks(r)' /\ NoneStays(r)' /\ AllStand(r)'
                 /\ Holds(r)' /\ OnePending'
      <3>1. /\ pc[r] = "issue" /\ OnePending /\ NoneLacks(r) /\ NoneStays(r) /\ AllStand(r)
            /\ Holds(r) /\ Knows(r) /\ u \in Users
        BY <1>1, <2>1, <2>3
      <3>2. CASE \E i \in DOMAIN invitations : Owner(i) = u /\ Pending(i)
        <4>1. UNCHANGED invitations  BY <1>18, <3>2 DEF InviteIssue, Owner
        <4> QED
          BY <2>1, <2>2, <3>1, <4>1, LackKept, StayKept, StandKept, PendingKept,
             LeaveHolds
      <3>3. CASE ~\E i \in DOMAIN invitations : Owner(i) = u /\ Pending(i)
        <4>1. invitations' = Append(invitations, [user |-> u, status |-> "pending"])
          BY <1>18, <3>3 DEF InviteIssue, Owner
        <4>2. PICK n \in DOMAIN invitations' :
                /\ DOMAIN invitations' = DOMAIN invitations \cup {n}
                /\ Owner(n)' = u
                /\ \A j \in DOMAIN invitations : /\ j # n
                                                 /\ Owner(j)' = Owner(j)
                                                 /\ Pending(j)' <=> Pending(j)
          BY <3>1, <4>1, IssuedFacts
        <4>3. OnePending'  BY <3>1, <3>3, <4>2 DEF OnePending
        <4>4. member[u] = "invited" /\ role[u] = op[r].role  BY <3>1 DEF Knows
        <4>5. role[u] = "member" => u \in assigned  BY <3>1, <4>4 DEF Holds
        <4>6. Stands(n)'  BY <2>1, <4>2, <4>4, <4>5 DEF Stands
        <4>7. \A j \in DOMAIN invitations : Pending(j) => Stands(j)
          BY <3>1 DEF AllStand, Settles
        <4>8. \A j \in DOMAIN invitations : Pending(j)' => Stands(j)'
          BY <2>1, <4>2, <4>7 DEF Stands
        <4>9. AllStand(r)'  BY <4>2, <4>6, <4>8 DEF AllStand
        <4> QED
          BY <2>1, <2>2, <3>1, <4>3, <4>9, LackKept, StayKept, LeaveHolds
      <3> QED  BY <3>2, <3>3
    <2> QED  BY <1>2, <2>1, <2>3
  <1>19. CASE AcceptRegister(r)
    <2>1. /\ GoesOn(r, "register") /\ "register" \in Awaits
          /\ UNCHANGED <<member, role, assigned, invitations, session>>
      BY <1>19 DEF AcceptRegister, GoesOn, memberVars, Awaits
    <2>2. pc'[r] = "activate"  BY <1>19 DEF AcceptRegister, Advance, TypeOK
    <2>3. ASSUME Calm
          PROVE  /\ NoneLacks(r)' /\ NoneStays(r)' /\ AllStand(r)'
                 /\ Holds(r)' /\ OnePending'
      <3>1. /\ pc[r] = "register" /\ OnePending /\ NoneLacks(r) /\ NoneStays(r)
            /\ AllStand(r) /\ Holds(r) /\ Knows(r)
        BY <1>1, <2>1, <2>3
      <3>2. Live(u)'  BY <2>1, <3>1 DEF Knows, Live
      <3>3. \A v \in Users \ {u} : account'[v] = account[v] /\ current'[v] = current[v]
        BY <1>19 DEF AcceptRegister, SaveCurrent, TypeOK
      <3>4. \A v \in Users : Lacks(v)' => Lacks(v)
        BY <2>1, <3>2, <3>3 DEF Lacks, Lacking, Exists, Live
      <3>5. NoneLacks(r)'  BY <3>1, <3>4 DEF NoneLacks, Completes
      <3>6. Holds(r)'  BY <2>1, <2>2, <3>1, GoOnHolds
      <3> QED  BY <2>1, <3>1, <3>5, <3>6, StayKept, StandKept, PendingKept
    <2> QED  BY <1>2, <2>1, <2>3
  <1>20. CASE AcceptActivate(r)
    <2>1. /\ GoesOn(r, "activate") /\ "activate" \in Awaits
          /\ UNCHANGED <<account, current, role, assigned, invitations, session>>
      BY <1>20 DEF AcceptActivate, SaveMember, GoesOn, accountVars, Awaits
    <2>2. ASSUME Calm
          PROVE  /\ NoneLacks(r)' /\ NoneStays(r)' /\ AllStand(r)'
                 /\ Holds(r)' /\ OnePending'
      <3>1. /\ pc[r] = "activate" /\ OnePending /\ NoneLacks(r) /\ NoneStays(r)
            /\ AllStand(r) /\ Holds(r) /\ Knows(r) /\ u \in Users
            /\ (pc'[r] # "idle" => op'[r].invitation = op[r].invitation)
        BY <1>1, <2>1, <2>2
      <3>2. member[u] = "invited" /\ Live(u)  BY <3>1 DEF Knows, Live
      <3>3. /\ pc'[r] = "settle"
            /\ \A v \in Users \ {u} : member'[v] = member[v]
            /\ member'[u] = "active"
        BY <1>20, <3>1, <3>2 DEF AcceptActivate, SaveMember, Advance, TypeOK
      <3>4. NoneLacks(r)'
        BY <2>1, <3>1, <3>2, <3>3 DEF NoneLacks, Completes, Lacks, Lacking, Exists, Live
      <3>5. NoneStays(r)'
        BY <2>1, <3>1, <3>3 DEF NoneStays, Revokes, Stays
      <3>6. AllStand(r)'
        <4>1. /\ op[r].invitation \in DOMAIN invitations
              /\ Owner(op[r].invitation) = u /\ Pending(op[r].invitation)
          BY <3>1 DEF Holds
        <4>2. \A i \in DOMAIN invitations : Pending(i) => Stands(i)
          BY <3>1 DEF AllStand, Settles
        <4>3. \A i \in DOMAIN invitations :
                Pending(i) /\ i # op[r].invitation => Owner(i) # u
          BY <3>1, <4>1 DEF OnePending
        <4>4. \A i \in DOMAIN invitations : Owner(i) \in Users
          BY InvitationsType DEF Owner, Invitation, TypeOK
        <4>5. ASSUME NEW i \in DOMAIN invitations, Pending(i)
              PROVE  Stands(i)' \/ Settles(r, i)'
          <5>1. CASE i = op[r].invitation  BY <3>1, <3>3, <5>1 DEF Settles
          <5>2. CASE i # op[r].invitation
            <6>1. Owner(i) \in Users \ {u} /\ Stands(i)
              BY <4>2, <4>3, <4>4, <4>5, <5>2
            <6> QED  BY <2>1, <3>3, <6>1 DEF Stands, Owner
          <5> QED  BY <5>1, <5>2
        <4> QED  BY <2>1, <4>5 DEF AllStand, Pending
      <3>7. Holds(r)'  BY <2>1, <3>1, <3>3, GoOnHolds
      <3> QED  BY <2>1, <3>1, <3>4, <3>5, <3>6, <3>7, PendingKept
    <2> QED  BY <1>2, <2>1, <2>2
  <1>21. CASE AcceptSettle(r)
    <2>1. GoesOn(r, "settle") /\ UNCHANGED documents /\ "settle" \in Awaits
      BY <1>21 DEF AcceptSettle, GoesOn, Awaits
    <2>2. UNCHANGED <<account, current, member, role, assigned, invitations, session>>
      BY <2>1 DEF documents, accountVars, memberVars
    <2>3. ASSUME Calm
          PROVE  /\ NoneLacks(r)' /\ NoneStays(r)' /\ AllStand(r)'
                 /\ Holds(r)' /\ OnePending'
      <3>1. /\ pc[r] = "settle" /\ OnePending /\ NoneLacks(r) /\ NoneStays(r)
            /\ AllStand(r) /\ Holds(r)
            /\ (pc'[r] # "idle" => op'[r].invitation = op[r].invitation)
        BY <1>1, <2>1, <2>3
      <3>2. pc'[r] = "answer"
        BY <1>21, <3>1 DEF AcceptSettle, Holds, Advance, TypeOK
      <3>3. AllStand(r)'
        BY <2>2, <3>1, <3>2 DEF AllStand, Settles, Stands, Owner, Pending
      <3>4. Holds(r)'  BY <2>1, <2>2, <3>1, <3>2, GoOnHolds
      <3> QED  BY <2>2, <3>1, <3>3, <3>4, LackKept, StayKept, PendingKept
    <2> QED  BY <1>2, <2>1, <2>3
  <1>22. CASE AcceptAnswer(r)
    <2>1. /\ GoesOn(r, "answer") /\ "answer" \in Awaits
          /\ UNCHANGED <<account, current, member, role, assigned, session>>
      BY <1>22 DEF AcceptAnswer, GoesOn, accountVars, memberVars, Awaits
    <2>2. pc'[r] = "replace"  BY <1>22 DEF AcceptAnswer, Advance, TypeOK
    <2>3. ASSUME Calm
          PROVE  /\ NoneLacks(r)' /\ NoneStays(r)' /\ AllStand(r)'
                 /\ Holds(r)' /\ OnePending'
      <3>1. /\ pc[r] = "answer" /\ OnePending /\ NoneLacks(r) /\ NoneStays(r)
            /\ AllStand(r) /\ Holds(r)
        BY <1>1, <2>1, <2>3
      <3>2. op[r].invitation \in DOMAIN invitations  BY <3>1 DEF Holds
      <3>3. invitations' = [invitations EXCEPT ![op[r].invitation].status = "accepted"]
        BY <1>22 DEF AcceptAnswer
      <3>4. PICK i \in DOMAIN invitations : i = op[r].invitation  BY <3>2
      <3>5. /\ DOMAIN invitations' = DOMAIN invitations
            /\ \A j \in DOMAIN invitations : /\ Owner(j)' = Owner(j)
                                             /\ Pending(j)' <=> j # i /\ Pending(j)
        BY <3>3, <3>4, AnsweredFacts
      <3>6. OnePending'  BY <3>1, <3>5 DEF OnePending
      <3>7. AllStand(r)'
        BY <2>1, <3>1, <3>4, <3>5 DEF AllStand, Settles, Stands
      <3>8. Holds(r)'  BY <2>2 DEF Holds
      <3> QED  BY <2>1, <3>1, <3>6, <3>7, <3>8, LackKept, StayKept
    <2> QED  BY <1>2, <2>1, <2>3
  <1>23. CASE CancelSave(r)
    <2>1. /\ GoesOn(r, "cancel") /\ "cancel" \in Awaits
          /\ UNCHANGED <<account, current, member, role, assigned, session>>
      BY <1>23 DEF CancelSave, GoesOn, accountVars, memberVars, Awaits
    <2>2. pc'[r] = "withdraw"  BY <1>23 DEF CancelSave, Advance, TypeOK
    <2>3. ASSUME Calm
          PROVE  /\ NoneLacks(r)' /\ NoneStays(r)' /\ AllStand(r)'
                 /\ Holds(r)' /\ OnePending'
      <3>1. /\ pc[r] = "cancel" /\ OnePending /\ NoneLacks(r) /\ NoneStays(r)
            /\ AllStand(r) /\ Holds(r) /\ (pc'[r] # "idle" => op'[r].user = u)
        BY <1>1, <2>1, <2>3
      <3>2. /\ op[r].invitation \in DOMAIN invitations
            /\ Owner(op[r].invitation) = u /\ Pending(op[r].invitation)
        BY <3>1 DEF Holds
      <3>3. invitations' = [invitations EXCEPT ![op[r].invitation].status = "cancelled"]
        BY <1>23 DEF CancelSave
      <3>4. PICK i \in DOMAIN invitations : i = op[r].invitation  BY <3>2
      <3>5. /\ DOMAIN invitations' = DOMAIN invitations
            /\ \A j \in DOMAIN invitations : /\ Owner(j)' = Owner(j)
                                             /\ Pending(j)' <=> j # i /\ Pending(j)
        BY <3>3, <3>4, AnsweredFacts
      <3>6. OnePending'  BY <3>1, <3>5 DEF OnePending
      <3>7. AllStand(r)'
        BY <2>1, <3>1, <3>5 DEF AllStand, Settles, Stands
      <3>8. \A j \in DOMAIN invitations : Pending(j) /\ j # i => Owner(j) # u
        BY <3>1, <3>2, <3>4 DEF OnePending
      <3>9. Holds(r)'  BY <2>2, <3>1, <3>5, <3>8 DEF Holds
      <3> QED  BY <2>1, <3>1, <3>6, <3>7, <3>9, LackKept, StayKept
    <2> QED  BY <1>2, <2>1, <2>3
  <1>24. CASE CancelRemove(r)
    <2>1. /\ GoesOn(r, "remove") /\ "remove" \in Awaits
          /\ UNCHANGED <<account, current, role, assigned, invitations, session>>
      BY <1>24 DEF CancelRemove, GoesOn, accountVars, Awaits
    <2>2. pc'[r] = "count"  BY <1>24 DEF CancelRemove, Advance, TypeOK
    <2>3. ASSUME Calm
          PROVE  /\ NoneLacks(r)' /\ NoneStays(r)' /\ AllStand(r)'
                 /\ Holds(r)' /\ OnePending'
      <3>1. /\ pc[r] = "remove" /\ OnePending /\ NoneLacks(r) /\ NoneStays(r)
            /\ AllStand(r) /\ Holds(r) /\ (pc'[r] # "idle" => op'[r].user = u)
            /\ u \in Users
        BY <1>1, <2>1, <2>3
      <3>2. /\ \A v \in Users \ {u} : member'[v] = member[v]
            /\ member'[u] = "deleted"
        BY <1>24, <3>1 DEF CancelRemove, TypeOK
      <3>3. NoneLacks(r)'
        BY <2>1, <2>2, <3>1, <3>2 DEF NoneLacks, Completes, Lacks, Lacking, Exists, Live
      <3>4. NoneStays(r)'
        BY <2>1, <3>1, <3>2 DEF NoneStays, Revokes, Stays
      <3>5. AllStand(r)'
        <4>1. \A i \in DOMAIN invitations : Pending(i) => Stands(i) /\ Owner(i) # u
          BY <3>1 DEF AllStand, Settles, Holds
        <4>2. \A i \in DOMAIN invitations : Owner(i) \in Users
          BY InvitationsType DEF Owner, Invitation, TypeOK
        <4> QED  BY <2>1, <3>2, <4>1, <4>2 DEF AllStand, Stands, Pending, Owner
      <3>6. Holds(r)'  BY <2>1, <2>2, <3>1, GoOnHolds
      <3> QED  BY <2>1, <3>1, <3>3, <3>4, <3>5, <3>6, PendingKept
    <2> QED  BY <1>2, <2>1, <2>3
  <1>25. CASE CancelCount(r)
    <2>1. /\ GoesOn(r, "count") /\ "count" \in Awaits
          /\ UNCHANGED <<account, member, role, assigned, invitations, session>>
      BY <1>25 DEF CancelCount, GoesOn, memberVars, Awaits
    <2>2. /\ pc'[r] \in {"retire", "unassign"}
          /\ pc'[r] = "unassign" => Live(u) \/ u \in Elsewhere
          /\ \A v \in Users \ {u} : current'[v] = current[v]
      BY <1>25 DEF CancelCount, Advance, SaveCurrent, TypeOK
    <2>3. ASSUME Calm
          PROVE  /\ NoneLacks(r)' /\ NoneStays(r)' /\ AllStand(r)'
                 /\ Holds(r)' /\ OnePending'
      <3>1. /\ pc[r] = "count" /\ OnePending /\ NoneLacks(r) /\ NoneStays(r)
            /\ AllStand(r) /\ Holds(r) /\ (pc'[r] # "idle" => op'[r].user = u)
        BY <1>1, <2>1, <2>3
      <3>2. NoneLacks(r)'
        <4>1. ASSUME NEW v \in Users, Lacks(v)'  PROVE Completes(r, v)'
          <5>1. CASE v # u
            <6>1. Lacks(v)  BY <2>1, <2>2, <4>1, <5>1 DEF Lacks, Lacking, Exists, Live
            <6> QED  BY <3>1, <5>1, <6>1 DEF NoneLacks, Completes
          <5>2. CASE v = u
            <6>1. pc'[r] # "unassign"
              BY <2>1, <2>2, <4>1, <5>2 DEF Lacks, Lacking, Live
            <6> QED  BY <2>2, <3>1, <5>2, <6>1 DEF Completes
          <5> QED  BY <5>1, <5>2
        <4> QED  BY <4>1 DEF NoneLacks
      <3>3. Holds(r)'  BY <2>1, <2>2, <3>1, GoOnHolds
      <3> QED  BY <2>1, <3>1, <3>2, <3>3, StayKept, StandKept, PendingKept
    <2> QED  BY <1>2, <2>1, <2>3
  <1>26. CASE CancelRetire(r)
    <2>1. /\ GoesOn(r, "retire") /\ "retire" \in Awaits
          /\ UNCHANGED <<member, role, assigned, invitations, session>>
      BY <1>26 DEF CancelRetire, GoesOn, memberVars, Awaits
    <2>2. pc'[r] = "unassign"  BY <1>26 DEF CancelRetire, Advance, TypeOK
    <2>3. ASSUME Calm
          PROVE  /\ NoneLacks(r)' /\ NoneStays(r)' /\ AllStand(r)'
                 /\ Holds(r)' /\ OnePending'
      <3>1. /\ pc[r] = "retire" /\ OnePending /\ NoneLacks(r) /\ NoneStays(r)
            /\ AllStand(r) /\ Holds(r) /\ u \in Users
        BY <1>1, <2>1, <2>3
      <3>2. /\ \A v \in Users \ {u} : account'[v] = account[v] /\ current'[v] = current[v]
            /\ account'[u] = "deleted"
        BY <1>26, <3>1 DEF CancelRetire, TypeOK
      <3>3. NoneLacks(r)'
        BY <2>1, <3>1, <3>2 DEF NoneLacks, Completes, Lacks, Lacking, Exists, Live
      <3>4. Holds(r)'  BY <2>1, <2>2, <3>1, GoOnHolds
      <3> QED  BY <2>1, <3>1, <3>3, <3>4, StayKept, StandKept, PendingKept
    <2> QED  BY <1>2, <2>1, <2>3
  <1>27. CASE CancelUnassign(r)
    <2>1. /\ GoesOn(r, "unassign") /\ "unassign" \in Awaits
          /\ UNCHANGED <<account, current, member, role, invitations, session>>
      BY <1>27 DEF CancelUnassign, GoesOn, accountVars, memberVars, Awaits
    <2>2. pc'[r] = "idle"  BY <1>27 DEF CancelUnassign, Leave, TypeOK
    <2>3. ASSUME Calm
          PROVE  /\ NoneLacks(r)' /\ NoneStays(r)' /\ AllStand(r)'
                 /\ Holds(r)' /\ OnePending'
      <3>1. /\ pc[r] = "unassign" /\ OnePending /\ NoneLacks(r) /\ NoneStays(r)
            /\ AllStand(r) /\ Holds(r)
        BY <1>1, <2>1, <2>3
      <3>2. AllStand(r)'
        <4>1. \A i \in DOMAIN invitations : Pending(i) => Stands(i) /\ Owner(i) # u
          BY <3>1 DEF AllStand, Settles, Holds
        <4>2. assigned' = assigned \ {u}  BY <1>27 DEF CancelUnassign
        <4> QED  BY <2>1, <4>1, <4>2 DEF AllStand, Stands, Pending, Owner
      <3> QED  BY <2>1, <2>2, <3>1, <3>2, LackKept, StayKept, PendingKept, LeaveHolds
    <2> QED  BY <1>2, <2>1, <2>3
  <1>28. CASE SuspendSave(r)
    <2>1. /\ GoesOn(r, "disable") /\ "disable" \in Awaits
          /\ UNCHANGED <<account, current, role, assigned, invitations, session>>
      BY <1>28 DEF SuspendSave, SaveMember, GoesOn, accountVars, Awaits
    <2>2. pc'[r] = "revoke"  BY <1>28 DEF SuspendSave, Advance, TypeOK
    <2>3. ASSUME Calm
          PROVE  /\ NoneLacks(r)' /\ NoneStays(r)' /\ AllStand(r)'
                 /\ Holds(r)' /\ OnePending'
      <3>1. /\ pc[r] = "disable" /\ OnePending /\ NoneLacks(r) /\ NoneStays(r)
            /\ AllStand(r) /\ Holds(r) /\ Knows(r) /\ u \in Users
            /\ (pc'[r] # "idle" => op'[r].user = u)
        BY <1>1, <2>1, <2>3
      <3>2. member[u] = "active"  BY <3>1 DEF Knows
      <3>3. /\ \A v \in Users \ {u} : member'[v] = member[v]
            /\ member'[u] = "disabled"
        BY <1>28, <3>1, <3>2 DEF SuspendSave, SaveMember, Live, TypeOK
      <3>4. NoneLacks(r)'
        BY <2>1, <3>1, <3>3 DEF NoneLacks, Completes, Lacks, Lacking, Exists, Live
      <3>5. NoneStays(r)'
        BY <2>1, <2>2, <3>1, <3>3 DEF NoneStays, Revokes, Stays
      <3>6. AllStand(r)'
        <4>1. \A i \in DOMAIN invitations : Pending(i) => Stands(i) /\ Owner(i) # u
          BY <3>1, <3>2 DEF AllStand, Settles, Stands
        <4>2. \A i \in DOMAIN invitations : Owner(i) \in Users
          BY InvitationsType DEF Owner, Invitation, TypeOK
        <4> QED  BY <2>1, <3>3, <4>1, <4>2 DEF AllStand, Stands, Pending, Owner
      <3>7. Holds(r)'  BY <2>2 DEF Holds
      <3> QED  BY <2>1, <3>1, <3>4, <3>5, <3>6, <3>7, PendingKept
    <2> QED  BY <1>2, <2>1, <2>3
  <1>29. CASE SuspendRevoke(r)
    <2>1. /\ GoesOn(r, "revoke") /\ "revoke" \in Awaits
          /\ UNCHANGED <<account, current, member, role, assigned, invitations>>
      BY <1>29 DEF SuspendRevoke, GoesOn, accountVars, memberVars, Awaits
    <2>2. ASSUME Calm
          PROVE  /\ NoneLacks(r)' /\ NoneStays(r)' /\ AllStand(r)'
                 /\ Holds(r)' /\ OnePending'
      <3>1. /\ pc[r] = "revoke" /\ OnePending /\ NoneLacks(r) /\ NoneStays(r)
            /\ AllStand(r) /\ Holds(r) /\ Knows(r) /\ MembersExist /\ u \in Users
        BY <1>1, <2>1, <2>2
      <3>2. Exists(u)  BY <3>1 DEF Knows, MembersExist, Live
      <3>3. pc'[r] = "move" /\ session' = session \ {u}
        BY <1>29, <3>2 DEF SuspendRevoke, Advance, TypeOK
      <3>4. NoneStays(r)'
        BY <2>1, <3>1, <3>3 DEF NoneStays, Revokes, Stays
      <3>5. Holds(r)'  BY <3>3 DEF Holds
      <3> QED  BY <2>1, <3>1, <3>4, <3>5, LackKept, StandKept, PendingKept
    <2> QED  BY <1>2, <2>1, <2>2
  <1>30. CASE RestoreSave(r)
    <2>1. /\ GoesOn(r, "restore") /\ "restore" \in Awaits
          /\ UNCHANGED <<account, role, assigned, invitations, session>>
      BY <1>30 DEF RestoreSave, SaveMember, GoesOn, Awaits
    <2>2. pc'[r] = "idle"  BY <1>30 DEF RestoreSave, Leave, TypeOK
    <2>3. ASSUME Calm
          PROVE  /\ NoneLacks(r)' /\ NoneStays(r)' /\ AllStand(r)'
                 /\ Holds(r)' /\ OnePending'
      <3>1. /\ pc[r] = "restore" /\ OnePending /\ NoneLacks(r) /\ NoneStays(r)
            /\ AllStand(r) /\ Holds(r) /\ Knows(r) /\ u \in Users
        BY <1>1, <2>1, <2>3
      <3>2. member[u] = "disabled"  BY <3>1 DEF Knows
      <3>3. /\ \A v \in Users \ {u} : member'[v] = member[v] /\ current'[v] = current[v]
            /\ member'[u] = "active"
        BY <1>30, <3>1, <3>2 DEF RestoreSave, SaveMember, Live, TypeOK
      <3>4. NoneLacks(r)'
        BY <2>1, <3>1, <3>3 DEF NoneLacks, Completes, Lacks, Lacking, Exists, Live
      <3>5. NoneStays(r)'
        BY <2>1, <3>1, <3>3 DEF NoneStays, Revokes, Stays
      <3>6. AllStand(r)'
        <4>1. \A i \in DOMAIN invitations : Pending(i) => Stands(i) /\ Owner(i) # u
          BY <3>1, <3>2 DEF AllStand, Settles, Stands
        <4>2. \A i \in DOMAIN invitations : Owner(i) \in Users
          BY InvitationsType DEF Owner, Invitation, TypeOK
        <4> QED  BY <2>1, <3>3, <4>1, <4>2 DEF AllStand, Stands, Pending, Owner
      <3> QED  BY <2>1, <2>2, <3>1, <3>4, <3>5, <3>6, PendingKept, LeaveHolds
    <2> QED  BY <1>2, <2>1, <2>3
  <1> QED
    BY <1>3, <1>4, <1>5, <1>6, <1>7, <1>8, <1>9, <1>10, <1>11, <1>12, <1>13, <1>14,
       <1>15, <1>16, <1>17, <1>18, <1>19, <1>20, <1>21, <1>22, <1>23, <1>24, <1>25,
       <1>26, <1>27, <1>28, <1>29, <1>30 DEF Continue

(* Every step keeps CalmInv.                                               *)
LEMMA CalmStep ==
  ASSUME TypeOK, SoloInv, CalmInv, [Next]_vars
  PROVE  CalmInv'
  <1>1. ASSUME NEW r \in Requests, Call(r)  PROVE CalmInv'
    BY <1>1, CalmCall
  <1>2. ASSUME NEW r \in Requests, Continue(r)  PROVE CalmInv'
    BY <1>2, CalmContinue
  <1>3. ASSUME NEW r \in Requests, Abort(r)  PROVE CalmInv'
    <2>1. aborts' # 0  BY <1>3 DEF Abort, TypeOK
    <2> QED  BY <2>1 DEF CalmInv, Calm
  <1>4. ASSUME NEW u \in Users, EndSession(u)  PROVE CalmInv'
    <2> SUFFICES ASSUME Calm'  PROVE CalmInv'
      BY DEF CalmInv
    <2>1. Calm /\ Quiet  BY <1>4 DEF EndSession, Calm
    <2>2. /\ UNCHANGED <<account, current, member, role, assigned, invitations, pc>>
          /\ session' \subseteq session
      BY <1>4 DEF EndSession, accountVars, memberVars
    <2>3. \A s \in Requests : Holds(s)'  BY <2>1, <2>2 DEF Quiet, Holds
    <2>4. /\ \A v \in Users : ~Lacks(v)' /\ ~Stays(v)'
          /\ \A i \in DOMAIN invitations' : Pending(i)' => Stands(i)'
          /\ OnePending'
      BY <2>1, <2>2, QuietFacts
         DEF Lacks, Lacking, Exists, Live, Stays, Stands, Pending, Owner, OnePending
    <2> QED  BY <2>3, <2>4 DEF CalmInv
  <1>5. CASE UNCHANGED vars
    <2>1. /\ UNCHANGED <<account, current, member, role, assigned, invitations, session>>
          /\ UNCHANGED <<pc, op, aborts, overlapped>>
      BY <1>5 DEF vars, documents, accountVars, memberVars, history
    <2> QED
      BY <2>1 DEF CalmInv, Calm, Lacks, Lacking, Stays, Stands, Owner, Completes,
                  Revokes, Settles, Holds, OnePending, Pending, Exists, Live
  <1> QED  BY <1>1, <1>2, <1>3, <1>4, <1>5 DEF Next

(* A new organization has nothing half-way.                                *)
LEMMA CalmInit ==
  ASSUME Init
  PROVE  CalmInv
  <1>1. \A u \in Users : ~Lacks(u) /\ ~Stays(u)
    BY DEF Init, Lacks, Lacking, Stays, Live
  <1>2. DOMAIN invitations = {}  BY DEF Init
  <1>3. \A r \in Requests : Holds(r)  BY DEF Init, Holds
  <1> QED  BY <1>1, <1>2, <1>3 DEF CalmInv, OnePending

(* The three invariants are kept together.                                 *)
LEMMA CalmAlways == Spec => [](TypeOK /\ SoloInv /\ CalmInv)
  <1>1. Init => TypeOK /\ SoloInv /\ CalmInv  BY TypeInit, SoloInit, CalmInit
  <1>2. TypeOK /\ SoloInv /\ CalmInv /\ [Next]_vars => (TypeOK /\ SoloInv /\ CalmInv)'
    BY TypeStep, SoloStep, CalmStep
  <1> QED  BY <1>1, <1>2, PTL DEF Spec

(* inviteUser, acceptInvitation, cancelInvitation: once nothing runs, and  *)
(* if no request overlapped another or stopped, a pending invitation can   *)
(* be accepted or cancelled: its account exists, its membership is still   *)
(* an invited one, and a member's permissions are assigned.                *)
THEOREM InvitationsStayAnswerable == Spec => []InvitationsAnswerable
  <1>1. ASSUME SoloInv, CalmInv, Calm, Quiet, NEW i \in DOMAIN invitations, Pending(i),
               TypeOK
        PROVE  /\ Exists(Owner(i)) /\ member[Owner(i)] = "invited"
               /\ role[Owner(i)] = "member" => Owner(i) \in assigned
    <2>1. Stands(i) /\ MembersExist  BY <1>1, QuietFacts DEF SoloInv, Calm
    <2>2. Owner(i) \in Users  BY <1>1, InvitationsType DEF Owner, Invitation, TypeOK
    <2> QED  BY <2>1, <2>2 DEF Stands, MembersExist, Live
  <1>2. TypeOK /\ SoloInv /\ CalmInv => InvitationsAnswerable
    BY <1>1 DEF InvitationsAnswerable, Owner
  <1> QED  BY <1>2, CalmAlways, PTL

(* deactivateOrganizationMembership and createSession: once nothing runs,  *)
(* and if no request overlapped another or stopped, a suspended user with  *)
(* no other organization has no session.                                   *)
THEOREM SuspendedIsLoggedOut == Spec => []SuspendedHasNoSession
  <1>1. CalmInv => SuspendedHasNoSession
    BY QuietFacts DEF SuspendedHasNoSession, Stays
  <1> QED  BY <1>1, CalmAlways, PTL

-----------------------------------------------------------------------------
(* The Roster.                                                             *)

LEMMA StandingFacts ==
  /\ StandingOf("none") = "outside" /\ StandingOf("deleted") = "outside"
  /\ StandingOf("invited") = "invited"
  /\ StandingOf("active") = "member"
  /\ StandingOf("disabled") = "suspended"
  BY DEF StandingOf

(* A step that writes no membership leaves the Roster as it is ...         *)
LEMMA SameRoster ==
  ASSUME UNCHANGED <<member, role>>
  PROVE  UNCHANGED R!roster
  <1>1. Standing' = Standing  BY DEF Standing
  <1>2. Admins' = Admins  BY DEF Admins, Live
  <1> QED  BY <1>1, <1>2 DEF R!roster

(* ... and one that writes the status of a membership moves its user.      *)
LEMMA Moving ==
  ASSUME TypeOK, NEW u \in Users, NEW status, member' = [member EXCEPT ![u] = status]
  PROVE  R!Moves(u, StandingOf(member[u]), StandingOf(status))
  <1>1. \A v \in Users : member'[v] = IF v = u THEN status ELSE member[v]
    BY DEF TypeOK
  <1>2. \A v \in Users : StandingOf(member'[v]) =
          IF v = u THEN StandingOf(status) ELSE StandingOf(member[v])
    BY <1>1
  <1>3. Standing' = [v \in Users |-> StandingOf(member'[v])]
    BY DEF Standing, StandingOf
  <1>4. Standing' = [Standing EXCEPT ![u] = StandingOf(status)]
    BY <1>2, <1>3 DEF Standing
  <1> QED  BY <1>4 DEF R!Moves, Standing

(* The Roster counts as the service does.                                  *)
LEMMA SameCount == \A S : R!Cardinality(S) = Cardinality(S)
  BY DEF R!Cardinality, Cardinality

(* As long as members exist, the seats counted are those of the Roster.    *)
LEMMA SeatsTaken ==
  ASSUME TypeOK, MembersExist
  PROVE  R!Seated = Seats
  <1>1. ASSUME NEW v \in Users
        PROVE  Standing[v] \in {"invited", "member"} <=>
                 Exists(v) /\ member[v] \in {"invited", "active"}
    <2>1. member[v] \in {"none", "invited", "active", "disabled", "deleted"}
      BY DEF TypeOK
    <2>2. Live(v) => Exists(v)  BY DEF MembersExist
    <2>3. Standing[v] = StandingOf(member[v])  BY DEF Standing
    <2> QED  BY <2>1, <2>2, <2>3, StandingFacts DEF Live
  <1> QED  BY <1>1 DEF R!Seated, Seats

(* A step of requests that neither overlap nor stop is one of the Roster.  *)
LEMMA RosterStep ==
  ASSUME TypeOK, SoloInv, CalmInv, [Next]_vars, Calm'
  PROVE  [R!RosterNext]_(R!roster)
  <1>1. ASSUME NEW r \in Requests, Call(r) \/ Abort(r)  PROVE UNCHANGED R!roster
    <2>1. UNCHANGED documents
      BY <1>1 DEF Call, FindUser, LoginRead, SwitchRead, RestoreRead, InviteRead,
                  SuspendRead, AcceptRead, CancelRead, Abort
    <2> QED  BY <2>1, SameRoster DEF documents, memberVars
  <1>2. ASSUME NEW u \in Users, EndSession(u)  PROVE UNCHANGED R!roster
    BY <1>2, SameRoster DEF EndSession, memberVars
  <1>3. CASE UNCHANGED vars
    BY <1>3, SameRoster DEF vars, documents, memberVars
  <1>4. ASSUME NEW r \in Requests, Continue(r)  PROVE [R!RosterNext]_(R!roster)
    <2> DEFINE u == op[r].user
    <2>1. ASSUME NEW from \in Awaits, GoesOn(r, from)
          PROVE  /\ pc[r] = from /\ u \in Users
                 /\ Knows(r) /\ Holds(r) /\ MembersExist
      <3>1. Calm
        BY <2>1 DEF Calm, GoesOn, Advance, AdvanceKnowing, Leave, history
      <3> QED  BY <2>1, <3>1, CalmMine, SameQuestion DEF CalmOf
    <2> HIDE DEF u
    <2>2. CASE \/ LoginChoose(r) \/ ReplaceSession(r) \/ OpenSession(r) \/ SwitchPatch(r)
               \/ InviteFind(r) \/ InviteCreate(r) \/ InviteAssign(r) \/ InviteIssue(r)
               \/ AcceptIdentify(r) \/ AcceptCheck(r) \/ AcceptRegister(r)
               \/ AcceptSettle(r) \/ AcceptAnswer(r)
               \/ CancelAnnul(r) \/ CancelSave(r) \/ CancelWithdraw(r)
               \/ CancelCount(r) \/ CancelRetire(r) \/ CancelUnassign(r)
               \/ SuspendRevoke(r) \/ SuspendMove(r) \/ RestoreReread(r)
      <3>1. UNCHANGED <<member, role>>
        BY <2>2 DEF LoginChoose, ReplaceSession, OpenSession, SwitchPatch, InviteFind,
             InviteCreate, InviteAssign, InviteIssue, AcceptIdentify, AcceptCheck,
             AcceptRegister, AcceptSettle, AcceptAnswer, CancelAnnul, CancelSave,
             CancelWithdraw, CancelCount, CancelRetire, CancelUnassign, SuspendRevoke,
             SuspendMove, RestoreReread, documents, memberVars
      <3> QED  BY <3>1, SameRoster
    <2>3. CASE Revive(r)
      <3>1. GoesOn(r, "revive") /\ "revive" \in Awaits
        BY <2>3 DEF Revive, GoesOn, Awaits
      <3> QED  BY <2>1, <3>1 DEF Holds
    <2>4. CASE InviteEnrol(r)
      <3>1. GoesOn(r, "enrol") /\ "enrol" \in Awaits
        BY <2>4 DEF InviteEnrol, GoesOn, Awaits
      <3>2. u \in Users /\ ~Live(u) /\ SeatFree /\ MembersExist
        BY <2>1, <3>1 DEF Knows, u
      <3>3. member' = [member EXCEPT ![u] = "invited"] /\ role' = [role EXCEPT ![u] = op[r].role]
        BY <2>4 DEF InviteEnrol, Enrol, u
      <3>4. StandingOf(member[u]) = "outside"
        <4>1. member[u] \in {"none", "deleted"}  BY <3>2 DEF TypeOK, Live
        <4> QED  BY <4>1, StandingFacts
      <3>5. R!Moves(u, "outside", "invited")
        BY <3>2, <3>3, <3>4, Moving, StandingFacts
      <3>6. R!Cardinality(R!Seated) < MaxSeats
        BY <3>2, SeatsTaken, SameCount DEF SeatFree
      <3>7. Admins' = IF op[r].role = "admin" THEN Admins \cup {u} ELSE Admins
        BY <3>2, <3>3 DEF Admins, Live, TypeOK
      <3>8. R!Invites(u, op[r].role = "admin")
        BY <3>5, <3>6, <3>7 DEF R!Invites
      <3>9. (op[r].role = "admin") \in BOOLEAN  OBVIOUS
      <3> QED  BY <3>2, <3>8, <3>9 DEF R!RosterNext
    <2>5. CASE AcceptActivate(r)
      <3>1. GoesOn(r, "activate") /\ "activate" \in Awaits
        BY <2>5 DEF AcceptActivate, GoesOn, Awaits
      <3>2. u \in Users /\ member[u] = "invited"  BY <2>1, <3>1 DEF Knows, u
      <3>3. member' = [member EXCEPT ![u] = "active"] /\ UNCHANGED role
        BY <2>5, <3>2 DEF AcceptActivate, SaveMember, Live, u
      <3>4. R!Moves(u, "invited", "member")
        BY <3>2, <3>3, Moving, StandingFacts
      <3>5. Admins' = Admins  BY <3>2, <3>3 DEF Admins, Live, TypeOK
      <3> QED  BY <3>2, <3>4, <3>5 DEF R!RosterNext, R!Joins
    <2>6. CASE CancelRemove(r)
      <3>1. GoesOn(r, "remove") /\ "remove" \in Awaits
        BY <2>6 DEF CancelRemove, GoesOn, Awaits
      <3>2. u \in Users /\ member[u] = "invited"  BY <2>1, <3>1 DEF Knows, u
      <3>3. member' = [member EXCEPT ![u] = "deleted"] /\ UNCHANGED role
        BY <2>6, <3>2 DEF CancelRemove, u
      <3>4. R!Moves(u, "invited", "outside")
        BY <3>2, <3>3, Moving, StandingFacts
      <3>5. Admins' = Admins \ {u}  BY <3>2, <3>3 DEF Admins, Live, TypeOK
      <3> QED  BY <3>2, <3>4, <3>5 DEF R!RosterNext, R!Withdraws
    <2>7. CASE SuspendSave(r)
      <3>1. GoesOn(r, "disable") /\ "disable" \in Awaits
        BY <2>7 DEF SuspendSave, GoesOn, Awaits
      <3>2. u \in Users /\ member[u] = "active" /\ OtherAdmins(u)
        BY <2>1, <3>1 DEF Knows, u
      <3>3. member' = [member EXCEPT ![u] = "disabled"] /\ UNCHANGED role
        BY <2>7, <3>2 DEF SuspendSave, SaveMember, Live, u
      <3>4. R!Moves(u, "member", "suspended")
        BY <3>2, <3>3, Moving, StandingFacts
      <3>5. Admins' = Admins  BY <3>2, <3>3 DEF Admins, Live, TypeOK
      <3>6. u \in Admins => \E v \in Admins \ {u} : Standing[v] = "member"
        BY <3>2, StandingFacts DEF OtherAdmins, ActiveAdmins, Admins, Live, Standing
      <3> QED  BY <3>2, <3>4, <3>5, <3>6 DEF R!RosterNext, R!Suspends
    <2>8. CASE RestoreSave(r)
      <3>1. GoesOn(r, "restore") /\ "restore" \in Awaits
        BY <2>8 DEF RestoreSave, GoesOn, Awaits
      <3>2. u \in Users /\ member[u] = "disabled" /\ SeatFree /\ MembersExist
        BY <2>1, <3>1 DEF Knows, u
      <3>3. member' = [member EXCEPT ![u] = "active"] /\ UNCHANGED role
        BY <2>8, <3>2 DEF RestoreSave, SaveMember, Live, u
      <3>4. R!Moves(u, "suspended", "member")
        BY <3>2, <3>3, Moving, StandingFacts
      <3>5. Admins' = Admins  BY <3>2, <3>3 DEF Admins, Live, TypeOK
      <3>6. R!Cardinality(R!Seated) < MaxSeats
        BY <3>2, SeatsTaken, SameCount DEF SeatFree
      <3> QED  BY <3>2, <3>4, <3>5, <3>6 DEF R!RosterNext, R!Restores
    <2> QED  BY <1>4, <2>2, <2>3, <2>4, <2>5, <2>6, <2>7, <2>8 DEF Continue
  <1> QED  BY <1>1, <1>2, <1>3, <1>4 DEF Next

(* A new organization is a new Roster.                                     *)
LEMMA RosterStart ==
  ASSUME Init
  PROVE  R!RosterInit
  <1>1. Founder \in Users  BY MembershipsAssumption
  <1>2. Standing = [u \in Users |-> IF u = Founder THEN "member" ELSE "outside"]
    BY StandingFacts DEF Init, Standing
  <1>3. Admins = {Founder}  BY <1>1 DEF Init, Admins, Live
  <1> QED  BY <1>2, <1>3 DEF R!RosterInit

(* As long as requests neither overlap nor stop, however their steps are   *)
(* split over the account, the membership, the permissions, the            *)
(* invitations and the session, users come and go as the Roster has it:    *)
(* within the seats, by an invitation that still stands, and without the   *)
(* suspension of the last administrator.                                   *)
THEOREM RosterIsImplemented == Spec => FollowsRoster
  <1>1. Init => R!RosterInit  BY RosterStart
  <1>2. TypeOK /\ SoloInv /\ CalmInv /\ [Next]_vars =>
          [Calm' => [R!RosterNext]_(R!roster)]_vars
    BY RosterStep
  <1> QED  BY <1>1, <1>2, CalmAlways, PTL DEF Spec, FollowsRoster

=============================================================================
