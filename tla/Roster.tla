------------------------------- MODULE Roster -------------------------------
(***************************************************************************)
(* What the administration of an organization's users promises, whatever   *)
(* its implementation: a user is outside, invited, a member or suspended;  *)
(* the invited and the members are never more than the seats; a user joins *)
(* by an invitation that still stands; the last active administrator is    *)
(* not suspended.                                                          *)
(***************************************************************************)
EXTENDS FiniteSets, Naturals

CONSTANTS
  Users,    (* the users                                                    *)
  Founder,  (* the user who created the organization                        *)
  MaxSeats  (* the seats of its subscription                                *)

VARIABLES
  standing, (* standing[u] : what user u is to the organization             *)
  admins    (* the users invited, or let in, as administrators             *)

roster == <<standing, admins>>

Seated == {u \in Users : standing[u] \in {"invited", "member"}}

RosterInit ==
  /\ standing = [u \in Users |-> IF u = Founder THEN "member" ELSE "outside"]
  /\ admins = {Founder}

Moves(u, from, to) ==
  /\ standing[u] = from
  /\ standing' = [standing EXCEPT ![u] = to]

Invites(u, asAdmin) ==
  /\ Cardinality(Seated) < MaxSeats
  /\ Moves(u, "outside", "invited")
  /\ admins' = IF asAdmin THEN admins \cup {u} ELSE admins

Joins(u) == Moves(u, "invited", "member") /\ UNCHANGED admins

Withdraws(u) ==
  /\ Moves(u, "invited", "outside")
  /\ admins' = admins \ {u}

Suspends(u) ==
  /\ u \in admins => \E v \in admins \ {u} : standing[v] = "member"
  /\ Moves(u, "member", "suspended")
  /\ UNCHANGED admins

Restores(u) ==
  /\ Cardinality(Seated) < MaxSeats
  /\ Moves(u, "suspended", "member")
  /\ UNCHANGED admins

RosterNext ==
  \E u \in Users :
    \/ \E asAdmin \in BOOLEAN : Invites(u, asAdmin)
    \/ Joins(u) \/ Withdraws(u) \/ Suspends(u) \/ Restores(u)

RosterSpec == RosterInit /\ [][RosterNext]_roster

=============================================================================
