-------------------------- MODULE OwnedHouseholds --------------------------
(***************************************************************************)
(* What adapter.MemberRepository promises, with no transactions: members   *)
(* are created, and a role or an activity flag is changed at one stroke,   *)
(* never so that a household is left without the active owners it had.     *)
(* The guard is stated by its outcome; Members gets there by a lock, a     *)
(* snapshot and a WHERE clause, and implements this.                       *)
(***************************************************************************)
CONSTANTS Household, Member, Home, Role

VARIABLE member

Owners(household, rows) ==
  {m \in Member : /\ Home[m] = household
                  /\ rows[m].exists /\ rows[m].role = "owner" /\ rows[m].active}

Init == \A m \in Member : ~ member[m].exists

Create(m, role) ==
  /\ ~ member[m].exists
  /\ member' = [member EXCEPT ![m] = [exists |-> TRUE, role |-> role, active |-> TRUE]]

\* A change of one field of one member, which every household survives.
Change(m) ==
  /\ member[m].exists
  /\ \/ \E role \in Role : member' = [member EXCEPT ![m].role = role]
     \/ \E active \in BOOLEAN : member' = [member EXCEPT ![m].active = active]
  /\ \A h \in Household : Owners(h, member) # {} => Owners(h, member') # {}

Next ==
  \/ \E m \in Member, role \in Role : Create(m, role)
  \/ \E m \in Member : Change(m)

Spec == Init /\ [][Next]_member
=============================================================================
