------------------------ MODULE PasskeyDeactivation ------------------------
(***************************************************************************)
(* Passkey logins of members who are deactivated.  SetMemberActive writes  *)
(* identity.member.active, which password logins read (FindByEmail); the   *)
(* steps of FinishLogin are those of Passkeys, and read it nowhere.        *)
(***************************************************************************)
EXTENDS Passkeys

VARIABLES
  active,          \* identity.member.active
  activeAtLookup   \* history: was the member active when a call resolved it

deactivationVars == <<authenticator, stored, request, now, active, activeAtLookup>>

DeactivationInit ==
  /\ Init
  /\ active = [m \in Member |-> TRUE]
  /\ activeAtLookup = [r \in Request |-> TRUE]

\* Another owner remains (see Members), so the guard lets the change pass.
SetMemberActive(m, flag) ==
  /\ active[m] # flag
  /\ active' = [active EXCEPT ![m] = flag]
  /\ UNCHANGED <<vars, activeAtLookup>>

Resolve(r) ==
  /\ \E k \in CredentialID, count \in Count : FindByUserHandle(r, k, count)
  /\ activeAtLookup' = [activeAtLookup EXCEPT ![r] =
                          request'[r].member = NoMember \/ active[request'[r].member]]
  /\ UNCHANGED active

DeactivationNext ==
  \/ \E m \in Member, flag \in BOOLEAN : SetMemberActive(m, flag)
  \/ \E r \in Request : Resolve(r)
  \/ /\ \/ \E m \in Member, h \in Household, k \in CredentialID, count \in Count :
             active[m] /\ FinishRegistration(m, h, k, count)
        \/ \E r \in Request :
             ReadClock(r) \/ UpdateAfterAssertion(r) \/ CheckExists(r)
     /\ UNCHANGED <<active, activeAtLookup>>

DeactivationSpec == DeactivationInit /\ [][DeactivationNext]_deactivationVars

\* A member who is already deactivated when a login begins is not logged in:
\* "Deactivating a member cuts access to BOTH apps at once - session
\* validation, login, ... all read this shared flag".
DeactivatedMembersStayOut ==
  [][\A r \in Request : LoggedIn(r) => activeAtLookup[r]]_deactivationVars

=============================================================================
