------------------------------ MODULE Passkeys ------------------------------
(***************************************************************************)
(* Passkeys: app.WebAuthnService and its PostgreSQL repository             *)
(* (identity/app/webauthn.go, identity/adapter/webauthn_postgres.go).      *)
(*                                                                         *)
(* FinishLogin reads the credentials behind the asserted user handle,      *)
(* verifies the assertion, reads the clock, and records the authenticator's*)
(* counter with a conditional UPDATE; other logins and revocations happen  *)
(* in between, and a write may take effect though its answer is lost.  A   *)
(* credential's nickname, transports and model are left out, and so are    *)
(* Rename, which changes nothing else, and the log's warning about a       *)
(* counter that went down.                                                 *)
(***************************************************************************)
EXTENDS Naturals, FiniteSets

CONSTANTS
  Request,        \* the FinishLogin calls, each made once
  Household,
  Member,
  Home,           \* the household of each member
  CredentialID,   \* the ids authenticators generate, each generated once
  Handle,
  Derive,         \* WebAuthnUserHandleDeriver.Derive; members may collide
  MaxCount,       \* bound on signature counters
  MaxTime,        \* bound on the clock
  NoMember

ASSUME PasskeysAssumption ==
  /\ Home \in [Member -> Household]
  /\ Derive \in [Member -> Handle]
  /\ Member # {} /\ CredentialID # {}
  /\ NoMember \notin Member
  /\ MaxCount \in Nat
  /\ MaxTime \in Nat \ {0}

VARIABLES
  authenticator,  \* the member each generated credential was created for
  stored,         \* identity.member_credential, by credential_id
  request,        \* the FinishLogin calls
  now             \* time.Now(), as coarse as the column that stores it

vars == <<authenticator, stored, request, now>>

-----------------------------------------------------------------------------
Count == 0 .. MaxCount
Time  == 1 .. MaxTime

\* last_used_at IS NULL
NeverUsed == 0

Row == [exists : BOOLEAN, member : Member, signCount : Count, lastUsedAt : Time \cup {NeverUsed}]

NoRow == [exists |-> FALSE, member |-> CHOOSE m \in Member : TRUE,
          signCount |-> 0, lastUsedAt |-> NeverUsed]

\* A FinishLogin call: the assertion it was sent, the member it resolved and
\* the time it read, each once it has them.  "failed" and "lost" are both
\* failures to the caller, but the UPDATE of a "lost" one took effect.
Call ==
  LET Calls(pcs, members, times) ==
        [pc : pcs, key : CredentialID, count : Count, member : members, usedAt : times]
  IN Calls({"idle"}, {NoMember}, {NeverUsed})
     \cup Calls({"verified"}, Member, {NeverUsed})
     \cup Calls({"update", "exists", "ok", "lost"}, Member, Time)
     \cup Calls({"failed"}, Member \cup {NoMember}, Time \cup {NeverUsed})

Idle == [pc |-> "idle", key |-> CHOOSE k \in CredentialID : TRUE, count |-> 0,
         member |-> NoMember, usedAt |-> NeverUsed]

Init ==
  /\ authenticator = [k \in CredentialID |-> NoMember]
  /\ stored = [k \in CredentialID |-> NoRow]
  /\ request = [r \in Request |-> Idle]
  /\ now = 1

At(r, pc) == request[r].pc = pc

Go(r, pc) == request' = [request EXCEPT ![r].pc = pc]

-----------------------------------------------------------------------------
(***************************************************************************)
(* Registration and revocation                                             *)
(***************************************************************************)
\* BeginRegistration changes nothing here: its challenge is kept, and used
\* once, by the caller.  FinishRegistration stores the credential that an
\* authenticator generated for it, unless the member is not of that household
\* (member_credential_member_fk) or the INSERT fails.  An id that is already
\* registered is refused by the unique constraint, which changes nothing.
FinishRegistration(member, household, k, count) ==
  /\ authenticator[k] = NoMember
  /\ authenticator' = [authenticator EXCEPT ![k] = member]
  /\ \/ /\ Home[member] = household
        /\ stored' = [stored EXCEPT ![k] = [exists |-> TRUE, member |-> member,
                                            signCount |-> count, lastUsedAt |-> NeverUsed]]
     \/ UNCHANGED stored
  /\ UNCHANGED <<request, now>>

\* The DELETE's WHERE clause.
deletes(household, member, k) ==
  /\ stored[k].exists
  /\ stored[k].member = member
  /\ Home[stored[k].member] = household

\* Revoke; when no row matches it answers ErrWebAuthnCredentialNotFound.
Revoke(household, member, k) ==
  /\ deletes(household, member, k)
  /\ stored' = [stored EXCEPT ![k].exists = FALSE]
  /\ UNCHANGED <<authenticator, request, now>>

-----------------------------------------------------------------------------
(***************************************************************************)
(* FinishLogin                                                             *)
(***************************************************************************)
\* The handle of a member, on each of their rows and on their authenticators:
\* a function of the member id that nobody promises to be one-to-one.
userHandle(member) == Derive[member]

\* The rows that carry a handle.
withHandle(handle) ==
  {k \in CredentialID : stored[k].exists /\ userHandle(stored[k].member) = handle}

owners(handle) == {stored[k].member : k \in withHandle(handle)}

\* Mutation: one of the members the handle resolves to is taken for the owner.
resolvesToAny(handle) == owners(handle)

\* FindByUserHandle: the member, if the handle resolves to exactly one.
resolvesTo(handle) == {m \in owners(handle) : owners(handle) = {m}}

\* An authenticator asserts credential k, whether or not it is still
\* registered, with the handle it was created for and any count: synced
\* passkeys report 0, and a clone may report a count it has passed.
FindByUserHandle(r, k, count) ==
  /\ At(r, "idle")
  /\ authenticator[k] # NoMember
  /\ LET handle == userHandle(authenticator[k])
     IN \/ \E m \in resolvesTo(handle) :
             /\ k \in withHandle(handle)  \* ValidatePasskeyLogin
             /\ request' = [request EXCEPT ![r] =
                  [Idle EXCEPT !.pc = "verified", !.key = k, !.count = count, !.member = m]]
        \/ /\ resolvesTo(handle) = {} \/ k \notin withHandle(handle)
           /\ Go(r, "failed")
  /\ UNCHANGED <<authenticator, stored, now>>

\* applyAssertionResult reads the clock for the UPDATE it is about to send.
ReadClock(r) ==
  /\ At(r, "verified")
  /\ request' = [request EXCEPT ![r] = [@ EXCEPT !.pc = "update", !.usedAt = now]]
  /\ UNCHANGED <<authenticator, stored, now>>

\* Mutation: on a tie, whoever writes last wins.
fresherOrTied(row, usedAt, count) ==
  row.lastUsedAt = NeverUsed \/ row.lastUsedAt <= usedAt

\* Mutation: on a tie, whoever writes first wins.
fresherByTime(row, usedAt, count) ==
  row.lastUsedAt = NeverUsed \/ row.lastUsedAt < usedAt

\* The UPDATE's guard against an assertion that another has overtaken.
fresher(row, usedAt, count) ==
  \/ row.lastUsedAt = NeverUsed
  \/ row.lastUsedAt < usedAt
  \/ row.lastUsedAt = usedAt /\ row.signCount <= count

\* Once the UPDATE has taken effect the login succeeds, or its answer is lost
\* and the login fails with the row already changed.
UpdateAfterAssertion(r) ==
  LET c == request[r]
  IN /\ At(r, "update")
     /\ \/ /\ stored[c.key].exists /\ fresher(stored[c.key], c.usedAt, c.count)
           /\ stored' = [stored EXCEPT ![c.key] =
                [@ EXCEPT !.signCount = c.count, !.lastUsedAt = c.usedAt]]
           /\ \E answer \in {"ok", "lost"} : Go(r, answer)
        \/ /\ ~ (stored[c.key].exists /\ fresher(stored[c.key], c.usedAt, c.count))
           /\ Go(r, "exists")
           /\ UNCHANGED stored
     /\ UNCHANGED <<authenticator, now>>

\* Mutation: an UPDATE of no row is taken for one that was overtaken.
stillRegisteredAssumed(k) == TRUE

stillRegistered(k) == stored[k].exists

\* An UPDATE that wrote nothing was overtaken by a newer assertion, which is
\* no failure, or its credential has been revoked, which is.
CheckExists(r) ==
  /\ At(r, "exists")
  /\ Go(r, IF stillRegistered(request[r].key) THEN "ok" ELSE "failed")
  /\ UNCHANGED <<authenticator, stored, now>>

\* A query fails, or is answered too late, and has changed nothing.
Fail(r) ==
  /\ request[r].pc \in {"idle", "update", "exists"}
  /\ Go(r, "failed")
  /\ UNCHANGED <<authenticator, stored, now>>

Tick ==
  /\ now < MaxTime
  /\ now' = now + 1
  /\ UNCHANGED <<authenticator, stored, request>>

FinishLogin(r) ==
  \/ \E k \in CredentialID, count \in Count : FindByUserHandle(r, k, count)
  \/ ReadClock(r)
  \/ UpdateAfterAssertion(r)
  \/ CheckExists(r)
  \/ Fail(r)

Next ==
  \/ \E m \in Member, h \in Household, k \in CredentialID :
       \/ \E count \in Count : FinishRegistration(m, h, k, count)
       \/ Revoke(h, m, k)
  \/ \E r \in Request : FinishLogin(r)
  \/ Tick

Spec == Init /\ [][Next]_vars

-----------------------------------------------------------------------------
(***************************************************************************)
(* Properties                                                              *)
(***************************************************************************)
\* Every variable has its type.
TypeOK ==
  /\ authenticator \in [CredentialID -> Member \cup {NoMember}]
  /\ stored \in [CredentialID -> Row]
  /\ request \in [Request -> Call]
  /\ now \in Time

\* One assertion is older than another: an earlier time, or the same time and
\* a lower count.
Older(t1, c1, t2, c2) == t1 < t2 \/ (t1 = t2 /\ c1 < c2)

\* The calls whose UPDATE took effect or gave way to a newer one, whatever
\* their callers were told.
Settled == {"ok", "lost"}

\* A credential's counter and time are those of the newest assertion whose
\* bookkeeping was carried out, in whatever order concurrent logins reach the
\* table and whichever of them lose their answer; none is lost and none is
\* overwritten by an older one, the state that clone detection compares with.
NewestAssertionStands ==
  \A k \in CredentialID : stored[k].exists =>
    /\ \A r \in Request : request[r].pc \in Settled /\ request[r].key = k =>
         ~ Older(stored[k].lastUsedAt, stored[k].signCount,
                 request[r].usedAt, request[r].count)
    /\ stored[k].lastUsedAt # NeverUsed =>
         \E r \in Request : /\ request[r].pc \in Settled /\ request[r].key = k
                            /\ request[r].usedAt = stored[k].lastUsedAt
                            /\ request[r].count = stored[k].signCount

\* A row belongs to the member its authenticator was created for.
RowsAreOwned ==
  \A k \in CredentialID : stored[k].exists => stored[k].member = authenticator[k]

\* So does every call that got past the lookup.
CallsAreOwned ==
  \A r \in Request :
    request[r].pc \in {"verified", "update", "exists", "ok", "lost"} =>
      request[r].member = authenticator[request[r].key]

\* A call that found itself overtaken really was.
OvertakenCallsAreOlder ==
  \A r \in Request :
    LET k == request[r].key IN
    request[r].pc = "exists" /\ stored[k].exists =>
      ~ Older(stored[k].lastUsedAt, stored[k].signCount,
              request[r].usedAt, request[r].count)

\* What the three properties rest on: a login's member and key stay those of
\* one authenticator from its lookup to its answer, and a call that UPDATEd
\* nothing may be answered as a success without the row being any the older.
IInv ==
  /\ TypeOK
  /\ RowsAreOwned
  /\ CallsAreOwned
  /\ OvertakenCallsAreOlder
  /\ NewestAssertionStands

\* A call returns its member's id.
LoggedIn(r) == request[r].pc # "ok" /\ request'[r].pc = "ok"

\* A login that succeeds does so with a credential that is registered at that
\* moment: a revocation committed after the lookup still stops the login.
RevokedKeysFail ==
  [][\A r \in Request : LoggedIn(r) => stored[request[r].key].exists]_vars

\* A login answers the member who registered the asserted credential, also
\* where two members' handles collide.
LoginAnswersOwner ==
  [][\A r \in Request :
       LoggedIn(r) => request[r].member = authenticator[request[r].key]]_vars

=============================================================================
