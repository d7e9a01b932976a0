--------------------------- MODULE PasskeysProofs ---------------------------
(***************************************************************************)
(* The counter a passkey's row holds, who a login answers and that a       *)
(* revoked passkey answers nobody, for any number of members, passkeys,    *)
(* calls and whatever the handle deriver maps together.                    *)
(***************************************************************************)
EXTENDS Passkeys, TLAPS

LEMMA Constants ==
  /\ NoRow \in Row
  /\ Idle \in Call
  /\ Time \subseteq Nat \ {0} /\ Count \subseteq Nat /\ NeverUsed = 0
<1>1. Time \subseteq Nat \ {0} /\ Count \subseteq Nat /\ NeverUsed = 0 /\ 0 \in Count
  BY PasskeysAssumption DEF Time, Count, NeverUsed
<1>2. (CHOOSE m \in Member : TRUE) \in Member
  BY PasskeysAssumption
<1>3. (CHOOSE k \in CredentialID : TRUE) \in CredentialID
  BY PasskeysAssumption
<1>4. NoRow \in Row
  BY <1>1, <1>2 DEF NoRow, Row
<1>5. Idle \in Call
  BY <1>1, <1>3 DEF Idle, Call
<1> QED  BY <1>1, <1>4, <1>5

\* What every call holds, whichever kind it is.
LEMMA CallFields ==
  ASSUME NEW c \in Call
  PROVE  /\ c.key \in CredentialID /\ c.count \in Nat /\ c.usedAt \in Nat
         /\ c.pc \in {"verified", "update", "exists", "ok", "lost"} => c.member \in Member
         /\ c.pc \in {"update", "exists", "ok", "lost"} => c.usedAt \in Time
<1>1. Time \subseteq Nat /\ Count \subseteq Nat /\ NeverUsed \in Nat
  BY Constants
<1>2. c.key \in CredentialID /\ c.count \in Count /\ c.usedAt \in Time \cup {NeverUsed}
  BY DEF Call
<1>3. /\ c.pc \in {"verified", "update", "exists", "ok", "lost"} => c.member \in Member
      /\ c.pc \in {"update", "exists", "ok", "lost"} => c.usedAt \in Time
  BY DEF Call
<1> QED  BY <1>1, <1>2, <1>3

LEMMA RowFields ==
  ASSUME NEW row \in Row
  PROVE  row.signCount \in Nat /\ row.lastUsedAt \in Nat
<1>1. row.signCount \in Count /\ row.lastUsedAt \in Time \cup {NeverUsed}
  BY DEF Row
<1>2. Time \subseteq Nat /\ Count \subseteq Nat /\ NeverUsed \in Nat
  BY Constants
<1> QED  BY <1>1, <1>2

\* A call moves on without changing what it was sent.
LEMMA GoFrame ==
  ASSUME TypeOK, NEW r \in Request, NEW pc, Go(r, pc)
  PROVE  /\ request'[r] = [request[r] EXCEPT !.pc = pc]
         /\ request'[r].pc = pc /\ request'[r].key = request[r].key
         /\ request'[r].count = request[r].count
         /\ request'[r].member = request[r].member
         /\ request'[r].usedAt = request[r].usedAt
         /\ \A q \in Request \ {r} : request'[q] = request[q]
         /\ request' = [request EXCEPT ![r] = [request[r] EXCEPT !.pc = pc]]
<1>1. request[r] \in Call
  BY DEF TypeOK
<1>2. request' = [request EXCEPT ![r] = [request[r] EXCEPT !.pc = pc]]
  BY DEF Go
<1>3. request'[r] = [request[r] EXCEPT !.pc = pc] /\ \A q \in Request \ {r} : request'[q] = request[q]
  BY <1>2 DEF TypeOK
<1>4. /\ [request[r] EXCEPT !.pc = pc].pc = pc
      /\ [request[r] EXCEPT !.pc = pc].key = request[r].key
      /\ [request[r] EXCEPT !.pc = pc].count = request[r].count
      /\ [request[r] EXCEPT !.pc = pc].member = request[r].member
      /\ [request[r] EXCEPT !.pc = pc].usedAt = request[r].usedAt
  BY <1>1 DEF Call
<1> QED  BY <1>2, <1>3, <1>4

\* Which moves keep a call well formed.
LEMMA GoTyped ==
  ASSUME NEW c \in Call, NEW pc,
         \/ pc = "failed"
         \/ c.pc \in {"update", "exists", "ok", "lost"} /\ pc \in {"update", "exists", "ok", "lost"}
  PROVE  [c EXCEPT !.pc = pc] \in Call
BY Constants DEF Call

LEMMA InitIInv == Init => IInv
<1> SUFFICES ASSUME Init PROVE IInv
  OBVIOUS
<1>1. TypeOK
  BY Constants, PasskeysAssumption DEF Init, TypeOK, Time
<1>2. \A k \in CredentialID : ~ stored[k].exists
  BY DEF Init, NoRow
<1>3. \A r \in Request : request[r].pc = "idle"
  BY DEF Init, Idle
<1> QED  BY <1>1, <1>2, <1>3 DEF IInv, RowsAreOwned, CallsAreOwned, OvertakenCallsAreOlder,
                                 NewestAssertionStands

-----------------------------------------------------------------------------
(***************************************************************************)
(* One lemma per action.                                                   *)
(***************************************************************************)
\* No call is under way with a key that has only now been generated: its
\* member would be the one the key was created for, and there was none.
LEMMA FreshKeyIsUnused ==
  ASSUME IInv, NEW k \in CredentialID, authenticator[k] = NoMember,
         NEW r \in Request, request[r].pc \in {"verified", "update", "exists", "ok", "lost"}
  PROVE  request[r].key # k
<1>1. request[r] \in Call
  BY DEF IInv, TypeOK
<1>2. request[r].member \in Member
  BY <1>1, CallFields
<1> QED  BY <1>2, PasskeysAssumption DEF IInv, CallsAreOwned

LEMMA FinishRegistrationStep ==
  ASSUME IInv, NEW m \in Member, NEW h \in Household, NEW k \in CredentialID,
         NEW count \in Count, FinishRegistration(m, h, k, count)
  PROVE  IInv'
<1> USE DEF IInv
<1> DEFINE row == [exists |-> TRUE, member |-> m, signCount |-> count, lastUsedAt |-> NeverUsed]
<1>1. row \in Row
  BY DEF Row
<1>2. /\ authenticator[k] = NoMember /\ authenticator' = [authenticator EXCEPT ![k] = m]
      /\ request' = request /\ now' = now
      /\ stored' = [stored EXCEPT ![k] = row] \/ stored' = stored
  BY DEF FinishRegistration
<1>3. TypeOK'
  BY <1>1, <1>2 DEF TypeOK
<1>4. /\ authenticator'[k] = m
      /\ \A j \in CredentialID \ {k} : stored'[j] = stored[j] /\ authenticator'[j] = authenticator[j]
      /\ stored'[k] = row \/ stored'[k] = stored[k]
  BY <1>2 DEF TypeOK
<1>5. ~ stored[k].exists
  BY <1>2, PasskeysAssumption DEF RowsAreOwned, TypeOK, Row
<1>6. RowsAreOwned'
  BY <1>4, <1>5 DEF RowsAreOwned
<1>7. \A r \in Request : request[r].pc \in {"verified", "update", "exists", "ok", "lost"}
        => request[r].key \in CredentialID \ {k}
  BY <1>2, FreshKeyIsUnused, CallFields DEF TypeOK
<1>8. CallsAreOwned'
  BY <1>2, <1>4, <1>7 DEF CallsAreOwned
<1>9. OvertakenCallsAreOlder'
  BY <1>2, <1>4, <1>7 DEF OvertakenCallsAreOlder
<1>10. NewestAssertionStands'
  <2> SUFFICES ASSUME NEW j \in CredentialID, stored'[j].exists
               PROVE  /\ \A r \in Request : request[r].pc \in Settled /\ request[r].key = j =>
                           ~ Older(stored'[j].lastUsedAt, stored'[j].signCount,
                                   request[r].usedAt, request[r].count)
                      /\ stored'[j].lastUsedAt # NeverUsed =>
                           \E r \in Request : /\ request[r].pc \in Settled /\ request[r].key = j
                                              /\ request[r].usedAt = stored'[j].lastUsedAt
                                              /\ request[r].count = stored'[j].signCount
    BY <1>2 DEF NewestAssertionStands, Older
  <2>1. CASE j # k
    BY <1>4, <2>1 DEF NewestAssertionStands
  <2>2. CASE j = k
    BY <1>4, <1>5, <1>7, <2>2 DEF Settled
  <2> QED  BY <2>1, <2>2
<1> QED  BY <1>3, <1>6, <1>8, <1>9, <1>10

LEMMA RevokeStep ==
  ASSUME IInv, NEW m \in Member, NEW h \in Household, NEW k \in CredentialID, Revoke(h, m, k)
  PROVE  IInv'
<1> USE DEF IInv
<1>1. TypeOK'
  BY DEF TypeOK, Revoke, Row
<1>2. /\ authenticator' = authenticator /\ request' = request
      /\ ~ stored'[k].exists
      /\ \A j \in CredentialID \ {k} : stored'[j] = stored[j]
  BY DEF Revoke, TypeOK, Row
<1>3. RowsAreOwned' /\ CallsAreOwned' /\ OvertakenCallsAreOlder'
  <2>1. \A r \in Request : request[r].key \in CredentialID
    BY CallFields DEF TypeOK
  <2> QED  BY <1>2, <2>1 DEF RowsAreOwned, CallsAreOwned, OvertakenCallsAreOlder
<1>4. NewestAssertionStands'
  BY <1>2 DEF NewestAssertionStands, Older
<1> QED  BY <1>1, <1>3, <1>4

\* The member a handle resolves to owns every row that carries it.
LEMMA ResolvedIsOwner ==
  ASSUME NEW handle, NEW m \in resolvesTo(handle), NEW k \in withHandle(handle)
  PROVE  stored[k].exists /\ stored[k].member = m
BY DEF resolvesTo, owners, withHandle

\* A step that moves one call, to a state in which it has not logged in and
\* was not overtaken, and no row.
LEMMA CallOnly ==
  ASSUME IInv, NEW r \in Request, UNCHANGED <<authenticator, stored, now>>,
         NEW c \in Call, request' = [request EXCEPT ![r] = c],
         request[r].pc \notin Settled, c.pc \notin {"ok", "lost", "exists"},
         c.pc \in {"verified", "update"} => c.member = authenticator[c.key]
  PROVE  IInv'
<1> USE DEF IInv
<1>1. TypeOK'
  BY DEF TypeOK
<1>2. request'[r] = c /\ \A q \in Request \ {r} : request'[q] = request[q]
  BY DEF TypeOK
<1>3. RowsAreOwned' /\ CallsAreOwned' /\ OvertakenCallsAreOlder'
  BY <1>2 DEF RowsAreOwned, CallsAreOwned, OvertakenCallsAreOlder, Older
<1>4. \A q \in Request : (request'[q].pc \in Settled) <=> (request[q].pc \in Settled)
  BY <1>2 DEF Settled
<1>5. \A q \in Request : request[q].pc \in Settled => request'[q] = request[q]
  BY <1>2
<1>6. NewestAssertionStands'
  BY <1>4, <1>5 DEF NewestAssertionStands, Older
<1> QED  BY <1>1, <1>3, <1>6

LEMMA FailedStep ==
  ASSUME IInv, NEW r \in Request, UNCHANGED <<authenticator, stored, now>>,
         Go(r, "failed"), request[r].pc \notin Settled
  PROVE  IInv'
<1>1. request[r] \in Call /\ TypeOK
  BY DEF IInv, TypeOK
<1>2. [request[r] EXCEPT !.pc = "failed"] \in Call
  BY <1>1, GoTyped
<1>3. request' = [request EXCEPT ![r] = [request[r] EXCEPT !.pc = "failed"]]
  BY DEF Go
<1>4. [request[r] EXCEPT !.pc = "failed"].pc = "failed"
  BY <1>1 DEF Call
<1> QED  BY <1>2, <1>3, <1>4, CallOnly

LEMMA FindByUserHandleStep ==
  ASSUME IInv, NEW r \in Request, NEW k \in CredentialID, NEW count \in Count,
         FindByUserHandle(r, k, count)
  PROVE  IInv'
<1> DEFINE handle == userHandle(authenticator[k])
<1>1. request[r].pc = "idle" /\ UNCHANGED <<authenticator, stored, now>>
  BY DEF FindByUserHandle, At
<1>2. CASE Go(r, "failed")
  BY <1>1, <1>2, FailedStep DEF Settled
<1>3. CASE ~ Go(r, "failed")
  <2>1. PICK m \in resolvesTo(handle) :
          /\ k \in withHandle(handle)
          /\ request' = [request EXCEPT ![r] =
               [Idle EXCEPT !.pc = "verified", !.key = k, !.count = count, !.member = m]]
    BY <1>3 DEF FindByUserHandle
  <2>2. m = stored[k].member /\ stored[k].exists
    BY <2>1, ResolvedIsOwner
  <2>3. m = authenticator[k] /\ m \in Member
    BY <2>2 DEF IInv, RowsAreOwned, TypeOK, Row
  <2> DEFINE c == [Idle EXCEPT !.pc = "verified", !.key = k, !.count = count, !.member = m]
  <2>4. /\ c \in Call
        /\ c.pc = "verified" /\ c.member = m /\ c.key = k
    <3>1. Idle \in Call /\ Idle.pc = "idle"
      BY Constants DEF Idle
    <3> QED  BY <2>3, <3>1 DEF Call
  <2>5. request' = [request EXCEPT ![r] = c]
    BY <2>1
  <2> HIDE DEF c
  <2> QED  BY <1>1, <2>3, <2>4, <2>5, CallOnly DEF Settled
<1> QED  BY <1>2, <1>3

LEMMA ReadClockStep ==
  ASSUME IInv, NEW r \in Request, ReadClock(r)
  PROVE  IInv'
<1> DEFINE c == [request[r] EXCEPT !.pc = "update", !.usedAt = now]
<1>1. request[r] \in Call /\ request[r].pc = "verified" /\ now \in Time
  BY DEF IInv, TypeOK, ReadClock, At
<1>2. c \in Call /\ c.pc = "update" /\ c.member = request[r].member /\ c.key = request[r].key
  BY <1>1, Constants DEF Call
<1>3. request' = [request EXCEPT ![r] = c] /\ UNCHANGED <<authenticator, stored, now>>
  BY DEF ReadClock
<1>4. c.member = authenticator[c.key]
  BY <1>1, <1>2 DEF IInv, CallsAreOwned
<1> HIDE DEF c
<1> QED  BY <1>1, <1>2, <1>3, <1>4, CallOnly DEF Settled

\* What the UPDATE's guard decides: the row is not older than what replaces
\* it, and what it turns away is not newer than the row.
LEMMA FresherDecides ==
  ASSUME NEW row \in Row, NEW t \in Time, NEW n \in Nat
  PROVE  /\ fresher(row, t, n) => ~ Older(t, n, row.lastUsedAt, row.signCount)
         /\ ~ fresher(row, t, n) => ~ Older(row.lastUsedAt, row.signCount, t, n)
<1>1. row.signCount \in Nat /\ row.lastUsedAt \in Nat /\ t \in Nat \ {0}
  BY RowFields, Constants
<1> QED  BY <1>1, Constants DEF fresher, Older

LEMMA UpdateAfterAssertionStep ==
  ASSUME IInv, NEW r \in Request, UpdateAfterAssertion(r)
  PROVE  IInv'
<1> USE DEF IInv
<1> DEFINE c == request[r]
           k == c.key
<1>1. /\ TypeOK /\ c \in Call /\ c.pc = "update"
      /\ k \in CredentialID /\ c.count \in Nat /\ c.usedAt \in Time /\ stored[k] \in Row
      /\ authenticator' = authenticator /\ now' = now
  BY CallFields DEF TypeOK, UpdateAfterAssertion, At
<1>2. \A q \in Request : /\ request[q].key \in CredentialID
                         /\ request[q].count \in Nat /\ request[q].usedAt \in Nat
  BY CallFields DEF TypeOK
<1>3. CASE stored[k].exists /\ fresher(stored[k], c.usedAt, c.count)
  <2>1. PICK answer \in Settled :
          /\ Go(r, answer)
          /\ stored' = [stored EXCEPT ![k] = [stored[k] EXCEPT !.signCount = c.count, !.lastUsedAt = c.usedAt]]
    BY <1>3 DEF UpdateAfterAssertion, Settled
  <2>2. /\ request'[r].pc = answer /\ request'[r].key = k /\ request'[r].count = c.count
        /\ request'[r].member = c.member /\ request'[r].usedAt = c.usedAt
        /\ \A q \in Request \ {r} : request'[q] = request[q]
    BY <1>1, <2>1, GoFrame
  <2>3. c.count \in Count
    BY <1>1 DEF Call
  <2>4. /\ stored'[k].exists /\ stored'[k].member = stored[k].member
        /\ stored'[k].signCount = c.count /\ stored'[k].lastUsedAt = c.usedAt
        /\ \A j \in CredentialID \ {k} : stored'[j] = stored[j]
    BY <1>1, <1>3, <2>1 DEF TypeOK, Row
  <2>5. TypeOK'
    <3>1. request' \in [Request -> Call]
      <4>1. [c EXCEPT !.pc = answer] \in Call
        BY <1>1, GoTyped DEF Settled
      <4> QED  BY <4>1, <2>1 DEF TypeOK, Go
    <3>2. stored' \in [CredentialID -> Row]
      BY <1>1, <2>1, <2>3 DEF TypeOK, Row
    <3> QED  BY <1>1, <3>1, <3>2 DEF TypeOK
  <2>6. RowsAreOwned' /\ CallsAreOwned'
    BY <1>1, <1>3, <2>2, <2>4 DEF RowsAreOwned, CallsAreOwned
  \* Whatever the row was not older than, the newer one it holds is not either.
  <2>7. ASSUME NEW q \in Request, request[q].key = k, request[q].pc \in {"exists", "ok", "lost"}
        PROVE  ~ Older(c.usedAt, c.count, request[q].usedAt, request[q].count)
    <3>1. ~ Older(stored[k].lastUsedAt, stored[k].signCount, request[q].usedAt, request[q].count)
      BY <1>1, <1>3, <2>7 DEF OvertakenCallsAreOlder, NewestAssertionStands, Settled
    <3>2. ~ Older(c.usedAt, c.count, stored[k].lastUsedAt, stored[k].signCount)
      BY <1>1, <1>3, FresherDecides
    <3>3. stored[k].lastUsedAt \in Nat /\ stored[k].signCount \in Nat
      BY <1>1, RowFields
    <3>4. c.usedAt \in Nat /\ c.count \in Nat /\ request[q].usedAt \in Nat /\ request[q].count \in Nat
      BY <1>2
    <3> QED  BY <3>1, <3>2, <3>3, <3>4 DEF Older
  <2>8. OvertakenCallsAreOlder'
    BY <1>2, <2>2, <2>4, <2>7 DEF OvertakenCallsAreOlder, Older
  <2>9. NewestAssertionStands'
    <3> SUFFICES ASSUME NEW j \in CredentialID, stored'[j].exists
                 PROVE  /\ \A q \in Request : request'[q].pc \in Settled /\ request'[q].key = j =>
                             ~ Older(stored'[j].lastUsedAt, stored'[j].signCount,
                                     request'[q].usedAt, request'[q].count)
                        /\ stored'[j].lastUsedAt # NeverUsed =>
                             \E q \in Request : /\ request'[q].pc \in Settled /\ request'[q].key = j
                                                /\ request'[q].usedAt = stored'[j].lastUsedAt
                                                /\ request'[q].count = stored'[j].signCount
      BY DEF NewestAssertionStands, Older
    <3>1. CASE j = k
      <4>1. ~ Older(c.usedAt, c.count, c.usedAt, c.count)
        BY <1>1, <1>2 DEF Older
      <4> QED  BY <2>2, <2>4, <2>7, <3>1, <4>1 DEF Settled
    <3>2. CASE j # k
      BY <1>1, <2>2, <2>4, <3>2 DEF NewestAssertionStands
    <3> QED  BY <3>1, <3>2
  <2> QED  BY <2>5, <2>6, <2>8, <2>9
<1>4. CASE ~ (stored[k].exists /\ fresher(stored[k], c.usedAt, c.count))
  <2>1. Go(r, "exists") /\ stored' = stored
    BY <1>4 DEF UpdateAfterAssertion
  <2>2. /\ request'[r].pc = "exists" /\ request'[r].key = k /\ request'[r].count = c.count
        /\ request'[r].member = c.member /\ request'[r].usedAt = c.usedAt
        /\ \A q \in Request \ {r} : request'[q] = request[q]
    BY <1>1, <2>1, GoFrame
  <2>3. TypeOK'
    <3>1. [c EXCEPT !.pc = "exists"] \in Call
      BY <1>1, GoTyped
    <3> QED  BY <1>1, <2>1, <3>1 DEF TypeOK, Go
  <2>4. RowsAreOwned' /\ CallsAreOwned'
    BY <1>1, <2>1, <2>2 DEF RowsAreOwned, CallsAreOwned
  <2>5. OvertakenCallsAreOlder'
    <3>1. stored[k].exists => ~ Older(stored[k].lastUsedAt, stored[k].signCount, c.usedAt, c.count)
      BY <1>1, <1>4, FresherDecides
    <3> QED  BY <2>1, <2>2, <3>1 DEF OvertakenCallsAreOlder, Older
  <2>6. NewestAssertionStands'
    BY <1>1, <2>1, <2>2 DEF NewestAssertionStands, Older, Settled
  <2> QED  BY <2>3, <2>4, <2>5, <2>6
<1> QED  BY <1>3, <1>4

LEMMA CheckExistsStep ==
  ASSUME IInv, NEW r \in Request, CheckExists(r)
  PROVE  IInv'
<1> USE DEF IInv
<1>1. TypeOK /\ request[r] \in Call /\ request[r].pc = "exists" /\ UNCHANGED <<authenticator, stored, now>>
  BY DEF TypeOK, CheckExists, At
<1>2. CASE ~ stored[request[r].key].exists
  <2>1. Go(r, "failed")
    BY <1>2 DEF CheckExists, stillRegistered
  <2> QED  BY <1>1, <2>1, FailedStep DEF Settled
<1>3. CASE stored[request[r].key].exists
  <2>1. Go(r, "ok")
    BY <1>3 DEF CheckExists, stillRegistered
  <2>2. /\ request'[r].pc = "ok" /\ request'[r].key = request[r].key
        /\ request'[r].count = request[r].count
        /\ request'[r].member = request[r].member /\ request'[r].usedAt = request[r].usedAt
        /\ \A q \in Request \ {r} : request'[q] = request[q]
    BY <1>1, <2>1, GoFrame
  <2>3. TypeOK'
    <3>1. [request[r] EXCEPT !.pc = "ok"] \in Call
      BY <1>1, GoTyped
    <3> QED  BY <1>1, <2>1, <3>1 DEF TypeOK, Go
  <2>4. RowsAreOwned' /\ CallsAreOwned' /\ OvertakenCallsAreOlder'
    BY <1>1, <2>2 DEF RowsAreOwned, CallsAreOwned, OvertakenCallsAreOlder, Older
  <2>5. NewestAssertionStands'
    <3>1. \A q \in Request : request[q].pc \in {"exists", "ok", "lost"} /\ request[q].key \in CredentialID
             /\ stored[request[q].key].exists =>
             ~ Older(stored[request[q].key].lastUsedAt, stored[request[q].key].signCount,
                     request[q].usedAt, request[q].count)
      BY DEF OvertakenCallsAreOlder, NewestAssertionStands, Settled
    <3> QED  BY <1>1, <2>2, <3>1 DEF NewestAssertionStands, Older, Settled
  <2> QED  BY <2>3, <2>4, <2>5
<1> QED  BY <1>2, <1>3

LEMMA FailStep ==
  ASSUME IInv, NEW r \in Request, Fail(r)
  PROVE  IInv'
BY FailedStep DEF Fail, Settled

LEMMA TickStep ==
  ASSUME IInv, Tick
  PROVE  IInv'
<1> USE DEF IInv
<1>1. TypeOK'
  BY PasskeysAssumption DEF TypeOK, Tick, Time
<1>2. RowsAreOwned' /\ CallsAreOwned' /\ OvertakenCallsAreOlder' /\ NewestAssertionStands'
  BY DEF Tick, RowsAreOwned, CallsAreOwned, OvertakenCallsAreOlder, NewestAssertionStands, Older
<1> QED  BY <1>1, <1>2

-----------------------------------------------------------------------------
(***************************************************************************)
(* The theorems                                                            *)
(***************************************************************************)
\* Every reachable state satisfies the inductive invariant.
THEOREM Invariant == Spec => []IInv
<1>1. ASSUME IInv, [Next]_vars PROVE IInv'
  <2>1. CASE UNCHANGED vars
    BY <1>1, <2>1 DEF IInv, TypeOK, RowsAreOwned, CallsAreOwned, OvertakenCallsAreOlder,
                      NewestAssertionStands, Older, vars
  <2>2. CASE \E m \in Member, h \in Household, k \in CredentialID, count \in Count :
               FinishRegistration(m, h, k, count)
    BY <1>1, <2>2, FinishRegistrationStep
  <2>3. CASE \E m \in Member, h \in Household, k \in CredentialID : Revoke(h, m, k)
    BY <1>1, <2>3, RevokeStep
  <2>4. ASSUME NEW r \in Request, FinishLogin(r) PROVE IInv'
    BY <1>1, <2>4, FindByUserHandleStep, ReadClockStep, UpdateAfterAssertionStep, CheckExistsStep,
       FailStep DEF FinishLogin
  <2>5. CASE Tick
    BY <1>1, <2>5, TickStep
  <2> QED  BY <1>1, <2>1, <2>2, <2>3, <2>4, <2>5 DEF Next
<1> QED  BY InitIInv, <1>1, PTL DEF Spec

\* A passkey's row holds the counter and the time of the newest assertion that
\* UpdateAfterAssertion settled, whatever order the concurrent UPDATEs come in
\* and whichever of their answers are lost.
THEOREM NewestAssertionStandsHolds == Spec => []NewestAssertionStands
<1>1. IInv => NewestAssertionStands
  BY DEF IInv
<1> QED  BY <1>1, Invariant, PTL

\* Only these two steps answer a login with its member's id.
LEMMA LoginSteps ==
  ASSUME IInv, [Next]_vars, NEW r \in Request, LoggedIn(r)
  PROVE  /\ request[r].pc \in {"update", "exists"}
         /\ stored[request[r].key].exists
<1> USE DEF LoggedIn
<1>1. TypeOK /\ \A q \in Request : request[q] \in Call
  BY DEF IInv, TypeOK
<1>2. request' # request
  OBVIOUS
<1>3. PICK q \in Request : FinishLogin(q)
  BY <1>2 DEF Next, vars, FinishRegistration, Revoke, Tick
<1>4. ASSUME NEW pc, pc # "ok", Go(q, pc) PROVE FALSE
  <2>1. request'[q].pc = pc /\ \A p \in Request \ {q} : request'[p] = request[p]
    BY <1>1, <1>4, GoFrame
  <2> QED  BY <1>4, <2>1
<1>5. ASSUME NEW pc, Go(q, pc) PROVE q = r
  <2>1. \A p \in Request \ {q} : request'[p] = request[p]
    BY <1>1, <1>5, GoFrame
  <2> QED  BY <2>1
<1>6. CASE UpdateAfterAssertion(q)
  BY <1>4, <1>5, <1>6 DEF UpdateAfterAssertion, At
<1>7. CASE CheckExists(q)
  BY <1>4, <1>5, <1>7 DEF CheckExists, At, stillRegistered
<1>8. CASE Fail(q)
  BY <1>4, <1>8 DEF Fail
<1>9. ASSUME NEW c \in Call, c.pc # "ok", request' = [request EXCEPT ![q] = c] PROVE FALSE
  BY <1>1, <1>9 DEF TypeOK
<1>10. CASE ReadClock(q)
  <2>1. [request[q] EXCEPT !.pc = "update", !.usedAt = now] \in Call
    BY <1>1, <1>10, Constants DEF Call, ReadClock, At, TypeOK
  <2>2. [request[q] EXCEPT !.pc = "update", !.usedAt = now].pc = "update"
    BY <1>1 DEF Call
  <2> QED  BY <1>9, <1>10, <2>1, <2>2 DEF ReadClock
<1>11. CASE \E k \in CredentialID, count \in Count : FindByUserHandle(q, k, count)
  <2>1. PICK k \in CredentialID, count \in Count : FindByUserHandle(q, k, count)
    BY <1>11
  <2>2. PICK m : request' = [request EXCEPT ![q] =
                   [Idle EXCEPT !.pc = "verified", !.key = k, !.count = count, !.member = m]]
    BY <1>4, <2>1 DEF FindByUserHandle
  <2>3. [Idle EXCEPT !.pc = "verified", !.key = k, !.count = count, !.member = m].pc = "verified"
    BY DEF Idle
  <2> QED  BY <1>1, <2>2, <2>3 DEF TypeOK
<1> QED  BY <1>3, <1>6, <1>7, <1>8, <1>10, <1>11 DEF FinishLogin

\* A login never succeeds with a passkey whose revocation has committed, even
\* one that committed between FinishLogin's lookup and its UPDATE.
THEOREM RevokedKeysFailHolds == Spec => RevokedKeysFail
<1>1. ASSUME IInv, [Next]_vars
      PROVE  [\A r \in Request : LoggedIn(r) => stored[request[r].key].exists]_vars
  BY <1>1, LoginSteps
<1> QED  BY <1>1, Invariant, PTL DEF Spec, RevokedKeysFail

\* FinishLogin answers the member who registered the asserted passkey, however
\* many members WebAuthnUserHandleDeriver.Derive gives the same handle.
THEOREM LoginAnswersOwnerHolds == Spec => LoginAnswersOwner
<1>1. ASSUME IInv, [Next]_vars
      PROVE  [\A r \in Request : LoggedIn(r) => request[r].member = authenticator[request[r].key]]_vars
  BY <1>1, LoginSteps DEF IInv, CallsAreOwned
<1> QED  BY <1>1, Invariant, PTL DEF Spec, LoginAnswersOwner

=============================================================================
