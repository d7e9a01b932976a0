------------------------------ MODULE MFAProofs ------------------------------
(***************************************************************************)
(* What two-factor enrollment promises, for any number of sessions,        *)
(* households, secrets, steps and recovery codes.                          *)
(***************************************************************************)
EXTENDS MFA, FiniteSetTheorems, TLAPS

LEMMA Constants ==
  /\ Idle \in Call /\ Idle.pc = "idle" /\ Idle.household = Home
  /\ Secret \subseteq 0 .. MaxSecrets /\ Step \subseteq Nat \ {0}
  /\ 1 .. RecoveryCodeCount # {}
<1>1. /\ Secret \subseteq 0 .. MaxSecrets /\ Step \subseteq Nat \ {0}
      /\ 1 .. RecoveryCodeCount # {} /\ 0 \in 0 .. MaxSecrets
  BY MFAAssumption DEF Secret, Step
<1>2. Idle \in Call /\ Idle.pc = "idle" /\ Idle.household = Home
  BY <1>1, MFAAssumption DEF Idle, Call
<1> QED  BY <1>1, <1>2

\* What a call must carry at its pc.
Armed(c) ==
  /\ c.pc \in {"lookup", "insert"} => c.secret \in Secret
  /\ c.pc = "record" => c.totp \in TOTPCode /\ c.household = Home

\* Whether a call is in BeginEnrollment, as a number.
Weight(c) == IF c.pc \in {"lookup", "insert"} THEN 1 ELSE 0

\* How a step of one session moves the bookkeeping of all of them.
LEMMA CallFrame ==
  ASSUME IInv, NEW p \in Session, NEW c \in Call, Armed(c), call' = [call EXCEPT ![p] = c]
  PROVE  /\ call' \in [Session -> Call]
         /\ call'[p] = c /\ \A q \in Session \ {p} : call'[q] = call[q]
         /\ CallsAreArmed'
         /\ IsFiniteSet(Enrolling')
         /\ Cardinality(Enrolling) \in Nat
         /\ Cardinality(Enrolling') = Cardinality(Enrolling) - Weight(call[p]) + Weight(c)
<1>1. call \in [Session -> Call] /\ IsFiniteSet(Enrolling) /\ CallsAreArmed
  BY DEF IInv, TypeOK, BatchesAreBacked
<1>2. /\ call' \in [Session -> Call]
      /\ call'[p] = c /\ \A q \in Session \ {p} : call'[q] = call[q]
  BY <1>1
<1>3. CallsAreArmed'
  BY <1>1, <1>2 DEF CallsAreArmed, Armed
<1>4. Cardinality(Enrolling) \in Nat
  BY <1>1, FS_CardinalityType
<1>5. CASE c.pc \in {"lookup", "insert"}
  <2>1. Enrolling' = Enrolling \cup {p}
    BY <1>2, <1>5 DEF Enrolling
  <2>2. p \in Enrolling <=> call[p].pc \in {"lookup", "insert"}
    BY DEF Enrolling
  <2> QED  BY <1>1, <1>2, <1>3, <1>4, <1>5, <2>1, <2>2, FS_AddElement DEF Weight
<1>6. CASE c.pc \notin {"lookup", "insert"}
  <2>1. Enrolling' = Enrolling \ {p}
    BY <1>2, <1>6 DEF Enrolling
  <2>2. p \in Enrolling <=> call[p].pc \in {"lookup", "insert"}
    BY DEF Enrolling
  <2> QED  BY <1>1, <1>2, <1>3, <1>4, <1>6, <2>1, <2>2, FS_RemoveElement DEF Weight
<1> QED  BY <1>5, <1>6

\* A step that moves a call, begins no enrollment and writes nothing.
LEMMA CallOnly ==
  ASSUME IInv, NEW p \in Session, NEW c \in Call, Armed(c), call' = [call EXCEPT ![p] = c],
         c.pc \in {"lookup", "insert"} => call[p].pc \in {"lookup", "insert"},
         UNCHANGED <<row, codes, used, secrets, batches, history>>
  PROVE  IInv'
<1> USE DEF IInv
<1>1. /\ call' \in [Session -> Call] /\ CallsAreArmed' /\ IsFiniteSet(Enrolling')
      /\ Cardinality(Enrolling) \in Nat
      /\ Cardinality(Enrolling') = Cardinality(Enrolling) - Weight(call[p]) + Weight(c)
  BY CallFrame
<1>2. Cardinality(Enrolling') <= Cardinality(Enrolling)
  BY <1>1 DEF Weight
<1>3. TypeOK'
  BY <1>1 DEF TypeOK
<1>4. BatchesAreBacked'
  <2>1. IsFiniteSet(Enrolling)' /\ Cardinality(Enrolling') \in Nat
    BY <1>1, FS_CardinalityType
  <2>2. secrets \in Nat /\ batches \in Nat
    BY DEF TypeOK
  <2> QED  BY <1>1, <1>2, <2>1, <2>2 DEF BatchesAreBacked
<1>5. RowIsOwn' /\ LoginsAreRecorded' /\ OneRedemptionPerCode' /\ ShownCodesAreStored'
  BY DEF RowIsOwn, LoginsAreRecorded, OneRedemptionPerCode, ShownCodesAreStored
<1> QED  BY <1>1, <1>3, <1>4, <1>5

LEMMA IdleArmed == Armed(Idle)
BY Constants DEF Armed

\* An unconfirmed row has no recovery codes, and none were shown or redeemed.
LEMMA Unconfirmed ==
  ASSUME IInv, ~ row.confirmed
  PROVE  codes = {} /\ used = {} /\ history.redeemed = {} /\ history.shown = {}
<1>1. codes = {} /\ used = {} /\ history.redeemed = {}
  BY DEF IInv, ShownCodesAreStored, TypeOK
<1>2. \A batch \in history.shown : {batch} \X (1 .. RecoveryCodeCount) = {}
  BY <1>1 DEF IInv, ShownCodesAreStored
<1>3. PICK i \in 1 .. RecoveryCodeCount : TRUE
  BY Constants
<1>4. \A batch : <<batch, i>> \in {batch} \X (1 .. RecoveryCodeCount)
  OBVIOUS
<1> QED  BY <1>1, <1>2, <1>4

\* What is written to the history, by a login, by a redemption.
LEMMA HistoryTyped ==
  ASSUME NEW h \in History, NEW b \in BOOLEAN
  PROVE  /\ \A L \in SUBSET TOTPCode : [h EXCEPT !.logins = L, !.replayed = b] \in History
         /\ \A R \in SUBSET RecoveryCode : [h EXCEPT !.redeemed = R, !.redeemedTwice = b] \in History
BY DEF History

LEMMA InitIInv == Init => IInv
<1> SUFFICES ASSUME Init PROVE IInv
  OBVIOUS
<1>1. \A p \in Session : call[p] = Idle
  BY DEF Init
<1>2. TypeOK
  BY <1>1, Constants, MFAAssumption DEF Init, TypeOK, NoRow, NoStep, History
<1>3. BatchesAreBacked
  <2>1. Enrolling = {}
    BY <1>1, Constants DEF Enrolling
  <2> QED  BY <2>1, FS_EmptySet DEF Init, NoRow, BatchesAreBacked
<1>4. RowIsOwn /\ CallsAreArmed
  BY <1>1, Constants DEF RowIsOwn, CallsAreArmed, Init, NoRow
<1>5. /\ LoginsAreRecorded /\ history.redeemed \subseteq used /\ OneRedemptionPerCode
      /\ ShownCodesAreStored
  BY DEF Init, LoginsAreRecorded, OneRedemptionPerCode, ShownCodesAreStored
<1> QED  BY <1>2, <1>3, <1>4, <1>5 DEF IInv

-----------------------------------------------------------------------------
(***************************************************************************)
(* The first step of each service call.                                    *)
(***************************************************************************)
LEMMA BeginEnrollmentStep ==
  ASSUME IInv, NEW p \in Session, NEW h \in Household, BeginEnrollment(p, h)
  PROVE  IInv'
<1> USE DEF IInv
<1> DEFINE c == [Idle EXCEPT !.pc = "lookup", !.household = h, !.secret = secrets + 1, !.attempt = 1]
<1>1. /\ call[p].pc = "idle" /\ secrets \in Nat /\ secrets + 1 \in Secret /\ batches \in Nat
      /\ secrets' = secrets + 1 /\ call' = [call EXCEPT ![p] = c]
      /\ UNCHANGED <<row, codes, used, batches, history>>
  BY MFAAssumption DEF BeginEnrollment, At, TypeOK, Secret
<1>2. c \in Call /\ c.pc = "lookup" /\ c.secret = secrets + 1
  <2>1. secrets + 1 \in 0 .. MaxSecrets /\ 1 \in 0 .. 2
    BY <1>1, Constants
  <2> QED  BY <2>1, Constants DEF Call
<1> HIDE DEF c
<1>3. Armed(c)
  BY <1>1, <1>2 DEF Armed
<1>4. /\ call' \in [Session -> Call] /\ CallsAreArmed' /\ IsFiniteSet(Enrolling')
      /\ Cardinality(Enrolling) \in Nat
      /\ Cardinality(Enrolling') = Cardinality(Enrolling) - Weight(call[p]) + Weight(c)
  BY <1>1, <1>2, <1>3, CallFrame
<1>5. Cardinality(Enrolling') = Cardinality(Enrolling) + 1
  BY <1>1, <1>2, <1>4 DEF Weight
<1>6. TypeOK'
  BY <1>1, <1>4, Constants DEF TypeOK
<1>7. BatchesAreBacked'
  BY <1>1, <1>4, <1>5 DEF BatchesAreBacked
<1>8. RowIsOwn' /\ LoginsAreRecorded' /\ OneRedemptionPerCode' /\ ShownCodesAreStored'
  BY <1>1 DEF RowIsOwn, LoginsAreRecorded, OneRedemptionPerCode, ShownCodesAreStored
<1> QED  BY <1>1, <1>4, <1>6, <1>7, <1>8

LEMMA ConfirmEnrollmentStep ==
  ASSUME IInv, NEW p \in Session, NEW h \in Household, NEW code, ConfirmEnrollment(p, h, code)
  PROVE  IInv'
<1> DEFINE c == [Idle EXCEPT !.pc = "confirm", !.household = h, !.secret = row.secret]
<1>1. c \in Call /\ c.pc = "confirm"
  BY Constants DEF Call, IInv, TypeOK
<1>2. /\ call' = [call EXCEPT ![p] = c]
      /\ UNCHANGED <<row, codes, used, secrets, batches, history>>
  BY DEF ConfirmEnrollment
<1> HIDE DEF c
<1> QED  BY <1>1, <1>2, CallOnly DEF Armed

LEMMA VerifyLoginCodeStep ==
  ASSUME IInv, NEW p \in Session, NEW code \in TOTPCode \cup {Blank},
         NEW recovery \in RecoveryCode \cup {BlankCode}, VerifyLoginCode(p, code, recovery)
  PROVE  IInv'
<1> DEFINE good == Validates(code, row.secret) /\ fresh(code)
           c == [Idle EXCEPT !.pc = IF good THEN "record" ELSE "list",
                             !.totp = IF good THEN code ELSE Blank,
                             !.recovery = recovery]
<1>1. /\ row.exists /\ call' = [call EXCEPT ![p] = c]
      /\ UNCHANGED <<row, codes, used, secrets, batches, history>>
  BY DEF VerifyLoginCode
\* A blank field validates against no secret that was handed out.
<1>2. good => code \in TOTPCode
  <2>1. row.secret # 0
    BY <1>1, MFAAssumption DEF IInv, RowIsOwn, Secret
  <2>2. Blank.secret = 0
    BY DEF Blank
  <2> QED  BY <2>1, <2>2 DEF Validates
<1>3. /\ c \in Call /\ c.household = Home
      /\ c.pc = IF good THEN "record" ELSE "list"
      /\ c.totp = IF good THEN code ELSE Blank
  <2> HIDE DEF good
  <2> QED  BY Constants DEF Call
<1> HIDE DEF c, good
<1>4. Armed(c) /\ c.pc \notin {"lookup", "insert"}
  BY <1>2, <1>3 DEF Armed
<1> QED  BY <1>1, <1>3, <1>4, CallOnly

LEMMA DisenrollStep ==
  ASSUME IInv, NEW p \in Session, NEW h \in Household, NEW code,
         NEW recovery \in RecoveryCode \cup {BlankCode}, Disenroll(p, h, code, recovery)
  PROVE  IInv'
<1> DEFINE good == Validates(code, row.secret)
           c == [Idle EXCEPT !.pc = IF good THEN "delete" ELSE "list",
                             !.recovery = IF good THEN BlankCode ELSE recovery,
                             !.household = h, !.disenroll = TRUE]
<1>1. /\ call' = [call EXCEPT ![p] = c]
      /\ UNCHANGED <<row, codes, used, secrets, batches, history>>
  BY DEF Disenroll
<1>2. c \in Call /\ c.pc = IF good THEN "delete" ELSE "list"
  <2> HIDE DEF good
  <2> QED  BY Constants DEF Call
<1> HIDE DEF c, good
<1>3. Armed(c) /\ c.pc \notin {"lookup", "insert"}
  BY <1>2 DEF Armed
<1> QED  BY <1>1, <1>2, <1>3, CallOnly

-----------------------------------------------------------------------------
(***************************************************************************)
(* The repository calls.                                                   *)
(***************************************************************************)
LEMMA ReturnStep ==
  ASSUME IInv, NEW p \in Session, Return(p),
         UNCHANGED <<row, codes, used, secrets, batches, history>>
  PROVE  IInv'
BY IdleArmed, Constants, CallOnly DEF Return

\* A step that ends a call.
LEMMA ReturnFrame ==
  ASSUME IInv, NEW p \in Session, Return(p)
  PROVE  /\ call' \in [Session -> Call] /\ CallsAreArmed' /\ IsFiniteSet(Enrolling')
         /\ Cardinality(Enrolling) \in Nat
         /\ Cardinality(Enrolling') = Cardinality(Enrolling) - Weight(call[p])
<1>1. Weight(Idle) = 0
  BY Constants DEF Weight
<1>2. /\ call' \in [Session -> Call] /\ CallsAreArmed' /\ IsFiniteSet(Enrolling')
      /\ Cardinality(Enrolling) \in Nat
      /\ Cardinality(Enrolling') = Cardinality(Enrolling) - Weight(call[p]) + Weight(Idle)
  BY IdleArmed, Constants, CallFrame DEF Return
<1> QED  BY <1>1, <1>2 DEF Weight

LEMMA GoStep ==
  ASSUME IInv, NEW p \in Session, NEW pc \in {"insert", "mark", "delete"}, Go(p, pc),
         pc = "insert" => call[p].pc \in {"lookup", "insert"},
         UNCHANGED <<row, codes, used, secrets, batches, history>>
  PROVE  IInv'
<1> DEFINE c == [call[p] EXCEPT !.pc = pc]
<1>1. call[p] \in Call /\ call' = [call EXCEPT ![p] = c]
  BY DEF IInv, TypeOK, Go
<1>2. c \in Call /\ c.pc = pc /\ c.secret = call[p].secret
  BY <1>1 DEF Call
<1>3. Armed(c)
  BY <1>2 DEF Armed, IInv, CallsAreArmed
<1> HIDE DEF c
<1> QED  BY <1>1, <1>2, <1>3, CallOnly

LEMMA BeginLookupStep ==
  ASSUME IInv, NEW p \in Session, BeginLookup(p)
  PROVE  IInv'
<1> USE DEF IInv
<1>1. call[p].pc = "lookup" /\ UNCHANGED <<codes, used, secrets, batches, history>>
  BY DEF BeginLookup, At
<1>2. CASE ~ row.exists
  <2>1. Go(p, "insert") /\ row' = row
    BY <1>2 DEF BeginLookup
  <2> QED  BY <1>1, <2>1, GoStep
<1>3. CASE row.exists /\ ~ beginAllowed(p)
  BY <1>1, <1>3, ReturnStep DEF BeginLookup
<1>4. CASE row.exists /\ beginAllowed(p)
  <2>1. Return(p) /\ row' = [row EXCEPT !.secret = call[p].secret, !.confirmed = FALSE]
    BY <1>4 DEF BeginLookup
  <2>2. /\ call' \in [Session -> Call] /\ CallsAreArmed' /\ IsFiniteSet(Enrolling')
        /\ Cardinality(Enrolling) \in Nat
        /\ Cardinality(Enrolling') = Cardinality(Enrolling) - Weight(call[p])
    BY <2>1, ReturnFrame
  <2>3. Cardinality(Enrolling') = Cardinality(Enrolling) - 1
    BY <1>1, <2>2 DEF Weight
  <2>4. call[p].secret \in Secret /\ call[p].secret \in 0 .. MaxSecrets /\ ~ row.confirmed
    BY <1>1, <1>4, Constants DEF CallsAreArmed, beginAllowed
  <2>5. /\ row'.exists /\ ~ row'.confirmed /\ row'.secret = call[p].secret
        /\ row'.household = row.household /\ row'.lastStep = row.lastStep
    BY <1>4, <2>1 DEF TypeOK
  <2>6. TypeOK'
    BY <1>1, <2>1, <2>2, <2>4 DEF TypeOK
  <2>7. BatchesAreBacked'
    <3>1. batches \in Nat /\ secrets \in Nat
      BY DEF TypeOK
    <3> QED  BY <1>1, <1>4, <2>2, <2>3, <2>4, <2>5, <3>1 DEF BatchesAreBacked
  <2>8. RowIsOwn' /\ LoginsAreRecorded' /\ OneRedemptionPerCode'
    BY <1>1, <1>4, <2>4, <2>5 DEF RowIsOwn, LoginsAreRecorded, OneRedemptionPerCode
  <2>9. ShownCodesAreStored' /\ (history.redeemed \subseteq used)'
    BY <1>1, <2>4, Unconfirmed DEF ShownCodesAreStored
  <2> QED  BY <2>2, <2>6, <2>7, <2>8, <2>9
<1> QED  BY <1>2, <1>3, <1>4

LEMMA LostInsertRaceStep ==
  ASSUME IInv, NEW p \in Session, call[p].pc = "insert", lostInsertRace(p),
         UNCHANGED <<row, codes, used, secrets, batches, history>>
  PROVE  IInv'
<1>1. CASE call[p].attempt # 1
  BY <1>1, ReturnStep DEF lostInsertRace
<1>2. CASE call[p].attempt = 1
  <2> DEFINE c == [call[p] EXCEPT !.pc = "lookup", !.attempt = 2]
  <2>1. call[p] \in Call /\ call \in [Session -> Call]
    BY DEF IInv, TypeOK
  <2>2. call' = [call EXCEPT ![p] = c]
    BY <1>2, <2>1 DEF lostInsertRace
  <2>3. c \in Call /\ c.pc = "lookup" /\ c.secret = call[p].secret
    <3>1. 2 \in 0 .. 2
      OBVIOUS
    <3> QED  BY <2>1, <3>1 DEF Call
  <2>4. Armed(c)
    BY <2>3 DEF Armed, IInv, CallsAreArmed
  <2> HIDE DEF c
  <2> QED  BY <2>2, <2>3, <2>4, CallOnly
<1> QED  BY <1>1, <1>2

LEMMA BeginInsertStep ==
  ASSUME IInv, NEW p \in Session, BeginInsert(p)
  PROVE  IInv'
<1> USE DEF IInv
<1>1. call[p].pc = "insert" /\ UNCHANGED <<codes, used, secrets, batches, history>>
  BY DEF BeginInsert, At
<1>2. CASE row.exists
  BY <1>1, <1>2, LostInsertRaceStep DEF BeginInsert
<1>3. CASE ~ row.exists /\ call[p].household # Home
  BY <1>1, <1>3, ReturnStep DEF BeginInsert
<1>4. CASE ~ row.exists /\ call[p].household = Home
  <2>1. Return(p) /\ row' = [exists |-> TRUE, household |-> Home, secret |-> call[p].secret,
                             confirmed |-> FALSE, lastStep |-> NoStep]
    BY <1>4 DEF BeginInsert
  <2>2. /\ call' \in [Session -> Call] /\ CallsAreArmed' /\ IsFiniteSet(Enrolling')
        /\ Cardinality(Enrolling) \in Nat
        /\ Cardinality(Enrolling') = Cardinality(Enrolling) - Weight(call[p])
    BY <2>1, ReturnFrame
  <2>3. Cardinality(Enrolling') = Cardinality(Enrolling) - 1
    BY <1>1, <2>2 DEF Weight
  <2>4. call[p].secret \in Secret /\ call[p].secret \in 0 .. MaxSecrets /\ ~ row.confirmed
    BY <1>1, <1>4, Constants DEF CallsAreArmed, RowIsOwn
  <2>5. TypeOK'
    BY <1>1, <2>1, <2>2, <2>4, MFAAssumption DEF TypeOK, NoStep
  <2>6. BatchesAreBacked'
    <3>1. batches \in Nat /\ secrets \in Nat
      BY DEF TypeOK
    <3> QED  BY <1>1, <1>4, <2>1, <2>2, <2>3, <3>1 DEF BatchesAreBacked
  <2>7. RowIsOwn' /\ LoginsAreRecorded' /\ OneRedemptionPerCode'
    BY <1>1, <1>4, <2>1, <2>4 DEF RowIsOwn, LoginsAreRecorded, OneRedemptionPerCode
  <2>8. ShownCodesAreStored' /\ (history.redeemed \subseteq used)'
    BY <1>1, <2>4, Unconfirmed DEF ShownCodesAreStored
  <2> QED  BY <2>2, <2>5, <2>6, <2>7, <2>8
<1> QED  BY <1>2, <1>3, <1>4

LEMMA ConfirmEnrollmentWithCodesStep ==
  ASSUME IInv, NEW p \in Session, ConfirmEnrollmentWithCodes(p)
  PROVE  IInv'
<1> USE DEF IInv
<1>1. call[p].pc = "confirm" /\ Return(p) /\ secrets' = secrets
  BY DEF ConfirmEnrollmentWithCodes, At
<1>2. CASE ~ confirmAllowed(p)
  BY <1>1, <1>2, ReturnStep DEF ConfirmEnrollmentWithCodes
<1>3. CASE confirmAllowed(p)
  <2> DEFINE batch == batches + 1
  <2>1. /\ row' = [row EXCEPT !.confirmed = TRUE]
        /\ codes' = {batch} \X (1 .. RecoveryCodeCount) /\ used' = {} /\ batches' = batch
        /\ \/ history' = [history EXCEPT !.shown = @ \cup {batch}]
           \/ history' = history
    BY <1>3 DEF ConfirmEnrollmentWithCodes
  <2>2. row.exists /\ ~ row.confirmed
    BY <1>3 DEF confirmAllowed
  <2>3. codes = {} /\ used = {} /\ history.redeemed = {} /\ history.shown = {}
    BY <2>2, Unconfirmed
  <2>4. /\ call' \in [Session -> Call] /\ CallsAreArmed' /\ IsFiniteSet(Enrolling')
        /\ Cardinality(Enrolling) \in Nat /\ Cardinality(Enrolling') = Cardinality(Enrolling)
    BY <1>1, ReturnFrame DEF Weight
  <2>5. batches \in Nat /\ secrets \in Nat /\ secrets <= MaxSecrets
    BY DEF TypeOK
  <2>6. batch + Cardinality(Enrolling') <= secrets
    BY <2>2, <2>4, <2>5 DEF BatchesAreBacked
  <2>7. batch \in Secret
    BY <2>4, <2>5, <2>6, MFAAssumption DEF Secret
  <2>8. /\ row'.exists /\ row'.confirmed /\ row'.secret = row.secret
        /\ row'.household = row.household /\ row'.lastStep = row.lastStep
    BY <2>1, <2>2 DEF TypeOK
  <2>9. /\ history'.logins = history.logins /\ history'.replayed = history.replayed
        /\ history'.redeemed = {} /\ history'.redeemedTwice = history.redeemedTwice
        /\ history'.disenrolled = history.disenrolled
        /\ history'.shown \subseteq {batch}
    BY <2>1, <2>3 DEF TypeOK, History
  <2>10. TypeOK'
    <3>1. codes' \subseteq RecoveryCode /\ used' \subseteq codes' /\ batches' \in 0 .. MaxSecrets
      BY <2>1, <2>7, Constants DEF RecoveryCode
    <3>2. row' \in [exists : BOOLEAN, household : Household, secret : 0..MaxSecrets,
                    confirmed : BOOLEAN, lastStep : 0..MaxStep]
      BY <2>1 DEF TypeOK
    <3>3. history' \in History
      BY <2>1, <2>7 DEF TypeOK, History
    <3> QED  BY <1>1, <2>4, <3>1, <3>2, <3>3 DEF TypeOK
  <2>11. BatchesAreBacked'
    BY <1>1, <2>1, <2>4, <2>5, <2>6, <2>8 DEF BatchesAreBacked
  <2>12. RowIsOwn' /\ LoginsAreRecorded' /\ OneRedemptionPerCode'
    BY <2>2, <2>8, <2>9 DEF RowIsOwn, LoginsAreRecorded, OneRedemptionPerCode
  <2>13. ShownCodesAreStored' /\ (history.redeemed \subseteq used)'
    BY <2>1, <2>8, <2>9 DEF ShownCodesAreStored
  <2> QED  BY <2>4, <2>10, <2>11, <2>12, <2>13
<1> QED  BY <1>2, <1>3

LEMMA RecordLoginStepStep ==
  ASSUME IInv, NEW p \in Session, RecordLoginStep(p)
  PROVE  IInv'
<1> USE DEF IInv
<1> DEFINE code == call[p].totp
<1>1. call[p].pc = "record" /\ call[p] \in Call /\ UNCHANGED <<codes, used, secrets, batches>>
  BY DEF RecordLoginStep, At, TypeOK
<1>2. code \in TOTPCode
  BY <1>1 DEF CallsAreArmed
<1>3. CASE ~ (row.exists /\ stepAdvances(code.step)) /\ call[p].recovery = BlankCode
  BY <1>1, <1>3, ReturnStep DEF RecordLoginStep
<1>4. CASE ~ (row.exists /\ stepAdvances(code.step)) /\ call[p].recovery # BlankCode
  <2> DEFINE c == [call[p] EXCEPT !.pc = "list", !.totp = Blank]
  <2>1. call' = [call EXCEPT ![p] = c] /\ UNCHANGED <<row, history>>
    BY <1>4 DEF RecordLoginStep, TypeOK
  <2>2. c \in Call /\ c.pc = "list"
    BY <1>1 DEF Call
  <2> HIDE DEF c
  <2> QED  BY <1>1, <2>1, <2>2, CallOnly DEF Armed
<1>5. CASE row.exists /\ stepAdvances(code.step)
  <2>1. /\ row' = [row EXCEPT !.lastStep = code.step] /\ Return(p)
        /\ LoggedIn(code) \/ UNCHANGED history
    BY <1>5 DEF RecordLoginStep
  <2>2. /\ call' \in [Session -> Call] /\ CallsAreArmed' /\ IsFiniteSet(Enrolling')
        /\ Cardinality(Enrolling) \in Nat /\ Cardinality(Enrolling') = Cardinality(Enrolling)
    BY <1>1, <2>1, ReturnFrame DEF Weight
  <2>3. code.step \in 1 .. MaxStep /\ code.step \in Nat /\ row.lastStep \in Nat
    BY <1>2, MFAAssumption DEF TOTPCode, Step, TypeOK
  <2>4. /\ row'.exists /\ row'.confirmed = row.confirmed /\ row'.secret = row.secret
        /\ row'.household = row.household /\ row'.lastStep = code.step
    BY <1>5, <2>1 DEF TypeOK
  <2>5. /\ history'.redeemed = history.redeemed /\ history'.redeemedTwice = history.redeemedTwice
        /\ history'.disenrolled = history.disenrolled /\ history'.shown = history.shown
    BY <2>1 DEF TypeOK, LoggedIn, History
  \* Every login so far was of an earlier step.
  <2>6. ASSUME ~ history.disenrolled, NEW d \in history.logins
        PROVE  d.step < code.step /\ d.step \in Nat
    <3>1. d \in TOTPCode /\ d.step <= row.lastStep
      BY <2>6 DEF TypeOK, LoginsAreRecorded, History
    <3>2. d.step \in Nat \ {0}
      BY <3>1, Constants DEF TOTPCode
    <3> QED  BY <1>5, <2>3, <3>1, <3>2 DEF stepAdvances, NoStep
  <2>7. LoginsAreRecorded'
    <3> SUFFICES ASSUME ~ history.disenrolled
                 PROVE  /\ ~ history'.replayed
                        /\ \A d \in history'.logins : row'.exists /\ d.step <= row'.lastStep
      BY <2>5 DEF LoginsAreRecorded
    <3>1. code \notin history.logins /\ ~ history.replayed
      BY <2>3, <2>6 DEF LoginsAreRecorded
    <3>2. history'.logins \subseteq history.logins \cup {code} /\ ~ history'.replayed
      BY <2>1, <3>1 DEF TypeOK, LoggedIn, History
    <3>3. \A d \in history'.logins : d.step <= code.step
      BY <2>3, <2>6, <3>2
    <3> QED  BY <2>4, <3>2, <3>3
  <2>8. TypeOK'
    <3>1. row' \in [exists : BOOLEAN, household : Household, secret : 0..MaxSecrets,
                    confirmed : BOOLEAN, lastStep : 0..MaxStep]
      BY <2>1, <2>3 DEF TypeOK
    <3>2. history' \in History
      <4>1. history.logins \cup {code} \in SUBSET TOTPCode /\ history \in History
        BY <1>2 DEF TypeOK, History
      <4>2. (history.replayed \/ code \in history.logins) \in BOOLEAN
        OBVIOUS
      <4> QED  BY <2>1, <4>1, <4>2, HistoryTyped DEF LoggedIn
    <3> QED  BY <1>1, <2>2, <3>1, <3>2 DEF TypeOK
  <2>9. BatchesAreBacked' /\ RowIsOwn' /\ OneRedemptionPerCode'
    BY <1>1, <1>5, <2>2, <2>4, <2>5 DEF BatchesAreBacked, RowIsOwn, OneRedemptionPerCode
  <2>10. ShownCodesAreStored' /\ (history.redeemed \subseteq used)'
    BY <1>1, <2>4, <2>5 DEF ShownCodesAreStored
  <2> QED  BY <2>2, <2>7, <2>8, <2>9, <2>10
<1> QED  BY <1>3, <1>4, <1>5

LEMMA ListUnusedRecoveryCodesStep ==
  ASSUME IInv, NEW p \in Session, ListUnusedRecoveryCodes(p)
  PROVE  IInv'
BY ReturnStep, GoStep DEF ListUnusedRecoveryCodes

LEMMA MarkRecoveryCodeUsedStep ==
  ASSUME IInv, NEW p \in Session, MarkRecoveryCodeUsed(p)
  PROVE  IInv'
<1> USE DEF IInv
<1> DEFINE code == call[p].recovery
<1>1. call[p].pc = "mark" /\ call[p] \in Call /\ UNCHANGED <<row, codes, secrets, batches>>
  BY DEF MarkRecoveryCodeUsed, At, TypeOK
<1>2. CASE ~ stillUnused(code)
  BY <1>1, <1>2, ReturnStep DEF MarkRecoveryCodeUsed
<1>3. CASE stillUnused(code)
  <2>1. code \in codes /\ code \notin used /\ code \notin history.redeemed
    BY <1>3 DEF stillUnused
  <2>2. /\ used' = used \cup {code}
        /\ Redeemed(code) \/ history' = history
        /\ Go(p, "delete") \/ Return(p)
    BY <1>3 DEF MarkRecoveryCodeUsed
  <2>3. /\ call' \in [Session -> Call] /\ CallsAreArmed' /\ IsFiniteSet(Enrolling')
        /\ Cardinality(Enrolling) \in Nat /\ Cardinality(Enrolling') = Cardinality(Enrolling)
    <3>1. CASE Return(p)
      BY <1>1, <3>1, ReturnFrame DEF Weight
    <3>2. CASE Go(p, "delete")
      <4> DEFINE c == [call[p] EXCEPT !.pc = "delete"]
      <4>1. c \in Call /\ c.pc = "delete" /\ call' = [call EXCEPT ![p] = c]
        BY <1>1, <3>2 DEF Call, Go
      <4> HIDE DEF c
      <4>2. Armed(c) /\ Weight(c) = 0 /\ Weight(call[p]) = 0
        BY <1>1, <4>1 DEF Armed, Weight
      <4>3. /\ call' \in [Session -> Call] /\ CallsAreArmed' /\ IsFiniteSet(Enrolling')
            /\ Cardinality(Enrolling) \in Nat
            /\ Cardinality(Enrolling') = Cardinality(Enrolling) - Weight(call[p]) + Weight(c)
        BY <4>1, <4>2, CallFrame
      <4> QED  BY <4>2, <4>3
    <3> QED  BY <2>2, <3>1, <3>2
  <2>4. /\ history'.logins = history.logins /\ history'.replayed = history.replayed
        /\ history'.disenrolled = history.disenrolled /\ history'.shown = history.shown
        /\ history'.redeemed \subseteq history.redeemed \cup {code}
        /\ ~ history'.redeemedTwice
    BY <2>1, <2>2 DEF TypeOK, Redeemed, OneRedemptionPerCode, History
  <2>5. TypeOK'
    <3>1. history' \in History
      <4>1. code \in RecoveryCode
        BY <2>1 DEF TypeOK
      <4>2. history.redeemed \cup {code} \in SUBSET RecoveryCode /\ history \in History
        BY <4>1 DEF TypeOK, History
      <4>3. (history.redeemedTwice \/ code \in history.redeemed) \in BOOLEAN
        OBVIOUS
      <4> QED  BY <2>2, <4>2, <4>3, HistoryTyped DEF Redeemed
    <3> QED  BY <1>1, <2>1, <2>2, <2>3, <3>1 DEF TypeOK
  <2>6. BatchesAreBacked' /\ RowIsOwn' /\ LoginsAreRecorded' /\ OneRedemptionPerCode'
    BY <1>1, <2>3, <2>4 DEF BatchesAreBacked, RowIsOwn, LoginsAreRecorded, OneRedemptionPerCode
  <2>7. ShownCodesAreStored' /\ (history.redeemed \subseteq used)'
    BY <1>1, <2>2, <2>4 DEF ShownCodesAreStored
  <2> QED  BY <2>3, <2>5, <2>6, <2>7
<1> QED  BY <1>2, <1>3

LEMMA DeleteEnrollmentStep ==
  ASSUME IInv, NEW p \in Session, DeleteEnrollment(p)
  PROVE  IInv'
<1> USE DEF IInv
<1>1. call[p].pc = "delete" /\ Return(p) /\ UNCHANGED <<secrets, batches>>
  BY DEF DeleteEnrollment, At
<1>2. CASE ~ deleteMatches(p)
  BY <1>1, <1>2, ReturnStep DEF DeleteEnrollment
<1>3. CASE deleteMatches(p)
  <2>1. /\ row' = NoRow /\ codes' = {} /\ used' = {}
        /\ history' = [history EXCEPT !.shown = {}, !.redeemed = {}, !.disenrolled = TRUE]
    BY <1>3 DEF DeleteEnrollment
  <2>2. /\ call' \in [Session -> Call] /\ CallsAreArmed' /\ IsFiniteSet(Enrolling')
        /\ Cardinality(Enrolling) \in Nat /\ Cardinality(Enrolling') = Cardinality(Enrolling)
    BY <1>1, ReturnFrame DEF Weight
  <2>3. ~ row'.exists /\ ~ row'.confirmed /\ row'.household = Home
    BY <2>1 DEF NoRow
  <2>4. /\ history'.shown = {} /\ history'.redeemed = {} /\ history'.disenrolled
        /\ history'.redeemedTwice = history.redeemedTwice
    BY <2>1 DEF TypeOK
  <2>5. TypeOK'
    <3>1. row' \in [exists : BOOLEAN, household : Household, secret : 0..MaxSecrets,
                    confirmed : BOOLEAN, lastStep : 0..MaxStep]
      BY <2>1, MFAAssumption DEF NoRow, NoStep
    <3>2. history' \in History
      BY <2>1 DEF TypeOK, History
    <3> QED  BY <1>1, <2>1, <2>2, <3>1, <3>2 DEF TypeOK
  <2>6. BatchesAreBacked'
    <3>1. batches \in Nat /\ secrets \in Nat
      BY DEF TypeOK
    <3> QED  BY <1>1, <2>2, <2>3, <3>1 DEF BatchesAreBacked
  <2>7. RowIsOwn' /\ LoginsAreRecorded' /\ OneRedemptionPerCode'
    BY <2>3, <2>4 DEF RowIsOwn, LoginsAreRecorded, OneRedemptionPerCode
  <2>8. ShownCodesAreStored' /\ (history.redeemed \subseteq used)'
    BY <2>1, <2>4 DEF ShownCodesAreStored
  <2> QED  BY <2>2, <2>5, <2>6, <2>7, <2>8
<1> QED  BY <1>2, <1>3

-----------------------------------------------------------------------------
(***************************************************************************)
(* The theorems                                                            *)
(***************************************************************************)
LEMMA TypedCodes ==
  Typed \subseteq TOTPCode \cup {Blank} /\ TypedRecovery \subseteq RecoveryCode \cup {BlankCode}
BY DEF Typed, TypedRecovery

\* Every reachable state satisfies the inductive invariant.
THEOREM Invariant == Spec => []IInv
<1>1. ASSUME IInv, [Next]_vars PROVE IInv'
  <2>1. CASE UNCHANGED vars
    BY <1>1, <2>1 DEF IInv, TypeOK, BatchesAreBacked, Enrolling, RowIsOwn, CallsAreArmed,
                      LoginsAreRecorded, OneRedemptionPerCode, ShownCodesAreStored, vars
  <2>2. ASSUME NEW p \in Session, ServiceStep(p) PROVE IInv'
    BY <1>1, <2>2, BeginLookupStep, BeginInsertStep, ConfirmEnrollmentWithCodesStep,
       RecordLoginStepStep, ListUnusedRecoveryCodesStep, MarkRecoveryCodeUsedStep,
       DeleteEnrollmentStep, ReturnStep DEF ServiceStep, Fail
  <2>3. ASSUME NEW p \in Session, NEW code \in Typed, NEW recovery \in TypedRecovery,
               VerifyLoginCode(p, code, recovery)
        PROVE  IInv'
    BY <1>1, <2>3, TypedCodes, VerifyLoginCodeStep
  <2>4. ASSUME NEW p \in Session, NEW h \in Household, BeginEnrollment(p, h) PROVE IInv'
    BY <1>1, <2>4, BeginEnrollmentStep
  <2>5. ASSUME NEW p \in Session, NEW h \in Household, NEW code \in Typed,
               ConfirmEnrollment(p, h, code)
        PROVE  IInv'
    BY <1>1, <2>5, ConfirmEnrollmentStep
  <2>6. ASSUME NEW p \in Session, NEW h \in Household, NEW code \in Typed,
               NEW recovery \in TypedRecovery, Disenroll(p, h, code, recovery)
        PROVE  IInv'
    BY <1>1, <2>6, TypedCodes, DisenrollStep
  <2> QED  BY <1>1, <2>1, <2>2, <2>3, <2>4, <2>5, <2>6 DEF Next
<1> QED  BY InitIInv, <1>1, PTL DEF Spec

\* MarkRecoveryCodeUsed's condition lets no two redemptions of a recovery code
\* succeed, across logins and disenrollments.
THEOREM OneRedemptionPerCodeHolds == Spec => []OneRedemptionPerCode
<1>1. IInv => OneRedemptionPerCode
  BY DEF IInv
<1> QED  BY <1>1, Invariant, PTL

\* Recovery codes shown to a caller are the ones stored: no confirmation that
\* loses the race of ConfirmEnrollmentWithCodes replaces them.
THEOREM ShownCodesAreStoredHolds == Spec => []ShownCodesAreStored
<1>1. IInv => ShownCodesAreStored
  BY DEF IInv
<1> QED  BY <1>1, Invariant, PTL

\* RecordLoginStep's condition lets no TOTP code log in twice within an
\* enrollment.
THEOREM NoReplayWithinEnrollmentHolds == Spec => []NoReplayWithinEnrollment
<1>1. IInv => NoReplayWithinEnrollment
  BY DEF IInv, LoginsAreRecorded, NoReplayWithinEnrollment
<1> QED  BY <1>1, Invariant, PTL

\* BeginEnrollment never replaces a confirmed enrollment: only
\* DeleteEnrollment ends one.
THEOREM ConfirmedStandsHolds == Spec => ConfirmedStands
<1>1. ASSUME IInv, [Next]_vars, row.confirmed, ~ (\E p \in Session : DeleteEnrollment(p))
      PROVE  row'.exists /\ row'.confirmed /\ row'.secret = row.secret
  <2>1. row.exists /\ TypeOK
    BY <1>1 DEF IInv, RowIsOwn
  <2>2. CASE row' = row
    BY <1>1, <2>1, <2>2
  <2>3. CASE row' # row
    <3>1. PICK p \in Session : RecordLoginStep(p) \/ BeginLookup(p) \/ BeginInsert(p)
                               \/ ConfirmEnrollmentWithCodes(p)
      BY <1>1, <2>3 DEF Next, vars, ServiceStep, Fail, VerifyLoginCode, BeginEnrollment,
                        ConfirmEnrollment, Disenroll, ListUnusedRecoveryCodes, MarkRecoveryCodeUsed
    <3>2. row' = [row EXCEPT !.lastStep = call[p].totp.step]
      BY <1>1, <2>1, <2>3, <3>1 DEF RecordLoginStep, BeginLookup, BeginInsert, beginAllowed,
                                    ConfirmEnrollmentWithCodes, confirmAllowed
    <3> QED  BY <1>1, <2>1, <3>2 DEF TypeOK
  <2> QED  BY <2>2, <2>3
<1>2. IInv /\ [Next]_vars =>
        [row.confirmed =>
           \/ row'.exists /\ row'.confirmed /\ row'.secret = row.secret
           \/ \E p \in Session : DeleteEnrollment(p)]_vars
  BY <1>1
<1> QED  BY <1>2, Invariant, PTL DEF Spec, ConfirmedStands

\* A call changes nobody's state but its own.
LEMMA OneMover ==
  ASSUME IInv, Next, NEW p \in Session, call'[p] # call[p]
  PROVE  \/ ServiceStep(p)
         \/ UNCHANGED <<row, codes>>
<1>1. call \in [Session -> Call]
  BY DEF IInv, TypeOK
<1>2. ASSUME NEW q \in Session, ServiceStep(q) PROVE q = p
  <2>1. \E c : call' = [call EXCEPT ![q] = c]
    <3>1. Return(q) => \E c : call' = [call EXCEPT ![q] = c]
      BY DEF Return
    <3>2. ASSUME NEW pc PROVE Go(q, pc) => \E c : call' = [call EXCEPT ![q] = c]
      BY DEF Go
    <3>3. lostInsertRace(q) => \E c : call' = [call EXCEPT ![q] = c]
      <4>1. call' = [call EXCEPT ![q].pc = "lookup", ![q].attempt = 2]
              => call' = [call EXCEPT ![q] = [[call[q] EXCEPT !.pc = "lookup"] EXCEPT !.attempt = 2]]
        BY <1>1
      <4> QED  BY <3>1, <4>1 DEF lostInsertRace
    <3>4. call' = [call EXCEPT ![q].pc = "list", ![q].totp = Blank]
            => call' = [call EXCEPT ![q] = [[call[q] EXCEPT !.pc = "list"] EXCEPT !.totp = Blank]]
      BY <1>1
    <3> QED  BY <1>2, <3>1, <3>2, <3>3, <3>4
               DEF ServiceStep, BeginLookup, BeginInsert, ConfirmEnrollmentWithCodes, RecordLoginStep,
                   ListUnusedRecoveryCodes, MarkRecoveryCodeUsed, DeleteEnrollment, Fail
  <2> QED  BY <1>1, <2>1
<1> QED  BY <1>2 DEF Next, VerifyLoginCode, BeginEnrollment, ConfirmEnrollment, Disenroll

\* A call acting for another household changes neither the enrollment nor the
\* stored recovery codes, at any of its repository calls.
THEOREM TenantGuardHolds == Spec => TenantGuard
<1>1. ASSUME IInv, Next, NEW p \in Session, call[p].household # Home, call'[p] # call[p]
      PROVE  row' = row /\ codes' = codes
  <2>1. row.household = Home /\ (call[p].pc = "record" => FALSE)
    BY <1>1 DEF IInv, RowIsOwn, CallsAreArmed
  <2>2. CASE ServiceStep(p)
    BY <1>1, <2>1, <2>2
       DEF ServiceStep, BeginLookup, beginAllowed, BeginInsert, ConfirmEnrollmentWithCodes,
           confirmAllowed, RecordLoginStep, ListUnusedRecoveryCodes, MarkRecoveryCodeUsed,
           DeleteEnrollment, deleteMatches, Fail, At
  <2> QED  BY <1>1, <2>2, OneMover
<1>2. IInv /\ [Next]_vars =>
        [\A p \in Session : call[p].household # Home /\ call'[p] # call[p] =>
                              row' = row /\ codes' = codes]_vars
  BY <1>1
<1> QED  BY <1>2, Invariant, PTL DEF Spec, TenantGuard

=============================================================================
