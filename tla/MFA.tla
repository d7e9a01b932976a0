-------------------------------- MODULE MFA --------------------------------
(***************************************************************************)
(* TOTP enrollment of one member: app.MFAService (identity/app/mfa.go)     *)
(* over adapter.MFARepository (identity/adapter/mfa_postgres.go).          *)
(*                                                                         *)
(* Sessions call the service concurrently.  A service call is a sequence   *)
(* of repository calls with nothing held between them; each repository     *)
(* call is one step, except that BeginEnrollment's transaction is two when *)
(* it finds no row (FOR UPDATE locks nothing then).  A call that fails on  *)
(* its first read changes nothing and is left out.                         *)
(***************************************************************************)
EXTENDS Integers, FiniteSets

CONSTANTS
  Session,            \* the request handlers
  Household,          \* the households a caller can act for
  Home,               \* the member's own household
  RecoveryCodeCount,  \* recoveryCodeCount
  MaxSecrets,         \* bound: how many enrollments are begun
  MaxStep             \* bound: the last TOTP step of a code anyone types

ASSUME MFAAssumption ==
  /\ Home \in Household
  /\ RecoveryCodeCount \in Nat \ {0}
  /\ MaxSecrets \in Nat
  /\ MaxStep \in Nat \ {0}

VARIABLES
  row,        \* the member's row of identity.member_mfa
  codes,      \* the ids in identity.member_recovery_code
  used,       \* those with used_at set
  call,       \* the service call each session is in
  secrets,    \* how many secrets GenerateSecret has returned
  batches,    \* how many batches of recovery codes have been stored
  history     \* what callers were told; read by no action

vars == <<row, codes, used, call, secrets, batches, history>>

-----------------------------------------------------------------------------
Secret == 1..MaxSecrets
Step   == 1..MaxStep

\* A TOTP code is what an authenticator holding "secret" shows at "step"; a
\* recovery code is known by its batch and only matches the row stored for it.
\* Blank and BlankCode are fields left empty.
TOTPCode     == [secret : Secret, step : Step]
Blank        == [secret |-> 0, step |-> 0]
RecoveryCode == Secret \X (1..RecoveryCodeCount)
BlankCode    == <<0, 0>>

NoStep == 0     \* last_totp_step IS NULL

NoRow == [exists |-> FALSE, household |-> Home, secret |-> 0,
          confirmed |-> FALSE, lastStep |-> NoStep]

Idle == [pc |-> "idle", household |-> Home, totp |-> Blank, recovery |-> BlankCode,
         secret |-> 0, attempt |-> 0, disenroll |-> FALSE]

Call == [pc : {"idle", "lookup", "insert", "confirm", "record", "list", "mark", "delete"},
         household : Household,
         totp : TOTPCode \cup {Blank},
         recovery : RecoveryCode \cup {BlankCode},
         secret : 0..MaxSecrets,
         attempt : 0..2,
         disenroll : BOOLEAN]

History == [logins : SUBSET TOTPCode, replayed : BOOLEAN,
            redeemed : SUBSET RecoveryCode, redeemedTwice : BOOLEAN,
            shown : SUBSET Secret, disenrolled : BOOLEAN]

Init ==
  /\ row = NoRow
  /\ codes = {}
  /\ used = {}
  /\ call = [p \in Session |-> Idle]
  /\ secrets = 0
  /\ batches = 0
  /\ history = [logins |-> {}, replayed |-> FALSE, redeemed |-> {}, redeemedTwice |-> FALSE,
                shown |-> {}, disenrolled |-> FALSE]

At(p, pc) == call[p].pc = pc

Go(p, pc) == call' = [call EXCEPT ![p].pc = pc]

Return(p) == call' = [call EXCEPT ![p] = Idle]

\* totp.Validate and totp.MatchStep, for a code presented while its step is
\* within the skew window.  Time itself is left out: all that its passing does
\* is take codes away, and up to three steps are in the window together.
Validates(code, secret) == code.secret = secret

-----------------------------------------------------------------------------
(***************************************************************************)
(* BeginEnrollment                                                         *)
(***************************************************************************)
BeginEnrollment(p, h) ==
  /\ At(p, "idle")
  /\ secrets < MaxSecrets
  /\ secrets' = secrets + 1
  /\ call' = [call EXCEPT ![p] = [Idle EXCEPT !.pc = "lookup", !.household = h,
                                              !.secret = secrets + 1, !.attempt = 1]]
  /\ UNCHANGED <<row, codes, used, batches, history>>

\* Mutation: a confirmed enrollment is replaced too.
beginAllowedAlways(p) == row.household = call[p].household

\* An existing row may be given another secret.
beginAllowed(p) == row.household = call[p].household /\ ~ row.confirmed

\* beginEnrollmentOnce up to the INSERT: with a row, the lock it takes makes
\* the rest of the transaction atomic with the lookup.
BeginLookup(p) ==
  /\ At(p, "lookup")
  /\ IF row.exists
     THEN /\ row' = IF beginAllowed(p)
                    THEN [row EXCEPT !.secret = call[p].secret, !.confirmed = FALSE]
                    ELSE row
          /\ Return(p)
     ELSE Go(p, "insert") /\ UNCHANGED row
  /\ UNCHANGED <<codes, used, secrets, batches, history>>

\* Mutation: every lost race is retried.
lostInsertRaceForever(p) ==
  call' = [call EXCEPT ![p].pc = "lookup", ![p].attempt = @ + 1]

\* The primary key was taken since the lookup: errMFAEnrollmentRaced, which
\* BeginEnrollment answers with one retry.
lostInsertRace(p) ==
  IF call[p].attempt = 1
  THEN call' = [call EXCEPT ![p].pc = "lookup", ![p].attempt = 2]
  ELSE Return(p)

\* The INSERT: the composite foreign key admits only the member's household.
BeginInsert(p) ==
  /\ At(p, "insert")
  /\ IF row.exists
     THEN lostInsertRace(p) /\ UNCHANGED row
     ELSE /\ row' = IF call[p].household = Home
                    THEN [exists |-> TRUE, household |-> call[p].household,
                          secret |-> call[p].secret, confirmed |-> FALSE,
                          lastStep |-> NoStep]
                    ELSE row
          /\ Return(p)
  /\ UNCHANGED <<codes, used, secrets, batches, history>>

-----------------------------------------------------------------------------
(***************************************************************************)
(* ConfirmEnrollment                                                       *)
(***************************************************************************)
\* GetEnrollment, and the code checked against the secret it returned.
ConfirmEnrollment(p, h, code) ==
  /\ At(p, "idle")
  /\ row.exists /\ ~ row.confirmed
  /\ Validates(code, row.secret)
  /\ call' = [call EXCEPT ![p] = [Idle EXCEPT !.pc = "confirm", !.household = h,
                                              !.secret = row.secret]]
  /\ UNCHANGED <<row, codes, used, secrets, batches, history>>

\* Mutation: the locked row is not looked at again.
confirmAllowedOnce(p) == row.exists /\ row.household = call[p].household

\* What the row, now locked, must be for the transaction to go on.
confirmAllowed(p) == row.exists /\ row.household = call[p].household /\ ~ row.confirmed

\* ConfirmEnrollmentWithCodes, one transaction.  "answered" is false when the
\* commit took effect and its answer was lost.
ConfirmEnrollmentWithCodes(p) ==
  /\ At(p, "confirm")
  /\ Return(p)
  /\ IF confirmAllowed(p)
     THEN LET batch == batches + 1 IN
          /\ row' = [row EXCEPT !.confirmed = TRUE]
          /\ codes' = {batch} \X (1..RecoveryCodeCount)
          /\ used' = {}
          /\ batches' = batch
          /\ \E answered \in BOOLEAN :
               history' = IF answered THEN [history EXCEPT !.shown = @ \cup {batch}]
                          ELSE history
     ELSE UNCHANGED <<row, codes, used, batches, history>>
  /\ UNCHANGED <<secrets>>

-----------------------------------------------------------------------------
(***************************************************************************)
(* VerifyLoginCode and Disenroll                                           *)
(***************************************************************************)
\* A login was granted on a TOTP code; an operation on a recovery code.
LoggedIn(code) ==
  history' = [history EXCEPT !.logins = @ \cup {code},
                             !.replayed = @ \/ code \in history.logins]

Redeemed(code) ==
  history' = [history EXCEPT !.redeemed = @ \cup {code},
                             !.redeemedTwice = @ \/ code \in history.redeemed]

\* The step a login code matched has not been accepted, as of the row read.
fresh(code) == row.lastStep = NoStep \/ code.step > row.lastStep

\* VerifyLoginCode up to its first write: requireConfirmedEnrollment, then the
\* TOTP code when there is one, else (or when it is wrong) the recovery code.
VerifyLoginCode(p, code, recovery) ==
  LET good == Validates(code, row.secret) /\ fresh(code)
  IN  /\ At(p, "idle")
      /\ row.exists /\ row.confirmed
      /\ good \/ recovery # BlankCode
      /\ call' = [call EXCEPT ![p] = [Idle EXCEPT !.pc = IF good THEN "record" ELSE "list",
                                                  !.totp = IF good THEN code ELSE Blank,
                                                  !.recovery = recovery]]
      /\ UNCHANGED <<row, codes, used, secrets, batches, history>>

\* Mutation: the step last accepted is accepted again.
stepAdvancesLoosely(step) == row.lastStep = NoStep \/ row.lastStep <= step

\* RecordLoginStep's WHERE clause, but for the member id.
stepAdvances(step) == row.lastStep = NoStep \/ row.lastStep < step

\* RecordLoginStep: one conditional UPDATE of whatever row the member has now.
RecordLoginStep(p) ==
  LET code == call[p].totp
  IN  /\ At(p, "record")
      /\ IF row.exists /\ stepAdvances(code.step)
         THEN /\ row' = [row EXCEPT !.lastStep = code.step]
              /\ Return(p)
              /\ LoggedIn(code) \/ UNCHANGED history
         ELSE /\ IF call[p].recovery = BlankCode THEN Return(p)
                 ELSE call' = [call EXCEPT ![p].pc = "list", ![p].totp = Blank]
              /\ UNCHANGED <<row, history>>
      /\ UNCHANGED <<codes, used, secrets, batches>>

\* Disenroll up to its first write (verifyTOTPOrRecovery): no replay guard.
Disenroll(p, h, code, recovery) ==
  LET good == Validates(code, row.secret)
  IN  /\ At(p, "idle")
      /\ row.exists /\ row.confirmed
      /\ good \/ recovery # BlankCode
      /\ call' = [call EXCEPT ![p] = [Idle EXCEPT !.pc = IF good THEN "delete" ELSE "list",
                                                  !.recovery = IF good THEN BlankCode
                                                               ELSE recovery,
                                                  !.household = h, !.disenroll = TRUE]]
      /\ UNCHANGED <<row, codes, used, secrets, batches, history>>

\* matchRecoveryCode: ListUnusedRecoveryCodes and the comparison with each.
ListUnusedRecoveryCodes(p) ==
  /\ At(p, "list")
  /\ IF call[p].recovery \in codes \ used THEN Go(p, "mark") ELSE Return(p)
  /\ UNCHANGED <<row, codes, used, secrets, batches, history>>

\* Mutation: a read-then-write, without the condition on used_at.
stillStored(code) == code \in codes

\* MarkRecoveryCodeUsed's WHERE clause.
stillUnused(code) == code \in codes \ used

\* MarkRecoveryCodeUsed, and what its success authorises: the login, or going
\* on to the delete.
MarkRecoveryCodeUsed(p) ==
  LET code == call[p].recovery
  IN  /\ At(p, "mark")
      /\ IF stillUnused(code)
         THEN /\ used' = used \cup {code}
              /\ \/ /\ Redeemed(code)
                    /\ IF call[p].disenroll THEN Go(p, "delete") ELSE Return(p)
                 \/ Return(p) /\ UNCHANGED history
         ELSE Return(p) /\ UNCHANGED <<used, history>>
      /\ UNCHANGED <<row, codes, secrets, batches>>

\* Mutation: the DELETE is not scoped to the household.
deleteMatchesAny(p) == row.exists

\* DeleteEnrollment's WHERE clause.
deleteMatches(p) == row.exists /\ row.household = call[p].household

\* DeleteEnrollment, cascading the recovery codes.
DeleteEnrollment(p) ==
  /\ At(p, "delete")
  /\ Return(p)
  /\ IF deleteMatches(p)
     THEN /\ row' = NoRow
          /\ codes' = {}
          /\ used' = {}
          /\ history' = [history EXCEPT !.shown = {}, !.redeemed = {}, !.disenrolled = TRUE]
     ELSE UNCHANGED <<row, codes, used, history>>
  /\ UNCHANGED <<secrets, batches>>

-----------------------------------------------------------------------------
\* A repository call fails, or the request is cancelled, before it has an
\* effect: its transaction is rolled back and the service returns the error.
Fail(p) ==
  /\ ~ At(p, "idle")
  /\ Return(p)
  /\ UNCHANGED <<row, codes, used, secrets, batches, history>>

\* What callers can type: a code of the secret in the row, or none (one of any
\* other secret is refused as an empty one is), and recovery codes shown to them.
Typed == {c \in TOTPCode : c.secret = row.secret} \cup {Blank}

TypedRecovery == {c \in RecoveryCode : c[1] \in 1..batches} \cup {BlankCode}

ServiceStep(p) ==
  \/ BeginLookup(p)
  \/ BeginInsert(p)
  \/ ConfirmEnrollmentWithCodes(p)
  \/ RecordLoginStep(p)
  \/ ListUnusedRecoveryCodes(p)
  \/ MarkRecoveryCodeUsed(p)
  \/ DeleteEnrollment(p)
  \/ Fail(p)

Next ==
  \E p \in Session :
    \/ ServiceStep(p)
    \/ \E code \in Typed, recovery \in TypedRecovery : VerifyLoginCode(p, code, recovery)
    \/ \E h \in Household :
         \/ BeginEnrollment(p, h)
         \/ \E code \in Typed : ConfirmEnrollment(p, h, code)
         \/ \E code \in Typed, recovery \in TypedRecovery : Disenroll(p, h, code, recovery)

Spec == Init /\ [][Next]_vars

-----------------------------------------------------------------------------
(***************************************************************************)
(* Properties                                                              *)
(***************************************************************************)
\* The types; BeginEnrollment's insert is tried at most twice.
TypeOK ==
  /\ row \in [exists : BOOLEAN, household : Household, secret : 0..MaxSecrets,
              confirmed : BOOLEAN, lastStep : 0..MaxStep]
  /\ codes \subseteq RecoveryCode
  /\ used \subseteq codes
  /\ call \in [Session -> Call]
  /\ secrets \in 0..MaxSecrets
  /\ batches \in 0..MaxSecrets
  /\ history \in History

\* "Two concurrent redemptions of the same code can never both succeed":
\* across logins and disenrollments, a recovery code authorises one operation
\* at most (MarkRecoveryCodeUsed).
OneRedemptionPerCode == ~ history.redeemedTwice

\* Two sessions racing to confirm "can never both win": of the batches of
\* recovery codes returned to callers for the enrollment that exists, none
\* was replaced or never stored (ConfirmEnrollmentWithCodes).
ShownCodesAreStored ==
  /\ \A batch \in history.shown : {batch} \X (1..RecoveryCodeCount) \subseteq codes
  /\ codes # {} => row.exists /\ row.confirmed

\* As long as nobody disenrolls, no TOTP code is accepted for two logins,
\* however the reads and the conditional updates of concurrent logins
\* interleave (verifyLoginTOTP, RecordLoginStep).
NoReplayWithinEnrollment == history.replayed => history.disenrolled

\* A confirmed enrollment is never replaced in place, whatever enrollments
\* were begun or being confirmed meanwhile: it goes only by Disenroll
\* (BeginEnrollment's answer ErrMFAAlreadyEnrolled).
ConfirmedStands ==
  [][row.confirmed =>
       \/ row'.exists /\ row'.confirmed /\ row'.secret = row.secret
       \/ \E p \in Session : DeleteEnrollment(p)]_vars

\* A step of a call acting for another household never changes the member's
\* enrollment, nor replaces or removes the recovery codes (the tenant guards).
TenantGuard ==
  [][\A p \in Session :
       call[p].household # Home /\ call'[p] # call[p] =>
         row' = row /\ codes' = codes]_vars

\* "ConfirmedAt is nil until the member proves control of their authenticator
\* app by submitting one valid code back": what a confirm makes active is the
\* secret whose code it checked.
ConfirmedSecretIsProven ==
  [][\A p \in Session :
       ConfirmEnrollmentWithCodes(p) /\ row' # row => row.secret = call[p].secret]_vars

\* "so the SAME code can never be replayed for a second login" (VerifyLoginCode).
SameCodeNeverReplayed == ~ history.replayed

-----------------------------------------------------------------------------
(***************************************************************************)
(* The inductive invariant                                                 *)
(***************************************************************************)
\* The sessions in BeginEnrollment, and what they may still be storing.
Enrolling == {p \in Session : call[p].pc \in {"lookup", "insert"}}

\* Every batch of recovery codes has used up a secret of its own: a secret is
\* in the hands of one session, or in a row nobody has confirmed, or spent.
BatchesAreBacked ==
  /\ IsFiniteSet(Enrolling)
  /\ batches + (IF row.exists /\ ~ row.confirmed THEN 1 ELSE 0) + Cardinality(Enrolling) <= secrets

\* The row is of the member's own household and holds a secret handed out.
RowIsOwn ==
  /\ row.household = Home
  /\ row.confirmed => row.exists
  /\ row.exists => row.secret \in Secret

\* What a call carries between two of its repository calls.
CallsAreArmed ==
  \A p \in Session :
    /\ call[p].pc \in {"lookup", "insert"} => call[p].secret \in Secret
    /\ call[p].pc = "record" => call[p].totp \in TOTPCode /\ call[p].household = Home

\* Until somebody disenrolls, the row remembers the newest login.
LoginsAreRecorded ==
  ~ history.disenrolled =>
    /\ ~ history.replayed
    /\ \A code \in history.logins : row.exists /\ code.step <= row.lastStep

IInv ==
  /\ TypeOK
  /\ BatchesAreBacked
  /\ RowIsOwn
  /\ CallsAreArmed
  /\ LoginsAreRecorded
  /\ history.redeemed \subseteq used
  /\ OneRedemptionPerCode
  /\ ShownCodesAreStored

=============================================================================
