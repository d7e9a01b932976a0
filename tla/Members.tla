------------------------------ MODULE Members ------------------------------
(***************************************************************************)
(* Member lifecycle: adapter.MemberRepository                              *)
(* (identity/adapter/member_postgres.go), whose guard keeps at least one   *)
(* active owner in every household that has one.                           *)
(*                                                                         *)
(* UpdateMemberProfile and SetMemberActive are READ COMMITTED transactions *)
(* of several statements.  A statement sees what was committed when it     *)
(* began, not what is committed when it gets to evaluate its WHERE clause, *)
(* so a statement has two steps here where that makes a difference.        *)
(* Display names are left out: a name that is taken is a failed statement. *)
(***************************************************************************)
EXTENDS FiniteSets

CONSTANTS
  Session,    \* concurrent calls of the two guarded methods
  Household,
  LockKey,    \* the 32-bit keys of advisory locks
  hashtext,   \* the key of a household's lock; two households may share one
  Member,     \* the ids NewMemberID hands out
  Home,       \* the household each member is created in
  Role,       \* "owner" and the other roles
  NoSession

ASSUME MembersAssumption ==
  /\ hashtext \in [Household -> LockKey]
  /\ Home \in [Member -> Household]
  /\ NoSession \notin Session
  /\ "owner" \in Role /\ Role # {"owner"}
  /\ Household # {} /\ Member # {}

VARIABLES
  member,     \* identity.member, as committed
  lock,       \* who holds each advisory lock
  tx          \* the transaction of each session

vars == <<member, lock, tx>>

-----------------------------------------------------------------------------
Row == [exists : BOOLEAN, role : Role, active : BOOLEAN]

\* The change a call asks for: a role (UpdateMemberProfile) or an activity flag
\* (SetMemberActive).  The other field says nothing.
Change == [kind : {"profile", "active"}, role : Role, active : BOOLEAN]

Profile(role) == [kind |-> "profile", role |-> role, active |-> TRUE]
Active(flag)  == [kind |-> "active", role |-> "owner", active |-> flag]

NoRow == [exists |-> FALSE, role |-> CHOOSE r \in Role : r # "owner", active |-> FALSE]

NoRows == [m \in Member |-> NoRow]

Tx == [pc : {"idle", "lock", "locked", "update", "explain", "commit"},
       household : Household, id : Member, change : Change,
       snapshot : [Member -> Row]]

\* Between calls; what the other fields hold then does not matter.
Idle == [pc |-> "idle", household |-> CHOOSE h \in Household : TRUE,
         id |-> CHOOSE m \in Member : TRUE, change |-> Active(TRUE),
         snapshot |-> NoRows]

Applied(row, change) ==
  IF change.kind = "profile"
  THEN [row EXCEPT !.role = change.role]
  ELSE [row EXCEPT !.active = change.active]

ActiveOwner(row) == row.exists /\ row.role = "owner" /\ row.active

\* The last-active-owner guard: another active owner, in the rows a statement
\* sees.
otherActiveOwner(rows, household, id) ==
  \E other \in Member : /\ other # id
                        /\ Home[other] = household
                        /\ ActiveOwner(rows[other])

\* Mutation: any profile change of the last owner is refused, a rename too.
removesOwnerAlways(row, change) ==
  /\ row.role = "owner" /\ row.active
  /\ change.kind = "active" => ~ change.active

\* The change takes away an active owner.
removesOwner(row, change) ==
  /\ row.role = "owner" /\ row.active
  /\ IF change.kind = "profile" THEN change.role # "owner" ELSE ~ change.active

Init ==
  /\ member = NoRows
  /\ lock = [k \in LockKey |-> NoSession]
  /\ tx = [s \in Session |-> Idle]

At(s, pc) == tx[s].pc = pc

Go(s, pc) == tx' = [tx EXCEPT ![s].pc = pc]

Key(s) == hashtext[tx[s].household]

\* Mutation: a refused transaction is left open.
releasedNever(s) == lock

\* pg_advisory_xact_lock lasts until the transaction ends, however it ends.
released(s) ==
  [k \in LockKey |-> IF lock[k] = s THEN NoSession ELSE lock[k]]

\* The transaction is over and the call returns.
Return(s) ==
  /\ tx' = [tx EXCEPT ![s] = Idle]
  /\ lock' = released(s)

-----------------------------------------------------------------------------
\* CreateMember: one INSERT, active by default, with no guard to satisfy.
CreateMember(m, role) ==
  /\ ~ member[m].exists
  /\ member' = [member EXCEPT ![m] = [exists |-> TRUE, role |-> role, active |-> TRUE]]
  /\ UNCHANGED <<lock, tx>>

\* A call begins its transaction and the statement that asks for the lock.
\* An id is known to a caller only once CreateMember has returned it; the
\* household it names need not be that member's.
Begin(s, household, id, change) ==
  /\ At(s, "idle")
  /\ member[id].exists
  /\ tx' = [tx EXCEPT ![s] = [pc |-> "lock", household |-> household, id |-> id,
                              change |-> change, snapshot |-> NoRows]]
  /\ UNCHANGED <<member, lock>>

UpdateMemberProfile(s, household, id, role) == Begin(s, household, id, Profile(role))

SetMemberActive(s, household, id, active) == Begin(s, household, id, Active(active))

\* Mutation: the guarded statement waits for nobody.
lockFreeAlways(s) == TRUE

lockFree(s) == lock[Key(s)] = NoSession

\* lockHousehold returns once nobody holds the key.
lockHousehold(s) ==
  /\ At(s, "lock")
  /\ lockFree(s)
  /\ lock' = [lock EXCEPT ![Key(s)] = s]
  /\ Go(s, "locked")
  /\ UNCHANGED member

\* The guarded UPDATE is a statement of its own, begun after the lock: it sees
\* all that earlier holders of the lock have committed.
StartUpdate(s) ==
  /\ At(s, "locked")
  /\ tx' = [tx EXCEPT ![s].pc = "update", ![s].snapshot = member]
  /\ UNCHANGED <<member, lock>>

\* The UPDATE's WHERE clause, on the rows its snapshot shows.
matches(s) ==
  LET row == tx[s].snapshot[tx[s].id]
  IN /\ row.exists
     /\ Home[tx[s].id] = tx[s].household
     /\ ~ /\ removesOwner(row, tx[s].change)
          /\ ~ otherActiveOwner(tx[s].snapshot, tx[s].household, tx[s].id)

Update(s) ==
  /\ At(s, "update")
  /\ tx' = [tx EXCEPT ![s].pc = IF matches(s) THEN "commit" ELSE "explain",
                      ![s].snapshot = NoRows]
  /\ UNCHANGED <<member, lock>>

\* A fresh look at the table: is there such a member in that household?
failureReason(s) ==
  IF member[tx[s].id].exists /\ Home[tx[s].id] = tx[s].household
  THEN "last active owner" ELSE "not found"

\* A statement that matched no row is explained by one more, and rolled back;
\* the call returns failureReason(s).
memberWriteFailureReason(s) ==
  /\ At(s, "explain")
  /\ Return(s)
  /\ UNCHANGED member

Commit(s) ==
  /\ At(s, "commit")
  /\ member' = [member EXCEPT ![tx[s].id] = Applied(@, tx[s].change)]
  /\ Return(s)

\* Any statement fails or the process stops, and the transaction rolls back.
Rollback(s) ==
  /\ ~ At(s, "idle")
  /\ Return(s)
  /\ UNCHANGED member

-----------------------------------------------------------------------------
\* The steps of a transaction other than waiting for the lock.
Advance(s) ==
  \/ StartUpdate(s)
  \/ Update(s)
  \/ memberWriteFailureReason(s)
  \/ Commit(s)

Call(s) ==
  \E household \in Household, id \in Member :
    \/ \E role \in Role : UpdateMemberProfile(s, household, id, role)
    \/ \E active \in BOOLEAN : SetMemberActive(s, household, id, active)

Next ==
  \/ \E m \in Member, role \in Role : CreateMember(m, role)
  \/ \E s \in Session : Call(s) \/ lockHousehold(s) \/ Advance(s) \/ Rollback(s)

\* A transaction in progress goes on (its handler runs, its statements return),
\* and PostgreSQL queues those waiting for a lock, so that nobody is passed
\* over for ever.
Fairness ==
  \A s \in Session : WF_vars(Advance(s)) /\ SF_vars(lockHousehold(s))

Spec == Init /\ [][Next]_vars

FairSpec == Spec /\ Fairness

-----------------------------------------------------------------------------
(***************************************************************************)
(* Properties                                                              *)
(***************************************************************************)
\* Every variable has its type.
TypeOK ==
  /\ member \in [Member -> Row]
  /\ lock \in [LockKey -> Session \cup {NoSession}]
  /\ tx \in [Session -> Tx]

HasActiveOwner(household) ==
  \E m \in Member : Home[m] = household /\ ActiveOwner(member[m])

\* No step leaves a household that has an active owner without one, whatever
\* demotions and deactivations of its owners run at the same time.
OwnersRemain ==
  [][\A h \in Household : HasActiveOwner(h) => HasActiveOwner(h)']_vars

\* ErrLastActiveOwner is answered only to a change that would have taken an
\* active owner of that household away: never to a rename, a promotion, a
\* reactivation, or a member of another household.
RefusalsAreJustified ==
  [][\A s \in Session :
       memberWriteFailureReason(s) /\ failureReason(s) = "last active owner" =>
         /\ Home[tx[s].id] = tx[s].household
         /\ ActiveOwner(member[tx[s].id])
         /\ ~ ActiveOwner(Applied(member[tx[s].id], tx[s].change))]_vars

\* Every call returns: refused, failed and committed transactions all let the
\* next one in.
EveryCallReturns ==
  \A s \in Session : (tx[s].pc # "idle") ~> (tx[s].pc = "idle")

-----------------------------------------------------------------------------
(***************************************************************************)
(* The inductive invariant behind OwnersRemain and RefusalsAreJustified    *)
(***************************************************************************)
\* A transaction past its lock statement holds the key of its household.
Holding ==
  \A s \in Session :
    tx[s].pc \in {"locked", "update", "explain", "commit"} => lock[Key(s)] = s

\* What the UPDATE's snapshot shows of its household is still what is there;
\* only members created since are missing from it.
SnapshotIsCurrent ==
  \A s \in Session : tx[s].pc = "update" =>
    \A m \in Member :
      Home[m] = tx[s].household /\ tx[s].snapshot[m].exists =>
        member[m] = tx[s].snapshot[m]

\* A change about to commit leaves an active owner.
CommitIsSafe ==
  \A s \in Session : tx[s].pc = "commit" =>
    /\ member[tx[s].id].exists
    /\ Home[tx[s].id] = tx[s].household
    /\ \/ ~ removesOwner(member[tx[s].id], tx[s].change)
       \/ otherActiveOwner(member, tx[s].household, tx[s].id)

\* Together: while a guarded change is on its way to being committed, its
\* household's lock keeps every other guarded change of that household out,
\* so what its guard saw stays true until it commits.
GuardInv == TypeOK /\ Holding /\ SnapshotIsCurrent /\ CommitIsSafe

\* The member a call names is there, and its UPDATE sees it: rows are never
\* deleted.
TargetIsKnown ==
  \A s \in Session :
    /\ tx[s].pc # "idle" => member[tx[s].id].exists
    /\ tx[s].pc = "update" => tx[s].snapshot[tx[s].id].exists

\* What made the UPDATE match no row is still so when it is explained.
RefusalIsDue ==
  \A s \in Session :
    tx[s].pc = "explain" /\ Home[tx[s].id] = tx[s].household =>
      removesOwner(member[tx[s].id], tx[s].change)

\* The inductive invariant.
IInv == GuardInv /\ TargetIsKnown /\ RefusalIsDue

-----------------------------------------------------------------------------
Owned == INSTANCE OwnedHouseholds

\* Lock, snapshot, guard and commit amount to one guarded change at the moment
\* of the commit: no schedule of the transactions shows the table a change
\* that its guard would not admit there and then.
ImplementsOwned == Owned!Spec

=============================================================================
