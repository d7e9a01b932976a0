--------------------------- MODULE MembersProofs ---------------------------
(***************************************************************************)
(* No household loses its last active owner, and nobody is refused who     *)
(* would not have taken it, for any number of households, members and      *)
(* concurrent calls.                                                       *)
(***************************************************************************)
EXTENDS Members, TLAPS

\* Past its lock statement a transaction shuts out every other one of the same
\* household.
LEMMA Alone ==
  ASSUME GuardInv, NEW s \in Session, NEW t \in Session,
         tx[s].pc \in {"locked", "update", "explain", "commit"},
         tx[t].pc \in {"locked", "update", "explain", "commit"},
         tx[s].household = tx[t].household
  PROVE  s = t
BY DEF GuardInv, Holding, Key

LEMMA IdleTyped == Idle \in Tx /\ NoRow \in Row /\ NoRows \in [Member -> Row]
<1>1. NoRow \in Row
  BY MembersAssumption DEF NoRow, Row
<1>2. NoRows \in [Member -> Row]
  BY <1>1 DEF NoRows
<1>3. Active(TRUE) \in Change
  BY MembersAssumption DEF Active, Change
<1>4. (CHOOSE h \in Household : TRUE) \in Household /\ (CHOOSE m \in Member : TRUE) \in Member
  BY MembersAssumption
<1>5. Idle \in Tx
  BY <1>2, <1>3, <1>4 DEF Idle, Tx
<1> QED  BY <1>1, <1>2, <1>5

LEMMA AppliedTyped ==
  ASSUME NEW row \in Row, NEW change \in Change
  PROVE  /\ Applied(row, change) \in Row
         /\ Applied(row, change).exists = row.exists
BY DEF Applied, Row, Change

\* A change that takes no active owner away leaves an active owner one.
LEMMA KeepsOwner ==
  ASSUME NEW row \in Row, NEW change \in Change,
         ActiveOwner(row), ~ removesOwner(row, change)
  PROVE  ActiveOwner(Applied(row, change))
BY DEF ActiveOwner, removesOwner, Applied, Row, Change

LEMMA InitGuard == Init => GuardInv
<1> SUFFICES ASSUME Init PROVE GuardInv
  OBVIOUS
<1>1. TypeOK
  BY IdleTyped, MembersAssumption DEF Init, TypeOK
<1>2. \A s \in Session : tx[s].pc = "idle"
  BY DEF Init, Idle
<1> QED  BY <1>1, <1>2 DEF GuardInv, Holding, SnapshotIsCurrent, CommitIsSafe

-----------------------------------------------------------------------------
(***************************************************************************)
(* One lemma per action.                                                   *)
(***************************************************************************)
LEMMA CreateMemberStep ==
  ASSUME GuardInv, NEW m \in Member, NEW role \in Role, CreateMember(m, role)
  PROVE  GuardInv'
<1> USE DEF GuardInv
<1>1. TypeOK'
  <2>1. [exists |-> TRUE, role |-> role, active |-> TRUE] \in Row
    BY DEF Row
  <2> QED  BY <2>1 DEF TypeOK, CreateMember
<1>2. \A n \in Member : member[n].exists => n # m /\ member'[n] = member[n]
  BY DEF CreateMember, TypeOK
<1>3. Holding'
  BY DEF Holding, CreateMember, Key
<1>4. SnapshotIsCurrent'
  BY <1>2 DEF SnapshotIsCurrent, CreateMember
<1>5. CommitIsSafe'
  <2> SUFFICES ASSUME NEW s \in Session, tx[s].pc = "commit"
               PROVE  /\ member'[tx[s].id].exists
                      /\ Home[tx[s].id] = tx[s].household
                      /\ \/ ~ removesOwner(member'[tx[s].id], tx[s].change)
                         \/ otherActiveOwner(member', tx[s].household, tx[s].id)
    BY DEF CommitIsSafe, CreateMember, otherActiveOwner, removesOwner
  <2>1. tx[s].id \in Member
    BY DEF TypeOK, Tx
  <2>2. member'[tx[s].id] = member[tx[s].id] /\ member[tx[s].id].exists
    BY <1>2, <2>1 DEF CommitIsSafe
  <2>3. otherActiveOwner(member, tx[s].household, tx[s].id)
          => otherActiveOwner(member', tx[s].household, tx[s].id)
    BY <1>2 DEF otherActiveOwner, ActiveOwner
  <2> QED  BY <2>2, <2>3 DEF CommitIsSafe
<1> QED  BY <1>1, <1>3, <1>4, <1>5

LEMMA BeginStep ==
  ASSUME GuardInv, NEW s \in Session, NEW household \in Household, NEW id \in Member,
         NEW change \in Change, Begin(s, household, id, change)
  PROVE  GuardInv'
<1> USE DEF GuardInv
<1>1. TypeOK'
  BY IdleTyped DEF TypeOK, Begin, Tx
<1>2. tx'[s].pc = "lock" /\ \A t \in Session \ {s} : tx'[t] = tx[t]
  BY DEF TypeOK, Begin
<1>3. Holding' /\ SnapshotIsCurrent' /\ CommitIsSafe'
  BY <1>2 DEF Holding, SnapshotIsCurrent, CommitIsSafe, Begin, Key, otherActiveOwner, removesOwner
<1> QED  BY <1>1, <1>3

LEMMA LockStep ==
  ASSUME GuardInv, NEW s \in Session, lockHousehold(s)
  PROVE  GuardInv'
<1> USE DEF GuardInv
<1>1. Key(s) \in LockKey /\ s \in Session
  BY MembersAssumption DEF TypeOK, Tx, Key
<1>2. TypeOK'
  BY <1>1 DEF TypeOK, lockHousehold, Go, Tx
<1>3. tx'[s].pc = "locked" /\ tx'[s].household = tx[s].household
  BY DEF TypeOK, lockHousehold, Go, Tx
<1>4. \A t \in Session \ {s} : tx'[t] = tx[t]
  BY DEF TypeOK, lockHousehold, Go
<1>5. Holding'
  <2> SUFFICES ASSUME NEW t \in Session,
                      tx'[t].pc \in {"locked", "update", "explain", "commit"}
               PROVE  lock'[hashtext[tx'[t].household]] = t
    BY DEF Holding, Key
  <2>1. CASE t = s
    BY <1>1, <1>3, <2>1 DEF lockHousehold, Key, TypeOK
  <2>2. CASE t # s
    <3>1. tx'[t] = tx[t] /\ lock[Key(t)] = t
      BY <1>4, <2>2 DEF Holding
    <3>2. Key(t) # Key(s)
      BY <3>1, MembersAssumption DEF lockHousehold, lockFree
    <3> QED  BY <3>1, <3>2, <1>1 DEF lockHousehold, TypeOK, Key
  <2> QED  BY <2>1, <2>2
<1>6. SnapshotIsCurrent' /\ CommitIsSafe'
  BY <1>3, <1>4 DEF SnapshotIsCurrent, CommitIsSafe, lockHousehold, otherActiveOwner, removesOwner
<1> QED  BY <1>2, <1>5, <1>6

LEMMA StartUpdateStep ==
  ASSUME GuardInv, NEW s \in Session, StartUpdate(s)
  PROVE  GuardInv'
<1> USE DEF GuardInv
<1>1. TypeOK'
  BY ZenonT(60) DEF TypeOK, StartUpdate, Tx
<1>2. /\ tx'[s].pc = "update" /\ tx'[s].household = tx[s].household
      /\ tx'[s].snapshot = member
  BY DEF TypeOK, StartUpdate, Tx
<1>3. \A t \in Session \ {s} : tx'[t] = tx[t]
  BY DEF TypeOK, StartUpdate
<1>4. Holding'
  BY <1>2, <1>3 DEF Holding, StartUpdate, Key, At
<1>5. member' = member
  BY DEF StartUpdate
<1>6. SnapshotIsCurrent'
  BY <1>2, <1>3, <1>5 DEF SnapshotIsCurrent
<1>7. CommitIsSafe'
  BY <1>2, <1>3, <1>5 DEF CommitIsSafe, otherActiveOwner, removesOwner
<1> QED  BY <1>1, <1>4, <1>6, <1>7

LEMMA UpdateStep ==
  ASSUME GuardInv, NEW s \in Session, Update(s)
  PROVE  GuardInv'
<1> USE DEF GuardInv
<1>1. TypeOK'
  BY IdleTyped DEF TypeOK, Update, Tx
<1>2. /\ tx'[s].pc = IF matches(s) THEN "commit" ELSE "explain"
      /\ tx'[s].household = tx[s].household
      /\ tx'[s].id = tx[s].id
      /\ tx'[s].change = tx[s].change
  BY DEF TypeOK, Update, Tx
<1>3. \A t \in Session \ {s} : tx'[t] = tx[t]
  BY DEF TypeOK, Update
<1>4. member' = member /\ lock' = lock /\ tx[s].pc = "update"
  BY DEF Update, At
<1>5. Holding'
  BY <1>2, <1>3, <1>4 DEF Holding, Key
<1>6. SnapshotIsCurrent'
  BY <1>2, <1>3, <1>4 DEF SnapshotIsCurrent
<1>7. CommitIsSafe'
  <2> SUFFICES ASSUME matches(s)
               PROVE  /\ member[tx[s].id].exists
                      /\ Home[tx[s].id] = tx[s].household
                      /\ \/ ~ removesOwner(member[tx[s].id], tx[s].change)
                         \/ otherActiveOwner(member, tx[s].household, tx[s].id)
    BY <1>2, <1>3, <1>4 DEF CommitIsSafe, otherActiveOwner, removesOwner
  <2>1. tx[s].id \in Member
    BY DEF TypeOK, Tx
  <2>2. member[tx[s].id] = tx[s].snapshot[tx[s].id]
    BY <1>4, <2>1 DEF matches, SnapshotIsCurrent
  <2>3. otherActiveOwner(tx[s].snapshot, tx[s].household, tx[s].id)
          => otherActiveOwner(member, tx[s].household, tx[s].id)
    BY <1>4 DEF otherActiveOwner, ActiveOwner, SnapshotIsCurrent
  <2> QED  BY <2>2, <2>3 DEF matches
<1> QED  BY <1>1, <1>5, <1>6, <1>7

\* Ending a transaction gives up no lock but its own.
LEMMA ReturnFrame ==
  ASSUME GuardInv, NEW s \in Session, Return(s)
  PROVE  /\ lock' \in [LockKey -> Session \cup {NoSession}]
         /\ tx' \in [Session -> Tx]
         /\ tx'[s].pc = "idle"
         /\ \A t \in Session \ {s} : tx'[t] = tx[t]
         /\ Holding'
<1> USE DEF GuardInv
<1>1. lock' \in [LockKey -> Session \cup {NoSession}] /\ tx' \in [Session -> Tx]
  BY IdleTyped DEF Return, released, TypeOK
<1>2. tx'[s].pc = "idle" /\ \A t \in Session \ {s} : tx'[t] = tx[t]
  BY DEF Return, TypeOK, Idle
<1>3. \A t \in Session : Key(t) \in LockKey
  BY MembersAssumption DEF TypeOK, Tx, Key
<1>4. Holding'
  <2> SUFFICES ASSUME NEW t \in Session,
                      tx'[t].pc \in {"locked", "update", "explain", "commit"}
               PROVE  lock'[hashtext[tx'[t].household]] = t
    BY DEF Holding, Key
  <2>1. t # s /\ tx'[t] = tx[t] /\ lock[Key(t)] = t
    BY <1>2 DEF Holding
  <2> QED  BY <1>3, <2>1 DEF Return, released, Key
<1> QED  BY <1>1, <1>2, <1>4

\* A transaction that is rolled back.
LEMMA AbortStep ==
  ASSUME GuardInv, NEW s \in Session, Return(s), UNCHANGED member
  PROVE  GuardInv'
<1>1. TypeOK' /\ Holding'
  BY ReturnFrame DEF GuardInv, TypeOK
<1>2. SnapshotIsCurrent' /\ CommitIsSafe'
  BY ReturnFrame DEF GuardInv, SnapshotIsCurrent, CommitIsSafe, otherActiveOwner, removesOwner
<1> QED  BY <1>1, <1>2 DEF GuardInv

\* What a commit does to the table.
LEMMA CommitFrame ==
  ASSUME GuardInv, NEW s \in Session, Commit(s)
  PROVE  /\ member' \in [Member -> Row]
         /\ tx[s].id \in Member /\ Home[tx[s].id] = tx[s].household
         /\ member'[tx[s].id] = Applied(member[tx[s].id], tx[s].change)
         /\ member[tx[s].id] \in Row /\ tx[s].change \in Change
         /\ \A m \in Member \ {tx[s].id} : member'[m] = member[m]
<1>1. tx[s].id \in Member /\ member[tx[s].id] \in Row /\ tx[s].change \in Change
  BY DEF GuardInv, TypeOK, Tx
<1>2. Applied(member[tx[s].id], tx[s].change) \in Row
  BY <1>1, AppliedTyped
<1> QED  BY <1>1, <1>2 DEF GuardInv, TypeOK, CommitIsSafe, Commit, At

LEMMA CommitStep ==
  ASSUME GuardInv, NEW s \in Session, Commit(s)
  PROVE  GuardInv'
<1>1. TypeOK' /\ Holding'
  BY ReturnFrame, CommitFrame DEF GuardInv, TypeOK, Commit
<1>2. ASSUME NEW t \in Session, tx'[t].pc \in {"update", "commit"}
      PROVE  /\ tx'[t] = tx[t]
             /\ \A m \in Member : Home[m] = tx[t].household => member'[m] = member[m]
  <2>1. t # s /\ tx'[t] = tx[t]
    BY <1>2, ReturnFrame DEF Commit
  <2>2. tx[t].household # tx[s].household
    BY <1>2, <2>1, Alone DEF Commit, At
  <2> QED  BY <2>1, <2>2, CommitFrame
<1>3. SnapshotIsCurrent'
  BY <1>2 DEF GuardInv, SnapshotIsCurrent
<1>4. CommitIsSafe'
  <2> SUFFICES ASSUME NEW t \in Session, tx'[t].pc = "commit"
               PROVE  /\ member'[tx[t].id].exists
                      /\ Home[tx[t].id] = tx[t].household
                      /\ \/ ~ removesOwner(member'[tx[t].id], tx[t].change)
                         \/ otherActiveOwner(member', tx[t].household, tx[t].id)
    BY <1>2 DEF CommitIsSafe, otherActiveOwner, removesOwner
  <2>1. tx[t].id \in Member /\ tx[t].pc = "commit"
    BY <1>2 DEF GuardInv, TypeOK, Tx
  <2>2. Home[tx[t].id] = tx[t].household /\ member'[tx[t].id] = member[tx[t].id]
    BY <1>2, <2>1 DEF GuardInv, CommitIsSafe
  <2>3. otherActiveOwner(member, tx[t].household, tx[t].id)
          => otherActiveOwner(member', tx[t].household, tx[t].id)
    BY <1>2 DEF otherActiveOwner
  <2> QED  BY <2>1, <2>2, <2>3 DEF GuardInv, CommitIsSafe
<1> QED  BY <1>1, <1>3, <1>4 DEF GuardInv

-----------------------------------------------------------------------------
LEMMA ChangeTyped ==
  /\ \A role \in Role : Profile(role) \in Change
  /\ \A flag \in BOOLEAN : Active(flag) \in Change
BY MembersAssumption DEF Profile, Active, Change

LEMMA NextStep == GuardInv /\ [Next]_vars => GuardInv'
<1> SUFFICES ASSUME GuardInv, [Next]_vars PROVE GuardInv'
  OBVIOUS
<1>1. CASE UNCHANGED vars
  BY <1>1 DEF vars, GuardInv, TypeOK, Holding, SnapshotIsCurrent, CommitIsSafe, Key,
              otherActiveOwner, removesOwner
<1>2. CASE \E m \in Member, role \in Role : CreateMember(m, role)
  BY <1>2, CreateMemberStep
<1>3. ASSUME NEW s \in Session, Call(s) PROVE GuardInv'
  BY <1>3, BeginStep, ChangeTyped DEF Call, UpdateMemberProfile, SetMemberActive
<1>4. ASSUME NEW s \in Session, lockHousehold(s) PROVE GuardInv'
  BY <1>4, LockStep
<1>5. ASSUME NEW s \in Session, Advance(s) PROVE GuardInv'
  BY <1>5, StartUpdateStep, UpdateStep, CommitStep, AbortStep
     DEF Advance, memberWriteFailureReason
<1>6. ASSUME NEW s \in Session, Rollback(s) PROVE GuardInv'
  BY <1>6, AbortStep DEF Rollback
<1> QED  BY <1>1, <1>2, <1>3, <1>4, <1>5, <1>6 DEF Next

\* No step, commit or otherwise, takes a household's last active owner.
LEMMA OwnersStep ==
  ASSUME GuardInv, [Next]_vars, NEW h \in Household, HasActiveOwner(h)
  PROVE  HasActiveOwner(h)'
<1> PICK w \in Member : Home[w] = h /\ ActiveOwner(member[w])
  BY DEF HasActiveOwner
<1>1. CASE UNCHANGED member
  BY <1>1 DEF HasActiveOwner, ActiveOwner
<1>2. ASSUME NEW m \in Member, NEW role \in Role, CreateMember(m, role)
      PROVE  HasActiveOwner(h)'
  <2>1. w # m
    BY <1>2 DEF CreateMember, ActiveOwner
  <2>2. member'[w] = member[w]
    BY <1>2, <2>1 DEF CreateMember, GuardInv, TypeOK
  <2> QED  BY <2>2 DEF HasActiveOwner, ActiveOwner
<1>3. ASSUME NEW s \in Session, Commit(s)
      PROVE  HasActiveOwner(h)'
  <2>1. CASE w # tx[s].id
    <3>1. member'[w] = member[w]
      BY <1>3, <2>1, CommitFrame
    <3> QED  BY <3>1 DEF HasActiveOwner, ActiveOwner
  <2>2. CASE w = tx[s].id /\ ~ removesOwner(member[w], tx[s].change)
    <3>1. ActiveOwner(member'[w])
      BY <1>3, <2>2, CommitFrame, KeepsOwner
    <3> QED  BY <3>1 DEF HasActiveOwner, ActiveOwner
  <2>3. CASE w = tx[s].id /\ removesOwner(member[w], tx[s].change)
    <3>1. otherActiveOwner(member, tx[s].household, tx[s].id) /\ tx[s].household = h
      BY <1>3, <2>3, CommitFrame DEF GuardInv, CommitIsSafe, Commit, At
    <3>2. PICK o \in Member : o # w /\ Home[o] = h /\ ActiveOwner(member[o])
      BY <2>3, <3>1 DEF otherActiveOwner
    <3>3. member'[o] = member[o]
      BY <1>3, <2>3, <3>2, CommitFrame
    <3> QED  BY <3>2, <3>3 DEF HasActiveOwner, ActiveOwner
  <2> QED  BY <2>1, <2>2, <2>3
<1>4. CASE Next
  BY <1>1, <1>2, <1>3, <1>4
     DEF Next, Call, UpdateMemberProfile, SetMemberActive, Begin, lockHousehold,
         Advance, StartUpdate, Update, memberWriteFailureReason, Rollback
<1> QED  BY <1>1, <1>4 DEF vars

-----------------------------------------------------------------------------
(***************************************************************************)
(* A refusal is due.                                                       *)
(***************************************************************************)
\* No step deletes a row, and one of a session that is past its lock
\* statement is changed by that session alone.
LEMMA RowsStand ==
  ASSUME GuardInv, [Next]_vars, NEW m \in Member, member[m].exists
  PROVE  /\ member'[m].exists
         /\ \A s \in Session :
              /\ tx[s].pc \in {"locked", "update", "explain"}
              /\ Home[m] = tx[s].household
              => member'[m] = member[m]
<1>1. CASE UNCHANGED member
  BY <1>1
<1>2. ASSUME NEW n \in Member, NEW role \in Role, CreateMember(n, role)
      PROVE  member'[m] = member[m]
  BY <1>2 DEF CreateMember, GuardInv, TypeOK
<1>3. ASSUME NEW t \in Session, Commit(t)
      PROVE  /\ member'[m].exists
             /\ \A s \in Session :
                  /\ tx[s].pc \in {"locked", "update", "explain"}
                  /\ Home[m] = tx[s].household
                  => member'[m] = member[m]
  <2>1. member'[m].exists
    BY <1>3, CommitFrame, AppliedTyped
  <2>2. ASSUME NEW s \in Session, tx[s].pc \in {"locked", "update", "explain"},
               Home[m] = tx[s].household
        PROVE  member'[m] = member[m]
    <3>1. tx[t].pc = "commit" /\ s # t
      BY <1>3, <2>2 DEF Commit, At
    <3>2. tx[t].household # tx[s].household
      BY <2>2, <3>1, Alone
    <3> QED  BY <1>3, <2>2, <3>2, CommitFrame
  <2> QED  BY <2>1, <2>2
<1>4. CASE Next
  BY <1>1, <1>2, <1>3, <1>4
     DEF Next, Call, UpdateMemberProfile, SetMemberActive, Begin, lockHousehold,
         Advance, StartUpdate, Update, memberWriteFailureReason, Rollback
<1> QED  BY <1>1, <1>4 DEF vars

\* What a step makes of a session's transaction.
LEMMA TxMoves ==
  ASSUME GuardInv, [Next]_vars, NEW s \in Session
  PROVE  \/ tx'[s] = tx[s]
         \/ tx'[s].pc = "idle"
         \/ tx'[s].pc = "lock" /\ tx'[s].id \in Member /\ member[tx'[s].id].exists
         \/ tx'[s].pc = "locked" /\ tx[s].pc = "lock" /\ tx'[s].id = tx[s].id
         \/ StartUpdate(s)
         \/ Update(s)
<1>1. CASE UNCHANGED vars
  BY <1>1 DEF vars
<1>2. CASE \E m \in Member, role \in Role : CreateMember(m, role)
  BY <1>2 DEF CreateMember
<1>3. ASSUME NEW t \in Session, t # s,
             Call(t) \/ lockHousehold(t) \/ Advance(t) \/ Rollback(t)
      PROVE  tx'[s] = tx[s]
  <2>1. tx' = [tx EXCEPT ![t] = tx'[t]]
    BY <1>3 DEF GuardInv, TypeOK, Call, UpdateMemberProfile, SetMemberActive, Begin,
                lockHousehold, Go, Advance, StartUpdate, Update,
                memberWriteFailureReason, Commit, Rollback, Return
  <2> QED  BY <1>3, <2>1 DEF GuardInv, TypeOK
<1>4. CASE Call(s)
  <2>1. PICK household \in Household, id \in Member : \E change : Begin(s, household, id, change)
    BY <1>4 DEF Call, UpdateMemberProfile, SetMemberActive
  <2> QED  BY <2>1 DEF Begin, GuardInv, TypeOK
<1>5. CASE lockHousehold(s)
  BY <1>5 DEF lockHousehold, Go, At, GuardInv, TypeOK, Tx
<1>6. CASE memberWriteFailureReason(s) \/ Commit(s) \/ Rollback(s)
  BY <1>6, ReturnFrame DEF memberWriteFailureReason, Commit, Rollback
<1> QED  BY <1>1, <1>2, <1>3, <1>4, <1>5, <1>6 DEF Next, Advance

LEMMA RefusalStep == IInv /\ [Next]_vars => TargetIsKnown' /\ RefusalIsDue'
<1> SUFFICES ASSUME IInv, [Next]_vars, NEW s \in Session
             PROVE  /\ tx'[s].pc # "idle" => member'[tx'[s].id].exists
                    /\ tx'[s].pc = "update" => tx'[s].snapshot[tx'[s].id].exists
                    /\ tx'[s].pc = "explain" /\ Home[tx'[s].id] = tx'[s].household =>
                         removesOwner(member'[tx'[s].id], tx'[s].change)
  BY DEF TargetIsKnown, RefusalIsDue, removesOwner
<1>t. tx[s].pc # "idle" => member[tx[s].id].exists
  BY DEF IInv, TargetIsKnown
<1>i. tx[s].id \in Member
  BY DEF IInv, GuardInv, TypeOK, Tx
<1>1. CASE tx'[s] = tx[s]
  <2>1. tx[s].pc # "idle" => member'[tx[s].id].exists
    BY <1>t, <1>i, RowsStand DEF IInv
  <2>2. tx[s].pc = "explain" /\ Home[tx[s].id] = tx[s].household =>
          member'[tx[s].id] = member[tx[s].id]
    BY <1>t, <1>i, RowsStand DEF IInv
  <2> QED  BY <1>1, <2>1, <2>2 DEF IInv, TargetIsKnown, RefusalIsDue
<1>2. CASE tx'[s].pc = "idle"
  BY <1>2
<1>3. CASE tx'[s].pc = "lock" /\ tx'[s].id \in Member /\ member[tx'[s].id].exists
  BY <1>3, RowsStand DEF IInv
<1>4. CASE tx'[s].pc = "locked" /\ tx[s].pc = "lock" /\ tx'[s].id = tx[s].id
  BY <1>4, <1>t, <1>i, RowsStand DEF IInv
<1>5. CASE StartUpdate(s)
  <2>1. /\ tx'[s].pc = "update" /\ tx'[s].id = tx[s].id /\ tx'[s].snapshot = member
        /\ member' = member /\ tx[s].pc = "locked"
    BY <1>5 DEF StartUpdate, At, IInv, GuardInv, TypeOK, Tx
  <2> QED  BY <2>1, <1>t, <1>i
<1>6. CASE Update(s)
  <2>1. /\ tx'[s].pc = IF matches(s) THEN "commit" ELSE "explain"
        /\ tx'[s].id = tx[s].id /\ tx'[s].household = tx[s].household
        /\ tx'[s].change = tx[s].change
        /\ member' = member /\ tx[s].pc = "update"
    BY <1>6 DEF Update, At, IInv, GuardInv, TypeOK, Tx
  <2>2. tx[s].snapshot[tx[s].id].exists
    BY <2>1 DEF IInv, TargetIsKnown
  <2>3. ASSUME ~ matches(s), Home[tx[s].id] = tx[s].household
        PROVE  removesOwner(member[tx[s].id], tx[s].change)
    <3>1. removesOwner(tx[s].snapshot[tx[s].id], tx[s].change)
      BY <2>2, <2>3 DEF matches
    <3>2. member[tx[s].id] = tx[s].snapshot[tx[s].id]
      BY <2>1, <2>2, <2>3, <1>i DEF IInv, GuardInv, SnapshotIsCurrent
    <3> QED  BY <3>1, <3>2
  <2> QED  BY <2>1, <2>3, <1>t, <1>i
<1> QED  BY <1>1, <1>2, <1>3, <1>4, <1>5, <1>6, TxMoves DEF IInv

-----------------------------------------------------------------------------
\* The lock and the snapshot taken under it keep what the last-active-owner
\* guard saw true until the transaction commits, or until its refusal is
\* explained.
THEOREM GuardHolds == Spec => []IInv
<1>1. Init => IInv
  <2> SUFFICES ASSUME Init PROVE IInv
    OBVIOUS
  <2>1. \A s \in Session : tx[s].pc = "idle"
    BY DEF Init, Idle
  <2> QED  BY <2>1, InitGuard DEF IInv, TargetIsKnown, RefusalIsDue
<1>2. IInv /\ [Next]_vars => IInv'
  BY NextStep, RefusalStep DEF IInv
<1> QED  BY <1>1, <1>2, PTL DEF Spec

\* However demotions and deactivations interleave, a household that has an
\* active owner keeps one (ErrLastActiveOwner's promise).
THEOREM OwnersAlwaysRemain == Spec => OwnersRemain
<1>1. IInv /\ [Next]_vars =>
        [\A h \in Household : HasActiveOwner(h) => HasActiveOwner(h)']_vars
  BY OwnersStep DEF IInv
<1> QED  BY <1>1, GuardHolds, PTL DEF Spec, OwnersRemain

\* ErrLastActiveOwner is never answered to a change that would have left the
\* owner an active one, or that named another household's member: what the
\* UPDATE's snapshot showed of the row is still there when
\* memberWriteFailureReason looks again.
THEOREM RefusalsAreAlwaysJustified == Spec => RefusalsAreJustified
<1> DEFINE Justified(s) ==
             /\ Home[tx[s].id] = tx[s].household
             /\ ActiveOwner(member[tx[s].id])
             /\ ~ ActiveOwner(Applied(member[tx[s].id], tx[s].change))
<1>1. ASSUME IInv, NEW s \in Session, memberWriteFailureReason(s),
             failureReason(s) = "last active owner"
      PROVE  Justified(s)
  <2>1. tx[s].pc = "explain" /\ tx[s].id \in Member /\ tx[s].change \in Change
        /\ member[tx[s].id] \in Row
    BY <1>1 DEF memberWriteFailureReason, At, IInv, GuardInv, TypeOK, Tx
  <2>2. member[tx[s].id].exists /\ Home[tx[s].id] = tx[s].household
    BY <1>1 DEF failureReason
  <2>3. removesOwner(member[tx[s].id], tx[s].change)
    BY <1>1, <2>1, <2>2 DEF IInv, RefusalIsDue
  <2>4. ActiveOwner(member[tx[s].id])
    BY <2>2, <2>3 DEF removesOwner, ActiveOwner
  <2>5. ~ ActiveOwner(Applied(member[tx[s].id], tx[s].change))
    BY <2>1, <2>3 DEF removesOwner, Applied, ActiveOwner, Row, Change
  <2> QED  BY <2>2, <2>4, <2>5
<1>2. IInv /\ [Next]_vars =>
        [\A s \in Session :
           memberWriteFailureReason(s) /\ failureReason(s) = "last active owner" =>
             Justified(s)]_vars
  BY <1>1
<1> QED  BY <1>2, GuardHolds, PTL DEF Spec, RefusalsAreJustified

\* The states of the repository are well typed.
THEOREM MembersTypeCorrect == Spec => []TypeOK
<1>1. IInv => TypeOK
  BY DEF IInv, GuardInv
<1> QED  BY <1>1, GuardHolds, PTL

-----------------------------------------------------------------------------
(***************************************************************************)
(* What the steps are to the table without transactions, OwnedHouseholds.  *)
(***************************************************************************)
\* A household has owners there when it has an active owner here.
LEMMA SameOwners ==
  ASSUME NEW h, NEW rows
  PROVE  Owned!Owners(h, rows) # {} <=> \E m \in Member : Home[m] = h /\ ActiveOwner(rows[m])
BY DEF Owned!Owners, ActiveOwner

\* A change sets one field of its row.
LEMMA AppliedSetsOneField ==
  ASSUME NEW row \in Row, NEW change \in Change
  PROVE  \/ \E role \in Role : Applied(row, change) = [row EXCEPT !.role = role]
         \/ \E active \in BOOLEAN : Applied(row, change) = [row EXCEPT !.active = active]
<1>1. change.role \in Role /\ change.active \in BOOLEAN
  BY DEF Change
<1> QED  BY <1>1 DEF Applied

\* A commit is a guarded change made at one stroke.
LEMMA CommitIsChange ==
  ASSUME GuardInv, NEW s \in Session, Commit(s)
  PROVE  Owned!Change(tx[s].id)
<1> DEFINE id == tx[s].id
           row == member[id]
<1>1. id \in Member /\ row \in Row /\ tx[s].change \in Change
  BY CommitFrame
<1>2. row.exists
  BY DEF GuardInv, CommitIsSafe, Commit, At
<1>3. member' = [member EXCEPT ![id] = Applied(row, tx[s].change)]
  BY DEF Commit
<1>4. \/ \E role \in Role : member' = [member EXCEPT ![id].role = role]
      \/ \E active \in BOOLEAN : member' = [member EXCEPT ![id].active = active]
  BY <1>1, <1>3, AppliedSetsOneField
<1>5. ASSUME NEW h \in Household, Owned!Owners(h, member) # {}
      PROVE  Owned!Owners(h, member') # {}
  <2>1. HasActiveOwner(h)
    BY <1>5, SameOwners DEF HasActiveOwner
  <2>2. [Next]_vars
    BY DEF Next, Advance
  <2>3. HasActiveOwner(h)'
    BY <2>1, <2>2, OwnersStep
  <2>4. \E m \in Member : Home[m] = h /\ ActiveOwner(member'[m])
    BY <2>3 DEF HasActiveOwner, ActiveOwner
  <2> QED  BY <2>4, SameOwners
<1> QED  BY <1>2, <1>4, <1>5 DEF Owned!Change

\* Every step is a step of the table without transactions, or changes nothing
\* in it.
LEMMA OwnedStep ==
  ASSUME GuardInv, [Next]_vars
  PROVE  [Owned!Next]_member
<1>1. CASE UNCHANGED member
  BY <1>1
<1>2. ASSUME NEW m \in Member, NEW role \in Role, CreateMember(m, role)
      PROVE  Owned!Next
  BY <1>2 DEF CreateMember, Owned!Create, Owned!Next
<1>3. ASSUME NEW s \in Session, Commit(s)
      PROVE  Owned!Next
  BY <1>3, CommitIsChange, CommitFrame DEF Owned!Next
<1>4. CASE Next
  BY <1>1, <1>2, <1>3, <1>4
     DEF Next, Call, UpdateMemberProfile, SetMemberActive, Begin, lockHousehold,
         Advance, StartUpdate, Update, memberWriteFailureReason, Rollback
<1> QED  BY <1>1, <1>4 DEF vars

\* The repository's transactions implement guarded changes made at one stroke:
\* what the UPDATE decided on its snapshot is right of the table it commits to.
THEOREM MembersImplementsOwned == Spec => ImplementsOwned
<1>1. Init => Owned!Init
  BY DEF Init, NoRows, NoRow, Owned!Init
<1>2. IInv /\ [Next]_vars => [Owned!Next]_member
  BY OwnedStep DEF IInv
<1> QED  BY <1>1, <1>2, GuardHolds, PTL DEF Spec, ImplementsOwned, Owned!Spec

=============================================================================
