-------------------------- MODULE MigrationsProofs --------------------------
(***************************************************************************)
(* The recorded versions have no gaps, races at start-up fail nobody and a *)
(* binary serves on a complete schema, for any number of processes, builds *)
(* and versions.                                                           *)
(***************************************************************************)
EXTENDS Migrations, WellFoundedInduction, TLAPS

\* A nonempty set of versions has a first one.
LEMMA FirstOf ==
  ASSUME NEW I \in SUBSET Nat, I # {}
  PROVE  Min(I) \in I /\ \A i \in I : Min(I) <= i
<1>1. PICK m \in I : \A i \in I : ~ (<<i, m>> \in OpToRel(<, Nat))
  BY NatLessThanWellFounded, WFMin
<1>2. \A i \in I : m <= i
  <2> SUFFICES ASSUME NEW i \in I PROVE ~ (i < m)
    OBVIOUS
  <2>1. i < m => <<i, m>> \in OpToRel(<, Nat)
    BY DEF OpToRel
  <2> QED  BY <1>1, <2>1
<1>3. \E x \in I : \A y \in I : x <= y
  BY <1>2
<1> QED  BY <1>3 DEF Min

\* A bounded one has a last one: the first number none of them exceeds.
LEMMA LastOf ==
  ASSUME NEW n \in Nat, NEW I \in SUBSET (0 .. n), I # {}
  PROVE  Max(I) \in I /\ \A i \in I : i <= Max(I)
<1> DEFINE B == {b \in Nat : \A i \in I : i <= b}
<1>1. B \in SUBSET Nat /\ n \in B
  OBVIOUS
<1> DEFINE m == Min(B)
<1>2. m \in B /\ \A b \in B : m <= b
  <2> HIDE DEF B
  <2> QED  BY <1>1, FirstOf
<1>3. m \in Nat /\ \A i \in I : i <= m
  BY <1>2
<1>4. m \in I
  <2> SUFFICES ASSUME m \notin I PROVE FALSE
    OBVIOUS
  <2>1. \A i \in I : i < m
    BY <1>3
  <2>2. m # 0
    <3>1. PICK i \in I : TRUE
      OBVIOUS
    <3>2. i < m /\ i \in 0 .. n
      BY <2>1
    <3> HIDE DEF m
    <3> QED  BY <1>3, <3>2
  <2>3. m - 1 \in B
    BY <1>3, <2>1, <2>2
  <2> HIDE DEF m
  <2> QED  BY <1>2, <1>3, <2>3
<1>5. \E x \in I : \A y \in I : x >= y
  BY <1>3, <1>4
<1> QED  BY <1>5 DEF Max

LEMMA BuiltTyped ==
  ASSUME NEW p \in Process
  PROVE  Built[p] \in Nat /\ Built[p] \in Version
BY MigrationsAssumption DEF Version

LEMMA IdleTyped == Idle \in State /\ Idle.pc = "idle"
BY MigrationsAssumption DEF Idle, State, Operation

LEMMA InitIInv == Init => IInv
<1> SUFFICES ASSUME Init PROVE IInv
  OBVIOUS
<1>1. process \in [Process -> State] /\ \A p \in Process : process[p].pc = "idle"
  BY IdleTyped DEF Init
<1>2. TypeOK
  BY <1>1, MigrationsAssumption DEF Init, TypeOK
<1> QED
  BY <1>1, <1>2 DEF IInv, Init, PlannersHoldLock, UpgradeIsCurrent, RollbackIsCurrent, NoGaps,
                    RacesAreHarmless, ServedSchemaIsComplete, At

-----------------------------------------------------------------------------
(***************************************************************************)
(* One lemma per action.                                                   *)
(***************************************************************************)
\* Two processes that have planned are one.
LEMMA OnePlanner ==
  ASSUME IInv, NEW p \in Process, NEW q \in Process,
         process[p].pc \in {"plan", "run"}, process[q].pc \in {"plan", "run"}
  PROVE  p = q
BY DEF IInv, PlannersHoldLock

\* A step of a process that ends without the lock and touches no version.
LEMMA Aside ==
  ASSUME IInv, NEW p \in Process, NEW s \in State,
         process' = [process EXCEPT ![p] = s], lock' = released(p),
         s.pc \notin {"plan", "run", "conflict"},
         s.pc = "serving" => 1 .. Built[p] \subseteq applied,
         schema' \in BOOLEAN, applied' = applied, reverted' \in {reverted, reverted \ {p}}
  PROVE  IInv'
<1> USE DEF IInv
<1>1. process'[p] = s /\ \A q \in Process \ {p} : process'[q] = process[q]
  BY DEF TypeOK
<1>2. lock' # p /\ \A q \in Process \ {p} : lock' = q <=> lock = q
  BY MigrationsAssumption DEF released
<1>3. TypeOK'
  BY <1>1, <1>2 DEF TypeOK, released
<1>4. PlannersHoldLock'
  BY <1>1, <1>2 DEF PlannersHoldLock
<1>5. UpgradeIsCurrent' /\ RollbackIsCurrent'
  BY <1>1 DEF UpgradeIsCurrent, RollbackIsCurrent, pending, At
<1>6. NoGaps' /\ RacesAreHarmless' /\ ServedSchemaIsComplete'
  BY <1>1 DEF NoGaps, RacesAreHarmless, ServedSchemaIsComplete
<1> QED  BY <1>3, <1>4, <1>5, <1>6

\* A process that has not got as far as the lock does not hold it.
LEMMA NotHolding ==
  ASSUME IInv, NEW p \in Process, process[p].pc \notin {"plan", "run"}
  PROVE  released(p) = lock
BY DEF IInv, TypeOK, released

LEMMA GoTyped ==
  ASSUME IInv, NEW p \in Process,
         NEW pc \in {"check", "create", "lock", "plan", "version"}
  PROVE  /\ [process[p] EXCEPT !.pc = pc] \in State
         /\ [process[p] EXCEPT !.pc = pc].pc = pc
         /\ [process[p] EXCEPT !.pc = pc].op = process[p].op
         /\ [process[p] EXCEPT !.pc = pc].todo = process[p].todo
<1>1. process[p] \in State
  BY DEF IInv, TypeOK
<1> QED  BY <1>1 DEF State

LEMMA StartStep ==
  ASSUME IInv, NEW p \in Process, NEW op \in Operation, NEW booting \in BOOLEAN,
         Start(p, op, booting)
  PROVE  IInv'
<1> DEFINE s == [pc |-> "check", op |-> op, todo |-> {}, booting |-> booting]
<1>1. s \in State /\ s.pc = "check"
  BY DEF State
<1>2. /\ process' = [process EXCEPT ![p] = s]
      /\ UNCHANGED <<schema, applied, lock, reverted>> /\ process[p].pc = "idle"
  BY DEF Start, Become, At
<1>3. released(p) = lock /\ schema \in BOOLEAN
  BY <1>2, NotHolding DEF IInv, TypeOK
<1> HIDE DEF s
<1> QED  BY <1>1, <1>2, <1>3, Aside

LEMMA OperationsTyped ==
  ASSUME NEW version \in 0 .. MaxVersion
  PROVE  /\ [kind |-> "up", target |-> version] \in Operation
         /\ [kind |-> "downTo", target |-> version] \in Operation
         /\ [kind |-> "down", target |-> 0] \in Operation
         /\ [kind |-> "status", target |-> 0] \in Operation
         /\ [kind |-> "require", target |-> 0] \in Operation
BY DEF Operation

LEMMA BootStep ==
  ASSUME IInv, NEW p \in Process, Boot(p)
  PROVE  IInv'
<1>1. Built[p] \in 0 .. MaxVersion
  BY MigrationsAssumption
<1> QED  BY <1>1, StartStep, OperationsTyped DEF Boot

LEMMA OperateStep ==
  ASSUME IInv, NEW p \in Process, Operate(p)
  PROVE  IInv'
<1>1. Built[p] \in 0 .. MaxVersion /\ 0 \in 0 .. MaxVersion /\ Version \subseteq 0 .. MaxVersion
  BY MigrationsAssumption DEF Version
<1>2. CASE Up(p)
  BY <1>1, <1>2, StartStep, OperationsTyped DEF Up
<1>3. ASSUME NEW v \in Version, UpTo(p, v) PROVE IInv'
  BY <1>1, <1>3, StartStep, OperationsTyped DEF UpTo
<1>4. ASSUME NEW v \in 0 .. MaxVersion, DownTo(p, v) PROVE IInv'
  BY <1>4, StartStep, OperationsTyped DEF DownTo
<1>5. CASE Down(p) \/ Status(p)
  BY <1>1, <1>5, StartStep, OperationsTyped DEF Down, Status
<1> QED  BY <1>1, <1>2, <1>3, <1>4, <1>5 DEF Operate, Reset

LEMMA EnsuredStep ==
  ASSUME IInv, NEW p \in Process, process[p].pc \in {"check", "create"},
         NEW pc \in {"create", "lock", "version"}, Go(p, pc),
         schema' \in BOOLEAN, UNCHANGED <<applied, lock, reverted>>
  PROVE  IInv'
<1> DEFINE s == [process[p] EXCEPT !.pc = pc]
<1>1. s \in State /\ s.pc = pc
  BY ZenonT(60), GoTyped
<1>2. process' = [process EXCEPT ![p] = s] /\ released(p) = lock
  BY NotHolding DEF Go
<1> HIDE DEF s
<1> QED  BY <1>1, <1>2, Aside

LEMMA SchemaStep ==
  ASSUME IInv, NEW p \in Process, checkSchema(p) \/ createSchema(p)
  PROVE  IInv'
<1>1. schemaEnsured(p) => \E pc \in {"lock", "version"} : Go(p, pc)
  BY DEF schemaEnsured
<1>2. schema \in BOOLEAN
  BY DEF IInv, TypeOK
<1>3. CASE checkSchema(p)
  <2>1. PICK pc \in {"create", "lock", "version"} : Go(p, pc)
    BY <1>1, <1>3 DEF checkSchema
  <2> QED  BY <1>2, <1>3, <2>1, EnsuredStep DEF checkSchema, At
<1>4. CASE createSchema(p)
  <2>1. PICK pc \in {"create", "lock", "version"} : Go(p, pc)
    BY <1>1, <1>4 DEF createSchema, lostSchemaRace
  <2> QED  BY <1>4, <2>1, EnsuredStep DEF createSchema, At
<1> QED  BY <1>3, <1>4

LEMMA AcquireLockStep ==
  ASSUME IInv, NEW p \in Process, acquireLock(p)
  PROVE  IInv'
<1> USE DEF IInv
<1>1. /\ process' = [process EXCEPT ![p] = [process[p] EXCEPT !.pc = "plan"]]
      /\ lock = NoProcess /\ lock' = p
      /\ UNCHANGED <<schema, applied, reverted>>
  BY DEF acquireLock, Go, lockFree
<1>2. /\ process'[p].pc = "plan"
      /\ \A q \in Process \ {p} : process'[q] = process[q] /\ process[q].pc \notin {"plan", "run"}
  BY <1>1, GoTyped, MigrationsAssumption DEF TypeOK, PlannersHoldLock
<1>3. TypeOK'
  BY <1>1, <1>2, GoTyped DEF TypeOK
<1>4. PlannersHoldLock' /\ UpgradeIsCurrent' /\ RollbackIsCurrent'
  BY <1>1, <1>2 DEF PlannersHoldLock, UpgradeIsCurrent, RollbackIsCurrent, At
<1>5. NoGaps' /\ RacesAreHarmless' /\ ServedSchemaIsComplete'
  BY <1>1, <1>2 DEF NoGaps, RacesAreHarmless, ServedSchemaIsComplete
<1> QED  BY <1>3, <1>4, <1>5

LEMMA PlanStep ==
  ASSUME IInv, NEW p \in Process, plan(p)
  PROVE  IInv'
<1> USE DEF IInv
<1>1. process[p].pc = "plan" /\ UNCHANGED <<schema, applied, reverted>> /\ process[p] \in State
  BY DEF plan, At, TypeOK
<1>2. CASE refused(p)
  BY <1>1, <1>2, IdleTyped, Aside DEF plan, Become, TypeOK
<1>3. CASE ~ refused(p)
  <2> DEFINE s == [process[p] EXCEPT !.pc = "run", !.todo = todo(p)]
  <2>1. process' = [process EXCEPT ![p] = s] /\ lock' = lock
    BY <1>3 DEF plan, Become
  <2>2. todo(p) \subseteq Version
    BY <1>1, MigrationsAssumption DEF todo, pending, TypeOK, Version, State, Operation
  <2>3. s \in State /\ s.pc = "run" /\ s.todo = todo(p) /\ s.op = process[p].op
    BY <1>1, <2>2 DEF State
  <2> HIDE DEF s
  <2>4. process'[p] = s /\ \A q \in Process \ {p} : process'[q] = process[q]
    BY <2>1 DEF TypeOK
  <2>5. TypeOK' /\ PlannersHoldLock'
    BY <1>1, <2>1, <2>3, <2>4 DEF TypeOK, PlannersHoldLock
  <2>6. \A q \in Process \ {p} : process[q].pc \notin {"plan", "run"}
    BY <1>1, OnePlanner
  <2>7. UpgradeIsCurrent'
    <3> SUFFICES ASSUME process[p].op.kind = "up"
                 PROVE  todo(p) = pending(p) /\ \A v \in todo(p), w \in applied : w < v
      BY <1>1, <2>3, <2>4, <2>6 DEF UpgradeIsCurrent, At, pending
    <3>1. todo(p) = pending(p)
      BY DEF todo
    <3>2. \A v \in todo(p), w \in applied : ~ (v < w) /\ v # w
      BY <1>3, <3>1 DEF refused, pending
    <3> QED  BY <2>2, <3>1, <3>2 DEF TypeOK, Version
  <2>8. RollbackIsCurrent'
    <3> SUFFICES ASSUME process[p].op.kind \in {"down", "downTo"}
                 PROVE  /\ todo(p) \subseteq applied
                        /\ \A v \in todo(p), w \in applied : w > v => w \in todo(p)
      BY <1>1, <2>3, <2>4, <2>6 DEF RollbackIsCurrent, At
    <3>1. \A w \in applied : w \in Nat
      <4>1. applied \subseteq Version /\ Version \subseteq Nat
        BY DEF TypeOK, Version
      <4> QED  BY <4>1
    <3>2. CASE process[p].op.kind = "down"
      <4>1. todo(p) = {v \in applied : \A w \in applied : w <= v}
        BY <3>2 DEF todo
      <4> QED  BY <3>1, <4>1
    <3>3. CASE process[p].op.kind = "downTo"
      <4>1. todo(p) = {v \in applied : v > process[p].op.target}
        BY <3>3 DEF todo
      <4>2. process[p].op.target \in Nat
        BY <1>1, MigrationsAssumption DEF State, Operation
      <4> QED  BY <3>1, <4>1, <4>2
    <3> QED  BY <3>2, <3>3
  <2>9. NoGaps' /\ RacesAreHarmless' /\ ServedSchemaIsComplete'
    BY <1>1, <2>3, <2>4 DEF NoGaps, RacesAreHarmless, ServedSchemaIsComplete
  <2> QED  BY <2>5, <2>7, <2>8, <2>9
<1> QED  BY <1>2, <1>3

\* A step of the process that holds the lock which crosses one version off its
\* list; what is left to show of it is what it does to the versions.
LEMMA CrossedOff ==
  ASSUME IInv, NEW p \in Process, process[p].pc = "run", NEW v,
         Become(p, [process[p] EXCEPT !.todo = @ \ {v}])
  PROVE  /\ process' \in [Process -> State]
         /\ process'[p].pc = "run" /\ process'[p].op = process[p].op
         /\ process'[p].todo = process[p].todo \ {v}
         /\ \A q \in Process \ {p} : /\ process'[q] = process[q]
                                     /\ process[q].pc \notin {"plan", "run"}
<1>1. process[p] \in State /\ process \in [Process -> State]
  BY DEF IInv, TypeOK
<1> DEFINE s == [process[p] EXCEPT !.todo = process[p].todo \ {v}]
<1>2. s \in State /\ s.pc = "run" /\ s.op = process[p].op /\ s.todo = process[p].todo \ {v}
  BY <1>1 DEF State
<1>3. process' = [process EXCEPT ![p] = s]
  BY DEF Become
<1> HIDE DEF s
<1>4. \A q \in Process \ {p} : process[q].pc \notin {"plan", "run"}
  BY OnePlanner
<1> QED  BY <1>1, <1>2, <1>3, <1>4

LEMMA RunUpStep ==
  ASSUME IInv, NEW p \in Process, runUp(p)
  PROVE  IInv'
<1> USE DEF IInv
<1> DEFINE T == process[p].todo
           v == Min(T)
<1>1. /\ process[p].pc = "run" /\ process[p].op.kind = "up" /\ T # {}
      /\ UNCHANGED <<schema, lock, reverted>> /\ process[p] \in State
  BY DEF runUp, At, TypeOK
<1>2. T \subseteq Version /\ applied \subseteq Version /\ Version \subseteq Nat
  BY <1>1 DEF State, TypeOK, Version
<1>3. v \in T /\ \A w \in T : v <= w
  <2>1. T \in SUBSET Nat
    BY <1>2
  <2> HIDE DEF T
  <2> QED  BY <1>1, <2>1, FirstOf
<1>4. T = pending(p) /\ \A x \in T, w \in applied : w < x
  BY <1>1 DEF UpgradeIsCurrent, At
<1>5. v \in Version /\ v \notin applied /\ v <= Built[p] /\ v <= process[p].op.target
  BY <1>2, <1>3, <1>4 DEF pending
<1>6. applied' = applied \cup {v} /\ Become(p, [process[p] EXCEPT !.todo = @ \ {v}])
  BY <1>5 DEF runUp
<1> HIDE DEF v
<1>7. /\ process' \in [Process -> State]
      /\ process'[p].pc = "run" /\ process'[p].op = process[p].op
      /\ process'[p].todo = T \ {v}
      /\ \A q \in Process \ {p} : /\ process'[q] = process[q]
                                  /\ process[q].pc \notin {"plan", "run"}
  BY <1>1, <1>6, CrossedOff
<1>8. TypeOK' /\ PlannersHoldLock'
  BY <1>1, <1>2, <1>5, <1>6, <1>7 DEF TypeOK, PlannersHoldLock
<1>9. UpgradeIsCurrent'
  <2>1. T \ {v} = {w \in 1 .. process[p].op.target : w <= Built[p] /\ w \notin applied'}
    BY <1>4, <1>6 DEF pending
  <2>2. \A x \in T \ {v}, w \in applied' : w < x
    <3> SUFFICES ASSUME NEW x \in T \ {v}, NEW w \in applied' PROVE w < x
      OBVIOUS
    <3>1. v <= x /\ x # v /\ x \in Nat /\ v \in Nat
      BY <1>2, <1>3
    <3> QED  BY <1>4, <1>6, <3>1
  <2> QED  BY <1>7, <2>1, <2>2 DEF UpgradeIsCurrent, At, pending
<1>10. RollbackIsCurrent'
  BY <1>1, <1>7 DEF RollbackIsCurrent, At
<1>11. NoGaps'
  <2> SUFFICES ASSUME NEW w \in 1 .. v, w \notin applied PROVE w = v
    BY <1>6 DEF NoGaps
  <2>1. process[p].op.target \in Nat /\ Built[p] \in Nat /\ v \in Nat
    <3>1. process[p].op.target \in 0 .. MaxVersion
      BY <1>1, MigrationsAssumption DEF State, Operation
    <3>2. v \in Nat
      BY <1>2, <1>5
    <3> QED  BY <3>1, <3>2, BuiltTyped, MigrationsAssumption
  <2>2. w \in pending(p)
    BY <1>5, <2>1 DEF pending
  <2> QED  BY <1>3, <1>4, <2>1, <2>2
<1>12. RacesAreHarmless' /\ ServedSchemaIsComplete'
  BY <1>1, <1>6, <1>7 DEF RacesAreHarmless, ServedSchemaIsComplete
<1> QED  BY <1>8, <1>9, <1>10, <1>11, <1>12

LEMMA RunDownStep ==
  ASSUME IInv, NEW p \in Process, runDown(p)
  PROVE  IInv'
<1> USE DEF IInv
<1> DEFINE T == process[p].todo
           v == Max(T)
<1>1. /\ process[p].pc = "run" /\ process[p].op.kind \in {"down", "downTo"} /\ T # {}
      /\ UNCHANGED <<schema, lock>> /\ process[p] \in State
      /\ reverted' = reverted \cup {q \in Process : process[q].pc \in {"version", "serving"}}
  BY DEF runDown, At, TypeOK
<1>2. T \subseteq Version /\ applied \subseteq Version /\ Version \subseteq Nat
  BY <1>1 DEF State, TypeOK, Version
<1>3. v \in T /\ \A w \in T : w <= v
  <2>1. T \in SUBSET (0 .. MaxVersion) /\ MaxVersion \in Nat
    BY <1>2, MigrationsAssumption DEF Version
  <2> HIDE DEF T
  <2> QED  BY <1>1, <2>1, LastOf
<1>4. T \subseteq applied /\ \A x \in T, w \in applied : w > x => w \in T
  BY <1>1 DEF RollbackIsCurrent, At
<1>5. applied' = applied \ {v} /\ Become(p, [process[p] EXCEPT !.todo = @ \ {v}])
  BY <1>3, <1>4 DEF runDown
<1> HIDE DEF v
<1>6. /\ process' \in [Process -> State]
      /\ process'[p].pc = "run" /\ process'[p].op = process[p].op
      /\ process'[p].todo = T \ {v}
      /\ \A q \in Process \ {p} : /\ process'[q] = process[q]
                                  /\ process[q].pc \notin {"plan", "run"}
  BY <1>1, <1>5, CrossedOff
<1>7. TypeOK' /\ PlannersHoldLock'
  BY <1>1, <1>2, <1>5, <1>6 DEF TypeOK, PlannersHoldLock
<1>8. UpgradeIsCurrent'
  BY <1>1, <1>6 DEF UpgradeIsCurrent, At
<1>9. RollbackIsCurrent'
  <2>1. /\ T \ {v} \subseteq applied'
        /\ \A x \in T \ {v}, w \in applied' : w > x => w \in T \ {v}
    BY <1>4, <1>5
  <2> QED  BY <1>6, <2>1 DEF RollbackIsCurrent, At
<1>10. NoGaps'
  <2> SUFFICES ASSUME NEW x \in applied, x # v, NEW w \in 1 .. x PROVE w \in applied /\ w # v
    BY <1>5 DEF NoGaps
  <2>1. w \in applied
    BY DEF NoGaps
  <2>2. x \in Nat /\ v \in Nat /\ v \in T
    BY <1>2, <1>3
  <2>3. ~ (x > v)
    <3>1. x > v => x \in T /\ x <= v
      BY <1>3, <1>4, <2>2
    <3> QED  BY <2>2, <3>1
  <2> QED  BY <2>1, <2>2, <2>3
<1>11. RacesAreHarmless' /\ ServedSchemaIsComplete'
  BY <1>1, <1>6 DEF RacesAreHarmless, ServedSchemaIsComplete
<1> QED  BY <1>7, <1>8, <1>9, <1>10, <1>11

LEMMA FinishStep ==
  ASSUME IInv, NEW p \in Process, finish(p)
  PROVE  IInv'
<1> DEFINE s == IF process[p].booting
                THEN [Idle EXCEPT !.pc = "check", !.op = [kind |-> "require", target |-> 0],
                                  !.booting = TRUE]
                ELSE Idle
<1>1. s \in State /\ s.pc \in {"check", "idle"}
  BY IdleTyped DEF State, Operation
<1>2. /\ process' = [process EXCEPT ![p] = s] /\ lock' = released(p)
      /\ UNCHANGED <<schema, applied, reverted>> /\ schema \in BOOLEAN
  BY DEF finish, Become, IInv, TypeOK
<1> HIDE DEF s
<1> QED  BY <1>1, <1>2, Aside

\* A recorded version is the one a process was built against only if it is
\* there, and then, with no gaps, so are those below it.
LEMMA RequireVersionStep ==
  ASSUME IInv, NEW p \in Process, RequireVersion(p)
  PROVE  IInv'
<1> DEFINE s == IF appliedVersion(p) < Built[p] THEN Idle ELSE [Idle EXCEPT !.pc = "serving"]
<1>1. s \in State /\ s.pc \in {"idle", "serving"}
  BY IdleTyped DEF State
<1>2. /\ process' = [process EXCEPT ![p] = s] /\ UNCHANGED <<schema, applied, lock>>
      /\ reverted' \in {reverted, reverted \ {p}} /\ process[p].pc = "version"
  BY DEF RequireVersion, Become, At
<1>3. released(p) = lock /\ schema \in BOOLEAN
  BY <1>2, NotHolding DEF IInv, TypeOK
<1>4. ASSUME s.pc = "serving" PROVE 1 .. Built[p] \subseteq applied
  <2> DEFINE K == {v \in applied : v <= Built[p]} \cup {0}
  <2>1. ~ (appliedVersion(p) < Built[p])
    BY <1>4, IdleTyped
  <2>2. K \in SUBSET (0 .. MaxVersion) /\ K # {} /\ MaxVersion \in Nat
    <3>1. MaxVersion \in Nat /\ applied \subseteq 1 .. MaxVersion
      BY MigrationsAssumption DEF IInv, TypeOK, Version
    <3>2. 0 \in K /\ K \subseteq applied \cup {0}
      OBVIOUS
    <3>3. ASSUME NEW v \in K PROVE v \in 0 .. MaxVersion
      BY <3>1
    <3> QED  BY <3>1, <3>2, <3>3
  <2>3. Max(K) \in K
    <3> HIDE DEF K
    <3> QED  BY <2>2, LastOf
  <2>4. Built[p] \in Nat \ {0}
    BY MigrationsAssumption
  <2>5. Max(K) = Built[p] /\ Built[p] \in applied
    BY <2>1, <2>2, <2>3, <2>4 DEF appliedVersion
  <2> QED  BY <2>5 DEF IInv, NoGaps
<1> HIDE DEF s
<1> QED  BY <1>1, <1>2, <1>3, <1>4, Aside

LEMMA StopStep ==
  ASSUME IInv, NEW p \in Process, Stop(p)
  PROVE  IInv'
<1>1. /\ process' = [process EXCEPT ![p] = Idle] /\ lock' = released(p)
      /\ reverted' = reverted \ {p}
      /\ UNCHANGED <<schema, applied>> /\ schema \in BOOLEAN
  BY DEF Stop, Become, IInv, TypeOK
<1> QED  BY <1>1, IdleTyped, Aside

-----------------------------------------------------------------------------
(***************************************************************************)
(* The theorems                                                            *)
(***************************************************************************)
\* Every reachable state satisfies the inductive invariant: goose's session
\* lock keeps each plan true while it is carried out.
THEOREM Invariant == Spec => []IInv
<1>1. ASSUME IInv, [Next]_vars PROVE IInv'
  <2>1. CASE UNCHANGED vars
    BY <1>1, <2>1 DEF IInv, TypeOK, PlannersHoldLock, UpgradeIsCurrent, RollbackIsCurrent, NoGaps,
                      RacesAreHarmless, ServedSchemaIsComplete, At, pending, vars
  <2>2. ASSUME NEW p \in Process, Boot(p) \/ Operate(p) \/ Stop(p) PROVE IInv'
    BY <1>1, <2>2, BootStep, OperateStep, StopStep
  <2>3. ASSUME NEW p \in Process, Run(p) PROVE IInv'
    BY <1>1, <2>3, SchemaStep, AcquireLockStep, PlanStep, RunUpStep, RunDownStep, FinishStep,
       RequireVersionStep DEF Run
  <2> QED  BY <1>1, <2>1, <2>2, <2>3 DEF Next
<1> QED  BY InitIInv, <1>1, PTL DEF Spec

\* Whatever processes of whatever builds upgrade, roll back and crash, the
\* versions in goose_db_version have no gap.
THEOREM NoGapsHolds == Spec => []NoGaps
<1>1. IInv => NoGaps
  BY DEF IInv
<1> QED  BY <1>1, Invariant, PTL

\* Nobody runs a migration that has been run or undoes one that has not, and
\* losing the race of ensureSchema fails no operation.
THEOREM RacesAreHarmlessHolds == Spec => []RacesAreHarmless
<1>1. IInv => RacesAreHarmless
  BY DEF IInv
<1> QED  BY <1>1, Invariant, PTL

\* What RequireVersion lets serve has every migration it was built against,
\* whatever was rolled back before, until somebody rolls one back under it.
THEOREM ServedSchemaIsCompleteHolds == Spec => []ServedSchemaIsComplete
<1>1. IInv => ServedSchemaIsComplete
  BY DEF IInv
<1> QED  BY <1>1, Invariant, PTL

-----------------------------------------------------------------------------
(***************************************************************************)
(* What the steps are to a schema that has a version, SchemaVersion.       *)
(***************************************************************************)
\* Versions without a gap are those up to the last one.
LEMMA UpToLast ==
  ASSUME IInv, NEW v \in applied, \A w \in applied : w <= v
  PROVE  applied = 1 .. v
<1>1. applied \subseteq 1 .. MaxVersion /\ MaxVersion \in Nat
  BY MigrationsAssumption DEF IInv, TypeOK, Version
<1>2. \A w \in 1 .. v : w \in applied
  BY DEF IInv, NoGaps
<1>3. ASSUME NEW w \in applied PROVE w \in 1 .. v
  <2>1. w \in 1 .. MaxVersion /\ v \in 1 .. MaxVersion /\ w <= v
    BY <1>1
  <2> QED  BY <1>1, <2>1
<1> QED  BY <1>2, <1>3

\* The migration an upgrade runs is the one after the last.
LEMMA RunUpIsUpgrade ==
  ASSUME IInv, NEW p \in Process, runUp(p)
  PROVE  Schema!Upgrade
<1> DEFINE T == process[p].todo
           v == Min(T)
<1>1. /\ process[p].pc = "run" /\ process[p].op.kind = "up" /\ T # {}
      /\ process[p] \in State
  BY DEF runUp, At, IInv, TypeOK
<1>2. T \subseteq Version /\ applied \subseteq Version /\ Version \subseteq Nat
  BY <1>1 DEF State, IInv, TypeOK, Version
<1>3. v \in T
  <2>1. T \in SUBSET Nat
    BY <1>2
  <2> HIDE DEF T
  <2> QED  BY <1>1, <2>1, FirstOf
<1>4. T = pending(p) /\ \A x \in T, w \in applied : w < x
  BY <1>1 DEF IInv, UpgradeIsCurrent, At
<1>5. v \in Version /\ v \notin applied /\ \A w \in applied : w < v
  BY <1>2, <1>3, <1>4 DEF pending
<1>6. applied' = applied \cup {v}
  BY <1>5 DEF runUp
<1>7. \A w \in 1 .. v : w \in applied'
  BY <1>6, RunUpStep DEF IInv, NoGaps
<1> HIDE DEF v
<1>8. v \in 1 .. MaxVersion /\ v \in Nat
  BY <1>2, <1>5 DEF Version
<1>9. applied = 1 .. (v - 1)
  <2>1. ASSUME NEW w \in applied PROVE w \in 1 .. (v - 1)
    <3>1. w < v /\ w \in 1 .. MaxVersion /\ MaxVersion \in Nat
      BY <1>2, <1>5, MigrationsAssumption DEF Version
    <3> QED  BY <1>8, <3>1
  <2>2. ASSUME NEW w \in 1 .. (v - 1) PROVE w \in applied
    <3>1. w \in 1 .. v /\ w # v
      BY <1>8
    <3> QED  BY <1>6, <1>7, <3>1
  <2> QED  BY <2>1, <2>2
<1>10. applied' = 1 .. v
  <2>1. 1 .. v = (1 .. (v - 1)) \cup {v}
    BY <1>8
  <2> QED  BY <1>6, <1>9, <2>1
<1> QED  BY <1>8, <1>9, <1>10 DEF Schema!Upgrade

\* The one a rollback takes back is the last.
LEMMA RunDownIsRollback ==
  ASSUME IInv, NEW p \in Process, runDown(p)
  PROVE  Schema!Rollback
<1> DEFINE T == process[p].todo
           v == Max(T)
<1>1. /\ process[p].pc = "run" /\ process[p].op.kind \in {"down", "downTo"} /\ T # {}
      /\ process[p] \in State
  BY DEF runDown, At, IInv, TypeOK
<1>2. T \subseteq Version /\ applied \subseteq Version /\ Version \subseteq Nat
  BY <1>1 DEF State, IInv, TypeOK, Version
<1>3. v \in T /\ \A w \in T : w <= v
  <2>1. T \in SUBSET (0 .. MaxVersion) /\ MaxVersion \in Nat
    BY <1>2, MigrationsAssumption DEF Version
  <2> HIDE DEF T
  <2> QED  BY <1>1, <2>1, LastOf
<1>4. T \subseteq applied /\ \A x \in T, w \in applied : w > x => w \in T
  BY <1>1 DEF IInv, RollbackIsCurrent, At
<1>5. applied' = applied \ {v}
  BY <1>3, <1>4 DEF runDown
<1> HIDE DEF v
<1>6. v \in 1 .. MaxVersion /\ v \in Nat /\ v \in applied
  BY <1>2, <1>3, <1>4 DEF Version
<1>7. \A w \in applied : w <= v
  <2> SUFFICES ASSUME NEW w \in applied, w > v PROVE FALSE
    BY <1>2, <1>6
  <2>1. w \in T
    BY <1>3, <1>4
  <2>2. w \in Nat /\ w <= v
    BY <1>2, <1>3, <2>1
  <2> HIDE DEF T
  <2> QED  BY <1>6, <2>2
<1>8. applied = 1 .. v
  BY <1>6, <1>7, UpToLast
<1>9. (1 .. v) \ {v} = 1 .. (v - 1)
  BY <1>6
<1> QED  BY <1>5, <1>6, <1>8, <1>9 DEF Schema!Rollback

\* Every step takes the schema one version up, one down, or leaves it.
LEMMA SchemaVersionStep ==
  ASSUME IInv, [Next]_vars
  PROVE  [Schema!Next]_applied
<1>1. CASE UNCHANGED applied
  BY <1>1
<1>2. ASSUME NEW p \in Process, Boot(p) \/ Operate(p) \/ Stop(p)
      PROVE  UNCHANGED applied
  BY <1>2 DEF Boot, Operate, Stop, Up, UpTo, DownTo, Reset, Down, Status, Start
<1>3. ASSUME NEW p \in Process, Run(p)
      PROVE  [Schema!Next]_applied
  BY <1>3, RunUpIsUpgrade, RunDownIsRollback
     DEF Run, checkSchema, createSchema, acquireLock, plan, finish, RequireVersion, Schema!Next
<1> QED  BY <1>1, <1>2, <1>3 DEF Next, vars

\* Whatever processes of whatever builds upgrade, roll back and crash, the
\* shared schema has one version, whose migrations are all there, and moves by
\* one version at a time.
THEOREM MigrationsImplementsSchema == Spec => ImplementsSchema
<1>1. Init => Schema!Init
  BY DEF Init, Schema!Init
<1>2. IInv /\ [Next]_vars => [Schema!Next]_applied
  BY SchemaVersionStep
<1> QED  BY <1>1, <1>2, Invariant, PTL DEF Spec, ImplementsSchema, Schema!Spec

=============================================================================
