----------------------------- MODULE Migrations -----------------------------
(***************************************************************************)
(* Schema migrations that two applications share: db/migrate.Runner as     *)
(* identity/migrate.New configures it, and the boot guard RequireVersion.  *)
(*                                                                         *)
(* Processes built from different versions start, stop and crash at any    *)
(* time, and an operator rolls back in between.  Each migration and its    *)
(* record in goose_db_version is one transaction; everything around it,    *)
(* CREATE SCHEMA, the session lock, the list of what is pending, is steps  *)
(* of its own.  What goose does is modelled from how Runner uses it.       *)
(***************************************************************************)
EXTENDS Naturals, FiniteSetsExt

CONSTANTS
  Process,
  Built,       \* the version each process was built against: its last migration
  MaxVersion,
  NoProcess

ASSUME MigrationsAssumption ==
  /\ MaxVersion \in Nat \ {0}
  /\ Built \in [Process -> 1 .. MaxVersion]
  /\ NoProcess \notin Process

VARIABLES
  schema,      \* the identity schema exists
  applied,     \* the versions recorded in identity.goose_db_version
  lock,        \* who holds goose's session lock
  process,     \* what each process is doing
  reverted     \* history: the processes that have begun to check the schema,
               \* or serve, and had a migration rolled back since

vars == <<schema, applied, lock, process, reverted>>

-----------------------------------------------------------------------------
Version == 1 .. MaxVersion

\* Up is UpTo a process's own last migration, Reset is DownTo(0), and Status
\* and AppliedVersion do nothing once they have the lock.
Operation == [kind : {"up", "downTo"}, target : 0 .. MaxVersion]
             \cup [kind : {"down", "status", "require"}, target : {0}]

\* "booting" processes go on to RequireVersion, and serve if it agrees.
State == [pc : {"idle", "check", "create", "lock", "plan", "run", "version",
                "serving", "conflict"},
          op : Operation, todo : SUBSET Version, booting : BOOLEAN]

Idle == [pc |-> "idle", op |-> [kind |-> "status", target |-> 0], todo |-> {},
         booting |-> FALSE]

Init ==
  /\ schema \in BOOLEAN
  /\ applied = {}
  /\ lock = NoProcess
  /\ process = [p \in Process |-> Idle]
  /\ reverted = {}

At(p, pc) == process[p].pc = pc

Go(p, pc) == process' = [process EXCEPT ![p].pc = pc]

Become(p, state) == process' = [process EXCEPT ![p] = state]

\* Mutation: the provider is not closed when an operation fails.
releasedNever(p) == lock

\* A session lock goes with its connection, closed by Close or by a crash.
released(p) == IF lock = p THEN NoProcess ELSE lock

-----------------------------------------------------------------------------
\* newProvider connects and asks for the schema before anything is locked.
Start(p, op, booting) ==
  /\ At(p, "idle")
  /\ Become(p, [pc |-> "check", op |-> op, todo |-> {}, booting |-> booting])
  /\ UNCHANGED <<schema, applied, lock, reverted>>

\* An application runs the set and then checks it, or only checks it.
Boot(p) ==
  \/ Start(p, [kind |-> "up", target |-> Built[p]], TRUE)
  \/ Start(p, [kind |-> "require", target |-> 0], TRUE)

\* The operations an operator or a test calls.
Up(p)              == Start(p, [kind |-> "up", target |-> Built[p]], FALSE)
UpTo(p, version)   == Start(p, [kind |-> "up", target |-> version], FALSE)
DownTo(p, version) == Start(p, [kind |-> "downTo", target |-> version], FALSE)
Reset(p)           == DownTo(p, 0)
Down(p)            == Start(p, [kind |-> "down", target |-> 0], FALSE)
Status(p)          == Start(p, [kind |-> "status", target |-> 0], FALSE)

\* RequireVersion's runner takes no lock.
schemaEnsured(p) == Go(p, IF process[p].op.kind = "require" THEN "version" ELSE "lock")

\* CREATE SCHEMA IF NOT EXISTS looks ...
checkSchema(p) ==
  /\ At(p, "check")
  /\ IF schema THEN schemaEnsured(p) ELSE Go(p, "create")
  /\ UNCHANGED <<schema, applied, lock, reverted>>

\* Mutation: any error of the statement fails the operation.
lostSchemaRaceFails(p) == Go(p, "conflict")

\* A duplicate schema means somebody else created it.
lostSchemaRace(p) == schemaEnsured(p)

\* ... and then creates, unless it has been overtaken.
createSchema(p) ==
  /\ At(p, "create")
  /\ IF schema THEN lostSchemaRace(p) ELSE schemaEnsured(p)
  /\ schema' = TRUE
  /\ UNCHANGED <<applied, lock, reverted>>

\* Mutation: a runner built without WithSessionLock.
lockFreeAlways == TRUE

lockFree == lock = NoProcess

acquireLock(p) ==
  /\ At(p, "lock")
  /\ lockFree
  /\ lock' = p
  /\ Go(p, "plan")
  /\ UNCHANGED <<schema, applied, reverted>>

\* Up's list: this process's migrations that have not been applied.
pending(p) == {v \in 1 .. process[p].op.target : v <= Built[p] /\ v \notin applied}

\* What an operation has to run, from the versions recorded when it got the
\* lock.
todo(p) ==
  CASE process[p].op.kind = "up"     -> pending(p)
    [] process[p].op.kind = "downTo" -> {v \in applied : v > process[p].op.target}
    [] process[p].op.kind = "down"   -> {v \in applied : \A w \in applied : w <= v}
    [] OTHER                         -> {}

\* goose refuses to apply below what is applied, to roll back a version it has
\* no file for, and to go down from nothing.
refused(p) ==
  CASE process[p].op.kind = "up" -> \E v \in todo(p), w \in applied : v < w
    [] process[p].op.kind = "down" -> applied = {} \/ \E v \in todo(p) : v > Built[p]
    [] OTHER -> \E v \in todo(p) : v > Built[p]

plan(p) ==
  /\ At(p, "plan")
  /\ IF refused(p)
     THEN Become(p, Idle) /\ lock' = released(p)
     ELSE Become(p, [process[p] EXCEPT !.pc = "run", !.todo = todo(p)]) /\ UNCHANGED lock
  /\ UNCHANGED <<schema, applied, reverted>>

\* The next migration of an upgrade, in a transaction of its own; running it
\* where it has run already collides with what it created.
runUp(p) ==
  /\ At(p, "run") /\ process[p].op.kind = "up" /\ process[p].todo # {}
  /\ LET v == Min(process[p].todo)
     IN IF v \in applied
        THEN Go(p, "conflict") /\ UNCHANGED applied
        ELSE /\ applied' = applied \cup {v}
             /\ Become(p, [process[p] EXCEPT !.todo = @ \ {v}])
  /\ UNCHANGED <<schema, lock, reverted>>

runDown(p) ==
  /\ At(p, "run") /\ process[p].op.kind \in {"down", "downTo"} /\ process[p].todo # {}
  /\ LET v == Max(process[p].todo)
     IN IF v \notin applied
        THEN Go(p, "conflict") /\ UNCHANGED applied
        ELSE /\ applied' = applied \ {v}
             /\ Become(p, [process[p] EXCEPT !.todo = @ \ {v}])
  /\ reverted' = reverted \cup {q \in Process : process[q].pc \in {"version", "serving"}}
  /\ UNCHANGED <<schema, lock>>

\* The operation is over; a booting application checks the version next.
finish(p) ==
  /\ At(p, "run") /\ process[p].todo = {}
  /\ lock' = released(p)
  /\ Become(p, IF process[p].booting
               THEN [Idle EXCEPT !.pc = "check", !.op = [kind |-> "require", target |-> 0],
                                 !.booting = TRUE]
               ELSE Idle)
  /\ UNCHANGED <<schema, applied, reverted>>

\* Mutation: the migrations a process ships are taken for the applied ones.
appliedVersionShipped(p) == Built[p]

\* The highest version applied among the migrations this process knows.
appliedVersion(p) == Max({v \in applied : v <= Built[p]} \cup {0})

\* goose's status is one query per version, here one step: what is rolled back
\* between two of them is what "reverted" sets apart.
RequireVersion(p) ==
  /\ At(p, "version")
  /\ IF appliedVersion(p) < Built[p]
     THEN Become(p, Idle) /\ reverted' = reverted \ {p}
     ELSE Become(p, [Idle EXCEPT !.pc = "serving"]) /\ UNCHANGED reverted
  /\ UNCHANGED <<schema, applied, lock>>

\* A process stops or crashes, its connection or a statement fails, or it has
\* waited for the lock for five minutes: the transaction it was in is rolled
\* back and its lock is gone.
Stop(p) ==
  /\ ~ At(p, "idle")
  /\ Become(p, Idle)
  /\ lock' = released(p)
  /\ reverted' = reverted \ {p}
  /\ UNCHANGED <<schema, applied>>

-----------------------------------------------------------------------------
Operate(p) ==
  \/ Up(p)
  \/ \E v \in Version : UpTo(p, v) \/ DownTo(p, v)
  \/ Reset(p)
  \/ Down(p)
  \/ Status(p)

Run(p) ==
  \/ checkSchema(p)
  \/ createSchema(p)
  \/ acquireLock(p)
  \/ plan(p)
  \/ runUp(p)
  \/ runDown(p)
  \/ finish(p)
  \/ RequireVersion(p)

Next == \E p \in Process : Boot(p) \/ Operate(p) \/ Run(p) \/ Stop(p)

Spec == Init /\ [][Next]_vars

-----------------------------------------------------------------------------
(***************************************************************************)
(* Properties                                                              *)
(***************************************************************************)
\* The types; only an operation under way holds the lock, and a process whose
\* connection is gone holds nothing.
TypeOK ==
  /\ schema \in BOOLEAN
  /\ applied \subseteq Version
  /\ lock \in Process \cup {NoProcess}
  /\ process \in [Process -> State]
  /\ reverted \subseteq Process
  /\ \A p \in Process : lock = p => process[p].pc \in {"plan", "run"}

\* The applied versions have no gap, however processes of different builds
\* upgrade, roll back, are interrupted between two migrations and start again:
\* the recorded version says which migrations the schema has.
NoGaps == \A v \in applied : \A w \in 1 .. v : w \in applied

\* Starting at the same time fails no operation: no migration is run where it
\* has been run, or rolled back where it has not, and a schema that somebody
\* else has just created is as good as one's own.
RacesAreHarmless == \A p \in Process : process[p].pc # "conflict"

\* An application serves only on a schema that has every migration it was
\* built against, also when it was started without running them and whatever
\* was rolled back before; it stays so until somebody rolls back under it.
ServedSchemaIsComplete ==
  \A p \in Process \ reverted :
    process[p].pc = "serving" => 1 .. Built[p] \subseteq applied

\* A process that has planned, or is about to, holds the session lock.
PlannersHoldLock == \A p \in Process : process[p].pc \in {"plan", "run"} => lock = p

\* An upgrade's list is, at every moment, what is still pending, and all of it
\* is above what has been applied.
UpgradeIsCurrent ==
  \A p \in Process : At(p, "run") /\ process[p].op.kind = "up" =>
    /\ process[p].todo = pending(p)
    /\ \A v \in process[p].todo, w \in applied : w < v

\* A rollback's list is the top of what has been applied.
RollbackIsCurrent ==
  \A p \in Process : At(p, "run") /\ process[p].op.kind \in {"down", "downTo"} =>
    /\ process[p].todo \subseteq applied
    /\ \A v \in process[p].todo, w \in applied : w > v => w \in process[p].todo

\* The inductive invariant: the session lock keeps a plan, made from the
\* versions read under it, true until it has been carried out.
IInv ==
  /\ TypeOK
  /\ PlannersHoldLock
  /\ UpgradeIsCurrent
  /\ RollbackIsCurrent
  /\ NoGaps
  /\ RacesAreHarmless
  /\ ServedSchemaIsComplete

-----------------------------------------------------------------------------
Schema == INSTANCE SchemaVersion

\* Processes of different builds, interrupted anywhere, amount to one counter
\* that goes up and down by one: no upgrade skips a version or runs twice, and
\* no rollback takes one from below the top.
ImplementsSchema == Schema!Spec

=============================================================================
