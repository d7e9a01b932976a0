------------------------------- MODULE Cache -------------------------------
(***************************************************************************)
(* The cache port and its two adapters, BadgerCache on disk and            *)
(* MemoryCache in the process, with the opening that chooses between them. *)
(*                                                                         *)
(* Time is counted in fractions of a second: MemoryCache compares instants *)
(* exactly, badger whole seconds, and a Set reads the clock before the     *)
(* lock or the transaction that stores what it computed.                   *)
(***************************************************************************)
EXTENDS Integers

CONSTANTS
  Key,
  Setter,          \* goroutines calling Set
  TTL,             \* durations they pass, negative ones included
  TicksPerSecond

ASSUME CacheAssumption ==
  /\ Key # {}
  /\ TTL \subseteq Int
  /\ TicksPerSecond \in Nat \ {0}

VARIABLES
  backend,  \* which adapter this process has, if it has opened one
  dir,      \* badger's directory: it outlives the process
  entries,  \* MemoryCache.entries
  setting,  \* per goroutine, the entry a Set has built and not yet stored
  now

cacheVars == <<backend, dir, entries, setting, now>>

-----------------------------------------------------------------------------
\* "expires" is what the adapter stores, in its own unit, 0 for no expiry.
\* "called" and "ttl" are history: the Set call the entry comes from.
Absent  == [present |-> FALSE, expires |-> 0, called |-> 0, ttl |-> 0]
Nothing == [k \in Key |-> Absent]

NotSetting == [key |-> CHOOSE k \in Key : TRUE, entry |-> Absent]

\* Clocks do not start at zero, which stands for "no expiry".
CacheInit ==
  /\ backend = "none"
  /\ dir = [ok |-> TRUE, entries |-> Nothing]
  /\ entries = Nothing
  /\ setting = [g \in Setter |-> NotSetting]
  /\ now = TicksPerSecond

seconds(t) == t \div TicksPerSecond

-----------------------------------------------------------------------------
(***************************************************************************)
(* The port                                                                *)
(***************************************************************************)
\* Mutation: a ttl under a second is passed to badger as it is.
roundTTLNever(ttl) == ttl

\* badgerMinTTL.
roundTTL(ttl) == IF ttl < TicksPerSecond THEN TicksPerSecond ELSE ttl

\* WithTTL truncates the instant of expiry to whole seconds; MemoryCache keeps
\* it.
expiry(ttl) ==
  IF ttl = 0 THEN 0
  ELSE IF backend = "badger" THEN seconds(now + roundTTL(ttl)) ELSE now + ttl

\* badger compares "at or before"; time.Time.After compares strictly.
expired(e) ==
  /\ e.expires # 0
  /\ IF backend = "badger" THEN e.expires <= seconds(now) ELSE e.expires < now

stored(k) == IF backend = "badger" THEN dir.entries[k] ELSE entries[k]

store(k, e) ==
  IF backend = "badger"
  THEN dir' = [dir EXCEPT !.entries[k] = e] /\ UNCHANGED entries
  ELSE entries' = [entries EXCEPT ![k] = e] /\ UNCHANGED dir

\* What Get answers with, when it answers.
hit(k) == stored(k).present /\ ~ expired(stored(k))

\* A negative ttl is refused with ErrNegativeTTL.
Set(g, k, ttl) ==
  /\ backend # "none"
  /\ setting[g] = NotSetting
  /\ ttl >= 0
  /\ setting' = [setting EXCEPT ![g] =
        [key |-> k, entry |-> [present |-> TRUE, expires |-> expiry(ttl),
                               called |-> now, ttl |-> ttl]]]
  /\ UNCHANGED <<backend, dir, entries, now>>

\* The mutex is taken, or the transaction commits.
SetStores(g) ==
  /\ setting[g] # NotSetting
  /\ store(setting[g].key, setting[g].entry)
  /\ setting' = [setting EXCEPT ![g] = NotSetting]
  /\ UNCHANGED <<backend, now>>

\* MemoryCache deletes an expired entry that a Get runs into; badger's value
\* log GC reclaims one without being asked for it.
DropExpired(k) ==
  /\ backend # "none"
  /\ stored(k).present
  /\ expired(stored(k))
  /\ store(k, Absent)
  /\ UNCHANGED <<backend, setting, now>>

Delete(k) ==
  /\ backend # "none"
  /\ stored(k).present
  /\ store(k, Absent)
  /\ UNCHANGED <<backend, setting, now>>

-----------------------------------------------------------------------------
(***************************************************************************)
(* NewBadgerCache, and the caller's fallback                               *)
(***************************************************************************)
Open ==
  /\ backend = "none"
  /\ dir.ok
  /\ backend' = "badger"
  /\ UNCHANGED <<dir, entries, setting, now>>

\* The first open fails, because the directory is corrupt or for another
\* reason; it is removed, and the second open creates it anew.
OpenAfterRemoval ==
  /\ backend = "none"
  /\ backend' = "badger"
  /\ dir' = [ok |-> TRUE, entries |-> Nothing]
  /\ UNCHANGED <<entries, setting, now>>

\* RemoveAll fails and the directory stays, or the second open fails.
FallBackToMemory ==
  /\ backend = "none"
  /\ backend' = "memory"
  /\ dir' \in {dir, [ok |-> TRUE, entries |-> Nothing]}
  /\ UNCHANGED <<entries, setting, now>>

\* The process ends, by Close or by a crash; a crash may leave the directory
\* such that badger cannot open it.
StopCache ==
  /\ backend' = "none"
  /\ entries' = Nothing
  /\ setting' = [g \in Setter |-> NotSetting]
  /\ \/ UNCHANGED dir
     \/ backend = "badger" /\ dir' = [dir EXCEPT !.ok = FALSE]
  /\ UNCHANGED now

TickCache ==
  /\ now' = now + 1
  /\ UNCHANGED <<backend, dir, entries, setting>>

CacheOperation ==
  \/ Open
  \/ OpenAfterRemoval
  \/ FallBackToMemory
  \/ \E g \in Setter, k \in Key, ttl \in TTL : Set(g, k, ttl)
  \/ \E g \in Setter : SetStores(g)
  \/ \E k \in Key : DropExpired(k)
  \/ \E k \in Key : Delete(k)

CacheNext ==
  \/ CacheOperation
  \/ StopCache
  \/ TickCache

CacheSpec == CacheInit /\ [][CacheNext]_cacheVars

-----------------------------------------------------------------------------
(***************************************************************************)
(* Properties                                                              *)
(***************************************************************************)
Entry == [present : BOOLEAN, expires : Nat, called : Nat, ttl : Nat]

CacheTypeOK ==
  /\ backend \in {"none", "badger", "memory"}
  /\ dir \in [ok : BOOLEAN, entries : [Key -> Entry]]
  /\ entries \in [Key -> Entry]
  /\ setting \in [Setter -> [key : Key, entry : Entry]]
  /\ now \in Nat

age(e) == now - e.called

\* The port's promise of a positive ttl, for both adapters, across restarts,
\* a lost directory and a fallback to memory: Get never answers with an entry
\* older than its ttl (or than a second, which badger rounds up to), and never
\* treats one as expired in the instant of its Set, nor a whole second before
\* its ttl is over.
TTLIsHonoured ==
  \A k \in Key :
    LET e == stored(k) IN
    backend # "none" /\ e.present =>
      IF hit(k)
      THEN e.ttl > 0 => \/ age(e) <= e.ttl
                        \/ backend = "badger" /\ age(e) <= TicksPerSecond
      ELSE e.ttl > 0 /\ age(e) > 0 /\ age(e) > e.ttl - TicksPerSecond

=============================================================================
