------------------------- MODULE ApplicationProofs -------------------------
(***************************************************************************)
(* Theorems about the application and the components it is made of: the    *)
(* cache's, carried over to it; Startup's, Requests' and Scrub's, from     *)
(* invariants of theirs that hold in the composition.                      *)
(***************************************************************************)
EXTENDS Application, ExifScrubProofs

-----------------------------------------------------------------------------
(***************************************************************************)
(* The cache: TTLIsHonoured, for every set of keys, goroutines and         *)
(* durations and every resolution of the clock                             *)
(***************************************************************************)
\* badger's expiry is that of the Set the entry comes from, in whole seconds.
fromBadger(e) ==
  e.present => /\ e.called >= TicksPerSecond
               /\ e.called <= now
               /\ e.expires = IF e.ttl = 0 THEN 0
                              ELSE seconds(e.called + roundTTL(e.ttl))

fromMemory(e) ==
  e.present => /\ e.called >= TicksPerSecond
               /\ e.called <= now
               /\ e.expires = IF e.ttl = 0 THEN 0 ELSE e.called + e.ttl

\* What TTLIsHonoured rests on: every entry, in the directory, in memory or on
\* its way there, still carries the expiry its own Set computed, in the unit of
\* the adapter that will read it.
ExpiryIsOfItsSet ==
  /\ CacheTypeOK
  /\ now >= TicksPerSecond
  /\ \A k \in Key : fromBadger(dir.entries[k])
  /\ \A k \in Key : fromMemory(entries[k])
  /\ backend = "none" => \A g \in Setter : setting[g] = NotSetting
  /\ backend # "memory" => \A g \in Setter : fromBadger(setting[g].entry)
  /\ backend # "badger" => \A g \in Setter : fromMemory(setting[g].entry)

-----------------------------------------------------------------------------
(***************************************************************************)
(* Whole seconds                                                           *)
(***************************************************************************)
LEMMA SecondsBounds ==
  ASSUME NEW a \in Nat
  PROVE  /\ seconds(a) \in Nat
         /\ TicksPerSecond * seconds(a) <= a
         /\ a < TicksPerSecond * seconds(a) + TicksPerSecond
<1>1. TicksPerSecond \in Nat \ {0}
  BY CacheAssumption
<1>2. QED
  BY <1>1 DEF seconds

LEMMA TimesIsMonotone ==
  ASSUME NEW m \in Nat, NEW n \in Nat, m <= n
  PROVE  TicksPerSecond * m <= TicksPerSecond * n
<1>1. TicksPerSecond \in Nat \ {0}
  BY CacheAssumption
<1>2. QED
  BY <1>1

\* An instant that is not later is not in a later second.
LEMMA SecondsIsMonotone ==
  ASSUME NEW a \in Nat, NEW b \in Nat, a <= b
  PROVE  seconds(a) <= seconds(b)
<1>1. TicksPerSecond \in Nat \ {0}
  BY CacheAssumption
<1>2. SUFFICES ASSUME seconds(b) + 1 <= seconds(a) PROVE FALSE
  BY SecondsBounds
<1>3. TicksPerSecond * (seconds(b) + 1) <= TicksPerSecond * seconds(a)
  BY <1>2, SecondsBounds, TimesIsMonotone
<1>4. TicksPerSecond * (seconds(b) + 1) = TicksPerSecond * seconds(b) + TicksPerSecond
  BY <1>1, SecondsBounds
<1>5. TicksPerSecond * seconds(b) \in Nat /\ TicksPerSecond * seconds(a) \in Nat
  BY <1>1, SecondsBounds
<1>6. b < a
  BY <1>1, <1>3, <1>4, <1>5, SecondsBounds
<1>7. QED
  BY <1>6

\* An instant that is not in a later second is less than a second later.
LEMMA SecondsIsClose ==
  ASSUME NEW a \in Nat, NEW b \in Nat, seconds(a) <= seconds(b)
  PROVE  a < b + TicksPerSecond
<1>1. TicksPerSecond \in Nat \ {0}
  BY CacheAssumption
<1>2. TicksPerSecond * seconds(a) <= TicksPerSecond * seconds(b)
  BY SecondsBounds, TimesIsMonotone
<1>3. TicksPerSecond * seconds(b) \in Nat /\ TicksPerSecond * seconds(a) \in Nat
  BY <1>1, SecondsBounds
<1>4. QED
  BY <1>1, <1>2, <1>3, SecondsBounds

LEMMA FirstSecond == seconds(TicksPerSecond) >= 1
<1>1. TicksPerSecond \in Nat \ {0}
  BY CacheAssumption
<1>2. SUFFICES ASSUME seconds(TicksPerSecond) = 0 PROVE FALSE
  BY <1>1, SecondsBounds
<1>3. TicksPerSecond * seconds(TicksPerSecond) = 0
  BY <1>1, <1>2
<1>4. QED
  BY <1>1, <1>3, SecondsBounds

-----------------------------------------------------------------------------
(***************************************************************************)
(* The invariant                                                           *)
(***************************************************************************)
LEMMA AbsentIsFromBoth ==
  /\ Absent \in Entry
  /\ fromBadger(Absent)
  /\ fromMemory(Absent)
  BY DEF Absent, Entry, fromBadger, fromMemory

LEMMA NothingIsFromBoth ==
  /\ Nothing \in [Key -> Entry]
  /\ \A k \in Key : fromBadger(Nothing[k]) /\ fromMemory(Nothing[k])
  BY AbsentIsFromBoth DEF Nothing

LEMMA NotSettingIsFromBoth ==
  /\ NotSetting \in [key : Key, entry : Entry]
  /\ NotSetting.entry = Absent
  BY AbsentIsFromBoth, CacheAssumption DEF NotSetting

LEMMA RoundTTLType ==
  ASSUME NEW ttl \in Nat
  PROVE  roundTTL(ttl) \in Nat /\ roundTTL(ttl) >= TicksPerSecond /\ roundTTL(ttl) >= ttl
  BY CacheAssumption DEF roundTTL

LEMMA InitExpiry == CacheInit => ExpiryIsOfItsSet
  BY NothingIsFromBoth, NotSettingIsFromBoth, AbsentIsFromBoth, CacheAssumption
     DEF CacheInit, ExpiryIsOfItsSet, CacheTypeOK

\* Set computes the expiry of its own call, in the unit of the open adapter.
LEMMA SetKeepsExpiry ==
  ASSUME ExpiryIsOfItsSet, NEW g \in Setter, NEW k \in Key, NEW ttl \in TTL, Set(g, k, ttl)
  PROVE  ExpiryIsOfItsSet'
<1> DEFINE e == [present |-> TRUE, expires |-> expiry(ttl), called |-> now, ttl |-> ttl]
<1>1. ttl \in Nat
  BY CacheAssumption DEF Set
<1>2. now \in Nat /\ now >= TicksPerSecond /\ TicksPerSecond \in Nat
  BY CacheAssumption DEF ExpiryIsOfItsSet, CacheTypeOK
<1>3. seconds(now + roundTTL(ttl)) \in Nat
  BY <1>1, <1>2, RoundTTLType, SecondsBounds
<1>4. expiry(ttl) \in Nat
  BY <1>1, <1>2, <1>3 DEF expiry
<1>5. e \in Entry
  BY <1>1, <1>2, <1>4 DEF Entry
<1>6. /\ backend = "badger" => fromBadger(e)
      /\ backend = "memory" => fromMemory(e)
  BY <1>1, <1>2 DEF fromBadger, fromMemory, expiry
<1>7. setting' = [setting EXCEPT ![g] = [key |-> k, entry |-> e]]
  BY DEF Set
<1>8. /\ UNCHANGED <<backend, dir, entries, now>>
      /\ backend \in {"badger", "memory"}
  BY DEF Set, ExpiryIsOfItsSet, CacheTypeOK
<1>9. CacheTypeOK'
  BY <1>5, <1>7, <1>8 DEF ExpiryIsOfItsSet, CacheTypeOK
<1>10. \A s \in Setter : setting'[s].entry = IF s = g THEN e ELSE setting[s].entry
  BY <1>7 DEF ExpiryIsOfItsSet, CacheTypeOK
<1>11. \A f : (fromBadger(f))' = fromBadger(f) /\ (fromMemory(f))' = fromMemory(f)
  BY <1>8 DEF fromBadger, fromMemory
<1>12. QED
  BY <1>2, <1>6, <1>8, <1>9, <1>10, <1>11 DEF ExpiryIsOfItsSet

\* Storing an entry that is fit for the open adapter.
LEMMA StoreKeepsExpiry ==
  ASSUME ExpiryIsOfItsSet, NEW k \in Key, NEW e \in Entry,
         backend \in {"badger", "memory"},
         backend = "badger" => fromBadger(e),
         backend = "memory" => fromMemory(e),
         store(k, e), UNCHANGED <<backend, now>>
  PROVE  /\ dir' \in [ok : BOOLEAN, entries : [Key -> Entry]]
         /\ entries' \in [Key -> Entry]
         /\ \A c \in Key : (fromBadger(dir.entries[c]))'
         /\ \A c \in Key : (fromMemory(entries[c]))'
<1>1. /\ dir \in [ok : BOOLEAN, entries : [Key -> Entry]]
      /\ entries \in [Key -> Entry]
  BY DEF ExpiryIsOfItsSet, CacheTypeOK
<1>2. \A f : (fromBadger(f) => (fromBadger(f))') /\ (fromMemory(f) => (fromMemory(f))')
  BY DEF fromBadger, fromMemory
<1>3. CASE backend = "badger"
  <2>1. dir' = [dir EXCEPT !.entries[k] = e] /\ entries' = entries
    BY <1>3 DEF store
  <2>2. \A c \in Key : dir'.entries[c] = IF c = k THEN e ELSE dir.entries[c]
    BY <1>1, <2>1
  <2>3. \A c \in Key : fromBadger(dir'.entries[c]) /\ fromMemory(entries'[c])
    BY <1>3, <2>1, <2>2 DEF ExpiryIsOfItsSet
  <2>4. QED
    BY <1>1, <2>1, <2>3 DEF fromBadger, fromMemory
<1>4. CASE backend = "memory"
  <2>1. entries' = [entries EXCEPT ![k] = e] /\ dir' = dir
    BY <1>4 DEF store
  <2>2. \A c \in Key : entries'[c] = IF c = k THEN e ELSE entries[c]
    BY <1>1, <2>1
  <2>3. \A c \in Key : fromBadger(dir'.entries[c]) /\ fromMemory(entries'[c])
    BY <1>4, <2>1, <2>2 DEF ExpiryIsOfItsSet
  <2>4. QED
    BY <1>1, <2>1, <2>3 DEF fromBadger, fromMemory
<1>5. QED
  BY <1>3, <1>4

\* The entry a Set has built reaches the adapter it was built for.
LEMMA SetStoresKeepsExpiry ==
  ASSUME ExpiryIsOfItsSet, NEW g \in Setter, SetStores(g)
  PROVE  ExpiryIsOfItsSet'
<1> DEFINE k == setting[g].key
           e == setting[g].entry
<1>1. k \in Key /\ e \in Entry
  BY DEF ExpiryIsOfItsSet, CacheTypeOK
<1>2. backend \in {"badger", "memory"}
  BY DEF SetStores, ExpiryIsOfItsSet, CacheTypeOK
<1>3. /\ backend = "badger" => fromBadger(e)
      /\ backend = "memory" => fromMemory(e)
  BY DEF ExpiryIsOfItsSet
<1>4. store(k, e) /\ UNCHANGED <<backend, now>>
  BY DEF SetStores
<1>5. /\ dir' \in [ok : BOOLEAN, entries : [Key -> Entry]]
      /\ entries' \in [Key -> Entry]
      /\ \A c \in Key : (fromBadger(dir.entries[c]))'
      /\ \A c \in Key : (fromMemory(entries[c]))'
  BY <1>1, <1>2, <1>3, <1>4, StoreKeepsExpiry
<1>6. setting' = [setting EXCEPT ![g] = NotSetting]
  BY DEF SetStores
<1>7. CacheTypeOK'
  BY <1>4, <1>5, <1>6, NotSettingIsFromBoth DEF ExpiryIsOfItsSet, CacheTypeOK
<1>8. \A s \in Setter : setting'[s].entry = IF s = g THEN Absent ELSE setting[s].entry
  BY <1>6, NotSettingIsFromBoth DEF ExpiryIsOfItsSet, CacheTypeOK
<1>9. \A s \in Setter : /\ backend # "memory" => fromBadger(setting'[s].entry)
                        /\ backend # "badger" => fromMemory(setting'[s].entry)
  BY <1>8, AbsentIsFromBoth DEF ExpiryIsOfItsSet
<1>10. QED
  BY <1>2, <1>4, <1>5, <1>7, <1>9 DEF ExpiryIsOfItsSet, fromBadger, fromMemory

\* An entry is replaced by none.
LEMMA RemovalKeepsExpiry ==
  ASSUME ExpiryIsOfItsSet, NEW k \in Key, backend # "none", store(k, Absent),
         UNCHANGED <<backend, setting, now>>
  PROVE  ExpiryIsOfItsSet'
<1>1. backend \in {"badger", "memory"}
  BY DEF ExpiryIsOfItsSet, CacheTypeOK
<1>2. /\ dir' \in [ok : BOOLEAN, entries : [Key -> Entry]]
      /\ entries' \in [Key -> Entry]
      /\ \A c \in Key : (fromBadger(dir.entries[c]))'
      /\ \A c \in Key : (fromMemory(entries[c]))'
  BY <1>1, StoreKeepsExpiry, AbsentIsFromBoth
<1>3. CacheTypeOK'
  BY <1>2 DEF ExpiryIsOfItsSet, CacheTypeOK
<1>4. QED
  BY <1>2, <1>3 DEF ExpiryIsOfItsSet, fromBadger, fromMemory

\* A process opens an adapter before any Set is under way.
LEMMA OpeningKeepsExpiry ==
  ASSUME ExpiryIsOfItsSet, Open \/ OpenAfterRemoval \/ FallBackToMemory
  PROVE  ExpiryIsOfItsSet'
<1>1. /\ backend = "none"
      /\ backend' \in {"badger", "memory"}
      /\ dir' = dir \/ dir' = [ok |-> TRUE, entries |-> Nothing]
      /\ UNCHANGED <<entries, setting, now>>
  BY DEF Open, OpenAfterRemoval, FallBackToMemory
<1>2. /\ dir' \in [ok : BOOLEAN, entries : [Key -> Entry]]
      /\ \A k \in Key : fromBadger(dir'.entries[k])
  <2>1. CASE dir' = dir
    BY <2>1 DEF ExpiryIsOfItsSet, CacheTypeOK
  <2>2. CASE dir' = [ok |-> TRUE, entries |-> Nothing]
    BY <2>2, NothingIsFromBoth
  <2>3. QED
    BY <1>1, <2>1, <2>2
<1>3. CacheTypeOK'
  BY <1>1, <1>2 DEF ExpiryIsOfItsSet, CacheTypeOK
<1>4. QED
  BY <1>1, <1>2, <1>3 DEF ExpiryIsOfItsSet, fromBadger, fromMemory

\* A process ends, and what it had not stored with it.
LEMMA StopKeepsExpiry ==
  ASSUME ExpiryIsOfItsSet, StopCache
  PROVE  ExpiryIsOfItsSet'
<1>1. /\ backend' = "none"
      /\ entries' = Nothing
      /\ setting' = [g \in Setter |-> NotSetting]
      /\ dir' = dir \/ dir' = [dir EXCEPT !.ok = FALSE]
      /\ now' = now
  BY DEF StopCache
<1>2. /\ dir' \in [ok : BOOLEAN, entries : [Key -> Entry]]
      /\ dir'.entries = dir.entries
  BY <1>1 DEF ExpiryIsOfItsSet, CacheTypeOK
<1>3. CacheTypeOK'
  BY <1>1, <1>2, NothingIsFromBoth, NotSettingIsFromBoth DEF ExpiryIsOfItsSet, CacheTypeOK
<1>4. \A g \in Setter : setting'[g] = NotSetting
  BY <1>1
<1>5. \A k \in Key : fromBadger(dir'.entries[k]) /\ fromMemory(entries'[k])
  BY <1>1, <1>2, NothingIsFromBoth DEF ExpiryIsOfItsSet
<1>6. QED
  BY <1>1, <1>3, <1>4, <1>5, NotSettingIsFromBoth, AbsentIsFromBoth
     DEF ExpiryIsOfItsSet, fromBadger, fromMemory

LEMMA TickKeepsExpiry ==
  ASSUME ExpiryIsOfItsSet, TickCache
  PROVE  ExpiryIsOfItsSet'
<1>1. now \in Nat /\ now' = now + 1 /\ UNCHANGED <<backend, dir, entries, setting>>
  BY DEF TickCache, ExpiryIsOfItsSet, CacheTypeOK
<1>2. TicksPerSecond \in Nat
  BY CacheAssumption
<1>3. \A e \in Entry : /\ fromBadger(e) => (fromBadger(e))'
                       /\ fromMemory(e) => (fromMemory(e))'
  BY <1>1 DEF fromBadger, fromMemory, Entry
<1>4. CacheTypeOK'
  BY <1>1 DEF ExpiryIsOfItsSet, CacheTypeOK
<1>5. /\ \A k \in Key : dir.entries[k] \in Entry /\ entries[k] \in Entry
      /\ \A g \in Setter : setting[g].entry \in Entry
  BY DEF ExpiryIsOfItsSet, CacheTypeOK
<1>6. QED
  BY <1>1, <1>2, <1>3, <1>4, <1>5 DEF ExpiryIsOfItsSet

\* Every step of the cache keeps the invariant.
LEMMA NextKeepsExpiry ==
  ASSUME ExpiryIsOfItsSet, [CacheNext]_cacheVars
  PROVE  ExpiryIsOfItsSet'
<1>1. CASE CacheOperation
  <2>1. CASE Open \/ OpenAfterRemoval \/ FallBackToMemory
    BY <2>1, OpeningKeepsExpiry
  <2>2. CASE \E g \in Setter, k \in Key, ttl \in TTL : Set(g, k, ttl)
    BY <2>2, SetKeepsExpiry
  <2>3. CASE \E g \in Setter : SetStores(g)
    BY <2>3, SetStoresKeepsExpiry
  <2>4. CASE \E k \in Key : DropExpired(k)
    BY <2>4, RemovalKeepsExpiry DEF DropExpired
  <2>5. CASE \E k \in Key : Delete(k)
    BY <2>5, RemovalKeepsExpiry DEF Delete
  <2>6. QED
    BY <1>1, <2>1, <2>2, <2>3, <2>4, <2>5 DEF CacheOperation
<1>2. CASE StopCache
  BY <1>2, StopKeepsExpiry
<1>3. CASE TickCache
  BY <1>3, TickKeepsExpiry
<1>4. CASE UNCHANGED cacheVars
  BY <1>4 DEF cacheVars, ExpiryIsOfItsSet, CacheTypeOK, fromBadger, fromMemory
<1>5. QED
  BY <1>1, <1>2, <1>3, <1>4 DEF CacheNext

-----------------------------------------------------------------------------
(***************************************************************************)
(* What follows from it                                                    *)
(***************************************************************************)
\* In badger's whole seconds an entry lasts less than its rounded ttl, and not
\* a second less than it.
LEMMA BadgerHonoursTTL ==
  ASSUME NEW called \in Nat, NEW ttl \in Nat, NEW t \in Nat, called >= TicksPerSecond
  PROVE  LET expires == seconds(called + roundTTL(ttl))
         IN  /\ expires # 0
             /\ ~ expires <= seconds(t) => t - called < roundTTL(ttl)
             /\ expires <= seconds(t) => t - called > roundTTL(ttl) - TicksPerSecond
<1> DEFINE expires == seconds(called + roundTTL(ttl))
<1>1. /\ TicksPerSecond \in Nat
      /\ roundTTL(ttl) \in Nat
      /\ called + roundTTL(ttl) \in Nat
      /\ TicksPerSecond <= called + roundTTL(ttl)
  BY CacheAssumption, RoundTTLType
<1>2. expires \in Nat /\ seconds(t) \in Nat /\ seconds(TicksPerSecond) \in Nat
  BY <1>1, SecondsBounds
<1>3. expires >= 1
  BY <1>1, <1>2, FirstSecond, SecondsIsMonotone
<1>4. ASSUME ~ expires <= seconds(t) PROVE t - called < roundTTL(ttl)
  <2>1. SUFFICES ASSUME called + roundTTL(ttl) <= t PROVE FALSE
    BY <1>1
  <2>2. expires <= seconds(t)
    BY <1>1, <2>1, SecondsIsMonotone
  <2>3. QED
    BY <1>4, <2>2
<1>5. ASSUME expires <= seconds(t) PROVE t - called > roundTTL(ttl) - TicksPerSecond
  <2>1. called + roundTTL(ttl) < t + TicksPerSecond
    BY <1>1, <1>5, SecondsIsClose
  <2>2. QED
    BY <1>1, <2>1
<1>6. QED
  BY <1>2, <1>3, <1>4, <1>5

LEMMA ExpiryGivesTTL ==
  ASSUME ExpiryIsOfItsSet
  PROVE  TTLIsHonoured
<1> SUFFICES ASSUME NEW k \in Key, backend # "none", stored(k).present
             PROVE  IF hit(k)
                    THEN stored(k).ttl > 0 =>
                           \/ age(stored(k)) <= stored(k).ttl
                           \/ backend = "badger" /\ age(stored(k)) <= TicksPerSecond
                    ELSE /\ stored(k).ttl > 0
                         /\ age(stored(k)) > 0
                         /\ age(stored(k)) > stored(k).ttl - TicksPerSecond
  BY DEF TTLIsHonoured
<1> DEFINE e == stored(k)
<1>1. now \in Nat /\ TicksPerSecond \in Nat \ {0}
  BY CacheAssumption DEF ExpiryIsOfItsSet, CacheTypeOK
<1>2. CASE backend = "badger"
  <2>1. e = dir.entries[k]
    BY <1>2 DEF stored
  <2>2. e \in Entry /\ fromBadger(e)
    BY <2>1 DEF ExpiryIsOfItsSet, CacheTypeOK
  <2>3. /\ e.called \in Nat /\ e.ttl \in Nat
        /\ e.called >= TicksPerSecond
        /\ e.expires = IF e.ttl = 0 THEN 0 ELSE seconds(e.called + roundTTL(e.ttl))
    BY <2>2 DEF Entry, fromBadger
  <2>4. hit(k) <=> ~ (e.expires # 0 /\ e.expires <= seconds(now))
    BY <1>2 DEF hit, expired
  <2>5. CASE e.ttl = 0
    BY <2>3, <2>4, <2>5
  <2>6. CASE e.ttl # 0
    <3>1. /\ e.expires # 0
          /\ ~ e.expires <= seconds(now) => now - e.called < roundTTL(e.ttl)
          /\ e.expires <= seconds(now) => now - e.called > roundTTL(e.ttl) - TicksPerSecond
      BY <1>1, <2>3, <2>6, BadgerHonoursTTL
    <3>2. /\ roundTTL(e.ttl) \in Nat
          /\ roundTTL(e.ttl) >= TicksPerSecond
          /\ roundTTL(e.ttl) >= e.ttl
          /\ roundTTL(e.ttl) = TicksPerSecond \/ roundTTL(e.ttl) = e.ttl
      BY <2>3, RoundTTLType DEF roundTTL
    <3>3. QED
      BY <1>1, <1>2, <2>3, <2>4, <2>6, <3>1, <3>2 DEF age
  <2>7. QED
    BY <2>5, <2>6
<1>3. CASE backend = "memory"
  <2>1. e = entries[k]
    BY <1>3 DEF stored
  <2>2. e \in Entry /\ fromMemory(e)
    BY <2>1 DEF ExpiryIsOfItsSet, CacheTypeOK
  <2>3. /\ e.called \in Nat /\ e.ttl \in Nat
        /\ e.called >= TicksPerSecond
        /\ e.expires = IF e.ttl = 0 THEN 0 ELSE e.called + e.ttl
    BY <2>2 DEF Entry, fromMemory
  <2>4. hit(k) <=> ~ (e.expires # 0 /\ e.expires < now)
    BY <1>3 DEF hit, expired
  <2>5. QED
    BY <1>1, <2>3, <2>4 DEF age
<1>4. QED
  BY <1>2, <1>3 DEF ExpiryIsOfItsSet, CacheTypeOK

\* Get keeps the port's promise of a ttl, in whatever order goroutines Set and
\* store, processes stop, and the directory is lost or opened again.
THEOREM CacheHonoursTTL == CacheSpec => []TTLIsHonoured
<1>1. CacheInit => ExpiryIsOfItsSet
  BY InitExpiry
<1>2. ExpiryIsOfItsSet /\ [CacheNext]_cacheVars => ExpiryIsOfItsSet'
  BY NextKeepsExpiry
<1>3. ExpiryIsOfItsSet => TTLIsHonoured
  BY ExpiryGivesTTL
<1>4. QED
  BY <1>1, <1>2, <1>3, PTL DEF CacheSpec

-----------------------------------------------------------------------------
(***************************************************************************)
(* The cache in the application                                            *)
(***************************************************************************)
\* Whatever the application does, its cache does a step of its own or none.
LEMMA CacheStep ==
  ASSUME [Next]_vars
  PROVE  [CacheNext]_cacheVars
<1>1. CASE Booting \/ Reconfigure \/ Submit \/ Saving
  BY <1>1 DEF Booting, Reconfigure, Submit, Saving, others
<1>2. CASE Caching
  <2>1. CacheOperation
    BY <1>2 DEF Caching, CacheOperation
  <2>2. QED
    BY <2>1 DEF CacheNext
<1>3. CASE Setting
  <2>1. CacheOperation
    BY <1>3 DEF Setting, CacheOperation
  <2>2. QED
    BY <2>1 DEF CacheNext
<1>4. CASE Tick
  BY <1>4 DEF Tick, CacheNext
<1>5. CASE Arriving \/ Serving \/ Scrubbing \/ ScrubStep
  BY <1>5 DEF Arriving, Serving, Scrubbing, ScrubStep
<1>6. CASE Stopping
  BY <1>6 DEF Stopping, CacheNext
<1>7. CASE UNCHANGED vars
  BY <1>7 DEF vars
<1>8. QED
  BY <1>1, <1>2, <1>3, <1>4, <1>5, <1>6, <1>7 DEF Next

\* The application's cache is a cache as Cache specifies it, across the
\* restarts, failed boots and reconfigurations around it.
THEOREM ApplicationImplementsCache == Spec => CacheSpec
<1>1. Init => CacheInit
  BY DEF Init
<1>2. [Next]_vars => [CacheNext]_cacheVars
  BY CacheStep
<1>3. QED
  BY <1>1, <1>2, PTL DEF Spec, CacheSpec

\* Get keeps the port's promise of a ttl in every behaviour of the application.
THEOREM ApplicationHonoursTTL == Spec => []TTLIsHonoured
  BY ApplicationImplementsCache, CacheHonoursTTL

-----------------------------------------------------------------------------
(***************************************************************************)
(* Startup: what the configuration operators keep of a value               *)
(***************************************************************************)
LEMMA ValueFields ==
  ASSUME NEW v \in Value
  PROVE  /\ v.by \in {"nobody", "operator", "setup", "default"}
         /\ v.is \in Text
         /\ v.no \in Nat
  BY DEF Value

LEMMA TrimSpaceType ==
  ASSUME NEW text \in Text
  PROVE  TrimSpace(text) \in Text /\ (TrimSpace(text) # "" => text # "")
  BY TextAssumption DEF TrimSpace

\* Neither changes where a value came from, and neither makes one up.
LEMMA CleaningKeepsSource ==
  ASSUME NEW v \in Value
  PROVE  /\ Trimmed(v) \in Value
         /\ Trimmed(v).by = v.by
         /\ Trimmed(v).is = TrimSpace(v.is)
         /\ Trimmed(v).is # "" => v.is # ""
         /\ Normalize(v) \in Value
         /\ Normalize(v).by = v.by
         /\ Normalize(v).is # "" => v.is # ""
<1>1. /\ Trimmed(v) \in Value
      /\ Trimmed(v).by = v.by
      /\ Trimmed(v).is = TrimSpace(v.is)
  BY ValueFields, TrimSpaceType DEF Trimmed, Value
<1>2. Trimmed(v).is # "" => v.is # ""
  BY <1>1, ValueFields, TrimSpaceType
<1>3. CASE v.is = "Supabase"
  <2>1. Normalize(v) = [v EXCEPT !.is = "supabase"]
    BY <1>3 DEF Normalize
  <2>2. QED
    BY <1>1, <1>2, <1>3, <2>1, TextAssumption DEF Value
<1>4. CASE v.is # "Supabase"
  BY <1>1, <1>2, <1>4 DEF Normalize
<1>5. QED
  BY <1>1, <1>2, <1>3, <1>4

LEMMA DefaultType ==
  ASSUME NEW text \in Text
  PROVE  /\ Default(text) \in Value
         /\ Default(text).by = "default"
         /\ Default(text).is = text
<1>1. 0 \in Nat
  OBVIOUS
<1>2. QED
  BY <1>1 DEF Default, Value

LEMMA StringOrCases ==
  ASSUME NEW env \in [EnvVar -> Value], NEW key \in EnvVar, NEW text \in Text
  PROVE  LET got == StringOr(env, key, Default(text))
         IN /\ got \in Value
            /\ \/ got = env[key] /\ env[key].is # ""
               \/ got = Default(text)
<1>1. env[key] \in Value /\ Default(text) \in Value
  BY DefaultType
<1>2. QED
  BY <1>1 DEF StringOr

LEMMA KeysAreEnvVars ==
  /\ DBVars \cup SecretVars \subseteq EnvVar
  /\ {"DATABASE_URL", "DB_PROVIDER", "DB_POOL_MODE", "DB_SSL_ROOT_CERT"} = DBVars
  /\ {"SESSION_SECRET", "ENCRYPTION_KEY"} = SecretVars
  /\ {"APP_ENV", "FORCE_SETUP", "TRUSTED_PROXIES", "HSTS",
      "SERVER_REQUEST_TIMEOUT"} \subseteq EnvVar
  BY DEF EnvVar, DBVars, SecretVars

\* If nothing of an environment's profile comes from someone, nothing of the
\* loaded one does.
LEMMA LoadedProfileIsFromEnv ==
  ASSUME NEW env \in [EnvVar -> Value],
         NEW who \in {"operator", "setup"},
         \A k \in DBVars : env[k].is # "" => env[k].by # who
  PROVE  \A f \in {"DSN", "Provider", "PoolMode", "SSLRootCert"} :
           Load(env)[f].is # "" => Load(env)[f].by # who
<1>1. \A k \in DBVars : k \in EnvVar /\ env[k] \in Value
  BY KeysAreEnvVars
<1>2. {"DATABASE_URL", "DB_PROVIDER", "DB_POOL_MODE", "DB_SSL_ROOT_CERT"} = DBVars
  BY KeysAreEnvVars
<1>3. ASSUME NEW key \in DBVars, NEW text \in Text
      PROVE  /\ StringOr(env, key, Default(text)) \in Value
             /\ StringOr(env, key, Default(text)).by # who
  <2>1. /\ StringOr(env, key, Default(text)) \in Value
        /\ \/ StringOr(env, key, Default(text)) = env[key] /\ env[key].is # ""
           \/ StringOr(env, key, Default(text)) = Default(text)
    BY <1>1, StringOrCases
  <2>2. Default(text).by # who
    BY DefaultType
  <2>3. QED
    BY <2>1, <2>2
<1>4. Load(env).DSN.is # "" => Load(env).DSN.by # who
  <2>1. Load(env).DSN = IF AppEnv(env) = "dev"
                        THEN StringOr(env, "DATABASE_URL", Default("disable"))
                        ELSE env["DATABASE_URL"]
    BY DEF Load, LoadDB
  <2>2. QED
    BY <1>2, <1>3, <2>1, TextAssumption
<1>5. Load(env).Provider.by # who
  <2>1. Load(env).Provider = Normalize(StringOr(env, "DB_PROVIDER", Default("postgres")))
    BY DEF Load, LoadDB
  <2>2. /\ StringOr(env, "DB_PROVIDER", Default("postgres")) \in Value
        /\ StringOr(env, "DB_PROVIDER", Default("postgres")).by # who
    BY <1>2, <1>3, TextAssumption
  <2>3. QED
    BY <2>1, <2>2, CleaningKeepsSource
<1>6. Load(env).PoolMode.by # who
  <2>1. Load(env).PoolMode = Normalize(StringOr(env, "DB_POOL_MODE", Default("session")))
    BY DEF Load, LoadDB
  <2>2. /\ StringOr(env, "DB_POOL_MODE", Default("session")) \in Value
        /\ StringOr(env, "DB_POOL_MODE", Default("session")).by # who
    BY <1>2, <1>3, TextAssumption
  <2>3. QED
    BY <2>1, <2>2, CleaningKeepsSource
<1>7. Load(env).SSLRootCert.is # "" => Load(env).SSLRootCert.by # who
  <2>1. Load(env).SSLRootCert = Trimmed(env["DB_SSL_ROOT_CERT"])
    BY DEF Load, LoadDB
  <2>2. QED
    BY <1>1, <1>2, <2>1, CleaningKeepsSource
<1>8. QED
  BY <1>4, <1>5, <1>6, <1>7

-----------------------------------------------------------------------------
(***************************************************************************)
(* Startup: where what a boot loads comes from                             *)
(***************************************************************************)
LEMMA EmptyStateType ==
  /\ EmptyState \in [DBVars \cup SecretVars -> [by : {"nobody", "setup"}, is : Text, no : Nat]]
  /\ \A k \in DBVars \cup SecretVars : EmptyState[k] = Unset /\ EmptyState[k].is = ""
<1>1. 0 \in Nat /\ "" \in Text
  BY TextAssumption
<1>2. Unset \in [by : {"nobody", "setup"}, is : Text, no : Nat] /\ Unset.is = ""
  BY <1>1 DEF Unset
<1>3. QED
  BY <1>2 DEF EmptyState

\* What LoadState returns: a State that was saved, or an empty one.
LEMMA FileState ==
  ASSUME FileIsWhole
  PROVE  /\ file.state \in [DBVars \cup SecretVars ->
                              [by : {"nobody", "setup"}, is : Text, no : Nat]]
         /\ file.kind \in {"missing", "torn", "state"}
         /\ file.kind = "missing" => submitted = 0
         /\ file.kind = "state" => file.state \in SavedState
         /\ file.kind # "state" =>
              \A k \in DBVars \cup SecretVars : file.state[k].is = ""
<1>1. CASE file = Missing /\ submitted = 0
  <2>1. file.kind = "missing" /\ file.state = EmptyState
    BY <1>1 DEF Missing
  <2>2. QED
    BY <1>1, <2>1, EmptyStateType
<1>2. CASE submitted > 0 /\ file = Torn(file.size)
  <2>1. file.kind = "torn" /\ file.state = EmptyState
    BY <1>2 DEF Torn
  <2>2. QED
    BY <2>1, EmptyStateType
<1>3. CASE submitted > 0 /\ file = Encoded(file.state) /\ file.state \in SavedState
  <2>1. file.kind = "state"
    BY <1>3 DEF Encoded
  <2>2. QED
    BY <1>3, <2>1 DEF SavedState
<1>4. QED
  BY <1>1, <1>2, <1>3 DEF FileIsWhole

\* Every variable is the operator's or, where the operator set nothing, the
\* file's; the database profile is either the one or the other.
LEMMA BootEnvOrigin ==
  ASSUME osEnv \in Environment, FileIsWhole
  PROVE  /\ \A k \in EnvVar :
              \/ bootEnv[k] = osEnv[k]
              \/ /\ k \in DBVars \cup SecretVars
                 /\ osEnv[k].is = "" /\ file.state[k].is # ""
                 /\ bootEnv[k] = file.state[k]
         /\ bootEnv \in [EnvVar -> Value]
         /\ \A k \in DBVars :
              IF \E d \in DBVars : osEnv[d].is # ""
              THEN bootEnv[k] = osEnv[k]
              ELSE bootEnv[k].is # "" => bootEnv[k] = file.state[k]
<1> DEFINE keys == IF \E d \in DBVars : osEnv[d].is # "" THEN SecretVars
                   ELSE SecretVars \cup DBVars
<1>1. bootEnv = [k \in EnvVar |-> IF k \in keys /\ osEnv[k].is = "" /\ file.state[k].is # ""
                                  THEN file.state[k] ELSE osEnv[k]]
  BY DEF bootEnv, ExportToEnv, LoadState, setEnvIfAbsent
<1>2. keys \subseteq DBVars \cup SecretVars
  OBVIOUS
<1>3. \A k \in EnvVar :
        \/ bootEnv[k] = osEnv[k]
        \/ /\ k \in DBVars \cup SecretVars
           /\ osEnv[k].is = "" /\ file.state[k].is # ""
           /\ bootEnv[k] = file.state[k]
  BY <1>1, <1>2
<1>4. \A k \in EnvVar : osEnv[k] \in Value
  BY DEF Environment, Value
<1>5. \A k \in DBVars \cup SecretVars : file.state[k] \in Value
  BY FileState DEF Value
<1>6. bootEnv \in [EnvVar -> Value]
  BY <1>1, <1>3, <1>4, <1>5
<1>7. ASSUME NEW k \in DBVars
      PROVE  IF \E d \in DBVars : osEnv[d].is # ""
             THEN bootEnv[k] = osEnv[k]
             ELSE bootEnv[k].is # "" => bootEnv[k] = file.state[k]
  <2>1. k \in EnvVar /\ k \notin SecretVars
    BY KeysAreEnvVars DEF DBVars, SecretVars
  <2>2. CASE \E d \in DBVars : osEnv[d].is # ""
    <3>1. k \notin keys
      BY <2>1, <2>2
    <3>2. QED
      BY <1>1, <2>1, <2>2, <3>1
  <2>3. CASE ~ \E d \in DBVars : osEnv[d].is # ""
    <3>1. osEnv[k].is = ""
      BY <2>3
    <3>2. QED
      BY <1>3, <2>1, <2>3, <3>1
  <2>4. QED
    BY <2>2, <2>3
<1>8. QED
  BY <1>3, <1>6, <1>7

\* ExportToEnv keeps the two sources of the profile apart.
LEMMA ServedIsNotHybrid ==
  ASSUME osEnv \in Environment, FileIsWhole, ServedAsLoaded
  PROVE  NoHybridProfile
<1> SUFFICES ASSUME phase = "serving"
             PROVE  \E who \in {"operator", "setup"} :
                      \A f \in {"DSN", "Provider", "PoolMode", "SSLRootCert"} :
                        conf[f].is # "" => conf[f].by # who
  BY DEF NoHybridProfile
<1>1. conf = Load(bootEnv)
  BY DEF ServedAsLoaded
<1>2. bootEnv \in [EnvVar -> Value]
  BY BootEnvOrigin
<1>3. \E who \in {"operator", "setup"} :
        \A k \in DBVars : bootEnv[k].is # "" => bootEnv[k].by # who
  <2>1. CASE \E d \in DBVars : osEnv[d].is # ""
    <3>1. \A k \in DBVars : bootEnv[k] = osEnv[k]
      BY <2>1, BootEnvOrigin
    <3>2. \A k \in DBVars : osEnv[k].by # "setup"
      BY KeysAreEnvVars DEF Environment
    <3>3. QED
      BY <3>1, <3>2
  <2>2. CASE ~ \E d \in DBVars : osEnv[d].is # ""
    <3>1. \A k \in DBVars : bootEnv[k].is # "" => bootEnv[k] = file.state[k]
      BY <2>2, BootEnvOrigin
    <3>2. \A k \in DBVars : file.state[k].by # "operator"
      BY FileState
    <3>3. QED
      BY <3>1, <3>2
  <2>3. QED
    BY <2>1, <2>2
<1>4. QED
  BY <1>1, <1>2, <1>3, LoadedProfileIsFromEnv

\* Nothing is exported over an environment that is complete.
LEMMA CompleteIsExported ==
  ASSUME NEW env \in Environment, Complete(env), NEW loaded
  PROVE  ExportToEnv(env, loaded) = env
<1>1. env["DATABASE_URL"].is # "" /\ \A k \in SecretVars : env[k].is # ""
  BY DEF Complete
<1>2. "DATABASE_URL" \in DBVars
  BY KeysAreEnvVars
<1>3. ExportToEnv(env, loaded) = setEnvIfAbsent(env, loaded.state, SecretVars)
  BY <1>1, <1>2 DEF ExportToEnv
<1>4. setEnvIfAbsent(env, loaded.state, SecretVars) = [k \in EnvVar |-> env[k]]
  BY <1>1 DEF setEnvIfAbsent
<1>5. [k \in EnvVar |-> env[k]] = env
  BY DEF Environment
<1>6. QED
  BY <1>3, <1>4, <1>5

\* Without a file there is nothing to export.
LEMMA NoFileNoExport ==
  ASSUME osEnv \in Environment, FileIsWhole, file.kind # "state"
  PROVE  bootEnv = osEnv
<1>1. \A k \in EnvVar : bootEnv[k] = osEnv[k]
  BY BootEnvOrigin, FileState
<1>2. bootEnv \in [EnvVar -> Value] /\ DOMAIN osEnv = EnvVar
  BY BootEnvOrigin DEF Environment
<1>3. osEnv = [k \in EnvVar |-> osEnv[k]] /\ bootEnv = [k \in EnvVar |-> bootEnv[k]]
  BY <1>2 DEF Environment
<1>4. QED
  BY <1>1, <1>3

\* What production demands of a configuration is everything that setup could
\* have supplied.
LEMMA ProductionIsComplete ==
  ASSUME NEW env \in [EnvVar -> Value], Valid(env), AppEnv(env) = "prod"
  PROVE  Complete(env)
<1>1. "SESSION_SECRET" \in EnvVar /\ "ENCRYPTION_KEY" \in EnvVar /\ "DATABASE_URL" \in EnvVar
  BY KeysAreEnvVars
<1>2. env["DATABASE_URL"].is # ""
  <2>1. LoadDB(env).DSN = env["DATABASE_URL"]
    BY DEF LoadDB
  <2>2. TrimSpace(env["DATABASE_URL"].is) # ""
    BY <2>1 DEF Valid, DBValid
  <2>3. QED
    BY <2>2 DEF TrimSpace
<1>3. env["SESSION_SECRET"].is # ""
  <2>1. LoadSession(env).is # "dev secret"
    BY DEF Valid, SessionValid
  <2>2. QED
    BY <2>1 DEF LoadSession, StringOr, Default
<1>4. env["ENCRYPTION_KEY"].is # ""
  <2>1. LoadCrypto(env).is # "dev key"
    BY DEF Valid, CryptoValid
  <2>2. Default("dev key") \in Value /\ Default("dev key").is = "dev key"
    BY DefaultType, TextAssumption
  <2>3. Trimmed(Default("dev key")).is = TrimSpace("dev key") /\ TrimSpace("dev key") = "dev key"
    BY <2>2, CleaningKeepsSource DEF TrimSpace
  <2>4. QED
    BY <2>1, <2>3 DEF LoadCrypto, StringOr
<1>5. QED
  BY <1>2, <1>3, <1>4, KeysAreEnvVars DEF Complete

\* A process that serves under an environment that production has served under
\* loads what was loaded then.
LEMMA ServedIsRepeated ==
  ASSUME StartupTypeOK, ServedAsLoaded, ServedIsReproducible
  PROVE  RestartKeepsConfig
<1> SUFFICES ASSUME ~ reset, phase = "serving", NEW v \in served,
                    v.env = osEnv, v.conf.env = "prod"
             PROVE  conf = v.conf
  BY DEF RestartKeepsConfig
<1>1. conf = Load(bootEnv) /\ bootEnv = ExportToEnv(osEnv, LoadState(file))
  BY DEF ServedAsLoaded, bootEnv
<1>2. osEnv \in Environment
  BY DEF StartupTypeOK
<1>3. CASE Complete(osEnv) /\ v.conf = Load(osEnv)
  BY <1>1, <1>2, <1>3, CompleteIsExported
<1>4. CASE v.conf = Load(ExportToEnv(osEnv, LoadState(file)))
  BY <1>1, <1>4
<1>5. QED
  BY <1>3, <1>4 DEF ServedIsReproducible

\* A boot that loads a key that setup generated loads the one in the file.
LEMMA GeneratedKeyIsFromFile ==
  ASSUME osEnv \in Environment, FileIsWhole, LoadCrypto(bootEnv).by = "setup"
  PROVE  /\ file.kind = "state"
         /\ LoadCrypto(bootEnv) = file.state["ENCRYPTION_KEY"]
         /\ \E n \in 1..submitted : LoadCrypto(bootEnv) = Generated(n)
<1> DEFINE key == "ENCRYPTION_KEY"
           got == StringOr(bootEnv, key, Default("dev key"))
<1>1. key \in EnvVar /\ key \in SecretVars
  BY KeysAreEnvVars
<1>2. /\ got \in Value
      /\ got = bootEnv[key] \/ got = Default("dev key")
  BY <1>1, BootEnvOrigin, StringOrCases, TextAssumption
<1>3. LoadCrypto(bootEnv) = Trimmed(got)
  BY DEF LoadCrypto
<1> HIDE DEF got
<1>4. got.by = "setup"
  BY <1>2, <1>3, CleaningKeepsSource
<1>5. got # Default("dev key")
  <2>1. Default("dev key").by = "default"
    BY DEF Default
  <2>2. QED
    BY <1>4, <2>1
<1>6. osEnv[key].by # "setup"
  BY <1>1 DEF Environment
<1>7. got = file.state[key] /\ file.state[key].is # ""
  <2>1. got = bootEnv[key]
    BY <1>2, <1>5
  <2>2. bootEnv[key] # osEnv[key]
    BY <1>4, <1>6, <2>1
  <2>3. QED
    BY <1>1, <2>1, <2>2, BootEnvOrigin
<1>8. file.kind = "state" /\ file.state \in SavedState
  BY <1>1, <1>7, FileState
<1>9. file.state[key] \in {Unset} \cup {Generated(n) : n \in 1..submitted}
  BY <1>1, <1>8 DEF SavedState
<1>10. file.state[key] # Unset
  <2>1. Unset.is = ""
    BY DEF Unset
  <2>2. QED
    BY <1>7, <2>1
<1>11. PICK n \in 1..submitted : got = Generated(n)
  BY <1>7, <1>9, <1>10
<1>12. Trimmed(got) = got
  <2>1. Generated(n) = [by |-> "setup", is |-> "generated", no |-> n]
    BY DEF Generated
  <2>2. TrimSpace("generated") = "generated"
    BY DEF TrimSpace
  <2>3. QED
    BY <1>11, <2>1, <2>2 DEF Trimmed
<1>13. QED
  BY <1>3, <1>7, <1>8, <1>11, <1>12

-----------------------------------------------------------------------------
(***************************************************************************)
(* Startup: its steps keep its invariant                                   *)
(***************************************************************************)
LEMMA NotSavingType ==
  NotSaving \in [pc : {"idle", "write"}, state : {EmptyState}] /\ NotSaving.pc = "idle"
  BY DEF NotSaving

\* A later submission makes more States possible and none impossible.
LEMMA SavedStateGrows ==
  ASSUME submitted \in Nat, submitted' \in Nat, submitted <= submitted'
  PROVE  SavedState \subseteq SavedState'
<1>1. 1..submitted \subseteq 1..submitted'
  OBVIOUS
<1>2. QED
  BY <1>1 DEF SavedState

LEMMA InitStartup ==
  ASSUME NEW environments \in SUBSET Environment, StartupInit(environments)
  PROVE  StartupInv
<1>1. saver \in [Submitter -> [pc : {"idle", "write"}, state : SavedState \cup {EmptyState}]]
  BY NotSavingType DEF StartupInit
<1>2. StartupTypeOK
  BY <1>1 DEF StartupInit, StartupTypeOK, sealed
<1>3. SaversAreInSetup
  BY NotSavingType DEF StartupInit, SaversAreInSetup
<1>4. FileIsWhole /\ ServedAsLoaded /\ SealedKeyIsFiled /\ ServedIsReproducible
  BY DEF StartupInit, FileIsWhole, ServedAsLoaded, SealedKeyIsFiled, ServedIsReproducible, sealed
<1>5. QED
  BY <1>2, <1>3, <1>4 DEF StartupInv

\* A file that holds a State holds a DSN, and opens no wizard by itself.
LEMMA WizardIsForced ==
  ASSUME FileIsWhole, file.kind = "state", NeedsSetup(osEnv, LoadState(file))
  PROVE  osEnv["FORCE_SETUP"].is = "true"
<1>1. TrimSpace(file.state["DATABASE_URL"].is) # ""
  BY FileState DEF SavedState
<1>2. QED
  BY <1>1 DEF NeedsSetup, LoadState

LEMMA BootIntoSetupKeepsStartup ==
  ASSUME StartupInv, BootIntoSetup
  PROVE  StartupInv'
<1>1. SavedState' = SavedState /\ sealed' = sealed
  BY DEF BootIntoSetup, SavedState, sealed
<1>2. conf = NoConf
  BY DEF StartupInv, StartupTypeOK, BootIntoSetup
<1>3. reset' \in BOOLEAN
  BY DEF BootIntoSetup
<1>4. StartupTypeOK'
  BY <1>1, <1>2, <1>3 DEF StartupInv, StartupTypeOK, BootIntoSetup
<1>5. FileIsWhole'
  BY <1>1 DEF StartupInv, FileIsWhole, BootIntoSetup
<1>6. SaversAreInSetup'
  BY <1>1 DEF StartupInv, SaversAreInSetup, BootIntoSetup
<1>7. ServedAsLoaded'
  BY DEF ServedAsLoaded, BootIntoSetup
<1>8. SealedKeyIsFiled'
  <2>1. ASSUME ~ reset', sealed' # {}
        PROVE  FALSE
    <3>1. ~ reset /\ osEnv["FORCE_SETUP"].is # "true" /\ sealed # {}
      BY <1>1, <2>1 DEF BootIntoSetup
    <3>2. file.kind = "state"
      BY <3>1 DEF StartupInv, SealedKeyIsFiled
    <3>3. QED
      BY <3>1, <3>2, WizardIsForced DEF StartupInv, BootIntoSetup
  <2>2. QED
    BY <2>1 DEF SealedKeyIsFiled
<1>9. ServedIsReproducible'
  <2>1. reset' \/ (~ reset /\ file.kind # "state")
    BY WizardIsForced DEF StartupInv, BootIntoSetup
  <2>2. served' = served
    BY DEF BootIntoSetup
  <2>3. QED
    BY <2>1, <2>2 DEF StartupInv, ServedIsReproducible
<1>10. QED
  BY <1>4, <1>5, <1>6, <1>7, <1>8, <1>9 DEF StartupInv

LEMMA BootServesKeepsStartup ==
  ASSUME StartupInv, BootServes
  PROVE  StartupInv'
<1> DEFINE key == LoadCrypto(bootEnv)
<1>1. SavedState' = SavedState /\ bootEnv' = bootEnv
  BY DEF BootServes, SavedState, bootEnv
<1>2. osEnv \in Environment /\ FileIsWhole
  BY DEF StartupInv, StartupTypeOK
<1>3. conf'.EncryptionKey = key
  BY DEF BootServes, Load
<1>4. \/ sealed' = sealed
      \/ key.by = "setup" /\ sealed' = sealed \cup {key}
  <2> DEFINE v == [env |-> osEnv, conf |-> conf']
  <2>1. served' = served \cup {v} /\ v.conf.EncryptionKey = key
    BY <1>3 DEF BootServes
  <2> HIDE DEF v
  <2>2. QED
    BY <2>1 DEF sealed
<1>5. key.by = "setup" => /\ file.kind = "state"
                          /\ key = file.state["ENCRYPTION_KEY"]
                          /\ \E n \in 1..submitted : key = Generated(n)
  BY <1>2, GeneratedKeyIsFromFile
<1> HIDE DEF key
<1>6. \A k \in sealed' : \E n \in 1..submitted : k = Generated(n)
  BY <1>4, <1>5 DEF StartupInv, StartupTypeOK
<1>7. StartupTypeOK'
  BY <1>1, <1>2, <1>6 DEF StartupInv, StartupTypeOK, BootServes
<1>8. FileIsWhole'
  BY <1>1 DEF StartupInv, FileIsWhole, BootServes
<1>9. SaversAreInSetup'
  BY <1>1 DEF StartupInv, SaversAreInSetup, BootServes
<1>10. ServedAsLoaded'
  <2>1. file'.kind # "torn" /\ conf' = Load(bootEnv)
    BY DEF BootServes, LoadState
  <2>2. QED
    BY <1>1, <2>1 DEF ServedAsLoaded
<1>11. SealedKeyIsFiled'
  <2>1. phase' = "serving" /\ file' = file /\ reset' = reset
    BY DEF BootServes
  <2>2. ~ reset /\ sealed # {} => /\ file.kind = "state"
                                  /\ sealed = {file.state["ENCRYPTION_KEY"]}
    BY DEF StartupInv, SealedKeyIsFiled
  <2>3. CASE sealed' = sealed
    BY <2>1, <2>2, <2>3 DEF SealedKeyIsFiled
  <2>4. CASE key.by = "setup" /\ sealed' = sealed \cup {key}
    <3>1. file.kind = "state" /\ key = file.state["ENCRYPTION_KEY"]
      BY <1>5, <2>4
    <3>2. ~ reset => sealed' = {file.state["ENCRYPTION_KEY"]}
      BY <2>2, <2>4, <3>1
    <3>3. QED
      BY <2>1, <3>1, <3>2 DEF SealedKeyIsFiled
  <2>5. QED
    BY <1>4, <2>3, <2>4
<1>12. ServedIsReproducible'
  <2> DEFINE v == [env |-> osEnv, conf |-> conf']
  <2>1. /\ phase' = "serving" /\ file' = file /\ reset' = reset /\ served' = served \cup {v}
        /\ v.env = osEnv /\ v.conf = Load(bootEnv)
        /\ Valid(bootEnv) /\ ~ LoadState(file).err
    BY DEF BootServes
  <2> HIDE DEF v
  <2>2. v.conf.env = AppEnv(bootEnv)
    BY <2>1 DEF Load
  <2>3. ASSUME v.conf.env = "prod", file.kind # "state"
        PROVE  Complete(v.env) /\ v.conf = Load(v.env)
    <3>1. bootEnv = osEnv /\ bootEnv \in [EnvVar -> Value]
      BY <1>2, <2>3, NoFileNoExport, BootEnvOrigin
    <3>2. QED
      BY <2>1, <2>2, <2>3, <3>1, ProductionIsComplete
  <2>4. v.conf = Load(ExportToEnv(v.env, LoadState(file)))
    BY <2>1 DEF bootEnv
  <2>5. QED
    BY <2>1, <2>3, <2>4 DEF StartupInv, ServedIsReproducible
<1>13. QED
  BY <1>7, <1>8, <1>9, <1>10, <1>11, <1>12 DEF StartupInv

LEMMA BootFailsKeepsStartup ==
  ASSUME StartupInv, BootFails
  PROVE  StartupInv'
<1>1. SavedState' = SavedState /\ sealed' = sealed
  BY DEF BootFails, SavedState, sealed
<1>2. conf = NoConf
  BY DEF StartupInv, StartupTypeOK, BootFails
<1>3. StartupTypeOK'
  BY <1>1, <1>2 DEF StartupInv, StartupTypeOK, BootFails
<1>4. FileIsWhole'
  BY <1>1 DEF StartupInv, FileIsWhole, BootFails
<1>5. SaversAreInSetup'
  BY <1>1 DEF StartupInv, SaversAreInSetup, BootFails
<1>6. ServedAsLoaded' /\ SealedKeyIsFiled' /\ ServedIsReproducible'
  BY <1>1 DEF StartupInv, ServedAsLoaded, SealedKeyIsFiled, ServedIsReproducible, BootFails
<1>7. QED
  BY <1>3, <1>4, <1>5, <1>6 DEF StartupInv

LEMMA StopKeepsStartup ==
  ASSUME StartupInv, Stop
  PROVE  StartupInv'
<1>1. SavedState' = SavedState /\ sealed' = sealed
  BY DEF Stop, SavedState, sealed
<1>2. saver' \in [Submitter -> [pc : {"idle", "write"}, state : SavedState \cup {EmptyState}]]
  BY NotSavingType DEF Stop
<1>3. StartupTypeOK'
  BY <1>1, <1>2 DEF StartupInv, StartupTypeOK, Stop
<1>4. FileIsWhole'
  BY <1>1 DEF StartupInv, FileIsWhole, Stop
<1>5. SaversAreInSetup'
  BY NotSavingType DEF SaversAreInSetup, Stop
<1>6. ServedAsLoaded' /\ SealedKeyIsFiled' /\ ServedIsReproducible'
  BY <1>1 DEF StartupInv, ServedAsLoaded, SealedKeyIsFiled, ServedIsReproducible, Stop
<1>7. QED
  BY <1>3, <1>4, <1>5, <1>6 DEF StartupInv

LEMMA ChangeEnvironmentKeepsStartup ==
  ASSUME StartupInv, NEW env \in Environment, ChangeEnvironment(env)
  PROVE  StartupInv'
<1>1. SavedState' = SavedState /\ sealed' = sealed
  BY DEF ChangeEnvironment, SavedState, sealed
<1>2. StartupTypeOK'
  BY <1>1 DEF StartupInv, StartupTypeOK, ChangeEnvironment
<1>3. FileIsWhole'
  BY <1>1 DEF StartupInv, FileIsWhole, ChangeEnvironment
<1>4. SaversAreInSetup'
  BY <1>1 DEF StartupInv, SaversAreInSetup, ChangeEnvironment
<1>5. ServedAsLoaded' /\ SealedKeyIsFiled' /\ ServedIsReproducible'
  BY <1>1 DEF StartupInv, ServedAsLoaded, SealedKeyIsFiled, ServedIsReproducible, ChangeEnvironment
<1>6. QED
  BY <1>2, <1>3, <1>4, <1>5 DEF StartupInv

\* What a submission is about to save has the form's DSN.
LEMMA WizardStateIsSaved ==
  ASSUME NEW profile \in WizardProfile, NEW n \in Nat \ {0}, submitted' = n
  PROVE  wizardState(profile, n) \in SavedState'
<1>1. /\ profile \in [DBVars -> [by : {"nobody", "setup"}, is : Text, no : {0}]]
      /\ profile["DATABASE_URL"].is \notin {"", " "}
  BY WizardAssumption
<1>2. /\ Unset \in [by : {"nobody", "setup"}, is : Text, no : Nat]
      /\ Generated(n) \in [by : {"nobody", "setup"}, is : Text, no : Nat]
  <2>1. 0 \in Nat /\ n \in Nat /\ "" \in Text /\ "generated" \in Text
    BY TextAssumption
  <2>2. QED
    BY <2>1 DEF Unset, Generated
<1>3. \A k \in DBVars : profile[k] \in [by : {"nobody", "setup"}, is : Text, no : Nat]
  <2>1. \A v \in [by : {"nobody", "setup"}, is : Text, no : {0}] :
          v \in [by : {"nobody", "setup"}, is : Text, no : Nat]
    OBVIOUS
  <2>2. QED
    BY <1>1, <2>1
<1>4. /\ wizardState(profile, n) \in
           [DBVars \cup SecretVars -> [by : {"nobody", "setup"}, is : Text, no : Nat]]
      /\ \A k \in DBVars : wizardState(profile, n)[k] = profile[k]
      /\ \A k \in SecretVars \ DBVars : wizardState(profile, n)[k] \in {Unset, Generated(n)}
  <2>1. wizardState(profile, n) =
          [k \in DBVars \cup SecretVars |->
             IF k \in DBVars THEN profile[k]
             ELSE IF osEnv[k].is # "" THEN Unset ELSE Generated(n)]
    BY DEF wizardState
  <2>2. \A k \in DBVars : wizardState(profile, n)[k] = profile[k]
    BY <2>1
  <2>3. \A k \in SecretVars \ DBVars : wizardState(profile, n)[k] \in {Unset, Generated(n)}
    BY <2>1
  <2>4. QED
    BY <1>2, <1>3, <2>1, <2>2, <2>3
<1>5. SecretVars \ DBVars = SecretVars /\ "DATABASE_URL" \in DBVars
  BY DEF SecretVars, DBVars
<1>6. TrimSpace(wizardState(profile, n)["DATABASE_URL"].is) # ""
  <2>1. TrimSpace(profile["DATABASE_URL"].is) # ""
    BY <1>1 DEF TrimSpace
  <2>2. QED
    BY <1>4, <1>5, <2>1
<1>7. n \in 1..n
  OBVIOUS
<1>8. \A k \in SecretVars :
        wizardState(profile, n)[k] \in {Unset} \cup {Generated(m) : m \in 1..n}
  BY <1>4, <1>5, <1>7
<1>9. QED
  BY <1>4, <1>6, <1>8 DEF SavedState

LEMMA TruncateKeepsStartup ==
  ASSUME StartupInv, NEW s \in Submitter, NEW profile \in WizardProfile,
         Truncate(s, profile)
  PROVE  StartupInv'
<1> DEFINE state == wizardState(profile, submitted + 1)
<1>1. submitted \in Nat /\ submitted' = submitted + 1 /\ submitted' \in Nat \ {0}
  BY DEF StartupInv, StartupTypeOK, Truncate
<1>2. SavedState \subseteq SavedState'
  BY <1>1, SavedStateGrows
<1>3. state \in SavedState'
  BY <1>1, WizardStateIsSaved
<1>4. saver' = [saver EXCEPT ![s] = [pc |-> "write", state |-> state]]
  BY <1>1 DEF Truncate
<1> HIDE DEF state
<1>5. saver' \in [Submitter -> [pc : {"idle", "write"}, state : SavedState' \cup {EmptyState}]]
  BY <1>2, <1>3, <1>4 DEF StartupInv, StartupTypeOK
<1>6. \A k \in sealed' : \E n \in 1..submitted' : k = Generated(n)
  <2>1. 1..submitted \subseteq 1..submitted'
    BY <1>1
  <2>2. sealed' = sealed
    BY DEF Truncate, sealed
  <2>3. QED
    BY <2>1, <2>2 DEF StartupInv, StartupTypeOK
<1>7. StartupTypeOK'
  BY <1>1, <1>5, <1>6 DEF StartupInv, StartupTypeOK, Truncate
<1>8. FileIsWhole'
  <2>1. file' = Torn(0) /\ file'.size = 0
    BY DEF Truncate, Torn
  <2>2. submitted' > 0
    BY <1>1
  <2>3. QED
    BY <2>1, <2>2 DEF FileIsWhole
<1>9. SaversAreInSetup'
  <2>1. phase' = "setup" /\ submitted' > 0
    BY <1>1 DEF Truncate
  <2>2. saver'[s].state = state
    BY <1>4 DEF StartupInv, StartupTypeOK
  <2>3. \A t \in Submitter \ {s} : saver'[t] = saver[t]
    BY <1>4 DEF StartupInv, StartupTypeOK
  <2>4. \A t \in Submitter : saver[t].pc = "write" => saver[t].state \in SavedState
    BY DEF StartupInv, SaversAreInSetup
  <2>5. QED
    BY <1>2, <1>3, <2>1, <2>2, <2>3, <2>4 DEF SaversAreInSetup
<1>10. ServedAsLoaded'
  BY DEF ServedAsLoaded, Truncate
<1>11. SealedKeyIsFiled' /\ ServedIsReproducible'
  BY DEF StartupInv, SealedKeyIsFiled, ServedIsReproducible, sealed, Truncate
<1>12. QED
  BY <1>7, <1>8, <1>9, <1>10, <1>11 DEF StartupInv

\* However a write ends, what it leaves is torn, or whole and its own, or what
\* was there.
LEMMA WriteKeepsStartup ==
  ASSUME StartupInv, NEW s \in Submitter, Write(s) \/ WriteFails(s)
  PROVE  StartupInv'
<1> DEFINE state == saver[s].state
<1>1. /\ saver[s].pc = "write"
      /\ saver' = [saver EXCEPT ![s] = NotSaving]
      /\ UNCHANGED <<osEnv, phase, conf, submitted, served, reset>>
  BY DEF Write, WriteFails
<1>2. phase = "setup" /\ submitted > 0 /\ state \in SavedState
  BY <1>1 DEF StartupInv, SaversAreInSetup
<1> HIDE DEF state
<1>3. SavedState' = SavedState /\ sealed' = sealed
  BY <1>1 DEF SavedState, sealed
<1>4. \/ file' = file
      \/ file' = Encoded(state)
      \/ \E size : file' = Torn(size)
  BY DEF Write, WriteFails, overlay, state
<1>5. saver' \in [Submitter -> [pc : {"idle", "write"}, state : SavedState \cup {EmptyState}]]
  BY <1>1, NotSavingType DEF StartupInv, StartupTypeOK
<1>6. StartupTypeOK'
  BY <1>1, <1>3, <1>5 DEF StartupInv, StartupTypeOK
<1>7. FileIsWhole'
  <2>1. CASE file' = file
    BY <1>1, <1>3, <2>1 DEF StartupInv, FileIsWhole
  <2>2. CASE file' = Encoded(state)
    <3>1. file'.state = state
      BY <2>2 DEF Encoded
    <3>2. QED
      BY <1>1, <1>2, <1>3, <2>2, <3>1 DEF FileIsWhole
  <2>3. CASE \E size : file' = Torn(size)
    <3>1. file' = Torn(file'.size)
      BY <2>3 DEF Torn
    <3>2. QED
      BY <1>1, <1>2, <3>1 DEF FileIsWhole
  <2>4. QED
    BY <1>4, <2>1, <2>2, <2>3
<1>8. SaversAreInSetup'
  <2>1. \A t \in Submitter : saver'[t].pc = "write" => saver'[t] = saver[t]
    BY <1>1, NotSavingType DEF StartupInv, StartupTypeOK
  <2>2. QED
    BY <1>1, <1>3, <2>1 DEF StartupInv, SaversAreInSetup
<1>9. ServedAsLoaded' /\ SealedKeyIsFiled' /\ ServedIsReproducible'
  BY <1>1, <1>2, <1>3 DEF StartupInv, ServedAsLoaded, SealedKeyIsFiled, ServedIsReproducible
<1>10. QED
  BY <1>6, <1>7, <1>8, <1>9 DEF StartupInv

LEMMA StutterKeepsStartup ==
  ASSUME StartupInv, UNCHANGED startupVars
  PROVE  StartupInv'
<1>1. SavedState' = SavedState /\ bootEnv' = bootEnv /\ sealed' = sealed
  BY DEF startupVars, SavedState, bootEnv, sealed
<1>2. StartupTypeOK'
  BY <1>1 DEF StartupInv, StartupTypeOK, startupVars
<1>3. FileIsWhole' /\ SaversAreInSetup'
  BY <1>1 DEF StartupInv, FileIsWhole, SaversAreInSetup, startupVars
<1>4. ServedAsLoaded' /\ SealedKeyIsFiled' /\ ServedIsReproducible'
  BY <1>1 DEF StartupInv, ServedAsLoaded, SealedKeyIsFiled, ServedIsReproducible, startupVars
<1>5. QED
  BY <1>2, <1>3, <1>4 DEF StartupInv

-----------------------------------------------------------------------------
(***************************************************************************)
(* Requests: the client's address                                          *)
(***************************************************************************)
\* A nonempty set of positions has a last one.
LEMMA LastPosition ==
  ASSUME NEW n \in Nat, NEW S \in SUBSET (1..n), S # {}
  PROVE  Max(S) \in S /\ \A k \in S : k <= Max(S)
<1> DEFINE D == {d \in Nat : \E k \in S : d = n - k}
<1>1. D \subseteq Nat /\ D # {}
  <2>1. PICK k \in S : TRUE
    OBVIOUS
  <2>2. n - k \in D
    OBVIOUS
  <2>3. QED
    BY <2>2
<1>2. PICK d \in D : \A e \in D : ~ (<<e, d>> \in OpToRel(<, Nat))
  <2> HIDE DEF D
  <2> QED
    BY <1>1, NatLessThanWellFounded, WFMin
<1>3. ASSUME NEW e \in D
      PROVE  d <= e
  <2>1. e \in Nat /\ d \in Nat
    OBVIOUS
  <2>2. e < d => <<e, d>> \in OpToRel(<, Nat)
    BY <2>1 DEF OpToRel
  <2>3. ~ (e < d)
    BY <1>2, <2>2
  <2>4. QED
    BY <2>1, <2>3
<1>4. PICK m \in S : d = n - m
  OBVIOUS
<1>5. ASSUME NEW k \in S
      PROVE  m >= k
  <2>1. n - k \in D
    OBVIOUS
  <2>2. QED
    BY <1>3, <1>4, <2>1
<1>6. QED
  BY <1>5 DEF Max

LEMMA LastPositionIs ==
  ASSUME NEW n \in Nat, NEW S \in SUBSET (1..n), NEW m \in S, \A k \in S : k <= m
  PROVE  Max(S) = m
<1>1. Max(S) \in S /\ m <= Max(S)
  <2>1. S # {}
    OBVIOUS
  <2>2. Max(S) \in S /\ \A k \in S : k <= Max(S)
    BY <2>1, LastPosition
  <2>3. QED
    BY <2>2
<1>2. \A k \in S : k \in Nat
  OBVIOUS
<1>3. Max(S) <= m /\ Max(S) \in Nat /\ m \in Nat
  BY <1>1, <1>2
<1>4. QED
  BY <1>1, <1>3

\* Of the list that the proxies have added to, clientFromXFF picks the address
\* on the path that is closest to the server and not trusted, whatever the
\* client had put into the list.
LEMMA ClientIsNearestUntrusted ==
  ASSUME NEW c \in Call, NEW trusted \in SUBSET Proxy
  PROVE  /\ nearestUntrusted(c, trusted) \in Client \cup Proxy
         /\ peer(c) \notin trusted => nearestUntrusted(c, trusted) = peer(c)
         /\ peer(c) \in trusted =>
              clientFromXFF(xForwardedFor(c), trusted) = nearestUntrusted(c, trusted)
<1> DEFINE path == c.path
           sent == c.sent
           n    == Len(path)
           m    == Len(sent)
           addr == Client \cup Proxy \cup {Garbage}
           far  == {k \in DOMAIN path : path[k] \notin trusted}
           last == Max(far)
<1>1. /\ path \in Seq(Client \cup Proxy) /\ path # <<>> /\ Head(path) \in Client
      /\ sent \in Seq(addr)
  BY RequestAssumption
<1>2. /\ n \in Nat \ {0} /\ m \in Nat /\ DOMAIN path = 1..n
      /\ \A k \in 1..n : path[k] \in Client \cup Proxy
      /\ path[1] \in Client
  BY <1>1
<1>3. nearestUntrusted(c, trusted) = path[last] /\ peer(c) = path[n]
  BY DEF nearestUntrusted, peer, Last
<1> HIDE DEF path, sent
<1>4. far \in SUBSET (1..n) /\ 1 \in far
  <2>1. path[1] \notin trusted
    BY <1>2, RequestAssumption
  <2>2. 1 \in 1..n
    BY <1>2
  <2>3. QED
    BY <1>2, <2>1, <2>2
<1>5. last \in far /\ \A k \in far : k <= last
  <2> HIDE DEF far
  <2> QED
    BY <1>2, <1>4, LastPosition
<1>6. path[last] \in Client \cup Proxy
  BY <1>2, <1>4, <1>5
<1>7. ASSUME peer(c) \notin trusted
      PROVE  last = n
  <2>1. n \in far /\ \A k \in far : k <= n
    BY <1>2, <1>3, <1>7
  <2>2. QED
    BY <1>2, <1>4, <2>1, LastPositionIs
<1>8. ASSUME peer(c) \in trusted
      PROVE  clientFromXFF(xForwardedFor(c), trusted) = path[last]
  <2> DEFINE front == SubSeq(path, 1, n - 1)
             xff   == sent \o front
             found == {k \in DOMAIN xff : xff[k] # Garbage /\ xff[k] \notin trusted}
  <2>1. last \in 1..n - 1
    BY <1>2, <1>3, <1>4, <1>5, <1>8
  <2>2. path \in Seq(addr)
    BY <1>1
  <2>3. /\ front \in Seq(addr)
        /\ Len(front) = n - 1
        /\ \A k \in 1..n - 1 : front[k] = path[k]
    BY <1>2, <2>2
  <2> HIDE DEF front, addr
  <2>4. /\ xff \in Seq(addr)
        /\ Len(xff) = m + n - 1
        /\ \A k \in 1..n - 1 : xff[m + k] = front[k]
    BY <1>1, <1>2, <2>3, ConcatProperties
  <2>5. DOMAIN xff = 1..m + n - 1
    BY <1>2, <2>4
  <2>6. \A k \in 1..n - 1 : m + k \in DOMAIN xff /\ xff[m + k] = path[k]
    BY <1>2, <2>3, <2>4, <2>5
  <2> HIDE DEF xff
  <2>7. m + last \in found
    <3>1. path[last] # Garbage /\ path[last] \notin trusted
      BY <1>5, <1>6, RequestAssumption
    <3>2. QED
      BY <2>1, <2>6, <3>1
  <2>8. ASSUME NEW k \in found
        PROVE  k <= m + last
    <3>1. k \in 1..m + n - 1
      BY <2>5
    <3>2. SUFFICES ASSUME k > m + last
                   PROVE  FALSE
      BY <1>2, <2>1, <3>1
    <3>3. k - m \in 1..n - 1 /\ k - m > last
      BY <1>2, <2>1, <3>1, <3>2
    <3>4. xff[m + (k - m)] = path[k - m] /\ m + (k - m) = k
      BY <1>2, <2>6, <3>1, <3>3
    <3>5. k - m \in far
      BY <1>2, <3>3, <3>4
    <3>6. QED
      <4>1. k - m <= last /\ last \in Nat /\ k - m \in Nat
        BY <1>5, <2>1, <3>3, <3>5
      <4>2. QED
        BY <3>3, <4>1
  <2>9. Max(found) = m + last
    <3>1. found \in SUBSET (1..m + n - 1) /\ m + n - 1 \in Nat
      BY <1>2, <2>5
    <3> HIDE DEF found
    <3>2. QED
      BY <2>7, <2>8, <3>1, LastPositionIs
  <2>10. clientFromXFF(xff, trusted) = xff[m + last]
    BY <2>7, <2>9 DEF clientFromXFF
  <2>11. xForwardedFor(c) = xff
    BY DEF xForwardedFor, Front, xff, front, path, sent
  <2>12. QED
    BY <2>1, <2>6, <2>10, <2>11
<1>9. QED
  BY <1>3, <1>6, <1>7, <1>8

\* What ForwardedHeaders resolves, and SecurityHeaders makes of it.
LEMMA ForwardedFacts ==
  ASSUME NEW c \in Call, NEW trusted \in SUBSET Proxy, NEW hsts \in BOOLEAN
  PROVE  LET fwd == resolveForwarded(c, trusted)
         IN  /\ fwd.clientIP \in Client \cup Proxy
             /\ fwd.clientIP = nearestUntrusted(c, trusted)
             /\ fwd.scheme \in {"http", "https"}
             /\ peer(c) \notin trusted => fwd.scheme = onWireScheme(c)
             /\ SecurityHeaders(hsts, fwd.scheme) \in BOOLEAN
             /\ SecurityHeaders(hsts, fwd.scheme) /\ ~ c.tls => peer(c) \in trusted
<1> DEFINE fwd    == resolveForwarded(c, trusted)
           near   == nearestUntrusted(c, trusted)
           client == clientFromXFF(xForwardedFor(c), trusted)
<1>1. onWireScheme(c) \in {"http", "https"} /\ (~ c.tls => onWireScheme(c) = "http")
  BY DEF onWireScheme
<1>2. normalizeScheme(c.proto) \in {"", "http", "https"}
  BY DEF normalizeScheme
<1>3. near \in Client \cup Proxy /\ near # ""
  BY ClientIsNearestUntrusted, RequestAssumption
<1>4. peer(c) \notin trusted => fwd.clientIP = peer(c) /\ fwd.scheme = onWireScheme(c)
  BY DEF resolveForwarded
<1>5. peer(c) \in trusted =>
        /\ fwd.clientIP = IF client # "" THEN client ELSE peer(c)
        /\ fwd.scheme = IF normalizeScheme(c.proto) # "" THEN normalizeScheme(c.proto)
                        ELSE onWireScheme(c)
  BY DEF resolveForwarded
<1>6. /\ peer(c) \notin trusted => near = peer(c)
      /\ peer(c) \in trusted => client = near
  BY ClientIsNearestUntrusted
<1> HIDE DEF fwd, near, client
<1>7. fwd.clientIP = near
  BY <1>3, <1>4, <1>5, <1>6
<1>8. fwd.scheme \in {"http", "https"}
  BY <1>1, <1>2, <1>4, <1>5
<1>9. SecurityHeaders(hsts, fwd.scheme) \in BOOLEAN
  BY DEF SecurityHeaders
<1>10. SecurityHeaders(hsts, fwd.scheme) /\ ~ c.tls => peer(c) \in trusted
  BY <1>1, <1>4 DEF SecurityHeaders
<1>11. QED
  BY <1>3, <1>4, <1>7, <1>8, <1>9, <1>10 DEF fwd, near

-----------------------------------------------------------------------------
(***************************************************************************)
(* Requests: one request at a time                                         *)
(***************************************************************************)
\* The parts of RequestsInv that speak of one request.
Sound(q) ==
  /\ q \in RequestState
  /\ q.hijacked => q.wroteHeader
  /\ ~ q.wroteHeader => q.status = 0
  /\ ~ q.wroteHeader /\ q.pc # "done" => q.wire = 0
  /\ q.wroteHeader /\ ~ q.hijacked =>
       q.status # 0 /\ (informational(q.status) \/ q.wire = q.status)
  /\ q.pc \in {"returned", "panicked", "aborted", "observed", "done"} =>
       q.pattern = q.matched
  /\ q.pc \in {"observed", "done"} /\ q.metrics => q.counted = observation(q)
  /\ q.pc = "done" => q.logged = statusOr200(q) /\ (q.wroteHeader \/ q.wire = 200)
  /\ q.pc # "new" => /\ q.clientIP = nearestUntrusted(q.call, q.trusted)
                     /\ q.hsts /\ ~ q.call.tls => peer(q.call) \in q.trusted
                     /\ peer(q.call) \notin q.trusted => q.scheme = onWireScheme(q.call)

\* Between Metrics' two ends.
Counting(q) ==
  q.metrics /\ q.pc \in {"middleware", "handler", "returned", "panicked", "aborted"}

LEMMA RequestsAreSound ==
  ASSUME RequestsInv
  PROVE  \A r \in Request : Sound(req[r])
  BY DEF RequestsInv, RequestsTypeOK, WriterIsRight, LayersAreRight, ForwardedIsHonest, Sound

LEMMA SoundRequestsSuffice ==
  ASSUME req \in [Request -> RequestState], \A r \in Request : Sound(req[r]),
         inFlight \in Nat, IsFiniteSet(countedIn), GaugeIsExact
  PROVE  RequestsInv
<1>1. RequestsTypeOK
  BY DEF RequestsTypeOK
<1>2. WriterIsRight
  BY DEF WriterIsRight, Sound
<1>3. LayersAreRight
  BY DEF LayersAreRight, Sound
<1>4. ForwardedIsHonest
  BY DEF ForwardedIsHonest, Sound
<1>5. QED
  BY <1>1, <1>2, <1>3, <1>4 DEF RequestsInv

LEMMA FreshIsSound == Sound(Fresh) /\ Fresh.pc = "new" /\ ~ Fresh.metrics
<1>1. 0 \in Nat
  OBVIOUS
<1>2. Fresh \in RequestState
  BY <1>1 DEF Fresh, RequestState, Pattern, Unrecorded
<1>3. /\ Fresh.pc = "new" /\ ~ Fresh.metrics /\ ~ Fresh.wroteHeader /\ ~ Fresh.hijacked
      /\ Fresh.status = 0 /\ Fresh.wire = 0
  BY DEF Fresh
<1>4. QED
  BY <1>2, <1>3 DEF Sound

LEMMA InitRequests ==
  ASSUME RequestsInit
  PROVE  RequestsInv
<1>1. req = [r \in Request |-> Fresh] /\ inFlight = 0
  BY DEF RequestsInit
<1>2. countedIn = {}
  BY <1>1, FreshIsSound DEF countedIn
<1>3. IsFiniteSet(countedIn) /\ GaugeIsExact
  BY <1>1, <1>2, FS_EmptySet DEF GaugeIsExact
<1>4. req \in [Request -> RequestState] /\ \A r \in Request : Sound(req[r])
  BY <1>1, FreshIsSound DEF Sound
<1>5. inFlight \in Nat
  BY <1>1
<1>6. QED
  BY <1>3, <1>4, <1>5, SoundRequestsSuffice

\* A step of one request keeps the invariant when it leaves the request sound
\* and moves the gauge as it moves the request.
LEMMA OneRequestMoves ==
  ASSUME RequestsInv, NEW r \in Request, NEW q, Sound(q),
         req' = [req EXCEPT ![r] = q],
         \/ (Counting(q) <=> Counting(req[r])) /\ inFlight' = inFlight
         \/ Counting(q) /\ ~ Counting(req[r]) /\ inFlight' = inFlight + 1
         \/ ~ Counting(q) /\ Counting(req[r]) /\ inFlight' = inFlight - 1
  PROVE  RequestsInv'
<1>1. req \in [Request -> RequestState] /\ q \in RequestState
  BY DEF RequestsInv, RequestsTypeOK, Sound
<1>2. req' \in [Request -> RequestState]
  BY <1>1
<1>3. req'[r] = q /\ \A t \in Request \ {r} : req'[t] = req[t]
  BY <1>1
<1>4. \A t \in Request : Sound(req'[t])
  BY <1>3, RequestsAreSound
<1>5. /\ countedIn = {t \in Request : Counting(req[t])}
      /\ countedIn' = {t \in Request : Counting(req'[t])}
  BY DEF countedIn, Counting
<1>6. /\ IsFiniteSet(countedIn) /\ inFlight = Cardinality(countedIn)
      /\ inFlight \in Nat
  BY DEF RequestsInv, RequestsTypeOK, GaugeIsExact
<1>7. /\ IsFiniteSet(countedIn') /\ inFlight' = Cardinality(countedIn')
      /\ inFlight' \in Nat
  <2>1. CASE (Counting(q) <=> Counting(req[r])) /\ inFlight' = inFlight
    <3>1. countedIn' = countedIn
      BY <1>3, <1>5, <2>1
    <3>2. QED
      BY <1>6, <2>1, <3>1
  <2>2. CASE Counting(q) /\ ~ Counting(req[r]) /\ inFlight' = inFlight + 1
    <3>1. countedIn' = countedIn \cup {r} /\ r \notin countedIn
      BY <1>3, <1>5, <2>2
    <3>2. QED
      BY <1>6, <2>2, <3>1, FS_AddElement
  <2>3. CASE ~ Counting(q) /\ Counting(req[r]) /\ inFlight' = inFlight - 1
    <3>1. countedIn' = countedIn \ {r} /\ r \in countedIn
      BY <1>3, <1>5, <2>3
    <3>2. /\ IsFiniteSet(countedIn \ {r})
          /\ Cardinality(countedIn \ {r}) = Cardinality(countedIn) - 1
      BY <1>6, <3>1, FS_RemoveElement
    <3>3. Cardinality(countedIn \ {r}) \in Nat
      BY <3>2, FS_CardinalityType
    <3>4. QED
      BY <1>6, <2>3, <3>1, <3>2, <3>3
  <2>4. QED
    BY <2>1, <2>2, <2>3
<1>8. WriterIsRight' /\ LayersAreRight' /\ ForwardedIsHonest'
  BY <1>4 DEF WriterIsRight, LayersAreRight, ForwardedIsHonest, Sound
<1>9. QED
  BY <1>2, <1>7, <1>8 DEF RequestsInv, RequestsTypeOK, GaugeIsExact

LEMMA ArriveKeepsRequests ==
  ASSUME RequestsInv, NEW r \in Request, NEW c \in Call, NEW trusted \in SUBSET Proxy,
         NEW hsts \in BOOLEAN, NEW metrics \in BOOLEAN,
         Arrive(r, c, trusted, hsts, metrics)
  PROVE  RequestsInv'
<1> DEFINE fwd == resolveForwarded(c, trusted)
           sts == SecurityHeaders(hsts, fwd.scheme)
           q   == [req[r] EXCEPT !.pc = "middleware", !.metrics = metrics, !.call = c,
                                 !.trusted = trusted, !.clientIP = fwd.clientIP,
                                 !.scheme = fwd.scheme, !.hsts = sts]
<1>1. req[r].pc = "new" /\ Sound(req[r])
  BY RequestsAreSound DEF Arrive, At
<1>2. /\ req' = [req EXCEPT ![r] = q]
      /\ inFlight' = IF metrics THEN inFlight + 1 ELSE inFlight
  BY DEF Arrive
<1>3. /\ fwd.clientIP \in Client \cup Proxy
      /\ fwd.clientIP = nearestUntrusted(c, trusted)
      /\ fwd.scheme \in {"http", "https"}
      /\ peer(c) \notin trusted => fwd.scheme = onWireScheme(c)
      /\ sts \in BOOLEAN
      /\ sts /\ ~ c.tls => peer(c) \in trusted
  BY ForwardedFacts
<1> HIDE DEF fwd, sts
<1>4. /\ q \in RequestState /\ q.pc = "middleware" /\ q.metrics = metrics
      /\ q.call = c /\ q.trusted = trusted /\ q.clientIP = fwd.clientIP
      /\ q.scheme = fwd.scheme /\ q.hsts = sts
      /\ q.wroteHeader = req[r].wroteHeader /\ q.hijacked = req[r].hijacked
      /\ q.status = req[r].status /\ q.wire = req[r].wire
  <2>1. req[r] \in RequestState
    BY <1>1 DEF Sound
  <2>2. PICK ip \in Client \cup Proxy : ip = fwd.clientIP
    BY <1>3
  <2>3. PICK scheme \in {"http", "https"} : scheme = fwd.scheme
    BY <1>3
  <2>4. PICK b \in BOOLEAN : b = sts
    BY <1>3
  <2>5. q = [req[r] EXCEPT !.pc = "middleware", !.metrics = metrics, !.call = c,
                           !.trusted = trusted, !.clientIP = ip, !.scheme = scheme,
                           !.hsts = b]
    BY <2>2, <2>3, <2>4
  <2> HIDE DEF q
  <2>6. /\ q \in RequestState /\ q.pc = "middleware" /\ q.metrics = metrics
        /\ q.call = c /\ q.trusted = trusted /\ q.clientIP = ip
        /\ q.scheme = scheme /\ q.hsts = b
        /\ q.wroteHeader = req[r].wroteHeader /\ q.hijacked = req[r].hijacked
        /\ q.status = req[r].status /\ q.wire = req[r].wire
    BY ZenonT(60), <2>1, <2>5 DEF RequestState
  <2>7. QED
    BY <2>2, <2>3, <2>4, <2>6
<1> HIDE DEF q
<1>5. Sound(q)
  BY <1>1, <1>3, <1>4 DEF Sound
<1>6. (Counting(q) <=> metrics) /\ ~ Counting(req[r])
  BY <1>1, <1>4 DEF Counting
<1>7. QED
  BY <1>2, <1>5, <1>6, OneRequestMoves

LEMMA MatchKeepsRequests ==
  ASSUME RequestsInv, NEW r \in Request, NEW route \in Route, Match(r, route)
  PROVE  RequestsInv'
<1> DEFINE q == [req[r] EXCEPT !.pc = "handler", !.matched = route]
<1>1. req[r].pc = "middleware" /\ Sound(req[r])
  BY RequestsAreSound DEF Match, At
<1>2. req' = [req EXCEPT ![r] = q] /\ inFlight' = inFlight
  BY DEF Match
<1>3. /\ q \in RequestState /\ q.pc = "handler" /\ q.metrics = req[r].metrics
      /\ q.call = req[r].call /\ q.trusted = req[r].trusted
      /\ q.clientIP = req[r].clientIP /\ q.scheme = req[r].scheme /\ q.hsts = req[r].hsts
      /\ q.wroteHeader = req[r].wroteHeader /\ q.hijacked = req[r].hijacked
      /\ q.status = req[r].status /\ q.wire = req[r].wire
  BY ZenonT(60), <1>1 DEF Sound, RequestState, Pattern
<1> HIDE DEF q
<1>4. Sound(q)
  BY <1>1, <1>3 DEF Sound
<1>5. Counting(q) <=> Counting(req[r])
  BY <1>1, <1>3 DEF Counting
<1>6. QED
  BY <1>2, <1>4, <1>5, OneRequestMoves

\* What a request was given on the way in, which no later layer changes.
SameWayIn(p, q) ==
  /\ q.metrics = p.metrics
  /\ q.call = p.call /\ q.trusted = p.trusted
  /\ q.clientIP = p.clientIP /\ q.scheme = p.scheme /\ q.hsts = p.hsts

LEMMA WriteHeaderIsSound ==
  ASSUME NEW q, Sound(q), NEW code \in Nat \ {0},
         q.pc \in {"middleware", "handler", "panicked"}
  PROVE  LET w == WriteHeader(q, code)
         IN  /\ Sound(w) /\ SameWayIn(q, w) /\ w.pc = q.pc /\ w.wroteHeader
             /\ w.matched = q.matched /\ w.pattern = q.pattern
<1> DEFINE w == WriteHeader(q, code)
<1>1. CASE q.wroteHeader
  <2>1. w = q
    BY <1>1 DEF WriteHeader
  <2>2. QED
    BY <1>1, <2>1 DEF SameWayIn
<1>2. CASE ~ q.wroteHeader
  <2> DEFINE to == send(q, code)
  <2>1. w = [q EXCEPT !.status = code, !.wroteHeader = TRUE, !.wire = to]
    BY <1>2 DEF WriteHeader
  <2>2. to = IF informational(code) THEN 0 ELSE code
    BY <1>2 DEF Sound, send
  <2>3. to \in Nat /\ (informational(code) \/ to = code)
    BY <2>2
  <2>4. q \in RequestState
    BY DEF Sound
  <2> HIDE DEF to, w
  <2>5. /\ w \in RequestState /\ SameWayIn(q, w)
        /\ w.pc = q.pc /\ w.wroteHeader /\ w.status = code /\ w.wire = to
        /\ w.hijacked = q.hijacked /\ w.matched = q.matched /\ w.pattern = q.pattern
    BY <2>1, <2>3, <2>4 DEF RequestState, SameWayIn
  <2>6. Sound(w)
    BY <2>3, <2>5 DEF Sound, SameWayIn
  <2>7. QED
    BY <2>5, <2>6 DEF w
<1>3. QED
  BY <1>1, <1>2

LEMMA HandlerWritesKeepsRequests ==
  ASSUME RequestsInv, NEW r \in Request, NEW code \in Nat \ {0},
         running(r),
         req' = [req EXCEPT ![r] = WriteHeader(@, code)], inFlight' = inFlight
  PROVE  RequestsInv'
<1> DEFINE q == WriteHeader(req[r], code)
<1>1. Sound(req[r]) /\ req[r].pc \in {"middleware", "handler"}
  BY RequestsAreSound DEF running
<1>2. Sound(q) /\ SameWayIn(req[r], q) /\ q.pc = req[r].pc
  BY <1>1, WriteHeaderIsSound
<1>3. req' = [req EXCEPT ![r] = q]
  OBVIOUS
<1> HIDE DEF q
<1>4. Counting(q) <=> Counting(req[r])
  BY <1>2 DEF Counting, SameWayIn
<1>5. QED
  BY <1>2, <1>3, <1>4, OneRequestMoves

LEMMA HijackKeepsRequests ==
  ASSUME RequestsInv, NEW r \in Request, Hijack(r)
  PROVE  RequestsInv'
<1> DEFINE q == [req[r] EXCEPT !.hijacked = TRUE, !.wroteHeader = TRUE]
<1>1. Sound(req[r]) /\ req[r].pc = "handler"
  BY RequestsAreSound DEF Hijack, At
<1>2. req' = [req EXCEPT ![r] = q] /\ inFlight' = inFlight
  BY DEF Hijack
<1>3. /\ q \in RequestState /\ SameWayIn(req[r], q) /\ q.pc = "handler"
      /\ q.hijacked /\ q.wroteHeader
  BY <1>1 DEF Sound, RequestState, SameWayIn
<1> HIDE DEF q
<1>4. Sound(q)
  BY <1>1, <1>3 DEF Sound, SameWayIn
<1>5. Counting(q) <=> Counting(req[r])
  BY <1>1, <1>3 DEF Counting, SameWayIn
<1>6. QED
  BY <1>2, <1>4, <1>5, OneRequestMoves

LEMMA HandlerEndsKeepsRequests ==
  ASSUME RequestsInv, NEW r \in Request, NEW how \in {"returned", "panicked", "aborted"},
         HandlerEnds(r, how)
  PROVE  RequestsInv'
<1> DEFINE q == [req[r] EXCEPT !.pc = how, !.pattern = req[r].matched]
<1>1. Sound(req[r]) /\ req[r].pc \in {"middleware", "handler"}
  BY RequestsAreSound DEF HandlerEnds, running
<1>2. req' = [req EXCEPT ![r] = q] /\ inFlight' = inFlight
  BY DEF HandlerEnds
<1>3. /\ q \in RequestState /\ SameWayIn(req[r], q) /\ q.pc = how
      /\ q.pattern = req[r].matched /\ q.matched = req[r].matched
      /\ q.wroteHeader = req[r].wroteHeader /\ q.hijacked = req[r].hijacked
      /\ q.status = req[r].status /\ q.wire = req[r].wire
  BY <1>1 DEF Sound, RequestState, SameWayIn
<1> HIDE DEF q
<1>4. Sound(q)
  BY <1>1, <1>3 DEF Sound, SameWayIn
<1>5. Counting(q) <=> Counting(req[r])
  BY <1>1, <1>3 DEF Counting, SameWayIn
<1>6. QED
  BY <1>2, <1>4, <1>5, OneRequestMoves

LEMMA ServeProbeKeepsRequests ==
  ASSUME RequestsInv, NEW r \in Request, NEW code \in {200, 503}, ServeProbe(r, code)
  PROVE  RequestsInv'
<1> DEFINE w == WriteHeader(req[r], code)
           q == [w EXCEPT !.pc = "returned", !.matched = "probe", !.pattern = "probe"]
<1>1. Sound(req[r]) /\ req[r].pc = "middleware"
  BY RequestsAreSound DEF ServeProbe, At
<1>2. req' = [req EXCEPT ![r] = q] /\ inFlight' = inFlight
  BY DEF ServeProbe
<1>3. code \in Nat \ {0}
  OBVIOUS
<1>4. Sound(w) /\ SameWayIn(req[r], w) /\ w.pc = "middleware"
  BY <1>1, <1>3, WriteHeaderIsSound
<1> HIDE DEF w
<1>5. /\ q \in RequestState /\ SameWayIn(w, q) /\ q.pc = "returned"
      /\ q.pattern = q.matched
      /\ q.wroteHeader = w.wroteHeader /\ q.hijacked = w.hijacked
      /\ q.status = w.status /\ q.wire = w.wire
  <2>1. w \in RequestState /\ "probe" \in Pattern
    BY <1>4 DEF Sound, Pattern
  <2>2. QED
    BY ZenonT(60), <2>1 DEF RequestState, SameWayIn
<1> HIDE DEF q
<1>6. Sound(q)
  BY <1>4, <1>5 DEF Sound, SameWayIn
<1>7. Counting(q) <=> Counting(req[r])
  BY <1>1, <1>4, <1>5 DEF Counting, SameWayIn
<1>8. QED
  BY <1>2, <1>6, <1>7, OneRequestMoves

LEMMA RecoverKeepsRequests ==
  ASSUME RequestsInv, NEW r \in Request, Recover(r)
  PROVE  RequestsInv'
<1> DEFINE w == IF req[r].wroteHeader THEN req[r] ELSE WriteHeader(req[r], 500)
           q == [w EXCEPT !.pc = "returned"]
<1>1. Sound(req[r]) /\ req[r].pc = "panicked"
  BY RequestsAreSound DEF Recover, At
<1>2. req' = [req EXCEPT ![r] = q] /\ inFlight' = inFlight
  BY DEF Recover
<1>3. /\ Sound(w) /\ SameWayIn(req[r], w) /\ w.pc = "panicked"
      /\ w.wroteHeader
  <2>1. CASE req[r].wroteHeader
    BY <1>1, <2>1 DEF SameWayIn
  <2>2. CASE ~ req[r].wroteHeader
    BY <1>1, <2>2, WriteHeaderIsSound
  <2>3. QED
    BY <2>1, <2>2
<1> HIDE DEF w
<1>4. /\ q \in RequestState /\ SameWayIn(w, q) /\ q.pc = "returned"
      /\ q.pattern = w.pattern /\ q.matched = w.matched
      /\ q.wroteHeader = w.wroteHeader /\ q.hijacked = w.hijacked
      /\ q.status = w.status /\ q.wire = w.wire
  <2>1. w \in RequestState
    BY <1>3 DEF Sound
  <2>2. QED
    BY <2>1 DEF RequestState, SameWayIn
<1> HIDE DEF q
<1>5. Sound(q)
  BY <1>3, <1>4 DEF Sound, SameWayIn
<1>6. Counting(q) <=> Counting(req[r])
  BY <1>1, <1>3, <1>4 DEF Counting, SameWayIn
<1>7. QED
  BY <1>2, <1>5, <1>6, OneRequestMoves

LEMMA ObservationType ==
  ASSUME NEW q \in RequestState
  PROVE  /\ statusOr200(q) \in Nat
         /\ observation(q) \in [route : Pattern \cup {"unmatched"}, status : Nat]
<1>1. statusOr200(q) \in Nat /\ q.pattern \in Pattern
  BY ZenonT(60) DEF statusOr200, RequestState
<1>2. QED
  BY <1>1 DEF observation

LEMMA ObserveKeepsRequests ==
  ASSUME RequestsInv, NEW r \in Request, Observe(r)
  PROVE  RequestsInv'
<1> DEFINE seen == IF req[r].metrics THEN observation(req[r]) ELSE req[r].counted
           q == [req[r] EXCEPT !.pc = "observed", !.counted = seen]
<1>1. Sound(req[r]) /\ req[r].pc = "returned" /\ req[r] \in RequestState
  BY RequestsAreSound DEF Observe, At, Sound
<1>2. /\ req' = [req EXCEPT ![r] = q]
      /\ inFlight' = IF req[r].metrics THEN inFlight - 1 ELSE inFlight
  BY DEF Observe
<1>3. seen \in [route : Pattern \cup {"unmatched"}, status : Nat]
  BY <1>1, ObservationType DEF RequestState
<1>4. req[r].metrics => seen = observation(req[r])
  OBVIOUS
<1> HIDE DEF seen
<1>5. /\ q \in RequestState /\ SameWayIn(req[r], q) /\ q.pc = "observed"
      /\ q.pattern = req[r].pattern /\ q.matched = req[r].matched
      /\ q.wroteHeader = req[r].wroteHeader /\ q.hijacked = req[r].hijacked
      /\ q.status = req[r].status /\ q.wire = req[r].wire /\ q.counted = seen
  BY <1>1, <1>3 DEF RequestState, SameWayIn
<1> HIDE DEF q
<1>6. observation(q) = observation(req[r])
  BY <1>5 DEF observation, statusOr200
<1>7. Sound(q)
  BY <1>1, <1>4, <1>5, <1>6 DEF Sound, SameWayIn
<1>8. ~ Counting(q) /\ (Counting(req[r]) <=> req[r].metrics)
  BY <1>1, <1>5 DEF Counting
<1>9. QED
  BY <1>2, <1>7, <1>8, OneRequestMoves

LEMMA AbortKeepsRequests ==
  ASSUME RequestsInv, NEW r \in Request, Abort(r)
  PROVE  RequestsInv'
<1> DEFINE q == [req[r] EXCEPT !.pc = "gone"]
<1>1. Sound(req[r]) /\ req[r].pc = "aborted" /\ req[r] \in RequestState
  BY RequestsAreSound DEF Abort, At, Sound
<1>2. req' = [req EXCEPT ![r] = q]
  BY DEF Abort
<1>3. inFlight' = IF req[r].metrics THEN inFlight - 1 ELSE inFlight
  <2>1. inFlight \in Nat
    BY DEF RequestsInv, RequestsTypeOK
  <2>2. QED
    BY <2>1 DEF Abort, decOnAbort
<1>4. /\ q \in RequestState /\ SameWayIn(req[r], q) /\ q.pc = "gone"
      /\ q.wroteHeader = req[r].wroteHeader /\ q.hijacked = req[r].hijacked
      /\ q.status = req[r].status /\ q.wire = req[r].wire
  BY <1>1 DEF RequestState, SameWayIn
<1> HIDE DEF q
<1>5. Sound(q)
  BY <1>1, <1>4 DEF Sound, SameWayIn
<1>6. ~ Counting(q) /\ (Counting(req[r]) <=> req[r].metrics)
  BY <1>1, <1>4 DEF Counting
<1>7. QED
  BY <1>2, <1>3, <1>5, <1>6, OneRequestMoves

LEMMA LogKeepsRequests ==
  ASSUME RequestsInv, NEW r \in Request, Log(r)
  PROVE  RequestsInv'
<1> DEFINE line == statusOr200(req[r])
           to   == IF req[r].hijacked THEN req[r].wire ELSE send(req[r], 200)
           q    == [req[r] EXCEPT !.pc = "done", !.logged = line, !.wire = to]
<1>1. Sound(req[r]) /\ req[r].pc = "observed" /\ req[r] \in RequestState
  BY RequestsAreSound DEF Log, At, Sound
<1>2. req' = [req EXCEPT ![r] = q] /\ inFlight' = inFlight
  BY DEF Log
<1>3. line \in Nat
  BY <1>1, ObservationType
<1>4. /\ to \in Nat
      /\ ~ req[r].wroteHeader => to = 200
      /\ req[r].wroteHeader /\ ~ req[r].hijacked =>
           informational(req[r].status) \/ to = req[r].status
  <2>1. req[r].wire \in Nat
    BY <1>1 DEF RequestState
  <2>2. ~ informational(200)
    BY DEF informational
  <2>3. to \in Nat
    BY <2>1 DEF send
  <2>4. ~ req[r].wroteHeader => to = 200
    BY <1>1, <2>2 DEF Sound, send
  <2>5. req[r].wroteHeader /\ ~ req[r].hijacked =>
          informational(req[r].status) \/ to = req[r].status
    BY <1>1 DEF Sound, send
  <2>6. QED
    BY <2>3, <2>4, <2>5
<1> HIDE DEF to
<1>5. /\ q \in RequestState /\ SameWayIn(req[r], q) /\ q.pc = "done"
      /\ q.pattern = req[r].pattern /\ q.matched = req[r].matched
      /\ q.wroteHeader = req[r].wroteHeader /\ q.hijacked = req[r].hijacked
      /\ q.status = req[r].status /\ q.wire = to
      /\ q.counted = req[r].counted /\ q.logged = line
  <2> HIDE DEF line
  <2> QED
    BY <1>1, <1>3, <1>4 DEF RequestState, SameWayIn
<1> HIDE DEF q
<1>6. observation(q) = observation(req[r]) /\ statusOr200(q) = line
  BY <1>5 DEF observation, statusOr200
<1> HIDE DEF line
<1>7. Sound(q)
  BY <1>1, <1>4, <1>5, <1>6 DEF Sound, SameWayIn
<1>8. ~ Counting(q) /\ ~ Counting(req[r])
  BY <1>1, <1>5 DEF Counting
<1>9. QED
  BY <1>2, <1>7, <1>8, OneRequestMoves

LEMMA RequestStepKeepsRequests ==
  ASSUME RequestsInv, NEW r \in Request, RequestStep(r)
  PROVE  RequestsInv'
<1>1. CASE \E route \in Route : Match(r, route)
  BY <1>1, MatchKeepsRequests
<1>2. CASE \E code \in Status : HandlerWritesHeader(r, code)
  <2>1. PICK code \in Status : HandlerWritesHeader(r, code)
    BY <1>2
  <2>2. code \in Nat \ {0}
    <3>1. code \in 100..999
      BY StatusAssumption
    <3>2. QED
      BY <3>1
  <2>3. QED
    BY <2>1, <2>2, HandlerWritesKeepsRequests DEF HandlerWritesHeader
<1>3. CASE HandlerWritesOrFlushes(r)
  <2>1. 200 \in Nat \ {0}
    OBVIOUS
  <2>2. running(r) /\ req' = [req EXCEPT ![r] = WriteHeader(@, 200)] /\ inFlight' = inFlight
    BY <1>3 DEF HandlerWritesOrFlushes, Flush
  <2>3. QED
    BY <2>1, <2>2, HandlerWritesKeepsRequests
<1>4. CASE Hijack(r)
  BY <1>4, HijackKeepsRequests
<1>5. CASE \E how \in {"returned", "panicked", "aborted"} : HandlerEnds(r, how)
  BY <1>5, HandlerEndsKeepsRequests
<1>6. CASE \E code \in {200, 503} : ServeProbe(r, code)
  BY <1>6, ServeProbeKeepsRequests
<1>7. CASE Recover(r)
  BY <1>7, RecoverKeepsRequests
<1>8. CASE Observe(r)
  BY <1>8, ObserveKeepsRequests
<1>9. CASE Abort(r)
  BY <1>9, AbortKeepsRequests
<1>10. CASE Log(r)
  BY <1>10, LogKeepsRequests
<1>11. QED
  BY <1>1, <1>2, <1>3, <1>4, <1>5, <1>6, <1>7, <1>8, <1>9, <1>10 DEF RequestStep

\* The gauge goes with the process, and so does everything it counted.
LEMMA StopKeepsRequests ==
  ASSUME RequestsInv, StopRequests
  PROVE  RequestsInv' /\ \A r \in Request : req'[r].pc \in {"new", "done", "gone"}
<1>1. \A r \in Request : req'[r] = IF req[r].pc \in {"new", "done"} THEN req[r]
                                   ELSE [req[r] EXCEPT !.pc = "gone"]
  BY DEF StopRequests
<1>2. ASSUME NEW r \in Request
      PROVE  Sound(req'[r]) /\ req'[r].pc \in {"new", "done", "gone"}
  <2>1. Sound(req[r]) /\ req[r] \in RequestState
    BY RequestsAreSound DEF Sound
  <2>2. CASE req[r].pc \in {"new", "done"}
    BY <1>1, <2>1, <2>2
  <2>3. CASE req[r].pc \notin {"new", "done"}
    <3> DEFINE q == [req[r] EXCEPT !.pc = "gone"]
    <3>1. /\ q \in RequestState /\ SameWayIn(req[r], q) /\ q.pc = "gone"
          /\ q.wroteHeader = req[r].wroteHeader /\ q.hijacked = req[r].hijacked
          /\ q.status = req[r].status /\ q.wire = req[r].wire
      BY <2>1 DEF RequestState, SameWayIn
    <3>2. req'[r] = q
      BY <1>1, <2>3
    <3> HIDE DEF q
    <3>3. Sound(q)
      BY <2>1, <2>3, <3>1 DEF Sound, SameWayIn
    <3>4. QED
      BY <3>1, <3>2, <3>3
  <2>4. QED
    BY <2>2, <2>3
<1>3. countedIn' = {}
  BY <1>2 DEF countedIn
<1>4. IsFiniteSet(countedIn') /\ GaugeIsExact'
  BY <1>3, FS_EmptySet DEF GaugeIsExact, StopRequests
<1>5. req' \in [Request -> RequestState] /\ inFlight' \in Nat
  <2>1. DOMAIN req' = Request /\ req' = [r \in Request |-> req'[r]]
    BY DEF StopRequests
  <2>2. \A r \in Request : req'[r] \in RequestState
    BY <1>2 DEF Sound
  <2>3. inFlight' \in Nat
    BY DEF StopRequests
  <2>4. QED
    BY <2>1, <2>2, <2>3
<1>6. WriterIsRight' /\ LayersAreRight' /\ ForwardedIsHonest'
  BY <1>2 DEF WriterIsRight, LayersAreRight, ForwardedIsHonest, Sound
<1>7. QED
  BY <1>2, <1>4, <1>5, <1>6 DEF RequestsInv, RequestsTypeOK

LEMMA StutterKeepsRequests ==
  ASSUME RequestsInv, UNCHANGED requestVars
  PROVE  RequestsInv'
  BY DEF RequestsInv, RequestsTypeOK, countedIn, GaugeIsExact, WriterIsRight,
         LayersAreRight, ForwardedIsHonest, At, requestVars

\* What a request has recorded when it is done follows from what each layer
\* left behind.
LEMMA SoundGivesRecorded ==
  ASSUME RequestsInv
  PROVE  RecordedAsServed
<1> SUFFICES ASSUME NEW r \in Request, req[r].pc = "done"
             PROVE  /\ req[r].metrics =>
                         req[r].counted.route =
                           IF req[r].matched = "" THEN "unmatched" ELSE req[r].matched
                    /\ ~ req[r].hijacked /\ ~ informational(req[r].status) =>
                         /\ req[r].logged = req[r].wire
                         /\ req[r].metrics => req[r].counted.status = req[r].wire
  BY DEF RecordedAsServed, At
<1>1. Sound(req[r])
  BY RequestsAreSound
<1>2. req[r].metrics => /\ req[r].counted.route = IF req[r].pattern # "" THEN req[r].pattern
                                                  ELSE "unmatched"
                        /\ req[r].counted.status = statusOr200(req[r])
  <2>1. req[r].metrics => req[r].counted = observation(req[r])
    BY <1>1 DEF Sound
  <2>2. /\ observation(req[r]).route = IF req[r].pattern # "" THEN req[r].pattern
                                       ELSE "unmatched"
        /\ observation(req[r]).status = statusOr200(req[r])
    BY DEF observation
  <2>3. QED
    BY <2>1, <2>2
<1>3. req[r].pattern = req[r].matched /\ req[r].logged = statusOr200(req[r])
  BY <1>1 DEF Sound
<1>4. ~ req[r].hijacked /\ ~ informational(req[r].status) => statusOr200(req[r]) = req[r].wire
  BY <1>1 DEF Sound, statusOr200
<1>5. QED
  BY <1>2, <1>3, <1>4

-----------------------------------------------------------------------------
(***************************************************************************)
(* The application                                                         *)
(***************************************************************************)
\* IInv, with the cache's own invariant in place of its types.
AppInv == IInv /\ ExpiryIsOfItsSet

LEMMA ConfiguredProxies ==
  ASSUME StartupInv
  PROVE  conf.trusted \in SUBSET Proxy /\ conf.hsts \in BOOLEAN
<1>1. CASE phase # "serving"
  <2>1. conf = NoConf
    BY <1>1 DEF StartupInv, StartupTypeOK
  <2>2. QED
    BY <2>1 DEF NoConf
<1>2. CASE phase = "serving"
  <2>1. conf = Load(bootEnv)
    BY <1>2 DEF StartupInv, ServedAsLoaded
  <2>2. conf.trusted = TrustedProxyPrefixes(bootEnv) /\ conf.hsts = LoadHSTS(bootEnv)
    BY <2>1 DEF Load
  <2>3. TrustedProxyPrefixes(bootEnv) \subseteq {"loopback", "edge"}
    BY DEF TrustedProxyPrefixes
  <2>4. LoadHSTS(bootEnv) \in BOOLEAN
    BY DEF LoadHSTS
  <2>5. QED
    BY <2>2, <2>3, <2>4, ApplicationAssumption
<1>3. QED
  BY <1>1, <1>2

LEMMA SpendKeepsBound ==
  ASSUME left \in Bound,
         NEW bound \in {"submissions", "stops", "sets", "ticks", "photos"}, Spend(bound)
  PROVE  left' \in Bound /\ workload' = workload
<1>1. left[bound] \in Nat /\ left[bound] > 0
  BY DEF Bound, Spend
<1>2. left[bound] - 1 \in Nat
  BY <1>1
<1>3. left' = [left EXCEPT ![bound] = left[bound] - 1]
  BY DEF Spend
<1>4. QED
  BY <1>2, <1>3 DEF Bound, Spend

LEMMA InitApplication ==
  ASSUME Init
  PROVE  AppInv
<1>1. workload \in Workload /\ left \in Bound /\ Environments[workload] \in SUBSET Environment
  BY ApplicationAssumption DEF Init
<1>2. StartupInv
  BY <1>1, InitStartup DEF Init
<1>3. RequestsInv
  BY InitRequests DEF Init
<1>4. ExpiryIsOfItsSet
  BY InitExpiry DEF Init
<1>5. TypeOK
  BY <1>1, <1>2, <1>3, <1>4 DEF TypeOK, StartupInv, RequestsInv, ExpiryIsOfItsSet
<1>6. ProcessIsGone
  <2>1. \A r \in Request : req[r].pc = "new"
    BY FreshIsSound DEF Init, RequestsInit
  <2>2. backend = "none" /\ scrubPc = "idle"
    BY DEF Init, CacheInit, ScrubInit
  <2>3. QED
    BY <2>1, <2>2 DEF ProcessIsGone
<1>7. ScrubInv
  BY ScrubInitially DEF Init
<1>8. QED
  BY <1>2, <1>3, <1>4, <1>5, <1>6, <1>7 DEF AppInv, IInv

\* The parts that a step keeps by itself.
LEMMA NextKeepsStartup ==
  ASSUME AppInv, [Next]_vars
  PROVE  StartupInv'
<1>1. StartupInv /\ workload \in Workload
  BY DEF AppInv, IInv, TypeOK
<1>2. CASE Booting
  BY <1>1, <1>2, BootIntoSetupKeepsStartup, BootServesKeepsStartup, BootFailsKeepsStartup
  DEF Booting, Boot
<1>3. CASE Reconfigure
  <2>1. PICK env \in Environments[workload] : ChangeEnvironment(env)
    BY <1>3 DEF Reconfigure
  <2>2. env \in Environment
    BY <1>1, ApplicationAssumption
  <2>3. QED
    BY <1>1, <2>1, <2>2, ChangeEnvironmentKeepsStartup
<1>4. CASE Submit
  BY <1>1, <1>4, TruncateKeepsStartup DEF Submit
<1>5. CASE Saving
  BY <1>1, <1>5, WriteKeepsStartup DEF Saving
<1>6. CASE \/ Caching \/ Setting \/ Tick \/ Arriving \/ Serving \/ Scrubbing \/ ScrubStep
           \/ UNCHANGED vars
  <2>1. UNCHANGED startupVars
    BY <1>6 DEF Caching, Setting, Tick, Arriving, Serving, Scrubbing, ScrubStep, vars
  <2>2. QED
    BY <1>1, <2>1, StutterKeepsStartup
<1>7. CASE Stopping
  BY <1>1, <1>7, StopKeepsStartup DEF Stopping
<1>8. QED
  BY <1>2, <1>3, <1>4, <1>5, <1>6, <1>7 DEF Next

LEMMA NextKeepsRequests ==
  ASSUME AppInv, [Next]_vars
  PROVE  RequestsInv'
<1>1. RequestsInv /\ workload \in Workload /\ left \in Bound
  BY DEF AppInv, IInv, TypeOK
<1>2. CASE Arriving
  <2>1. PICK r \in left.requests, c \in Calls[workload] :
          Arrive(r, c, conf.trusted, conf.hsts, phase = "serving")
    BY <1>2 DEF Arriving
  <2>2. r \in Request /\ c \in Call
    BY <1>1, ApplicationAssumption DEF Bound
  <2>3. conf.trusted \in SUBSET Proxy /\ conf.hsts \in BOOLEAN
    BY ConfiguredProxies DEF AppInv, IInv
  <2>4. (phase = "serving") \in BOOLEAN
    OBVIOUS
  <2>5. QED
    BY ZenonT(60), <1>1, <2>1, <2>2, <2>3, <2>4, ArriveKeepsRequests
<1>3. CASE Serving
  BY <1>1, <1>3, RequestStepKeepsRequests DEF Serving
<1>4. CASE Stopping
  BY <1>1, <1>4, StopKeepsRequests DEF Stopping
<1>5. CASE \/ Booting \/ Reconfigure \/ Submit \/ Saving \/ Caching \/ Setting \/ Tick
           \/ Scrubbing \/ ScrubStep \/ UNCHANGED vars
  <2>1. UNCHANGED requestVars
    BY <1>5 DEF Booting, Reconfigure, Submit, Saving, Caching, Setting, Tick, Scrubbing,
                ScrubStep, others, vars
  <2>2. QED
    BY <1>1, <2>1, StutterKeepsRequests
<1>6. QED
  BY <1>2, <1>3, <1>4, <1>5 DEF Next

LEMMA NextKeepsWorkload ==
  ASSUME AppInv, [Next]_vars
  PROVE  workload' \in Workload /\ left' \in Bound
<1>1. workload \in Workload /\ left \in Bound
  BY DEF AppInv, IInv, TypeOK
<1>2. CASE Arriving
  <2>1. PICK r \in left.requests : left' = [left EXCEPT !.requests = @ \ {r}]
    BY <1>2 DEF Arriving
  <2>2. left' \in Bound
    BY <1>1, <2>1 DEF Bound
  <2>3. QED
    BY <1>1, <1>2, <2>2 DEF Arriving
<1>3. CASE Submit \/ Setting \/ Tick \/ Scrubbing \/ Stopping
  <2>1. \E bound \in {"submissions", "stops", "sets", "ticks", "photos"} : Spend(bound)
    BY <1>3 DEF Submit, Setting, Tick, Scrubbing, Stopping
  <2>2. QED
    BY <1>1, <2>1, SpendKeepsBound
<1>4. CASE Booting \/ Reconfigure \/ Saving \/ Caching \/ Serving \/ ScrubStep \/ UNCHANGED vars
  BY <1>1, <1>4 DEF Booting, Reconfigure, Saving, Caching, Serving, ScrubStep, vars
<1>5. QED
  BY <1>2, <1>3, <1>4 DEF Next

LEMMA RequestStepIsInside ==
  ASSUME NEW r \in Request, RequestStep(r)
  PROVE  req[r].pc \notin {"new", "done", "gone"}
  BY ZenonT(60) DEF RequestStep, Match, HandlerWritesHeader, HandlerWritesOrFlushes, Hijack,
         HandlerEnds, ServeProbe, Recover, Observe, Abort, Log, running, At

LEMMA NextKeepsProcess ==
  ASSUME AppInv, [Next]_vars
  PROVE  ProcessIsGone'
<1>1. ProcessIsGone
  BY DEF AppInv, IInv
<1>2. CASE Booting
  <2>1. phase = "down"
    BY <1>2 DEF Booting, Boot, BootIntoSetup, BootServes, BootFails
  <2>2. UNCHANGED <<backend, scrubPc, req>>
    BY <1>2 DEF Booting, others, cacheVars, scrubVars, requestVars
  <2>3. QED
    BY <1>1, <2>1, <2>2 DEF ProcessIsGone
<1>3. CASE Reconfigure \/ Submit \/ Saving \/ Tick \/ UNCHANGED vars
  <2>1. UNCHANGED <<phase, backend, scrubPc, req>>
    BY <1>3 DEF Reconfigure, Submit, Saving, Tick, ChangeEnvironment, Truncate, Write,
                WriteFails, TickCache, others, vars, startupVars, cacheVars, scrubVars,
                requestVars
  <2>2. QED
    BY <1>1, <2>1 DEF ProcessIsGone
<1>4. CASE Caching \/ Setting \/ Scrubbing
  <2>1. phase = "serving" /\ phase' = phase
    BY <1>4 DEF Caching, Setting, Scrubbing, startupVars
  <2>2. QED
    BY <2>1 DEF ProcessIsGone
<1>5. CASE Arriving
  <2>1. phase \in {"setup", "serving"} /\ UNCHANGED <<phase, backend, scrubPc>>
    BY <1>5 DEF Arriving, startupVars, cacheVars, scrubVars
  <2>2. QED
    BY <1>1, <2>1 DEF ProcessIsGone
<1>6. CASE Serving
  <2>1. phase \in {"setup", "serving"}
    BY <1>1, <1>6, RequestStepIsInside DEF Serving, ProcessIsGone
  <2>2. UNCHANGED <<phase, backend, scrubPc>>
    BY <1>6 DEF Serving, startupVars, cacheVars, scrubVars
  <2>3. QED
    BY <1>1, <2>1, <2>2 DEF ProcessIsGone
<1>7. CASE ScrubStep
  <2>1. scrubPc # "idle" /\ UNCHANGED phase
    BY <1>7 DEF ScrubStep, Walk, Reencode, startupVars
  <2>2. phase = "serving"
    BY <1>1, <2>1 DEF ProcessIsGone
  <2>3. QED
    BY <2>1, <2>2 DEF ProcessIsGone
<1>8. CASE Stopping
  <2>1. backend' = "none" /\ scrubPc' = "idle" /\ StopRequests
    BY <1>8 DEF Stopping, StopCache, StopScrub
  <2>2. \A r \in Request : req'[r].pc \in {"new", "done", "gone"}
    BY <2>1, StopKeepsRequests DEF AppInv, IInv
  <2>3. QED
    BY <2>1, <2>2 DEF ProcessIsGone
<1>9. QED
  BY <1>2, <1>3, <1>4, <1>5, <1>6, <1>7, <1>8 DEF Next

LEMMA NextKeepsScrub ==
  ASSUME AppInv, [Next]_vars
  PROVE  ScrubInv'
<1>1. ScrubInv
  BY DEF AppInv, IInv
<1>2. CASE Scrubbing
  BY <1>2, ScrubStart DEF Scrubbing
<1>3. CASE ScrubStep
  BY <1>1, <1>3, WalkStep, ReencodeStep DEF ScrubStep
<1>4. CASE Stopping
  BY <1>4, ScrubStops DEF Stopping
<1>5. CASE \/ Booting \/ Reconfigure \/ Submit \/ Saving \/ Caching \/ Setting \/ Tick
           \/ Arriving \/ Serving \/ UNCHANGED vars
  <2>1. UNCHANGED scrubVars
    BY <1>5 DEF Booting, Reconfigure, Submit, Saving, Caching, Setting, Tick, Arriving,
                Serving, others, vars
  <2>2. QED
    BY <1>1, <2>1 DEF scrubVars, ScrubInv, ScrubRemovesExactlyExif
<1>6. QED
  BY <1>2, <1>3, <1>4, <1>5 DEF Next

\* IInv is inductive together with the cache's invariant.
LEMMA AppInvHolds == Spec => []AppInv
<1>1. Init => AppInv
  BY InitApplication
<1>2. AppInv /\ [Next]_vars => AppInv'
  <2> SUFFICES ASSUME AppInv, [Next]_vars
               PROVE  AppInv'
    OBVIOUS
  <2>1. StartupInv' /\ RequestsInv' /\ ProcessIsGone' /\ workload' \in Workload /\ left' \in Bound
    BY NextKeepsStartup, NextKeepsRequests, NextKeepsProcess, NextKeepsWorkload
  <2>2. ExpiryIsOfItsSet'
    BY CacheStep, NextKeepsExpiry DEF AppInv
  <2>3. TypeOK'
    BY <2>1, <2>2 DEF TypeOK, StartupInv, RequestsInv, ExpiryIsOfItsSet
  <2>4. ScrubInv'
    BY NextKeepsScrub
  <2>5. QED
    BY <2>1, <2>2, <2>3, <2>4 DEF AppInv, IInv
<1>3. QED
  BY <1>1, <1>2, PTL DEF Spec

-----------------------------------------------------------------------------
(***************************************************************************)
(* The theorems                                                            *)
(***************************************************************************)
\* Types, the state file and who writes it, the configuration that is served,
\* the requests' records and the gauge, and that nothing outlives its process:
\* for every number of handlers, requests, routes and proxies, every
\* environment and every profile with a DSN.
THEOREM Invariant == Spec => []IInv
<1>1. AppInv => IInv
  BY DEF AppInv
<1>2. QED
  BY <1>1, AppInvHolds, PTL

\* The profile a process serves with is the operator's or setup's, never a
\* mixture of both (ExportToEnv).
THEOREM NoHybridProfileHolds == Spec => []NoHybridProfile
<1>1. AppInv => NoHybridProfile
  BY ServedIsNotHybrid DEF AppInv, IInv, StartupInv, StartupTypeOK
<1>2. QED
  BY <1>1, AppInvHolds, PTL

\* A production process started again with the same environment serves with the
\* same configuration, until the operator forces the wizard (ExportToEnv,
\* setEnvIfAbsent, NeedsSetup and the validation of prod's secrets).
THEOREM RestartKeepsConfigHolds == Spec => []RestartKeepsConfig
<1>1. AppInv => RestartKeepsConfig
  BY ServedIsRepeated DEF AppInv, IInv, StartupInv
<1>2. QED
  BY <1>1, AppInvHolds, PTL

\* A generated encryption key that was served with is the only one there is,
\* until the operator forces the wizard (NeedsSetup, SaveState).
THEOREM SealedKeyIsKeptHolds == Spec => []SealedKeyIsKept
<1>1. AppInv => SealedKeyIsKept
  <2> SUFFICES ASSUME AppInv, ~ reset
               PROVE  Cardinality(sealed) <= 1
    BY DEF SealedKeyIsKept
  <2>1. sealed = {} \/ \E k : sealed = {k}
    BY DEF AppInv, IInv, StartupInv, SealedKeyIsFiled
  <2>2. Cardinality(sealed) = 0 \/ Cardinality(sealed) = 1
    BY <2>1, FS_EmptySet, FS_Singleton
  <2>3. QED
    BY <2>2
<1>2. QED
  BY <1>1, AppInvHolds, PTL

\* Once a submission has reached the state file only FORCE_SETUP opens the
\* wizard, and no process serves from a file that does not parse (NeedsSetup,
\* LoadState).
THEOREM SetupIsNotRepeatedHolds == Spec => SetupIsNotRepeated
<1> DEFINE A == phase = "down" /\ phase' # "down" =>
                  /\ phase' = "setup" => submitted = 0 \/ osEnv["FORCE_SETUP"].is = "true"
                  /\ phase' = "serving" => file.kind # "torn"
<1>1. AppInv /\ [Next]_vars => [A]_startupVars
  <2> SUFFICES ASSUME AppInv, [Next]_vars, phase = "down", phase' # "down"
               PROVE  /\ phase' = "setup" => \/ submitted = 0
                                             \/ osEnv["FORCE_SETUP"].is = "true"
                      /\ phase' = "serving" => file.kind # "torn"
    OBVIOUS
  <2>1. Boot
    BY DEF Next, Booting, Reconfigure, Submit, Saving, Caching, Setting, Tick, Arriving,
           Serving, Scrubbing, ScrubStep, Stopping, Stop, ChangeEnvironment, Truncate, Write,
           WriteFails, startupVars, vars
  <2>2. FileIsWhole
    BY DEF AppInv, IInv, StartupInv
  <2>3. CASE BootIntoSetup
    <3>1. file.kind # "torn" /\ NeedsSetup(osEnv, LoadState(file)) /\ phase' = "setup"
      BY <2>3 DEF BootIntoSetup, LoadState
    <3>2. file.kind = "missing" \/ file.kind = "state"
      BY <2>2, <3>1, FileState
    <3>3. QED
      BY <2>2, <3>1, <3>2, FileState, WizardIsForced
  <2>4. CASE BootServes
    BY <2>4 DEF BootServes, LoadState
  <2>5. CASE BootFails
    BY <2>5 DEF BootFails
  <2>6. QED
    BY <2>1, <2>3, <2>4, <2>5 DEF Boot
<1>2. QED
  BY <1>1, AppInvHolds, PTL DEF Spec, SetupIsNotRepeated

\* The in-flight gauge counts the requests inside, whatever panics or aborts
\* (Metrics).
THEOREM GaugeIsExactHolds == Spec => []GaugeIsExact
<1>1. AppInv => GaugeIsExact
  BY DEF AppInv, IInv, RequestsInv
<1>2. QED
  BY <1>1, AppInvHolds, PTL

\* A request is counted and logged as it was answered (responseWriter, Metrics,
\* RequestLogger, Recoverer, CaptureRoutePattern).
THEOREM RecordedAsServedHolds == Spec => []RecordedAsServed
<1>1. AppInv => RecordedAsServed
  BY SoundGivesRecorded DEF AppInv, IInv
<1>2. QED
  BY <1>1, AppInvHolds, PTL

\* The client's address is that of the nearest untrusted hop, for paths and
\* forged lists of every length (resolveForwarded, clientFromXFF).
THEOREM ForwardedIsHonestHolds == Spec => []ForwardedIsHonest
<1>1. AppInv => ForwardedIsHonest
  BY DEF AppInv, IInv, RequestsInv
<1>2. QED
  BY <1>1, AppInvHolds, PTL

\* stripJPEGExif takes exactly the EXIF segments out of every photo whose
\* markers can be followed to its scan data, rejects only the others, and leaves
\* no EXIF segment that a reader would come to, for photos of every length and
\* content.
THEOREM ScrubRemovesExactlyExifHolds == Spec => []ScrubRemovesExactlyExif
<1>1. AppInv => ScrubRemovesExactlyExif
  BY DEF AppInv, IInv, ScrubInv
<1>2. QED
  BY <1>1, AppInvHolds, PTL

\* Scrubbing again what Scrub returned would be neither rejected nor change a
\* byte of it.
THEOREM ScrubIsIdempotent ==
  Spec => [](scrubPc = "stripped" =>
               /\ wellFormed(out)
               /\ \A again \in Seq(0..255) :
                    isWithout(again, out, exifBytes(out)) <=> again = out)
<1>1. ASSUME AppInv, scrubPc = "stripped"
      PROVE  /\ wellFormed(out)
             /\ \A again \in Seq(0..255) :
                  isWithout(again, out, exifBytes(out)) <=> again = out
  <2>1. out \in Bytes /\ wellFormed(out) /\ exifBytes(out) = {}
    BY <1>1 DEF AppInv, IInv, ScrubInv, ScrubRemovesExactlyExif, Bytes
  <2>2. \A again \in Bytes : isWithout(again, out, {}) <=> again = out
    BY <2>1, NothingTakenOut
  <2>3. QED
    BY <2>1, <2>2 DEF Bytes
<1>2. QED
  BY <1>1, AppInvHolds, PTL

\* Whatever the photo, an iteration of the loop goes on by at least two bytes and
\* not past the end, or is the last (stripJPEGExif).
THEOREM ScrubAdvances ==
  Spec => [][Walk /\ scrubPc' = "walk" => i' >= i + 2 /\ i' <= Len(data) + 1]_vars
<1>1. AppInv /\ [Next]_vars =>
        [Walk /\ scrubPc' = "walk" => i' >= i + 2 /\ i' <= Len(data) + 1]_vars
  BY WalkAdvances DEF AppInv, IInv
<1>2. QED
  BY <1>1, AppInvHolds, PTL DEF Spec

=============================================================================
