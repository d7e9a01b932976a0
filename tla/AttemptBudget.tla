---------------------------- MODULE AttemptBudget ----------------------------
(***************************************************************************)
(* What ratelimit.AttemptLimiter promises, with no lists: a table of keys  *)
(* in which everything whose window has elapsed is forgotten before a call *)
(* looks, lockouts are never displaced, and a full table makes room by     *)
(* forgetting a least recently active counting key.  AttemptLimiter keeps  *)
(* two recency lists so that expiry and eviction only ever look at a       *)
(* list's back; that this finds the same entries is the refinement         *)
(* checked in MCAttemptLimiter.                                            *)
(***************************************************************************)
EXTENDS Integers, FiniteSets

CONSTANTS Key, EmptyKey, Request, Time, Threshold, LockoutWindow, MaxTrackedKeys

VARIABLES entries, nextEpoch, latest, reservations

vars == <<entries, nextEpoch, latest, reservations>>

Forgotten == [epoch |-> 0, attempts |-> 0, locked |-> FALSE,
              lockedUntil |-> 0, lastActivity |-> 0]

Nothing(state) ==
  [state |-> state, key |-> EmptyKey, epoch |-> 0, engaged |-> FALSE]

Known(table) == {k \in Key : table[k].epoch # 0}

Counting(table) == {k \in Known(table) : ~ table[k].locked}

Elapsed(e, now) ==
  IF e.locked THEN e.lockedUntil <= now ELSE e.lastActivity + LockoutWindow <= now

\* The table with every elapsed entry forgotten.
Live(now) == [k \in Key |-> IF Elapsed(entries[k], now) THEN Forgotten ELSE entries[k]]

Forget(table, K) == [k \in Key |-> IF k \in K THEN Forgotten ELSE table[k]]

Denies(table, k) ==
  \/ table[k].locked
  \/ k \notin Known(table) /\ Cardinality(Known(table)) >= MaxTrackedKeys
                           /\ Counting(table) = {}

\* The sets of keys that may be displaced to let k in.
Victims(table, k) ==
  IF k \in Known(table) \/ Cardinality(Known(table)) < MaxTrackedKeys
  THEN {{}}
  ELSE {{v} : v \in {u \in Counting(table) :
                        \A w \in Counting(table) :
                           table[u].lastActivity <= table[w].lastActivity}}

Init ==
  /\ entries = [k \in Key |-> Forgotten]
  /\ nextEpoch = 0
  /\ latest = 0
  /\ reservations = [r \in Request |-> Nothing("none")]

Look(now) ==
  /\ entries' = Live(now)
  /\ latest' = now
  /\ UNCHANGED <<nextEpoch, reservations>>

Deny(r, k, now) ==
  /\ reservations[r].state = "none"
  /\ Denies(Live(now), k)
  /\ entries' = Live(now)
  /\ latest' = now
  /\ reservations' = [reservations EXCEPT ![r] = Nothing("held")]
  /\ UNCHANGED nextEpoch

Admit(r, k, now) ==
  LET live     == Live(now)
      isNew    == k \notin Known(live)
      epoch    == IF isNew THEN nextEpoch + 1 ELSE live[k].epoch
      attempts == live[k].attempts + 1
      last     == attempts >= Threshold
  IN  /\ reservations[r].state = "none"
      /\ ~ Denies(live, k)
      /\ \E V \in Victims(live, k) :
            entries' = [Forget(live, V) EXCEPT ![k] =
                          [epoch |-> epoch, attempts |-> attempts, locked |-> last,
                           lockedUntil |-> IF last THEN now + LockoutWindow ELSE 0,
                           lastActivity |-> now]]
      /\ nextEpoch' = IF isNew THEN nextEpoch + 1 ELSE nextEpoch
      /\ latest' = now
      /\ reservations' = [reservations EXCEPT ![r] =
                            [state |-> "held", key |-> k, epoch |-> epoch, engaged |-> last]]

\* An attempt is taken back: it lifts a lockout only if it engaged it, and a
\* key with no attempt left is forgotten.
TakeBack(r) ==
  LET v == reservations[r]
      e == Live(latest)[v.key]
      n == e.attempts - 1
  IN  /\ v.state = "held"
      /\ reservations' = [reservations EXCEPT ![r].state = "cancelled"]
      /\ entries' =
           IF v.epoch = 0 \/ e.epoch # v.epoch THEN Live(latest)
           ELSE [Live(latest) EXCEPT ![v.key] =
                   IF e.locked /\ ~ v.engaged THEN [e EXCEPT !.attempts = n]
                   ELSE IF n = 0 THEN Forgotten
                   ELSE [e EXCEPT !.attempts = n, !.locked = FALSE, !.lockedUntil = 0,
                                  !.lastActivity = IF e.locked THEN latest ELSE @]]
      /\ UNCHANGED <<nextEpoch, latest>>

GiveBackAnonymously(r) ==
  LET k == reservations[r].key
      e == entries[k]
  IN  /\ reservations[r].state = "held"
      /\ reservations[r].epoch # 0
      /\ reservations' = [reservations EXCEPT ![r].state = "refunded"]
      /\ entries' = [entries EXCEPT ![k] =
                       IF e.epoch = 0 \/ e.locked \/ e.attempts = 0 THEN e
                       ELSE IF e.attempts = 1 THEN Forgotten
                       ELSE [e EXCEPT !.attempts = @ - 1]]
      /\ UNCHANGED <<nextEpoch, latest>>

Clear(k) ==
  /\ entries' = Forget(entries, {k})
  /\ UNCHANGED <<nextEpoch, latest, reservations>>

Next ==
  \/ \E now \in Time :
        /\ latest <= now
        /\ \/ Look(now)
           \/ \E r \in Request, k \in Key : Deny(r, k, now) \/ Admit(r, k, now)
  \/ \E r \in Request : TakeBack(r) \/ GiveBackAnonymously(r)
  \/ \E k \in Key : Clear(k)

Spec == Init /\ [][Next]_vars
=============================================================================
