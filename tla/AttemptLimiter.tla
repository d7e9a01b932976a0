--------------------------- MODULE AttemptLimiter ---------------------------
(***************************************************************************)
(* ratelimit/attempt_limiter.go: the in-memory limiter that admits         *)
(* Threshold attempts per key per window and then locks the key out.       *)
(*                                                                         *)
(* Every exported method holds l.mu for its whole body, so a method call   *)
(* is one step.  The struct is the record "limiter"; the methods' helpers  *)
(* are operators from one such record to the next, composed in the order   *)
(* the code calls them.  The callers are the elements of Request: each     *)
(* makes one attempt and may later give it back, once.                     *)
(***************************************************************************)
EXTENDS Integers, FiniteSets, SequencesExt

CONSTANTS
  Key,             \* the keys callers present (an account, a client address)
  EmptyKey,        \* Go's "", the key of a zero Reservation
  Request,         \* the callers
  Time,            \* the instants a caller can pass as "now"
  Threshold,       \* Policy.Threshold
  LockoutWindow,   \* Policy.LockoutWindow
  MaxTrackedKeys   \* Policy.MaxTrackedKeys

\* NewAttemptLimiter panics on any other policy.
ASSUME PolicyAssumption ==
  /\ Threshold \in Nat \ {0}
  /\ LockoutWindow \in Nat \ {0}
  /\ MaxTrackedKeys \in Nat \ {0}

ASSUME CallerAssumption ==
  /\ EmptyKey \in Key
  /\ Time \subseteq Nat

VARIABLES
  limiter,         \* the AttemptLimiter struct
  reservations     \* what each request holds

vars == <<limiter, reservations>>

-----------------------------------------------------------------------------
(***************************************************************************)
(* State.  An epoch is 0 exactly when the key has no entry: nextEpoch is   *)
(* incremented before it is given out.  counting and locks are the two     *)
(* container/list lists, front first.                                      *)
(***************************************************************************)
Entry == [epoch : Nat, attempts : Int, locked : BOOLEAN,
          lockedUntil : Int, lastActivity : Int]

NoEntry == [epoch |-> 0, attempts |-> 0, locked |-> FALSE,
            lockedUntil |-> 0, lastActivity |-> 0]

LimiterState == [entries : [Key -> Entry], nextEpoch : Nat, latest : Nat,
                 counting : Seq(Key), locks : Seq(Key)]

\* A Reservation, and what became of it: "none" before the attempt, "held"
\* while the attempt stands, "cancelled" or "refunded" once given back.
Reservation == [state : {"none", "held", "cancelled", "refunded"},
                key : Key, epoch : Nat, engaged : BOOLEAN]

ZeroReservation(state) ==
  [state |-> state, key |-> EmptyKey, epoch |-> 0, engaged |-> FALSE]

Tracked(l) == {k \in Key : l.entries[k].epoch # 0}

\* len(l.entries)
Size(l) == Cardinality(Tracked(l))

-----------------------------------------------------------------------------
(***************************************************************************)
(* The helpers, named as in the source.  An entry's element pointer names  *)
(* the element pushed for it last, the frontmost one for its key; List's   *)
(* Remove and MoveToFront ignore an element of another list.               *)
(***************************************************************************)
listRemove(s, k) == RemoveFirst(s, k)

listMoveToFront(s, k) == IF Contains(s, k) THEN <<k>> \o listRemove(s, k) ELSE s

removeLocked(l, k) ==
  [l EXCEPT !.entries[k] = NoEntry,
            !.counting = IF l.entries[k].locked THEN @ ELSE listRemove(@, k),
            !.locks    = IF l.entries[k].locked THEN listRemove(@, k) ELSE @]

idleForAWindow(l, k, now) == l.entries[k].lastActivity <= now - LockoutWindow

lockoutOver(l, k, now) == ~ (now < l.entries[k].lockedUntil)

\* Each loop pops the back of its list while that entry has aged out, and
\* stops at the first that has not: what is left is the list up to its last
\* live entry.
expireLocked(l, now) ==
  LET liveC == SelectLastInSeq(l.counting, LAMBDA k : ~ idleForAWindow(l, k, now))
      liveL == SelectLastInSeq(l.locks, LAMBDA k : ~ lockoutOver(l, k, now))
      popped == ToSet(SubSeq(l.counting, liveC + 1, Len(l.counting)))
                  \cup ToSet(SubSeq(l.locks, liveL + 1, Len(l.locks)))
  IN  [l EXCEPT !.entries = [k \in Key |-> IF k \in popped THEN NoEntry ELSE @[k]],
                !.counting = SubSeq(@, 1, liveC),
                !.locks = SubSeq(@, 1, liveL)]

observeLocked(l, now) ==
  expireLocked([l EXCEPT !.latest = IF now > @ THEN now ELSE @], now)

saturatedLocked(l) == Size(l) >= MaxTrackedKeys /\ Len(l.counting) = 0

\* Mutation: the front of the list, the most recently active key, is evicted.
makeRoomLockedFront(l) ==
  IF Size(l) < MaxTrackedKeys THEN l ELSE removeLocked(l, Head(l.counting))

\* Mutation: the cap is off by one.
makeRoomLockedLate(l) ==
  IF Size(l) <= MaxTrackedKeys THEN l ELSE removeLocked(l, Last(l.counting))

\* The state after a makeRoomLocked that returns true; it returns false,
\* changing nothing, exactly when saturatedLocked holds.
makeRoomLocked(l) ==
  IF Size(l) < MaxTrackedKeys THEN l ELSE removeLocked(l, Last(l.counting))

\* Mutation: the entry stays in the counting list.
lockLockedTwice(l, k, now) ==
  [l EXCEPT !.entries[k].locked = TRUE,
            !.entries[k].lockedUntil = now + LockoutWindow,
            !.locks = <<k>> \o @]

lockLocked(l, k, now) ==
  [l EXCEPT !.counting = listRemove(@, k),
            !.entries[k].locked = TRUE,
            !.entries[k].lockedUntil = now + LockoutWindow,
            !.locks = <<k>> \o @]

\* Mutation: the key goes back to the counting list with its old activity.
unlockLockedUnstamped(l, k) ==
  [l EXCEPT !.locks = listRemove(@, k),
            !.entries[k].locked = FALSE,
            !.entries[k].lockedUntil = 0,
            !.counting = <<k>> \o @]

unlockLocked(l, k) ==
  [l EXCEPT !.locks = listRemove(@, k),
            !.entries[k].locked = FALSE,
            !.entries[k].lockedUntil = 0,
            !.entries[k].lastActivity = l.latest,
            !.counting = <<k>> \o @]

\* Mutation: nextEpoch is incremented after it is given out.
newEntryFromZero(l, k) ==
  [l EXCEPT !.nextEpoch = @ + 1,
            !.entries[k] = [epoch |-> l.nextEpoch, attempts |-> 0, locked |-> FALSE,
                            lockedUntil |-> 0, lastActivity |-> 0],
            !.counting = <<k>> \o @]

\* A fresh entry, pushed to the front of the counting list.
newEntry(l, k) ==
  [l EXCEPT !.nextEpoch = @ + 1,
            !.entries[k] = [epoch |-> l.nextEpoch + 1, attempts |-> 0, locked |-> FALSE,
                            lockedUntil |-> 0, lastActivity |-> 0],
            !.counting = <<k>> \o @]

\* Reserve's tail: one more attempt, and the lockout when it was the last.
countAttempt(l, k, now) ==
  LET counted == [l EXCEPT !.entries[k].attempts = @ + 1,
                           !.entries[k].lastActivity = now]
  IN  IF counted.entries[k].attempts < Threshold
      THEN [counted EXCEPT !.counting = listMoveToFront(@, k)]
      ELSE lockLocked(counted, k, now)

\* An attempt given back: e.attempts--.
giveBack(l, k) == [l EXCEPT !.entries[k].attempts = @ - 1]

-----------------------------------------------------------------------------
Init ==
  /\ limiter = [entries |-> [k \in Key |-> NoEntry], nextEpoch |-> 0, latest |-> 0,
                counting |-> << >>, locks |-> << >>]
  /\ reservations = [r \in Request |-> ZeroReservation("none")]

\* Locked's answer, asked of the state observeLocked leaves.
deniedAt(l, k, now) ==
  IF k \notin Tracked(l) THEN saturatedLocked(l)
  ELSE l.entries[k].locked /\ now < l.entries[k].lockedUntil

Locked(k, now) ==
  /\ limiter' = observeLocked(limiter, now)
  /\ UNCHANGED reservations

\* Reserve (and Attempt, which drops the reservation) when it answers Denied.
ReserveDenied(r, k, now) ==
  LET l == observeLocked(limiter, now)
  IN  /\ reservations[r].state = "none"
      /\ deniedAt(l, k, now)
      /\ limiter' = l
      /\ reservations' = [reservations EXCEPT ![r] = ZeroReservation("held")]

\* Reserve when it answers Allowed or, with the reservation marked engaged,
\* AllowedLastAttempt.
ReserveAdmitted(r, k, now) ==
  LET l    == observeLocked(limiter, now)
      room == IF k \in Tracked(l) THEN l ELSE newEntry(makeRoomLocked(l), k)
      done == countAttempt(room, k, now)
  IN  /\ reservations[r].state = "none"
      /\ ~ deniedAt(l, k, now)
      /\ limiter' = done
      /\ reservations' =
           [reservations EXCEPT ![r] =
              [state |-> "held", key |-> k, epoch |-> room.entries[k].epoch,
               engaged |-> ~ (done.entries[k].attempts < Threshold)]]

\* Mutation: the engaged flag is not looked at.
cancelAnyLifts(l, r) ==
  LET given == giveBack(l, r.key)
      e     == given.entries[r.key]
  IN  IF r.epoch = 0 \/ l.entries[r.key].epoch # r.epoch THEN l
      ELSE IF e.attempts = 0 THEN removeLocked(given, r.key)
      ELSE IF e.locked THEN unlockLocked(given, r.key)
      ELSE given

\* Mutation: the epoch is not compared.
cancelStale(l, r) ==
  LET given == giveBack(l, r.key)
      e     == given.entries[r.key]
  IN  IF r.epoch = 0 \/ r.key \notin Tracked(l) THEN l
      ELSE IF e.locked /\ ~ r.engaged THEN given
      ELSE IF e.attempts = 0 THEN removeLocked(given, r.key)
      ELSE IF e.locked THEN unlockLocked(given, r.key)
      ELSE given

\* Cancel's effect on the table, after its expireLocked(l.latest).
cancel(l, r) ==
  LET given == giveBack(l, r.key)
      e     == given.entries[r.key]
  IN  IF r.epoch = 0 \/ l.entries[r.key].epoch # r.epoch THEN l
      ELSE IF e.locked /\ ~ r.engaged THEN given
      ELSE IF e.attempts = 0 THEN removeLocked(given, r.key)
      ELSE IF e.locked THEN unlockLocked(given, r.key)
      ELSE given

Cancel(r) ==
  /\ reservations[r].state = "held"
  /\ limiter' = cancel(expireLocked(limiter, limiter.latest), reservations[r])
  /\ reservations' = [reservations EXCEPT ![r].state = "cancelled"]

\* Refund names a key, not an attempt, and does not expire anything first.
Refund(r) ==
  LET k == reservations[r].key
      e == limiter.entries[k]
  IN  /\ reservations[r].state = "held"
      /\ reservations[r].epoch # 0
      /\ limiter' =
           IF e.epoch = 0 \/ e.locked \/ e.attempts = 0 THEN limiter
           ELSE IF e.attempts = 1 THEN removeLocked(limiter, k)
           ELSE giveBack(limiter, k)
      /\ reservations' = [reservations EXCEPT ![r].state = "refunded"]

Reset(k) ==
  /\ limiter' = IF k \in Tracked(limiter) THEN removeLocked(limiter, k) ELSE limiter
  /\ UNCHANGED reservations

Reserve(r, k, now) == ReserveDenied(r, k, now) \/ ReserveAdmitted(r, k, now)

\* "Callers must pass non-decreasing times."
Next ==
  \/ \E k \in Key, now \in Time :
        /\ limiter.latest <= now
        /\ \/ Locked(k, now)
           \/ \E r \in Request : Reserve(r, k, now)
  \/ \E r \in Request : Cancel(r) \/ Refund(r)
  \/ \E k \in Key : Reset(k)

Spec == Init /\ [][Next]_vars

-----------------------------------------------------------------------------
(***************************************************************************)
(* Properties                                                              *)
(***************************************************************************)
\* The types of the struct's fields; the epoch that marks a Reservation as the
\* zero value ("cancels nothing") is never that of an admitted attempt.
TypeOK ==
  /\ limiter \in LimiterState
  /\ reservations \in [Request -> Reservation]
  /\ \A r \in Request :
       reservations[r].epoch = 0 => reservations[r].key = EmptyKey /\ ~ reservations[r].engaged

\* The counting list holds the tracked keys that are not locked, the lock
\* list the tracked keys that are, no key twice.
OneListIn(l) ==
  /\ IsInjective(l.counting)
  /\ IsInjective(l.locks)
  /\ ToSet(l.counting) = {k \in Tracked(l) : ~ l.entries[k].locked}
  /\ ToSet(l.locks) = {k \in Tracked(l) : l.entries[k].locked}

\* "It sits in exactly one of the limiter's two recency lists" (entry), and
\* once: the lists and the map's locked flags always agree.
OneList == OneListIn(limiter)

\* The table never grows past MaxTrackedKeys, though lockouts are exempt from
\* eviction (makeRoomLocked).
WithinCapacity == Size(limiter) <= MaxTrackedKeys

\* No entry of l has aged out at l.latest.
LiveIn(l) ==
  \A k \in Tracked(l) :
    IF l.entries[k].locked
    THEN l.latest < l.entries[k].lockedUntil
    ELSE l.latest - LockoutWindow < l.entries[k].lastActivity

\* Looking only at the back of each list finds everything that has aged out:
\* no entry outlives its window past the newest time any call has presented
\* (expireLocked; it rests on both lists being ordered by recency).
NothingOutlivesItsWindow == LiveIn(limiter)

(***************************************************************************)
(* Why looking at list backs is enough: both lists are ordered by recency, *)
(* and no stamp is ahead of the newest time presented.                     *)
(***************************************************************************)
\* a is nearer the front of s than b.
Before(s, a, b) == \E i, j \in 1..Len(s) : i < j /\ s[i] = a /\ s[j] = b

OrderedIn(l) ==
  \A a, b \in Key :
    /\ Before(l.counting, a, b) => l.entries[b].lastActivity <= l.entries[a].lastActivity
    /\ Before(l.locks, a, b) => l.entries[b].lockedUntil <= l.entries[a].lockedUntil

StampedIn(l) ==
  \A k \in Key :
    /\ l.entries[k].lastActivity <= l.latest
    /\ l.entries[k].lockedUntil <= l.latest + LockoutWindow

\* What every helper needs and every helper keeps, aged entries or not.
TableInv(l) ==
  /\ l \in LimiterState
  /\ OneListIn(l)
  /\ OrderedIn(l)
  /\ StampedIn(l)
  /\ IsFiniteSet(Tracked(l))
  /\ Size(l) <= MaxTrackedKeys

\* What the lists are for.
ListsInv == TypeOK /\ TableInv(limiter) /\ LiveIn(limiter)

\* The requests whose attempt stands against the current entry of k.
StandingIn(l, res, k) ==
  {r \in Request : /\ res[r].state = "held"
                   /\ res[r].epoch # 0
                   /\ res[r].key = k
                   /\ res[r].epoch = l.entries[k].epoch}

\* The requests that engaged a lockout of the current entry of k and have not
\* cancelled.
EngagersIn(l, res, k) ==
  {r \in Request : /\ res[r].engaged
                   /\ res[r].key = k
                   /\ res[r].epoch = l.entries[k].epoch
                   /\ res[r].state # "cancelled"}

NobodyRefunds(res) == \A r \in Request : res[r].state # "refunded"

\* Reserve and Cancel keep exact accounts: as long as nobody used the
\* anonymous Refund, an entry counts exactly the attempts admitted into it
\* and not cancelled, whatever the order of concurrent attempts and cancels
\* ("concurrent cancels never leave strikes behind").
ExactAccounting ==
  NobodyRefunds(reservations) =>
    \A k \in Tracked(limiter) :
      limiter.entries[k].attempts = Cardinality(StandingIn(limiter, reservations, k))

\* AllowedLastAttempt is returned exactly once per lockout: the current entry
\* of a locked key was locked by exactly one attempt not cancelled since, and
\* a key that is still counting has no such attempt left.
OneEngagerPerLockout ==
  \A k \in Tracked(limiter) :
    Cardinality(EngagersIn(limiter, reservations, k))
      = IF limiter.entries[k].locked THEN 1 ELSE 0

(***************************************************************************)
(* Why the accounts are exact: an epoch is given out once, and what it     *)
(* marks is never mistaken for anything else.                              *)
(***************************************************************************)
\* A key without an entry has the zero value, and so has the lockout of a key
\* that is counting.
CleanIn(l) ==
  \A k \in Key :
    /\ l.entries[k].epoch = 0 => l.entries[k] = NoEntry
    /\ ~ l.entries[k].locked => l.entries[k].lockedUntil = 0

\* Entries and reservations bear epochs already given out, and a request that
\* has not made its attempt bears none.
EpochsAreGiven ==
  /\ \A k \in Key : limiter.entries[k].epoch <= limiter.nextEpoch
  /\ \A r \in Request :
       /\ reservations[r].epoch <= limiter.nextEpoch
       /\ reservations[r].state = "none" => reservations[r].epoch = 0

\* The accounts of one key, which are finite.
AccountedIn(l, res, k) ==
  /\ IsFiniteSet(StandingIn(l, res, k))
  /\ IsFiniteSet(EngagersIn(l, res, k))
  /\ l.entries[k].epoch # 0 =>
       /\ NobodyRefunds(res) =>
            l.entries[k].attempts = Cardinality(StandingIn(l, res, k))
       /\ Cardinality(EngagersIn(l, res, k)) = IF l.entries[k].locked THEN 1 ELSE 0

\* The inductive invariant.
IInv ==
  /\ ListsInv
  /\ CleanIn(limiter)
  /\ EpochsAreGiven
  /\ \A k \in Key : AccountedIn(limiter, reservations, k)

\* k has an entry, and its lockout is not over at "now".
InForce(k, now) ==
  /\ k \in Tracked(limiter)
  /\ limiter.entries[k].locked
  /\ now < limiter.entries[k].lockedUntil

\* The lockout of k is what it was, whatever else happened to the entry.
SameLockout(k) ==
  /\ limiter'.entries[k].epoch = limiter.entries[k].epoch
  /\ limiter'.entries[k].locked
  /\ limiter'.entries[k].lockedUntil = limiter.entries[k].lockedUntil

\* r's attempt engaged the current lockout of k.
Engaged(r, k) ==
  /\ reservations[r].engaged
  /\ reservations[r].key = k
  /\ reservations[r].epoch = limiter.entries[k].epoch

LockoutKept ==
  \A k \in Key :
    InForce(k, limiter'.latest) =>
      \/ SameLockout(k)
      \/ Reset(k)
      \/ \E r \in Request : Cancel(r) /\ Engaged(r, k)

\* A lockout in force is neither evicted, nor shortened, nor extended by a
\* denied attempt: it ends early only by Reset, or by Cancel of the attempt
\* that engaged it.
LockoutStands == [][LockoutKept]_vars

Budget == INSTANCE AttemptBudget WITH
            entries <- limiter.entries, nextEpoch <- limiter.nextEpoch,
            latest <- limiter.latest

\* The limiter with its two lists implements the table without them: expiry
\* and eviction that look only at list backs forget the same entries.
ImplementsBudget == Budget!Spec
=============================================================================
