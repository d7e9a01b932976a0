--------------------------- MODULE LimiterCallers ---------------------------
(***************************************************************************)
(* AttemptLimiter under the callers its comment invites ("It is safe for   *)
(* concurrent use"): each request goroutine reads the clock and only then  *)
(* calls the limiter, so the call that takes l.mu first need not be the    *)
(* one that read the clock first.  The limiter's steps are those of        *)
(* AttemptLimiter, with "now" the caller's own reading.                    *)
(***************************************************************************)
EXTENDS AttemptLimiter

CONSTANT
  MaxDelay         \* how long a request can be held up between the two

VARIABLES
  clock,           \* the wall clock
  reading          \* the time a request has read and not yet presented

callerVars == <<limiter, reservations, clock, reading>>

NotRead == -1

CallersInit ==
  /\ Init
  /\ clock = 0
  /\ reading = [r \in Request |-> NotRead]

Tick ==
  /\ clock + 1 \in Time
  /\ \A r \in Request : reading[r] # NotRead => clock < reading[r] + MaxDelay
  /\ clock' = clock + 1
  /\ UNCHANGED <<limiter, reservations, reading>>

ReadClock(r) ==
  /\ reservations[r].state = "none"
  /\ reading[r] = NotRead
  /\ reading' = [reading EXCEPT ![r] = clock]
  /\ UNCHANGED <<limiter, reservations, clock>>

CallReserve(r, k) ==
  /\ reading[r] # NotRead
  /\ Reserve(r, k, reading[r])
  /\ reading' = [reading EXCEPT ![r] = NotRead]
  /\ UNCHANGED clock

CallersNext ==
  \/ Tick
  \/ \E r \in Request :
        \/ ReadClock(r)
        \/ \E k \in Key : CallReserve(r, k)
        \/ Cancel(r) /\ UNCHANGED <<clock, reading>>

CallersSpec == CallersInit /\ [][CallersNext]_callerVars
=============================================================================
