---------------------------- MODULE Application ----------------------------
(***************************************************************************)
(* A process of an application built on this library: it boots (Startup),  *)
(* opens its cache (Cache), serves requests (Requests) and scrubs the      *)
(* photos it is sent (ExifScrub), and it stops or crashes with all four in *)
(* the middle of whatever they were doing.  What carries over to the next  *)
(* process is the state file and the cache directory.                      *)
(*                                                                         *)
(* The workload bounds what comes from outside, and only that.             *)
(***************************************************************************)
EXTENDS Startup, Cache, Requests, ExifScrub

CONSTANTS
  Workload,      \* names of the workloads
  Environments,  \* per workload, the environments the operator uses
  Calls,         \* per workload, the calls that requests come in as
  Bounds         \* per workload, how many submissions, stops, sets, ticks
                 \* and photos there may be, and which requests

Bound == [submissions : Nat, stops : Nat, sets : Nat, ticks : Nat,
          requests : SUBSET Request, photos : Nat]

\* The proxies that a value of TRUSTED_PROXIES stands for are among those that
\* calls come through.
ASSUME ApplicationAssumption ==
  /\ {"loopback", "edge"} \subseteq Proxy
  /\ \A w \in Workload : /\ Environments[w] \subseteq Environment
                         /\ Calls[w] \subseteq Call
                         /\ Bounds[w] \in Bound

VARIABLES
  workload,
  left           \* what is left of the workload's bounds

vars == <<startupVars, cacheVars, requestVars, scrubVars, workload, left>>

Init ==
  /\ workload \in Workload
  /\ left = Bounds[workload]
  /\ StartupInit(Environments[workload])
  /\ CacheInit
  /\ RequestsInit
  /\ ScrubInit

Spend(bound) ==
  /\ left[bound] > 0
  /\ left' = [left EXCEPT ![bound] = @ - 1]
  /\ UNCHANGED workload

others == <<cacheVars, requestVars, scrubVars>>

Booting == Boot /\ UNCHANGED <<others, workload, left>>

Reconfigure ==
  /\ \E env \in Environments[workload] : ChangeEnvironment(env)
  /\ UNCHANGED <<others, workload, left>>

Submit ==
  /\ Spend("submissions")
  /\ \E s \in Submitter, profile \in WizardProfile : Truncate(s, profile)
  /\ UNCHANGED others

Saving ==
  /\ \E s \in Submitter : Write(s) \/ WriteFails(s)
  /\ UNCHANGED <<others, workload, left>>

\* The cache belongs to a serving process.
Caching ==
  /\ phase = "serving"
  /\ \/ Open \/ OpenAfterRemoval \/ FallBackToMemory
     \/ \E g \in Setter : SetStores(g)
     \/ \E k \in Key : DropExpired(k)
     \/ \E k \in Key : Delete(k)
  /\ UNCHANGED <<startupVars, requestVars, scrubVars, workload, left>>

Setting ==
  /\ phase = "serving"
  /\ Spend("sets")
  /\ \E g \in Setter, k \in Key, ttl \in TTL : Set(g, k, ttl)
  /\ UNCHANGED <<startupVars, requestVars, scrubVars>>

Tick ==
  /\ TickCache
  /\ Spend("ticks")
  /\ UNCHANGED <<startupVars, requestVars, scrubVars>>

\* The first-run setup server is New with neither metrics nor HSTS.
Arriving ==
  /\ phase \in {"setup", "serving"}
  /\ \E r \in left.requests :
       /\ \E c \in Calls[workload] :
            Arrive(r, c, conf.trusted, conf.hsts, phase = "serving")
       /\ left' = [left EXCEPT !.requests = @ \ {r}]
  /\ UNCHANGED <<startupVars, cacheVars, scrubVars, workload>>

Serving ==
  /\ \E r \in Request : RequestStep(r)
  /\ UNCHANGED <<startupVars, cacheVars, scrubVars, workload, left>>

Scrubbing ==
  /\ phase = "serving"
  /\ Spend("photos")
  /\ \E photo \in Photo, orientation \in 0..8 : Scrub(photo, orientation)
  /\ UNCHANGED <<startupVars, cacheVars, requestVars>>

ScrubStep ==
  /\ Walk \/ Reencode
  /\ UNCHANGED <<startupVars, cacheVars, requestVars, workload, left>>

Stopping ==
  /\ Stop
  /\ StopCache
  /\ StopRequests
  /\ StopScrub
  /\ Spend("stops")

Next ==
  \/ Booting
  \/ Reconfigure
  \/ Submit
  \/ Saving
  \/ Caching
  \/ Setting
  \/ Tick
  \/ Arriving
  \/ Serving
  \/ Scrubbing
  \/ ScrubStep
  \/ Stopping

Spec == Init /\ [][Next]_vars

\* Each component's variables have their types.
TypeOK ==
  /\ workload \in Workload
  /\ left \in Bound
  /\ StartupTypeOK
  /\ CacheTypeOK
  /\ RequestsTypeOK

\* Nothing of a process is left when it is not there: no cache is open, no
\* photo is being scrubbed and no request is in the chain.
ProcessIsGone ==
  /\ phase # "serving" => backend = "none" /\ scrubPc = "idle"
  /\ phase \notin {"setup", "serving"} =>
       \A r \in Request : req[r].pc \in {"new", "done", "gone"}

\* The inductive invariant of the application: its components' invariants, and
\* what ties them to the process.
IInv ==
  /\ TypeOK
  /\ StartupInv
  /\ RequestsInv
  /\ ScrubInv
  /\ ProcessIsGone

=============================================================================
