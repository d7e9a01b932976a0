------------------------------ MODULE Requests ------------------------------
(***************************************************************************)
(* Requests inside the middleware chain that httpserver.New builds:        *)
(* RequestID, ForwardedHeaders, SecurityHeaders, RequestLogger, Metrics,   *)
(* Recoverer, Timeout, the application's own, CaptureRoutePattern, mux.    *)
(*                                                                         *)
(* Every layer from RequestLogger in shares one responseWriter, which      *)
(* records what it believes net/http has sent.  A handler may write, flush *)
(* or hijack, return, panic, or abort with http.ErrAbortHandler, at any    *)
(* point; the layers then unwind one after the other, while other requests *)
(* are anywhere else in the chain.                                         *)
(***************************************************************************)
EXTENDS Naturals, Sequences, FiniteSets, SequencesExt

CONSTANTS
  Request,
  Client,     \* addresses of clients
  Proxy,      \* addresses of reverse proxies on the way
  Call,       \* how a request may reach the server
  Route,      \* patterns registered on the mux
  Status      \* codes that handlers pass to WriteHeader

\* A token of X-Forwarded-For that is not an address.
Garbage == "unknown"

ASSUME RequestAssumption ==
  /\ Client \cap Proxy = {}
  /\ {Garbage, ""} \cap (Client \cup Proxy) = {}
  /\ \A c \in Call : /\ c.path \in Seq(Client \cup Proxy)
                     /\ c.path # <<>> /\ Head(c.path) \in Client
                     /\ c.sent \in Seq(Client \cup Proxy \cup {Garbage})

\* net/http panics on any other.
ASSUME StatusAssumption == Status \subseteq 100..999

VARIABLES
  req,       \* where each request is, and what its layers hold
  inFlight   \* HTTPMetrics.RequestsInFlight

requestVars == <<req, inFlight>>

-----------------------------------------------------------------------------
\* A call: the path is the client followed by the proxies it comes through;
\* sent is what the client itself put into X-Forwarded-For; proto is the first
\* token of X-Forwarded-Proto.
NoCall == [path |-> <<>>, sent |-> <<>>, tls |-> FALSE, proto |-> ""]

\* "wire" is net/http's side of the response, 0 while nothing is sent.
\* "counted" and "logged" are history: what Metrics and RequestLogger recorded.
Unrecorded == [route |-> "", status |-> 0]

Fresh ==
  [pc |-> "new", metrics |-> FALSE, call |-> NoCall, trusted |-> {},
   clientIP |-> "", scheme |-> "", hsts |-> FALSE,
   matched |-> "", pattern |-> "",
   wroteHeader |-> FALSE, status |-> 0, wire |-> 0, hijacked |-> FALSE,
   counted |-> Unrecorded, logged |-> 0]

RequestsInit ==
  /\ req = [r \in Request |-> Fresh]
  /\ inFlight = 0

At(r, pc) == req[r].pc = pc

-----------------------------------------------------------------------------
(***************************************************************************)
(* On the way in                                                           *)
(***************************************************************************)
\* Each proxy on the path adds the address it was called from to what it was
\* given.
peer(call) == Last(call.path)

xForwardedFor(call) == call.sent \o Front(call.path)

\* Mutation: the first address of the list is taken for the client.
clientFromXFFLeftmost(xff, trusted) ==
  LET found == {n \in DOMAIN xff : xff[n] # Garbage /\ xff[n] \notin trusted}
  IN IF found = {} THEN "" ELSE xff[Min(found)]

\* The rightmost address that is no trusted proxy; "" when there is none.
clientFromXFF(xff, trusted) ==
  LET found == {n \in DOMAIN xff : xff[n] # Garbage /\ xff[n] \notin trusted}
  IN IF found = {} THEN "" ELSE xff[Max(found)]

onWireScheme(call) == IF call.tls THEN "https" ELSE "http"

normalizeScheme(proto) ==
  CASE proto = "HTTPS"             -> "https"
    [] proto \in {"http", "https"} -> proto
    [] OTHER                       -> ""

resolveForwarded(call, trusted) ==
  LET client == clientFromXFF(xForwardedFor(call), trusted)
      scheme == normalizeScheme(call.proto)
      direct == [clientIP |-> peer(call), scheme |-> onWireScheme(call)]
  IN IF peer(call) \notin trusted
     THEN direct
     ELSE [clientIP |-> IF client # "" THEN client ELSE direct.clientIP,
           scheme   |-> IF scheme # "" THEN scheme ELSE direct.scheme]

\* Strict-Transport-Security goes out on requests that came over https.
SecurityHeaders(hsts, scheme) == hsts /\ scheme = "https"

\* Everything outside the application's middleware, up to Metrics counting the
\* request in; hsts says whether SecurityHeaders was given a header value, and
\* metrics whether the server has any (the first-run setup server has none).
Arrive(r, call, trusted, hsts, metrics) ==
  LET fwd == resolveForwarded(call, trusted)
  IN /\ At(r, "new")
     /\ req' = [req EXCEPT ![r] =
          [@ EXCEPT !.pc = "middleware", !.metrics = metrics, !.call = call,
                    !.trusted = trusted,
                    !.clientIP = fwd.clientIP, !.scheme = fwd.scheme,
                    !.hsts = SecurityHeaders(hsts, fwd.scheme)]]
     /\ inFlight' = IF metrics THEN inFlight + 1 ELSE inFlight

\* The mux finds a pattern and writes it to the request it was given.
Match(r, route) ==
  /\ At(r, "middleware")
  /\ req' = [req EXCEPT ![r] = [@ EXCEPT !.pc = "handler", !.matched = route]]
  /\ UNCHANGED inFlight

-----------------------------------------------------------------------------
(***************************************************************************)
(* The handler, through responseWriter                                     *)
(***************************************************************************)
running(r) == req[r].pc \in {"middleware", "handler"}

\* An informational status precedes the response and leaves it open.
informational(code) == code \in 100..199

\* net/http takes the first status that answers and ignores a later one.
send(q, code) == IF q.wire = 0 /\ ~ informational(code) THEN code ELSE q.wire

WriteHeader(q, code) ==
  IF q.wroteHeader THEN q
  ELSE [q EXCEPT !.status = code, !.wroteHeader = TRUE, !.wire = send(q, code)]

\* Mutation: a flush is passed on and the header not marked as written.
FlushUnmarked(q) == [q EXCEPT !.wire = send(q, 200)]

\* Flush, and Write, send a 200 when no status has been written.
Flush(q) == WriteHeader(q, 200)

HandlerWritesHeader(r, code) ==
  /\ running(r)
  /\ ~ req[r].hijacked
  /\ req' = [req EXCEPT ![r] = WriteHeader(@, code)]
  /\ UNCHANGED inFlight

HandlerWritesOrFlushes(r) ==
  /\ running(r)
  /\ ~ req[r].hijacked
  /\ req' = [req EXCEPT ![r] = Flush(@)]
  /\ UNCHANGED inFlight

\* Mutation: the hijacked response is not marked as started.
HijackUnmarked(r) ==
  /\ At(r, "handler")
  /\ ~ req[r].hijacked
  /\ req' = [req EXCEPT ![r].hijacked = TRUE]
  /\ UNCHANGED inFlight

\* The connection is the handler's own from here on.
Hijack(r) ==
  /\ At(r, "handler")
  /\ ~ req[r].hijacked
  /\ req' = [req EXCEPT ![r] = [@ EXCEPT !.hijacked = TRUE, !.wroteHeader = TRUE]]
  /\ UNCHANGED inFlight

\* CaptureRoutePattern is deferred: it copies whatever pattern the mux found.
HandlerEnds(r, how) ==
  /\ running(r)
  /\ req' = [req EXCEPT ![r] = [@ EXCEPT !.pc = how, !.pattern = req[r].matched]]
  /\ UNCHANGED inFlight

\* /healthz, and /readyz with the database up or down.
ServeProbe(r, code) ==
  /\ At(r, "middleware")
  /\ req' = [req EXCEPT ![r] = [WriteHeader(@, code) EXCEPT !.pc = "returned",
                                  !.matched = "probe", !.pattern = "probe"]]
  /\ UNCHANGED inFlight

-----------------------------------------------------------------------------
(***************************************************************************)
(* On the way out                                                          *)
(***************************************************************************)
\* recoverAndRespond: a 500 unless a response has started; an abort goes on.
Recover(r) ==
  /\ At(r, "panicked")
  /\ req' = [req EXCEPT ![r] =
       [(IF @.wroteHeader THEN @ ELSE WriteHeader(@, 500)) EXCEPT !.pc = "returned"]]
  /\ UNCHANGED inFlight

statusOr200(q) == IF q.status = 0 THEN 200 ELSE q.status

observation(q) ==
  [route  |-> IF q.pattern # "" THEN q.pattern ELSE "unmatched",
   status |-> statusOr200(q)]

\* The rest of Metrics after a return, its deferred Dec included.
Observe(r) ==
  /\ At(r, "returned")
  /\ req' = [req EXCEPT ![r] =
       [@ EXCEPT !.pc = "observed",
                 !.counted = IF req[r].metrics THEN observation(req[r])
                             ELSE req[r].counted]]
  /\ inFlight' = IF req[r].metrics THEN inFlight - 1 ELSE inFlight

\* Mutation: Dec is not deferred, and an abort passes it by.
decOnAbortNever(q) == 0

decOnAbort(q) == IF q.metrics THEN 1 ELSE 0

\* An abort runs Metrics' deferred Dec and nothing else of the chain, up to
\* net/http, which closes the connection.
Abort(r) ==
  /\ At(r, "aborted")
  /\ inFlight' = inFlight - decOnAbort(req[r])
  /\ req' = [req EXCEPT ![r].pc = "gone"]

\* RequestLogger writes its line; net/http sends an implicit 200 when the
\* chain returned without writing anything.
Log(r) ==
  /\ At(r, "observed")
  /\ req' = [req EXCEPT ![r] =
       [@ EXCEPT !.pc = "done", !.logged = statusOr200(req[r]),
                 !.wire = IF req[r].hijacked THEN req[r].wire ELSE send(req[r], 200)]]
  /\ UNCHANGED inFlight

RequestStep(r) ==
  \/ \E route \in Route : Match(r, route)
  \/ \E code \in Status : HandlerWritesHeader(r, code)
  \/ HandlerWritesOrFlushes(r)
  \/ Hijack(r)
  \/ \E how \in {"returned", "panicked", "aborted"} : HandlerEnds(r, how)
  \/ \E code \in {200, 503} : ServeProbe(r, code)
  \/ Recover(r)
  \/ Observe(r)
  \/ Abort(r)
  \/ Log(r)

\* The process is gone, and its gauge with it.
StopRequests ==
  /\ req' = [r \in Request |-> IF req[r].pc \in {"new", "done"} THEN req[r]
                               ELSE [req[r] EXCEPT !.pc = "gone"]]
  /\ inFlight' = 0

-----------------------------------------------------------------------------
(***************************************************************************)
(* Properties                                                              *)
(***************************************************************************)
Pattern == Route \cup {"", "probe"}

RequestState ==
  [pc : {"new", "middleware", "handler", "returned", "panicked", "aborted",
         "observed", "done", "gone"},
   metrics : BOOLEAN, call : Call \cup {NoCall}, trusted : SUBSET Proxy,
   clientIP : Client \cup Proxy \cup {""}, scheme : {"", "http", "https"},
   hsts : BOOLEAN, matched : Pattern, pattern : Pattern,
   wroteHeader : BOOLEAN, status : Nat, wire : Nat, hijacked : BOOLEAN,
   counted : [route : Pattern \cup {"unmatched"}, status : Nat], logged : Nat]

RequestsTypeOK ==
  /\ req \in [Request -> RequestState]
  /\ inFlight \in Nat

\* The requests between Metrics' two ends.
countedIn ==
  {r \in Request :
     /\ req[r].metrics
     /\ req[r].pc \in {"middleware", "handler", "returned", "panicked", "aborted"}}

\* The in-flight gauge is exactly the number of requests between Metrics' two
\* ends, whichever of them panicked or aborted.
GaugeIsExact == inFlight = Cardinality(countedIn)

\* A request that was not aborted is counted under the route that handled it
\* and under the status its client got, and is logged with that status, after
\* a panic, a flush and an implicit 200 too.  A hijacked response has no status
\* that the server could know, and a handler that sends an informational status
\* is recorded with that one.
RecordedAsServed ==
  \A r \in Request :
    At(r, "done") =>
      /\ req[r].metrics =>
           req[r].counted.route = IF req[r].matched = "" THEN "unmatched" ELSE req[r].matched
      /\ ~ req[r].hijacked /\ ~ informational(req[r].status) =>
           /\ req[r].logged = req[r].wire
           /\ req[r].metrics => req[r].counted.status = req[r].wire

\* What responseWriter believes of the response is what net/http has sent, but
\* for a connection that was hijacked and a status that leaves it open.
WriterIsRight ==
  \A r \in Request :
    LET q == req[r] IN
    /\ q.hijacked => q.wroteHeader
    /\ ~ q.wroteHeader => q.status = 0
    /\ ~ q.wroteHeader /\ q.pc # "done" => q.wire = 0
    /\ q.wroteHeader /\ ~ q.hijacked =>
         q.status # 0 /\ (informational(q.status) \/ q.wire = q.status)

\* What each layer leaves behind as the chain unwinds.
LayersAreRight ==
  \A r \in Request :
    LET q == req[r] IN
    /\ q.pc \in {"returned", "panicked", "aborted", "observed", "done"} =>
         q.pattern = q.matched
    /\ q.pc \in {"observed", "done"} /\ q.metrics => q.counted = observation(q)
    /\ q.pc = "done" => /\ q.logged = statusOr200(q)
                        /\ q.wroteHeader \/ q.wire = 200

\* The address on the path that is closest to the server and no trusted proxy.
nearestUntrusted(call, trusted) ==
  call.path[Max({n \in DOMAIN call.path : call.path[n] \notin trusted})]

\* What ClientIP and IsHTTPS answer is what the trusted part of the path says:
\* nothing the client put into X-Forwarded-For changes the address, and a peer
\* that is no trusted proxy changes neither address nor scheme, so HSTS goes
\* out on a plain connection only on a trusted proxy's word.
ForwardedIsHonest ==
  \A r \in Request :
    LET q == req[r] IN
    q.pc # "new" =>
      /\ q.clientIP = nearestUntrusted(q.call, q.trusted)
      /\ q.hsts /\ ~ q.call.tls => peer(q.call) \in q.trusted
      /\ peer(q.call) \notin q.trusted => q.scheme = onWireScheme(q.call)

\* The inductive invariant of this module's properties: RecordedAsServed rests
\* on the parts about the writer and the layers, GaugeIsExact on the finiteness.
RequestsInv ==
  /\ RequestsTypeOK
  /\ IsFiniteSet(countedIn)
  /\ GaugeIsExact
  /\ WriterIsRight
  /\ LayersAreRight
  /\ ForwardedIsHonest

=============================================================================
