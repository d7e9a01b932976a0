--------------------------- MODULE MCApplication ---------------------------
(***************************************************************************)
(* Five workloads, each leaning on one component while the others stay     *)
(* small: a first boot with three submissions of the wizard, restarts and  *)
(* every kind of environment; a cache under expiry, restarts and fallback; *)
(* two requests side by side under every kind of handler; one request over *)
(* every path of proxies; one photo of up to three segments.               *)
(***************************************************************************)
EXTENDS Application, TLC

MCText == STRING

Operator(text) == [by |-> "operator", is |-> text, no |-> 0]

Setup(text) == [by |-> IF text = "" THEN "nobody" ELSE "setup", is |-> text, no |-> 0]

Env(vars_) ==
  [k \in EnvVar |-> IF k \in DOMAIN vars_ THEN Operator(vars_[k]) ELSE Unset]

Prod == "APP_ENV" :> "prod"

\* A self-hosted profile, and a Supabase one with every field filled in.
MCProfile ==
  {[k \in DBVars |-> Setup(IF k = "DATABASE_URL" THEN "disable" ELSE "")],
   [k \in DBVars |-> Setup(CASE k = "DATABASE_URL" -> "require"
                             [] k = "DB_PROVIDER" -> "supabase"
                             [] k = "DB_POOL_MODE" -> "transaction"
                             [] OTHER -> "ca.pem")]}

\* What the operator leaves to setup, overrides in part, or gets wrong.
MCEnvironments ==
  {Env(Prod),
   Env("APP_ENV" :> "dev"),
   Env(Prod @@ "FORCE_SETUP" :> "true"),
   Env(Prod @@ "DATABASE_URL" :> "disable"),
   Env(Prod @@ "DATABASE_URL" :> " "),
   Env(Prod @@ "DATABASE_URL" :> "allow" @@ "DB_PROVIDER" :> "Supabase"
            @@ "ENCRYPTION_KEY" :> "good" @@ "SESSION_SECRET" :> "good"),
   Env(Prod @@ "DATABASE_URL" :> "disable" @@ "DB_PROVIDER" :> "supabase"
            @@ "DB_SSL_ROOT_CERT" :> "ca.pem" @@ "ENCRYPTION_KEY" :> "good"
            @@ "SESSION_SECRET" :> "good"),
   Env(Prod @@ "DATABASE_URL" :> "malformed" @@ "ENCRYPTION_KEY" :> "good"
            @@ "SESSION_SECRET" :> "good"),
   Env(Prod @@ "DB_POOL_MODE" :> "transaction"),
   Env(Prod @@ "ENCRYPTION_KEY" :> "good"),
   Env(Prod @@ "SESSION_SECRET" :> "short"),
   Env(Prod @@ "DATABASE_URL" :> "" @@ "DB_SSL_ROOT_CERT" :> ""),
   Env(Prod @@ "HSTS" :> "preload only"),
   Env(Prod @@ "TRUSTED_PROXIES" :> "not a CIDR"),
   Env(Prod @@ "SERVER_REQUEST_TIMEOUT" :> "10s"),
   Env("APP_ENV" :> "production")}

Configured ==
  Prod @@ "DATABASE_URL" :> "require" @@ "ENCRYPTION_KEY" :> "good"
       @@ "SESSION_SECRET" :> "good" @@ "HSTS" :> "on"

MCForgery == {<<>>, <<"c2", "unknown">>, <<"loopback">>}

MCPath == LET c == "c1" IN
  {<<c>>} \cup {<<c, p>> : p \in Proxy} \cup {<<c, p, q>> : p \in Proxy, q \in Proxy}

\* The call of requests that run side by side.
PlainCall == [path |-> <<"c1">>, sent |-> <<>>, tls |-> TRUE, proto |-> ""]

MCCall ==
  {PlainCall} \cup
  {[path |-> path, sent |-> sent, tls |-> scheme[1], proto |-> scheme[2]] :
     path \in MCPath, sent \in MCForgery,
     scheme \in {<<FALSE, "">>, <<FALSE, "HTTPS">>, <<FALSE, "ftp">>, <<TRUE, "http">>}}

MCEnvironmentsOf ==
  "setup"    :> MCEnvironments @@
  "cache"    :> {Env(Configured)} @@
  "photos"   :> {Env(Configured)} @@
  "requests" :> {Env(Configured)} @@
  "calls"    :> {Env(Prod), Env(Configured @@ "TRUSTED_PROXIES" :> "edge"),
                 Env(Configured @@ "TRUSTED_PROXIES" :> "")}

MCCalls ==
  "setup" :> {} @@ "cache" :> {} @@ "photos" :> {} @@ "requests" :> {PlainCall} @@ "calls" :> MCCall

MCBounds ==
  "setup"    :> [submissions |-> 3, stops |-> 4, sets |-> 0, ticks |-> 0,
                 requests |-> {}, photos |-> 0] @@
  "cache"    :> [submissions |-> 0, stops |-> 2, sets |-> 2, ticks |-> 6,
                 requests |-> {}, photos |-> 0] @@
  "photos"   :> [submissions |-> 0, stops |-> 1, sets |-> 0, ticks |-> 0,
                 requests |-> {}, photos |-> 1] @@
  "requests" :> [submissions |-> 0, stops |-> 1, sets |-> 0, ticks |-> 0,
                 requests |-> Request, photos |-> 0] @@
  "calls"    :> [submissions |-> 0, stops |-> 0, sets |-> 0, ticks |-> 0,
                 requests |-> {"r1"}, photos |-> 0]

\* Segments in and out of order, markers without a length, fill bytes, scan
\* data that looks like a segment, and what is none of them.
MCExif    == <<255, 225, 0, 9>> \o exifAPP1Signature \o <<7>>
MCPiece   ==
  {MCExif,
   <<255, 225, 0, 5, 69, 120, 105>>,       \* APP1, too short to be EXIF
   <<255, 254, 0, 13>> \o MCExif,          \* a comment that holds a segment
   <<255, 254, 0, 2>>,
   <<255, 208>>, <<255>>, <<7>>,
   <<255, 218, 0, 3, 1>>, <<255, 217>>,
   <<255, 254, 0, 1>>, <<255, 254, 1, 0>>} \* lengths that do not fit

SOI == <<255, 216>>

MCPhoto ==
  {SOI \o p \o q \o r : p \in MCPiece, q \in MCPiece, r \in MCPiece}
    \cup {SOI \o p \o SubSeq(MCExif, 1, n) : p \in MCPiece, n \in 0..Len(MCExif) - 1}
    \cup {SOI, <<255>>, <<7, 255, 216>>}

\* None, under a second, over a second, and a negative one.
MCTTL == {-1, 0, 1, 3}

=============================================================================
