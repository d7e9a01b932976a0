------------------------------ MODULE Startup ------------------------------
(***************************************************************************)
(* How a process decides what it is: the first-boot state file             *)
(* (bootstrap), the environment it is laid over, the configuration loaded  *)
(* from that environment (config) and the connection pool built from the   *)
(* configuration (db).                                                     *)
(*                                                                         *)
(* The state file outlives processes and is written in place, by as many   *)
(* handlers of the setup wizard as are running; the operator may give      *)
(* every process another environment.  A boot reads both and either opens  *)
(* the wizard, serves, or fails.                                           *)
(***************************************************************************)
EXTENDS Naturals, FiniteSets

CONSTANTS
  Text,           \* what a variable may be set to
  Submitter,      \* handlers of the setup wizard's form
  WizardProfile   \* database profiles the wizard's form is filled in with

DBVars     == {"DATABASE_URL", "DB_PROVIDER", "DB_POOL_MODE", "DB_SSL_ROOT_CERT"}
SecretVars == {"SESSION_SECRET", "ENCRYPTION_KEY"}
EnvVar     == DBVars \cup SecretVars \cup
              {"APP_ENV", "FORCE_SETUP", "TRUSTED_PROXIES", "HSTS",
               "SERVER_REQUEST_TIMEOUT"}

\* A value and who it came from.  Two secrets that setup generated differ in
\* their number; every other value is told apart by its text.
Value == [by : {"nobody", "operator", "setup", "default"}, is : Text, no : Nat]

Unset          == [by |-> "nobody", is |-> "", no |-> 0]
Default(text)  == [by |-> "default", is |-> text, no |-> 0]
Generated(n)   == [by |-> "setup", is |-> "generated", no |-> n]

\* The texts that the code itself sets or stands in for are among them.
ASSUME TextAssumption ==
  {"", " ", "generated", "dev", "disable", "postgres", "supabase", "session",
   "dev secret", "dev key"} \subseteq Text

\* The wizard's form is not accepted without a DSN.
ASSUME WizardAssumption ==
  \A p \in WizardProfile :
    /\ p \in [DBVars -> [by : {"nobody", "setup"}, is : Text, no : {0}]]
    /\ p["DATABASE_URL"].is \notin {"", " "}

VARIABLES
  osEnv,     \* the environment the operator starts processes with
  file,      \* the state file
  phase,     \* what the process is doing
  conf,      \* the configuration of the serving process
  saver,     \* per handler, the State it is in the middle of saving
  submitted, \* submissions so far
  served,    \* history: the environment and the configuration of each process
             \* that has served
  reset      \* history: a wizard was opened because the operator forced it

startupVars == <<osEnv, file, phase, conf, saver, submitted, served, reset>>

-----------------------------------------------------------------------------
\* State: one field per variable that ExportToEnv sets.
EmptyState == [k \in DBVars \cup SecretVars |-> Unset]

\* The bytes a State encodes to, counted in fields that are not empty.
Size(s) == Cardinality({k \in DOMAIN s : s[k].is # ""})

\* What is at StatePath.  Bytes that are not all of one encoded State are taken
\* not to parse: that part of one State over another of the very same length
\* might read as a mixture of both is left out.
Missing     == [kind |-> "missing", state |-> EmptyState, size |-> 0]
Torn(size)  == [kind |-> "torn", state |-> EmptyState, size |-> size]
Encoded(s)  == [kind |-> "state", state |-> s, size |-> Size(s)]

NoConf   == [env |-> "", DSN |-> Unset, Provider |-> Unset, PoolMode |-> Unset,
             SSLRootCert |-> Unset, Secret |-> Unset, EncryptionKey |-> Unset,
             trusted |-> {}, hsts |-> FALSE]

NotSaving == [pc |-> "idle", state |-> EmptyState]

StartupInit(environments) ==
  /\ osEnv \in environments
  /\ file = Missing
  /\ phase = "down"
  /\ conf = NoConf
  /\ saver = [s \in Submitter |-> NotSaving]
  /\ submitted = 0
  /\ served = {}
  /\ reset = FALSE

TrimSpace(text) == IF text = " " THEN "" ELSE text

\* config.String: an empty variable counts as one that is not set.
StringOr(env, key, fallback) == IF env[key].is # "" THEN env[key] ELSE fallback

-----------------------------------------------------------------------------
(***************************************************************************)
(* bootstrap                                                               *)
(***************************************************************************)
\* Mutation: a file that does not parse counts as one that is not there.
LoadStateLeniently(f) ==
  [err |-> FALSE, found |-> f.kind = "state", state |-> f.state]

LoadState(f) ==
  [err |-> f.kind = "torn", found |-> f.kind = "state", state |-> f.state]

\* Mutation: only the environment says whether a database is configured.
NeedsSetupByEnv(env, loaded) ==
  \/ env["FORCE_SETUP"].is = "true"
  \/ /\ TrimSpace(env["DATABASE_URL"].is) = ""
     /\ TrimSpace(env["APP_ENV"].is) \notin {"", "dev"}

NeedsSetup(env, loaded) ==
  \/ env["FORCE_SETUP"].is = "true"
  \/ /\ loaded.found => TrimSpace(loaded.state["DATABASE_URL"].is) = ""
     /\ TrimSpace(env["DATABASE_URL"].is) = ""
     /\ TrimSpace(env["APP_ENV"].is) \notin {"", "dev"}

\* Mutation: what was saved takes the place of what the operator set.
setEnvAlways(env, state, keys) ==
  [k \in EnvVar |-> IF k \in keys /\ state[k].is # "" THEN state[k] ELSE env[k]]

setEnvIfAbsent(env, state, keys) ==
  [k \in EnvVar |-> IF k \in keys /\ env[k].is = "" /\ state[k].is # ""
                    THEN state[k] ELSE env[k]]

\* Mutation: the database variables are applied one by one, as the secrets are.
ExportEachToEnv(env, loaded) ==
  setEnvIfAbsent(env, loaded.state, SecretVars \cup DBVars)

\* The secrets one by one; the database profile as a whole or not at all.
ExportToEnv(env, loaded) ==
  setEnvIfAbsent(env, loaded.state,
    IF \E k \in DBVars : env[k].is # "" THEN SecretVars ELSE SecretVars \cup DBVars)

-----------------------------------------------------------------------------
(***************************************************************************)
(* config                                                                  *)
(***************************************************************************)
Trimmed(value) == [value EXCEPT !.is = TrimSpace(@)]

\* strings.ToLower after strings.TrimSpace, for the two enumerations.
Normalize(value) ==
  IF value.is = "Supabase" THEN [value EXCEPT !.is = "supabase"] ELSE Trimmed(value)

AppEnv(env) == StringOr(env, "APP_ENV", Default("dev")).is

\* LoadDB, then the development DSN that DBConfig.DSN leaves to the caller.
LoadDB(env) ==
  [DSN         |-> IF AppEnv(env) = "dev"
                   THEN StringOr(env, "DATABASE_URL", Default("disable"))
                   ELSE env["DATABASE_URL"],
   Provider    |-> Normalize(StringOr(env, "DB_PROVIDER", Default("postgres"))),
   PoolMode    |-> Normalize(StringOr(env, "DB_POOL_MODE", Default("session"))),
   SSLRootCert |-> Trimmed(env["DB_SSL_ROOT_CERT"])]

DBValid(db) ==
  /\ TrimSpace(db.DSN.is) # ""
  /\ db.Provider.is \in {"postgres", "supabase"}
  /\ db.PoolMode.is \in {"session", "transaction"}

LoadSession(env) == StringOr(env, "SESSION_SECRET", Default("dev secret"))

SessionValid(secret, app) ==
  /\ secret.is \notin {" ", "short"}
  /\ app = "prod" => secret.is # "dev secret"

LoadCrypto(env) == Trimmed(StringOr(env, "ENCRYPTION_KEY", Default("dev key")))

CryptoValid(key, app) ==
  /\ (key.is # "" \/ app = "prod") => key.is \notin {"", "short"}
  /\ app = "prod" => key.is # "dev key"

\* TRUSTED_PROXIES alone tells an empty variable, which trusts no proxy, from
\* one that is not set.
TrustedProxyPrefixes(env) ==
  IF env["TRUSTED_PROXIES"].by = "nobody" THEN {"loopback"}
  ELSE IF env["TRUSTED_PROXIES"].is = "" THEN {} ELSE {"loopback", "edge"}

\* A malformed CIDR, or a request timeout under the floor.
ServerValid(env) ==
  /\ env["TRUSTED_PROXIES"].is # "not a CIDR"
  /\ env["SERVER_REQUEST_TIMEOUT"].is # "10s"

\* HSTS_ENABLED and the variables that go with it, as one.
LoadHSTS(env) == env["HSTS"].is # ""

\* Preload without what the preload list demands.
HSTSValid(env) == env["HSTS"].is # "preload only"

Valid(env) ==
  /\ AppEnv(env) \in {"dev", "test", "prod"}
  /\ DBValid(LoadDB(env))
  /\ SessionValid(LoadSession(env), AppEnv(env))
  /\ CryptoValid(LoadCrypto(env), AppEnv(env))
  /\ ServerValid(env)
  /\ HSTSValid(env)

Load(env) ==
  [env           |-> AppEnv(env),
   DSN           |-> LoadDB(env).DSN,
   Provider      |-> LoadDB(env).Provider,
   PoolMode      |-> LoadDB(env).PoolMode,
   SSLRootCert   |-> LoadDB(env).SSLRootCert,
   Secret        |-> LoadSession(env),
   EncryptionKey |-> LoadCrypto(env),
   trusted       |-> TrustedProxyPrefixes(env),
   hsts          |-> LoadHSTS(env)]

-----------------------------------------------------------------------------
(***************************************************************************)
(* db                                                                      *)
(***************************************************************************)
\* The text of a DSN that parses is its sslmode; ApplySSLRootCert overrides it.
SSLMode(db) == IF db.SSLRootCert.is # "" THEN "verify-full" ELSE db.DSN.is

\* pgx's ParseConfig leaves TLSConfig nil where the first connection it tries
\* is in plain text.  It is set for "prefer", the default, though a second try
\* may then be in plain text.
TLSConfigIsNil(db) == SSLMode(db) \in {"disable", "allow"}

\* poolConfig refuses a DSN that is blank or does not parse and, for Supabase,
\* one that leaves TLSConfig nil.
poolConfigOK(db) ==
  /\ TrimSpace(db.DSN.is) # ""
  /\ db.DSN.is # "malformed"
  /\ db.Provider.is = "supabase" => ~ TLSConfigIsNil(db)

-----------------------------------------------------------------------------
(***************************************************************************)
(* One boot.  The application loads the state file, stops on an error,     *)
(* asks NeedsSetup, exports the state, and loads and validates its         *)
(* configuration.                                                          *)
(***************************************************************************)
bootEnv == ExportToEnv(osEnv, LoadState(file))

BootIntoSetup ==
  /\ phase = "down"
  /\ ~ LoadState(file).err
  /\ NeedsSetup(osEnv, LoadState(file))
  /\ phase' = "setup"
  /\ reset' = (reset \/ osEnv["FORCE_SETUP"].is = "true")
  /\ UNCHANGED <<osEnv, file, conf, saver, submitted, served>>

\* db.New's Ping succeeds.
BootServes ==
  /\ phase = "down"
  /\ ~ LoadState(file).err
  /\ ~ NeedsSetup(osEnv, LoadState(file))
  /\ Valid(bootEnv)
  /\ poolConfigOK(LoadDB(bootEnv))
  /\ phase' = "serving"
  /\ conf' = Load(bootEnv)
  /\ served' = served \cup {[env |-> osEnv, conf |-> conf']}
  /\ UNCHANGED <<osEnv, file, saver, submitted, reset>>

\* The state file does not parse, the configuration is refused, or the
\* database does not answer the Ping.
BootFails ==
  /\ phase = "down"
  /\ LoadState(file).err \/ ~ NeedsSetup(osEnv, LoadState(file))
  /\ phase' = "failed"
  /\ UNCHANGED <<osEnv, file, conf, saver, submitted, served, reset>>

\* The process exits, is restarted after setup, or crashes: its handlers stop
\* wherever they are.
Stop ==
  /\ phase # "down"
  /\ phase' = "down"
  /\ conf' = NoConf
  /\ saver' = [s \in Submitter |-> NotSaving]
  /\ UNCHANGED <<osEnv, file, submitted, served, reset>>

ChangeEnvironment(env) ==
  /\ phase = "down"
  /\ osEnv' = env
  /\ UNCHANGED <<file, phase, conf, saver, submitted, served, reset>>

-----------------------------------------------------------------------------
(***************************************************************************)
(* SaveState, from the handlers of the wizard                              *)
(***************************************************************************)
\* GenerateSecret stands in for what the operator has not supplied.
wizardState(profile, n) ==
  [k \in DBVars \cup SecretVars |->
     IF k \in DBVars THEN profile[k]
     ELSE IF osEnv[k].is # "" THEN Unset ELSE Generated(n)]

\* os.WriteFile opens the file and truncates it...
Truncate(s, profile) ==
  /\ phase = "setup"
  /\ saver[s].pc = "idle"
  /\ submitted' = submitted + 1
  /\ saver' = [saver EXCEPT ![s] = [pc |-> "write",
                                    state |-> wizardState(profile, submitted')]]
  /\ file' = Torn(0)
  /\ UNCHANGED <<osEnv, phase, conf, served, reset>>

\* ... and writes from its own offset 0: over a longer State that another
\* handler has written meanwhile, whose tail stays.
overlay(s) == IF Size(s) < file.size THEN Torn(file.size) ELSE Encoded(s)

Write(s) ==
  /\ saver[s].pc = "write"
  /\ file' = overlay(saver[s].state)
  /\ saver' = [saver EXCEPT ![s] = NotSaving]
  /\ UNCHANGED <<osEnv, phase, conf, submitted, served, reset>>

\* Nothing or not everything is written, or Chmod fails after the write, and
\* SaveState returns the error.
WriteFails(s) ==
  /\ saver[s].pc = "write"
  /\ file' \in {file, overlay(saver[s].state)} \cup
              {Torn(IF n < file.size THEN file.size ELSE n) :
                 n \in 1..Size(saver[s].state)}
  /\ saver' = [saver EXCEPT ![s] = NotSaving]
  /\ UNCHANGED <<osEnv, phase, conf, submitted, served, reset>>

Boot ==
  \/ BootIntoSetup
  \/ BootServes
  \/ BootFails

-----------------------------------------------------------------------------
(***************************************************************************)
(* Properties                                                              *)
(***************************************************************************)
\* What an operator can set, and what a wizard can have saved by now.
Environment == [EnvVar -> [by : {"nobody", "operator"}, is : Text, no : {0}]]

SavedState ==
  {s \in [DBVars \cup SecretVars -> [by : {"nobody", "setup"}, is : Text, no : Nat]] :
     /\ TrimSpace(s["DATABASE_URL"].is) # ""
     /\ \A k \in SecretVars : s[k] \in {Unset} \cup {Generated(n) : n \in 1..submitted}}

\* The generated encryption keys that processes have served with, and may have
\* sealed data with.
sealed == {k \in {v.conf.EncryptionKey : v \in served} : k.by = "setup"}

StartupTypeOK ==
  /\ osEnv \in Environment
  /\ phase \in {"down", "setup", "serving", "failed"}
  /\ phase # "serving" => conf = NoConf
  /\ saver \in [Submitter -> [pc : {"idle", "write"}, state : SavedState \cup {EmptyState}]]
  /\ submitted \in Nat
  /\ \A v \in served : v.env \in Environment
  /\ \A k \in sealed : \E n \in 1..submitted : k = Generated(n)
  /\ reset \in BOOLEAN

\* ExportToEnv's promise: the connection a process serves with is described by
\* the operator alone or by the persisted state alone, defaults aside, however
\* the environment changed since setup.
NoHybridProfile ==
  phase = "serving" =>
    LET given == {f \in {"DSN", "Provider", "PoolMode", "SSLRootCert"} : conf[f].is # ""}
    IN ~ {"operator", "setup"} \subseteq {conf[f].by : f \in given}

\* NeedsSetup's and LoadState's promise: once a submission has reached the
\* state file, whether it was saved whole, was cut short or collided with
\* another, no later boot opens the wizard unless the operator forces it, and
\* none serves from a file that does not parse.
SetupIsNotRepeated ==
  [][phase = "down" /\ phase' # "down" =>
       /\ phase' = "setup" => submitted = 0 \/ osEnv["FORCE_SETUP"].is = "true"
       /\ phase' = "serving" => file.kind # "torn"]_startupVars

\* An encryption key that setup generated and a process has served with, and
\* may have sealed data with, is never followed by another generated key,
\* unless the operator forced the wizard open again.
SealedKeyIsKept == ~ reset => Cardinality(sealed) <= 1

\* A production process that is started again with an environment another has
\* served under gets the same database, secrets and settings, whatever setup,
\* crashes and processes with other environments came in between, unless the
\* operator forced the wizard: it neither loses the sessions and the sealed data
\* of its predecessor nor connects elsewhere.
RestartKeepsConfig ==
  ~ reset /\ phase = "serving" =>
    \A v \in served : v.env = osEnv /\ v.conf.env = "prod" => conf = v.conf

\* What is at StatePath: nothing before the first submission, and from then on
\* bytes that do not parse or all of one State that has a DSN.
FileIsWhole ==
  \/ submitted = 0 /\ file = Missing
  \/ submitted > 0 /\ file = Torn(file.size)
  \/ submitted > 0 /\ file = Encoded(file.state) /\ file.state \in SavedState

\* Only the wizard saves, and what it is about to write is a State with a DSN.
SaversAreInSetup ==
  \A s \in Submitter :
    saver[s].pc = "write" => phase = "setup" /\ submitted > 0 /\ saver[s].state \in SavedState

\* Neither the environment nor the file changes under a serving process: its
\* configuration is still what a boot would load.
ServedAsLoaded ==
  phase = "serving" => file.kind # "torn" /\ conf = Load(bootEnv)

\* The one sealed key is the one that is in the state file.
SealedKeyIsFiled ==
  ~ reset /\ sealed # {} =>
    /\ phase # "setup"
    /\ file.kind = "state"
    /\ sealed = {file.state["ENCRYPTION_KEY"]}

\* The operator set everything that a production process needs and the state
\* file could supply.
Complete(env) == \A k \in SecretVars \cup {"DATABASE_URL"} : env[k].is # ""

\* What production has served with can be had again: it was the operator's
\* alone, or the file it came from is still there and will not be written to.
ServedIsReproducible ==
  ~ reset => \A v \in served : v.conf.env = "prod" =>
    \/ Complete(v.env) /\ v.conf = Load(v.env)
    \/ /\ phase # "setup"
       /\ file.kind = "state"
       /\ v.conf = Load(ExportToEnv(v.env, LoadState(file)))

StartupInv ==
  /\ StartupTypeOK
  /\ FileIsWhole
  /\ SaversAreInSetup
  /\ ServedAsLoaded
  /\ SealedKeyIsFiled
  /\ ServedIsReproducible

=============================================================================
