# nestcore in TLA+

nestcore is the Go library under two household applications, Nestova and
Nestorage. Both run several request handlers at once, and both use one PostgreSQL
database. This directory models what concurrent calls, concurrent processes,
failures, crashes and rollbacks can do to the state they share, and how a process
gets from a state file and an environment to serving requests.

1. Inventory
2. Modules and the code they stand for
3. Runs: questions, results, bounds, fairness
4. Proofs
5. Where the code and its comments disagree
6. Not modelled
7. Plan

## 1. Inventory

| Component | State it keeps | Operations | Hard behaviour | What makes it correct |
|---|---|---|---|---|
| `ratelimit.AttemptLimiter` | a map of keys to entries, two recency lists, an epoch counter, the newest time seen | Locked, Attempt, Reserve, Cancel, Refund, Reset | attempts in flight while entries expire, are evicted, reset and return; a full table; times from many goroutines | budgets are exact, lockouts stand, the cap holds, expiry at list backs finds everything |
| MFA (`identity/app/mfa.go`, `adapter/mfa_postgres.go`) | a `member_mfa` row, recovery code rows | BeginEnrollment, ConfirmEnrollment, VerifyLoginCode, Disenroll | each call is several transactions with nothing held in between | a code counts once, shown codes are the stored ones, confirmed secrets stand, tenants are kept apart |
| Photos (`media/app`, `media/adapter`) | rows in PostgreSQL, objects on disk or in S3 | Upload, Delete, storage migration, ReaperService.Run | rows and bytes share no transaction; the reaper acts on what it listed earlier | a row's bytes are there; one row per content; orphans go |
| Members (`adapter/member_postgres.go`) | `identity.member` rows, advisory locks | CreateMember, UpdateMemberProfile, SetMemberActive | write skew under READ COMMITTED; colliding lock keys | a household keeps its last active owner; every call returns |
| Passkeys (`app/webauthn.go`, `adapter/webauthn_postgres.go`) | `member_credential` rows | FinishRegistration, FinishLogin, Revoke, Rename | logins with one key at the same time, at equal times; revocation during a login | newest counter stays, revoked keys fail, the right member is answered |
| Migrations (`db/migrate`, `identity/migrate`) | the schema, goose's version table, a session lock | Up, UpTo, Down, DownTo, Reset, Status, RequireVersion | applications of different ages boot together, crash, roll back | no gaps, no failed races, nobody serves on a schema older than itself |
| Cache (`cache/`) | TTL entries in memory, or in a badger directory that outlives the process | Get, Set, Delete, NewBadgerCache, GC, Close | TTL rounding; a Set that read the clock long before it stores; a corrupt directory; fallback to memory | no entry is answered past its TTL or dropped early |
| First-boot setup (`bootstrap/`) | a JSON state file, the environment | NeedsSetup, LoadState, SaveState, ExportToEnv | a crash, a failure or another submission inside the write; an environment that changes between boots | setup is not repeated, keys are kept, profiles are not mixed |
| Configuration and pool (`config/`, `db/db.go`) | none: computed at every boot | Load..., Validate, poolConfig, New | environment, state file and defaults combine | a restart serves with what its predecessor served with |
| HTTP server (`httpserver/`, `metrics/`) | per request a responseWriter and a route holder; a gauge and counters | the middleware chain, the probes | panics, aborts, flushes and hijacks at any point, with other requests elsewhere in the chain; forged headers | requests are counted and logged as answered; the gauge is exact; forwarding headers are believed only of trusted proxies |
| EXIF scrubbing (`media/adapter/exif_scrub.go`) | none: a walk over one photo | Scrub | fill bytes, bad lengths, truncation ahead of the segment | the EXIF goes, and nothing else; orientation is applied as documented |
| Password login (`app/authenticator.go`) | none | Login | the `active` flag it reads changes | not modelled (section 6) |
| TOTP, crypto, sessions, rendering | none of their own | | | not modelled (section 6) |

How they meet: the applications put an AttemptLimiter in front of logins and hand
it the time themselves. Password logins, MFA and passkeys read rows that Members
writes (`active` above all). Photos belong to households and members but no call
changes both; a photo is scrubbed before it is uploaded. Migrations run before any
of the others, from either application. A process reads the state file, builds its
configuration from it and the environment, opens the pool and the cache, and then
serves; `TRUSTED_PROXIES` and HSTS reach the middleware from that configuration.

The hazards are listed, each at its line, in `PROJECT.json`, with the properties
that would show them.

## 2. Modules and the code they stand for

**AttemptLimiter** is `ratelimit/attempt_limiter.go`. The variable `limiter` is the
struct: `entries` (epoch 0 stands for a key that is not in the map), the lists
`counting` and `locks` (front first), `nextEpoch`, `latest`. `reservations` is what
callers hold. Every exported method holds the mutex from start to end, so each is
one action (`Locked`, `Reserve`, `Cancel`, `Refund`, `Reset`; Attempt is Reserve whose
reservation is never used), and the unexported helpers are operators from struct to
struct with the source's names. A reservation is cancelled or refunded at most once,
as Cancel's comment asks, and times do not decrease, as the type's comment asks. The
counter is an integer and not a natural: from a threshold of three on, a Refund whose
own entry is gone, on a key whose lockout is then cancelled attempt by attempt, leaves
the count at -1 and the key an attempt too many. The code deprecates Refund and
promises no count for keys it was used on; ExactAccounting excludes those keys.

**AttemptBudget** is the same table without lists: all entries whose window has
elapsed are forgotten before a call looks, and a full table forgets *a* least
recently active counting key. AttemptLimiter implements it with the identity on
the table and the lists hidden.

**LimiterCallers** lets requests read the clock first and call later, so that
times reach the limiter out of order by at most `MaxDelay`.

**MFA** is one member's enrollment. `row`, `codes` and `used` are the tables;
`call` is the service call each session is in; a step is one repository call.
BeginEnrollment's transaction has two steps when it finds no row, because
`FOR UPDATE` then locks nothing. A TOTP code is a pair (secret, step); a recovery
code a pair (batch, index). `history` records what callers were told and is read by
no action. A caller may type a code of the
secret in the row, or none (a code of any other secret is refused as an empty one
is), and recovery codes of batches already stored.

**PhotoStorage** has an object table per backend (an object is its LastModified),
the photo rows, the uploads in progress, a storage migrator and a reaper run. Each
database or store call is a step. A `Ref` is a household, a class and a content, as
the object key is. The migrator is a program outside this repository; its steps
are what `ObjectExists`, `PutAt` and `MigrateStorageBackend` say of their caller. Two
pairs of calls are one step each: the migrator's `ObjectExists` and the `PutAt` that
follows if the object is missing, and `Delete`'s read of the row and its DELETE, which
names the same row.
The field `exposed` of a row is history: it marks a reference that was made while a
reaper run had its object on the list. RowsHaveBytes excludes such rows, because the
reaper's comment concedes part of that window; the run `photo_reap` shows how large it
is. A row that the migrator flips to an object it found already there is not excluded
for that: while no run has the object on its list, a later one has to find the new
reference.

**Members** follows the two guarded transactions statement by statement: ask for the
lock, take a snapshot, evaluate the WHERE clause, explain a refusal, commit. Taking
the snapshot is a step apart from acting on it, which is what the comment on
`memberTxBeginner` is about. `hashtext` is any function from households to keys.
**OwnedHouseholds** is the table without transactions: a field of one member changes
at one stroke, and no household loses the owners it had. Its guard is stated by that
outcome, not by the code's condition. A call names a member that exists, of its own
household or of another; an id that nobody has matches no row and changes nothing. Members implements it, locks and transactions
hidden.

**Passkeys** follows FinishLogin: resolve the handle and verify, read the clock,
the conditional UPDATE, and the existence check when it matched nothing. `Derive` is
any function from members to handles: the schema does not make them unique. Every
statement may fail, and the UPDATE may also take effect and its answer be lost: the call
then ends in `"lost"`, which FinishLogin answers with an error although the row holds the
assertion. NewestAssertionStands counts such a call among those whose assertion was
stored. An authenticator generates a credential id once, so an id does not return
after it was revoked, and an INSERT refused for its unique id changes nothing.
**PasskeyDeactivation** adds SetMemberActive.

**Migrations** has processes with the version each was built against. Creating the
schema (before any lock), the session lock, the plan, each migration and
RequireVersion are steps, and a process may stop at each. goose is modelled from
how `Runner` uses it: a migration and its record are one transaction, an operation
lists what is pending once it has the lock, and a lock goes with its connection.
RequireVersion reads the applied versions in one step where goose reads them one by one.
`reverted` holds the processes under which a version was rolled back after they had come
to their check; every other one, also one booted after a rollback, is held to
ServedSchemaIsComplete.
**SchemaVersion** is what the applications rely on: the applied migrations are those
from 1 to some version, which moves by one. Migrations implements it, plans and locks
hidden.

**Startup** is a boot. `osEnv` is the environment the operator starts processes
with, `file` what is at StatePath. SaveState is the two steps it is on disk:
`os.WriteFile` truncates (`Truncate`) and then writes from its own offset 0
(`Write`), so that two handlers of the wizard can leave a short State over a long
one, and a failure (`WriteFails`) any prefix. Whatever is not the whole of one State is
`Torn`: that two States of the same length could be joined into a third that parses is
left out. Sizes are counted in fields that are
not empty. A value carries who it came from (`by`), which no operation reads and the
properties compare. The operators of config keep what decides: empty against unset
(they differ for `TRUSTED_PROXIES` only), trimming, defaults, and each Validate. Three
things belong to the applications and are taken from how the comments of bootstrap
and config describe their caller: a LoadState error stops the boot, a saved setup is
followed by a restart, and in dev an empty `DATABASE_URL` falls back to a
development DSN. A whitespace-only database variable keeps ExportToEnv from applying
the persisted profile although NeedsSetup trims it; the boot then fails, and that is
in the model. poolConfig refuses Supabase when pgx has no TLS configuration, which is so
for sslmode `disable` and `allow` (`TLSConfigIsNil`). The comment in `db.go` takes a TLS
configuration for TLS; `prefer`, or no mode at all, has one and may still fall back to
plain text, so no property speaks of the connection being encrypted. `served` is history:
the environment and the configuration of every process that has served.

**Cache** is the port with both adapters. `backend` is the adapter this process has;
`dir` is badger's directory; `setting` holds what a Set has computed from the clock
and not yet stored under the mutex or in its transaction. MemoryCache compares
instants, badger whole seconds. `called` and `ttl` of an entry are history.

**Requests** is the chain `httpserver.New` builds. A request's record holds what
its layers hold: the resolved address and scheme, the route holder, the shared
responseWriter (`wroteHeader`, `status`). `wire` is net/http's own side of the
response, so that what the layers believe can be compared with what was sent. The
layers unwind one step each (`Recover`, `Observe`, `Log`, or `Abort`). A call is a path
of addresses, to which every proxy has added the one it was called from, and
whatever the client itself sent. Two consequences of the code that the properties
spell out: a handler that sends an informational (1xx) status is recorded with that
status, and a panic after it gets no 500; an aborted request is neither counted nor
logged, by Metrics' and RequestLogger's design.

**ExifScrub** walks real bytes: `Walk` is one iteration of stripJPEGExif's loop.
`isUnit`, `visits`, `exifBytes` and `wellFormed` say declaratively which bytes are a
marker, which markers a reader comes to and which of them are EXIF, and `isWithout`
what it is to have exactly those taken out, by the rank of each byte that is kept;
they share no code with the walk. When the photo has to be encoded again the
result is a constant, `encoded`, and the properties say nothing of it beyond that it is
returned. `orient` is applyOrientation's switch.

**Application** composes the four: a process is down, in setup, or serving; the cache
and the photos belong to a serving process, requests to a serving one or to the
setup server; a stop or a crash ends all four wherever they are, and only the state
file and the cache directory are there for the next process. The constant `Bounds`
limits what comes from outside, per workload, and nothing else.

The modules `MC...` give constants their values and the symmetry sets.
Definitions named as a variant of another (`cancelStale`, `lockFreeAlways`) come just
before it with the comment "Mutation": they are the plausible slips that show
which property would notice.

## 3. Runs

Passing runs, with the distinct states TLC finds:

| Run | Bounds | States | What it shows |
|---|---|---|---|
| `limiter` | 3 keys for 2 slots, 4 requests, times 0..3, threshold 2, window 2 | 224,860 | OneList, WithinCapacity, NothingOutlivesItsWindow, ExactAccounting, OneEngagerPerLockout, LockoutStands, ImplementsBudget |
| `mfa` | 2 sessions, the member's household and another, 1 recovery code per batch, 3 secrets, 2 steps | 1,529,159 | OneRedemptionPerCode, ShownCodesAreStored, NoReplayWithinEnrollment, ConfirmedStands, TenantGuard |
| `photo` | 2 uploads, 1 content in 2 classes, a row older than hashing, grace window 1, 3 rows, times 0..1 | 2,378,001 | OneRowPerContent, RowsHaveBytes, SweepIsComplete |
| `members` | 2 sessions, 2 members of one household, another household on the same lock key, 3 roles | 131,341 | ImplementsOwned, RefusalsAreJustified, EveryCallReturns |
| `passkeys` | 3 logins, 2 keys, 2 members whose handles collide, counters 0..1, times 1..2 | 634,296 | NewestAssertionStands, RevokedKeysFail, LoginAnswersOwner |
| `application` | five workloads, below | 1,188,985 | NoHybridProfile, SealedKeyIsKept, RestartKeepsConfig, TTLIsHonoured, GaugeIsExact, RecordedAsServed, ForwardedIsHonest, ScrubRemovesExactlyExif, SetupIsNotRepeated |
| `migrations` | 3 processes built against versions 1, 2 and 3 | 460,628 | ImplementsSchema, RacesAreHarmless, ServedSchemaIsComplete |

Each also checks `IInv`, the inductive invariant of section 4, of which the type
invariant is the first part (that of Migrations contains NoGaps too). ImplementsOwned
says more than OwnersRemain, which is a theorem beside it.

Why the bounds are enough for the interesting cases to happen. *limiter*: one key
more than the table holds forces eviction and, with two lockouts, saturation; four
requests on one key give a lockout, an attempt cancelled that engaged it, one that
did not, and a return of the key; a window of 2 in times 0..3 lets entries expire
and come back. *mfa*: three secrets are an enrollment, its replacement and a new one
after Disenroll; two sessions suffice for every race of read and write. *photo*: with
a grace window of 1, an object can be exactly at the cutoff, younger, or overwritten
during a run; two classes give the cross-class references the reaper's comment
describes. *members*: two owners and two transactions are write skew; calls that name
the other household share the key, so a collision is always on. *passkeys*: times and counters can tie or
disagree. *migrations*: an older binary meets a schema newer than itself, and a
newer one an older schema.

*application* has five workloads, chosen at the start of a behaviour, because its
components share nothing but the life cycle of the process, the configuration and
the disk: each workload leans on one and lets processes boot, stop and crash around
it. **setup**: 3 submissions by 2 handlers with a short and a long profile (every
overlap of truncations and writes), 4 stops, and 16 environments that leave
everything to setup, override it in part, or are wrong; a second key can only be
served after two setups, which takes all of that. **cache**: 2 keys, 2 concurrent
Sets, 2 ticks to a second and 6 ticks, so that TTLs of none, half a second and one
and a half seconds expire within and across seconds; 2 stops give a restart and a
fallback. **requests**: 2 requests side by side, with every sequence of writing
(103, 200, 404), flushing, hijacking, returning, panicking and aborting. **calls**: one
request over every path of up to two proxies out of three kinds, with three forged
headers and four schemes, under three settings of `TRUSTED_PROXIES`, without stops. **photos**: every
photo of three out of eleven pieces (EXIF, APP1 too short for it, a comment that
contains one, fill bytes, restart markers, SOS, EOI, stray bytes, bad lengths), and
every truncation of an EXIF segment after each piece.

`mfa`, `passkeys` and `application` may stop: secrets, requests and the bounds of a
workload are used up. Nowhere else is a deadlock allowed.

Fairness is assumed in `members` only: a transaction that holds the lock goes on
(weak fairness of `Advance`; its handler is running), and one that waits gets the lock
if it is free again and again (strong fairness of `lockHousehold`; PostgreSQL queues
waiters). Failures are never forced, so EveryCallReturns does not rest on a timeout.

## 4. Proofs

TLC checks the instances of section 3; the theorems hold for every value of the
constants that the named assumptions admit, so for any number of keys, callers,
sessions, uploads, processes and requests. Every safety invariant and every action
property of a passing run is a theorem, and so are the three refinements.

The proofs have one shape. The invariant of interest is seldom inductive; the
module states what has to be added, named part by named part, and calls the whole
`IInv`, which the run of that component checks too. There is a lemma per action
(`IInv` and the action give `IInv'`, and the action property if one rests on it), under it a
step per part the action can disturb, and the theorems follow from `IInv`. What
several actions need (finite sets that grow by one, a record of which one field
changes, a statement that leaves a row alone) is a lemma of its own.

| Module | Theorems | What `IInv` adds, and why it is needed |
|---|---|---|
| `AttemptLimiterProofs` | OneList, WithinCapacity, NothingOutlivesItsWindow, ExactAccounting, OneEngagerPerLockout, LockoutStands, ImplementsBudget | below |
| `MFAProofs` | OneRedemptionPerCode, ShownCodesAreStored, NoReplayWithinEnrollment, ConfirmedStands, TenantGuard | `BatchesAreBacked`: each stored batch of codes, each unconfirmed row and each enrollment under way has used up a secret of its own, so the batches that a bounded supply of secrets allows are never exceeded. `RowIsOwn`, `CallsAreArmed`: a call carries between two repository calls what it read of the member's own row. `LoginsAreRecorded`: until somebody disenrolls, the row's last step is at least that of every login. Redeemed codes are used ones. |
| `PhotoStorageProofs` | OneRowPerContent, RowsHaveBytes, SweepIsComplete | `ReferencesHaveBytes`: not only rows but uploads on their way to a row have their object, unless exposed. `MarkedIsExposed`: whatever a run may still delete is known as exposed to every upload, to the migrator and, after the recheck, to the rows. `SweptSoFar`: an overdue object of a class already listed was referenced, spared, or is still marked. `RowsAreGiven`: ids are given out once. |
| `MembersProofs` | OwnersRemain, RefusalsAreJustified, ImplementsOwned | `Holding`, `SnapshotIsCurrent`, `CommitIsSafe`: a transaction past its lock statement holds its household's key, so its snapshot of that household is current and its verdict still true at the commit. `TargetIsKnown`, `RefusalIsDue`: rows are never deleted, and what made the UPDATE match nothing is still so when the refusal is explained. A collision of keys only makes transactions exclude each other that need not. |
| `PasskeysProofs` | NewestAssertionStands, RevokedKeysFail, LoginAnswersOwner | `RowsAreOwned`, `CallsAreOwned`: row, call and authenticator agree on the member, colliding handles or not. `OvertakenCallsAreOlder`: a call whose UPDATE matched nothing, and is about to be answered as a success, is no newer than the row. An UPDATE whose answer was lost counts like one that was answered. |
| `MigrationsProofs` | NoGaps, RacesAreHarmless, ServedSchemaIsComplete, ImplementsSchema | `PlannersHoldLock`; and then `UpgradeIsCurrent`, `RollbackIsCurrent`: the list made under the session lock is, until it is carried out, exactly what is pending, or the top of what is applied. |
| `ExifScrubProofs` | what ApplicationProofs needs for ScrubRemovesExactlyExif; applyOrientation | below |
| `ApplicationProofs` | NoHybridProfile, SealedKeyIsKept, RestartKeepsConfig, SetupIsNotRepeated, GaugeIsExact, RecordedAsServed, ForwardedIsHonest, TTLIsHonoured, ScrubRemovesExactlyExif; that Scrub is idempotent and its loop ends | below |

**AttemptLimiter** is proved in two layers. `ListsInv == TypeOK /\ TableInv(limiter) /\
LiveIn(limiter)` is about the lists: that looking at list backs suffices needs both
lists ordered (`OrderedIn`), no stamp ahead of `latest` (`StampedIn`) and lists and map
that agree (`OneListIn`); capacity needs `Tracked` to be finite. There are lemmas on
removing from and pushing to a list, one per helper of the source, one per action;
that of `expireLocked`, the only loop, shows that keeping the prefix of each list that
is not over drops exactly the entries that are. With that, each action is shown to
be the action of AttemptBudget it stands for (`LockedIsLook`, `DeniedIsDeny`,
`AdmittedIsAdmit`, `CancelIsTakeBack`, `RefundIsAnonymous`, `ResetIsClear`): the key at the
back of `counting` is a least recently active one, and what is popped is all that has
elapsed. This needs `CleanIn`: a key that is not in the map has the zero entry. The
theorem `BudgetIsImplemented` is the refinement. The accounts are then followed on
AttemptBudget's actions, where there are no lists: `EpochsAreGiven` (an epoch is given
out once, and never 0) and, for each key, `AccountedIn`: the sets of standing and of
engaging reservations are finite and their sizes are the counter and the flag. A
step adds one reservation to an account (`AccountGrows`), takes one away
(`AccountShrinks`: the engager's, and only the engager's, lifts the lockout), waives the
count (`AccountWaived`, the anonymous Refund) or leaves it alone (`AccountFrame`,
`NoAccount`). The theorems are about callers that present non-decreasing times and
cancel or refund an attempt at most once; `limiter_callers` shows what is lost without
the first.

**Application**: `StartupInv` has `FileIsWhole` (the state file is missing, does not parse,
or is one State with a DSN), `SaversAreInSetup`, `ServedAsLoaded` (a serving process's
configuration is what a boot with its environment and this file loads), `SealedKeyIsFiled`
(the one key served with is the one in the file) and `ServedIsReproducible` (what production
has served with was the operator's alone, or came from a file that is still there and that
no handler will write to again). NoHybridProfile then follows from what `Load` computes, by
cases on the environment, and RestartKeepsConfig from the last two: either the environment
decides everything and the file nothing, or both boots read the same file. It is about
production, because dev fills gaps with defaults that a later setup replaces. `RequestsInv` has
`WriterIsRight` (what responseWriter believes is what net/http has sent), `LayersAreRight`
(what each layer leaves as the chain unwinds) and a finite set of counted requests for
the gauge. ForwardedIsHonest holds for paths and forged headers of every length: the
appended part of X-Forwarded-For is the path itself, so scanning from its end finds
the nearest untrusted hop before anything the client wrote. `ProcessIsGone` ties the
components to the process. Application also implements Cache's specification, each
step being a step of the cache or leaving it alone; the proof carries `AppInv`, which is `IInv`
and `ExpiryIsOfItsSet`: the expiry of every entry, in memory, in the directory or still
held by a Set, is the one computed from its own `called` and `ttl` by the adapter that
holds it. TTLIsHonoured follows from it by arithmetic on `\div`, of the cache alone
and of the composed process.

**Members and Migrations** as refinements: the only steps that change what their
abstract specifications see are CreateMember and Commit, and runUp and runDown. A
commit is a guarded change because `CommitIsSafe` holds when it is made, whatever was
committed since its snapshot. A migration that is run is the one after the last
because an upgrade's list is what is pending, above all that is applied, and nothing
is missing below its first; one that is rolled back is the last because a rollback's
list is the top of what is applied.

**ExifScrub**: ScrubRemovesExactlyExif is about photos of every length, and `visits` is
recursive, yet no induction over data is needed. `VisitsDefined` shows that the
recursion has a solution, the intersection of all sets of positions that hold the
first one and, with a marker's, the one behind it; `VisitedIsLeast` is what that
intersection gives. Where a reader of a longer photo comes to is then found by
exhibiting such a set: appending a marker to a sequence that is `whole` adds the
position behind it and no other (`VisitedPastUnit`), and appending what is no marker
adds none (`VisitedAtEnd`). The loop's invariant is `walked`: the bytes read so far are
whole, those kept are whole and have no EXIF segment, and they are what was read
without the EXIF bytes. An iteration reads one marker, which `UnitIsUnique` and
`UnitMoves` make the same in the photo, in the part read and in what is kept, and
appends it to one of the two or to both (`WalkOn`); or it reads none, and then the photo
can be followed to its end exactly if the code says so (`WalkEnds`). `ScrubIsIdempotent`
follows: what is returned is well formed and has nothing left to take out.
`ScrubAdvances` is the measure by which the loop ends. The theorems on applyOrientation hold for every image size: the switch
computes the flips and rotations its comment names (5 to 8 are compositions), no
pixel lands outside the new image, and none on another.

Assumptions, each in the module of its constants: `PolicyAssumption` (threshold, window
and cap positive: NewAttemptLimiter panics otherwise), `CallerAssumption`, and for the
other modules that counts and bounds are naturals, that functions such as `Home`,
`Derive` and `Built` have their types, and that a marker such as `NoProcess` is not one of
the things it stands beside. Five say more. `WizardAssumption`: the setup wizard, which is
the applications', does not accept a form without a DSN; NeedsSetup would otherwise
open it again. `RequestAssumption`: a call's path starts at a client, and an address is
not both a client and a proxy. `StatusAssumption`: handlers write status codes from 100 to
999, outside of which net/http panics. `ApplicationAssumption`: the proxies that
`TRUSTED_PROXIES` can name are among those a path can have. `TextAssumption`: the texts
the code itself sets are texts.

Only model-checked, and why:

* EveryCallReturns: liveness under fairness, outside what the prover decides.
  For stripJPEGExif the step that a proof of termination needs is proved
  (`ScrubAdvances`); for the other loops and retries no liveness is claimed.
* The five counterexamples of section 5, which are behaviours and not theorems.

## 5. Where the code and its comments disagree

Five runs end in a counterexample; each checks one sentence of a comment.

* `limiter_callers`: "It sits in exactly one of the limiter's two recency lists".
  The type asks for non-decreasing times and calls itself safe for concurrent use;
  callers that read the clock before the mutex can satisfy one only by luck. A
  late, older time breaks the order of the lockout list, an ended lockout hides behind
  one that is not over, and Reserve lists the entry a second time.
* `mfa_replay`: "the SAME code can never be replayed for a second login". True
  while nobody disenrolls (NoReplayWithinEnrollment). RecordLoginStep names the member
  and not the enrollment, so a login that has validated an older enrollment's code
  can record it on the next enrollment's row.
* `mfa_stale_confirm`: a secret is confirmed only after one of its codes was
  submitted. A BeginEnrollment between the validation and the confirmation
  replaces the secret, and the new one is confirmed unproven.
* `photo_reap`: only objects older than the grace window are deleted. The age is
  that of the listing; an upload that writes the object anew afterwards, and whose
  row is not there at the recheck, loses it.
* `passkey_deactivation`: deactivating a member cuts login. Passkey logins do not
  read `active`.

## 6. Not modelled

* *Password login*: one SELECT and a comparison, with no state and no second step;
  the race it has with a deactivation is shown for passkeys. *Households*: one INSERT
  and one SELECT. *Sessions*: the configuration of a third-party manager.
* *Crypto*, *recovery code generation*, *QR codes*, *rendering and UI*: wrappers of
  libraries, random text and presentation. Nothing here is about timing side
  channels or cryptographic strength.
* *TOTP*'s window search, *photo validation*'s decoder and the reading of EXIF tags:
  MFA and ExifScrub take their results as given.
* *Test database provisioning*: test support.
* *Configuration* of e-mail, SMS, S3, TLS, schemas and the cache directory, and the
  `.env` file: read once, combined with nothing else.
* *HTTP*: request ids, the Content-Security-Policy, static files, and the timeouts
  (a timed-out request's context is cancelled, and the handler still returns, panics
  or aborts through the modelled chain).

Inside the modelled parts: display names and nicknames, timestamps nobody compares,
log lines, presigned URLs and DryRun (no state changes), the temporary file of
LocalPhotoStore, file permissions of the state file beyond a failing Chmod, and a
rollback of migrations under a serving application (it happens in the model, and
ServedSchemaIsComplete excludes the processes under which it did). The fault model is that of processes: they
crash, statements and answers are lost. Loss of power (unsynced pages), clocks that
are set back and a session lock behind a transaction pooler are outside it.

## 7. Plan

Done: AttemptLimiter, Members and Migrations with their abstract specifications and
the refinements; MFA, PhotoStorage, Passkeys; Startup, Cache, Requests and ExifScrub
with their composition; proofs of every safety property.

What could follow: TOTP's window search (Validate and MatchStep over the skew) as
operators, with the theorem that a code matches at most one step of the window; an
abstract specification of the photo store (rows whose bytes are there) outside the
window that `photo_reap` shows; and the operator's rollback under a serving
application, once the code has a defence against it to model.
