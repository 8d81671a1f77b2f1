# TLA+ models of api-security-sdk

The SDK is a set of Go packages that a web service puts in front of its
handlers: tokens, API keys, signed requests, rate limits, role- and
attribute-based access control, CORS and security headers, and an audit trail.
Each package is called by many goroutines at once and keeps its state in small
in-memory stores with their own mutexes. What can go wrong is mostly
*between* the locks: a call reads under one lock, lets it go, and acts on what
it has read.

This directory holds TLA+ models of those packages, TLC configurations that
check them on small instances, and TLAPS proofs for every instance.
`PROJECT.json` lists the components, runs, mutants, the source lines behind
every definition, findings, hazards and theorems.

## 1. Inventory

| component | state | operations | what is hard about it |
|---|---|---|---|
| `auth/jwt` | options (fixed), blacklist | Sign, Verify, Refresh, Revoke | Verify parses first and asks the blacklist later; Refresh is verify, revoke, sign in three steps; times are cut to whole seconds; the blacklist may be remote and fail |
| `auth/jwks` | key cache, `fetchAt`, `lastRefreshAt` | KeyFunc, Preload | the guard is read under the lock and the fetch is made outside it; answers are installed in any order; outages |
| `ratelimit` | buckets per key, two counters each | the middleware, Inc, Reset | bucket lookup, clock reading and counting are three steps; floating-point weights; limiters that share a store |
| `apikey` | records by ID, IDs by hash | Issue, Verify, Revoke, middleware | two critical sections per lookup; IDs are truncated hashes |
| `rbac` | roles, assignments | Can, Enforce, Require, AddRole, RemoveRole, AssignRole, UnassignRole | one lock per role visited; cyclic inheritance; the visit limit |
| `abac` | policies | Evaluate, Require, AddPolicy, RemovePolicy, conditions | order of a map iteration; claims change their Go types in a token |
| `auth/middleware` | request context | JWT, Optional, RequireAuth | the token is verified once; rights change between two guards of one request |
| `ginmw` | gin's context, keys and values | JWT with its options, six guards | the guards read values that an earlier middleware may not have set; RequireRole asks the store once per role |
| `audit` | the sinks | Middleware, JSONLogger, MultiLogger, DBLogger, Recent | one sink of several failing; an encoder that stays broken; the status recorder; insertion order |
| `reqsign` | none | SigningTransport, Middleware | clocks that differ, seconds against finer times, delay, alteration, repetition |
| `otp` | none | GenerateAt, VerifyWithOptions | steps around an unsigned counter |
| `cors` | none; browsers and caches remember its answers | newHandler | preflight caches, `Vary`, redeployment |
| `secureheaders` | none | New | must act before the handler sends |
| `passwdpolicy` | none | Validate, EstimateStrength | case analysis over one string |
| `crypto` | none | hashing, key parsing, random tokens | wrappers of the standard library |

Interactions: `auth/middleware` calls `jwt.Service.Verify` and puts the claims
into the request context; `rbac.Require` and `abac.Require` read them there and
ask their store; `jwt.WithJWKS` takes `jwks.Source.KeyFunc` as its key
function; `ratelimit.BySubject` keys on the subject; `audit.Middleware` puts
its logger into the context, where handlers find it. There are no callbacks
into the packages and nothing is persisted, so a restart only empties the
stores. Concurrency is that of `net/http`: one goroutine per request, and
administrative calls from anywhere.

What makes each component correct:

* credentials (`jwt`, `apikey`): a check accepts only what was live when it
  began, rejects only what is dead when it answers, and revocation is final;
* `jwks`: a withdrawn key dies out within a known time, and the cache catches
  up with the provider;
* `ratelimit`: a window's cap holds, and who is quiet for a window of the bucket is
  served;
* `rbac`: a decision that overlaps with changes is still one that the store at
  its start justifies, unless rights were added (for a grant) or removed (for a
  denial) meanwhile; every check ends;
* `abac`: the matching policies of the highest priority decide, wherever they agree;
* chains of guards (`auth/middleware`, `ginmw`): who is served had, during the
  request, what every guard asks for, and who is refused lacked it;
* `audit`: a failing sink costs the others nothing, a wrapped request leaves the
  verdict the client got, and the trail read back is what reached the sink;
* `reqsign`, `otp`: exactly the genuine and timely is accepted, up to the second
  (the step) lost in rounding;
* `cors`, `secureheaders`: pages read what the configuration permits and nothing
  else, through caches and across a redeployment, in hardened responses.

## 2. Modules

| module | models | main state |
|---|---|---|
| `CredentialCheck` | abstract: what a credential service promises | `live`, `revoked`, `checks` |
| `JWTOptions` | `auth/jwt/options.go`, `New` | none (pure) |
| `JWTService` | `auth/jwt/jwt.go`, `blacklist.go` | `opts`, `now`, `blacklist`, `minted`, `calls` |
| `JWKSSource` | `auth/jwks/jwks.go` | `keys`, `fetchAge`, `refreshAge`, `calls`, the provider's `version` and `healthy` |
| `RateLimiter` | `ratelimit/ratelimit.go`, `store.go` | `buckets`, `heap`, `reqs` |
| `APIKeys` | `apikey/apikey.go`, `store.go` | `byID`, `byH`, `calls` |
| `RBAC` | `rbac/*.go` | `roles`, `subjects`, `checks` |
| `ABAC` | `abac/abac.go`, `store.go` | `policies`, `evals` |
| `ABACRequire` | `abac/types.go`, `middleware.go` | none; instantiates ABAC's requests and conditions |
| `Pipeline` | `auth/middleware/*.go`, `ginmw/middleware.go`, `rbac/middleware.go`, `abac/middleware.go`, routes of `examples` | `live`, `assigned`, `reqs` |
| `Audit` | `audit/audit.go`, `dblogger.go` | `reqs`, `lines`, `encErr`, `tables` |
| `TimeWindows` | `reqsign/reqsign.go`, `otp/totp.go` | `now`, `net`, `srv` |
| `CORS` | `cors/cors.go`, `secureheaders/secureheaders.go` | `cfg`, `at`, `res`, the browser's `preflights`, the cache's `edge` |
| `MC*` | instances for TLC | |
| `JWTProofs`, `JWKSProofs`, `RateLimiterProofs`, `APIKeysProofs`, `PipelineProofs`, `TimeWindowsProofs` | proofs about the module of that name | |
| `AccessProofs` | proofs about `RBAC`, and about `ABAC` and `ABACRequire` | |
| `HTTPProofs` | proofs about `CORS` and about `Audit` | |

Conventions. A goroutine `p` in a call is a record `calls[p]` (`reqs`,
`checks`, `evals`) whose field `pc` says after which step of the code it
stands. A step is one critical section, or one effect visible to others; a call
with one effect is one action. Fields and variables named *history* are read by
properties only and never by a guard. Definitions marked *Mutant* are faulty
variants, used to see that a property notices them; no specification uses them.

**JWTService.** A token is the record of what its string encodes; two tokens
are the same string exactly when the records are equal. HMAC and RSA (PKCS #1
v1.5) signatures are functions of the content, ECDSA ones carry a nonce that is
drawn once. `NumericDate` cuts times to the second, with `TicksPerSecond` ticks
to a second. `Parse` is `ParseWithClaims` and `mapJWTError`, in the library's
order (method, signature, expiry, not-before); `CheckBlacklist` is the
revocation test and fails closed; `RefreshRevoke` drops the error as the code
does; `RefreshSign` and `Sign` share `SignStep`. With `FallibleBlacklist` every
blacklist call may return an error, and a failing `Revoke` may or may not have
stored the token. The issuer is copied into tokens and never checked, as in the
code.

**JWKSSource.** Times are ages that saturate just above the largest value the
code tells apart, so the state space is finite without bounding the clock. A
call is split at: first lookup, guard, request served by the provider, answer
installed, second lookup. `Serve` fixes the document, `Install` writes it, so
answers may overtake each other. The client's timeout ends with the body of the answer;
`InstallDelay` bounds what comes on top, the loop over the entries and the wait for the
scheduler and for the lock. `FetchFails` stands for every error path of
`fetch` (network, status, decoding). `ParseJWKS` is the loop over the document:
entries for encryption and undecodable ones are skipped, and the last entry for
a kid wins. The empty kid yields whichever key the map iteration meets first.

**RateLimiter.** `heap` holds the bucket structs and `buckets` the map, so
`Reset` drops a pointer others still hold. `Rotated` and `Estimates` are
`bucket.inc`: the weight comes from the time elapsed *before* the rotation. The
floating-point product can fall just short of an integer, in which case
truncation yields one less: `Weighted` is the set of both results. `hist` is
history: for `SlidingCap` it keeps, per clock reading, how many requests were
admitted up to then, leaving out those that a rotation had overtaken.

**APIKeys.** A plaintext stands for its SHA-256 (taken as injective). `IdOf`,
the first 16 digits, need not be injective. `FindHash` and `ReadKey` are the
two critical sections of `GetByHash`, and `Decide` is the rest of `Verify`.

**RBAC.** `roleHasPermission` is a depth-first search; its stack is the
sequence `todo`. One `Visit` is one call of it, with one `GetRole`.
Administrators act between visits. `grew` and `shrank` record whether a right
was added or withdrawn during a check.

**ABAC.** `SortedSlices` is the set of slices `Policies` may return: sorted by
priority, ties in the order of a map iteration. A store that fails leaves the
default, Allow too with `WithDefaultAllow` (`abac.go:57-58`); `failed` marks such an
evaluation. `ABACRequire` builds requests as
`Require` does, from claims that have gone through JSON (`Decoded`), and gives
the built-in conditions as terms. `Holds` says what one term says, given what the
terms it combines say; `RequireAssumption` ties `Applies` to it. `MCABAC`
evaluates the terms from the inside out, and TLC checks that the assumption
holds of the result.

**Pipeline** composes the packages as a service does. A route is a sequence of
middlewares; `reqs[p].i` is the one the request stands at, and each has an
action of its own, which forwards (with claims and extracted values in the
context) or answers. Token verification and `Can` are single steps here, since
JWTService and RBAC take them apart and prove what a step may assume: a token is
judged by what was live, a permission by what was in force, during the call.
`Verify` does not fail for want of a blacklist or of a key provider here, and `Can` not
for want of its store. A route is one of net/http or one of gin, so one field serves for
the request's context and for gin's keys.
Logins, logouts, expiry and changes of roles fall between two middlewares, or
between two `HasRole` of gin's RequireRole. A claim is a Go kind and its
strings, as JSON decodes it. `began`, `after` and `seen` are history: what was
live, logged out and assigned since the request came.

**Audit.** A request is wrapped by nothing, by the injecting middleware, or by
the one that logs verdicts itself. `MultiLogger.Log` is a loop over `k` with one
step per sink, so that two goroutines interleave in it. The status recorder overrides
WriteHeader and not `Write`, so a body that is written first sends 200 unrecorded; `late`
marks requests in which a WriteHeader came after something had been sent. `json.Encoder` keeps its
first write error (`encErr`); `Insert` may fail, also because the client has
gone, and then the row may be stored all the same. `saved` is history: what has reached a
sink. `RowOf` and `EventOf` are the conversions between an event and its row:
empty strings and NULL, and a Meta that JSON cannot hold. `NewDBLogger` applies
the options in order. `Recent` is the set of answers the query may give, since
rows of equal timestamps come in any order.

**TimeWindows.** A signature is the record of what went into the HMAC. The
sender's clock is at most `MaxDrift` off the verifier's. A message in `net` may
be delivered any number of times and at any later time, and be altered; `first` marks a
first delivery. The
middleware is split where time passes: headers and timestamp, then body and
signature. The codes of `otp` are the counter and the number of digits they are
made of; `CodesLiveTheirWindow` quantifies over all moments at which a code can
have been read.

**CORS.** The chain is that of the integration guide: CORS, security headers,
authentication, handler. `newHandler` normalises the configuration, `CORS`
is the middleware it builds. What CORS achieves happens elsewhere, so the
browser (Fetch's preflight and CORS checks, its preflight cache) and a shared
cache that honours `Vary` are modelled too; they are not code of the repository,
and are marked external. An origin is a name and a spelling. A header's value is
where it comes from: an outer layer, the chain, or the handler.

## 3. Runs

Passing runs:

| run | checks | shows |
|---|---|---|
| `jwt_local` | `TypeOK`, `AcceptedWasLive`, `RefreshRetiresOld`, `ReturnedIsUsable`, `ImplementsCheck` | two goroutines over an in-memory blacklist (ECDSA; RSA without a blacklist; no algorithm at all): nothing dead is accepted, a refreshed token is dead and its successor is usable, and JWTService implements CredentialCheck |
| `jwks_rotation` | `TypeOK`, `RetiredKeysDieOut`, `CacheConverges` | with overtaking answers and an outage, a withdrawn key is returned for at most `cacheTTL` plus one HTTP timeout and the delay of an installation, and the cache comes to hold the last document for good |
| `ratelimit_interleaved` | `TypeOK`, `WindowCap`, `SlidingCap`, `QuietClientAdmitted` | two goroutines, two limiters with different windows on one store, Reset and a failing store: the cap of a window holds, an interval of one window admits at most twice the limit (of the requests that no rotation overtook), and who is quiet for one window of the bucket is served |
| `apikey_colliding` | `TypeOK`, `AcceptedIsPresented`, `IssuedKeyWorks`, `ImplementsCheck` | two keys with one ID: nobody is given another key's identity, and a key is lost only to the collision |
| `rbac_can` | `TypeOK`, `GrantIsJustified`, `DenialIsJustified`, `CanTerminates` | checks against concurrent administration, with forks and cycles of roles |
| `abac_decide` | `ABACTypeOK`, `DecisionFollowsPriority`, `OwnershipNeedsASubject` | decisions against concurrent administration, with a catch-all, replacement and a store that may fail, for the policies of the example program and for tied ones (who wins a tie that disagrees is left open) |
| `pipeline_guards` | `TypeOK`, `ServedIsEntitled`, `RefusalIsJustified` | ten routes of net/http and gin guards, in any order that `RouteAssumption` (section 4) admits, with tokens that lack a subject or carry claims of other types: a handler runs only for who had what each guard asks for during the request, and nobody who has it all the while is refused |
| `audit_sinks` | `AuditTypeOK`, `SinksFailAlone`, `VerdictOnRecord`, `RecentIsTheTrail` | two goroutines over a JSON sink and two SQL sinks, each failing at any time: failures stay with their sink, the verdict on record is the client's unless WriteHeader came too late, and `Recent` is the newest of what reached the sink |
| `timewindows_clocks` | `TypeOK`, `HandledWasSigned`, `TimelyIsHandled`, `CodesLiveTheirWindow` | handled requests are genuine and their clock readings within the window plus a second; genuine ones within the window less a second are handled when they first arrive; a code is accepted for Skew steps on either side and never for Skew + 1 |
| `cors_pages` | `TypeOK`, `ReadWasPermitted`, `RefusedWasForbidden`, `HandledWasPermitted`, `ResponsesAreHardened` | pages of two origins and the site's own, four configurations (none combines a wildcard with credentials), one redeployment: reads are permitted, refusals are not accidents of spelling, authentication or caching, a withdrawn permission ends with its Max-Age, and every response behind CORS has the configured headers and none of those to be removed |

Runs in which the code departs from what a comment, a document or an example
says (TLC finds a counterexample; details under `findings`):

| run | property | what happens |
|---|---|---|
| `jwt_same_second` | `ReturnedIsUsable` | with HMAC (or RSA) Refresh in the second of the signing returns the string it has just revoked |
| `jwks_spaced_concurrent` | `FetchesSpaced` | two misses pass the guard together and both fetch |

Further departures that the models contain, without a run of their own:

* Refresh drops the error of `Blacklist.Revoke` (`jwt.go:131`), so with
  `FallibleBlacklist` two tokens can be live; `RefreshRetires` below assumes a
  blacklist that does not fail.
* `lastRefreshAt` is set by successful fetches only (`jwks.go:214`): during an
  outage every miss fetches.
* A call can be refused, or report `ErrKIDNotFound`, for a key that another call
  has just cached, or that it has itself fetched and an older answer has
  overwritten (`jwks.go:133-142`).
* The request that opens a window is estimated with the weight of the old one
  (`store.go:68`), not by the formula in the comment of `bucket`.
* Limiters on one store count each other's requests, in the window of the first
  (`store.go:75`).
* `Retry-After` is the window of the limiter that refuses, cut to whole seconds
  (`ratelimit.go:63`). It is shorter than the bucket's window if another limiter made
  the bucket, and 0 for a window below a second: who waits that long may be refused
  again. `QuietClientAdmitted` speaks of the bucket's window.
* `rbac.go:77` limits the roles visited, not the levels of inheritance;
  `DenialIsJustified` is stated for stores below that limit.
* A clock reading taken before the wait for the bucket's lock may be older than
  the window: the weight of the previous window is then above 1 and a client
  within the limit gets a 429 (`ratelimit/store.go:83`).
* Such a late request is counted in a window it was not timed in, and each window
  admits up to its limit of them. By clock readings, then, an interval as long as
  the window can hold any number of admitted requests; `SlidingCap` leaves the late
  ones out. With them it fails from a limit of 3 on: two late requests each
  in the windows at 2 and 4, read at 0, on top of three at 0 make seven.
* `abac/store.go:58` says that ties of priority keep the insertion order, and
  `abac/types.go:9` that Deny takes precedence in one; the policies come from a map
  (`abac/store.go:55`) in any order, and Allow may win. `DecisionFollowsPriority` says
  nothing of ties that disagree.
* A policy store that fails yields the default effect with no error; with
  `WithDefaultAllow` the request is let in (`abac.go:57-58`).
* `ginmw.RequireCustomClaimNot` passes a request that lacks the claim, as documented
  (`ginmw/middleware.go:267`). In front of the authentication, or behind one without an
  extractor, it lets everybody pass; `RouteAssumption` excludes such routes.
* Roles in a token decode to `[]any`, which `SubjectHasRole` does not read
  (`abac/types.go:125`): the policy "Admins can do anything"
  (`examples/advanced/main.go:50`) never matches.
* gin's RequireRole asks for one role at a time (`ginmw/middleware.go:173`): a
  subject moved from one listed role to another meanwhile is refused though it
  held one of them at every moment. `RefusalIsJustified` allows this.
* The audit recorder keeps the last WriteHeader, net/http sends the first
  (`audit/audit.go:269`). Nor does it see the 200 that a first `Write` sends
  (`audit.go:264-272`): after a body and then WriteHeader(500) the event says "deny" and
  the client has 200. `VerdictOnRecord` is stated for handlers that call WriteHeader, if
  at all, once and first. A handler that panics leaves no event (`audit.go:235`), and the
  insert of a request whose client has gone is cancelled with it.
* One failed write silences a JSON sink for good: `json.Encoder` keeps the error.
* A signed request that is delivered twice within the window is handled twice,
  where `README.md:766` promises 401 for replayed requests: nothing is remembered
  (`reqsign/reqsign.go:169`). `TimelyIsHandled` is about first deliveries. One-time
  codes can be used again likewise.
* The body is read after the timestamp check (`reqsign.go:176`), so a request may
  reach its handler any time later; `HandledWasSigned` measures the check.
* A wildcard origin with credentials is accepted and reflects any origin
  (`cors.go:155,172`), where the package comment promises never to do so and to reject
  such requests (`cors.go:5,8`); `cors.go:54` forbids the combination, and
  `CORSAssumption` excludes it.
* `secureheaders` removes Server and X-Powered-By before it calls the handler
  (`secureheaders.go:131-134`), so one that the handler sets is sent, where
  `secureheaders.go:83-87,103` and `INTEGRATION.md:890` say it is stripped.
  `HeaderAssumption` has handlers that set neither.
* Preflights are answered before the security headers are set.

### Bounds

* Two goroutines are enough for each race the code has: every shared step
  involves one reader and one writer. `rbac_can` and `abac_decide` use one
  checking goroutine because checks only read; their other actor is the
  administrator, whose steps need no goroutine of their own. `pipeline_guards`
  has one request for the same reason: `Expire` does to it what another request's
  logout would. `timewindows_clocks` has one because requests share nothing.
* JWT: two ticks to a second and `MaxTime = 3` let calls fall into the same
  second, into the next one, and past an expiry of one second. `Nonces` bounds
  the ECDSA tokens; `NonceLeft` stops *starting* calls that would need one, so
  a running call is never cut short. `jwt_local` has few algorithms because the
  abstract specification ranges over all tokens. It has no failing blacklist;
  `NothingDeadAccepted` is proved with one.
* JWKS: one rotation between two documents with `HTTPTimeout = 1` and
  `InstallDelay = 1` lets an answer be a whole timeout old when its body is read and
  older when it is installed; `CacheTTL = 2` separates fresh,
  ageing and expired. The documents hold entries for encryption, entries that do
  not decode, and a kid listed twice. The clock has no bound.
* Rate limiter: `MaxTime = 4` covers two windows of two ticks, so that each case
  of the rotation occurs; four requests exceed twice the limit of 1. Goroutines
  and bucket addresses are interchangeable (`SYMMETRY`): no action names one.
* API keys: two keys that share an ID, with and without expiry.
* RBAC: three roles allow chains, forks and cycles; `VisitLimit = 2` makes the
  guard bite exactly at the number of roles.
* ABAC: priorities tie, differ, and change by replacement.
* Pipeline: two roles of which one grants less than the other, so that a change
  of role matters to some guards and not to others; four tokens, one forged.
* Audit: two events between two goroutines; `Room` keeps back the event that a
  wrapped request ends with, so the bound never cuts a request short. One tick of
  the clock separates events and lets insertions overtake. One WriteHeader per request,
  before or after a Write. Requests that no middleware wraps find a logger that does
  nothing; they are left to the theorems. Goroutines are interchangeable (`SYMMETRY`).
* TimeWindows: one signed request, altered once; two ticks to a second and a
  window of 3, so that the window's edge is not on a second; `MaxTime = 13` is
  past the last moment at which anything is accepted. `CounterMod` is 2^64 in the
  code; 64 keeps it far from the times, and the wrap below 0 occurs.
* CORS: Max-Ages of 0, 500, 1500 and the default (2 s for the code's 5 minutes)
  fall below, between and above whole seconds; three seconds see them expire.
  Exchanges take no time against a second. One redeployment, between any two
  exchanges, so also between a preflight and its request.

### Fairness

* `JWKSSource!FairSpec`: goroutines that are in a call run (the Go scheduler,
  and the HTTP timeout for an exchange), the clock advances, and tokens, of
  whatever kid, keep arriving. No fairness for any particular kid, for `Preload`,
  or for the provider's recovery or rotation: `CacheConverges` has those as its
  premise. It claims convergence of the cache and not that each call is
  answered, since a call may lose its race any number of times.
* `RBAC!FairSpec`: a goroutine inside `Can` runs. Administrators and clients owe
  nothing and may go on changing the store for ever.

Deadlock is checked in all runs.

## 4. Proofs

TLAPS checks the following for all values of the constants that satisfy the
named assumptions, so for any number of goroutines, keys, roles, policies,
documents, limiters, routes and configurations. The assumptions
(`ServiceAssumption`, `SourceAssumption`, `LimiterAssumption`, `KeyAssumption`,
`RBACAssumption`, `ABACAssumption`, `RequireAssumption`, `PipelineAssumption`,
`RouteAssumption`, `WindowAssumption`, `CORSAssumption`, `HeaderAssumption`,
`AuditAssumption`) type the constants and keep the model
values that stand for "none" apart from the others; TLC evaluates each of them in
the runs. Those that say more:

* `LimiterAssumption`: limits and windows are positive, and there is a limiter and
  a key.
* `RequireAssumption`: the conditions that a combinator combines are conditions
  themselves, and each applies to the requests of which it holds.
* `RouteAssumption`: in front of gin's guards on claims stand no authenticators but
  `ginmw.JWT` with an extractor, as the package's documentation wires them, and they
  ask for the two values that extractor sets (`user_id`, one string if it is one, and
  `user_role`). `RequireCustomClaimNot` has such a `ginmw.JWT` in front of it; every
  other guard may come before any authenticator. A chain is net/http's or gin's
  throughout. The logout handler stands behind
  `authmw.JWT`, as in the example.
* `WindowAssumption`: the clocks' drift is below the bound on time, and the
  counter's modulus above any counter a clock shows (2^64 in the code).
* `CORSAssumption`: ages are not negative, no configuration combines a wildcard origin
  with credentials, and no page sets the header Origin itself.
* `HeaderAssumption`: secureheaders sets the headers it knows, which are none of the two
  that it can remove, and handlers do not set those two.
* `AuditAssumption`: handlers send statuses from 200 to 999 (net/http accepts those of
  three digits, and those below 200 are not the answer yet); the tables that the statements name exist, and no two SQL sinks insert
  into the same one; SQL's NULL is no string.

`AccessProofs` and `HTTPProofs` each extend two components. `ABAC` and `Audit` therefore
name their specifications apart (`ABACSpec`, `AuditSpec`, and so on).

**JWTProofs**

* `TypeCorrect`: `Spec => []TypeOK`.
* `NothingDeadAccepted`: `Spec => []AcceptedWasLive`, also over a failing
  blacklist and with an external key function.
* `RefreshRetires`: `Spec => []RefreshRetiresOld` when the blacklist does not
  fail (it is needed: Refresh drops the error of Revoke).
* `Implementation`: `Spec => ImplementsCheck` for configured keys and a blacklist
  that does not fail. Either may otherwise refuse a live token, which
  CredentialCheck forbids.
* `ReturnedUsable`: `Spec => ReturnedIsUsable`, an action property, if every
  configuration is `Usable`: its keys match, it has no external key function, its
  tokens live for a second or more, and over a blacklist it signs with ECDSA. The
  run `jwt_same_second` shows why the last is needed; the others are what a
  configuration that can verify its own tokens has.

`AcceptedWasLive` is not inductive: the verdict is given in `CheckBlacklist`, a
step after `wasLive` was recorded. The invariant `Inv` says of every call that
has parsed but has not asked the blacklist: *if its token is not on the
blacklist now, it was acceptable when the call began*. It survives the steps of
others because the blacklist only grows. `ListInv` says that a service without
a blacklist keeps the set empty. For `RefreshRetires`, `RetiredInv` adds that a
refresh past its revocation has its token on the blacklist. `Implementation`
maps `live` to the acceptable known tokens, and shows each step to be one of
`CheckAtOnce`, `Begin`, `Accept`, `Reject`, `Revoke`, `Finish`, `Drift`, or a
stuttering step. `ReturnedUsable` rests on `ListedKnown`: only tokens that clients
hold are on the blacklist or on their way there, so a signature with a fresh nonce
is on none (`SignedAcceptable`), and no other step returns a token
(`OnlySignReturns`).

**JWKSProofs**

* `TypeCorrect` and `KeysDieOut` (`Spec => []RetiredKeysDieOut`).

A call returns what is in the cache, so the invariant bounds the absence of every
cached key by the age of the cache plus `AnswerBound`, the timeout and the delay of an
installation (`CacheFresh`, while the cache
may be used at all). Answers are installed in any order; `AnswerFresh` bounds the
absence of the keys of an answer under way by the time its exchange has taken,
and `Published` says that the keys of the current document are not absent.
`DocumentKeys` types what the loop of `fetch` reads from any document.

**RateLimiterProofs**

* `TypeCorrect`, `WindowCapHolds` (`Spec => []WindowCap`), `QuietClientsServed`
  (`Spec => []QuietClientAdmitted`) and `SlidingCapHolds` (`Spec => []SlidingCap`).

`BucketOK` relates a bucket to its history: the admitted of a window are among the
counted, a bucket nothing was counted in is empty, and a window began no later
than the last request counted in it. `RequestOK` keeps what a request relies on
between its steps: it still holds a bucket that exists, and read the clock after
the bucket was made. Of `bucket.inc`, `RotatedBucket` says what a rotation leaves
and `EstimateBound` that the estimate is at least the counter of the current
window, and exactly 1 for a request that rotates or finds the bucket empty. So
who is admitted is within the limit, and who is refused was not alone.

For `SlidingCapHolds` the invariant has `SlidingOK`, about the tally of admitted
requests by clock reading: of those timed in the current window there are no more than
the window has admitted, none is timed after it, and the interval of one window's
length that ends where it begins holds no more than a limit. An interval meets at most
that one and the current window, hence twice. A rotation moves the window by its
length or more, so what was the current window becomes the interval before
(`SlidingStep`, in plain integers). The tally is cumulative because a sum over an
interval would need induction; the difference of two entries is that sum.

**APIKeysProofs**

* `TypeCorrect`, `NoConfusion` (`Spec => []AcceptedIsPresented`) and
  `Implementation` (`Spec => ImplementsCheck`), with no assumption that IDs are
  distinct.
* `IssuedKeysWork`: `Spec => []IssuedKeyWorks`.

The invariant relates the two indexes and the history: the hash index is
exactly the issued keys (`Indexed`), a stored record is a copy of the one issued
for its hash but for the revocation mark (`Faithful`), and revoked keys are
marked wherever they are still stored (`RevokedMarked`). A call between its two
lookups (`CallOK`) holds the ID of the presented hash; if the record there would
be accepted now, the key was live when the call began. This holds though
another key may take the place of the record, because a displaced record never
comes back. For `IssuedKeysWork`, `WorksInv` follows the keys that are *not*
accepted: a record is overwritten but never removed (`Kept`), marked only by
`Revoke` (`MarkRevoked`), and the reason for a refusal stays one (`ExcusedStays`).

**AccessProofs**, about RBAC

* `TypeCorrect`: `Spec => []TypeOK`, with the absence of duplicate assignments.
* `GrantsJustified` and `DenialsJustified`: `Spec => []GrantIsJustified` and
  `Spec => []DenialIsJustified`, for every inheritance graph.

The two properties speak of finished checks; the invariant speaks of the search
(`Seen`: the roles visited or still to be visited). `StaysInside`: while nothing
was granted, every role is within what it was when the check began, and `Seen`
stays within the roles inherited then. `LeavesNothingOut`: while nothing was
withdrawn, `Seen` contains the roots and the parents of every visited role, and
no visited role granted the query. When the search runs out, the visited set is
closed under parents, so it holds every inherited role. The visit limit enters
in `SkipsVisited`: with at most `VisitLimit + 1` roles, a search that exceeds the
limit has visited all of them.

**AccessProofs**, about ABAC

* `ABACTypeCorrect` and `HighestPriorityDecides` (`ABACSpec => []DecisionFollowsPriority`).
* `OwnersAreKnown` (`ABACSpec => []OwnershipNeedsASubject`), for every set of terms
  built from the conditions of `types.go`.

The invariant says of every evaluation that its slice holds the policies of its
snapshot once each in descending priority. Then the first policy that matches
is one of highest priority among those that match (`FirstHitDecides`), and its effect
theirs if they agree, however
the sort orders equal priorities and whatever happens to the store meanwhile.
`OwnersAreKnown` adds what a condition says that holds: a conjunction, that its
parts hold (`HeldConditions`), and OwnerIsSubject of a request without a subject,
nothing (`NobodyOwns`).

**PipelineProofs**

* `TypeCorrect`, `ServedEntitled` (`Spec => []ServedIsEntitled`) and
  `RefusedForReason` (`Spec => []RefusalIsJustified`).

Per request the invariant has six parts. `HistoryOK`: what is live and assigned now
is in the history of the request. `PassedOK`: every guard behind it was right to
let it pass. `ContextOK`: the context holds the token that was proven, and does so
as long as that is good. `ValuesOK`: the values beside it were extracted from that
token. `LoopOK`: in the middle of gin's RequireRole, each role tried was not held
when it was tried. `AnsweredOK`: an answer had its reason. Middlewares may look for
the token in different places, but find the same one (`OneToken`, `ProvenOne`);
and since the history only grows, neither a right to pass nor a reason to refuse
is lost by what happens later (`EntitledKept`, `MayRefuseKept`). Each middleware has
a lemma of its own.

**TimeWindowsProofs**

* `TypeCorrect`, `HandledTheorem` (`Spec => []HandledWasSigned`) and `TimelyTheorem`
  (`Spec => []TimelyIsHandled`), for any number of requests, alterations,
  deliveries and goroutines, any drift and any window.
* `CodesTheorem` (`Spec => []CodesLiveTheirWindow`), for every period and skew.

`Inv` says where signatures come from: whatever is in transit or being verified
and bears a signature under the secret bears one that the sender made
(`Genuine`), since alterations replace signatures only by others'. A request past
the timestamp check carries in `at` a reading within the window of its own
timestamp (`Recent`); one that was refused is not as it was signed, or was not
recent. With `UnixBounds` (a timestamp is at most, and less than a second below,
the reading it was cut from) the two theorems follow. `ClockInv` adds that no
check was made in the future.

`CodesTheorem` is arithmetic. `AcceptedIs`: a code is accepted exactly if its period
is at most Skew from the clock's, since a counter that wraps below the epoch is none
that a clock shows (`CounterWraps`). `PeriodsApart` translates periods into times:
within n steps means within n periods, and within n periods less than n + 1 steps.

**HTTPProofs**, about CORS

* `CORSTypeCorrect`, `ReadsArePermitted` (`Spec => []ReadWasPermitted`),
  `RefusalsAreForbidden` (`Spec => []RefusedWasForbidden`), `HandledIsPermitted`
  (`Spec => []HandledWasPermitted`) and `ResponsesHardened`
  (`Spec => []ResponsesAreHardened`), for all configurations, requests, Max-Ages and
  any number of deployments.

`Answers` and `Permits` say what the middleware answers as a function of the
configuration. The invariant carries this through whoever remembers it. `Answered`: what
is on its way back is what the configuration in force answers to the page's origin.
`PreflightsInForce` and `EdgeInForce`: an entry of either cache is the answer of some
configuration, and expires no later than its age after that one was last in force
(`StoredUnder`), which outlives deployments and the clock (`StoredPersists`).
`SentIsPermitted`: a request that needs a preflight is under way only if it was permitted
so recently. `Hardened`: between the security headers and the handler the map is exactly
as configured. `JudgedRightly` makes the two verdicts part of the invariant, since they
speak of the last exchange. Entries of the shared cache serve one origin only because every
answer has `Vary: Origin` (`Varying`), refusals too.

**HTTPProofs**, about Audit

* `AuditTypeCorrect`, `SinksAreIndependent` (`AuditSpec => []SinksFailAlone`),
  `VerdictsAreRecorded` (`AuditSpec => []VerdictOnRecord`) and `RecentShowsTheTrail`
  (`AuditSpec => []RecentIsTheTrail`), for any list of sinks with any options, and any number
  of goroutines.

`LoopOK`: when `MultiLogger.Log` is at sink k, each sink before it holds the event or has
failed on it, and `first` is the least of these. It survives the steps of others because
sinks only gain events (`HeldStays`). `RecorderOK`: as long as the handler runs, recorder
and client agree unless a WriteHeader came late; from `Finish` on the event says so.
`TrailOK`: the table of a sink with the SDK's schema holds exactly the rows of the events
that reached it, since no other sink inserts there. `Bounded` counts the requests that
`Room` keeps an event for.

`RecentShowsTheTrail` adds what rows are: a row gives back its event, but for a Meta that
JSON cannot hold (`RowBack`), and two events never share a row (`StoredApart`), so rows and
trail are equally many (`TrailCounts`). An answer lists all rows, once each (`ListsAll`),
so what the limit cuts off comes later in it and is not newer (`AnswerIsTheTrail`, for every
limit, not only the three that TLC tries). That reads go to the table written to, whatever
the options and their order, is `LoggerKept`: the first option to break it would be a least
counterexample, which well-foundedness of the naturals excludes without an induction over
the list.

**Only model-checked**

* `CacheConverges` and `CanTerminates` are liveness, which is out of the prover's
  reach.
* `FetchesSpaced` is false of the code (`jwks_spaced_concurrent`), and
  `ReturnedIsUsable` is proved for usable configurations only, for the reason that
  `jwt_same_second` shows.

## 5. What is left out

* Cryptography is opaque: a signature verifies exactly under its key, hashes do
  not collide, and random draws are fresh.
* Claims other than times and issuer are one value in JWTService.
* HTTP details (bodies of answers, `Retry-After`, error handlers other
  than the default's status) are left out.
* A rate-limit window of 0 is excluded by `LimiterAssumption`; key functions
  (`ByIP`, `BySubject`) are an arbitrary choice of key.
* Memory growth of the blacklist and of the buckets is not a property here: the
  code claims no bound.
* Read-only accessors (`ListBySubject`, `SubjectRoles`, `Ping`, `remoteIP`) have
  no action, nor has `reqsign.VerifyRaw`, which checks a signature without a time.
* `otp`: secrets and backup codes are random strings, `ProvisioningURI` is
  formatting (it advertises the defaults whatever options are used to verify).
* `secureheaders`: the values of headers; an HSTS MaxAge below a second is sent as
  `max-age=0` (`secureheaders.go:146`).

Not modelled at all:

* `passwdpolicy`: a case analysis over one string, with a logarithm for the
  entropy. No state, no order, and no reals in TLC to compare the estimate with.
* `crypto`: wrappers of the standard library without state; what matters in them
  (hashing, constant time, randomness) is opaque to a model.
* The start of the example programs.

## 6. State of the plan

Every component that keeps state, or whose answers others keep, has its module and
its run, and every invariant and action property that a passing run checks is a theorem.
What could still be added:

1. Components without state (`passwdpolicy`, the wrappers of `crypto`), if their
   rules grow beyond a case analysis.
2. A history of handled requests in TimeWindows, once the SDK remembers signatures or
   codes: at present a repetition within the window is handled, and no property is
   stated of it.
3. The liveness properties, with a prover that has fairness.
