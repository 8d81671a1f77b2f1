-------------------------------- MODULE CORS --------------------------------
(***************************************************************************)
(* cors and secureheaders in the chain the integration guide prescribes    *)
(* (CORS outermost, then the security headers, then authentication, then   *)
(* the handler), seen from where they take effect: a browser that asks     *)
(* with preflights, remembers their answers and hides what a page may not  *)
(* read, and a shared cache that selects stored responses by Vary.  The    *)
(* server may be deployed anew with another configuration in between.      *)
(***************************************************************************)
EXTENDS Integers, FiniteSets

CONSTANTS
  Configs,          \* deployments: [cors: cors.Config, secure: secureheaders.Config, guarded]
  Requests,         \* what pages ask for: [origin, method, headers, cred]
  OuterHeaders,     \* sets of headers another layer sets before the chain
  HandlerHeaders,   \* sets of headers a handler may set
  DefaultMaxAge,    \* 5 minutes in the code, in milliseconds
  FreshFor,         \* seconds for which the shared cache may reuse a response
  MaxTime, MaxDeploys    \* bounds

ASSUME CORSAssumption ==
  /\ {DefaultMaxAge, FreshFor, MaxTime, MaxDeploys} \subseteq Nat
  /\ \A c \in Configs : c.cors.maxAge \in Nat /\ c.cors.credentials \in BOOLEAN
  \* Config.AllowCredentials: `Must not be combined with AllowedOrigins containing "*"'; the
  \* code neither checks this nor refuses such requests.
  /\ \A c \in Configs : c.cors.credentials => [name |-> "*", case |-> "lower"] \notin c.cors.origins
  \* Origin is a header that pages cannot set.
  /\ \A r \in Requests : r.cred \in BOOLEAN /\ "Origin" \notin r.headers

VARIABLES
  cfg,          \* the deployment in force
  past,         \* history: [cfg, till] of the ones before
  now,          \* seconds
  req, leg,     \* the page's request and the exchange it is in: "preflight" or "actual"
  at,           \* where that exchange is in the chain
  res,          \* the response's header map; what is sent once at = "sent"
  preflights,   \* the browser's preflight cache
  edge,         \* the shared cache: [cors, origin, until]
  outcome       \* what became of the last request
vars == <<cfg, past, now, req, leg, at, res, preflights, edge, outcome>>

-----------------------------------------------------------------------------
(* cors: newHandler and the two kinds of request.                            *)

\* Origins and header names in two spellings.
ToLower(o) == [o EXCEPT !.case = "lower"]
Wildcard == [name |-> "*", case |-> "lower"]
NoOrigin == [name |-> "", case |-> "lower"]

\* What a Config says of the origin, methods, headers and ages, prepared once.
\* Mutant: the configured age is not looked at.
newHandlerDefaultAge(c) ==
  [wildcardOrigin   |-> Wildcard \in c.origins,
   allowedOrigins   |-> {ToLower(o) : o \in c.origins \ {Wildcard}},
   allowedMethods   |-> IF c.methods = {} THEN {"GET", "HEAD", "POST"} ELSE c.methods,
   allowedHeaders   |-> {"Origin", "Accept", "Content-Type"} \cup c.headers,
   exposedHeaders   |-> c.exposed,
   allowCredentials |-> c.credentials,
   maxAge           |-> DefaultMaxAge \div 1000]
newHandler(c) ==
  [wildcardOrigin   |-> Wildcard \in c.origins,
   allowedOrigins   |-> {ToLower(o) : o \in c.origins \ {Wildcard}},
   allowedMethods   |-> IF c.methods = {} THEN {"GET", "HEAD", "POST"} ELSE c.methods,
   allowedHeaders   |-> IF c.headers = {"*"} THEN {"*"}
                        ELSE {"Origin", "Accept", "Content-Type"} \cup c.headers,
   exposedHeaders   |-> c.exposed,
   allowCredentials |-> c.credentials,
   maxAge           |-> (IF c.maxAge = 0 THEN DefaultMaxAge ELSE c.maxAge) \div 1000]

AllowAll ==
  [origins |-> {Wildcard}, headers |-> {"*"}, exposed |-> {}, credentials |-> FALSE,
   maxAge |-> DefaultMaxAge, methods |-> {"GET", "HEAD", "POST", "PUT", "PATCH", "DELETE", "OPTIONS"}]

h == newHandler(cfg.cors)

originAllowed(origin) ==
  origin # NoOrigin /\ (h.wildcardOrigin \/ ToLower(origin) \in h.allowedOrigins)

allowOrigin(origin) == IF h.wildcardOrigin /\ ~h.allowCredentials THEN Wildcard ELSE origin

NoCORS == [vary |-> {}, origin |-> NoOrigin, credentials |-> FALSE,
           methods |-> {}, headers |-> {}, maxAge |-> 0, exposed |-> {}]

handlePreflight(r) ==
  LET varying == [r EXCEPT !.vary = @ \cup {"Origin", "Access-Control-Request-Method",
                                            "Access-Control-Request-Headers"}] IN
  IF ~originAllowed(req.origin) THEN varying
  ELSE [varying EXCEPT !.origin = allowOrigin(req.origin), !.credentials = h.allowCredentials,
                       !.methods = h.allowedMethods, !.headers = h.allowedHeaders,
                       !.maxAge = h.maxAge]

\* Mutant: any origin is reflected.
handleActualReflects(r) ==
  [r EXCEPT !.vary = @ \cup {"Origin"}, !.origin = allowOrigin(req.origin),
            !.credentials = h.allowCredentials, !.exposed = h.exposedHeaders]
\* Mutant: Vary is set with the other headers, on allowed origins' responses only.
handleActualVaryLate(r) ==
  IF ~originAllowed(req.origin) THEN r
  ELSE [r EXCEPT !.vary = @ \cup {"Origin"}, !.origin = allowOrigin(req.origin),
                 !.credentials = h.allowCredentials, !.exposed = h.exposedHeaders]
handleActual(r) ==
  LET varying == [r EXCEPT !.vary = @ \cup {"Origin"}] IN
  IF ~originAllowed(req.origin) THEN varying
  ELSE [varying EXCEPT !.origin = allowOrigin(req.origin), !.credentials = h.allowCredentials,
                       !.exposed = h.exposedHeaders]

\* New: a preflight is answered here and never reaches the rest of the chain.
\* Mutant: a preflight goes through the chain, as with CORS inside of the authentication.
CORSPassesPreflights ==
  /\ at = "cors"
  /\ res' = [res EXCEPT !.cors = IF leg = "preflight" THEN handlePreflight(@) ELSE handleActual(@)]
  /\ at' = "secure"
  /\ UNCHANGED <<cfg, past, now, req, leg, preflights, edge, outcome>>
CORS ==
  /\ at = "cors"
  /\ IF leg = "preflight"
     THEN /\ res' = [res EXCEPT !.cors = handlePreflight(@), !.status = 204]
          /\ at' = "sent"
     ELSE /\ res' = [res EXCEPT !.cors = handleActual(@)]
          /\ at' = "secure"
  /\ UNCHANGED <<cfg, past, now, req, leg, preflights, edge, outcome>>

-----------------------------------------------------------------------------
(* secureheaders.                                                            *)

\* The headers that are set when their field is, with the field's value.
OptionalHeaders ==
  {"X-Content-Type-Options", "X-Frame-Options", "X-XSS-Protection", "Content-Security-Policy",
   "Referrer-Policy", "Permissions-Policy", "Cross-Origin-Embedder-Policy",
   "Cross-Origin-Opener-Policy", "Cross-Origin-Resource-Policy"}
HSTS == "Strict-Transport-Security"

\* Handlers leave the headers that secureheaders can remove alone: it deletes them before the
\* handler runs, and one that the handler sets then is sent.
ASSUME HeaderAssumption ==
  /\ \A c \in Configs : c.secure.set \subseteq OptionalHeaders
  /\ \A own \in HandlerHeaders : own \cap {"Server", "X-Powered-By"} = {}

Strict ==
  [hsts |-> 365 * 24 * 3600, set |-> OptionalHeaders \ {"Content-Security-Policy"},
   RemoveServerHeader |-> TRUE, RemovePoweredBy |-> TRUE]

buildHeaders(c) == c.set \cup (IF c.hsts > 0 THEN {HSTS} ELSE {})

buildRemoveList(c) ==
  (IF c.RemoveServerHeader THEN {"Server"} ELSE {})
  \cup (IF c.RemovePoweredBy THEN {"X-Powered-By"} ELSE {})

\* A header map holds, for each of its headers, who set it last.
Del(headers, names) == {e \in headers : e.name \notin names}
Put(headers, names, by) == Del(headers, names) \cup {[name |-> n, by |-> by] : n \in names}

\* Mutant: the headers are set once the handler has returned, and so has sent its own.
SecureHeadersAfterNext ==
  /\ at = "secure"
  /\ at' = "guard"
  /\ UNCHANGED <<cfg, past, now, req, leg, res, preflights, edge, outcome>>
SecureHeaders ==
  /\ at = "secure"
  /\ res' = [res EXCEPT !.headers =
               Del(Put(@, buildHeaders(cfg.secure), "chain"), buildRemoveList(cfg.secure))]
  /\ at' = "guard"
  /\ UNCHANGED <<cfg, past, now, req, leg, preflights, edge, outcome>>

-----------------------------------------------------------------------------
(* The rest of the chain, the browser and the cache.                         *)

\* An authentication middleware: without credentials it answers itself.
Guard ==
  /\ at = "guard"
  /\ IF cfg.guarded /\ (leg = "preflight" \/ "Authorization" \notin req.headers)
     THEN res' = [res EXCEPT !.status = 401] /\ at' = "sent"
     ELSE at' = "handler" /\ UNCHANGED res
  /\ UNCHANGED <<cfg, past, now, req, leg, preflights, edge, outcome>>

Handler(own) ==
  /\ at = "handler"
  /\ res' = [res EXCEPT !.headers = Put(@, own, "handler"), !.status = 200]
  /\ at' = "sent"
  /\ UNCHANGED <<cfg, past, now, req, leg, preflights, edge, outcome>>

Empty(outer) == [cors |-> NoCORS, headers |-> Put({}, outer, "outer"), status |-> 0]

\* Fetch: which requests are sent without a preflight.
Safelisted == {"Accept", "Content-Type"}
IsSimple(r) == r.method \in {"GET", "HEAD", "POST"} /\ r.headers \subseteq Safelisted
CrossOrigin(r) == r.origin # NoOrigin
\* A wildcard counts only without credentials, and never for Authorization.
MethodIn(m, methods, cred) ==
  m \in {"GET", "HEAD", "POST"} \/ m \in methods \/ ("*" \in methods /\ ~cred)
HeaderIn(n, headers, cred) ==
  n \in Safelisted \/ n \in headers \/ ("*" \in headers /\ ~cred /\ n # "Authorization")

\* Fetch's CORS check of a response.
PageMaySee(r, c) ==
  IF r.cred THEN c.origin = r.origin /\ c.credentials ELSE c.origin \in {Wildcard, r.origin}
PreflightPasses(r, c) ==
  /\ PageMaySee(r, c)
  /\ MethodIn(r.method, c.methods, r.cred)
  /\ \A n \in r.headers : HeaderIn(n, c.headers, r.cred)

Preflighted(r) ==
  \E e \in preflights : /\ e.origin = r.origin /\ e.cred = r.cred /\ now < e.until
                        /\ MethodIn(r.method, e.methods, r.cred)
                        /\ \A n \in r.headers : HeaderIn(n, e.headers, r.cred)

\* The cache stores and reuses GETs without Authorization.
Cacheable(r) == r.method = "GET" /\ "Authorization" \notin r.headers
Matching(r) ==
  {e \in edge : /\ Cacheable(r) /\ now < e.until
                /\ "Origin" \in e.cors.vary => e.origin = r.origin}

Seen(via, result) == [via |-> via, result |-> result]
Judged(r, c) == IF ~CrossOrigin(r) \/ PageMaySee(r, c) THEN "read" ELSE "refused"

\* The actual request of r is answered by the cache, or sent to the server.
Send(r, outer) ==
  \/ \E e \in Matching(r) :
       /\ outcome' = Seen("edge", Judged(r, e.cors))
       /\ at' = "idle" /\ UNCHANGED res
  \/ /\ Matching(r) = {}
     /\ res' = Empty(outer)
     /\ at' = "cors" /\ outcome' = Seen("none", "pending")

\* A page asks: the browser sends a preflight first if it has to.
Ask(r, outer) ==
  /\ at = "idle"
  /\ req' = r
  /\ IF CrossOrigin(r) /\ ~IsSimple(r) /\ ~Preflighted(r)
     THEN /\ leg' = "preflight" /\ at' = "cors"
          /\ res' = Empty(outer) /\ outcome' = Seen("none", "pending")
     ELSE leg' = "actual" /\ Send(r, outer)
  /\ UNCHANGED <<cfg, past, now, preflights, edge>>

\* The answer to a preflight; the next state may see a deployment before the request follows.
ReceivePreflight ==
  /\ at = "sent" /\ leg = "preflight"
  /\ IF res.status < 300 /\ PreflightPasses(req, res.cors)
     THEN /\ preflights' = preflights \cup
               (IF res.cors.maxAge = 0 THEN {}
                ELSE {[origin |-> req.origin, cred |-> req.cred, methods |-> res.cors.methods,
                       headers |-> res.cors.headers, until |-> now + res.cors.maxAge]})
          /\ at' = "preflighted" /\ UNCHANGED outcome
     ELSE /\ at' = "idle" /\ outcome' = Seen("preflight", "refused") /\ UNCHANGED preflights
  /\ res' = Empty({})
  /\ UNCHANGED <<cfg, past, now, req, leg, edge>>

Follow(outer) ==
  /\ at = "preflighted"
  /\ leg' = "actual"
  /\ Send(req, outer)
  /\ UNCHANGED <<cfg, past, now, req, preflights, edge>>

Receive ==
  /\ at = "sent" /\ leg = "actual"
  /\ outcome' = Seen("server", Judged(req, res.cors))
  /\ edge' = edge \cup
       (IF Cacheable(req) /\ res.status = 200
        THEN {[cors |-> res.cors, origin |-> req.origin, until |-> now + FreshFor]} ELSE {})
  /\ at' = "idle" /\ res' = Empty({})
  /\ UNCHANGED <<cfg, past, now, req, leg, preflights>>

\* The server restarts with another configuration: middlewares keep nothing else.
Deploy(c) ==
  /\ at \in {"idle", "preflighted"}
  /\ Cardinality(past) < MaxDeploys /\ c # cfg
  /\ past' = past \cup {[cfg |-> cfg, till |-> now]}
  /\ cfg' = c
  /\ outcome' = Seen("none", "pending")
  /\ UNCHANGED <<now, req, leg, at, res, preflights, edge>>

\* Exchanges are short against a second.
Tick ==
  /\ at = "idle" /\ now < MaxTime
  /\ now' = now + 1
  /\ preflights' = {e \in preflights : now' < e.until}
  /\ edge' = {e \in edge : now' < e.until}
  /\ outcome' = Seen("none", "pending")
  /\ UNCHANGED <<cfg, past, req, leg, at, res>>

Init ==
  /\ cfg \in Configs /\ past = {} /\ now = 0
  /\ req \in {r \in Requests : ~CrossOrigin(r)} /\ leg = "actual" /\ at = "idle"
  /\ res = Empty({})
  /\ preflights = {} /\ edge = {}
  /\ outcome = Seen("none", "pending")

Next ==
  \/ \E r \in Requests, outer \in OuterHeaders : Ask(r, outer)
  \/ CORS \/ SecureHeaders \/ Guard
  \/ \E own \in HandlerHeaders : Handler(own)
  \/ ReceivePreflight \/ \E outer \in OuterHeaders : Follow(outer)
  \/ Receive
  \/ \E c \in Configs : Deploy(c)
  \/ Tick

Spec == Init /\ [][Next]_vars

-----------------------------------------------------------------------------
(* What the configuration says, and what must hold.                          *)

Listed(c, o) == Wildcard \in c.cors.origins \/ \E a \in c.cors.origins : ToLower(a) = ToLower(o)
\* Credentials are permitted to origins that are listed by name only.
MayRead(c, r) ==
  Listed(c, r.origin) /\ (r.cred => c.cors.credentials /\ Wildcard \notin c.cors.origins)
MaySend(c, r) ==
  /\ MayRead(c, r)
  /\ MethodIn(r.method, c.cors.methods, r.cred)
  /\ \A n \in r.headers : HeaderIn(n, c.cors.headers, r.cred)
InForce(seconds) == {cfg} \cup {e.cfg : e \in {p \in past : now - p.till <= seconds}}
MaxAge(c) == IF c.cors.maxAge = 0 THEN DefaultMaxAge ELSE c.cors.maxAge
SetBy(headers, n) == {e.by : e \in {x \in headers : x.name = n}}

TypeOK ==
  /\ cfg \in Configs /\ Cardinality(past) <= MaxDeploys /\ now \in 0..MaxTime
  /\ req \in Requests /\ leg \in {"preflight", "actual"}
  /\ at \in {"idle", "cors", "secure", "guard", "handler", "sent", "preflighted"}
  /\ res.status \in {0, 200, 204, 401}
  /\ leg = "preflight" => CrossOrigin(req) /\ at \notin {"secure", "guard", "handler"}

\* A page reads a response across origins only if the configuration that produced it lists the
\* page's origin (by name, if the request carries credentials) and allows credentials to those
\* that carry them; the shared cache never hands one page's
\* response to another that may not have it.
ReadWasPermitted ==
  outcome.result = "read" /\ CrossOrigin(req) =>
    \E c \in (IF outcome.via = "edge" THEN InForce(FreshFor) ELSE {cfg}) : MayRead(c, req)

\* A page that the configuration lists, with an allowed method and allowed headers, is not
\* refused: not because its origin is spelled otherwise there, not because preflights meet the
\* authentication, and not because the cache stored the answer to a page of another origin, or
\* to no page at all.
RefusedWasForbidden ==
  outcome.result = "refused" =>
    CASE outcome.via = "preflight" -> ~MaySend(cfg, req)
      [] outcome.via = "server"    -> ~MayRead(cfg, req)
      [] outcome.via = "edge"      -> \E c \in InForce(FreshFor) : ~MayRead(c, req)

\* A request that needs a preflight is handled only within the Max-Age of a configuration that
\* permitted it: a deployment that withdraws an origin takes effect that soon.
HandledWasPermitted ==
  at = "sent" /\ leg = "actual" /\ res.status = 200 /\ CrossOrigin(req) /\ ~IsSimple(req) =>
    \/ MaySend(cfg, req)
    \/ \E p \in past : 1000 * (now - p.till) <= MaxAge(p.cfg) /\ MaySend(p.cfg, req)

\* Every response of the chain behind CORS, a refusal by the authentication too, carries each
\* configured header with the configured value or the handler's own, and none of the headers to
\* be removed, though another layer had set them before (HeaderAssumption: handlers do not).
ResponsesAreHardened ==
  at = "sent" /\ leg = "actual" =>
    /\ \A n \in buildHeaders(cfg.secure) :
         /\ SetBy(res.headers, n) # {}
         /\ SetBy(res.headers, n) \subseteq (IF res.status = 200 THEN {"chain", "handler"} ELSE {"chain"})
    /\ \A n \in buildRemoveList(cfg.secure) : SetBy(res.headers, n) = {}
=============================================================================
