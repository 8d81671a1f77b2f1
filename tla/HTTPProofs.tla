----------------------------- MODULE HTTPProofs -----------------------------
(***************************************************************************)
(* Proofs about the layers around the guards of an HTTP service.  About    *)
(* CORS: for all configurations, requests, Max-Ages and deployments.       *)
(* About Audit: for all numbers of goroutines and all lists of sinks, with *)
(* whatever options.                                                       *)
(***************************************************************************)
EXTENDS CORS, Audit, FiniteSetTheorems, WellFoundedInduction, TLAPS

-----------------------------------------------------------------------------
(* What the middleware answers, as a function of the configuration.          *)

HandlerOf(c) == newHandler(c.cors)

OriginOK(c, o) ==
  o # NoOrigin /\ (HandlerOf(c).wildcardOrigin \/ ToLower(o) \in HandlerOf(c).allowedOrigins)

\* The headers x decide for pages of origin o as configuration c says, and caches are told
\* that they depend on the origin.
Answers(c, o, x) ==
  /\ "Origin" \in x.vary
  /\ IF OriginOK(c, o)
     THEN /\ x.origin = (IF HandlerOf(c).wildcardOrigin /\ ~HandlerOf(c).allowCredentials
                         THEN Wildcard ELSE o)
          /\ x.credentials = HandlerOf(c).allowCredentials
     ELSE x.origin = NoOrigin /\ x.credentials = FALSE

\* The permissions of a preflight's answer.
Permits(c, o, x) ==
  OriginOK(c, o) => /\ x.methods = HandlerOf(c).allowedMethods
                    /\ x.headers = HandlerOf(c).allowedHeaders
                    /\ x.maxAge = HandlerOf(c).maxAge

LEMMA Varying ==
  ASSUME NEW S, NEW v, v = [NoCORS EXCEPT !.vary = @ \cup S]
  PROVE  /\ S \subseteq v.vary /\ v.origin = NoOrigin /\ v.credentials = FALSE
         /\ DOMAIN v = {"vary", "origin", "credentials", "methods", "headers", "maxAge", "exposed"}
<1> DEFINE w == NoCORS.vary \cup S
<1>1. v = [NoCORS EXCEPT !.vary = w] /\ S \subseteq w
  OBVIOUS
<1> HIDE DEF w
<1>2. v.vary = w /\ v.origin = NoOrigin
  BY <1>1 DEF NoCORS
<1>3. v.credentials = FALSE
  BY <1>1 DEF NoCORS
<1>4. DOMAIN v = DOMAIN NoCORS
  BY <1>1
<1>5. DOMAIN NoCORS = {"vary", "origin", "credentials", "methods", "headers", "maxAge", "exposed"}
  BY DEF NoCORS
<1> QED BY <1>1, <1>2, <1>3, <1>4, <1>5

\* handleActual and handlePreflight answer as the configuration in force says.
LEMMA ActualAnswers == Answers(cfg, req.origin, handleActual(NoCORS))
<1> DEFINE v == [NoCORS EXCEPT !.vary = @ \cup {"Origin"}]
<1>1. originAllowed(req.origin) <=> OriginOK(cfg, req.origin)
  BY DEF originAllowed, OriginOK, HandlerOf, h
<1>2. /\ {"Origin"} \subseteq v.vary /\ v.origin = NoOrigin /\ v.credentials = FALSE
      /\ DOMAIN v = {"vary", "origin", "credentials", "methods", "headers", "maxAge", "exposed"}
  BY Varying
<1>3. handleActual(NoCORS) =
        IF ~originAllowed(req.origin) THEN v
        ELSE [v EXCEPT !.origin = allowOrigin(req.origin), !.credentials = h.allowCredentials,
                       !.exposed = h.exposedHeaders]
  BY DEF handleActual
<1> HIDE DEF v
<1>4. CASE originAllowed(req.origin)
  <2>1. /\ handleActual(NoCORS).vary = v.vary
        /\ handleActual(NoCORS).origin = allowOrigin(req.origin)
        /\ handleActual(NoCORS).credentials = h.allowCredentials
    BY <1>2, <1>3, <1>4
  <2> QED BY <1>1, <1>2, <1>4, <2>1 DEF Answers, allowOrigin, HandlerOf, h
<1>5. CASE ~originAllowed(req.origin)
  BY <1>1, <1>2, <1>3, <1>5 DEF Answers
<1> QED BY <1>4, <1>5

LEMMA PreflightAnswers ==
  /\ Answers(cfg, req.origin, handlePreflight(NoCORS))
  /\ Permits(cfg, req.origin, handlePreflight(NoCORS))
<1> DEFINE vs == {"Origin", "Access-Control-Request-Method", "Access-Control-Request-Headers"}
           v == [NoCORS EXCEPT !.vary = @ \cup vs]
<1>1. originAllowed(req.origin) <=> OriginOK(cfg, req.origin)
  BY DEF originAllowed, OriginOK, HandlerOf, h
<1>2. /\ vs \subseteq v.vary /\ v.origin = NoOrigin /\ v.credentials = FALSE
      /\ DOMAIN v = {"vary", "origin", "credentials", "methods", "headers", "maxAge", "exposed"}
  BY Varying
<1>3. handlePreflight(NoCORS) =
        IF ~originAllowed(req.origin) THEN v
        ELSE [v EXCEPT !.origin = allowOrigin(req.origin), !.credentials = h.allowCredentials,
                       !.methods = h.allowedMethods, !.headers = h.allowedHeaders,
                       !.maxAge = h.maxAge]
  BY DEF handlePreflight
<1>4. "Origin" \in v.vary
  BY <1>2
<1> HIDE DEF v, vs
<1>5. CASE originAllowed(req.origin)
  <2>1. /\ handlePreflight(NoCORS).vary = v.vary
        /\ handlePreflight(NoCORS).origin = allowOrigin(req.origin)
        /\ handlePreflight(NoCORS).credentials = h.allowCredentials
        /\ handlePreflight(NoCORS).methods = h.allowedMethods
        /\ handlePreflight(NoCORS).headers = h.allowedHeaders
        /\ handlePreflight(NoCORS).maxAge = h.maxAge
    BY <1>2, <1>3, <1>5
  <2> QED BY <1>1, <1>5, <1>4, <2>1 DEF Answers, Permits, allowOrigin, HandlerOf, h
<1>6. CASE ~originAllowed(req.origin)
  BY <1>1, <1>2, <1>3, <1>6, <1>4 DEF Answers, Permits
<1> QED BY <1>5, <1>6

\* The configuration lists an origin exactly if the handler built from it allows it: the
\* normalisation of newHandler and of the request's origin agree.
LEMMA ListedIsAllowed ==
  ASSUME NEW c, NEW o, o # NoOrigin
  PROVE  Listed(c, o) <=> OriginOK(c, o)
BY DEF Listed, OriginOK, HandlerOf, newHandler

\* The browser shows a page the answer exactly if the configuration lets it read: a wildcard
\* is sent only without credentials, and with them the origin itself.
LEMMA SeenIsReadable ==
  ASSUME NEW c \in Configs, NEW r, r.cred \in BOOLEAN, NEW x, Answers(c, r.origin, x), CrossOrigin(r)
  PROVE  PageMaySee(r, x) <=> MayRead(c, r)
<1>1. c.cors.credentials \in BOOLEAN /\ HandlerOf(c).allowCredentials = c.cors.credentials
  BY CORSAssumption DEF HandlerOf, newHandler
<1>2. Listed(c, r.origin) <=> OriginOK(c, r.origin)
  BY ListedIsAllowed DEF CrossOrigin
<1>3. Wildcard # NoOrigin /\ r.origin # NoOrigin
  BY DEF Wildcard, NoOrigin, CrossOrigin
<1>6. c.cors.credentials => Wildcard \notin c.cors.origins
  BY CORSAssumption DEF Wildcard
<1>4. CASE OriginOK(c, r.origin)
  BY <1>1, <1>2, <1>3, <1>4, <1>6 DEF Answers, PageMaySee, MayRead
<1>5. CASE ~OriginOK(c, r.origin)
  BY <1>1, <1>2, <1>3, <1>5 DEF Answers, PageMaySee, MayRead
<1> QED BY <1>4, <1>5

\* The methods and headers that a preflight's answer permits are those of the configuration;
\* the defaults that newHandler adds need no permission.
LEMMA PermittedIsConfigured ==
  ASSUME NEW c, NEW r, "Origin" \notin r.headers
  PROVE  /\ MethodIn(r.method, HandlerOf(c).allowedMethods, r.cred)
              <=> MethodIn(r.method, c.cors.methods, r.cred)
         /\ (\A n \in r.headers : HeaderIn(n, HandlerOf(c).allowedHeaders, r.cred))
              <=> (\A n \in r.headers : HeaderIn(n, c.cors.headers, r.cred))
<1>1. /\ HandlerOf(c).allowedMethods = IF c.cors.methods = {} THEN {"GET", "HEAD", "POST"}
                                       ELSE c.cors.methods
      /\ HandlerOf(c).allowedHeaders = IF c.cors.headers = {"*"} THEN {"*"}
                                       ELSE {"Origin", "Accept", "Content-Type"} \cup c.cors.headers
  BY DEF HandlerOf, newHandler
<1>2. MethodIn(r.method, HandlerOf(c).allowedMethods, r.cred)
        <=> MethodIn(r.method, c.cors.methods, r.cred)
  BY <1>1 DEF MethodIn
<1>3. \A n \in r.headers : HeaderIn(n, HandlerOf(c).allowedHeaders, r.cred)
                             <=> HeaderIn(n, c.cors.headers, r.cred)
  BY <1>1 DEF HeaderIn, Safelisted
<1> QED BY <1>2, <1>3

\* A preflight passes exactly if the configuration permits the request.
LEMMA PassedIsPermitted ==
  ASSUME NEW c \in Configs, NEW r \in Requests, CrossOrigin(r), NEW x,
         Answers(c, r.origin, x), Permits(c, r.origin, x)
  PROVE  PreflightPasses(r, x) <=> MaySend(c, r)
<1>1. r.cred \in BOOLEAN /\ "Origin" \notin r.headers
  BY CORSAssumption
<1>2. PageMaySee(r, x) <=> MayRead(c, r)
  BY <1>1, SeenIsReadable
<1>3. CASE OriginOK(c, r.origin)
  BY <1>1, <1>2, <1>3, PermittedIsConfigured DEF Permits, PreflightPasses, MaySend
<1>4. CASE ~OriginOK(c, r.origin)
  <2>1. ~MayRead(c, r)
    BY <1>4, ListedIsAllowed DEF MayRead, CrossOrigin
  <2> QED BY <1>2, <2>1 DEF PreflightPasses, MaySend
<1> QED BY <1>3, <1>4

-----------------------------------------------------------------------------
(* The inductive invariant.                                                  *)

State ==
  /\ cfg \in Configs /\ now \in 0..MaxTime /\ req \in Requests
  /\ IsFiniteSet(past) /\ Cardinality(past) <= MaxDeploys
  /\ \A p \in past : p.cfg \in Configs /\ p.till \in 0..now

Exchange ==
  /\ leg \in {"preflight", "actual"}
  /\ at \in {"idle", "cors", "secure", "guard", "handler", "sent", "preflighted"}
  /\ res = [cors |-> res.cors, headers |-> res.headers, status |-> res.status]
  /\ res.status \in {0, 200, 204, 401}
  /\ leg = "preflight" => CrossOrigin(req) /\ at \notin {"secure", "guard", "handler"}

\* From the CORS middleware on, a response says what the configuration in force says.
Answered ==
  /\ at = "cors" => res.cors = NoCORS
  /\ at \in {"secure", "guard", "handler", "sent"} => Answers(cfg, req.origin, res.cors)
  /\ at = "sent" /\ leg = "preflight" => res.status = 204 /\ Permits(cfg, req.origin, res.cors)

\* The configuration c is in force, or was when what it said for d seconds was stored.
StoredUnder(c, until, d) ==
  \/ c = cfg /\ until <= now + d
  \/ \E p \in past : p.cfg = c /\ until <= p.till + d

\* The browser's entries repeat the permissions of a configuration that lets the page read.
PreflightsInForce ==
  \A e \in preflights : e.until \in Nat /\
    \E c \in Configs : /\ MayRead(c, e)
                       /\ e.methods = HandlerOf(c).allowedMethods
                       /\ e.headers = HandlerOf(c).allowedHeaders
                       /\ StoredUnder(c, e.until, HandlerOf(c).maxAge)

\* The shared cache's entries are what a configuration answers to their origin.
EdgeInForce ==
  \A e \in edge : e.until \in Nat /\
    \E c \in Configs : Answers(c, e.origin, e.cors) /\ StoredUnder(c, e.until, FreshFor)

\* A configuration permits r, or did within its Max-Age.
Permitted(r) ==
  \/ MaySend(cfg, r)
  \/ \E p \in past : 1000 * (now - p.till) <= MaxAge(p.cfg) /\ MaySend(p.cfg, r)

SentIsPermitted ==
  (leg = "actual" /\ at # "idle") \/ at = "preflighted" =>
    (CrossOrigin(req) /\ ~IsSimple(req) => Permitted(req))

\* Behind secureheaders the map holds the configured headers and no removed one.
Hardened ==
  /\ at \in {"guard", "handler"} =>
       /\ \A n \in buildHeaders(cfg.secure) : SetBy(res.headers, n) = {"chain"}
       /\ \A n \in buildRemoveList(cfg.secure) : SetBy(res.headers, n) = {}
  /\ ResponsesAreHardened

\* Verdicts are given at the end of an exchange, and are right.
JudgedRightly ==
  /\ outcome.result \in {"pending", "read", "refused"}
  /\ outcome.result # "pending" => at = "idle"
  /\ ReadWasPermitted
  /\ RefusedWasForbidden

IInv == /\ State /\ Exchange /\ Answered /\ PreflightsInForce /\ EdgeInForce
        /\ SentIsPermitted /\ Hardened /\ JudgedRightly

-----------------------------------------------------------------------------
(* What is stored, what a verdict says, and who set a header.                *)

LEMMA Ages ==
  ASSUME NEW c \in Configs
  PROVE  /\ HandlerOf(c).maxAge \in Nat /\ MaxAge(c) \in Nat
         /\ 1000 * HandlerOf(c).maxAge <= MaxAge(c)
<1>1. MaxAge(c) \in Nat
  BY CORSAssumption DEF MaxAge
<1>2. HandlerOf(c).maxAge = MaxAge(c) \div 1000
  BY DEF HandlerOf, newHandler, MaxAge
<1>3. \A a \in Nat : a \div 1000 \in Nat /\ 1000 * (a \div 1000) <= a
  OBVIOUS
<1> QED BY <1>1, <1>2, <1>3

LEMMA Later ==
  ASSUME NEW u \in Int, NEW d \in Int, NEW a \in Int, NEW b \in Int, a <= b
  PROVE  u <= a + d => u <= b + d
OBVIOUS

\* What was stored under a configuration stays so when the clock advances and when another
\* configuration is deployed.
LEMMA StoredPersists ==
  ASSUME State, NEW c, NEW until \in Nat, NEW d \in Nat, StoredUnder(c, until, d),
         \/ UNCHANGED <<cfg, past>> /\ now' \in {now, now + 1}
         \/ past' = past \cup {[cfg |-> cfg, till |-> now]}
  PROVE  StoredUnder(c, until, d)'
<1>1. now \in Int /\ \A p \in past : p.till \in Int
  BY DEF State
<1>2. CASE UNCHANGED <<cfg, past>> /\ now' \in {now, now + 1}
  <2>1. cfg' = cfg /\ past' = past /\ now' \in Int /\ now <= now'
    BY <1>1, <1>2
  <2>2. until <= now + d => until <= now' + d
    <3>1. until \in Int /\ d \in Int
      OBVIOUS
    <3> QED BY <1>1, <2>1, <3>1, Later, Zenon
  <2> QED BY <2>1, <2>2 DEF StoredUnder
<1>3. CASE past' = past \cup {[cfg |-> cfg, till |-> now]}
  <2> DEFINE q == [cfg |-> cfg, till |-> now]
  <2>1. q.cfg = cfg /\ q.till = now /\ q \in past'
    BY <1>3
  <2>2. \A p \in past : p \in past'
    BY <1>3
  <2> HIDE DEF q
  <2> QED BY <2>1, <2>2 DEF StoredUnder
<1> QED BY <1>2, <1>3

\* What is stored and still fresh comes from a configuration in force at most that long ago.
LEMMA FreshIsRecent ==
  ASSUME State, NEW c, NEW until \in Nat, NEW d \in Nat, StoredUnder(c, until, d), now < until
  PROVE  \/ c = cfg
         \/ \E p \in past : p.cfg = c /\ now - p.till <= d
<1>1. now \in Int /\ \A p \in past : p.till \in Int
  BY DEF State
<1> QED BY <1>1 DEF StoredUnder

LEMMA PendingIsRight ==
  ASSUME outcome'.result = "pending"
  PROVE  JudgedRightly'
<1>1. ReadWasPermitted'
  BY DEF ReadWasPermitted
<1>2. RefusedWasForbidden'
  BY Zenon DEF RefusedWasForbidden
<1> QED BY <1>1, <1>2 DEF JudgedRightly

\* The verdict on an answer that a configuration in force gave is right.
LEMMA VerdictIsRight ==
  ASSUME NEW c \in Configs, NEW x, NEW via \in {"server", "edge"}, req' \in Requests,
         Answers(c, req'.origin, x), outcome' = Seen(via, Judged(req', x)), at' = "idle",
         IF via = "edge" THEN c \in InForce(FreshFor)' ELSE c = cfg'
  PROVE  JudgedRightly'
<1>1. outcome'.via = via /\ outcome'.result = Judged(req', x)
  BY DEF Seen
<1>2. Judged(req', x) \in {"read", "refused"}
  BY DEF Judged
<1>3. CrossOrigin(req') => (Judged(req', x) = "read" <=> MayRead(c, req'))
  <2>1. req'.cred \in BOOLEAN
    BY CORSAssumption
  <2>2. CrossOrigin(req') => (PageMaySee(req', x) <=> MayRead(c, req'))
    BY <2>1, SeenIsReadable
  <2> QED BY <2>2 DEF Judged
<1>4. ~CrossOrigin(req') => Judged(req', x) = "read"
  BY DEF Judged
<1>5. ReadWasPermitted'
  BY <1>1, <1>3 DEF ReadWasPermitted
<1>6. RefusedWasForbidden'
  <2>1. CASE Judged(req', x) = "read"
    BY <1>1, <2>1, Zenon DEF RefusedWasForbidden
  <2>2. CASE Judged(req', x) # "read"
    <3>1. ~MayRead(c, req')
      BY <1>3, <1>4, <2>2
    <3>2. CASE via = "edge"
      BY <1>1, <3>1, <3>2, Zenon DEF RefusedWasForbidden
    <3>3. CASE via = "server"
      <4>1. c = cfg'
        BY <3>3
      <4> QED BY <1>1, <3>1, <3>3, <4>1, Zenon DEF RefusedWasForbidden
    <3> QED BY <3>2, <3>3
  <2> QED BY <2>1, <2>2
<1> QED BY <1>1, <1>2, <1>5, <1>6 DEF JudgedRightly

LEMMA SetByDel ==
  ASSUME NEW H, NEW N, NEW n
  PROVE  SetBy(Del(H, N), n) = IF n \in N THEN {} ELSE SetBy(H, n)
BY DEF SetBy, Del

LEMMA SetByPut ==
  ASSUME NEW H, NEW N, NEW n, NEW by
  PROVE  SetBy(Put(H, N, by), n) = IF n \in N THEN {by} ELSE SetBy(H, n)
<1> DEFINE S == {[name |-> m, by |-> by] : m \in N}
<1>1. \A e \in S : e.name \in N /\ e.by = by
  OBVIOUS
<1>2. n \in N => \E e \in S : e.name = n
  <2> SUFFICES ASSUME n \in N PROVE \E e \in S : e.name = n
    OBVIOUS
  <2>1. [name |-> n, by |-> by] \in S /\ [name |-> n, by |-> by].name = n
    OBVIOUS
  <2> QED BY <2>1
<1> HIDE DEF S
<1>3. Put(H, N, by) = Del(H, N) \cup S
  BY DEF Put, S
<1>4. SetBy(Put(H, N, by), n) = SetBy(Del(H, N), n) \cup SetBy(S, n)
  BY <1>3 DEF SetBy
<1>5. SetBy(S, n) = IF n \in N THEN {by} ELSE {}
  BY <1>1, <1>2 DEF SetBy
<1> QED BY <1>4, <1>5, SetByDel

-----------------------------------------------------------------------------
(* The exchanges.                                                            *)

\* Stores that keep their entries keep them in force.
LEMMA StoresKept ==
  ASSUME State, PreflightsInForce, EdgeInForce,
         preflights' \subseteq preflights, edge' \subseteq edge,
         \/ UNCHANGED <<cfg, past>> /\ now' \in {now, now + 1}
         \/ past' = past \cup {[cfg |-> cfg, till |-> now]}
  PROVE  PreflightsInForce' /\ EdgeInForce'
<1>1. PreflightsInForce'
  <2> SUFFICES ASSUME NEW e \in preflights'
               PROVE  e.until \in Nat /\
                        \E c \in Configs : /\ MayRead(c, e)
                                           /\ e.methods = HandlerOf(c).allowedMethods
                                           /\ e.headers = HandlerOf(c).allowedHeaders
                                           /\ StoredUnder(c, e.until, HandlerOf(c).maxAge)'
    BY DEF PreflightsInForce
  <2>1. PICK c \in Configs : /\ MayRead(c, e)
                            /\ e.methods = HandlerOf(c).allowedMethods
                            /\ e.headers = HandlerOf(c).allowedHeaders
                            /\ StoredUnder(c, e.until, HandlerOf(c).maxAge)
    BY DEF PreflightsInForce
  <2>2. e.until \in Nat
    BY DEF PreflightsInForce
  <2>3. StoredUnder(c, e.until, HandlerOf(c).maxAge)'
    BY <2>1, <2>2, Ages, StoredPersists
  <2> QED BY <2>1, <2>2, <2>3
<1>2. EdgeInForce'
  <2> SUFFICES ASSUME NEW e \in edge'
               PROVE  e.until \in Nat /\
                        \E c \in Configs : Answers(c, e.origin, e.cors) /\ StoredUnder(c, e.until, FreshFor)'
    BY DEF EdgeInForce
  <2>1. PICK c \in Configs : Answers(c, e.origin, e.cors) /\ StoredUnder(c, e.until, FreshFor)
    BY DEF EdgeInForce
  <2>2. e.until \in Nat /\ FreshFor \in Nat
    BY CORSAssumption DEF EdgeInForce
  <2>3. StoredUnder(c, e.until, FreshFor)'
    BY <2>1, <2>2, StoredPersists
  <2> QED BY <2>1, <2>2, <2>3
<1> QED BY <1>1, <1>2

LEMMA EmptyShape ==
  ASSUME NEW outer
  PROVE  /\ Empty(outer).cors = NoCORS /\ Empty(outer).status = 0
         /\ Empty(outer) = [cors |-> Empty(outer).cors, headers |-> Empty(outer).headers,
                           status |-> Empty(outer).status]
BY DEF Empty

LEMMA InitInv == Init => IInv
<1> SUFFICES ASSUME Init PROVE IInv
  OBVIOUS
<1>1. State
  BY FS_EmptySet, CORSAssumption DEF Init, State
<1>2. Exchange
  BY EmptyShape DEF Init, Exchange
<1>3. Answered /\ SentIsPermitted /\ Hardened /\ PreflightsInForce /\ EdgeInForce
  BY DEF Init, Answered, SentIsPermitted, Hardened, ResponsesAreHardened, PreflightsInForce, EdgeInForce
<1>4. JudgedRightly
  <2>1. outcome.result = "pending"
    BY DEF Init, Seen
  <2>2. ReadWasPermitted
    BY <2>1 DEF ReadWasPermitted
  <2>3. RefusedWasForbidden
    BY <2>1, Zenon DEF RefusedWasForbidden
  <2> QED BY <2>1, <2>2, <2>3 DEF JudgedRightly
<1> QED BY <1>1, <1>2, <1>3, <1>4 DEF IInv

\* In the middle of an exchange nothing has been judged yet.
LEMMA NothingJudged ==
  ASSUME IInv, at # "idle", outcome' = outcome
  PROVE  JudgedRightly'
<1>1. outcome'.result = "pending"
  BY DEF IInv, JudgedRightly
<1> QED BY <1>1, PendingIsRight

LEMMA CORSStep ==
  ASSUME IInv, CORS
  PROVE  IInv'
<1> USE DEF IInv
<1>1. State'
  BY DEF State, CORS
<1>2. PreflightsInForce' /\ EdgeInForce'
  BY StoresKept DEF CORS
<1>3. JudgedRightly'
  BY NothingJudged DEF CORS
<1>4. SentIsPermitted'
  BY DEF CORS, SentIsPermitted, Permitted, Exchange
<1>5. res.cors = NoCORS /\ at = "cors"
  BY DEF CORS, Answered
<1>6. CASE leg = "preflight"
  <2> DEFINE x == handlePreflight(NoCORS)
  <2>1. /\ res' = [res EXCEPT !.cors = handlePreflight(@), !.status = 204]
        /\ at' = "sent" /\ leg' = leg /\ req' = req /\ cfg' = cfg
    BY <1>6 DEF CORS
  <2>2. res' = [res EXCEPT !.cors = x, !.status = 204]
    BY <1>5, <2>1
  <2>3. Answers(cfg, req.origin, x) /\ Permits(cfg, req.origin, x)
    BY PreflightAnswers
  <2> HIDE DEF x
  <2>4. res' = [cors |-> x, headers |-> res.headers, status |-> 204]
    BY <2>2 DEF Exchange
  <2>5. res'.cors = x /\ res'.status = 204 /\ res' = [cors |-> res'.cors, headers |-> res'.headers, status |-> res'.status]
    BY <2>4
  <2>6. Exchange'
    BY <1>6, <2>1, <2>5 DEF Exchange
  <2>7. Answered'
    BY <2>1, <2>3, <2>5 DEF Answered
  <2>8. Hardened'
    BY <1>6, <2>1 DEF Hardened, ResponsesAreHardened
  <2> QED BY <1>1, <1>2, <1>3, <1>4, <2>6, <2>7, <2>8
<1>7. CASE leg # "preflight"
  <2> DEFINE x == handleActual(NoCORS)
  <2>1. /\ res' = [res EXCEPT !.cors = handleActual(@)]
        /\ at' = "secure" /\ leg' = leg /\ req' = req /\ cfg' = cfg
    BY <1>7 DEF CORS
  <2>2. res' = [res EXCEPT !.cors = x]
    BY <1>5, <2>1
  <2>3. Answers(cfg, req.origin, x)
    BY ActualAnswers
  <2> HIDE DEF x
  <2>4. res' = [cors |-> x, headers |-> res.headers, status |-> res.status]
    BY <2>2 DEF Exchange
  <2>5. res'.cors = x /\ res'.status = res.status /\ res' = [cors |-> res'.cors, headers |-> res'.headers, status |-> res'.status]
    BY <2>4
  <2>6. Exchange'
    BY <1>7, <2>1, <2>5 DEF Exchange
  <2>7. Answered'
    BY <2>1, <2>3, <2>5 DEF Answered
  <2>8. Hardened'
    BY <2>1 DEF Hardened, ResponsesAreHardened
  <2> QED BY <1>1, <1>2, <1>3, <1>4, <2>6, <2>7, <2>8
<1> QED BY <1>6, <1>7

\* What secureheaders sets and what it removes are different headers.
LEMMA SetIsNotRemoved ==
  ASSUME NEW c \in Configs, NEW n \in buildHeaders(c.secure)
  PROVE  n \notin buildRemoveList(c.secure)
BY HeaderAssumption DEF buildHeaders, buildRemoveList, OptionalHeaders, HSTS

LEMMA SecureHeadersStep ==
  ASSUME IInv, SecureHeaders
  PROVE  IInv'
<1> USE DEF IInv
<1> DEFINE B == buildHeaders(cfg.secure)
           R == buildRemoveList(cfg.secure)
           hs == Del(Put(res.headers, B, "chain"), R)
<1>1. /\ at = "secure" /\ at' = "guard"
      /\ UNCHANGED <<cfg, past, now, req, leg, preflights, edge, outcome>>
      /\ res' = [res EXCEPT !.headers = hs]
  BY DEF SecureHeaders
<1>2. \A n \in B : n \notin R
  BY SetIsNotRemoved DEF State
<1>3. /\ \A n \in B : SetBy(hs, n) = {"chain"}
      /\ \A n \in R : SetBy(hs, n) = {}
  BY <1>2, SetByDel, SetByPut
<1> HIDE DEF hs
<1>4. res' = [cors |-> res.cors, headers |-> hs, status |-> res.status]
  BY <1>1 DEF Exchange
<1>5. /\ res'.cors = res.cors /\ res'.headers = hs /\ res'.status = res.status
      /\ res' = [cors |-> res'.cors, headers |-> res'.headers, status |-> res'.status]
  BY <1>4
<1>6. State'
  BY <1>1 DEF State
<1>7. PreflightsInForce' /\ EdgeInForce'
  BY <1>1, StoresKept
<1>8. JudgedRightly'
  BY <1>1, NothingJudged
<1>9. SentIsPermitted'
  BY <1>1 DEF SentIsPermitted, Permitted, Exchange
<1>10. Exchange'
  BY <1>1, <1>5 DEF Exchange
<1>11. Answered'
  BY <1>1, <1>5 DEF Answered
<1>12. Hardened'
  BY <1>1, <1>3, <1>5 DEF Hardened, ResponsesAreHardened
<1> QED BY <1>6, <1>7, <1>8, <1>9, <1>10, <1>11, <1>12

LEMMA GuardStep ==
  ASSUME IInv, Guard
  PROVE  IInv'
<1> USE DEF IInv
<1>1. /\ at = "guard"
      /\ UNCHANGED <<cfg, past, now, req, leg, preflights, edge, outcome>>
      /\ \/ at' = "sent" /\ res' = [res EXCEPT !.status = 401]
         \/ at' = "handler" /\ res' = res
  BY DEF Guard
<1>2. State'
  BY <1>1 DEF State
<1>3. PreflightsInForce' /\ EdgeInForce'
  BY <1>1, StoresKept
<1>4. JudgedRightly'
  BY <1>1, NothingJudged
<1>5. leg = "actual"
  BY <1>1 DEF Exchange
<1>6. SentIsPermitted'
  BY <1>1, <1>5 DEF SentIsPermitted, Permitted
<1>7. CASE at' = "sent" /\ res' = [res EXCEPT !.status = 401]
  <2>1. res' = [cors |-> res.cors, headers |-> res.headers, status |-> 401]
    BY <1>7 DEF Exchange
  <2>2. /\ res'.cors = res.cors /\ res'.headers = res.headers /\ res'.status = 401
        /\ res' = [cors |-> res'.cors, headers |-> res'.headers, status |-> res'.status]
    BY <2>1
  <2>3. Exchange'
    BY <1>1, <1>5, <1>7, <2>2 DEF Exchange
  <2>4. Answered'
    BY <1>1, <1>5, <1>7, <2>2 DEF Answered
  <2>5. Hardened'
    BY <1>1, <1>7, <2>2 DEF Hardened, ResponsesAreHardened
  <2> QED BY <1>2, <1>3, <1>4, <1>6, <2>3, <2>4, <2>5
<1>8. CASE at' = "handler" /\ res' = res
  <2>1. Exchange'
    BY <1>1, <1>5, <1>8 DEF Exchange
  <2>2. Answered'
    BY <1>1, <1>5, <1>8 DEF Answered
  <2>3. Hardened'
    BY <1>1, <1>8 DEF Hardened, ResponsesAreHardened
  <2> QED BY <1>2, <1>3, <1>4, <1>6, <2>1, <2>2, <2>3
<1> QED BY <1>1, <1>7, <1>8

LEMMA HandlerStep ==
  ASSUME IInv, NEW own \in HandlerHeaders, Handler(own)
  PROVE  IInv'
<1> USE DEF IInv
<1> DEFINE hs == Put(res.headers, own, "handler")
<1>1. /\ at = "handler" /\ at' = "sent"
      /\ UNCHANGED <<cfg, past, now, req, leg, preflights, edge, outcome>>
      /\ res' = [res EXCEPT !.headers = hs, !.status = 200]
  BY DEF Handler
<1>2. \A n : SetBy(hs, n) = IF n \in own THEN {"handler"} ELSE SetBy(res.headers, n)
  BY SetByPut
<1> HIDE DEF hs
<1>3. res' = [cors |-> res.cors, headers |-> hs, status |-> 200]
  BY <1>1 DEF Exchange
<1>4. /\ res'.cors = res.cors /\ res'.headers = hs /\ res'.status = 200
      /\ res' = [cors |-> res'.cors, headers |-> res'.headers, status |-> res'.status]
  BY <1>3
<1>5. leg = "actual"
  BY <1>1 DEF Exchange
<1>6. State'
  BY <1>1 DEF State
<1>7. PreflightsInForce' /\ EdgeInForce'
  BY <1>1, StoresKept
<1>8. JudgedRightly'
  BY <1>1, NothingJudged
<1>9. SentIsPermitted'
  BY <1>1, <1>5 DEF SentIsPermitted, Permitted
<1>10. Exchange'
  BY <1>1, <1>4, <1>5 DEF Exchange
<1>11. Answered'
  BY <1>1, <1>4, <1>5 DEF Answered
<1>12. Hardened'
  <2>1. \A n \in buildHeaders(cfg.secure) : SetBy(hs, n) \in {{"chain"}, {"handler"}}
    BY <1>1, <1>2 DEF Hardened
  <2>2. \A n \in buildRemoveList(cfg.secure) : n \notin own
    <3>1. own \cap {"Server", "X-Powered-By"} = {}
      BY HeaderAssumption
    <3>2. buildRemoveList(cfg.secure) \subseteq {"Server", "X-Powered-By"}
      BY DEF buildRemoveList
    <3> QED BY <3>1, <3>2
  <2>3. \A n \in buildRemoveList(cfg.secure) : SetBy(hs, n) = {}
    BY <1>1, <1>2, <2>2 DEF Hardened
  <2> QED BY <1>1, <1>4, <2>1, <2>3 DEF Hardened, ResponsesAreHardened
<1> QED BY <1>6, <1>7, <1>8, <1>9, <1>10, <1>11, <1>12

\* A request that a preflight's entry lets through is permitted, or was within the Max-Age.
LEMMA PreflightedIsPermitted ==
  ASSUME IInv, NEW r \in Requests, Preflighted(r)
  PROVE  Permitted(r)
<1>1. PICK e \in preflights : /\ e.origin = r.origin /\ e.cred = r.cred /\ now < e.until
                             /\ MethodIn(r.method, e.methods, r.cred)
                             /\ \A n \in r.headers : HeaderIn(n, e.headers, r.cred)
  BY DEF Preflighted
<1>2. PICK c \in Configs : /\ MayRead(c, e)
                          /\ e.methods = HandlerOf(c).allowedMethods
                          /\ e.headers = HandlerOf(c).allowedHeaders
                          /\ StoredUnder(c, e.until, HandlerOf(c).maxAge)
  BY DEF IInv, PreflightsInForce
<1>3. MaySend(c, r)
  <2>1. MayRead(c, r)
    BY <1>1, <1>2 DEF MayRead
  <2>2. "Origin" \notin r.headers
    BY CORSAssumption
  <2> QED BY <1>1, <1>2, <2>1, <2>2, PermittedIsConfigured DEF MaySend
<1>4. CASE c = cfg
  BY <1>3, <1>4 DEF Permitted
<1>5. CASE c # cfg
  <2>1. e.until \in Nat
    BY DEF IInv, PreflightsInForce
  <2>2. PICK p \in past : p.cfg = c /\ now - p.till <= HandlerOf(c).maxAge
    BY <1>1, <1>2, <1>5, <2>1, Ages, FreshIsRecent DEF IInv
  <2>3. now \in Int /\ p.till \in Int
    BY DEF IInv, State
  <2>4. \A a, b, m \in Int : a <= b /\ 1000 * b <= m => 1000 * a <= m
    OBVIOUS
  <2>5. 1000 * (now - p.till) <= MaxAge(c)
    BY <2>2, <2>3, <2>4, Ages
  <2> QED BY <1>3, <2>2, <2>5 DEF Permitted
<1> QED BY <1>4, <1>5

\* The actual request of r goes to the cache, whose verdict is right, or to the chain.
LEMMA SendStep ==
  ASSUME IInv, NEW r \in Requests, NEW outer, Send(r, outer), req' = r, leg' = "actual",
         UNCHANGED <<cfg, past, now, preflights, edge>>,
         CrossOrigin(r) /\ ~IsSimple(r) => Permitted(r),
         at \in {"idle", "preflighted"}
  PROVE  IInv'
<1> USE DEF IInv
<1>1. State'
  BY DEF State
<1>2. PreflightsInForce' /\ EdgeInForce'
  BY StoresKept
<1>3. SentIsPermitted'
  BY DEF SentIsPermitted, Permitted
<1>4. CASE \E e \in Matching(r) : /\ outcome' = Seen("edge", Judged(r, e.cors))
                                 /\ at' = "idle" /\ UNCHANGED res
  <2>1. PICK e \in Matching(r) : /\ outcome' = Seen("edge", Judged(r, e.cors))
                                /\ at' = "idle" /\ UNCHANGED res
    BY <1>4
  <2>2. e \in edge /\ now < e.until /\ ("Origin" \in e.cors.vary => e.origin = r.origin)
    BY DEF Matching
  <2>3. PICK c \in Configs : Answers(c, e.origin, e.cors) /\ StoredUnder(c, e.until, FreshFor)
    BY <2>2 DEF EdgeInForce
  <2>4. Answers(c, r.origin, e.cors)
    BY <2>2, <2>3 DEF Answers
  <2>5. c \in InForce(FreshFor)
    <3>1. e.until \in Nat /\ FreshFor \in Nat
      BY <2>2, CORSAssumption DEF EdgeInForce
    <3>2. c = cfg \/ \E p \in past : p.cfg = c /\ now - p.till <= FreshFor
      BY <2>2, <2>3, <3>1, FreshIsRecent
    <3> QED BY <3>2 DEF InForce
  <2>6. JudgedRightly'
    <3>1. c \in InForce(FreshFor)'
      BY <2>5 DEF InForce
    <3> QED BY <2>1, <2>4, <3>1, VerdictIsRight
  <2>7. Exchange' /\ Answered' /\ Hardened'
    BY <2>1 DEF Exchange, Answered, Hardened, ResponsesAreHardened
  <2> QED BY <1>1, <1>2, <1>3, <2>6, <2>7
<1>5. CASE res' = Empty(outer) /\ at' = "cors" /\ outcome' = Seen("none", "pending")
  <2>1. JudgedRightly'
    BY <1>5, PendingIsRight DEF Seen
  <2>2. Exchange' /\ Answered' /\ Hardened'
    BY <1>5, EmptyShape DEF Exchange, Answered, Hardened, ResponsesAreHardened
  <2> QED BY <1>1, <1>2, <1>3, <2>1, <2>2
<1> QED BY <1>4, <1>5 DEF Send

LEMMA AskStep ==
  ASSUME IInv, NEW r \in Requests, NEW outer, Ask(r, outer)
  PROVE  IInv'
<1>1. CASE CrossOrigin(r) /\ ~IsSimple(r) /\ ~Preflighted(r)
  <2> USE DEF IInv
  <2>1. /\ leg' = "preflight" /\ at' = "cors" /\ req' = r
        /\ res' = Empty(outer) /\ outcome' = Seen("none", "pending")
        /\ UNCHANGED <<cfg, past, now, preflights, edge>>
    BY <1>1 DEF Ask
  <2>2. State'
    BY <2>1 DEF State
  <2>3. PreflightsInForce' /\ EdgeInForce'
    BY <2>1, StoresKept
  <2>4. JudgedRightly'
    BY <2>1, PendingIsRight DEF Seen
  <2>5. Exchange' /\ Answered' /\ Hardened' /\ SentIsPermitted'
    BY <1>1, <2>1, EmptyShape
       DEF Exchange, Answered, Hardened, ResponsesAreHardened, SentIsPermitted
  <2> QED BY <2>2, <2>3, <2>4, <2>5
<1>2. CASE ~(CrossOrigin(r) /\ ~IsSimple(r) /\ ~Preflighted(r))
  BY <1>2, PreflightedIsPermitted, SendStep DEF Ask
<1> QED BY <1>1, <1>2

LEMMA FollowStep ==
  ASSUME IInv, NEW outer, Follow(outer)
  PROVE  IInv'
<1>1. req \in Requests /\ (CrossOrigin(req) /\ ~IsSimple(req) => Permitted(req))
  BY DEF IInv, State, SentIsPermitted, Follow
<1> QED BY <1>1, SendStep DEF Follow

LEMMA ReceivePreflightStep ==
  ASSUME IInv, ReceivePreflight
  PROVE  IInv'
<1> USE DEF IInv
<1>1. /\ at = "sent" /\ leg = "preflight" /\ res' = Empty({})
      /\ UNCHANGED <<cfg, past, now, req, leg, edge>>
  BY DEF ReceivePreflight
<1>2. /\ res.status = 204 /\ Answers(cfg, req.origin, res.cors)
      /\ Permits(cfg, req.origin, res.cors)
  BY <1>1 DEF Answered
<1>3. req \in Requests /\ cfg \in Configs /\ CrossOrigin(req)
  BY <1>1 DEF State, Exchange
<1>4. PreflightPasses(req, res.cors) <=> MaySend(cfg, req)
  BY <1>2, <1>3, PassedIsPermitted
<1>5. State'
  BY <1>1 DEF State
<1>6. CASE ~MaySend(cfg, req)
  <2>1. at' = "idle" /\ outcome' = Seen("preflight", "refused") /\ preflights' = preflights
    BY <1>2, <1>4, <1>6 DEF ReceivePreflight
  <2>2. PreflightsInForce' /\ EdgeInForce'
    BY <1>1, <2>1, StoresKept
  <2>3. outcome'.via = "preflight" /\ outcome'.result = "refused"
    BY <2>1 DEF Seen
  <2>4. RefusedWasForbidden'
    BY <1>1, <1>6, <2>3, Zenon DEF RefusedWasForbidden
  <2>5. JudgedRightly'
    BY <2>1, <2>3, <2>4 DEF JudgedRightly, ReadWasPermitted
  <2>6. Exchange' /\ Answered' /\ Hardened' /\ SentIsPermitted'
    BY <1>1, <1>3, <2>1, EmptyShape
       DEF Exchange, Answered, Hardened, ResponsesAreHardened, SentIsPermitted
  <2> QED BY <1>5, <2>2, <2>5, <2>6
<1>7. CASE MaySend(cfg, req)
  <2> DEFINE e == [origin |-> req.origin, cred |-> req.cred, methods |-> res.cors.methods,
                   headers |-> res.cors.headers, until |-> now + res.cors.maxAge]
  <2>1. /\ at' = "preflighted" /\ outcome' = outcome
        /\ preflights' = preflights \cup (IF res.cors.maxAge = 0 THEN {} ELSE {e})
    BY <1>2, <1>4, <1>7 DEF ReceivePreflight
  <2>2. JudgedRightly'
    BY <1>1, <2>1, NothingJudged
  <2>3. SentIsPermitted'
    BY <1>1, <1>7, <2>1 DEF SentIsPermitted, Permitted
  <2>4. Exchange' /\ Answered' /\ Hardened'
    BY <1>1, <1>3, <2>1, EmptyShape DEF Exchange, Answered, Hardened, ResponsesAreHardened
  <2>5. MayRead(cfg, req) /\ OriginOK(cfg, req.origin)
    BY <1>3, <1>7, ListedIsAllowed DEF MaySend, MayRead, CrossOrigin
  <2>6. /\ res.cors.methods = HandlerOf(cfg).allowedMethods
        /\ res.cors.headers = HandlerOf(cfg).allowedHeaders
        /\ res.cors.maxAge = HandlerOf(cfg).maxAge
    BY <1>2, <2>5 DEF Permits
  <2>7. now \in Nat /\ HandlerOf(cfg).maxAge \in Nat
    BY <1>3, Ages, CORSAssumption DEF State
  <2>8. /\ e.origin = req.origin /\ e.cred = req.cred /\ e.methods = res.cors.methods
        /\ e.headers = res.cors.headers /\ e.until = now + res.cors.maxAge
    OBVIOUS
  <2> HIDE DEF e
  <2>9. /\ e.until \in Nat /\ MayRead(cfg, e)
        /\ e.methods = HandlerOf(cfg).allowedMethods /\ e.headers = HandlerOf(cfg).allowedHeaders
        /\ StoredUnder(cfg, e.until, HandlerOf(cfg).maxAge)
    BY <2>5, <2>6, <2>7, <2>8 DEF StoredUnder, MayRead
  <2>10. \A x \in preflights' : x \in preflights \/ x = e
    BY <2>1
  <2>11. PreflightsInForce'
    BY <1>1, <1>3, <2>9, <2>10 DEF PreflightsInForce, StoredUnder
  <2>12. EdgeInForce'
    BY <1>1 DEF EdgeInForce, StoredUnder
  <2> QED BY <1>5, <2>2, <2>3, <2>4, <2>11, <2>12
<1> QED BY <1>6, <1>7

LEMMA ReceiveStep ==
  ASSUME IInv, Receive
  PROVE  IInv'
<1> USE DEF IInv
<1> DEFINE e == [cors |-> res.cors, origin |-> req.origin, until |-> now + FreshFor]
<1>1. /\ at = "sent" /\ leg = "actual" /\ at' = "idle" /\ res' = Empty({})
      /\ outcome' = Seen("server", Judged(req, res.cors))
      /\ edge' = edge \cup (IF Cacheable(req) /\ res.status = 200 THEN {e} ELSE {})
      /\ UNCHANGED <<cfg, past, now, req, leg, preflights>>
  BY DEF Receive
<1>2. Answers(cfg, req.origin, res.cors) /\ cfg \in Configs /\ req \in Requests
  BY <1>1 DEF Answered, State
<1>3. e.cors = res.cors /\ e.origin = req.origin /\ e.until = now + FreshFor
  OBVIOUS
<1> HIDE DEF e
<1>4. State'
  BY <1>1 DEF State
<1>5. JudgedRightly'
  BY <1>1, <1>2, VerdictIsRight
<1>6. Exchange' /\ Answered' /\ Hardened' /\ SentIsPermitted'
  BY <1>1, EmptyShape DEF Exchange, Answered, Hardened, ResponsesAreHardened, SentIsPermitted
<1>7. PreflightsInForce'
  BY <1>1 DEF PreflightsInForce, StoredUnder
<1>8. EdgeInForce'
  <2>1. e.until \in Nat /\ StoredUnder(cfg, e.until, FreshFor)
    BY <1>3, CORSAssumption DEF State, StoredUnder
  <2>2. \A x \in edge' : x \in edge \/ x = e
    BY <1>1
  <2> QED BY <1>1, <1>2, <1>3, <2>1, <2>2 DEF EdgeInForce, StoredUnder
<1> QED BY <1>4, <1>5, <1>6, <1>7, <1>8

LEMMA DeployStep ==
  ASSUME IInv, NEW c \in Configs, Deploy(c)
  PROVE  IInv'
<1> USE DEF IInv
<1> DEFINE q == [cfg |-> cfg, till |-> now]
<1>1. /\ at \in {"idle", "preflighted"} /\ Cardinality(past) < MaxDeploys
      /\ past' = past \cup {q} /\ cfg' = c
      /\ outcome' = Seen("none", "pending")
      /\ UNCHANGED <<now, req, leg, at, res, preflights, edge>>
  BY DEF Deploy
<1>2. PreflightsInForce' /\ EdgeInForce'
  BY <1>1, StoresKept
<1>3. q.cfg = cfg /\ q.till = now
  OBVIOUS
<1> HIDE DEF q
<1>4. State'
  <2>1. IsFiniteSet(past) /\ Cardinality(past) \in Nat
    BY FS_CardinalityType DEF State
  <2>2. IsFiniteSet(past') /\ Cardinality(past') \in {Cardinality(past), Cardinality(past) + 1}
    BY <1>1, <2>1, FS_AddElement
  <2>3. Cardinality(past') <= MaxDeploys
    BY <1>1, <2>1, <2>2, CORSAssumption
  <2>4. \A p \in past' : p.cfg \in Configs /\ p.till \in 0..now
    BY <1>1, <1>3 DEF State
  <2> QED BY <1>1, <2>2, <2>3, <2>4 DEF State
<1>5. JudgedRightly'
  BY <1>1, PendingIsRight DEF Seen
<1>6. Exchange' /\ Answered' /\ Hardened'
  BY <1>1 DEF Exchange, Answered, Hardened, ResponsesAreHardened
<1>7. SentIsPermitted'
  <2>1. Permitted(req) => Permitted(req)'
    <3>1. CASE MaySend(cfg, req)
      <4>1. 1000 * (now' - q.till) <= MaxAge(q.cfg)
        BY <1>1, <1>3, Ages DEF State
      <4> QED BY <1>1, <1>3, <3>1, <4>1 DEF Permitted
    <3>2. CASE ~MaySend(cfg, req)
      BY <1>1, <3>2 DEF Permitted
    <3> QED BY <3>1, <3>2
  <2> QED BY <1>1, <2>1 DEF SentIsPermitted
<1> QED BY <1>2, <1>4, <1>5, <1>6, <1>7

LEMMA TickStep ==
  ASSUME IInv, Tick
  PROVE  IInv'
<1> USE DEF IInv
<1>1. /\ at = "idle" /\ now < MaxTime /\ now' = now + 1
      /\ preflights' \subseteq preflights /\ edge' \subseteq edge
      /\ outcome' = Seen("none", "pending")
      /\ UNCHANGED <<cfg, past, req, leg, at, res>>
  BY DEF Tick
<1>2. PreflightsInForce' /\ EdgeInForce'
  BY <1>1, StoresKept
<1>3. State'
  BY <1>1, CORSAssumption DEF State
<1>4. JudgedRightly'
  BY <1>1, PendingIsRight DEF Seen
<1>5. Exchange' /\ Answered' /\ Hardened' /\ SentIsPermitted'
  BY <1>1 DEF Exchange, Answered, Hardened, ResponsesAreHardened, SentIsPermitted
<1> QED BY <1>2, <1>3, <1>4, <1>5

LEMMA Stutter ==
  ASSUME IInv, UNCHANGED vars
  PROVE  IInv'
<1> USE DEF IInv, vars
<1>1. State' /\ Exchange' /\ Answered' /\ Hardened' /\ SentIsPermitted'
  BY DEF State, Exchange, Answered, Hardened, ResponsesAreHardened, SentIsPermitted, Permitted
<1>2. PreflightsInForce' /\ EdgeInForce'
  BY StoresKept
<1>3. JudgedRightly'
  <2>1. ReadWasPermitted'
    BY DEF JudgedRightly, ReadWasPermitted, InForce
  <2>2. RefusedWasForbidden'
    BY Zenon DEF JudgedRightly, RefusedWasForbidden, InForce
  <2> QED BY <2>1, <2>2 DEF JudgedRightly
<1> QED BY <1>1, <1>2, <1>3

LEMMA StepInv == IInv /\ [Next]_vars => IInv'
<1> SUFFICES ASSUME IInv, [Next]_vars PROVE IInv'
  OBVIOUS
<1>1. ASSUME NEW r \in Requests, NEW outer \in OuterHeaders, Ask(r, outer) PROVE IInv'
  BY <1>1, AskStep
<1>2. CASE CORS
  BY <1>2, CORSStep
<1>3. CASE SecureHeaders
  BY <1>3, SecureHeadersStep
<1>4. CASE Guard
  BY <1>4, GuardStep
<1>5. ASSUME NEW own \in HandlerHeaders, Handler(own) PROVE IInv'
  BY <1>5, HandlerStep
<1>6. CASE ReceivePreflight
  BY <1>6, ReceivePreflightStep
<1>7. ASSUME NEW outer \in OuterHeaders, Follow(outer) PROVE IInv'
  BY <1>7, FollowStep
<1>8. CASE Receive
  BY <1>8, ReceiveStep
<1>9. ASSUME NEW c \in Configs, Deploy(c) PROVE IInv'
  BY <1>9, DeployStep
<1>10. CASE Tick
  BY <1>10, TickStep
<1>11. CASE UNCHANGED vars
  BY <1>11, Stutter
<1> QED BY <1>1, <1>2, <1>3, <1>4, <1>5, <1>6, <1>7, <1>8, <1>9, <1>10, <1>11 DEF Next

LEMMA IInvHolds == Spec => []IInv
BY InitInv, StepInv, PTL DEF Spec

\* The state is well typed; a preflight never gets behind CORS, whatever the chain.
THEOREM CORSTypeCorrect == Spec => []TypeOK
<1>1. IInv => TypeOK
  BY DEF IInv, State, Exchange, TypeOK
<1> QED BY <1>1, IInvHolds, PTL

\* Across origins a page reads only what a configuration in force lets it read, from the
\* server and from the shared cache, for all configurations and pages.
THEOREM ReadsArePermitted == Spec => []ReadWasPermitted
<1>1. IInv => ReadWasPermitted
  BY DEF IInv, JudgedRightly
<1> QED BY <1>1, IInvHolds, PTL

\* A page that the configuration lists is never refused: the normalisation of newHandler, the
\* preflights in front of the authentication and Vary see to it.
THEOREM RefusalsAreForbidden == Spec => []RefusedWasForbidden
<1>1. IInv => RefusedWasForbidden
  BY DEF IInv, JudgedRightly
<1> QED BY <1>1, IInvHolds, PTL

\* A withdrawn permission is at most a Max-Age old when a request that needs it is handled.
THEOREM HandledIsPermitted == Spec => []HandledWasPermitted
<1>1. IInv => HandledWasPermitted
  BY DEF IInv, SentIsPermitted, Permitted, HandledWasPermitted
<1> QED BY <1>1, IInvHolds, PTL

\* Every response from behind CORS is hardened, the ones of the authentication too.
THEOREM ResponsesHardened == Spec => []ResponsesAreHardened
<1>1. IInv => ResponsesAreHardened
  BY DEF IInv, Hardened
<1> QED BY <1>1, IInvHolds, PTL

-----------------------------------------------------------------------------
Event ==
  [id : Nat, Timestamp : Nat, Type : {"auth.login", "authz.access_denied", "authz.access_granted"},
   Subject : Subjects \cup {""}, Result : {"allow", "deny"}, Meta : Metas \cup {"map"}]

Row == {RowOf(e) : e \in Event} \cup {[mapped |-> e] : e \in Event}

Places == 1..(Len(Sinks) + 1)

Request ==
  [pc : {"handler", "log", "encoded", "done"}, mode : Modes, sent : Statuses \cup {0, 200},
   status : Statuses \cup {200}, headers : Nat, late : BOOLEAN,
   event : Event \cup {NULL}, k : Places,
   first : Places \cup {0}, failed : SUBSET Places, then : {NULL, "handler", "done"},
   panicked : BOOLEAN]

\* Requests that a handler still runs for, and those whose verdict is being or has been logged.
Running(q) == q.pc = "handler" \/ (q.pc \in {"log", "encoded"} /\ q.then = "handler")
Ruling(q) == \/ q.pc \in {"log", "encoded"} /\ q.then = "done"
             \/ q.pc = "done" /\ ~q.panicked

\* Holds, in the logs ls and the tables ts.
HeldBy(ls, ts, k, e) ==
  IF Sinks[k].kind = "json" THEN e \in ls[k]
  ELSE (IF Logger(k).mapper THEN [mapped |-> e] ELSE RowOf(e)) \in ts[Logger(k).insertSQL]

\* The loop of MultiLogger is at sink k: the sinks before it hold the event or have failed.
LoopOK(ls, ts, q) ==
  /\ q.failed \subseteq 1..(q.k - 1)
  /\ \A k \in 1..(q.k - 1) : k \in q.failed \/ HeldBy(ls, ts, k, q.event)
  /\ q.first = 0 <=> q.failed = {}
  /\ q.failed # {} => q.first \in q.failed /\ \A k \in q.failed : q.first <= k
  /\ q.pc \in {"log", "encoded"} => q.event \in Event /\ q.then \in {"handler", "done"}
  /\ q.pc = "encoded" => q.k \in DOMAIN Sinks /\ Sinks[q.k].kind = "json"

\* The recorder and the client agree as long as no WriteHeader comes after a status was sent.
RecorderOK(q) ==
  /\ Running(q) /\ ~q.late => q.status = IF q.sent = 0 THEN 200 ELSE q.sent
  /\ q.mode = "auto" /\ Ruling(q) /\ ~q.late =>
       /\ q.event.Result = resultForStatus(q.sent) /\ q.event.Type = eventTypeForStatus(q.sent)
  /\ q.mode = "auto" /\ q.pc = "done" /\ ~q.panicked => q.k = Len(Sinks) + 1

RequestOK(ls, ts, q) == q = Idle \/ (q \in Request /\ LoopOK(ls, ts, q) /\ RecorderOK(q))

\* The requests that Room keeps an event for.
Owes(q) == q.pc # "idle" /\ q.mode = "auto" /\ (q.pc = "handler" \/ q.then = "handler")
Owing == {p \in Procs : Owes(reqs[p])}

Own(k) == Sinks[k].kind = "db" /\ ~Logger(k).customSchema

\* The table of a sink of the SDK's own schema holds the events that have reached it.
TrailOK(k, ts, ac) == Own(k) => ts[Logger(k).insertSQL] = {RowOf(e) : e \in ac[k]}

Stores ==
  /\ encErr \subseteq {k \in DOMAIN Sinks : Sinks[k].kind = "json"}
  /\ lines \in [DOMAIN Sinks -> SUBSET Event]
  /\ tables \in [Tables -> SUBSET Row]
  /\ saved \in [DOMAIN Sinks -> SUBSET Event]
  /\ \A k \in DOMAIN Sinks : IsFiniteSet(saved[k]) /\ TrailOK(k, tables, saved)

Bounded == /\ clock \in 0..MaxClock /\ nextID \in Nat \ {0}
           /\ nextID + Cardinality(Owing) <= MaxEvents + 1

AInv == /\ AuditConstants
        /\ Bounded /\ Stores
        /\ reqs \in [Procs -> Request \cup {Idle}]
        /\ \A p \in Procs : RequestOK(lines, tables, reqs[p])

-----------------------------------------------------------------------------
(* The options of NewDBLogger.                                               *)

Steps(f, n, o) == f = [i \in 0..n |-> IF i = 0 THEN DefaultLogger ELSE ApplyOption(f[i - 1], o[i])]

LEMMA Unfold ==
  ASSUME NEW opts
  PROVE  NewDBLogger(opts) = (CHOOSE f : Steps(f, Len(opts), opts))[Len(opts)]
BY DEF NewDBLogger, Steps

LEMMA StepsExist ==
  ASSUME NEW o
  PROVE  \A n \in Nat : \E f : Steps(f, n, o)
<1> DEFINE D == {n \in Nat : ~\E f : Steps(f, n, o)}
           R == OpToRel(<, Nat)
<1>1. SUFFICES ASSUME D # {} PROVE FALSE
  OBVIOUS
<1>2. IsWellFoundedOn(R, Nat)
  BY NatLessThanWellFounded
<1>3. PICK m \in D : \A k \in D : ~(<<k, m>> \in R)
  BY <1>1, <1>2, WFMin
<1>4. m \in Nat /\ \A k \in Nat : k < m => \E f : Steps(f, k, o)
  BY <1>3 DEF OpToRel
<1>5. CASE m = 0
  <2> DEFINE f == [i \in 0..0 |-> DefaultLogger]
  <2>1. Steps(f, 0, o)
    BY DEF Steps
  <2> QED BY <1>3, <1>5, <2>1
<1>6. CASE m # 0
  <2>1. m - 1 \in Nat /\ m - 1 < m
    BY <1>4, <1>6
  <2>2. PICK g : Steps(g, m - 1, o)
    BY <1>4, <2>1
  <2> DEFINE f == [i \in 0..m |-> IF i = m THEN ApplyOption(g[m - 1], o[m]) ELSE g[i]]
  <2>3. \A i \in 0..(m - 1) : g[i] = IF i = 0 THEN DefaultLogger ELSE ApplyOption(g[i - 1], o[i])
    BY <2>2, Zenon DEF Steps
  <2>4. \A i \in 0..m : f[i] = IF i = 0 THEN DefaultLogger ELSE ApplyOption(f[i - 1], o[i])
    <3> SUFFICES ASSUME NEW i \in 0..m PROVE f[i] = IF i = 0 THEN DefaultLogger ELSE ApplyOption(f[i - 1], o[i])
      OBVIOUS
    <3>1. CASE i = m
      <4>1. f[i] = ApplyOption(g[m - 1], o[m]) /\ f[m - 1] = g[m - 1]
        BY <1>4, <2>1, <3>1
      <4> QED BY <1>6, <3>1, <4>1
    <3>2. CASE i # m /\ i = 0
      BY <1>4, <2>3, <3>2
    <3>3. CASE i # m /\ i # 0
      <4>1. i \in 0..(m - 1) /\ i - 1 \in 0..m /\ i - 1 # m
        BY <1>4, <3>3
      <4>2. f[i] = g[i] /\ f[i - 1] = g[i - 1]
        BY <3>3, <4>1
      <4> QED BY <2>3, <3>3, <4>1, <4>2
    <3> QED BY <3>1, <3>2, <3>3
  <2>5. f = [i \in 0..m |-> f[i]]
    OBVIOUS
  <2> HIDE DEF f
  <2>6. Steps(f, m, o)
    BY <2>4, <2>5 DEF Steps
  <2> QED BY <1>3, <2>6
<1> QED BY <1>5, <1>6

Kept(l) == /\ DOMAIN l = {"table", "insertSQL", "mapper", "customSchema"}
           /\ l.customSchema \/ (l.table = l.insertSQL /\ l.mapper = FALSE)

LEMMA KeptByOption ==
  ASSUME NEW l, Kept(l), NEW o
  PROVE  Kept(ApplyOption(l, o))
BY DEF Kept, ApplyOption, WithTableName, WithCustomSchema

LEMMA LoggerKept ==
  ASSUME NEW opts, Len(opts) \in Nat
  PROVE  Kept(NewDBLogger(opts))
<1> DEFINE n == Len(opts)
           f == CHOOSE g : Steps(g, n, opts)
           D == {i \in Nat : i <= n /\ ~Kept(f[i])}
           R == OpToRel(<, Nat)
<1>1. Steps(f, n, opts)
  BY StepsExist
<1>2. NewDBLogger(opts) = f[n]
  BY Unfold
<1> HIDE DEF f, n
<1>3. \A i \in 0..n : f[i] = IF i = 0 THEN DefaultLogger ELSE ApplyOption(f[i - 1], opts[i])
  BY <1>1, Zenon DEF Steps
<1>4. SUFFICES ASSUME D # {} PROVE FALSE
  BY <1>2 DEF n
<1>5. IsWellFoundedOn(R, Nat)
  BY NatLessThanWellFounded
<1>6. PICK m \in D : \A k \in D : ~(<<k, m>> \in R)
  <2> HIDE DEF D, R
  <2>1. D \subseteq Nat
    BY DEF D
  <2> QED BY <1>4, <1>5, <2>1, WFMin
<1>7. m \in 0..n /\ ~Kept(f[m]) /\ \A k \in Nat : k < m => Kept(f[k])
  <2>1. n \in Nat /\ m \in Nat /\ m <= n /\ ~Kept(f[m])
    BY <1>6 DEF n
  <2>2. ASSUME NEW k \in Nat, k < m PROVE Kept(f[k])
    <3>1. <<k, m>> \in R /\ k <= n
      BY <2>1, <2>2 DEF OpToRel
    <3> QED BY <1>6, <3>1
  <2> QED BY <2>1, <2>2
<1>8. CASE m = 0
  BY <1>3, <1>7, <1>8 DEF Kept, DefaultLogger
<1>9. CASE m # 0
  BY <1>3, <1>7, <1>9, KeptByOption
<1> QED BY <1>8, <1>9

\* A logger without a custom schema reads the table it inserts into, and maps nothing.
LEMMA OwnSchema ==
  ASSUME AuditConstants, NEW k \in DOMAIN Sinks, Own(k)
  PROVE  Logger(k).table = Logger(k).insertSQL /\ ~Logger(k).mapper /\ Logger(k).insertSQL \in Tables
<1>1. Len(Sinks[k].opts) \in Nat /\ Logger(k).insertSQL \in Tables
  BY DEF AuditConstants, Own
<1>2. Kept(Logger(k))
  BY <1>1, LoggerKept DEF Logger
<1> QED BY <1>1, <1>2 DEF Kept, Own

-----------------------------------------------------------------------------
(* Steps.                                                                    *)

LEMMA NotIdle ==
  ASSUME NEW q \in Request
  PROVE  q # Idle /\ q.pc # "idle"
BY DEF Request, Idle

LEMMA AtWork ==
  ASSUME AInv, NEW p \in Procs, reqs[p] # Idle \/ reqs[p].pc # "idle"
  PROVE  /\ reqs[p] \in Request /\ reqs[p] # Idle
         /\ LoopOK(lines, tables, reqs[p]) /\ RecorderOK(reqs[p])
<1>1. Idle.pc = "idle"
  BY DEF Idle
<1>2. reqs[p] # Idle
  BY <1>1
<1> QED BY <1>2 DEF AInv, RequestOK

\* What a sink holds it keeps.
LEMMA HeldStays ==
  ASSUME AInv, NEW k \in DOMAIN Sinks, NEW e, HeldBy(lines, tables, k, e),
         \A j \in DOMAIN Sinks : lines[j] \subseteq lines'[j],
         \A t \in Tables : tables[t] \subseteq tables'[t]
  PROVE  HeldBy(lines', tables', k, e)
<1>1. CASE Sinks[k].kind = "json"
  BY <1>1 DEF HeldBy
<1>2. CASE Sinks[k].kind # "json"
  <2>1. Logger(k).insertSQL \in Tables
    BY <1>2 DEF AInv, AuditConstants
  <2> QED BY <1>2, <2>1 DEF HeldBy
<1> QED BY <1>1, <1>2

\* A step of one goroutine that only adds to the logs.
LEMMA StepOf ==
  ASSUME AInv, NEW p \in Procs, Bounded', Stores',
         \A j \in DOMAIN Sinks : lines[j] \subseteq lines'[j],
         \A t \in Tables : tables[t] \subseteq tables'[t]
  PROVE  \A d \in Request \cup {Idle} :
           RequestOK(lines', tables', d) /\ reqs' = [reqs EXCEPT ![p] = d] => AInv'
<1> SUFFICES ASSUME NEW d \in Request \cup {Idle}, RequestOK(lines', tables', d),
                    reqs' = [reqs EXCEPT ![p] = d]
             PROVE  AInv'
  OBVIOUS
<1>1. /\ reqs' \in [Procs -> Request \cup {Idle}] /\ reqs'[p] = d
      /\ \A r \in Procs : r # p => reqs'[r] = reqs[r]
  BY DEF AInv
<1>2. ASSUME NEW r \in Procs, r # p
      PROVE  RequestOK(lines', tables', reqs'[r])
  <2>1. reqs'[r] = reqs[r]
    BY <1>1, <1>2
  <2>2. CASE reqs[r] = Idle
    BY <2>1, <2>2 DEF RequestOK
  <2>3. CASE reqs[r] # Idle
    <3>1. reqs[r] \in Request /\ LoopOK(lines, tables, reqs[r]) /\ RecorderOK(reqs[r])
      BY <2>3, AtWork
    <3>2. \A k \in 1..(reqs[r].k - 1) : k \in DOMAIN Sinks
      BY <3>1 DEF AInv, AuditConstants, Request, Places
    <3>3. \A k \in 1..(reqs[r].k - 1) : k \in reqs[r].failed \/ HeldBy(lines', tables', k, reqs[r].event)
      BY <3>1, <3>2, HeldStays DEF LoopOK
    <3>4. LoopOK(lines', tables', reqs[r])
      BY <3>1, <3>3 DEF LoopOK
    <3> QED BY <2>1, <3>1, <3>4 DEF RequestOK
  <2> QED BY <2>2, <2>3
<1>3. \A r \in Procs : RequestOK(lines', tables', reqs'[r])
  BY <1>1, <1>2
<1> QED BY <1>1, <1>3 DEF AInv

\* What a step of goroutine p changes of the events that Room keeps free.
LEMMA OwingStep ==
  ASSUME AInv, NEW p \in Procs
  PROVE  /\ Cardinality(Owing) \in Nat
         /\ \A d : reqs' = [reqs EXCEPT ![p] = d] =>
              /\ Cardinality(Owing') \in Nat /\ Cardinality(Owing') <= Cardinality(Owing) + 1
              /\ (Owes(d) => Owes(reqs[p])) => Cardinality(Owing') <= Cardinality(Owing)
              /\ ~Owes(d) /\ Owes(reqs[p]) => Cardinality(Owing') + 1 <= Cardinality(Owing)
<1>1. IsFiniteSet(Owing) /\ Cardinality(Owing) \in Nat
  <2>1. Owing \subseteq Procs /\ IsFiniteSet(Procs)
    BY DEF Owing, AInv, AuditConstants
  <2> QED BY <2>1, FS_Subset, FS_CardinalityType
<1>2. SUFFICES ASSUME NEW d, reqs' = [reqs EXCEPT ![p] = d]
               PROVE  /\ Cardinality(Owing') \in Nat /\ Cardinality(Owing') <= Cardinality(Owing) + 1
                      /\ (Owes(d) => Owes(reqs[p])) => Cardinality(Owing') <= Cardinality(Owing)
                      /\ ~Owes(d) /\ Owes(reqs[p]) => Cardinality(Owing') + 1 <= Cardinality(Owing)
  BY <1>1
<1> DEFINE O == {r \in Procs : Owes(reqs'[r])}
<1>3. Owing' = O
  BY DEF Owing, Owes
<1>4. reqs'[p] = d /\ \A r \in Procs : r # p => reqs'[r] = reqs[r]
  BY <1>2 DEF AInv
<1>5. /\ O \subseteq Owing \cup {p}
      /\ (Owes(d) => Owes(reqs[p])) => O \subseteq Owing
      /\ ~Owes(d) /\ Owes(reqs[p]) => O \subseteq Owing \ {p} /\ p \in Owing
  BY <1>4 DEF Owing
<1> HIDE DEF O
<1>6. IsFiniteSet(Owing \cup {p}) /\ Cardinality(Owing \cup {p}) \in {Cardinality(Owing), Cardinality(Owing) + 1}
  BY <1>1, FS_AddElement
<1>7. p \in Owing => IsFiniteSet(Owing \ {p}) /\ Cardinality(Owing \ {p}) = Cardinality(Owing) - 1
  BY <1>1, FS_RemoveElement
<1>8. IsFiniteSet(O) /\ Cardinality(O) \in Nat /\ Cardinality(O) <= Cardinality(Owing \cup {p})
  BY <1>5, <1>6, FS_Subset, FS_CardinalityType
<1>9. Cardinality(Owing \cup {p}) \in Nat
  BY <1>6, FS_CardinalityType
<1>10. (Owes(d) => Owes(reqs[p])) => Cardinality(O) <= Cardinality(Owing)
  BY <1>1, <1>5, FS_Subset
<1>11. ~Owes(d) /\ Owes(reqs[p]) => Cardinality(O) <= Cardinality(Owing \ {p})
  BY <1>5, <1>7, FS_Subset
<1> QED BY <1>1, <1>3, <1>5, <1>6, <1>7, <1>8, <1>9, <1>10, <1>11

LEMMA SameStores ==
  ASSUME AInv, LogsUnchanged
  PROVE  /\ Stores'
         /\ \A j \in DOMAIN Sinks : lines[j] \subseteq lines'[j]
         /\ \A t \in Tables : tables[t] \subseteq tables'[t]
BY DEF AInv, Stores, LogsUnchanged, TrailOK

\* A step within the handler, between two sinks or at the end owes no more than before.
LEMMA SameClock ==
  ASSUME AInv, NEW p \in Procs, ClockUnchanged
  PROVE  \A d : reqs' = [reqs EXCEPT ![p] = d] /\ (Owes(d) => Owes(reqs[p])) => Bounded'
<1> SUFFICES ASSUME NEW d, reqs' = [reqs EXCEPT ![p] = d], Owes(d) => Owes(reqs[p])
             PROVE  Bounded'
  OBVIOUS
<1>1. Cardinality(Owing) \in Nat /\ Cardinality(Owing') \in Nat /\ Cardinality(Owing') <= Cardinality(Owing)
  BY OwingStep
<1> QED BY <1>1 DEF AInv, AuditConstants, Bounded, ClockUnchanged

-----------------------------------------------------------------------------
LEMMA InitAInv == AuditConstants /\ AuditInit => AInv
<1> SUFFICES ASSUME AuditConstants, AuditInit PROVE AInv
  OBVIOUS
<1>1. Stores
  <2>1. \A k \in DOMAIN Sinks : IsFiniteSet(saved[k])
    BY FS_EmptySet DEF AuditInit
  <2>2. \A k \in DOMAIN Sinks : TrailOK(k, tables, saved)
    BY DEF AuditInit, TrailOK, AuditConstants, Own
  <2> QED BY <2>1, <2>2 DEF AuditInit, Stores
<1>2. Bounded
  <2>1. \A p \in Procs : reqs[p].pc = "idle"
    BY DEF AuditInit, Idle
  <2>2. Owing = {}
    BY <2>1 DEF Owing, Owes
  <2>3. Cardinality(Owing) = 0
    BY <2>2, FS_EmptySet
  <2> QED BY <2>3 DEF AuditInit, Bounded, AuditConstants
<1>3. reqs \in [Procs -> Request \cup {Idle}] /\ \A p \in Procs : RequestOK(lines, tables, reqs[p])
  BY DEF AuditInit, RequestOK
<1> QED BY <1>1, <1>2, <1>3 DEF AInv

LEMMA BeginAInv ==
  ASSUME AInv, NEW p \in Procs, NEW mode \in Modes, Begin(p, mode)
  PROVE  AInv'
<1> DEFINE d == [pc |-> "handler", mode |-> mode, sent |-> 0, status |-> 200, headers |-> 0, late |-> FALSE,
                 event |-> NULL, k |-> 1, first |-> 0, failed |-> {}, then |-> NULL, panicked |-> FALSE]
<1>1. /\ reqs' = [reqs EXCEPT ![p] = d] /\ ClockUnchanged /\ LogsUnchanged
      /\ mode = "auto" => Room
  BY DEF Begin
<1>2. 1 \in Places
  BY DEF AInv, AuditConstants, Places
<1>3. d \in Request
  BY <1>2 DEF Request
<1>4. /\ d.pc = "handler" /\ d.mode = mode /\ d.sent = 0 /\ d.status = 200 /\ d.k = 1
      /\ d.first = 0 /\ d.failed = {} /\ d.panicked = FALSE
  OBVIOUS
<1> HIDE DEF d
<1>5. LoopOK(lines', tables', d) /\ RecorderOK(d)
  BY <1>4 DEF LoopOK, RecorderOK, Ruling
<1>6. Cardinality(Owing) \in Nat /\ Cardinality(Owing') \in Nat /\ Cardinality(Owing') <= Cardinality(Owing) + 1
  BY <1>1, OwingStep
<1>7. mode # "auto" => Cardinality(Owing') <= Cardinality(Owing)
  BY <1>1, <1>4, OwingStep DEF Owes
<1>8. mode = "auto" => nextID + Cardinality(Owing) <= MaxEvents
  BY <1>1 DEF Room, Owing, Owes
<1>9. Bounded'
  BY <1>1, <1>6, <1>7, <1>8 DEF Bounded, AInv, AuditConstants, ClockUnchanged
<1> QED BY <1>1, <1>3, <1>5, <1>9, SameStores, StepOf DEF RequestOK

LEMMA WriteHeaderAInv ==
  ASSUME AInv, NEW p \in Procs, NEW status \in Statuses, WriteHeader(p, status)
  PROVE  AInv'
<1> DEFINE q == reqs[p]
           sent == IF q.sent = 0 THEN status ELSE q.sent
           late == q.late \/ q.sent # 0
           n == q.headers + 1
           d == [q EXCEPT !.sent = sent, !.status = status, !.headers = n, !.late = late]
<1>1. /\ q.pc = "handler" /\ ClockUnchanged /\ LogsUnchanged
      /\ reqs' = [reqs EXCEPT ![p].sent = IF @ = 0 THEN status ELSE @, ![p].status = status,
                              ![p].headers = @ + 1, ![p].late = @ \/ reqs[p].sent # 0]
  BY DEF WriteHeader
<1>2. q \in Request /\ LoopOK(lines, tables, q) /\ RecorderOK(q)
  BY <1>1, AtWork
<1>3. reqs' = [reqs EXCEPT ![p] = d]
  BY <1>1 DEF AInv
<1>4. n \in Nat /\ late \in BOOLEAN /\ sent \in Statuses \cup {0, 200} /\ status # 0
  BY <1>2 DEF Request, AInv, AuditConstants
<1>5. ~late => sent = status /\ sent # 0
  BY <1>4
<1> HIDE DEF n, sent, late
<1>6. d \in Request
  BY <1>2, <1>4 DEF Request
<1>7. /\ d.pc = q.pc /\ d.mode = q.mode /\ d.sent = sent /\ d.status = status /\ d.late = late
      /\ d.event = q.event /\ d.k = q.k /\ d.first = q.first /\ d.failed = q.failed
      /\ d.then = q.then /\ d.panicked = q.panicked
  BY <1>2 DEF Request
<1> HIDE DEF d
<1>8. LoopOK(lines', tables', d) /\ RecorderOK(d)
  <2>1. LoopOK(lines', tables', d)
    BY <1>1, <1>2, <1>7 DEF LoopOK, LogsUnchanged
  <2>2. RecorderOK(d)
    BY <1>1, <1>5, <1>7 DEF RecorderOK, Running, Ruling
  <2> QED BY <2>1, <2>2
<1>9. Bounded'
  <2>1. Owes(d) => Owes(reqs[p])
    BY <1>7 DEF Owes
  <2> QED BY <1>1, <1>3, <2>1, SameClock
<1> QED BY <1>1, <1>3, <1>6, <1>8, <1>9, SameStores, StepOf DEF RequestOK

LEMMA WriteAInv ==
  ASSUME AInv, NEW p \in Procs, Write(p)
  PROVE  AInv'
<1> DEFINE q == reqs[p]
           d == [q EXCEPT !.sent = 200]
<1>1. /\ q.pc = "handler" /\ q.sent = 0 /\ ClockUnchanged /\ LogsUnchanged
      /\ reqs' = [reqs EXCEPT ![p].sent = 200]
  BY DEF Write
<1>2. q \in Request /\ LoopOK(lines, tables, q) /\ RecorderOK(q)
  BY <1>1, AtWork
<1>3. reqs' = [reqs EXCEPT ![p] = d]
  BY <1>1 DEF AInv
<1>4. d \in Request
  BY <1>2 DEF Request
<1>5. /\ d.pc = q.pc /\ d.mode = q.mode /\ d.sent = 200 /\ d.status = q.status /\ d.late = q.late
      /\ d.event = q.event /\ d.k = q.k /\ d.first = q.first /\ d.failed = q.failed
      /\ d.then = q.then /\ d.panicked = q.panicked
  BY <1>2 DEF Request
<1> HIDE DEF d
<1>6. LoopOK(lines', tables', d)
  BY <1>1, <1>2, <1>5 DEF LoopOK, LogsUnchanged
<1>7. RecorderOK(d)
  BY <1>1, <1>2, <1>5 DEF RecorderOK, Running, Ruling
<1>8. Bounded'
  <2>1. Owes(d) => Owes(reqs[p])
    BY <1>5 DEF Owes
  <2> QED BY <1>1, <1>3, <2>1, SameClock
<1> QED BY <1>1, <1>3, <1>4, <1>6, <1>7, <1>8, SameStores, StepOf DEF RequestOK

\* The state after StartLog, whatever event is to be logged.
LEMMA StartLogAInv ==
  ASSUME AInv, NEW p \in Procs, NEW q \in Request, NEW event \in Event, NEW then \in {"handler", "done"},
         StartLog(p, q, event, then), reqs[p].pc = "handler",
         q.mode = reqs[p].mode,
         then = "handler" => RecorderOK(q) /\ q.pc = "handler" /\ Room,
         then = "done" /\ q.mode = "auto" /\ ~q.late =>
           event.Result = resultForStatus(q.sent) /\ event.Type = eventTypeForStatus(q.sent),
         then = "done" => q.mode = "auto"
  PROVE  AInv'
<1> DEFINE d == [q EXCEPT !.pc = "log", !.event = event, !.k = 1, !.first = 0, !.failed = {}, !.then = then]
<1>1. reqs' = [reqs EXCEPT ![p] = d] /\ nextID' = nextID + 1 /\ clock' = clock /\ LogsUnchanged
  BY DEF StartLog
<1>2. 1 \in Places
  BY DEF AInv, AuditConstants, Places
<1>3. d \in Request
  BY <1>2 DEF Request
<1>4. /\ d.pc = "log" /\ d.mode = q.mode /\ d.sent = q.sent /\ d.status = q.status /\ d.late = q.late
      /\ d.event = event /\ d.k = 1 /\ d.first = 0 /\ d.failed = {}
      /\ d.then = then /\ d.panicked = q.panicked
  BY DEF Request
<1> HIDE DEF d
<1>5. LoopOK(lines', tables', d)
  BY <1>4 DEF LoopOK
<1>6. RecorderOK(d)
  BY <1>4 DEF RecorderOK, Running, Ruling
<1>7. /\ Cardinality(Owing) \in Nat /\ Cardinality(Owing') \in Nat
      /\ (Owes(d) => Owes(reqs[p])) => Cardinality(Owing') <= Cardinality(Owing)
      /\ ~Owes(d) /\ Owes(reqs[p]) => Cardinality(Owing') + 1 <= Cardinality(Owing)
  BY <1>1, OwingStep
<1>8. then = "handler" => nextID + Cardinality(Owing) <= MaxEvents
  BY DEF Room, Owing, Owes
<1>9. /\ then = "handler" => (Owes(d) => Owes(reqs[p]))
      /\ then = "done" => ~Owes(d) /\ Owes(reqs[p])
  BY <1>4 DEF Owes
<1>10. nextID \in Nat \ {0} /\ clock \in 0..MaxClock /\ MaxEvents \in Nat /\ nextID + Cardinality(Owing) <= MaxEvents + 1
  BY DEF AInv, Bounded, AuditConstants
<1>11. nextID' + Cardinality(Owing') <= MaxEvents + 1
  <2>1. CASE then = "handler"
    BY <1>1, <1>7, <1>8, <1>9, <1>10, <2>1
  <2>2. CASE then = "done"
    BY <1>1, <1>7, <1>9, <1>10, <2>2
  <2> QED BY <2>1, <2>2
<1>12. Bounded'
  BY <1>1, <1>10, <1>11 DEF Bounded
<1> QED BY <1>1, <1>3, <1>5, <1>6, <1>12, SameStores, StepOf DEF RequestOK

LEMMA Counters == AInv => nextID \in Nat /\ clock \in Nat
<1>1. AInv => nextID \in Nat \ {0} /\ clock \in 0..MaxClock
  BY DEF AInv, Bounded
<1>2. AInv => MaxClock \in Nat
  <2>1. AuditConstants => {MaxHeaders, MaxEvents, MaxClock} \subseteq Nat
    BY DEF AuditConstants
  <2> QED BY <2>1 DEF AInv
<1> QED BY <1>1, <1>2

LEMMA EventType ==
  ASSUME AInv, NEW type \in {"auth.login", "authz.access_denied", "authz.access_granted"},
         NEW subject \in Subjects \cup {""}, NEW result \in {"allow", "deny"}, NEW meta \in Metas \cup {"map"}
  PROVE  [id |-> nextID, Timestamp |-> clock, Type |-> type, Subject |-> subject,
          Result |-> result, Meta |-> meta] \in Event
BY Counters DEF Event

LEMMA HandlerLogAInv ==
  ASSUME AInv, NEW p \in Procs, NEW subject \in Subjects, NEW meta \in Metas, HandlerLog(p, subject, meta)
  PROVE  AInv'
<1> DEFINE event == [id |-> nextID, Timestamp |-> clock, Type |-> "auth.login", Subject |-> subject,
                     Result |-> "allow", Meta |-> meta]
<1>1. reqs[p].pc = "handler" /\ Room /\ StartLog(p, reqs[p], event, "handler")
  BY DEF HandlerLog
<1>2. event \in Event
  BY EventType
<1>3. reqs[p] \in Request /\ RecorderOK(reqs[p])
  BY <1>1, AtWork
<1> HIDE DEF event
<1> QED BY <1>1, <1>2, <1>3, StartLogAInv

LEMMA FinishAInv ==
  ASSUME AInv, NEW p \in Procs, Finish(p)
  PROVE  AInv'
<1> DEFINE r == reqs[p]
           sent == IF r.sent = 0 THEN 200 ELSE r.sent
           q == [r EXCEPT !.sent = sent]
           event == [id |-> nextID, Timestamp |-> clock, Type |-> eventTypeForStatus(q.status),
                     Subject |-> "", Result |-> resultForStatus(q.status), Meta |-> "map"]
<1>1. r.pc = "handler"
  BY DEF Finish
<1>2. r \in Request /\ LoopOK(lines, tables, r) /\ RecorderOK(r)
  BY <1>1, AtWork
<1>3. [r EXCEPT !.sent = IF @ = 0 THEN 200 ELSE @] = q
  BY <1>2 DEF Request
<1>4. IF q.mode = "auto" THEN StartLog(p, q, event, "done")
      ELSE /\ reqs' = [reqs EXCEPT ![p] = [q EXCEPT !.pc = "done"]]
           /\ ClockUnchanged /\ LogsUnchanged
  BY <1>3, Zenon DEF Finish
<1>5. sent \in Statuses \cup {0, 200} /\ (~r.late => sent = r.status)
  BY <1>1, <1>2 DEF Request, RecorderOK, Running
<1> HIDE DEF sent
<1>6. q \in Request
  BY <1>2, <1>5 DEF Request
<1>7. /\ q.pc = r.pc /\ q.mode = r.mode /\ q.sent = sent /\ q.status = r.status /\ q.late = r.late
      /\ q.event = r.event /\ q.k = r.k /\ q.first = r.first /\ q.failed = r.failed
      /\ q.then = r.then /\ q.panicked = r.panicked
  BY <1>2 DEF Request
<1>8. eventTypeForStatus(q.status) \in {"auth.login", "authz.access_denied", "authz.access_granted"}
      /\ resultForStatus(q.status) \in {"allow", "deny"}
  BY DEF eventTypeForStatus, resultForStatus
<1>9. event \in Event /\ event.Type = eventTypeForStatus(q.status) /\ event.Result = resultForStatus(q.status)
  BY <1>8, EventType
<1> HIDE DEF q, event
<1>10. CASE q.mode = "auto"
  <2>1. StartLog(p, q, event, "done")
    BY <1>4, <1>10
  <2>2. ~q.late => event.Result = resultForStatus(q.sent) /\ event.Type = eventTypeForStatus(q.sent)
    BY <1>5, <1>7, <1>9
  <2> QED BY <1>1, <1>6, <1>7, <1>9, <1>10, <2>1, <2>2, StartLogAInv
<1>11. CASE q.mode # "auto"
  <2> DEFINE d == [q EXCEPT !.pc = "done"]
  <2>1. reqs' = [reqs EXCEPT ![p] = d] /\ ClockUnchanged /\ LogsUnchanged
    BY <1>4, <1>11
  <2>2. d \in Request
    BY <1>6 DEF Request
  <2>3. /\ d.pc = "done" /\ d.mode = q.mode /\ d.event = q.event /\ d.k = q.k /\ d.first = q.first
        /\ d.failed = q.failed
    BY <1>6 DEF Request
  <2> HIDE DEF d
  <2>4. LoopOK(lines', tables', d)
    BY <1>2, <1>7, <2>1, <2>3 DEF LoopOK, LogsUnchanged
  <2>5. RecorderOK(d)
    BY <1>11, <2>3 DEF RecorderOK, Running
  <2>6. Bounded'
    <3>1. Owes(d) => Owes(reqs[p])
      BY <1>11, <2>3 DEF Owes
    <3> QED BY <2>1, <3>1, SameClock
  <2> QED BY <2>1, <2>2, <2>4, <2>5, <2>6, SameStores, StepOf DEF RequestOK
<1> QED BY <1>10, <1>11

LEMMA PanicAInv ==
  ASSUME AInv, NEW p \in Procs, Panic(p)
  PROVE  AInv'
<1> DEFINE q == reqs[p]
           d == [q EXCEPT !.pc = "done", !.panicked = TRUE]
<1>1. /\ q.pc = "handler" /\ ClockUnchanged /\ LogsUnchanged
      /\ reqs' = [reqs EXCEPT ![p].pc = "done", ![p].panicked = TRUE]
  BY DEF Panic
<1>2. q \in Request /\ LoopOK(lines, tables, q)
  BY <1>1, AtWork
<1>3. reqs' = [reqs EXCEPT ![p] = d]
  BY <1>1 DEF AInv
<1>4. d \in Request
  BY <1>2 DEF Request
<1>5. /\ d.pc = "done" /\ d.mode = q.mode /\ d.event = q.event /\ d.k = q.k /\ d.first = q.first
      /\ d.failed = q.failed /\ d.then = q.then /\ d.panicked = TRUE
  BY <1>2 DEF Request
<1> HIDE DEF d
<1>6. LoopOK(lines', tables', d)
  BY <1>1, <1>2, <1>5 DEF LoopOK, LogsUnchanged
<1>7. RecorderOK(d)
  BY <1>5 DEF RecorderOK, Running, Ruling
<1>8. Bounded'
  <2>1. Owes(d) => Owes(reqs[p])
    BY <1>1, <1>5 DEF Owes
  <2> QED BY <1>1, <1>3, <2>1, SameClock
<1> QED BY <1>1, <1>3, <1>4, <1>6, <1>7, <1>8, SameStores, StepOf DEF RequestOK

-----------------------------------------------------------------------------
(* The loop over the sinks.                                                  *)

\* The sink asked has failed, whether it has kept the event or not.
LEMMA SinkErrorAInv ==
  ASSUME AInv, NEW p \in Procs, SinkError(p), reqs[p].pc \in {"log", "encoded"},
         reqs[p].k \in DOMAIN Sinks, Stores', ClockUnchanged,
         \A j \in DOMAIN Sinks : lines[j] \subseteq lines'[j],
         \A t \in Tables : tables[t] \subseteq tables'[t]
  PROVE  AInv'
<1> DEFINE q == reqs[p]
           j == q.k
           first == IF q.first = 0 THEN j ELSE q.first
           failed == q.failed \cup {j}
           d == [q EXCEPT !.first = first, !.failed = failed, !.k = j + 1, !.pc = "log"]
<1>1. q \in Request /\ LoopOK(lines, tables, q) /\ RecorderOK(q)
  BY AtWork
<1>2. reqs' = [reqs EXCEPT ![p] = d]
  BY DEF SinkError, AInv
<1>3. /\ DOMAIN Sinks = 1..Len(Sinks)
      /\ Len(Sinks) \in Nat /\ j \in Nat /\ j >= 1 /\ j <= Len(Sinks) /\ j \in Places /\ j + 1 \in Places
      /\ q.failed \subseteq 1..(j - 1) /\ q.first \in Places \cup {0} /\ q.failed \subseteq Places
  <2>1. DOMAIN Sinks = 1..Len(Sinks) /\ Len(Sinks) \in Nat
    BY DEF AInv, AuditConstants
  <2> QED BY <1>1, <2>1 DEF Request, Places, LoopOK
<1>4. /\ q.first = 0 <=> q.failed = {}
      /\ q.failed # {} => q.first \in q.failed /\ \A k \in q.failed : q.first <= k
      /\ \A k \in 1..(j - 1) : k \in q.failed \/ HeldBy(lines, tables, k, q.event)
      /\ q.event \in Event /\ q.then \in {"handler", "done"}
  BY <1>1 DEF LoopOK
<1>5. first \in Places /\ failed \in SUBSET Places /\ failed \subseteq 1..j /\ failed # {} /\ first # 0
  BY <1>3
<1>6. first \in failed /\ \A k \in failed : first <= k
  <2>1. CASE q.failed = {}
    BY <1>3, <1>4, <2>1
  <2>2. CASE q.failed # {}
    <3>1. q.first # 0 /\ first = q.first /\ q.first \in q.failed /\ \A k \in q.failed : q.first <= k
      BY <1>4, <2>2
    <3>2. q.first <= j
      BY <1>3, <3>1
    <3> QED BY <3>1, <3>2
  <2> QED BY <2>1, <2>2
<1>7. \A k \in 1..j : k \in failed \/ HeldBy(lines', tables', k, q.event)
  <2>1. \A k \in 1..j : k = j \/ k \in 1..(j - 1)
    BY <1>3
  <2>2. \A k \in 1..(j - 1) : k \in DOMAIN Sinks
    BY <1>3
  <2>3. \A k \in 1..(j - 1) : HeldBy(lines, tables, k, q.event) => HeldBy(lines', tables', k, q.event)
    BY <2>2, HeldStays
  <2> QED BY <1>4, <2>1, <2>3
<1> HIDE DEF first, failed
<1>8. d \in Request
  BY <1>1, <1>3, <1>5 DEF Request
<1>9. /\ d.pc = "log" /\ d.mode = q.mode /\ d.sent = q.sent /\ d.status = q.status /\ d.late = q.late
      /\ d.event = q.event /\ d.k = j + 1 /\ d.first = first /\ d.failed = failed
      /\ d.then = q.then /\ d.panicked = q.panicked
  BY <1>1 DEF Request
<1> HIDE DEF d
<1>10. LoopOK(lines', tables', d)
  <2>1. d.k - 1 = j
    BY <1>3, <1>9
  <2> QED BY <1>4, <1>5, <1>6, <1>7, <1>9, <2>1 DEF LoopOK
<1>11. RecorderOK(d)
  BY <1>1, <1>9 DEF RecorderOK, Running, Ruling
<1>12. Bounded'
  <2>1. Owes(d) => Owes(reqs[p])
    BY <1>9 DEF Owes
  <2> QED BY <1>2, <2>1, SameClock
<1> QED BY <1>2, <1>8, <1>10, <1>11, <1>12, StepOf DEF RequestOK

\* The sink asked has accepted the event, and holds it.
LEMMA SinkOKAInv ==
  ASSUME AInv, NEW p \in Procs, SinkOK(p), reqs[p].pc \in {"log", "encoded"},
         reqs[p].k \in DOMAIN Sinks, Stores', ClockUnchanged,
         \A j \in DOMAIN Sinks : lines[j] \subseteq lines'[j],
         \A t \in Tables : tables[t] \subseteq tables'[t],
         HeldBy(lines', tables', reqs[p].k, reqs[p].event)
  PROVE  AInv'
<1> DEFINE q == reqs[p]
           j == q.k
           d == [q EXCEPT !.k = j + 1, !.pc = "log"]
<1>1. q \in Request /\ LoopOK(lines, tables, q) /\ RecorderOK(q)
  BY AtWork
<1>2. reqs' = [reqs EXCEPT ![p] = d]
  BY DEF SinkOK, AInv
<1>3. /\ DOMAIN Sinks = 1..Len(Sinks)
      /\ Len(Sinks) \in Nat /\ j \in Nat /\ j >= 1 /\ j <= Len(Sinks) /\ j + 1 \in Places
      /\ q.failed \subseteq 1..(j - 1)
  <2>1. DOMAIN Sinks = 1..Len(Sinks) /\ Len(Sinks) \in Nat
    BY DEF AInv, AuditConstants
  <2> QED BY <1>1, <2>1 DEF Request, Places, LoopOK
<1>4. /\ q.first = 0 <=> q.failed = {}
      /\ q.failed # {} => q.first \in q.failed /\ \A k \in q.failed : q.first <= k
      /\ \A k \in 1..(j - 1) : k \in q.failed \/ HeldBy(lines, tables, k, q.event)
      /\ q.event \in Event /\ q.then \in {"handler", "done"}
  BY <1>1 DEF LoopOK
<1>5. q.failed \subseteq 1..j
  BY <1>3
<1>6. \A k \in 1..j : k \in q.failed \/ HeldBy(lines', tables', k, q.event)
  <2>1. \A k \in 1..j : k = j \/ k \in 1..(j - 1)
    BY <1>3
  <2>2. \A k \in 1..(j - 1) : k \in DOMAIN Sinks
    BY <1>3
  <2>3. \A k \in 1..(j - 1) : HeldBy(lines, tables, k, q.event) => HeldBy(lines', tables', k, q.event)
    BY <2>2, HeldStays
  <2> QED BY <1>4, <2>1, <2>3
<1>7. d \in Request
  BY <1>1, <1>3 DEF Request
<1>8. /\ d.pc = "log" /\ d.mode = q.mode /\ d.sent = q.sent /\ d.status = q.status /\ d.late = q.late
      /\ d.event = q.event /\ d.k = j + 1 /\ d.first = q.first /\ d.failed = q.failed
      /\ d.then = q.then /\ d.panicked = q.panicked
  BY <1>1 DEF Request
<1> HIDE DEF d
<1>9. LoopOK(lines', tables', d)
  <2>1. d.k - 1 = j
    BY <1>3, <1>8
  <2> QED BY <1>4, <1>5, <1>6, <1>8, <2>1 DEF LoopOK
<1>10. RecorderOK(d)
  BY <1>1, <1>8 DEF RecorderOK, Running, Ruling
<1>11. Bounded'
  <2>1. Owes(d) => Owes(reqs[p])
    BY <1>8 DEF Owes
  <2> QED BY <1>2, <2>1, SameClock
<1> QED BY <1>2, <1>7, <1>9, <1>10, <1>11, StepOf DEF RequestOK

\* The table of a sink of the SDK's own schema is the trail of that sink, and of no other.
LEMMA SavedBy ==
  ASSUME AInv, NEW j \in DOMAIN Sinks, NEW e \in Event, saved' = [saved EXCEPT ![j] = @ \cup {e}]
  PROVE  /\ saved' \in [DOMAIN Sinks -> SUBSET Event]
         /\ saved'[j] = saved[j] \cup {e} /\ \A k \in DOMAIN Sinks : k # j => saved'[k] = saved[k]
         /\ \A k \in DOMAIN Sinks : IsFiniteSet(saved'[k])
<1>1. saved \in [DOMAIN Sinks -> SUBSET Event] /\ \A k \in DOMAIN Sinks : IsFiniteSet(saved[k])
  BY DEF AInv, Stores
<1>2. saved'[j] = saved[j] \cup {e} /\ \A k \in DOMAIN Sinks : k # j => saved'[k] = saved[k]
  BY <1>1
<1>3. IsFiniteSet(saved[j] \cup {e})
  BY <1>1, FS_AddElement
<1>4. saved' \in [DOMAIN Sinks -> SUBSET Event]
  BY <1>1
<1> QED BY <1>1, <1>2, <1>3, <1>4

LEMMA EncodeAInv ==
  ASSUME AInv, NEW p \in Procs, Encode(p)
  PROVE  AInv'
<1> DEFINE q == reqs[p]
           d == [q EXCEPT !.pc = "encoded"]
<1>1. q.pc = "log" /\ q.k \in DOMAIN Sinks /\ Sinks[q.k].kind = "json" /\ ClockUnchanged /\ LogsUnchanged
  BY DEF Encode, AtSink
<1>2. SinkError(p) \/ reqs' = [reqs EXCEPT ![p].pc = "encoded"]
  BY DEF Encode
<1>3. CASE SinkError(p)
  BY <1>1, <1>3, SameStores, SinkErrorAInv DEF LogsUnchanged
<1>4. CASE reqs' = [reqs EXCEPT ![p].pc = "encoded"]
  <2>1. q \in Request /\ LoopOK(lines, tables, q) /\ RecorderOK(q)
    BY <1>1, AtWork
  <2>2. reqs' = [reqs EXCEPT ![p] = d]
    BY <1>4 DEF AInv
  <2>3. d \in Request
    BY <2>1 DEF Request
  <2>4. /\ d.pc = "encoded" /\ d.mode = q.mode /\ d.sent = q.sent /\ d.status = q.status /\ d.late = q.late
        /\ d.event = q.event /\ d.k = q.k /\ d.first = q.first /\ d.failed = q.failed
        /\ d.then = q.then /\ d.panicked = q.panicked
    BY <2>1 DEF Request
  <2> HIDE DEF d
  <2>5. LoopOK(lines', tables', d)
    BY <1>1, <2>1, <2>4 DEF LoopOK, LogsUnchanged
  <2>6. RecorderOK(d)
    BY <1>1, <2>1, <2>4 DEF RecorderOK, Running, Ruling
  <2>7. Bounded'
    <3>1. Owes(d) => Owes(reqs[p])
      BY <2>4, <1>1 DEF Owes
    <3> QED BY <1>1, <2>2, <3>1, SameClock
  <2> QED BY <1>1, <2>2, <2>3, <2>5, <2>6, <2>7, SameStores, StepOf DEF RequestOK
<1> QED BY <1>2, <1>3, <1>4

LEMMA EncoderWriteAInv ==
  ASSUME AInv, NEW p \in Procs, EncoderWrite(p)
  PROVE  AInv'
<1> DEFINE j == reqs[p].k
           e == reqs[p].event
<1>1. reqs[p].pc = "encoded" /\ ClockUnchanged /\ tables' = tables
  BY DEF EncoderWrite
<1>2. j \in DOMAIN Sinks /\ Sinks[j].kind = "json" /\ e \in Event
  BY <1>1, AtWork DEF LoopOK
<1>3. Stores
  BY DEF AInv
<1> HIDE DEF j, e
<1>4. CASE SinkError(p) /\ encErr' = encErr \cup {j} /\ UNCHANGED <<lines, saved>>
  <2>1. Stores'
    BY <1>1, <1>2, <1>3, <1>4 DEF Stores, TrailOK
  <2> QED BY <1>1, <1>2, <1>4, <2>1, SinkErrorAInv DEF j
<1>5. CASE SinkOK(p) /\ lines' = [lines EXCEPT ![j] = @ \cup {e}] /\ encErr' = encErr
  <2>1. /\ lines' \in [DOMAIN Sinks -> SUBSET Event] /\ e \in lines'[j]
        /\ \A k \in DOMAIN Sinks : lines[k] \subseteq lines'[k]
    BY <1>2, <1>3, <1>5 DEF Stores
  <2>2. saved' = [saved EXCEPT ![j] = @ \cup {e}]
    BY <1>5 DEF SinkOK, j, e
  <2>3. \A k \in DOMAIN Sinks : TrailOK(k, tables, saved')
    <3>1. \A k \in DOMAIN Sinks : Own(k) => k # j
      BY <1>2 DEF Own
    <3> QED BY <1>2, <1>3, <2>2, <3>1, SavedBy DEF Stores, TrailOK
  <2>4. Stores'
    BY <1>1, <1>2, <1>3, <1>5, <2>1, <2>2, <2>3, SavedBy DEF Stores
  <2>5. HeldBy(lines', tables', j, e)
    BY <1>2, <2>1 DEF HeldBy
  <2> QED BY <1>1, <1>2, <1>5, <2>1, <2>4, <2>5, SinkOKAInv DEF j, e
<1> QED BY <1>4, <1>5 DEF EncoderWrite, j, e

LEMMA InsertAInv ==
  ASSUME AInv, NEW p \in Procs, Insert(p)
  PROVE  AInv'
<1> DEFINE j == reqs[p].k
           e == reqs[p].event
           t == Logger(j).insertSQL
           row == IF Logger(j).mapper THEN [mapped |-> e] ELSE RowOf(e)
<1>1. /\ reqs[p].pc = "log" /\ j \in DOMAIN Sinks /\ Sinks[j].kind = "db"
      /\ ClockUnchanged /\ lines' = lines /\ encErr' = encErr
      /\ \/ SinkOK(p) /\ tables' = [tables EXCEPT ![t] = @ \cup {row}]
         \/ SinkError(p) /\ UNCHANGED <<tables, saved>>
         \/ /\ SinkError(p) /\ tables' = [tables EXCEPT ![t] = @ \cup {row}]
            /\ saved' = [saved EXCEPT ![j] = @ \cup {e}]
  BY DEF Insert, AtSink
<1>2. e \in Event
  BY <1>1, AtWork DEF LoopOK
<1>3. Stores /\ AuditConstants
  BY DEF AInv
<1>4. t \in Tables
  BY <1>1, <1>3 DEF AuditConstants
<1>5. row \in Row /\ (Own(j) => row = RowOf(e))
  BY <1>1, <1>2, <1>3, OwnSchema DEF Row
<1>6. CASE SinkError(p) /\ UNCHANGED <<tables, saved>>
  <2>1. Stores'
    BY <1>1, <1>3, <1>6 DEF Stores, TrailOK
  <2> QED BY <1>1, <1>6, <2>1, SinkErrorAInv
<1>7. CASE /\ SinkOK(p) \/ SinkError(p)
           /\ tables' = [tables EXCEPT ![t] = @ \cup {row}]
           /\ saved' = [saved EXCEPT ![j] = @ \cup {e}]
  <2>1. HeldBy(lines', tables', j, e) <=> row \in tables'[t]
    BY <1>1 DEF HeldBy
  <2>2. saved' = [saved EXCEPT ![j] = @ \cup {e}]
    BY <1>7
  <2>3. \A k \in DOMAIN Sinks : Own(k) => Logger(k).insertSQL \in Tables /\ (k # j => Logger(k).insertSQL # t)
    BY <1>1, <1>3 DEF AuditConstants, Own
  <2> HIDE DEF e, t, row
  <2>4. /\ tables' \in [Tables -> SUBSET Row] /\ tables'[t] = tables[t] \cup {row}
        /\ \A u \in Tables : u # t => tables'[u] = tables[u]
    BY <1>3, <1>4, <1>5, <1>7 DEF Stores
  <2>5. /\ saved' \in [DOMAIN Sinks -> SUBSET Event]
        /\ saved'[j] = saved[j] \cup {e} /\ \A k \in DOMAIN Sinks : k # j => saved'[k] = saved[k]
        /\ \A k \in DOMAIN Sinks : IsFiniteSet(saved'[k])
    BY <1>1, <1>2, <2>2, SavedBy
  <2>6. ASSUME NEW k \in DOMAIN Sinks PROVE TrailOK(k, tables', saved')
    <3>1. CASE ~Own(k)
      BY <3>1 DEF TrailOK
    <3>2. CASE Own(k) /\ k # j
      <4>1. tables'[Logger(k).insertSQL] = tables[Logger(k).insertSQL] /\ saved'[k] = saved[k]
        BY <2>3, <2>4, <2>5, <3>2
      <4>2. tables[Logger(k).insertSQL] = {RowOf(x) : x \in saved[k]}
        BY <1>3, <3>2 DEF Stores, TrailOK
      <4> QED BY <4>1, <4>2 DEF TrailOK
    <3>3. CASE Own(k) /\ k = j
      <4>1. tables[t] = {RowOf(x) : x \in saved[k]}
        BY <1>3, <3>3 DEF Stores, TrailOK, t
      <4>2. tables'[t] = {RowOf(x) : x \in saved'[k]}
        BY <1>5, <2>4, <2>5, <3>3, <4>1
      <4> QED BY <3>3, <4>2 DEF TrailOK, t
    <3> QED BY <3>1, <3>2, <3>3
  <2>7. Stores'
    BY <1>1, <1>3, <2>4, <2>5, <2>6 DEF Stores
  <2>8. \A u \in Tables : tables[u] \subseteq tables'[u]
    BY <2>4
  <2>9. HeldBy(lines', tables', j, e)
    BY <2>1, <2>4
  <2>10. \A k \in DOMAIN Sinks : lines[k] \subseteq lines'[k]
    BY <1>1
  <2>11. SinkOK(p) => AInv'
    BY <1>1, <2>7, <2>8, <2>9, <2>10, SinkOKAInv DEF e
  <2>12. SinkError(p) => AInv'
    BY <1>1, <2>7, <2>8, <2>10, SinkErrorAInv
  <2> QED BY <1>7, <2>11, <2>12
<1>8. SinkOK(p) => saved' = [saved EXCEPT ![j] = @ \cup {e}]
  BY DEF SinkOK
<1> QED BY <1>1, <1>6, <1>7, <1>8

LEMMA LogReturnsAInv ==
  ASSUME AInv, NEW p \in Procs, LogReturns(p)
  PROVE  AInv'
<1> DEFINE q == reqs[p]
           d == [q EXCEPT !.pc = q.then]
<1>1. /\ q.pc = "log" /\ q.k > Len(Sinks) /\ ClockUnchanged /\ LogsUnchanged
      /\ reqs' = [reqs EXCEPT ![p].pc = q.then]
  BY DEF LogReturns
<1>2. q \in Request /\ LoopOK(lines, tables, q) /\ RecorderOK(q)
  BY <1>1, AtWork
<1>3. q.then \in {"handler", "done"}
  BY <1>1, <1>2 DEF LoopOK
<1>4. reqs' = [reqs EXCEPT ![p] = d]
  BY <1>1 DEF AInv
<1>5. d \in Request
  BY <1>2, <1>3 DEF Request
<1>6. /\ d.pc = q.then /\ d.mode = q.mode /\ d.sent = q.sent /\ d.status = q.status /\ d.late = q.late
      /\ d.event = q.event /\ d.k = q.k /\ d.first = q.first /\ d.failed = q.failed
      /\ d.then = q.then /\ d.panicked = q.panicked
  BY <1>2 DEF Request
<1>7. q.k = Len(Sinks) + 1
  <2>1. q.k \in Places /\ Len(Sinks) \in Nat
    BY <1>2 DEF Request, AInv, AuditConstants
  <2> QED BY <1>1, <2>1 DEF Places
<1> HIDE DEF d
<1>8. LoopOK(lines', tables', d)
  BY <1>1, <1>2, <1>3, <1>6 DEF LoopOK, LogsUnchanged
<1>9. RecorderOK(d)
  BY <1>1, <1>2, <1>3, <1>6, <1>7 DEF RecorderOK, Running, Ruling
<1>10. Bounded'
  <2>1. Owes(d) => Owes(reqs[p])
    BY <1>1, <1>3, <1>6 DEF Owes
  <2> QED BY <1>1, <1>4, <2>1, SameClock
<1> QED BY <1>1, <1>4, <1>5, <1>8, <1>9, <1>10, SameStores, StepOf DEF RequestOK

LEMMA ReturnAInv ==
  ASSUME AInv, NEW p \in Procs, Return(p)
  PROVE  AInv'
<1>1. reqs' = [reqs EXCEPT ![p] = Idle] /\ ClockUnchanged /\ LogsUnchanged
  BY DEF Return
<1>2. ~Owes(Idle)
  BY DEF Owes, Idle
<1>3. Bounded'
  BY <1>1, <1>2, SameClock
<1> QED BY <1>1, <1>3, SameStores, StepOf DEF RequestOK

LEMMA TickAInv ==
  ASSUME AInv, AuditTick
  PROVE  AInv'
<1>1. clock < MaxClock /\ clock' = clock + 1 /\ nextID' = nextID /\ reqs' = reqs /\ LogsUnchanged
  BY DEF AuditTick
<1>2. MaxClock \in Nat
  BY DEF AInv, AuditConstants
<1>3. Bounded'
  BY <1>1, <1>2 DEF AInv, Bounded, Owing, Owes
<1> QED BY <1>1, <1>3, SameStores DEF AInv, LogsUnchanged

LEMMA NextAInv == AInv /\ [AuditNext]_auditVars => AInv'
<1> SUFFICES ASSUME AInv, [AuditNext]_auditVars PROVE AInv'
  OBVIOUS
<1>1. ASSUME NEW p \in Procs, NEW mode \in Modes, Begin(p, mode) PROVE AInv'
  BY <1>1, BeginAInv
<1>2. ASSUME NEW p \in Procs, NEW status \in Statuses, WriteHeader(p, status) PROVE AInv'
  BY <1>2, WriteHeaderAInv
<1>3. ASSUME NEW p \in Procs, NEW subject \in Subjects, NEW meta \in Metas,
             HandlerLog(p, subject, meta)
      PROVE  AInv'
  BY <1>3, HandlerLogAInv
<1>4. ASSUME NEW p \in Procs, Finish(p) \/ Write(p) PROVE AInv'
  BY <1>4, FinishAInv, WriteAInv
<1>5. ASSUME NEW p \in Procs, Panic(p) PROVE AInv'
  BY <1>5, PanicAInv
<1>6. ASSUME NEW p \in Procs, Encode(p) PROVE AInv'
  BY <1>6, EncodeAInv
<1>7. ASSUME NEW p \in Procs, EncoderWrite(p) PROVE AInv'
  BY <1>7, EncoderWriteAInv
<1>8. ASSUME NEW p \in Procs, Insert(p) PROVE AInv'
  BY <1>8, InsertAInv
<1>9. ASSUME NEW p \in Procs, LogReturns(p) PROVE AInv'
  BY <1>9, LogReturnsAInv
<1>10. ASSUME NEW p \in Procs, Return(p) PROVE AInv'
  BY <1>10, ReturnAInv
<1>11. CASE AuditTick
  BY <1>11, TickAInv
<1>12. CASE UNCHANGED auditVars
  <2>1. LogsUnchanged /\ clock' = clock /\ nextID' = nextID /\ reqs' = reqs
    BY <1>12 DEF auditVars, LogsUnchanged
  <2>2. Bounded'
    BY <2>1 DEF AInv, Bounded, Owing, Owes
  <2> QED BY <2>1, <2>2, SameStores DEF AInv, LogsUnchanged
<1> QED BY <1>1, <1>2, <1>3, <1>4, <1>5, <1>6, <1>7, <1>8, <1>9, <1>10, <1>11, <1>12 DEF AuditNext

LEMMA AInvHolds == AuditConstants /\ AuditSpec => []AInv
BY InitAInv, NextAInv, PTL DEF AuditSpec

-----------------------------------------------------------------------------
(* What the invariant gives.                                                 *)

LEMMA ActiveAtWork ==
  ASSUME AInv, NEW q \in Active
  PROVE  q \in Request /\ LoopOK(lines, tables, q) /\ RecorderOK(q)
<1>1. PICK p \in Procs : q = reqs[p] /\ q # Idle
  BY DEF Active
<1> QED BY <1>1, AtWork

LEMMA HeldHolds ==
  ASSUME NEW k, NEW e, HeldBy(lines, tables, k, e)
  PROVE  Holds(k, e)
BY DEF HeldBy, Holds

LEMMA TypeFromAInv == AInv => AuditTypeOK
<1> SUFFICES ASSUME AInv PROVE AuditTypeOK
  OBVIOUS
<1>1. clock \in 0..MaxClock /\ nextID \in 1..(MaxEvents + 1)
  <2>1. Cardinality(Owing) \in Nat
    <3>1. IsFiniteSet(Procs)
      BY DEF AInv, AuditConstants
    <3>2. IsFiniteSet(Owing)
      BY <3>1, FS_Subset DEF Owing
    <3> QED BY <3>2, FS_CardinalityType
  <2>2. MaxEvents \in Nat /\ clock \in 0..MaxClock /\ nextID \in Nat \ {0}
        /\ nextID + Cardinality(Owing) <= MaxEvents + 1
    BY DEF AInv, AuditConstants, Bounded
  <2> QED BY <2>1, <2>2
<1>2. encErr \subseteq {k \in DOMAIN Sinks : Sinks[k].kind = "json"}
  BY DEF AInv, Stores
<1>3. ASSUME NEW q \in Active
      PROVE  /\ q.pc \in {"handler", "log", "encoded", "done"} /\ q.mode \in Modes
             /\ q.k \in 1..(Len(Sinks) + 1) /\ q.failed \subseteq 1..(q.k - 1)
             /\ q.status \in Statuses \cup {200} /\ q.sent \in Statuses \cup {0, 200}
             /\ q.late \in BOOLEAN
  <2>1. q \in Request /\ LoopOK(lines, tables, q)
    BY ActiveAtWork
  <2> QED BY <2>1 DEF Request, LoopOK, Places
<1> QED BY <1>1, <1>2, <1>3 DEF AuditTypeOK

LEMMA SinksFromAInv == AInv => SinksFailAlone
<1> SUFFICES ASSUME AInv, NEW q \in Active, q.pc = "log", q.k > Len(Sinks)
             PROVE  /\ \A k \in DOMAIN Sinks : Holds(k, q.event) \/ k \in q.failed
                    /\ q.first = 0 <=> q.failed = {}
                    /\ q.failed # {} => q.first \in q.failed /\ \A k \in q.failed : q.first <= k
  BY DEF SinksFailAlone
<1>1. q \in Request /\ LoopOK(lines, tables, q)
  BY ActiveAtWork
<1>2. DOMAIN Sinks = 1..(q.k - 1)
  BY <1>1 DEF AInv, AuditConstants, Request, Places
<1>3. \A k \in DOMAIN Sinks : k \in q.failed \/ HeldBy(lines, tables, k, q.event)
  BY <1>1, <1>2 DEF LoopOK
<1> QED BY <1>1, <1>3, HeldHolds DEF LoopOK

LEMMA VerdictFromAInv == AInv => VerdictOnRecord
<1> SUFFICES ASSUME AInv, NEW q \in Active, q.pc = "done", q.mode = "auto", ~q.panicked, ~q.late
             PROVE  /\ q.event.Result = resultForStatus(q.sent)
                    /\ q.event.Type = eventTypeForStatus(q.sent)
                    /\ \A k \in DOMAIN Sinks \ q.failed : Holds(k, q.event)
  BY DEF VerdictOnRecord
<1>1. q \in Request /\ LoopOK(lines, tables, q) /\ RecorderOK(q)
  BY ActiveAtWork
<1>2. /\ q.event.Result = resultForStatus(q.sent) /\ q.event.Type = eventTypeForStatus(q.sent)
      /\ q.k = Len(Sinks) + 1
  BY <1>1 DEF RecorderOK, Ruling
<1>3. DOMAIN Sinks = 1..(q.k - 1)
  BY <1>2 DEF AInv, AuditConstants
<1>4. \A k \in DOMAIN Sinks : k \in q.failed \/ HeldBy(lines, tables, k, q.event)
  BY <1>1, <1>3 DEF LoopOK
<1> QED BY <1>2, <1>4, HeldHolds

-----------------------------------------------------------------------------
(* Recent.                                                                   *)

\* What comes back of an event.
Stored(e) == [e EXCEPT !.Meta = IF @ = "unmarshalable" THEN "{}" ELSE @]

LEMMA RowCount ==
  ASSUME NEW S, IsFiniteSet(S), \A e, f \in S : RowOf(e) = RowOf(f) => e = f
  PROVE  LET T == {RowOf(e) : e \in S} IN IsFiniteSet(T) /\ Cardinality(T) = Cardinality(S)
<1> DEFINE T == {RowOf(e) : e \in S}
           g == [e \in S |-> RowOf(e)]
<1>1. g \in [S -> T] /\ \A e \in S : g[e] = RowOf(e)
  OBVIOUS
<1>2. \A t \in T : \E e \in S : g[e] = t
  BY <1>1
<1>3. \A e, f \in S : g[e] = g[f] => e = f
  BY <1>1, Zenon
<1> HIDE DEF g, T
<1>4. g \in Surjection(S, T) /\ g \in Injection(S, T)
  BY <1>1, <1>2, <1>3 DEF Surjection, Injection, IsInjective
<1>5. IsFiniteSet(T) /\ Cardinality(T) = Cardinality(S)
  BY <1>4, FS_Surjection
<1> QED BY <1>5 DEF T

LEMMA StoredCount ==
  ASSUME NEW S, IsFiniteSet(S), \A e, f \in S : Stored(e) = Stored(f) => e = f
  PROVE  LET T == {Stored(e) : e \in S} IN IsFiniteSet(T) /\ Cardinality(T) = Cardinality(S)
<1> DEFINE T == {Stored(e) : e \in S}
           g == [e \in S |-> Stored(e)]
<1>1. g \in [S -> T] /\ \A e \in S : g[e] = Stored(e)
  OBVIOUS
<1>2. \A t \in T : \E e \in S : g[e] = t
  BY <1>1
<1>3. \A e, f \in S : g[e] = g[f] => e = f
  BY <1>1, Zenon
<1> HIDE DEF g, T
<1>4. g \in Surjection(S, T) /\ g \in Injection(S, T)
  BY <1>1, <1>2, <1>3 DEF Surjection, Injection, IsInjective
<1>5. IsFiniteSet(T) /\ Cardinality(T) = Cardinality(S)
  BY <1>4, FS_Surjection
<1> QED BY <1>5 DEF T

\* A listing without repetitions, as long as the set is large, lists all of the set.
LEMMA ListsAll ==
  ASSUME NEW S, IsFiniteSet(S), NEW s \in SetToSeqs(S)
  PROVE  /\ Cardinality(S) \in Nat /\ s \in [1..Cardinality(S) -> S] /\ s \in Seq(S)
         /\ Len(s) = Cardinality(S)
         /\ \A x \in S : \E i \in 1..Len(s) : s[i] = x
<1> DEFINE n == Cardinality(S)
<1>1. n \in Nat
  BY FS_CardinalityType
<1>2. s \in [1..n -> S] /\ \A i, j \in 1..n : i # j => s[i] # s[j]
  BY DEF SetToSeqs
<1>3. s \in Injection(1..n, S)
  BY <1>2 DEF Injection, IsInjective
<1>4. Cardinality(1..n) = n
  BY <1>1, FS_Interval
<1> HIDE DEF n
<1>5. s \in Surjection(1..n, S)
  BY <1>3, <1>4, FS_Injection DEF n
<1>6. s \in Seq(S) /\ Len(s) = n
  BY <1>1, <1>2
<1>7. \A x \in S : \E i \in 1..n : s[i] = x
  BY <1>5 DEF Surjection
<1> QED BY <1>1, <1>2, <1>6, <1>7 DEF n

\* A row of the SDK's own schema gives back its event.
LEMMA MetaBack ==
  ASSUME NEW m \in {"none", "map", "unmarshalable"}
  PROVE  ScannedMeta(MetaJSON(m)) = IF m = "unmarshalable" THEN "{}" ELSE m
<1>1. CASE m = "none"
  <2>1. MetaJSON("none") = NULL
    BY Zenon DEF MetaJSON
  <2> QED BY <1>1, <2>1 DEF ScannedMeta
<1>2. CASE m = "map"
  <2>1. MetaJSON("map") = "map"
    BY Zenon DEF MetaJSON
  <2> QED BY <1>2, <2>1 DEF ScannedMeta, NULL
<1>3. CASE m = "unmarshalable"
  <2>1. MetaJSON("unmarshalable") = "{}"
    BY Zenon DEF MetaJSON
  <2> QED BY <1>3, <2>1 DEF ScannedMeta, NULL
<1> QED BY <1>1, <1>2, <1>3

LEMMA RowBack ==
  ASSUME AuditConstants, NEW e \in Event
  PROVE  /\ EventOf(RowOf(e)) = Stored(e)
         /\ RowOf(e).Timestamp = e.Timestamp /\ EventOf(RowOf(e)).Timestamp = e.Timestamp
         /\ Stored(e).Timestamp = e.Timestamp
         /\ \A subject \in Subjects : subject # "" => (RowOf(e).Subject = subject <=> e.Subject = subject)
<1>0. NULL \notin Subjects /\ Metas \subseteq {"none", "map", "unmarshalable"}
  BY Zenon DEF AuditConstants
<1>1. e.Meta \in {"none", "map", "unmarshalable"}
  BY <1>0 DEF Event
<1>2. ScannedMeta(MetaJSON(e.Meta)) = IF e.Meta = "unmarshalable" THEN "{}" ELSE e.Meta
  BY <1>1, MetaBack
<1>3. Scanned(nullString(e.Subject)) = e.Subject /\ Scanned(nullString(e.Result)) = e.Result
  <2>1. e.Subject \in Subjects \cup {""} /\ e.Result \in {"allow", "deny"}
    BY DEF Event
  <2>2. NULL # "" /\ NULL # "allow" /\ NULL # "deny" /\ e.Subject # NULL
    BY <1>0, <2>1 DEF NULL
  <2> QED BY <2>1, <2>2 DEF Scanned, nullString
<1> DEFINE mj == MetaJSON(e.Meta)
<1> HIDE DEF mj
<1>4. RowOf(e) = [e EXCEPT !.Subject = nullString(e.Subject), !.Result = nullString(e.Result), !.Meta = mj]
  BY DEF RowOf, mj
<1>5. DOMAIN e = {"id", "Timestamp", "Type", "Subject", "Result", "Meta"}
  BY DEF Event
<1> DEFINE r == RowOf(e)
<1>6. /\ DOMAIN r = DOMAIN e /\ r.id = e.id /\ r.Timestamp = e.Timestamp /\ r.Type = e.Type
      /\ r.Subject = nullString(e.Subject) /\ r.Result = nullString(e.Result) /\ r.Meta = mj
      /\ r = [x \in DOMAIN r |-> r[x]]
  BY <1>4, <1>5
<1> HIDE DEF r
<1> DEFINE b == EventOf(r)
<1>7. /\ DOMAIN b = DOMAIN e /\ b.id = e.id /\ b.Timestamp = e.Timestamp /\ b.Type = e.Type
      /\ b.Subject = e.Subject /\ b.Result = e.Result /\ b.Meta = ScannedMeta(mj)
      /\ b = [x \in DOMAIN b |-> b[x]]
  BY <1>3, <1>5, <1>6 DEF EventOf
<1> DEFINE d == Stored(e)
<1>8. /\ DOMAIN d = DOMAIN e /\ d.id = e.id /\ d.Timestamp = e.Timestamp /\ d.Type = e.Type
      /\ d.Subject = e.Subject /\ d.Result = e.Result
      /\ d.Meta = IF e.Meta = "unmarshalable" THEN "{}" ELSE e.Meta
      /\ d = [x \in DOMAIN d |-> d[x]]
  BY <1>5 DEF Stored
<1> HIDE DEF b, d
<1>9. b = d
  <2>1. \A x \in DOMAIN e : b[x] = d[x]
    BY <1>2, <1>5, <1>7, <1>8 DEF mj
  <2> QED BY <1>7, <1>8, <2>1
<1>10. \A subject \in Subjects : subject # "" => (nullString(e.Subject) = subject <=> e.Subject = subject)
  BY <1>0 DEF nullString
<1> QED BY <1>6, <1>7, <1>8, <1>9, <1>10 DEF b, d, r

LEMMA StoredApart ==
  ASSUME AuditConstants, NEW e \in Event, NEW f \in Event, Stored(e) = Stored(f)
  PROVE  e = f
<1>0. Metas \subseteq {"none", "map", "unmarshalable"}
  BY Zenon DEF AuditConstants
<1>1. /\ DOMAIN e = {"id", "Timestamp", "Type", "Subject", "Result", "Meta"} /\ DOMAIN f = DOMAIN e
      /\ e.Meta \in {"none", "map", "unmarshalable"} /\ f.Meta \in {"none", "map", "unmarshalable"}
      /\ e = [x \in DOMAIN e |-> e[x]] /\ f = [x \in DOMAIN f |-> f[x]]
  BY <1>0 DEF Event
<1>2. /\ Stored(e).id = e.id /\ Stored(e).Timestamp = e.Timestamp /\ Stored(e).Type = e.Type
      /\ Stored(e).Subject = e.Subject /\ Stored(e).Result = e.Result
      /\ Stored(e).Meta = IF e.Meta = "unmarshalable" THEN "{}" ELSE e.Meta
  BY <1>1 DEF Stored
<1>3. /\ Stored(f).id = f.id /\ Stored(f).Timestamp = f.Timestamp /\ Stored(f).Type = f.Type
      /\ Stored(f).Subject = f.Subject /\ Stored(f).Result = f.Result
      /\ Stored(f).Meta = IF f.Meta = "unmarshalable" THEN "{}" ELSE f.Meta
  BY <1>1 DEF Stored
<1>4. e.Meta = f.Meta
  BY <1>1, <1>2, <1>3
<1>5. \A x \in DOMAIN e : e[x] = f[x]
  BY <1>1, <1>2, <1>3, <1>4
<1> QED BY <1>1, <1>5

Asked == Subjects \cup {""}
Trail(k, subject) == {e \in saved[k] : subject = "" \/ e.Subject = subject}

LEMMA TrailCounts ==
  ASSUME AInv, NEW k \in DOMAIN Sinks, Own(k), NEW subject \in Asked
  PROVE  LET trail == Trail(k, subject)
             rows == Selected(Logger(k), subject)
         IN  /\ trail \subseteq Event /\ rows = {RowOf(e) : e \in trail}
             /\ IsFiniteSet(rows)
             /\ Cardinality({Stored(e) : e \in trail}) = Cardinality(rows)
<1> DEFINE trail == Trail(k, subject)
           rows == Selected(Logger(k), subject)
<1>0. AuditConstants
  BY DEF AInv
<1>1. trail \subseteq Event /\ IsFiniteSet(trail) /\ trail \subseteq saved[k]
  <2>1. saved[k] \subseteq Event /\ IsFiniteSet(saved[k])
    BY DEF AInv, Stores
  <2>2. trail \subseteq saved[k]
    BY DEF Trail
  <2> QED BY <2>1, <2>2, FS_Subset
<1>2. tables[Logger(k).table] = {RowOf(e) : e \in saved[k]}
  BY <1>0, OwnSchema DEF AInv, Stores, TrailOK
<1>3. rows = {RowOf(e) : e \in trail}
  <2>1. saved[k] \subseteq Event
    BY DEF AInv, Stores
  <2>2. ASSUME NEW e \in saved[k]
        PROVE  (subject = "" \/ RowOf(e).Subject = subject) <=> (subject = "" \/ e.Subject = subject)
    BY <1>0, <2>1, RowBack DEF Asked
  <2> QED BY <1>2, <2>2 DEF Selected, Trail
<1> HIDE DEF trail, rows
<1>4. \A e, f \in trail : Stored(e) = Stored(f) => e = f
  BY <1>0, <1>1, StoredApart
<1>5. \A e, f \in trail : RowOf(e) = RowOf(f) => e = f
  <2>1. \A e \in trail : EventOf(RowOf(e)) = Stored(e)
    BY <1>0, <1>1, RowBack
  <2> QED BY <1>4, <2>1
<1>6. IsFiniteSet(rows) /\ Cardinality(rows) = Cardinality(trail)
  BY <1>1, <1>3, <1>5, RowCount
<1>7. Cardinality({Stored(e) : e \in trail}) = Cardinality(trail)
  BY <1>1, <1>4, StoredCount
<1> QED BY <1>1, <1>3, <1>6, <1>7 DEF trail, rows

LEMMA LimitType ==
  ASSUME NEW limit \in Int, NEW n \in Nat
  PROVE  LET m == MinOf(n, EffectiveLimit(limit)) IN m \in Nat /\ m <= n
BY DEF EffectiveLimit, MinOf

LEMMA Prefix ==
  ASSUME NEW S, NEW a \in Seq(S), NEW i \in 1..Len(a), NEW j \in 1..i
  PROVE  a[j] \in ToSet(SubSeq(a, 1, i))
<1>1. DOMAIN SubSeq(a, 1, i) = 1..i /\ SubSeq(a, 1, i)[j] = a[j]
  OBVIOUS
<1> QED BY <1>1 DEF ToSet

LEMMA FunctionSeq ==
  ASSUME NEW S, NEW m \in Nat, NEW a \in [1..m -> S]
  PROVE  a \in Seq(S) /\ Len(a) = m
OBVIOUS

LEMMA AnswerIsTheTrail ==
  ASSUME AInv, NEW k \in DOMAIN Sinks, Own(k), NEW subject \in Asked, NEW limit \in Int
  PROVE  \A a \in Recent(Logger(k), subject, limit) :
           LET stored == {Stored(e) : e \in Trail(k, subject)}
           IN  /\ ToSet(a) \subseteq stored
               /\ Len(a) = MinOf(Cardinality(stored), EffectiveLimit(limit))
               /\ \A i \in DOMAIN a :
                    \A e \in stored \ ToSet(SubSeq(a, 1, i)) : e.Timestamp <= a[i].Timestamp
<1>a. SUFFICES
        ASSUME NEW a, a \in Recent(Logger(k), subject, limit)
        PROVE  LET stored == {Stored(e) : e \in Trail(k, subject)}
               IN  /\ ToSet(a) \subseteq stored
                   /\ Len(a) = MinOf(Cardinality(stored), EffectiveLimit(limit))
                   /\ \A i \in DOMAIN a :
                        \A e \in stored \ ToSet(SubSeq(a, 1, i)) : e.Timestamp <= a[i].Timestamp
  BY Zenon
<1> DEFINE trail == Trail(k, subject)
           rows == Selected(Logger(k), subject)
           stored == {Stored(e) : e \in trail}
           lim == EffectiveLimit(limit)
<1>0. AuditConstants
  BY DEF AInv
<1>1. /\ trail \subseteq Event /\ rows = {RowOf(e) : e \in trail}
      /\ IsFiniteSet(rows) /\ Cardinality(stored) = Cardinality(rows)
  BY TrailCounts
<1>2. PICK s : s \in NewestFirst(rows) /\ a = [i \in 1..MinOf(Len(s), lim) |-> EventOf(s[i])]
  BY <1>a, Zenon DEF Recent
<1>3. /\ s \in SetToSeqs(rows)
      /\ \A i, j \in DOMAIN s : i < j => s[i].Timestamp >= s[j].Timestamp
  BY <1>2 DEF NewestFirst
<1> DEFINE n == Len(s)
           m == MinOf(n, lim)
<1> HIDE DEF trail, rows, stored, lim
<1>4. /\ n = Cardinality(rows) /\ n \in Nat /\ s \in [1..n -> rows]
      /\ \A r \in rows : \E i \in 1..n : s[i] = r
  <2>1. /\ Cardinality(rows) \in Nat /\ s \in [1..Cardinality(rows) -> rows]
        /\ Len(s) = Cardinality(rows)
        /\ \A r \in rows : \E i \in 1..Len(s) : s[i] = r
    BY <1>1, <1>3, ListsAll, Zenon
  <2> QED BY <2>1, Zenon
<1> HIDE DEF n
<1>6. m \in Nat /\ m <= n
  BY <1>4, LimitType DEF lim
<1>7. m = MinOf(Cardinality(stored), lim)
  BY <1>1, <1>4
<1>8. a = [i \in 1..m |-> EventOf(s[i])]
  BY <1>2 DEF n
<1> HIDE DEF m
<1>9. \A i \in 1..m : \E e \in trail : s[i] = RowOf(e) /\ a[i] = Stored(e)
  <2> SUFFICES ASSUME NEW i \in 1..m PROVE \E e \in trail : s[i] = RowOf(e) /\ a[i] = Stored(e)
    OBVIOUS
  <2>1. s[i] \in rows /\ a[i] = EventOf(s[i])
    BY <1>4, <1>6, <1>8
  <2>2. PICK e \in trail : s[i] = RowOf(e)
    BY <1>1, <2>1
  <2>3. EventOf(RowOf(e)) = Stored(e)
    BY <1>0, <1>1, RowBack
  <2> QED BY <2>1, <2>2, <2>3
<1>10. DOMAIN a = 1..m /\ \A i \in 1..m : a[i] \in stored
  BY <1>8, <1>9 DEF stored
<1>11. a \in [1..m -> stored]
  BY <1>8, <1>10
<1>12. a \in Seq(stored) /\ Len(a) = m
  BY <1>6, <1>11, FunctionSeq, Zenon
<1>13. ToSet(a) \subseteq stored
  BY <1>10 DEF ToSet
<1>14. ASSUME NEW i \in 1..m, NEW x, x \in stored \ ToSet(SubSeq(a, 1, i))
       PROVE  x.Timestamp <= a[i].Timestamp
  <2>1. PICK e \in trail : x = Stored(e)
    BY <1>14 DEF stored
  <2>2. RowOf(e) \in rows
    BY <1>1
  <2>3. PICK j \in 1..n : s[j] = RowOf(e)
    BY <1>4, <2>2
  <2>4. ~(j <= i)
    <3> SUFFICES ASSUME j <= i PROVE FALSE
      OBVIOUS
    <3>1. j \in 1..m /\ j \in 1..i
      BY <1>4, <1>6, <2>3
    <3>2. a[j] = EventOf(s[j])
      BY <1>8, <3>1
    <3>3. a[j] = x
      BY <1>0, <1>1, <2>1, <2>3, <3>2, RowBack
    <3>4. a[j] \in ToSet(SubSeq(a, 1, i))
      BY <1>12, <3>1, Prefix, Zenon
    <3> QED BY <1>14, <3>3, <3>4
  <2>5. i \in DOMAIN s /\ j \in DOMAIN s /\ i < j
    BY <1>4, <1>6, <2>4
  <2>6. s[i].Timestamp >= s[j].Timestamp
    BY <1>3, <2>5
  <2>7. PICK f \in trail : s[i] = RowOf(f) /\ a[i] = Stored(f)
    BY <1>9
  <2>8. /\ RowOf(f).Timestamp = f.Timestamp /\ Stored(f).Timestamp = f.Timestamp
        /\ RowOf(e).Timestamp = e.Timestamp /\ Stored(e).Timestamp = e.Timestamp
        /\ e.Timestamp \in Nat /\ f.Timestamp \in Nat
    <3>1. e \in Event /\ f \in Event
      BY <1>1
    <3>2. e.Timestamp \in Nat /\ f.Timestamp \in Nat
      BY <3>1 DEF Event
    <3> QED BY <1>0, <3>1, <3>2, RowBack
  <2>9. f.Timestamp >= e.Timestamp
    BY <2>3, <2>6, <2>7, <2>8
  <2>10. x.Timestamp = e.Timestamp /\ a[i].Timestamp = f.Timestamp
    BY <2>1, <2>7, <2>8
  <2> QED BY <2>8, <2>9, <2>10
<1> QED BY <1>7, <1>10, <1>12, <1>13, <1>14 DEF stored, trail, lim

LEMMA RecentFromAInv == AInv => RecentIsTheTrail
<1> SUFFICES ASSUME AInv, NEW k \in {x \in DOMAIN Sinks : Sinks[x].kind = "db"},
                    NEW subject \in Asked, NEW limit \in 0..2, ~Logger(k).customSchema
             PROVE  \A a \in Recent(Logger(k), subject, limit) :
                      LET stored == {Stored(e) : e \in Trail(k, subject)}
                      IN  /\ ToSet(a) \subseteq stored
                          /\ Len(a) = MinOf(Cardinality(stored), EffectiveLimit(limit))
                          /\ \A i \in DOMAIN a :
                               \A e \in stored \ ToSet(SubSeq(a, 1, i)) : e.Timestamp <= a[i].Timestamp
  BY Zenon DEF RecentIsTheTrail, Stored, Trail, Asked
<1>1. k \in DOMAIN Sinks /\ Own(k)
  BY Zenon DEF Own
<1>2. limit \in Int
  OBVIOUS
<1> QED BY <1>1, <1>2, AnswerIsTheTrail, Zenon

-----------------------------------------------------------------------------
(* The theorems about Audit, for every number of goroutines and every list of *)
(* sinks and options.                                                        *)

\* Middleware, MultiLogger and its sinks: the state of requests and logs is well typed.
THEOREM AuditTypeCorrect == AuditSpec => []AuditTypeOK
BY AuditAssumption, AInvHolds, TypeFromAInv, PTL

\* MultiLogger.Log: a failing, silenced or cancelled sink keeps no event from the others, and
\* the error that Log returns is that of the first sink that failed.
THEOREM SinksAreIndependent == AuditSpec => []SinksFailAlone
BY AuditAssumption, AInvHolds, SinksFromAInv, PTL

\* Middleware(l, true): the verdict that the client got is on record once the handler has
\* returned, in every sink that did not fail on it, unless it called WriteHeader too late.
THEOREM VerdictsAreRecorded == AuditSpec => []VerdictOnRecord
BY AuditAssumption, AInvHolds, VerdictFromAInv, PTL

\* DBLogger.Recent returns the newest of the events that reached the sink, whatever options
\* configured its table.
THEOREM RecentShowsTheTrail == AuditSpec => []RecentIsTheTrail
BY AuditAssumption, AInvHolds, RecentFromAInv, PTL
=============================================================================
