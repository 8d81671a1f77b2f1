------------------------------ MODULE Pipeline ------------------------------
(***************************************************************************)
(* A request on its way through a chain of middlewares: auth/middleware,   *)
(* rbac.Require and RequireRole and abac.Require under net/http, and the   *)
(* guards of ginmw under gin.  One step is one middleware (or one call     *)
(* that locks the role store), so logins, logouts, expiry and changes of   *)
(* roles happen while the request is between two guards.                   *)
(*                                                                         *)
(* jwt.Service.Verify and rbac.Enforcer.Can are single steps here;         *)
(* JWTService and RBAC take them apart.  A token stands for its string and *)
(* for the claims that Verify returns; a claim is [kind, val], its Go type *)
(* after JSON and the strings in it.                                       *)
(***************************************************************************)
EXTENDS Naturals, Sequences, SequencesExt

CONSTANTS
  Procs,      \* goroutines serving requests
  Tokens,     \* [id, Subject, Custom]
  Strangers,  \* tokens among them that this service never signs
  NoToken,    \* no token, and no claims in a context
  Subjects, Roles,
  Grants,     \* Grants[r]: the permissions of role r, inherited ones included
  Routes,     \* [chain, handler]: the middlewares in order, and "serve" or "logout"
  Requests    \* [route, scheme, header, query, upgrade]

Nil == [kind |-> "nil", val |-> <<>>]
IsString(v, x) == v.kind = "string" /\ v.val[1] = x
Claim(t, key) == IF key \in DOMAIN t.Custom THEN t.Custom[key] ELSE Nil
UserIDs(t) == IF Claim(t, "user_id").kind = "string" THEN ToSet(Claim(t, "user_id").val) ELSE {}

ASSUME PipelineAssumption ==
  /\ NoToken \notin Tokens /\ Strangers \subseteq Tokens
  /\ \A t \in Tokens : {t.Subject} \cup UserIDs(t) \subseteq Subjects
  /\ \A r \in Requests : /\ r.route \in Routes
                         /\ {r.header, r.query} \subseteq Tokens \cup {NoToken}

\* How the routes are put together.  A route is net/http's or gin's.  The guards on claims
\* read what the extractor of a ginmw.JWT before them has set, and RequireCustomClaimNot, which
\* passes a request without the claim, stands behind one (`Must run after ginmw.JWT with a
\* WithClaimsExtractor that populates contextKey').  A string in user_id is one string, and the
\* logout handler stands behind authmw.JWT (examples/advanced).
Authenticators == {"authmw.JWT", "authmw.Optional", "ginmw.JWT"}
RoleGuards == {"rbac.RequireRole", "ginmw.RequireRole"}
PermissionGuards == {"rbac.Require", "ginmw.RequirePermission"}
ClaimGuards == {"ginmw.RequireCustomClaim", "ginmw.RequireCustomClaimNot", "ginmw.RequireAsyncPermission"}
Middlewares == Authenticators \cup RoleGuards \cup PermissionGuards \cup ClaimGuards \cup
               {"authmw.RequireAuth", "abac.Require", "ginmw.ScopeChecker"}
NetHTTP == {"authmw.JWT", "authmw.Optional", "authmw.RequireAuth", "rbac.RequireRole", "rbac.Require",
            "abac.Require"}

ASSUME RouteAssumption ==
  /\ \A t \in Tokens : Claim(t, "user_id").kind = "string" =>
       \E x \in Subjects : Claim(t, "user_id").val = <<x>>
  /\ \A r \in Routes : LET c == r.chain IN
       /\ c \in Seq(ToSet(c))
       /\ r.handler = "logout" => \E k \in 1..Len(c) : c[k].name = "authmw.JWT"
       /\ \A k \in 1..Len(c) :
            /\ c[k].name \in Middlewares /\ (c[k].name \in NetHTTP <=> c[1].name \in NetHTTP)
            /\ c[k].name \in RoleGuards => c[k].roles \in Seq(Roles)
            /\ c[k].name \in ClaimGuards =>
                 /\ c[k].key \in {"user_id", "user_role"}
                 /\ \A n \in 1..(k - 1) : c[n].name \in Authenticators =>
                      c[n].name = "ginmw.JWT" /\ c[n].extractor
            /\ c[k].name = "ginmw.RequireCustomClaimNot" =>
                 \E n \in 1..(k - 1) : c[n].name = "ginmw.JWT"
            /\ c[k].name = "ginmw.RequireAsyncPermission" =>
                 c[k].key = "user_id" /\ (c[k].bypassKey = "user_role" \/ c[k].bypassValue = "")

VARIABLES
  unsigned,   \* tokens not signed yet
  live,       \* tokens Verify accepts: signed, not expired, not on the blacklist
  assigned,   \* the roles of each subject
  reqs,       \* the request each goroutine serves
  loggedOut   \* history: tokens whose logout was answered

vars == <<unsigned, live, assigned, reqs, loggedOut>>

-----------------------------------------------------------------------------
(* Finding the token.                                                        *)

\* auth/middleware: "Bearer " as it stands, and something behind it.
extractBearer(r) == IF r.scheme = "Bearer" THEN r.header ELSE NoToken

\* ginmw: in any case, and for WebSocket upgrades, with the option, the query.
ginExtractBearer(r) == IF r.scheme \in {"Bearer", "bearer"} THEN r.header ELSE NoToken
ginToken(mw, r) ==
  IF ginExtractBearer(r) = NoToken /\ mw.webSocketFallback /\ r.upgrade
  THEN r.query ELSE ginExtractBearer(r)

TokenFor(mw, r) ==
  IF mw.name \in {"authmw.JWT", "authmw.Optional"} THEN extractBearer(r) ELSE ginToken(mw, r)

\* The claims extractor of the package documentation: the keys are set, to nil if need be.
Extractor(t) == [k \in {"user_id", "user_role"} |->
                   Claim(t, IF k = "user_id" THEN "user_id" ELSE "role")]

extractScopes(t) ==
  LET scope == Claim(t, "scope")
      scopes == Claim(t, "scopes")
  IN  IF scope.kind = "string" THEN ToSet(scope.val)
      ELSE IF scopes.kind \in {"[]string", "[]any"} THEN ToSet(scopes.val) ELSE {}

Can(s, perm) == \E role \in assigned[s] : perm \in Grants[role]

-----------------------------------------------------------------------------
(* The routes of the example programs.                                       *)

PostsRoute(perm) ==
  [chain |-> <<[name |-> "authmw.JWT"], [name |-> "rbac.Require", perm |-> perm]>>, handler |-> "serve"]
LogoutRoute == [chain |-> <<[name |-> "authmw.JWT"]>>, handler |-> "logout"]
DocumentsRoute(allows) ==
  [chain |-> <<[name |-> "authmw.JWT"], [name |-> "abac.Require", allows |-> allows]>>, handler |-> "serve"]

-----------------------------------------------------------------------------
Idle == [pc |-> "idle"]

Init ==
  /\ unsigned = Tokens \ Strangers
  /\ live = {}
  /\ assigned = [s \in Subjects |-> {}]
  /\ reqs = [p \in Procs |-> Idle]
  /\ loggedOut = {}

\* ctx is the claims in the context, vals what the extractor put beside them, todo the roles
\* a loop over HasRole has still to try.  began, after and seen are history: which of the
\* tokens sent were live, or logged out, at the start, and the roles of their subjects since.
Begin(p, r) ==
  LET sent == {r.header, r.query} \ {NoToken}
      named == UNION {{t.Subject} \cup UserIDs(t) : t \in sent}
  IN
  /\ reqs[p] = Idle
  /\ sent \cap unsigned = {}
  /\ reqs' = [reqs EXCEPT ![p] =
       [pc |-> "run", req |-> r, i |-> 1, ctx |-> NoToken, vals |-> << >>, todo |-> << >>,
        status |-> 0, began |-> live \cap sent, after |-> loggedOut \cap sent,
        seen |-> {<<s, assigned[s]>> : s \in named}, named |-> named]]
  /\ UNCHANGED <<unsigned, live, assigned, loggedOut>>

Chain(p) == reqs[p].req.route.chain
At(p, names) ==
  /\ reqs[p].pc = "run"
  /\ reqs[p].i \in DOMAIN Chain(p)
  /\ Chain(p)[reqs[p].i].name \in names
Mw(p) == Chain(p)[reqs[p].i]

\* next.ServeHTTP or c.Next with the context of q; or an answer instead.
Forward(p, q) == reqs' = [reqs EXCEPT ![p] = [q EXCEPT !.i = @ + 1]]
Answer(p, status) == reqs' = [reqs EXCEPT ![p].pc = "done", ![p].status = status]
Guard(p, ok, status) == IF ok THEN Forward(p, reqs[p]) ELSE Answer(p, status)

StoresUnchanged == UNCHANGED <<unsigned, live, assigned, loggedOut>>
\* The claims that authmw puts into the request's context and ginmw.JWT into gin's.
SubjectFrom(p) == IF reqs[p].ctx = NoToken THEN "" ELSE reqs[p].ctx.Subject
Get(p, key) == IF key \in DOMAIN reqs[p].vals THEN reqs[p].vals[key] ELSE Nil

-----------------------------------------------------------------------------
(* net/http.                                                                 *)

\* Mutant: no return after the error handler.
JWTFallsThrough(p) ==
  LET t == extractBearer(reqs[p].req) IN
  /\ At(p, {"authmw.JWT"})
  /\ Forward(p, [reqs[p] EXCEPT !.ctx = t])
  /\ StoresUnchanged
JWT(p) ==
  LET t == extractBearer(reqs[p].req) IN
  /\ At(p, {"authmw.JWT"})
  /\ IF t \in live THEN Forward(p, [reqs[p] EXCEPT !.ctx = t]) ELSE Answer(p, 401)
  /\ StoresUnchanged

\* Mutant: a bad token is answered as by JWT.
OptionalStrict(p) ==
  LET t == extractBearer(reqs[p].req) IN
  /\ At(p, {"authmw.Optional"})
  /\ IF t \in live THEN Forward(p, [reqs[p] EXCEPT !.ctx = t]) ELSE Answer(p, 401)
  /\ StoresUnchanged
Optional(p) ==
  LET t == extractBearer(reqs[p].req) IN
  /\ At(p, {"authmw.Optional"})
  /\ Forward(p, IF t \in live THEN [reqs[p] EXCEPT !.ctx = t] ELSE reqs[p])
  /\ StoresUnchanged

RequireAuth(p) ==
  /\ At(p, {"authmw.RequireAuth"})
  /\ Guard(p, reqs[p].ctx # NoToken, 401)
  /\ StoresUnchanged

Require(p) ==
  /\ At(p, {"rbac.Require"})
  /\ Guard(p, SubjectFrom(p) # "" /\ Can(SubjectFrom(p), Mw(p).perm), 403)
  /\ StoresUnchanged

\* The assigned roles are read once.
RequireRole(p) ==
  /\ At(p, {"rbac.RequireRole"})
  /\ Guard(p, SubjectFrom(p) # "" /\ assigned[SubjectFrom(p)] \cap ToSet(Mw(p).roles) # {}, 403)
  /\ StoresUnchanged

\* abac.Require: allows is the set of claims (or NoToken) that the policies allow; ABAC and
\* ABACRequire say how they come to it.
ABACRequire(p) ==
  /\ At(p, {"abac.Require"})
  /\ Guard(p, reqs[p].ctx \in Mw(p).allows, 403)
  /\ StoresUnchanged

-----------------------------------------------------------------------------
(* gin.                                                                      *)

GinJWT(p) ==
  LET t == ginToken(Mw(p), reqs[p].req) IN
  /\ At(p, {"ginmw.JWT"})
  /\ IF t \in live
     THEN Forward(p, [reqs[p] EXCEPT !.ctx = t, !.vals = IF Mw(p).extractor THEN Extractor(t) ELSE @])
     ELSE Answer(p, 401)
  /\ StoresUnchanged

\* The loop over the roles asks the store once for each: HasRole of the first, then of the
\* next, until one is held.
GinRequireRole(p) ==
  /\ At(p, {"ginmw.RequireRole"}) /\ reqs[p].todo = << >>
  /\ IF SubjectFrom(p) = "" THEN Answer(p, 401)
     ELSE IF Mw(p).roles = << >> THEN Answer(p, 403)
     ELSE reqs' = [reqs EXCEPT ![p].todo = Mw(p).roles]
  /\ StoresUnchanged
HasRole(p) ==
  /\ At(p, {"ginmw.RequireRole"}) /\ reqs[p].todo # << >>
  /\ LET rest == Tail(reqs[p].todo)
         held == Head(reqs[p].todo) \in assigned[SubjectFrom(p)]
     IN  IF held THEN Forward(p, [reqs[p] EXCEPT !.todo = << >>])
         ELSE IF rest = << >> THEN Answer(p, 403)
         ELSE reqs' = [reqs EXCEPT ![p].todo = rest]
  /\ StoresUnchanged

RequirePermission(p) ==
  /\ At(p, {"ginmw.RequirePermission"})
  /\ IF SubjectFrom(p) = "" THEN Answer(p, 401) ELSE Guard(p, Can(SubjectFrom(p), Mw(p).perm), 403)
  /\ StoresUnchanged

RequireCustomClaim(p) ==
  /\ At(p, {"ginmw.RequireCustomClaim"})
  /\ Guard(p, \E x \in Mw(p).values : IsString(Get(p, Mw(p).key), x), 403)
  /\ StoresUnchanged

RequireCustomClaimNot(p) ==
  /\ At(p, {"ginmw.RequireCustomClaimNot"})
  /\ Guard(p, ~IsString(Get(p, Mw(p).key), Mw(p).value), 403)
  /\ StoresUnchanged

\* The caller's permission function looks the subject's roles up.
RequireAsyncPermission(p) ==
  LET mw == Mw(p)
      subject == Get(p, mw.key)
  IN  /\ At(p, {"ginmw.RequireAsyncPermission"})
      /\ IF mw.bypassKey # "" /\ mw.bypassValue # "" /\ IsString(Get(p, mw.bypassKey), mw.bypassValue)
         THEN Forward(p, reqs[p])
         ELSE IF subject.kind # "string" \/ IsString(subject, "") THEN Answer(p, 401)
         ELSE Guard(p, Can(subject.val[1], mw.perm), 403)
      /\ StoresUnchanged

ScopeChecker(p) ==
  /\ At(p, {"ginmw.ScopeChecker"})
  /\ IF reqs[p].ctx = NoToken THEN Answer(p, 401)
     ELSE Guard(p, Mw(p).required \subseteq extractScopes(reqs[p].ctx), 403)
  /\ StoresUnchanged

-----------------------------------------------------------------------------
(* The handlers, and what happens meanwhile.                                 *)

\* Logging out revokes the token read from the header once more.
Serve(p) ==
  /\ reqs[p].pc = "run" /\ reqs[p].i > Len(Chain(p))
  /\ Answer(p, 200)
  /\ LET out == IF reqs[p].req.route.handler = "logout" THEN {reqs[p].req.header} ELSE {}
     IN  live' = live \ out /\ loggedOut' = loggedOut \cup out
  /\ UNCHANGED <<unsigned, assigned>>

Return(p) ==
  /\ reqs[p].pc = "done"
  /\ reqs' = [reqs EXCEPT ![p] = Idle]
  /\ StoresUnchanged

\* Mutant: the token stays unsigned.
LoginUnrecorded(t) ==
  /\ t \in unsigned
  /\ live' = live \cup {t}
  /\ UNCHANGED <<unsigned, assigned, reqs, loggedOut>>
Login(t) ==
  /\ t \in unsigned
  /\ unsigned' = unsigned \ {t}
  /\ live' = live \cup {t}
  /\ UNCHANGED <<assigned, reqs, loggedOut>>

Expire(t) ==
  /\ t \in live
  /\ live' = live \ {t}
  /\ UNCHANGED <<unsigned, assigned, reqs, loggedOut>>

Assigned(s, rs) ==
  /\ assigned' = [assigned EXCEPT ![s] = rs]
  /\ reqs' = [p \in Procs |-> IF reqs[p].pc = "run" /\ s \in reqs[p].named
                              THEN [reqs[p] EXCEPT !.seen = @ \cup {<<s, rs>>}] ELSE reqs[p]]
  /\ UNCHANGED <<unsigned, live, loggedOut>>
AssignRole(s, r) == r \notin assigned[s] /\ Assigned(s, assigned[s] \cup {r})
UnassignRole(s, r) == r \in assigned[s] /\ Assigned(s, assigned[s] \ {r})

Middleware(p) ==
  \/ JWT(p) \/ Optional(p) \/ RequireAuth(p) \/ Require(p) \/ RequireRole(p) \/ ABACRequire(p)
  \/ GinJWT(p) \/ GinRequireRole(p) \/ HasRole(p) \/ RequirePermission(p) \/ RequireCustomClaim(p)
  \/ RequireCustomClaimNot(p) \/ RequireAsyncPermission(p) \/ ScopeChecker(p)

Next ==
  \/ \E p \in Procs, r \in Requests : Begin(p, r)
  \/ \E p \in Procs : Middleware(p) \/ Serve(p) \/ Return(p)
  \/ \E t \in Tokens : Login(t) \/ Expire(t)
  \/ \E s \in Subjects, r \in Roles : AssignRole(s, r) \/ UnassignRole(s, r)

Spec == Init /\ [][Next]_vars

-----------------------------------------------------------------------------
(* Properties.                                                               *)

Request == {q \in {reqs[p] : p \in Procs} : q # Idle}

TypeOK ==
  /\ unsigned \subseteq Tokens
  /\ live \subseteq Tokens \ unsigned
  /\ loggedOut \subseteq Tokens \ (live \cup unsigned)
  /\ assigned \in [Subjects -> SUBSET Roles]
  /\ \A p \in Procs : reqs[p] = Idle \/
       /\ reqs[p].pc \in {"run", "done"}
       /\ reqs[p].req \in Requests
       /\ reqs[p].i \in 1..(Len(Chain(p)) + 1)
       /\ reqs[p].ctx \in Tokens \cup {NoToken}
       /\ reqs[p].status \in {0, 200, 401, 403}

\* The tokens that the middlewares before the k-th took from the request and that were good
\* when it began.
Proven(q, k) ==
  {t \in q.began \ q.after : \E n \in 1..(k - 1) :
     LET mw == q.req.route.chain[n] IN
     mw.name \in Authenticators /\ t = TokenFor(mw, q.req)}

\* The sets of roles that s had since the request began.
Held(q, s) == {h[2] : h \in {x \in q.seen : x[1] = s}}
Permits(rs, perm) == \E role \in rs : perm \in Grants[role]
Bypasses(mw, t) == mw.bypassValue # "" /\ IsString(Claim(t, "role"), mw.bypassValue)
ClaimedScopes(t) == ToSet(Claim(t, "scope").val) \cup ToSet(Claim(t, "scopes").val)

Entitled(q, k) ==
  LET mw == q.req.route.chain[k]
      who == Proven(q, k)
  IN  CASE mw.name \in {"authmw.JWT", "ginmw.JWT"} -> TokenFor(mw, q.req) \in q.began \ q.after
        [] mw.name = "authmw.Optional" -> TRUE
        [] mw.name = "authmw.RequireAuth" -> who # {}
        [] mw.name \in PermissionGuards ->
             \E t \in who : t.Subject # "" /\ \E rs \in Held(q, t.Subject) : Permits(rs, mw.perm)
        [] mw.name \in RoleGuards ->
             \E t \in who : t.Subject # "" /\ \E rs \in Held(q, t.Subject) : rs \cap ToSet(mw.roles) # {}
        [] mw.name = "abac.Require" ->
             \/ who \cap mw.allows # {}
             \/ NoToken \in mw.allows /\ \A n \in 1..(k - 1) : q.req.route.chain[n].name # "authmw.JWT"
        [] mw.name = "ginmw.RequireCustomClaim" ->
             \E t \in who, x \in mw.values : IsString(Extractor(t)[mw.key], x)
        [] mw.name = "ginmw.RequireCustomClaimNot" ->
             who # {} /\ \A t \in who : ~IsString(Extractor(t)[mw.key], mw.value)
        [] mw.name = "ginmw.RequireAsyncPermission" ->
             \E t \in who : Bypasses(mw, t) \/
               \E s \in UserIDs(t) \ {""} : \E rs \in Held(q, s) : Permits(rs, mw.perm)
        [] mw.name = "ginmw.ScopeChecker" -> \E t \in who : mw.required \subseteq ClaimedScopes(t)

\* A handler runs only if every middleware of its route had reason to let the request pass:
\* the token that an authentication took from it was good when it began and not logged out
\* before, and the bearer of such a token had, at some time since, what each guard behind asks
\* for; whatever is revoked, assigned or served meanwhile.  Without such a token a request gets
\* past authmw.Optional, and past abac.Require if the policies allow requests without one and
\* no authmw.JWT stands before; past every other guard, wherever RouteAssumption lets it
\* stand, it does not get.
ServedIsEntitled ==
  \A q \in Request : q.pc = "done" /\ q.status = 200 =>
    \A k \in 1..Len(q.req.route.chain) : Entitled(q, k)

\* Why the k-th guard may turn the bearer of t away.
MayRefuse(q, t) ==
  LET mw == q.req.route.chain[q.i] IN
  CASE mw.name = "authmw.RequireAuth" -> FALSE
    [] mw.name \in PermissionGuards ->
         t.Subject = "" \/ \E rs \in Held(q, t.Subject) : ~Permits(rs, mw.perm)
    [] mw.name = "rbac.RequireRole" ->
         t.Subject = "" \/ \E rs \in Held(q, t.Subject) : rs \cap ToSet(mw.roles) = {}
    [] mw.name = "ginmw.RequireRole" ->
         t.Subject = "" \/ \A r \in ToSet(mw.roles) : \E rs \in Held(q, t.Subject) : r \notin rs
    [] mw.name = "abac.Require" -> t \notin mw.allows
    [] mw.name = "ginmw.RequireCustomClaim" -> \A x \in mw.values : ~IsString(Extractor(t)[mw.key], x)
    [] mw.name = "ginmw.RequireCustomClaimNot" -> IsString(Extractor(t)[mw.key], mw.value)
    [] mw.name = "ginmw.RequireAsyncPermission" ->
         /\ ~Bypasses(mw, t)
         /\ \A s \in UserIDs(t) \ {""} : \E rs \in Held(q, s) : ~Permits(rs, mw.perm)
    [] mw.name = "ginmw.ScopeChecker" ->
         IF Claim(t, "scope").kind = "string" THEN ~(mw.required \subseteq ToSet(Claim(t, "scope").val))
         ELSE Claim(t, "scopes").kind \in {"[]string", "[]any"} =>
                ~(mw.required \subseteq ToSet(Claim(t, "scopes").val))

\* A request is answered 401 or 403 only for a reason: whoever presents a token that is good
\* all the while and keeps the rights asked for is served.  And 401, which makes clients log
\* in again, is for those without a good token or without a subject in it.
RefusalIsJustified ==
  \A q \in Request : q.pc = "done" /\ q.status # 200 =>
    LET mw == q.req.route.chain[q.i] IN
    IF mw.name \in {"authmw.JWT", "ginmw.JWT"}
    THEN q.status = 401 /\ TokenFor(mw, q.req) \notin q.began \cap live
    ELSE /\ mw.name # "authmw.Optional"
         /\ \A t \in Proven(q, q.i) \cap live :
              /\ MayRefuse(q, t)
              /\ q.status = 401 => t.Subject = "" \/ UserIDs(t) \ {""} = {}
=============================================================================
