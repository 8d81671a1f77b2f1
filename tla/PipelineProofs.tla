--------------------------- MODULE PipelineProofs ---------------------------
(***************************************************************************)
(* Proofs about Pipeline, for every number of goroutines, every set of     *)
(* tokens, subjects and roles, and every set of routes that are put        *)
(* together as RouteAssumption says.                                       *)
(***************************************************************************)
EXTENDS Pipeline, TLAPS

-----------------------------------------------------------------------------
(* The inductive invariant.                                                  *)

NamedBy(t) == {t.Subject} \cup UserIDs(t)
Sent(q) == {q.req.header, q.req.query} \ {NoToken}
ChainOf(q) == q.req.route.chain

\* A request in progress or answered.
Values == {<< >>} \cup {Extractor(t) : t \in Tokens}
Statuses == {0, 200, 401, 403}
RoleLists == Seq(Roles)
Sightings == SUBSET (Subjects \X SUBSET Roles)
Running ==
  [pc : {"run", "done"}, req : Requests, i : Nat, ctx : Tokens \cup {NoToken}, vals : Values,
   todo : RoleLists, status : Statuses, began : SUBSET Tokens, after : SUBSET Tokens,
   seen : Sightings, named : SUBSET Subjects]

\* The history is sound: a token sent that is live now was live when the request began, and
\* the roles that the subjects of the tokens have now are among those seen.
HistoryOK(q) ==
  /\ q.named = UNION {NamedBy(t) : t \in Sent(q)}
  /\ Sent(q) \cap unsigned = {}
  /\ Sent(q) \cap live \subseteq q.began
  /\ q.after \subseteq loggedOut
  /\ q.pc = "run" => \A s \in q.named : <<s, assigned[s]>> \in q.seen

\* Every guard behind the request was right to let it pass.
PassedOK(q) ==
  /\ q.i \in 1..(Len(ChainOf(q)) + 1)
  /\ \A k \in 1..(q.i - 1) : Entitled(q, k)

\* The context holds the token that was proven, if that is still good.
ContextOK(q) ==
  /\ q.ctx # NoToken => q.ctx \in Proven(q, q.i)
  /\ \A t \in Proven(q, q.i) \cap live : q.ctx = t
  /\ q.ctx = NoToken => \A n \in 1..(q.i - 1) : ChainOf(q)[n].name # "authmw.JWT"

\* The values beside it are those of the proven token.
ValuesOK(q) ==
  /\ q.vals # << >> => \E t \in Proven(q, q.i) : q.vals = Extractor(t)
  /\ \A n \in 1..(q.i - 1) :
       ChainOf(q)[n].name = "ginmw.JWT" /\ ChainOf(q)[n].extractor =>
         q.vals = Extractor(TokenFor(ChainOf(q)[n], q.req))

\* Between two calls of HasRole the roles tried so far were not held when they were tried.
LoopOK(q) ==
  q.pc = "run" /\ q.todo # << >> =>
    LET mw == ChainOf(q)[q.i] IN
    /\ q.i <= Len(ChainOf(q)) /\ mw.name = "ginmw.RequireRole"
    /\ q.ctx # NoToken /\ q.ctx.Subject # ""
    /\ ToSet(q.todo) \subseteq ToSet(mw.roles)
    /\ \A r \in ToSet(mw.roles) \ ToSet(q.todo) : \E rs \in Held(q, q.ctx.Subject) : r \notin rs

\* There is a reason to answer the request with status st where it stands.
RefusedOK(q, st) ==
  LET mw == ChainOf(q)[q.i] IN
  IF mw.name \in {"authmw.JWT", "ginmw.JWT"}
  THEN st = 401 /\ TokenFor(mw, q.req) \notin q.began \cap live
  ELSE /\ mw.name # "authmw.Optional"
       /\ \A t \in Proven(q, q.i) \cap live :
            /\ MayRefuse(q, t)
            /\ st = 401 => t.Subject = "" \/ UserIDs(t) \ {""} = {}

AnsweredOK(q) ==
  /\ q.pc = "done" /\ q.status = 200 => q.i = Len(ChainOf(q)) + 1
  /\ q.pc = "done" /\ q.status # 200 => q.i \in 1..Len(ChainOf(q)) /\ RefusedOK(q, q.status)

RequestOK(q) ==
  /\ HistoryOK(q) /\ PassedOK(q) /\ ContextOK(q) /\ ValuesOK(q) /\ LoopOK(q) /\ AnsweredOK(q)

StoresOK ==
  /\ unsigned \subseteq Tokens
  /\ live \subseteq Tokens \ unsigned
  /\ loggedOut \subseteq Tokens \ (live \cup unsigned)
  /\ assigned \in [Subjects -> SUBSET Roles]

Inv ==
  /\ StoresOK
  /\ reqs \in [Procs -> {Idle} \cup Running]
  /\ \A p \in Procs : reqs[p] # Idle => RequestOK(reqs[p])

-----------------------------------------------------------------------------
(* Tokens and sequences.                                                     *)

\* The elements of a list are its head and those of its tail.
LEMMA HeadTail ==
  ASSUME NEW S, NEW s \in Seq(S), s # << >>
  PROVE  /\ Head(s) \in S /\ Tail(s) \in Seq(S)
         /\ ToSet(s) = {Head(s)} \cup ToSet(Tail(s))
<1>1. Len(s) \in Nat \ {0} /\ DOMAIN s = 1..Len(s) /\ Head(s) = s[1] /\ Head(s) \in S
  OBVIOUS
<1>2. /\ Tail(s) \in Seq(S) /\ Len(Tail(s)) = Len(s) - 1
      /\ \A k \in 1..(Len(s) - 1) : Tail(s)[k] = s[k + 1]
  OBVIOUS
<1>3. DOMAIN Tail(s) = 1..(Len(s) - 1)
  BY <1>2
<1>4. ASSUME NEW x \in ToSet(s) PROVE x \in {Head(s)} \cup ToSet(Tail(s))
  <2>1. PICK k \in 1..Len(s) : x = s[k]
    BY <1>1, <1>4 DEF ToSet
  <2>2. CASE k = 1
    BY <1>1, <2>1, <2>2
  <2>3. CASE k # 1
    <3>1. k - 1 \in 1..(Len(s) - 1) /\ (k - 1) + 1 = k
      BY <1>1, <2>3
    <3> QED
      BY <1>2, <1>3, <2>1, <3>1 DEF ToSet
  <2> QED
    BY <2>2, <2>3
<1>5. ASSUME NEW x \in {Head(s)} \cup ToSet(Tail(s)) PROVE x \in ToSet(s)
  <2>1. CASE x = Head(s)
    BY <1>1, <2>1 DEF ToSet
  <2>2. CASE x \in ToSet(Tail(s))
    <3>1. PICK k \in 1..(Len(s) - 1) : x = Tail(s)[k]
      BY <1>3, <2>2 DEF ToSet
    <3>2. k + 1 \in 1..Len(s) /\ x = s[k + 1]
      BY <1>1, <1>2, <3>1
    <3> QED
      BY <1>1, <3>2 DEF ToSet
  <2> QED
    BY <1>5, <2>1, <2>2
<1> QED
  BY <1>1, <1>2, <1>4, <1>5

LEMMA EmptyToSet == ToSet(<< >>) = {}
BY DEF ToSet

\* Wherever the middlewares look for a token, they find the same one or none.
LEMMA OneToken ==
  ASSUME NEW r, NEW m, NEW n, TokenFor(m, r) # NoToken, TokenFor(n, r) # NoToken
  PROVE  TokenFor(m, r) = TokenFor(n, r)
BY DEF TokenFor, ginToken, ginExtractBearer, extractBearer

LEMMA TokenSent ==
  ASSUME NEW r, NEW m
  PROVE  TokenFor(m, r) \in {r.header, r.query, NoToken}
BY DEF TokenFor, ginToken, ginExtractBearer, extractBearer

\* The history that speaks of two requests is the same.
SameHistory(q, d) == /\ d.req = q.req /\ d.began = q.began /\ d.after = q.after
                     /\ q.seen \subseteq d.seen

LEMMA ProvenSame ==
  ASSUME NEW q, NEW d, SameHistory(q, d), NEW k
  PROVE  Proven(d, k) = Proven(q, k)
BY DEF SameHistory, Proven

LEMMA HeldGrows ==
  ASSUME NEW q, NEW d, SameHistory(q, d), NEW s
  PROVE  Held(q, s) \subseteq Held(d, s)
BY DEF SameHistory, Held

\* What was proven before the k-th middleware is what the k-th itself has proven, and the rest.
LEMMA ProvenNext ==
  ASSUME NEW q, NEW k \in Nat \ {0}
  PROVE  LET mw == ChainOf(q)[k] IN
         Proven(q, k + 1) = Proven(q, k) \cup
           {t \in q.began \ q.after : mw.name \in Authenticators /\ t = TokenFor(mw, q.req)}
<1> DEFINE By(t, n) == ChainOf(q)[n].name \in Authenticators /\ t = TokenFor(ChainOf(q)[n], q.req)
<1>1. \A j : Proven(q, j) = {t \in q.began \ q.after : \E n \in 1..(j - 1) : By(t, n)}
  BY DEF Proven, ChainOf
<1> HIDE DEF By
<1>2. \A t : (\E n \in 1..k : By(t, n)) <=> By(t, k) \/ \E n \in 1..(k - 1) : By(t, n)
  OBVIOUS
<1>3. (k + 1) - 1 = k
  OBVIOUS
<1>4. Proven(q, k + 1) = Proven(q, k) \cup {t \in q.began \ q.after : By(t, k)}
  BY <1>1, <1>2, <1>3
<1> QED
  BY <1>4 DEF By

\* A proven token was sent and was good when the request began; there is at most one.
LEMMA ProvenSent ==
  ASSUME NEW q \in Running, NEW k, NEW t \in Proven(q, k)
  PROVE  /\ t \in Sent(q) /\ t \in q.began \ q.after /\ t \in Tokens
         /\ \E mw : t = TokenFor(mw, q.req)
<1>1. t \in q.began \ q.after /\ \E mw : t = TokenFor(mw, q.req)
  BY DEF Proven
<1>2. t \in Tokens /\ t # NoToken
  BY <1>1, PipelineAssumption DEF Running
<1> QED
  BY <1>1, <1>2, TokenSent DEF Sent

LEMMA ProvenOne ==
  ASSUME NEW q \in Running, NEW k, NEW j, NEW t \in Proven(q, k), NEW u \in Proven(q, j)
  PROVE  t = u
<1>1. t # NoToken /\ u # NoToken
  BY ProvenSent DEF Sent
<1> QED
  BY <1>1, ProvenSent, OneToken

\* A sent token that is live now is one the middlewares may prove.
LEMMA LiveIsProven ==
  ASSUME StoresOK, NEW q \in Running, HistoryOK(q), NEW mw, TokenFor(mw, q.req) \in live
  PROVE  /\ TokenFor(mw, q.req) \in q.began \ q.after
         /\ TokenFor(mw, q.req) # NoToken
<1>1. TokenFor(mw, q.req) \in Tokens /\ TokenFor(mw, q.req) # NoToken
  BY PipelineAssumption DEF StoresOK
<1>2. TokenFor(mw, q.req) \in Sent(q)
  BY <1>1, TokenSent DEF Sent
<1> QED
  BY <1>1, <1>2 DEF HistoryOK, StoresOK

\* The chain of a request is a list of middlewares.
LEMMA ChainType ==
  ASSUME NEW q \in Running
  PROVE  /\ Len(ChainOf(q)) \in Nat
         /\ \A k \in 1..Len(ChainOf(q)) : ChainOf(q)[k].name \in Middlewares
<1>1. q.req.route \in Routes
  BY PipelineAssumption DEF Running
<1>2. ChainOf(q) \in Seq(ToSet(ChainOf(q)))
  BY <1>1, RouteAssumption DEF ChainOf
<1>3. \A k \in 1..Len(ChainOf(q)) : ChainOf(q)[k].name \in Middlewares
  BY <1>1, RouteAssumption DEF ChainOf
<1> QED
  BY <1>2, <1>3

\* What a request has passed it has passed for good.
LEMMA EntitledKept ==
  ASSUME NEW q \in Running, NEW d, SameHistory(q, d),
         NEW k \in 1..Len(ChainOf(q)), Entitled(q, k)
  PROVE  Entitled(d, k)
<1> DEFINE mw == ChainOf(q)[k]
<1>1. d.req.route.chain = ChainOf(q) /\ q.req.route.chain = ChainOf(q)
  BY DEF SameHistory, ChainOf
<1>2. mw.name \in Middlewares
  BY ChainType
<1>3. /\ Proven(d, k) = Proven(q, k) /\ d.began = q.began /\ d.after = q.after /\ d.req = q.req
      /\ \A s : Held(q, s) \subseteq Held(d, s)
  BY ProvenSame, HeldGrows DEF SameHistory
<1> HIDE DEF mw
<1>4. CASE mw.name \in {"authmw.JWT", "ginmw.JWT", "authmw.Optional"}
  BY <1>1, <1>3, <1>4 DEF Entitled, mw, PermissionGuards, RoleGuards
<1>5. CASE mw.name \in {"authmw.RequireAuth", "abac.Require", "ginmw.ScopeChecker"}
  BY <1>1, <1>3, <1>5 DEF Entitled, mw, PermissionGuards, RoleGuards
<1>6. CASE mw.name \in PermissionGuards
  BY <1>1, <1>3, <1>6 DEF Entitled, mw, PermissionGuards, RoleGuards
<1>7. CASE mw.name \in RoleGuards
  BY <1>1, <1>3, <1>7 DEF Entitled, mw, PermissionGuards, RoleGuards
<1>8. CASE mw.name \in ClaimGuards
  <2>1. CASE mw.name = "ginmw.RequireCustomClaim"
    BY <1>1, <1>3, <2>1 DEF Entitled, mw, PermissionGuards, RoleGuards
  <2>2. CASE mw.name = "ginmw.RequireCustomClaimNot"
    BY <1>1, <1>3, <2>2 DEF Entitled, mw, PermissionGuards, RoleGuards
  <2>3. CASE mw.name = "ginmw.RequireAsyncPermission"
    BY <1>1, <1>3, <2>3 DEF Entitled, mw, PermissionGuards, RoleGuards
  <2> QED
    BY <1>8, <2>1, <2>2, <2>3 DEF ClaimGuards
<1> QED
  BY <1>2, <1>4, <1>5, <1>6, <1>7, <1>8 DEF Middlewares, Authenticators

\* And what justifies its refusal stays.
LEMMA MayRefuseKept ==
  ASSUME NEW q \in Running, NEW d, SameHistory(q, d), d.i = q.i, NEW t,
         q.i \in 1..Len(ChainOf(q)), MayRefuse(q, t),
         ChainOf(q)[q.i].name \notin Authenticators
  PROVE  MayRefuse(d, t)
<1> DEFINE mw == ChainOf(q)[q.i]
<1>1. d.req.route.chain = ChainOf(q) /\ q.req.route.chain = ChainOf(q) /\ d.i = q.i
  BY DEF SameHistory, ChainOf
<1>2. mw.name \in Middlewares \ Authenticators
  BY ChainType
<1>3. \A s : Held(q, s) \subseteq Held(d, s)
  BY HeldGrows
<1> HIDE DEF mw
<1>4. CASE mw.name \in {"authmw.RequireAuth", "abac.Require", "ginmw.ScopeChecker"}
  BY <1>1, <1>3, <1>4 DEF MayRefuse, mw, PermissionGuards
<1>5. CASE mw.name \in PermissionGuards
  BY <1>1, <1>3, <1>5 DEF MayRefuse, mw, PermissionGuards
<1>6. CASE mw.name \in RoleGuards
  BY <1>1, <1>3, <1>6 DEF MayRefuse, mw, PermissionGuards, RoleGuards
<1>7. CASE mw.name \in ClaimGuards
  BY <1>1, <1>3, <1>7 DEF MayRefuse, mw, PermissionGuards, ClaimGuards
<1> QED
  BY <1>2, <1>4, <1>5, <1>6, <1>7 DEF Middlewares

-----------------------------------------------------------------------------
(* Steps of the stores.                                                      *)

\* Tokens are signed, expire and are revoked: no request notices more than that a token it
\* carries is no longer good.
LEMMA TokensMove ==
  ASSUME StoresOK, unsigned' \subseteq unsigned, live' \subseteq live \cup unsigned,
         loggedOut \subseteq loggedOut', assigned' = assigned
  PROVE  \A q \in Running : RequestOK(q) => RequestOK(q)'
<1> SUFFICES ASSUME NEW q \in Running, RequestOK(q) PROVE RequestOK(q)'
  OBVIOUS
<1>1. Sent(q) \cap live' \subseteq Sent(q) \cap live
  BY DEF RequestOK, HistoryOK
<1>2. HistoryOK(q)'
  BY <1>1 DEF RequestOK, HistoryOK
<1>3. Proven(q, q.i) \cap live' \subseteq Proven(q, q.i) \cap live
  BY <1>1, ProvenSent
<1>4. ContextOK(q)'
  BY <1>3 DEF RequestOK, ContextOK
<1>5. ASSUME NEW mw, TokenFor(mw, q.req) \in q.began \cap live'
      PROVE  TokenFor(mw, q.req) \in q.began \cap live
  <2>1. TokenFor(mw, q.req) # NoToken
    BY <1>5, PipelineAssumption DEF Running
  <2> QED
    BY <1>1, <1>5, <2>1, TokenSent DEF Sent
<1>6. RefusedOK(q, q.status) => RefusedOK(q, q.status)'
  <2> DEFINE mw == ChainOf(q)[q.i]
  <2>1. CASE mw.name \in {"authmw.JWT", "ginmw.JWT"}
    BY <1>5, <2>1 DEF RefusedOK
  <2>2. CASE mw.name \notin {"authmw.JWT", "ginmw.JWT"}
    BY <1>3, <2>2 DEF RefusedOK
  <2> QED
    BY <2>1, <2>2
<1>7. AnsweredOK(q)'
  BY <1>6 DEF RequestOK, AnsweredOK
<1>8. (PassedOK(q) /\ ValuesOK(q) /\ LoopOK(q))'
  BY DEF RequestOK, PassedOK, ValuesOK, LoopOK
<1> QED
  BY <1>2, <1>4, <1>7, <1>8 DEF RequestOK

LEMMA NotIdle ==
  ASSUME NEW q \in {Idle} \cup Running
  PROVE  q # Idle <=> q \in Running
BY DEF Idle, Running

\* A step that moves one request, from the stores as they are before it.
LEMMA OneRequest ==
  ASSUME Inv, StoresOK', unsigned' \subseteq unsigned, live' \subseteq live \cup unsigned,
         loggedOut \subseteq loggedOut', assigned' = assigned, NEW p \in Procs
  PROVE  \A d \in {Idle} \cup Running :
           (d # Idle => RequestOK(d)) /\ reqs' = [reqs EXCEPT ![p] = d] => Inv'
<1> SUFFICES ASSUME NEW d \in {Idle} \cup Running, d # Idle => RequestOK(d),
                    reqs' = [reqs EXCEPT ![p] = d]
             PROVE  Inv'
  OBVIOUS
<1>1. reqs' \in [Procs -> {Idle} \cup Running]
  BY DEF Inv
<1>2. \A x \in Procs : reqs'[x] # Idle => RequestOK(reqs'[x])
  BY DEF Inv
<1>3. \A q \in Running : RequestOK(q) => RequestOK(q)'
  BY TokensMove DEF Inv
<1>4. ASSUME NEW x \in Procs, reqs'[x] # Idle PROVE RequestOK(reqs[x])'
  <2>1. reqs'[x] \in Running
    BY <1>1, <1>4, NotIdle
  <2>2. RequestOK(reqs'[x])
    BY <1>2, <1>4
  <2>3. \A q \in Running : RequestOK(q) =>
          HistoryOK(q)' /\ PassedOK(q) /\ ContextOK(q)' /\ ValuesOK(q) /\ LoopOK(q) /\ AnsweredOK(q)'
    BY <1>3 DEF RequestOK
  <2> QED
    BY <2>1, <2>2, <2>3 DEF RequestOK, HistoryOK, ContextOK, AnsweredOK, RefusedOK
<1> QED
  BY <1>1, <1>4 DEF Inv

-----------------------------------------------------------------------------
(* Steps of a request.                                                       *)

\* The request q, or e, which differs in its context only, is handed to the next middleware.
Forwarded(q, d) ==
  /\ q \in Running /\ d \in Running
  /\ q.pc = "run" /\ d.pc = "run" /\ q.i \in 1..Len(ChainOf(q)) /\ d.i = q.i + 1
  /\ d.req = q.req /\ d.began = q.began /\ d.after = q.after /\ d.seen = q.seen
  /\ d.named = q.named /\ d.todo = << >>

\* A middleware that was right to let the request pass, and left a good context.
LEMMA ForwardOK ==
  ASSUME NEW q, NEW d, Forwarded(q, d), RequestOK(q), Entitled(q, q.i), ContextOK(d), ValuesOK(d)
  PROVE  RequestOK(d)
<1>1. SameHistory(q, d) /\ ChainOf(d) = ChainOf(q) /\ Sent(d) = Sent(q)
  BY DEF Forwarded, SameHistory, ChainOf, Sent
<1>2. HistoryOK(d)
  BY <1>1 DEF Forwarded, RequestOK, HistoryOK
<1>3. PassedOK(d)
  <2>1. q.i \in 1..Len(ChainOf(q)) /\ d.i = q.i + 1 /\ Len(ChainOf(q)) \in Nat
    BY ChainType DEF Forwarded
  <2>2. d.i \in 1..(Len(ChainOf(d)) + 1)
    BY <1>1, <2>1
  <2>3. ASSUME NEW k \in 1..(d.i - 1) PROVE Entitled(d, k)
    <3>1. k \in 1..Len(ChainOf(q)) /\ (k = q.i \/ k \in 1..(q.i - 1))
      BY <2>1
    <3>2. Entitled(q, k)
      BY <3>1 DEF RequestOK, PassedOK
    <3> QED
      BY <1>1, <3>1, <3>2, EntitledKept DEF Forwarded
  <2> QED
    BY <2>2, <2>3 DEF PassedOK
<1>4. LoopOK(d) /\ AnsweredOK(d)
  BY DEF Forwarded, LoopOK, AnsweredOK
<1> QED
  BY <1>2, <1>3, <1>4 DEF RequestOK

\* A guard leaves the context alone.
LEMMA GuardContext ==
  ASSUME NEW q, NEW d, Forwarded(q, d), RequestOK(q), d.ctx = q.ctx, d.vals = q.vals,
         ChainOf(q)[q.i].name \notin Authenticators
  PROVE  ContextOK(d) /\ ValuesOK(d)
<1>1. SameHistory(q, d) /\ ChainOf(d) = ChainOf(q) /\ d.req = q.req
  BY DEF Forwarded, SameHistory, ChainOf
<1>2. q.i \in Nat \ {0} /\ d.i = q.i + 1 /\ d.i - 1 = q.i
  BY DEF Forwarded, Running
<1>3. Proven(d, d.i) = Proven(q, q.i)
  <2>1. Proven(d, d.i) = Proven(q, q.i + 1)
    BY <1>1, <1>2, ProvenSame
  <2>2. Proven(q, q.i + 1) = Proven(q, q.i)
    BY <1>2, ProvenNext
  <2> QED
    BY <2>1, <2>2
<1>4. \A n \in 1..(d.i - 1) : n \in 1..(q.i - 1) \/ n = q.i
  BY <1>2
<1>5. ContextOK(d)
  BY <1>1, <1>3, <1>4 DEF RequestOK, ContextOK, Authenticators
<1>6. ValuesOK(d)
  BY <1>1, <1>3, <1>4 DEF RequestOK, ValuesOK, Authenticators
<1> QED
  BY <1>5, <1>6

\* An authenticator that finds a live token puts that into the context.
LEMMA TokenContext ==
  ASSUME StoresOK, NEW q, NEW d, Forwarded(q, d), RequestOK(q),
         NEW mw, mw = ChainOf(q)[q.i], mw.name \in Authenticators,
         TokenFor(mw, q.req) \in live, d.ctx = TokenFor(mw, q.req),
         d.vals = IF mw.name = "ginmw.JWT" /\ mw.extractor THEN Extractor(d.ctx) ELSE q.vals
  PROVE  Entitled(q, q.i) /\ ContextOK(d) /\ ValuesOK(d)
<1> DEFINE t == TokenFor(mw, q.req)
<1>1. SameHistory(q, d) /\ ChainOf(d) = ChainOf(q) /\ d.req = q.req /\ q \in Running /\ d \in Running
  BY DEF Forwarded, SameHistory, ChainOf
<1>2. q.i \in Nat \ {0} /\ d.i = q.i + 1 /\ d.i - 1 = q.i
  BY DEF Forwarded, Running
<1>3. t \in q.began \ q.after /\ t # NoToken
  BY <1>1, LiveIsProven DEF RequestOK
<1>4. /\ t \in Proven(d, d.i)
      /\ Proven(q, q.i) \subseteq Proven(d, d.i)
  BY <1>1, <1>2, <1>3, ProvenSame, ProvenNext
<1>5. Entitled(q, q.i)
  BY <1>3 DEF Entitled, ChainOf, Authenticators, PermissionGuards, RoleGuards
<1>6. ContextOK(d)
  BY <1>1, <1>3, <1>4, ProvenOne DEF ContextOK
<1>7. \A n \in 1..(d.i - 1) : n \in 1..(q.i - 1) \/ n = q.i
  BY <1>2
<1>8. d.vals # << >> => \E u \in Proven(d, d.i) : d.vals = Extractor(u)
  BY <1>4 DEF RequestOK, ValuesOK
<1>9. ASSUME NEW n \in 1..(d.i - 1), ChainOf(d)[n].name = "ginmw.JWT", ChainOf(d)[n].extractor
      PROVE  d.vals = Extractor(TokenFor(ChainOf(d)[n], d.req))
  <2>1. CASE n = q.i
    BY <1>1, <1>9, <2>1
  <2>2. CASE n \in 1..(q.i - 1)
    <3> DEFINE m == ChainOf(q)[n]
    <3>1. q.vals = Extractor(TokenFor(m, q.req))
      BY <1>1, <1>9, <2>2 DEF RequestOK, ValuesOK
    <3>2. n \in 1..Len(ChainOf(q)) /\ q.req.route.chain = ChainOf(q) /\ Entitled(q, n)
      BY <2>2 DEF RequestOK, PassedOK, Forwarded, Running, ChainOf
    <3>3. TokenFor(m, q.req) \in q.began
      BY <1>1, <1>9, <3>2 DEF Entitled, PermissionGuards, RoleGuards
    <3>4. TokenFor(m, q.req) # NoToken
      BY <1>1, <3>3, PipelineAssumption DEF Running
    <3>5. TokenFor(m, q.req) = t
      BY <1>3, <3>4, OneToken
    <3> QED
      BY <1>1, <3>1, <3>5
  <2> QED
    BY <1>7, <2>1, <2>2
<1> QED
  BY <1>5, <1>6, <1>8, <1>9 DEF ValuesOK

\* Optional passes a request without a good token on as it is.
LEMMA NoTokenContext ==
  ASSUME StoresOK, NEW q, NEW d, Forwarded(q, d), RequestOK(q), d.ctx = q.ctx, d.vals = q.vals,
         ChainOf(q)[q.i].name = "authmw.Optional", TokenFor(ChainOf(q)[q.i], q.req) \notin live
  PROVE  Entitled(q, q.i) /\ ContextOK(d) /\ ValuesOK(d)
<1>1. SameHistory(q, d) /\ ChainOf(d) = ChainOf(q) /\ d.req = q.req
  BY DEF Forwarded, SameHistory, ChainOf
<1>2. q.i \in Nat \ {0} /\ d.i = q.i + 1 /\ d.i - 1 = q.i
  BY DEF Forwarded, Running
<1>3. /\ Proven(q, q.i) \subseteq Proven(d, d.i)
      /\ Proven(d, d.i) \cap live \subseteq Proven(q, q.i)
  BY <1>1, <1>2, ProvenSame, ProvenNext
<1>4. \A n \in 1..(d.i - 1) : n \in 1..(q.i - 1) \/ n = q.i
  BY <1>2
<1>5. ContextOK(d)
  BY <1>1, <1>3, <1>4 DEF RequestOK, ContextOK
<1>6. ValuesOK(d)
  BY <1>1, <1>3, <1>4 DEF RequestOK, ValuesOK
<1>7. Entitled(q, q.i)
  BY DEF Entitled, ChainOf, PermissionGuards, RoleGuards
<1> QED
  BY <1>5, <1>6, <1>7

\* The request q is answered with status st: d.
Answered(q, d, st) ==
  /\ q \in Running /\ d \in Running
  /\ q.pc = "run" /\ d.pc = "done" /\ d.status = st /\ d.i = q.i /\ d.ctx = q.ctx /\ d.vals = q.vals
  /\ d.req = q.req /\ d.began = q.began /\ d.after = q.after /\ d.seen = q.seen
  /\ d.named = q.named

LEMMA AnswerOK ==
  ASSUME NEW q, NEW d, NEW st, Answered(q, d, st), RequestOK(q),
         \/ st = 200 /\ q.i = Len(ChainOf(q)) + 1
         \/ st # 200 /\ q.i \in 1..Len(ChainOf(q)) /\ RefusedOK(q, st)
  PROVE  RequestOK(d)
<1>1. SameHistory(q, d) /\ ChainOf(d) = ChainOf(q) /\ Sent(d) = Sent(q) /\ d.i = q.i
      /\ q \in Running
  BY DEF Answered, SameHistory, ChainOf, Sent
<1>2. Proven(d, d.i) = Proven(q, q.i)
  BY <1>1, ProvenSame
<1>3. HistoryOK(d)
  BY <1>1 DEF Answered, RequestOK, HistoryOK
<1>4. PassedOK(d)
  <2>1. q.i \in 1..(Len(ChainOf(q)) + 1) /\ Len(ChainOf(q)) \in Nat
    BY <1>1, ChainType DEF RequestOK, PassedOK
  <2>2. \A k \in 1..(q.i - 1) : k \in 1..Len(ChainOf(q))
    BY <2>1
  <2>3. \A k \in 1..(q.i - 1) : Entitled(d, k)
    BY <1>1, <2>2, EntitledKept DEF RequestOK, PassedOK
  <2> QED
    BY <1>1, <2>1, <2>3 DEF PassedOK
<1>5. ContextOK(d) /\ ValuesOK(d) /\ LoopOK(d)
  <2>1. d.ctx = q.ctx /\ d.vals = q.vals /\ d.req = q.req /\ d.pc = "done"
    BY DEF Answered
  <2>2. ContextOK(d)
    BY <1>1, <1>2, <2>1 DEF RequestOK, ContextOK
  <2>3. ValuesOK(d)
    BY <1>1, <1>2, <2>1 DEF RequestOK, ValuesOK
  <2> QED
    BY <2>1, <2>2, <2>3 DEF LoopOK
<1>6. ASSUME q.i \in 1..Len(ChainOf(q)), RefusedOK(q, st) PROVE RefusedOK(d, st)
  <2> DEFINE mw == ChainOf(q)[q.i]
  <2>1. CASE mw.name \in {"authmw.JWT", "ginmw.JWT"}
    BY <1>1, <1>6, <2>1 DEF RefusedOK, Answered
  <2>2. CASE mw.name \notin {"authmw.JWT", "ginmw.JWT"}
    <3>1. mw.name \notin Authenticators
      BY <1>6, <2>2 DEF RefusedOK, Authenticators
    <3>2. \A t : MayRefuse(q, t) => MayRefuse(d, t)
      BY <1>1, <1>6, <3>1, MayRefuseKept
    <3> QED
      BY <1>1, <1>2, <1>6, <2>2, <3>2 DEF RefusedOK
  <2> QED
    BY <2>1, <2>2
<1>7. AnsweredOK(d)
  BY <1>1, <1>6 DEF AnsweredOK, Answered
<1> QED
  BY <1>3, <1>4, <1>5, <1>7 DEF RequestOK

\* A request that stands before a middleware.
LEMMA AtRequest ==
  ASSUME Inv, NEW p \in Procs, NEW names, At(p, names)
  PROVE  /\ reqs[p] \in Running /\ RequestOK(reqs[p]) /\ reqs[p].pc = "run"
         /\ reqs[p].i \in 1..Len(ChainOf(reqs[p]))
         /\ Mw(p) = ChainOf(reqs[p])[reqs[p].i] /\ Mw(p).name \in names
         /\ Chain(p) = ChainOf(reqs[p])
<1>1. reqs[p] \in {Idle} \cup Running /\ reqs[p].pc = "run"
  BY DEF Inv, At
<1>2. reqs[p] # Idle
  BY <1>1 DEF Idle
<1>3. reqs[p] \in Running /\ RequestOK(reqs[p])
  BY <1>1, <1>2 DEF Inv
<1>4. Chain(p) = ChainOf(reqs[p]) /\ reqs[p].i \in DOMAIN ChainOf(reqs[p])
  BY DEF At, Chain, ChainOf
<1>5. DOMAIN ChainOf(reqs[p]) = 1..Len(ChainOf(reqs[p]))
  <2>1. ChainOf(reqs[p]) \in Seq(ToSet(ChainOf(reqs[p])))
    BY <1>3, PipelineAssumption, RouteAssumption DEF Running, ChainOf
  <2> QED
    BY <2>1
<1> QED
  BY <1>1, <1>3, <1>4, <1>5 DEF At, Mw

\* The records that Answer and Forward make.
Ended(q, st) == [q EXCEPT !.pc = "done", !.status = st]
Moved(q, ctx, vals) == [q EXCEPT !.ctx = ctx, !.vals = vals, !.todo = << >>, !.i = @ + 1]

LEMMA AnswerRecord ==
  ASSUME NEW q \in Running, q.pc = "run", NEW st \in Statuses
  PROVE  Answered(q, Ended(q, st), st)
<1> DEFINE d == [q EXCEPT !.pc = "done", !.status = st]
<1>1. d \in Running
  BY DEF Running
<1>2. /\ d.pc = "done" /\ d.status = st /\ d.i = q.i /\ d.ctx = q.ctx /\ d.vals = q.vals
      /\ d.req = q.req /\ d.began = q.began /\ d.after = q.after /\ d.seen = q.seen
      /\ d.named = q.named
  BY DEF Running
<1>3. Ended(q, st) = d
  BY DEF Ended
<1> HIDE DEF d
<1> QED
  BY <1>1, <1>2, <1>3 DEF Answered

LEMMA ForwardRecord ==
  ASSUME NEW q \in Running, q.pc = "run", q.i \in 1..Len(ChainOf(q)),
         NEW ctx \in Tokens \cup {NoToken}, NEW vals \in Values
  PROVE  LET d == Moved(q, ctx, vals)
         IN  Forwarded(q, d) /\ d.ctx = ctx /\ d.vals = vals
<1> DEFINE none == << >>
           j == q.i + 1
           d == [q EXCEPT !.ctx = ctx, !.vals = vals, !.todo = none, !.i = j]
<1>1. none \in RoleLists /\ j \in Nat /\ j = q.i + 1
  BY DEF RoleLists, Running
<1>2. Moved(q, ctx, vals) = d
  BY DEF Moved
<1> HIDE DEF none, j
<1>3. d \in Running
  BY <1>1 DEF Running
<1>4. /\ d.pc = q.pc /\ d.i = j /\ d.ctx = ctx /\ d.vals = vals /\ d.todo = none
      /\ d.req = q.req /\ d.began = q.began /\ d.after = q.after /\ d.seen = q.seen
      /\ d.named = q.named
  BY DEF Running
<1> HIDE DEF d
<1>5. Forwarded(q, d)
  BY <1>1, <1>3, <1>4 DEF Forwarded, none
<1> QED
  BY <1>2, <1>4, <1>5

LEMMA AnswerIs ==
  ASSUME NEW S, reqs \in [Procs -> S], NEW p \in Procs, NEW st, Answer(p, st)
  PROVE  reqs' = [reqs EXCEPT ![p] = Ended(reqs[p], st)]
BY DEF Answer, Ended

\* The middleware answers.
LEMMA RefuseStep ==
  ASSUME Inv, NEW p \in Procs, NEW names, At(p, names), NEW st \in {401, 403},
         RefusedOK(reqs[p], st), Answer(p, st), StoresUnchanged
  PROVE  Inv'
<1> DEFINE q == reqs[p]
           d == Ended(q, st)
<1>1. q \in Running /\ RequestOK(q) /\ q.pc = "run" /\ q.i \in 1..Len(ChainOf(q))
  BY AtRequest
<1>2. reqs \in [Procs -> {Idle} \cup Running] /\ st \in Statuses
  BY DEF Inv, Statuses
<1>3. reqs' = [reqs EXCEPT ![p] = d]
  BY <1>2, AnswerIs
<1>4. Answered(q, d, st)
  BY <1>1, <1>2, AnswerRecord
<1>5. d \in Running
  BY <1>4 DEF Answered
<1>6. RequestOK(d)
  BY <1>1, <1>4, AnswerOK
<1>7. UNCHANGED <<unsigned, live, assigned, loggedOut>>
  BY DEF StoresUnchanged
<1>8. StoresOK'
  BY <1>7 DEF StoresOK, Inv
<1> QED
  BY <1>3, <1>5, <1>6, <1>7, <1>8, OneRequest

\* The middleware passes the request on, with a context of its own or as it is.
LEMMA PassStep ==
  ASSUME Inv, NEW p \in Procs, NEW names, At(p, names), NEW d,
         Forwarded(reqs[p], d), Entitled(reqs[p], reqs[p].i), ContextOK(d), ValuesOK(d),
         reqs' = [reqs EXCEPT ![p] = d], StoresUnchanged
  PROVE  Inv'
<1>1. RequestOK(reqs[p])
  BY AtRequest
<1>2. d \in Running /\ RequestOK(d)
  BY <1>1, ForwardOK DEF Forwarded
<1>3. UNCHANGED <<unsigned, live, assigned, loggedOut>>
  BY DEF StoresUnchanged
<1>4. StoresOK'
  BY <1>3 DEF StoresOK, Inv
<1> QED
  BY <1>2, <1>3, <1>4, OneRequest

\* Only the loop of RequireRole leaves something to do.
LEMMA NothingToDo ==
  ASSUME Inv, NEW p \in Procs, NEW names, At(p, names), "ginmw.RequireRole" \notin names
  PROVE  reqs[p].todo = << >>
<1>1. RequestOK(reqs[p]) /\ reqs[p].pc = "run" /\ ChainOf(reqs[p])[reqs[p].i].name \in names
  BY AtRequest
<1> QED
  BY <1>1 DEF RequestOK, LoopOK

\* Guards pass a request on as it is.
LEMMA GuardPass ==
  ASSUME Inv, NEW p \in Procs, NEW names, At(p, names), names \cap Authenticators = {},
         Entitled(reqs[p], reqs[p].i), Forward(p, [reqs[p] EXCEPT !.todo = << >>]), StoresUnchanged
  PROVE  Inv'
<1> DEFINE q == reqs[p]
           d == Moved(q, q.ctx, q.vals)
<1>1. /\ q \in Running /\ RequestOK(q) /\ q.pc = "run" /\ q.i \in 1..Len(ChainOf(q))
      /\ ChainOf(q)[q.i].name \notin Authenticators
  BY AtRequest
<1>2. q.ctx \in Tokens \cup {NoToken} /\ q.vals \in Values
  BY <1>1 DEF Running
<1>3. [[q EXCEPT !.todo = << >>] EXCEPT !.i = @ + 1] = d
  BY <1>1 DEF Running, Moved
<1>4. reqs' = [reqs EXCEPT ![p] = d]
  BY <1>3 DEF Forward
<1>5. Forwarded(q, d) /\ d.ctx = q.ctx /\ d.vals = q.vals
  BY <1>1, <1>2, ForwardRecord
<1> QED
  BY <1>1, <1>4, <1>5, GuardContext, PassStep

\* A guard that passes the entitled and refuses with reason.
LEMMA GuardStep ==
  ASSUME Inv, NEW p \in Procs, NEW names, At(p, names), names \cap Authenticators = {},
         "ginmw.RequireRole" \notin names, NEW ok, NEW st \in {401, 403},
         ok => Entitled(reqs[p], reqs[p].i), ~ok => RefusedOK(reqs[p], st),
         Guard(p, ok, st), StoresUnchanged
  PROVE  Inv'
<1>1. CASE ok
  <2>1. reqs[p].todo = << >> /\ reqs[p] \in Running
    BY NothingToDo, AtRequest
  <2>2. [reqs[p] EXCEPT !.todo = << >>] = reqs[p]
    BY <2>1 DEF Running
  <2> QED
    BY <1>1, <2>2, GuardPass DEF Guard
<1>2. CASE ~ok
  BY <1>2, RefuseStep DEF Guard
<1> QED
  BY <1>1, <1>2

-----------------------------------------------------------------------------
(* What a guard knows.                                                       *)

\* The token in the context is proven, and the roles of its subjects as they are now were
\* held during the request; no other token that the request has proven is still live.
LEMMA GuardFacts ==
  ASSUME StoresOK, NEW q \in Running, RequestOK(q), q.pc = "run"
  PROVE  /\ q.ctx # NoToken => q.ctx \in Proven(q, q.i)
         /\ \A t \in Proven(q, q.i) : \A s \in NamedBy(t) : s \in Subjects /\ assigned[s] \in Held(q, s)
         /\ \A t \in Proven(q, q.i) \cap live : t = q.ctx /\ t # NoToken
<1>1. q.ctx # NoToken => q.ctx \in Proven(q, q.i)
  BY DEF RequestOK, ContextOK
<1>2. ASSUME NEW t \in Proven(q, q.i), NEW s \in NamedBy(t)
      PROVE  s \in Subjects /\ assigned[s] \in Held(q, s)
  <2>1. t \in Sent(q) /\ t \in Tokens
    BY ProvenSent
  <2>2. s \in q.named /\ s \in Subjects
    BY <1>2, <2>1, PipelineAssumption DEF RequestOK, HistoryOK, NamedBy
  <2>3. <<s, assigned[s]>> \in q.seen
    BY <2>2 DEF RequestOK, HistoryOK
  <2> QED
    BY <2>2, <2>3 DEF Held
<1>3. ASSUME NEW t \in Proven(q, q.i) \cap live PROVE t = q.ctx /\ t # NoToken
  BY ProvenSent DEF RequestOK, ContextOK, Sent
<1> QED
  BY <1>1, <1>2, <1>3

\* Before a guard on claims, the values in the context are those of the proven token.
LEMMA ClaimFacts ==
  ASSUME NEW q \in Running, RequestOK(q), q.i \in 1..Len(ChainOf(q)),
         ChainOf(q)[q.i].name \in ClaimGuards
  PROVE  /\ \A t \in Proven(q, q.i) : q.vals = Extractor(t)
         /\ q.vals # << >> => \E t \in Proven(q, q.i) : q.vals = Extractor(t)
         /\ ChainOf(q)[q.i].key \in {"user_id", "user_role"}
<1>1. q.req.route \in Routes /\ ChainOf(q) = q.req.route.chain
  BY PipelineAssumption DEF Running, ChainOf
<1>2. /\ ChainOf(q)[q.i].key \in {"user_id", "user_role"}
      /\ \A n \in 1..(q.i - 1) : ChainOf(q)[n].name \in Authenticators =>
           ChainOf(q)[n].name = "ginmw.JWT" /\ ChainOf(q)[n].extractor
  <2> DEFINE c == ChainOf(q)
  <2>1. \A k \in 1..Len(c) : c[k].name \in ClaimGuards =>
          /\ c[k].key \in {"user_id", "user_role"}
          /\ \A n \in 1..(k - 1) : c[n].name \in Authenticators =>
               c[n].name = "ginmw.JWT" /\ c[n].extractor
    <3> DEFINE route == q.req.route
    <3>1. route \in Routes /\ c = route.chain
      BY <1>1
    <3> HIDE DEF route, c
    <3> QED
      BY <3>1, RouteAssumption
  <2> HIDE DEF c
  <2> QED
    BY <2>1 DEF c
<1>3. ASSUME NEW t \in Proven(q, q.i) PROVE q.vals = Extractor(t)
  <2>1. PICK n \in 1..(q.i - 1) : ChainOf(q)[n].name \in Authenticators
                                  /\ t = TokenFor(ChainOf(q)[n], q.req)
    BY DEF Proven, ChainOf
  <2> QED
    BY <1>2, <2>1 DEF RequestOK, ValuesOK
<1> QED
  BY <1>2, <1>3 DEF RequestOK, ValuesOK

\* A guard gives its reason to the bearer of the token in the context.
LEMMA RefusalReason ==
  ASSUME StoresOK, NEW q \in Running, RequestOK(q), q.pc = "run", NEW st,
         ChainOf(q)[q.i].name \notin Authenticators,
         q.ctx \in Proven(q, q.i) /\ q.ctx # NoToken =>
           /\ MayRefuse(q, q.ctx)
           /\ st = 401 => q.ctx.Subject = "" \/ UserIDs(q.ctx) \ {""} = {}
  PROVE  RefusedOK(q, st)
<1>1. \A t \in Proven(q, q.i) \cap live : t = q.ctx /\ t # NoToken
  BY GuardFacts
<1>2. ASSUME NEW t \in Proven(q, q.i) \cap live
      PROVE  MayRefuse(q, t) /\ (st = 401 => t.Subject = "" \/ UserIDs(t) \ {""} = {})
  <2>1. t = q.ctx /\ t \in Proven(q, q.i) /\ t # NoToken
    BY <1>1, <1>2
  <2> QED
    BY <2>1
<1>3. ChainOf(q)[q.i].name \notin {"authmw.JWT", "ginmw.JWT", "authmw.Optional"}
  BY DEF Authenticators
<1> QED
  BY <1>2, <1>3 DEF RefusedOK

LEMMA ForbiddenReason ==
  ASSUME StoresOK, NEW q \in Running, RequestOK(q), q.pc = "run",
         ChainOf(q)[q.i].name \notin Authenticators,
         q.ctx \in Proven(q, q.i) /\ q.ctx # NoToken => MayRefuse(q, q.ctx)
  PROVE  RefusedOK(q, 403)
<1> DEFINE st == 403
<1>1. st # 401
  OBVIOUS
<1> HIDE DEF st
<1>2. RefusedOK(q, st)
  BY <1>1, RefusalReason
<1> QED
  BY <1>2 DEF st

-----------------------------------------------------------------------------
(* The middlewares of net/http.                                              *)

\* A live token goes into the context.
LEMMA TokenStep ==
  ASSUME Inv, NEW p \in Procs, NEW names, At(p, names), names \subseteq Authenticators,
         NEW t, t = TokenFor(Mw(p), reqs[p].req), t \in live,
         NEW vals,
         Mw(p).name = "ginmw.JWT" /\ Mw(p).extractor => vals = Extractor(t),
         ~(Mw(p).name = "ginmw.JWT" /\ Mw(p).extractor) => vals = reqs[p].vals,
         reqs' = [reqs EXCEPT ![p] = Moved(reqs[p], t, vals)], StoresUnchanged
  PROVE  Inv'
<1> DEFINE q == reqs[p]
           d == Moved(q, t, vals)
<1>1. /\ q \in Running /\ RequestOK(q) /\ q.pc = "run" /\ q.i \in 1..Len(ChainOf(q))
      /\ Mw(p) = ChainOf(q)[q.i] /\ Mw(p).name \in Authenticators
  BY AtRequest
<1>2. StoresOK /\ t \in Tokens /\ vals \in Values
  BY <1>1 DEF Inv, StoresOK, Running, Values
<1>3. Forwarded(q, d) /\ d.ctx = t /\ d.vals = vals
  BY <1>1, <1>2, ForwardRecord
<1>4. Entitled(q, q.i) /\ ContextOK(d) /\ ValuesOK(d)
  BY <1>1, <1>2, <1>3, TokenContext
<1> QED
  BY <1>3, <1>4, PassStep

\* A middleware that needs a live token and finds none answers 401.
LEMMA NoTokenStep ==
  ASSUME Inv, NEW p \in Procs, NEW names, At(p, names), names \subseteq {"authmw.JWT", "ginmw.JWT"},
         TokenFor(Mw(p), reqs[p].req) \notin live, Answer(p, 401), StoresUnchanged
  PROVE  Inv'
<1>1. /\ Mw(p) = ChainOf(reqs[p])[reqs[p].i]
      /\ Mw(p).name \in {"authmw.JWT", "ginmw.JWT"}
  BY AtRequest
<1>2. RefusedOK(reqs[p], 401)
  BY <1>1 DEF RefusedOK
<1> QED
  BY <1>2, RefuseStep

LEMMA JWTInv == ASSUME Inv, NEW p \in Procs, JWT(p) PROVE Inv'
<1> DEFINE q == reqs[p]
           t == extractBearer(q.req)
<1>1. At(p, {"authmw.JWT"}) /\ StoresUnchanged
  BY DEF JWT
<1>2. q \in Running /\ q.todo = << >> /\ Mw(p).name = "authmw.JWT"
  BY <1>1, AtRequest, NothingToDo
<1>3. TokenFor(Mw(p), q.req) = t
  BY <1>2 DEF TokenFor
<1>4. CASE t \in live
  <2>1. Forward(p, [q EXCEPT !.ctx = t])
    BY <1>4 DEF JWT
  <2>2. [[q EXCEPT !.ctx = t] EXCEPT !.i = @ + 1] = Moved(q, t, q.vals)
    BY <1>2 DEF Running, Moved
  <2>3. reqs' = [reqs EXCEPT ![p] = Moved(q, t, q.vals)]
    BY <2>1, <2>2 DEF Forward
  <2>4. {"authmw.JWT"} \subseteq Authenticators
    BY DEF Authenticators
  <2>5. Mw(p).name # "ginmw.JWT"
    BY <1>2
  <2> HIDE DEF t
  <2> QED
    BY <1>1, <1>3, <1>4, <2>3, <2>4, <2>5, TokenStep
<1>5. CASE t \notin live
  BY <1>1, <1>3, <1>5, NoTokenStep DEF JWT
<1> QED
  BY <1>4, <1>5

LEMMA OptionalInv == ASSUME Inv, NEW p \in Procs, Optional(p) PROVE Inv'
<1> DEFINE q == reqs[p]
           t == extractBearer(q.req)
<1>1. At(p, {"authmw.Optional"}) /\ StoresUnchanged
  BY DEF Optional
<1>2. /\ q \in Running /\ q.todo = << >> /\ RequestOK(q) /\ q.pc = "run" /\ q.i \in 1..Len(ChainOf(q))
      /\ Mw(p).name = "authmw.Optional" /\ Mw(p) = ChainOf(q)[q.i]
  BY <1>1, AtRequest, NothingToDo
<1>3. TokenFor(Mw(p), q.req) = t
  BY <1>2 DEF TokenFor
<1>4. CASE t \in live
  <2>1. Forward(p, [q EXCEPT !.ctx = t])
    BY <1>4 DEF Optional
  <2>2. [[q EXCEPT !.ctx = t] EXCEPT !.i = @ + 1] = Moved(q, t, q.vals)
    BY <1>2 DEF Running, Moved
  <2>3. reqs' = [reqs EXCEPT ![p] = Moved(q, t, q.vals)]
    BY <2>1, <2>2 DEF Forward
  <2>4. {"authmw.Optional"} \subseteq Authenticators
    BY DEF Authenticators
  <2>5. Mw(p).name # "ginmw.JWT"
    BY <1>2
  <2> HIDE DEF t
  <2> QED
    BY <1>1, <1>3, <1>4, <2>3, <2>4, <2>5, TokenStep
<1>5. CASE t \notin live
  <2> DEFINE d == Moved(q, q.ctx, q.vals)
  <2>1. Forward(p, q)
    BY <1>5 DEF Optional
  <2>2. [q EXCEPT !.i = @ + 1] = d
    BY <1>2 DEF Running, Moved
  <2>3. reqs' = [reqs EXCEPT ![p] = d]
    BY <2>1, <2>2 DEF Forward
  <2>4. q.ctx \in Tokens \cup {NoToken} /\ q.vals \in Values
    BY <1>2 DEF Running
  <2>5. Forwarded(q, d) /\ d.ctx = q.ctx /\ d.vals = q.vals
    <3>1. q \in Running /\ q.pc = "run" /\ q.i \in 1..Len(ChainOf(q))
      BY <1>2
    <3> QED
      BY <3>1, <2>4, ForwardRecord
  <2>6. Entitled(q, q.i) /\ ContextOK(d) /\ ValuesOK(d)
    BY <1>2, <1>3, <1>5, <2>5, NoTokenContext DEF Inv
  <2> QED
    BY <1>1, <2>3, <2>5, <2>6, PassStep
<1> QED
  BY <1>4, <1>5

LEMMA RequireAuthInv == ASSUME Inv, NEW p \in Procs, RequireAuth(p) PROVE Inv'
<1> DEFINE q == reqs[p]
           ok == q.ctx # NoToken
<1>1. At(p, {"authmw.RequireAuth"})
  BY DEF RequireAuth
<1>2. /\ q \in Running /\ RequestOK(q) /\ q.pc = "run" /\ StoresOK
      /\ ChainOf(q)[q.i].name = "authmw.RequireAuth"
  BY <1>1, AtRequest DEF Inv
<1>3. ok => Entitled(q, q.i)
  BY <1>2, GuardFacts DEF Entitled, ChainOf, PermissionGuards, RoleGuards
<1>4. ~ok => RefusedOK(q, 401)
  BY <1>2, RefusalReason DEF Authenticators
<1>5. {"authmw.RequireAuth"} \cap Authenticators = {}
  BY DEF Authenticators
<1>6. Guard(p, ok, 401) /\ StoresUnchanged
  BY DEF RequireAuth
<1> HIDE DEF ok
<1> QED
  BY <1>1, <1>3, <1>4, <1>5, <1>6, GuardStep

\* What the enforcer says of the subject in the context is so for roles held during the request.
LEMMA CanFacts ==
  ASSUME Inv, NEW p \in Procs, NEW names, At(p, names), SubjectFrom(p) # ""
  PROVE  LET q == reqs[p] IN
         /\ q.ctx # NoToken /\ q.ctx \in Proven(q, q.i) /\ q.ctx.Subject = SubjectFrom(p)
         /\ assigned[SubjectFrom(p)] \in Held(q, q.ctx.Subject)
         /\ \A perm : Can(SubjectFrom(p), perm) <=> Permits(assigned[SubjectFrom(p)], perm)
<1>1. reqs[p].ctx # NoToken /\ reqs[p].ctx.Subject = SubjectFrom(p)
  BY DEF SubjectFrom
<1>2. reqs[p] \in Running /\ RequestOK(reqs[p]) /\ reqs[p].pc = "run" /\ StoresOK
  BY AtRequest DEF Inv
<1>3. reqs[p].ctx.Subject \in NamedBy(reqs[p].ctx)
  BY DEF NamedBy
<1> QED
  BY <1>1, <1>2, <1>3, GuardFacts DEF Can, Permits

LEMMA RequireInv == ASSUME Inv, NEW p \in Procs, Require(p) PROVE Inv'
<1> DEFINE q == reqs[p]
           mw == ChainOf(q)[q.i]
           ok == SubjectFrom(p) # "" /\ Can(SubjectFrom(p), Mw(p).perm)
<1>1. At(p, {"rbac.Require"})
  BY DEF Require
<1>2. /\ q \in Running /\ RequestOK(q) /\ q.pc = "run" /\ StoresOK
      /\ mw.name = "rbac.Require" /\ Mw(p) = mw
  BY <1>1, AtRequest DEF Inv
<1>3. ok => Entitled(q, q.i)
  BY <1>1, <1>2, CanFacts DEF Entitled, ChainOf, PermissionGuards, RoleGuards
<1>4. ASSUME ~ok, q.ctx \in Proven(q, q.i), q.ctx # NoToken PROVE MayRefuse(q, q.ctx)
  <2>1. q.ctx.Subject = SubjectFrom(p)
    BY <1>4 DEF SubjectFrom
  <2> QED
    BY <1>1, <1>2, <1>4, <2>1, CanFacts DEF MayRefuse, ChainOf, PermissionGuards
<1>5. ASSUME ~ok PROVE RefusedOK(q, 403)
  BY <1>2, <1>4, <1>5, ForbiddenReason DEF Authenticators
<1>6. {"rbac.Require"} \cap Authenticators = {}
  BY DEF Authenticators
<1>7. Guard(p, ok, 403) /\ StoresUnchanged
  BY DEF Require
<1> HIDE DEF ok
<1> QED
  BY <1>1, <1>3, <1>5, <1>6, <1>7, GuardStep

LEMMA RequireRoleInv == ASSUME Inv, NEW p \in Procs, RequireRole(p) PROVE Inv'
<1> DEFINE q == reqs[p]
           mw == ChainOf(q)[q.i]
           ok == SubjectFrom(p) # "" /\ assigned[SubjectFrom(p)] \cap ToSet(Mw(p).roles) # {}
<1>1. At(p, {"rbac.RequireRole"})
  BY DEF RequireRole
<1>2. /\ q \in Running /\ RequestOK(q) /\ q.pc = "run" /\ StoresOK
      /\ mw.name = "rbac.RequireRole" /\ Mw(p) = mw
  BY <1>1, AtRequest DEF Inv
<1>3. ok => Entitled(q, q.i)
  BY <1>1, <1>2, CanFacts DEF Entitled, ChainOf, PermissionGuards, RoleGuards
<1>4. ASSUME ~ok, q.ctx \in Proven(q, q.i), q.ctx # NoToken PROVE MayRefuse(q, q.ctx)
  <2>1. q.ctx.Subject = SubjectFrom(p)
    BY <1>4 DEF SubjectFrom
  <2> QED
    BY <1>1, <1>2, <1>4, <2>1, CanFacts DEF MayRefuse, ChainOf, PermissionGuards
<1>5. ASSUME ~ok PROVE RefusedOK(q, 403)
  BY <1>2, <1>4, <1>5, ForbiddenReason DEF Authenticators
<1>6. {"rbac.RequireRole"} \cap Authenticators = {}
  BY DEF Authenticators
<1>7. Guard(p, ok, 403) /\ StoresUnchanged
  BY DEF RequireRole
<1> HIDE DEF ok
<1> QED
  BY <1>1, <1>3, <1>5, <1>6, <1>7, GuardStep

LEMMA ABACRequireInv == ASSUME Inv, NEW p \in Procs, ABACRequire(p) PROVE Inv'
<1> DEFINE q == reqs[p]
           mw == ChainOf(q)[q.i]
           ok == q.ctx \in Mw(p).allows
<1>1. At(p, {"abac.Require"})
  BY DEF ABACRequire
<1>2. /\ q \in Running /\ RequestOK(q) /\ q.pc = "run" /\ StoresOK
      /\ mw.name = "abac.Require" /\ Mw(p) = mw
  BY <1>1, AtRequest DEF Inv
<1>3. ok => Entitled(q, q.i)
  <2>1. CASE q.ctx = NoToken
    BY <1>2, <2>1 DEF Entitled, ChainOf, PermissionGuards, RoleGuards, RequestOK, ContextOK
  <2>2. CASE q.ctx # NoToken
    BY <1>2, <2>2, GuardFacts DEF Entitled, ChainOf, PermissionGuards, RoleGuards
  <2> QED
    BY <2>1, <2>2
<1>4. ASSUME ~ok PROVE MayRefuse(q, q.ctx)
  BY <1>2, <1>4 DEF MayRefuse, ChainOf, PermissionGuards
<1>5. ASSUME ~ok PROVE RefusedOK(q, 403)
  BY <1>2, <1>4, <1>5, ForbiddenReason DEF Authenticators
<1>6. {"abac.Require"} \cap Authenticators = {}
  BY DEF Authenticators
<1>7. Guard(p, ok, 403) /\ StoresUnchanged
  BY DEF ABACRequire
<1> HIDE DEF ok
<1> QED
  BY <1>1, <1>3, <1>5, <1>6, <1>7, GuardStep

-----------------------------------------------------------------------------
(* The middlewares of gin.                                                   *)

LEMMA GinJWTInv == ASSUME Inv, NEW p \in Procs, GinJWT(p) PROVE Inv'
<1> DEFINE q == reqs[p]
           t == ginToken(Mw(p), q.req)
           v == IF Mw(p).extractor THEN Extractor(t) ELSE q.vals
<1>1. At(p, {"ginmw.JWT"}) /\ StoresUnchanged
  BY DEF GinJWT
<1>2. q \in Running /\ q.todo = << >> /\ Mw(p).name = "ginmw.JWT"
  BY <1>1, AtRequest, NothingToDo
<1>3. TokenFor(Mw(p), q.req) = t
  BY <1>2 DEF TokenFor
<1>4. CASE t \in live
  <2>1. Forward(p, [q EXCEPT !.ctx = t, !.vals = v])
    BY <1>4 DEF GinJWT
  <2>2. /\ Mw(p).name = "ginmw.JWT" /\ Mw(p).extractor => v = Extractor(t)
        /\ ~(Mw(p).name = "ginmw.JWT" /\ Mw(p).extractor) => v = reqs[p].vals
    BY <1>2
  <2> HIDE DEF v, t
  <2>3. [[q EXCEPT !.ctx = t, !.vals = v] EXCEPT !.i = @ + 1] = Moved(q, t, v)
    BY <1>2 DEF Running, Moved
  <2>4. reqs' = [reqs EXCEPT ![p] = Moved(q, t, v)]
    BY <2>1, <2>3 DEF Forward
  <2>5. {"ginmw.JWT"} \subseteq Authenticators
    BY DEF Authenticators
  <2> DEFINE d == Moved(q, t, v)
  <2>6. /\ RequestOK(q) /\ q.pc = "run" /\ q.i \in 1..Len(ChainOf(q))
        /\ Mw(p) = ChainOf(q)[q.i] /\ Mw(p).name \in Authenticators
    BY <1>1, <2>5, AtRequest
  <2>7. StoresOK /\ t \in Tokens /\ v \in Values
    BY <1>2, <1>4, <2>2 DEF Inv, StoresOK, Values, Running
  <2>8. Forwarded(q, d) /\ d.ctx = t /\ d.vals = v
    BY <1>2, <2>6, <2>7, ForwardRecord
  <2> HIDE DEF d
  <2>9. d.vals = IF Mw(p).name = "ginmw.JWT" /\ Mw(p).extractor THEN Extractor(d.ctx) ELSE q.vals
    BY <2>2, <2>8
  <2>10. Entitled(q, q.i) /\ ContextOK(d) /\ ValuesOK(d)
    BY <1>3, <1>4, <2>6, <2>7, <2>8, <2>9, TokenContext
  <2> QED
    BY <1>1, <2>4, <2>8, <2>10, PassStep DEF d
<1>5. CASE t \notin live
  BY <1>1, <1>3, <1>5, NoTokenStep DEF GinJWT
<1> QED
  BY <1>4, <1>5

\* The loop of RequireRole goes on to the next role.
LEMMA LoopStep ==
  ASSUME Inv, NEW p \in Procs, NEW names, At(p, names), NEW xs \in RoleLists,
         LoopOK([reqs[p] EXCEPT !.todo = xs]),
         reqs' = [reqs EXCEPT ![p].todo = xs], StoresUnchanged
  PROVE  Inv'
<1> DEFINE q == reqs[p]
           d == [q EXCEPT !.todo = xs]
<1>1. q \in Running /\ RequestOK(q) /\ q.pc = "run"
  BY AtRequest
<1>2. reqs' = [reqs EXCEPT ![p] = d]
  BY DEF Inv
<1>3. d \in Running
  BY <1>1 DEF Running
<1>4. /\ d.pc = q.pc /\ d.i = q.i /\ d.ctx = q.ctx /\ d.vals = q.vals /\ d.named = q.named
      /\ d.req = q.req /\ d.began = q.began /\ d.after = q.after /\ d.seen = q.seen
  BY <1>1 DEF Running
<1> HIDE DEF d
<1>5. SameHistory(q, d) /\ ChainOf(d) = ChainOf(q) /\ Sent(d) = Sent(q)
  BY <1>4 DEF SameHistory, ChainOf, Sent
<1>6. Proven(d, d.i) = Proven(q, q.i)
  BY <1>4, <1>5, ProvenSame
<1>7. HistoryOK(d)
  BY <1>1, <1>4, <1>5 DEF RequestOK, HistoryOK
<1>8. PassedOK(d)
  <2>1. q.i \in 1..(Len(ChainOf(q)) + 1) /\ Len(ChainOf(q)) \in Nat
    BY <1>1, ChainType DEF RequestOK, PassedOK
  <2>2. \A k \in 1..(q.i - 1) : k \in 1..Len(ChainOf(q))
    BY <2>1
  <2>3. \A k \in 1..(q.i - 1) : Entitled(d, k)
    BY <1>1, <1>5, <2>2, EntitledKept DEF RequestOK, PassedOK
  <2> QED
    BY <1>4, <1>5, <2>1, <2>3 DEF PassedOK
<1>9. ContextOK(d)
  BY <1>1, <1>4, <1>5, <1>6 DEF RequestOK, ContextOK
<1>10. ValuesOK(d)
  BY <1>1, <1>4, <1>5, <1>6 DEF RequestOK, ValuesOK
<1>11. LoopOK(d) /\ AnsweredOK(d)
  BY <1>1, <1>4 DEF AnsweredOK, d
<1>12. RequestOK(d)
  BY <1>7, <1>8, <1>9, <1>10, <1>11 DEF RequestOK
<1>13. UNCHANGED <<unsigned, live, assigned, loggedOut>>
  BY DEF StoresUnchanged
<1>14. StoresOK'
  BY <1>13 DEF StoresOK, Inv
<1> QED
  BY <1>2, <1>3, <1>12, <1>13, <1>14, OneRequest

\* What the loop needs to know of a list of roles still to try.
LEMMA LoopOf ==
  ASSUME NEW q \in Running, NEW xs, LET mw == ChainOf(q)[q.i] IN
         /\ q.i <= Len(ChainOf(q)) /\ mw.name = "ginmw.RequireRole"
         /\ q.ctx # NoToken /\ q.ctx.Subject # ""
         /\ ToSet(xs) \subseteq ToSet(mw.roles)
         /\ \A r \in ToSet(mw.roles) \ ToSet(xs) : \E rs \in Held(q, q.ctx.Subject) : r \notin rs
  PROVE  LoopOK([q EXCEPT !.todo = xs])
<1> DEFINE d == [q EXCEPT !.todo = xs]
<1>1. /\ d.i = q.i /\ d.ctx = q.ctx /\ d.req = q.req /\ d.seen = q.seen /\ d.todo = xs
  BY DEF Running
<1> HIDE DEF d
<1>2. ChainOf(d) = ChainOf(q) /\ \A s : Held(d, s) = Held(q, s)
  BY <1>1 DEF ChainOf, Held
<1>3. LoopOK(d)
  BY <1>1, <1>2 DEF LoopOK
<1> QED
  BY <1>3 DEF d

LEMMA GinRequireRoleInv == ASSUME Inv, NEW p \in Procs, GinRequireRole(p) PROVE Inv'
<1> DEFINE q == reqs[p]
           mw == ChainOf(q)[q.i]
<1>1. At(p, {"ginmw.RequireRole"}) /\ StoresUnchanged
  BY DEF GinRequireRole
<1>2. /\ q \in Running /\ RequestOK(q) /\ q.pc = "run" /\ StoresOK /\ q.i \in 1..Len(ChainOf(q))
      /\ mw.name = "ginmw.RequireRole" /\ Mw(p) = mw
  BY <1>1, AtRequest DEF Inv
<1>3. CASE SubjectFrom(p) = ""
  <2>1. ASSUME q.ctx # NoToken PROVE q.ctx.Subject = ""
    BY <1>3, <2>1 DEF SubjectFrom
  <2>2. q.ctx # NoToken => MayRefuse(q, q.ctx)
    BY <1>2, <2>1 DEF MayRefuse, ChainOf, PermissionGuards
  <2>3. RefusedOK(q, 401)
    BY <1>2, <2>1, <2>2, RefusalReason DEF Authenticators
  <2>4. Answer(p, 401)
    BY <1>3 DEF GinRequireRole
  <2> QED
    BY <1>1, <2>3, <2>4, RefuseStep
<1>4. CASE SubjectFrom(p) # "" /\ mw.roles = << >>
  <2>1. ToSet(mw.roles) = {}
    BY <1>4, EmptyToSet
  <2>2. MayRefuse(q, q.ctx)
    BY <1>2, <2>1 DEF MayRefuse, ChainOf, PermissionGuards
  <2>3. RefusedOK(q, 403)
    BY <1>2, <2>2, ForbiddenReason DEF Authenticators
  <2> QED
    BY <1>1, <1>2, <1>4, <2>3, RefuseStep DEF GinRequireRole
<1>5. CASE SubjectFrom(p) # "" /\ mw.roles # << >>
  <2>1. q.ctx # NoToken /\ q.ctx.Subject # ""
    BY <1>5 DEF SubjectFrom
  <2>2. mw.roles \in RoleLists
    BY <1>2, PipelineAssumption, RouteAssumption DEF Running, ChainOf, RoleGuards, RoleLists
  <2>3. LoopOK([q EXCEPT !.todo = mw.roles])
    <3>1. q.i <= Len(ChainOf(q))
      BY <1>2
    <3> QED
      BY <1>2, <2>1, <3>1, LoopOf
  <2>4. reqs' = [reqs EXCEPT ![p].todo = mw.roles]
    BY <1>2, <1>5 DEF GinRequireRole
  <2> HIDE DEF mw
  <2> QED
    BY <1>1, <2>2, <2>3, <2>4, LoopStep
<1> QED
  BY <1>3, <1>4, <1>5

LEMMA HasRoleInv == ASSUME Inv, NEW p \in Procs, HasRole(p) PROVE Inv'
<1> DEFINE q == reqs[p]
           mw == ChainOf(q)[q.i]
           rest == Tail(q.todo)
           subject == q.ctx.Subject
           held == Head(q.todo) \in assigned[SubjectFrom(p)]
<1>1. At(p, {"ginmw.RequireRole"}) /\ StoresUnchanged /\ q.todo # << >>
  BY DEF HasRole
<1>2. /\ q \in Running /\ RequestOK(q) /\ q.pc = "run" /\ StoresOK /\ q.i \in 1..Len(ChainOf(q))
      /\ mw.name = "ginmw.RequireRole" /\ Mw(p) = mw
  BY <1>1, AtRequest DEF Inv
<1>3. /\ q.ctx # NoToken /\ subject # ""
      /\ ToSet(q.todo) \subseteq ToSet(mw.roles)
      /\ \A r \in ToSet(mw.roles) \ ToSet(q.todo) : \E rs \in Held(q, subject) : r \notin rs
  BY <1>1, <1>2 DEF RequestOK, LoopOK
<1>4. SubjectFrom(p) = subject
  BY <1>3 DEF SubjectFrom
<1>5. q.ctx \in Proven(q, q.i) /\ assigned[subject] \in Held(q, subject)
  BY <1>1, <1>3, <1>4, CanFacts
<1>6. rest \in RoleLists /\ ToSet(q.todo) = {Head(q.todo)} \cup ToSet(rest)
  BY <1>1, <1>2, HeadTail DEF Running, RoleLists
<1>7. CASE held
  <2>1. Entitled(q, q.i)
    <3>1. assigned[subject] \cap ToSet(mw.roles) # {}
      BY <1>3, <1>4, <1>6, <1>7
    <3> QED
      BY <1>2, <1>3, <1>5, <3>1 DEF Entitled, ChainOf, PermissionGuards, RoleGuards
  <2>2. Forward(p, [q EXCEPT !.todo = << >>])
    BY <1>7 DEF HasRole
  <2>3. {"ginmw.RequireRole"} \cap Authenticators = {}
    BY DEF Authenticators
  <2> QED
    BY <1>1, <2>1, <2>2, <2>3, GuardPass
<1>8. ASSUME ~held
      PROVE  \A r \in ToSet(mw.roles) \ ToSet(rest) : \E rs \in Held(q, subject) : r \notin rs
  BY <1>3, <1>4, <1>5, <1>6, <1>8
<1>9. CASE ~held /\ rest = << >>
  <2>1. ToSet(rest) = {}
    BY <1>9, EmptyToSet
  <2>2. \A r \in ToSet(mw.roles) : \E rs \in Held(q, subject) : r \notin rs
    BY <1>8, <1>9, <2>1
  <2>3. MayRefuse(q, q.ctx)
    BY <1>2, <2>2 DEF MayRefuse, ChainOf, PermissionGuards
  <2>4. RefusedOK(q, 403)
    BY <1>2, <2>3, ForbiddenReason DEF Authenticators
  <2> QED
    BY <1>1, <1>9, <2>4, RefuseStep DEF HasRole
<1>10. CASE ~held /\ rest # << >>
  <2>1. q.i <= Len(ChainOf(q)) /\ ToSet(rest) \subseteq ToSet(mw.roles)
    <3>1. q.i <= Len(ChainOf(q))
      BY <1>2
    <3>2. ToSet(rest) \subseteq ToSet(mw.roles)
      BY <1>3, <1>6
    <3> QED
      BY <3>1, <3>2
  <2>2. reqs' = [reqs EXCEPT ![p].todo = rest]
    BY <1>10 DEF HasRole
  <2> HIDE DEF rest, held
  <2>3. LoopOK([q EXCEPT !.todo = rest])
    BY <1>2, <1>3, <1>8, <1>10, <2>1, LoopOf
  <2> QED
    BY <1>1, <1>6, <2>2, <2>3, LoopStep
<1> QED
  BY <1>7, <1>9, <1>10

LEMMA RequirePermissionInv == ASSUME Inv, NEW p \in Procs, RequirePermission(p) PROVE Inv'
<1> DEFINE q == reqs[p]
           mw == ChainOf(q)[q.i]
           ok == Can(SubjectFrom(p), Mw(p).perm)
<1>1. At(p, {"ginmw.RequirePermission"}) /\ StoresUnchanged
  BY DEF RequirePermission
<1>2. /\ q \in Running /\ RequestOK(q) /\ q.pc = "run" /\ StoresOK
      /\ mw.name = "ginmw.RequirePermission" /\ Mw(p) = mw
  BY <1>1, AtRequest DEF Inv
<1>3. CASE SubjectFrom(p) = ""
  <2>1. ASSUME q.ctx # NoToken PROVE q.ctx.Subject = ""
    BY <1>3, <2>1 DEF SubjectFrom
  <2>2. q.ctx # NoToken => MayRefuse(q, q.ctx)
    BY <1>2, <2>1 DEF MayRefuse, ChainOf, PermissionGuards
  <2>3. RefusedOK(q, 401)
    BY <1>2, <2>1, <2>2, RefusalReason DEF Authenticators
  <2>4. Answer(p, 401)
    BY <1>3 DEF RequirePermission
  <2> QED
    BY <1>1, <2>3, <2>4, RefuseStep
<1>4. CASE SubjectFrom(p) # ""
  <2>1. /\ q.ctx # NoToken /\ q.ctx \in Proven(q, q.i) /\ q.ctx.Subject # ""
        /\ assigned[SubjectFrom(p)] \in Held(q, q.ctx.Subject)
        /\ ok <=> Permits(assigned[SubjectFrom(p)], mw.perm)
    BY <1>1, <1>2, <1>4, CanFacts
  <2>2. Guard(p, ok, 403)
    BY <1>4 DEF RequirePermission
  <2> HIDE DEF ok
  <2>3. ok => Entitled(q, q.i)
    BY <1>2, <2>1 DEF Entitled, ChainOf, PermissionGuards, RoleGuards
  <2>4. ASSUME ~ok PROVE MayRefuse(q, q.ctx)
    BY <1>2, <2>1, <2>4 DEF MayRefuse, ChainOf, PermissionGuards
  <2>5. ASSUME ~ok PROVE RefusedOK(q, 403)
    BY <1>2, <2>4, <2>5, ForbiddenReason DEF Authenticators
  <2>6. {"ginmw.RequirePermission"} \cap Authenticators = {}
    BY DEF Authenticators
  <2> QED
    BY <1>1, <2>2, <2>3, <2>5, <2>6, GuardStep
<1> QED
  BY <1>3, <1>4

\* What a guard on claims reads from the context.
LEMMA GetFacts ==
  ASSUME Inv, NEW p \in Procs, NEW names, At(p, names), names \subseteq ClaimGuards
  PROVE  /\ \A t \in Proven(reqs[p], reqs[p].i), key \in {"user_id", "user_role"} :
              Get(p, key) = Extractor(t)[key]
         /\ \A key : Get(p, key) = Nil \/ Proven(reqs[p], reqs[p].i) # {}
         /\ Mw(p).key \in {"user_id", "user_role"}
<1> DEFINE q == reqs[p]
<1>1. /\ q \in Running /\ RequestOK(q) /\ q.i \in 1..Len(ChainOf(q))
      /\ Mw(p) = ChainOf(q)[q.i] /\ Mw(p).name \in ClaimGuards
  BY AtRequest
<1>2. /\ \A t \in Proven(q, q.i) : q.vals = Extractor(t)
      /\ q.vals # << >> => \E t \in Proven(q, q.i) : q.vals = Extractor(t)
      /\ Mw(p).key \in {"user_id", "user_role"}
  BY <1>1, ClaimFacts
<1>3. \A t : DOMAIN Extractor(t) = {"user_id", "user_role"}
  BY DEF Extractor
<1>4. ASSUME NEW t \in Proven(q, q.i), NEW key \in {"user_id", "user_role"}
      PROVE  Get(p, key) = Extractor(t)[key]
  BY <1>2, <1>3 DEF Get
<1>5. ASSUME NEW key, Proven(q, q.i) = {} PROVE Get(p, key) = Nil
  <2>1. q.vals = << >>
    BY <1>2, <1>5
  <2>2. DOMAIN q.vals = {}
    BY <2>1
  <2> QED
    BY <2>2 DEF Get
<1> QED
  BY <1>2, <1>4, <1>5

LEMMA RequireCustomClaimInv == ASSUME Inv, NEW p \in Procs, RequireCustomClaim(p) PROVE Inv'
<1> DEFINE q == reqs[p]
           mw == ChainOf(q)[q.i]
           ok == \E x \in Mw(p).values : IsString(Get(p, Mw(p).key), x)
<1>1. At(p, {"ginmw.RequireCustomClaim"})
  BY DEF RequireCustomClaim
<1>2. /\ q \in Running /\ RequestOK(q) /\ q.pc = "run" /\ StoresOK
      /\ mw.name = "ginmw.RequireCustomClaim" /\ Mw(p) = mw
  BY <1>1, AtRequest DEF Inv
<1>3. /\ \A t \in Proven(q, q.i) : Get(p, mw.key) = Extractor(t)[mw.key]
      /\ Get(p, mw.key) = Nil \/ Proven(q, q.i) # {}
  BY <1>1, <1>2, GetFacts DEF ClaimGuards
<1>4. \A x : ~IsString(Nil, x)
  BY DEF IsString, Nil
<1>5. ASSUME ok PROVE Entitled(q, q.i)
  <2>1. PICK x \in mw.values : IsString(Get(p, mw.key), x)
    BY <1>2, <1>5
  <2>2. PICK t \in Proven(q, q.i) : IsString(Extractor(t)[mw.key], x)
    BY <1>3, <1>4, <2>1
  <2> QED
    BY <1>2, <2>1, <2>2 DEF Entitled, ChainOf, PermissionGuards, RoleGuards
<1>6. ASSUME ~ok, q.ctx \in Proven(q, q.i) PROVE MayRefuse(q, q.ctx)
  <2>1. \A x \in mw.values : ~IsString(Extractor(q.ctx)[mw.key], x)
    BY <1>2, <1>3, <1>6
  <2> QED
    BY <1>2, <2>1 DEF MayRefuse, ChainOf, PermissionGuards
<1>7. ASSUME ~ok PROVE RefusedOK(q, 403)
  BY <1>2, <1>6, <1>7, ForbiddenReason DEF Authenticators
<1>8. {"ginmw.RequireCustomClaim"} \cap Authenticators = {}
  BY DEF Authenticators
<1>9. Guard(p, ok, 403) /\ StoresUnchanged
  BY DEF RequireCustomClaim
<1> HIDE DEF ok
<1> QED
  BY <1>1, <1>5, <1>7, <1>8, <1>9, GuardStep

\* RequireCustomClaimNot stands behind a ginmw.JWT, which has proven a token.
LEMMA BehindTheJWT ==
  ASSUME NEW q \in Running, RequestOK(q), q.i \in 1..Len(ChainOf(q)),
         ChainOf(q)[q.i].name = "ginmw.RequireCustomClaimNot"
  PROVE  Proven(q, q.i) # {}
<1>1. q.req.route \in Routes
  BY PipelineAssumption DEF Running
<1>2. PICK n \in 1..(q.i - 1) : ChainOf(q)[n].name = "ginmw.JWT"
  BY <1>1, RouteAssumption DEF ChainOf
<1>3. Entitled(q, n)
  BY <1>2 DEF RequestOK, PassedOK
<1>4. TokenFor(ChainOf(q)[n], q.req) \in q.began \ q.after
  BY <1>2, <1>3 DEF Entitled, ChainOf, PermissionGuards, RoleGuards
<1>5. TokenFor(ChainOf(q)[n], q.req) \in Proven(q, q.i)
  BY <1>2, <1>4 DEF Proven, Authenticators, ChainOf
<1> QED
  BY <1>5

LEMMA RequireCustomClaimNotInv == ASSUME Inv, NEW p \in Procs, RequireCustomClaimNot(p) PROVE Inv'
<1> DEFINE q == reqs[p]
           mw == ChainOf(q)[q.i]
           ok == ~IsString(Get(p, Mw(p).key), Mw(p).value)
<1>1. At(p, {"ginmw.RequireCustomClaimNot"})
  BY DEF RequireCustomClaimNot
<1>2. /\ q \in Running /\ RequestOK(q) /\ q.pc = "run" /\ StoresOK
      /\ mw.name = "ginmw.RequireCustomClaimNot" /\ Mw(p) = mw
  BY <1>1, AtRequest DEF Inv
<1>3. \A t \in Proven(q, q.i) : Get(p, mw.key) = Extractor(t)[mw.key]
  BY <1>1, <1>2, GetFacts DEF ClaimGuards
<1>4. ASSUME ok PROVE Entitled(q, q.i)
  <2>1. \A t \in Proven(q, q.i) : ~IsString(Extractor(t)[mw.key], mw.value)
    BY <1>2, <1>3, <1>4
  <2>2. Proven(q, q.i) # {}
    BY <1>1, <1>2, AtRequest, BehindTheJWT
  <2> QED
    BY <1>2, <2>1, <2>2 DEF Entitled, ChainOf, PermissionGuards, RoleGuards
<1>5. ASSUME ~ok, q.ctx \in Proven(q, q.i) PROVE MayRefuse(q, q.ctx)
  <2>1. IsString(Extractor(q.ctx)[mw.key], mw.value)
    BY <1>2, <1>3, <1>5
  <2> QED
    BY <1>2, <2>1 DEF MayRefuse, ChainOf, PermissionGuards
<1>6. ASSUME ~ok PROVE RefusedOK(q, 403)
  BY <1>2, <1>5, <1>6, ForbiddenReason DEF Authenticators
<1>7. {"ginmw.RequireCustomClaimNot"} \cap Authenticators = {}
  BY DEF Authenticators
<1>8. Guard(p, ok, 403) /\ StoresUnchanged
  BY DEF RequireCustomClaimNot
<1> HIDE DEF ok
<1> QED
  BY <1>1, <1>4, <1>6, <1>7, <1>8, GuardStep

\* The user_id of a token is one string or none.
LEMMA UserIDFacts ==
  ASSUME NEW t \in Tokens
  PROVE  /\ Claim(t, "user_id").kind = "string" => UserIDs(t) = {Claim(t, "user_id").val[1]}
         /\ Claim(t, "user_id").kind # "string" => UserIDs(t) = {}
<1>1. ASSUME Claim(t, "user_id").kind = "string" PROVE UserIDs(t) = {Claim(t, "user_id").val[1]}
  <2>1. PICK x \in Subjects : Claim(t, "user_id").val = <<x>>
    BY <1>1, RouteAssumption
  <2>2. ToSet(<<x>>) = {x} /\ <<x>>[1] = x
    BY DEF ToSet
  <2> QED
    BY <1>1, <2>1, <2>2 DEF UserIDs
<1> QED
  BY <1>1 DEF UserIDs

LEMMA RequireAsyncPermissionInv ==
  ASSUME Inv, NEW p \in Procs, RequireAsyncPermission(p) PROVE Inv'
<1> DEFINE q == reqs[p]
           mw == ChainOf(q)[q.i]
           subject == Get(p, mw.key)
           bypass == mw.bypassKey # "" /\ mw.bypassValue # "" /\ IsString(Get(p, mw.bypassKey), mw.bypassValue)
           ok == Can(subject.val[1], mw.perm)
<1>1. At(p, {"ginmw.RequireAsyncPermission"}) /\ StoresUnchanged
  BY DEF RequireAsyncPermission
<1>2. /\ q \in Running /\ RequestOK(q) /\ q.pc = "run" /\ StoresOK /\ q.i \in 1..Len(ChainOf(q))
      /\ mw.name = "ginmw.RequireAsyncPermission" /\ Mw(p) = mw
  BY <1>1, AtRequest DEF Inv
<1>3. mw.key = "user_id" /\ (mw.bypassKey = "user_role" \/ mw.bypassValue = "")
  <2>1. q.req.route \in Routes /\ ChainOf(q) = q.req.route.chain
    BY <1>2, PipelineAssumption DEF Running, ChainOf
  <2>2. \A k \in 1..Len(ChainOf(q)) : ChainOf(q)[k].name = "ginmw.RequireAsyncPermission" =>
          /\ ChainOf(q)[k].key = "user_id"
          /\ ChainOf(q)[k].bypassKey = "user_role" \/ ChainOf(q)[k].bypassValue = ""
    <3> DEFINE route == q.req.route
               c == ChainOf(q)
    <3>1. route \in Routes /\ c = route.chain
      BY <2>1
    <3> HIDE DEF route, c
    <3>2. \A k \in 1..Len(c) : c[k].name = "ginmw.RequireAsyncPermission" =>
            c[k].key = "user_id" /\ (c[k].bypassKey = "user_role" \/ c[k].bypassValue = "")
      BY <3>1, RouteAssumption
    <3> QED
      BY <3>2 DEF c
  <2> QED
    BY <1>2, <2>2
<1>4. /\ \A t \in Proven(q, q.i) : /\ subject = Claim(t, "user_id")
                                   /\ Get(p, "user_role") = Claim(t, "role")
      /\ \A key : Get(p, key) = Nil \/ Proven(q, q.i) # {}
  BY <1>1, <1>3, GetFacts DEF ClaimGuards, Extractor
<1>5. \A t \in Proven(q, q.i) : bypass <=> Bypasses(mw, t)
  BY <1>3, <1>4 DEF Bypasses
<1>6. Nil.kind # "string" /\ \A x : ~IsString(Nil, x)
  BY DEF IsString, Nil
<1>7. \A t \in Proven(q, q.i) :
        /\ t \in Tokens
        /\ subject.kind = "string" => UserIDs(t) = {subject.val[1]}
        /\ subject.kind # "string" => UserIDs(t) = {}
        /\ \A s \in UserIDs(t) : assigned[s] \in Held(q, s)
  <2>1. \A t \in Proven(q, q.i) : t \in Tokens
    BY <1>2, ProvenSent
  <2>2. \A t \in Proven(q, q.i) : \A s \in UserIDs(t) : assigned[s] \in Held(q, s)
    BY <1>2, GuardFacts DEF NamedBy
  <2> QED
    BY <1>4, <2>1, <2>2, UserIDFacts
<1>8. {"ginmw.RequireAsyncPermission"} \cap Authenticators = {} /\ mw.name \notin Authenticators
  BY <1>2 DEF Authenticators
<1>9. q.ctx # NoToken => q.ctx \in Proven(q, q.i)
  BY <1>2, GuardFacts
<1>10. IF bypass THEN Forward(p, q)
       ELSE IF subject.kind # "string" \/ IsString(subject, "") THEN Answer(p, 401)
       ELSE Guard(p, ok, 403)
  BY <1>2 DEF RequireAsyncPermission
<1> HIDE DEF mw, subject, ok
<1>11. CASE bypass
  <2>1. Proven(q, q.i) # {}
    BY <1>4, <1>6, <1>11
  <2>2. \E t \in Proven(q, q.i) : Bypasses(mw, t)
    BY <1>5, <1>11, <2>1
  <2>3. Entitled(q, q.i)
    BY <1>2, <2>2 DEF Entitled, mw, ChainOf, PermissionGuards, RoleGuards
  <2>4. q.todo = << >>
    BY <1>1, NothingToDo
  <2>5. [q EXCEPT !.todo = << >>] = q
    BY <1>2, <2>4 DEF Running
  <2>6. Forward(p, [q EXCEPT !.todo = << >>])
    BY <1>10, <1>11, <2>5
  <2> QED
    BY <1>1, <1>8, <2>3, <2>6, GuardPass
<1>12. CASE ~bypass /\ (subject.kind # "string" \/ IsString(subject, ""))
  <2>1. ASSUME q.ctx \in Proven(q, q.i) PROVE UserIDs(q.ctx) \ {""} = {} /\ ~Bypasses(mw, q.ctx)
    BY <1>5, <1>7, <1>12, <2>1 DEF IsString
  <2>2. q.ctx \in Proven(q, q.i) => MayRefuse(q, q.ctx)
    BY <1>2, <2>1 DEF MayRefuse, mw, ChainOf, PermissionGuards
  <2>3. RefusedOK(q, 401)
    BY <1>2, <1>8, <2>1, <2>2, RefusalReason DEF mw
  <2>4. Answer(p, 401)
    BY <1>10, <1>12
  <2> QED
    BY <1>1, <2>3, <2>4, RefuseStep
<1>13. CASE ~bypass /\ subject.kind = "string" /\ ~IsString(subject, "")
  <2> DEFINE s == subject.val[1]
  <2>1. s # "" /\ Proven(q, q.i) # {}
    BY <1>4, <1>6, <1>13 DEF IsString, subject
  <2>2. /\ \A t \in Proven(q, q.i) : UserIDs(t) = {s}
        /\ assigned[s] \in Held(q, s)
        /\ ok <=> Permits(assigned[s], mw.perm)
    BY <1>7, <1>13, <2>1 DEF ok, Can, Permits
  <2> HIDE DEF s
  <2>3. ASSUME ok PROVE Entitled(q, q.i)
    <3>1. \E t \in Proven(q, q.i) : \E u \in UserIDs(t) \ {""} : \E rs \in Held(q, u) : Permits(rs, mw.perm)
      BY <2>1, <2>2, <2>3
    <3> QED
      BY <1>2, <3>1 DEF Entitled, mw, ChainOf, PermissionGuards, RoleGuards
  <2>4. ASSUME ~ok, q.ctx \in Proven(q, q.i) PROVE MayRefuse(q, q.ctx)
    <3>1. ~Bypasses(mw, q.ctx)
          /\ \A u \in UserIDs(q.ctx) \ {""} : \E rs \in Held(q, u) : ~Permits(rs, mw.perm)
      BY <1>5, <1>13, <2>2, <2>4
    <3> QED
      BY <1>2, <3>1 DEF MayRefuse, mw, ChainOf, PermissionGuards
  <2>5. ASSUME ~ok PROVE RefusedOK(q, 403)
    BY <1>2, <1>8, <2>4, <2>5, ForbiddenReason DEF mw
  <2>6. Guard(p, ok, 403)
    BY <1>10, <1>13
  <2> QED
    BY <1>1, <1>8, <2>3, <2>5, <2>6, GuardStep
<1> QED
  BY <1>11, <1>12, <1>13

LEMMA ScopeCheckerInv == ASSUME Inv, NEW p \in Procs, ScopeChecker(p) PROVE Inv'
<1> DEFINE q == reqs[p]
           mw == ChainOf(q)[q.i]
           ok == Mw(p).required \subseteq extractScopes(q.ctx)
<1>1. At(p, {"ginmw.ScopeChecker"}) /\ StoresUnchanged
  BY DEF ScopeChecker
<1>2. /\ q \in Running /\ RequestOK(q) /\ q.pc = "run" /\ StoresOK
      /\ mw.name = "ginmw.ScopeChecker" /\ Mw(p) = mw
  BY <1>1, AtRequest DEF Inv
<1>3. CASE q.ctx = NoToken
  <2>1. RefusedOK(q, 401)
    BY <1>2, <1>3, RefusalReason DEF Authenticators
  <2>2. Answer(p, 401)
    BY <1>3 DEF ScopeChecker
  <2> QED
    BY <1>1, <2>1, <2>2, RefuseStep
<1>4. CASE q.ctx # NoToken
  <2>1. q.ctx \in Proven(q, q.i)
    BY <1>2, <1>4, GuardFacts
  <2>2. ASSUME ok PROVE Entitled(q, q.i)
    <3>1. extractScopes(q.ctx) \subseteq ClaimedScopes(q.ctx)
      BY DEF extractScopes, ClaimedScopes
    <3> QED
      BY <1>2, <2>1, <2>2, <3>1 DEF Entitled, ChainOf, PermissionGuards, RoleGuards
  <2>3. ASSUME ~ok PROVE MayRefuse(q, q.ctx)
    BY <1>2, <2>3 DEF MayRefuse, extractScopes, ChainOf, PermissionGuards
  <2>4. ASSUME ~ok PROVE RefusedOK(q, 403)
    BY <1>2, <2>3, <2>4, ForbiddenReason DEF Authenticators
  <2>5. {"ginmw.ScopeChecker"} \cap Authenticators = {}
    BY DEF Authenticators
  <2>6. Guard(p, ok, 403)
    BY <1>4 DEF ScopeChecker
  <2> HIDE DEF ok
  <2> QED
    BY <1>1, <2>2, <2>4, <2>5, <2>6, GuardStep
<1> QED
  BY <1>3, <1>4

-----------------------------------------------------------------------------
(* The handlers, and what happens meanwhile.                                 *)

LEMMA BeginInv == ASSUME Inv, NEW p \in Procs, NEW r \in Requests, Begin(p, r) PROVE Inv'
<1> DEFINE sent == {r.header, r.query} \ {NoToken}
           named == UNION {{t.Subject} \cup UserIDs(t) : t \in sent}
           seen == {<<s, assigned[s]>> : s \in named}
           began == live \cap sent
           after == loggedOut \cap sent
           none == << >>
           d == [pc |-> "run", req |-> r, i |-> 1, ctx |-> NoToken, vals |-> none, todo |-> none,
                 status |-> 0, began |-> began, after |-> after, seen |-> seen, named |-> named]
<1>1. sent \subseteq Tokens /\ named \subseteq Subjects
  BY PipelineAssumption
<1>2. seen \in Sightings /\ began \in SUBSET Tokens /\ after \in SUBSET Tokens
  BY <1>1 DEF Sightings, Inv, StoresOK
<1>3. none \in Values /\ none \in RoleLists /\ 0 \in Statuses /\ 1 \in Nat
  BY DEF Values, RoleLists, Statuses
<1>4. sent \cap unsigned = {} /\ reqs' = [reqs EXCEPT ![p] = d] /\ StoresUnchanged
  BY DEF Begin, StoresUnchanged
<1>5. none = << >> /\ sent = {r.header, r.query} \ {NoToken} /\ named = UNION {NamedBy(t) : t \in sent}
      /\ (\A s \in named : <<s, assigned[s]>> \in seen) /\ sent \cap live \subseteq began
      /\ after \subseteq loggedOut
  BY DEF NamedBy
<1> HIDE DEF sent, named, seen, began, after, none
<1>6. d \in Running
  BY <1>1, <1>2, <1>3 DEF Running
<1>7. /\ d.pc = "run" /\ d.req = r /\ d.i = 1 /\ d.ctx = NoToken /\ d.vals = none /\ d.todo = none
      /\ d.began = began /\ d.after = after /\ d.seen = seen /\ d.named = named
  OBVIOUS
<1> HIDE DEF d
<1>8. Sent(d) = sent
  BY <1>5, <1>7 DEF Sent
<1>9. HistoryOK(d)
  BY <1>4, <1>5, <1>7, <1>8 DEF HistoryOK
<1>10. 1..(d.i - 1) = {} /\ d.i \in 1..(Len(ChainOf(d)) + 1)
  BY <1>6, <1>7, ChainType
<1>11. Proven(d, d.i) = {}
  BY <1>10 DEF Proven
<1>12. PassedOK(d) /\ ContextOK(d) /\ ValuesOK(d) /\ LoopOK(d) /\ AnsweredOK(d)
  BY <1>5, <1>7, <1>10, <1>11 DEF PassedOK, ContextOK, ValuesOK, LoopOK, AnsweredOK
<1>13. RequestOK(d)
  BY <1>9, <1>12 DEF RequestOK
<1>14. UNCHANGED <<unsigned, live, assigned, loggedOut>>
  BY <1>4 DEF StoresUnchanged
<1>15. StoresOK'
  BY <1>14 DEF StoresOK, Inv
<1> QED
  BY <1>4, <1>6, <1>13, <1>14, <1>15, OneRequest

\* Who logs out has passed authmw.JWT: the header holds a token.
LEMMA LogoutToken ==
  ASSUME NEW q \in Running, RequestOK(q), q.i > Len(ChainOf(q)), q.req.route.handler = "logout"
  PROVE  q.req.header \in Tokens /\ q.req.header \in Sent(q)
<1>1. q.req.route \in Routes
  BY PipelineAssumption DEF Running
<1>2. PICK k \in 1..Len(ChainOf(q)) : ChainOf(q)[k].name = "authmw.JWT"
  BY <1>1, RouteAssumption DEF ChainOf
<1>3. Entitled(q, k)
  <2>1. q.i \in 1..(Len(ChainOf(q)) + 1) /\ Len(ChainOf(q)) \in Nat
    BY ChainType DEF RequestOK, PassedOK
  <2>2. k \in 1..(q.i - 1)
    BY <2>1
  <2> QED
    BY <2>2 DEF RequestOK, PassedOK
<1>4. TokenFor(ChainOf(q)[k], q.req) \in q.began
  BY <1>2, <1>3 DEF Entitled, ChainOf, PermissionGuards, RoleGuards
<1>5. extractBearer(q.req) \in Tokens /\ extractBearer(q.req) # NoToken
  BY <1>2, <1>4, PipelineAssumption DEF TokenFor, Running
<1> QED
  BY <1>5 DEF extractBearer, Sent

LEMMA ServeInv == ASSUME Inv, NEW p \in Procs, Serve(p) PROVE Inv'
<1> DEFINE q == reqs[p]
           d == Ended(q, 200)
           out == IF q.req.route.handler = "logout" THEN {q.req.header} ELSE {}
<1>1. q \in {Idle} \cup Running /\ q.pc = "run" /\ q.i > Len(Chain(p))
  BY DEF Inv, Serve
<1>2. q # Idle
  BY <1>1 DEF Idle
<1>3. q \in Running /\ RequestOK(q) /\ Chain(p) = ChainOf(q)
  BY <1>1, <1>2 DEF Inv, Chain, ChainOf
<1>4. q.i = Len(ChainOf(q)) + 1
  <2>1. q.i \in 1..(Len(ChainOf(q)) + 1) /\ Len(ChainOf(q)) \in Nat
    BY <1>3, ChainType DEF RequestOK, PassedOK
  <2> QED
    BY <1>1, <1>3, <2>1
<1>5. reqs \in [Procs -> {Idle} \cup Running] /\ 200 \in Statuses /\ Answer(p, 200)
  BY DEF Inv, Statuses, Serve
<1>6. reqs' = [reqs EXCEPT ![p] = d]
  BY <1>5, AnswerIs
<1>7. Answered(q, d, 200)
  BY <1>1, <1>3, <1>5, AnswerRecord
<1>8. d \in Running /\ RequestOK(d)
  BY <1>3, <1>4, <1>7, AnswerOK DEF Answered
<1>9. live' = live \ out /\ loggedOut' = loggedOut \cup out /\ UNCHANGED <<unsigned, assigned>>
  BY DEF Serve
<1>10. out \subseteq Tokens /\ out \cap unsigned = {}
  <2>1. CASE q.req.route.handler = "logout"
    BY <1>1, <1>3, <2>1, LogoutToken DEF RequestOK, HistoryOK
  <2>2. CASE q.req.route.handler # "logout"
    BY <2>2
  <2> QED
    BY <2>1, <2>2
<1> HIDE DEF out, d
<1>11. StoresOK'
  BY <1>9, <1>10 DEF Inv, StoresOK
<1> QED
  BY <1>6, <1>8, <1>9, <1>11, OneRequest

LEMMA ReturnInv == ASSUME Inv, NEW p \in Procs, Return(p) PROVE Inv'
<1>1. reqs' = [reqs EXCEPT ![p] = Idle] /\ UNCHANGED <<unsigned, live, assigned, loggedOut>>
  BY DEF Return, StoresUnchanged
<1>2. StoresOK'
  BY <1>1 DEF Inv, StoresOK
<1> QED
  BY <1>1, <1>2, OneRequest

\* Only the tokens move.
LEMMA TokenInv ==
  ASSUME Inv, StoresOK', unsigned' \subseteq unsigned, live' \subseteq live \cup unsigned,
         loggedOut' = loggedOut, assigned' = assigned, reqs' = reqs
  PROVE  Inv'
<1>1. \A q \in Running : RequestOK(q) =>
        HistoryOK(q)' /\ PassedOK(q) /\ ContextOK(q)' /\ ValuesOK(q) /\ LoopOK(q) /\ AnsweredOK(q)'
  <2>1. \A q \in Running : RequestOK(q) => RequestOK(q)'
    BY TokensMove DEF Inv
  <2> QED
    BY <2>1 DEF RequestOK
<1>2. ASSUME NEW x \in Procs, reqs'[x] # Idle PROVE RequestOK(reqs[x])'
  <2>1. reqs'[x] \in Running /\ RequestOK(reqs'[x])
    BY <1>2, NotIdle DEF Inv
  <2> QED
    BY <1>1, <2>1 DEF RequestOK, HistoryOK, ContextOK, AnsweredOK, RefusedOK
<1> QED
  BY <1>2 DEF Inv

LEMMA LoginInv == ASSUME Inv, NEW t \in Tokens, Login(t) PROVE Inv'
<1>1. /\ unsigned' = unsigned \ {t} /\ live' = live \cup {t} /\ t \in unsigned
      /\ UNCHANGED <<assigned, reqs, loggedOut>>
  BY DEF Login
<1>2. StoresOK'
  BY <1>1 DEF Inv, StoresOK
<1> QED
  BY <1>1, <1>2, TokenInv

LEMMA ExpireInv == ASSUME Inv, NEW t \in Tokens, Expire(t) PROVE Inv'
<1>1. live' = live \ {t} /\ UNCHANGED <<unsigned, assigned, reqs, loggedOut>>
  BY DEF Expire
<1>2. StoresOK'
  BY <1>1 DEF Inv, StoresOK
<1> QED
  BY <1>1, <1>2, TokenInv

\* A change of roles is seen by the requests in progress that it concerns.
LEMMA AssignedInv ==
  ASSUME Inv, NEW s \in Subjects, NEW rs \in SUBSET Roles, Assigned(s, rs)
  PROVE  Inv'
<1> DEFINE News(q) == IF q.pc = "run" /\ s \in q.named THEN [q EXCEPT !.seen = @ \cup {<<s, rs>>}] ELSE q
<1>1. /\ assigned' = [assigned EXCEPT ![s] = rs] /\ UNCHANGED <<unsigned, live, loggedOut>>
      /\ reqs' = [p \in Procs |-> News(reqs[p])]
  BY DEF Assigned
<1>2. StoresOK'
  BY <1>1 DEF Inv, StoresOK
<1>3. ASSUME NEW q \in Running
      PROVE  /\ News(q) \in Running /\ SameHistory(q, News(q)) /\ News(q).i = q.i /\ News(q).ctx = q.ctx
             /\ News(q).vals = q.vals /\ News(q).todo = q.todo /\ News(q).pc = q.pc
             /\ News(q).named = q.named /\ News(q).status = q.status
             /\ q.pc = "run" /\ s \in q.named => <<s, rs>> \in News(q).seen
  <2> DEFINE more == q.seen \cup {<<s, rs>>}
             e == [q EXCEPT !.seen = more]
  <2>1. more \in Sightings /\ q.seen \subseteq more /\ <<s, rs>> \in more
    BY DEF Running, Sightings
  <2>2. News(q) = IF q.pc = "run" /\ s \in q.named THEN e ELSE q
    OBVIOUS
  <2> HIDE DEF more, News
  <2>3. /\ e \in Running /\ e.seen = more /\ e.i = q.i /\ e.ctx = q.ctx /\ e.vals = q.vals
        /\ e.todo = q.todo /\ e.pc = q.pc /\ e.named = q.named /\ e.status = q.status
        /\ e.req = q.req /\ e.began = q.began /\ e.after = q.after
    BY <2>1 DEF Running
  <2> HIDE DEF e
  <2> QED
    BY <2>1, <2>2, <2>3 DEF SameHistory
<1>4. News(Idle) = Idle
  BY DEF Idle
<1> HIDE DEF News
<1>5. reqs' \in [Procs -> {Idle} \cup Running]
  BY <1>1, <1>3, <1>4 DEF Inv
<1>6. ASSUME NEW q \in Running, RequestOK(q), NEW d, d = News(q)
      PROVE  HistoryOK(d)' /\ PassedOK(d) /\ ContextOK(d)' /\ ValuesOK(d) /\ LoopOK(d) /\ AnsweredOK(d)'
  <2>1. /\ d \in Running /\ SameHistory(q, d) /\ d.i = q.i /\ d.ctx = q.ctx
        /\ d.vals = q.vals /\ d.todo = q.todo /\ d.pc = q.pc /\ d.named = q.named /\ d.status = q.status
        /\ q.pc = "run" /\ s \in q.named => <<s, rs>> \in d.seen
    BY <1>3, <1>6
  <2>2. /\ ChainOf(d) = ChainOf(q) /\ Sent(d) = Sent(q) /\ d.req = q.req /\ d.began = q.began
        /\ d.after = q.after /\ q.seen \subseteq d.seen
    BY <2>1 DEF SameHistory, ChainOf, Sent
  <2>3. Proven(d, d.i) = Proven(q, q.i)
    BY <2>1, ProvenSame
  <2>4. HistoryOK(d)'
    <3>1. ASSUME q.pc = "run", NEW u \in q.named PROVE <<u, assigned'[u]>> \in d.seen
      <4>1. u \in Subjects /\ assigned \in [Subjects -> SUBSET Roles]
        BY <3>1 DEF Running, Inv, StoresOK
      <4>2. CASE u = s
        BY <1>1, <2>1, <3>1, <4>1, <4>2
      <4>3. CASE u # s
        <5>1. assigned'[u] = assigned[u]
          BY <1>1, <4>1, <4>3
        <5> QED
          BY <1>6, <2>2, <3>1, <5>1 DEF RequestOK, HistoryOK
      <4> QED
        BY <4>2, <4>3
    <3> QED
      BY <1>1, <1>6, <2>1, <2>2, <3>1 DEF RequestOK, HistoryOK
  <2>5. PassedOK(d)
    <3>1. q.i \in 1..(Len(ChainOf(q)) + 1) /\ Len(ChainOf(q)) \in Nat
      BY <1>6, ChainType DEF RequestOK, PassedOK
    <3>2. \A k \in 1..(q.i - 1) : k \in 1..Len(ChainOf(q))
      BY <3>1
    <3>3. \A k \in 1..(q.i - 1) : Entitled(d, k)
      BY <1>6, <2>1, <3>2, EntitledKept DEF RequestOK, PassedOK
    <3> QED
      BY <2>1, <2>2, <3>1, <3>3 DEF PassedOK
  <2>6. ContextOK(d)'
    BY <1>1, <1>6, <2>1, <2>2, <2>3 DEF RequestOK, ContextOK
  <2>7. ValuesOK(d)
    BY <1>6, <2>1, <2>2, <2>3 DEF RequestOK, ValuesOK
  <2>8. LoopOK(d)
    <3>1. \A u : Held(q, u) \subseteq Held(d, u)
      BY <2>1, HeldGrows
    <3> QED
      BY <1>6, <2>1, <2>2, <3>1 DEF RequestOK, LoopOK
  <2>9. AnsweredOK(d)'
    <3>1. ASSUME q.i \in 1..Len(ChainOf(q)), RefusedOK(q, q.status) PROVE RefusedOK(d, d.status)'
      <4> DEFINE mw == ChainOf(q)[q.i]
      <4>1. CASE mw.name \in {"authmw.JWT", "ginmw.JWT"}
        BY <1>1, <2>1, <2>2, <3>1, <4>1 DEF RefusedOK
      <4>2. CASE mw.name \notin {"authmw.JWT", "ginmw.JWT"}
        <5>1. mw.name \notin Authenticators
          BY <3>1, <4>2 DEF RefusedOK, Authenticators
        <5>2. \A t : MayRefuse(q, t) => MayRefuse(d, t)
          BY <1>6, <2>1, <3>1, <5>1, MayRefuseKept
        <5> QED
          BY <1>1, <2>1, <2>2, <2>3, <3>1, <4>2, <5>2 DEF RefusedOK
      <4> QED
        BY <4>1, <4>2
    <3> QED
      BY <1>6, <2>1, <2>2, <3>1 DEF RequestOK, AnsweredOK
  <2> QED
    BY <2>4, <2>5, <2>6, <2>7, <2>8, <2>9
<1>7. ASSUME NEW x \in Procs, reqs'[x] # Idle PROVE RequestOK(reqs[x])'
  <2>1. reqs'[x] = News(reqs[x]) /\ reqs[x] \in Running /\ RequestOK(reqs[x])
    BY <1>1, <1>4, <1>7, NotIdle DEF Inv
  <2>2. \A d \in {News(reqs[x])} :
          HistoryOK(d)' /\ PassedOK(d) /\ ContextOK(d)' /\ ValuesOK(d) /\ LoopOK(d) /\ AnsweredOK(d)'
    BY <1>6, <2>1
  <2>3. reqs'[x] \in {News(reqs[x])}
    BY <2>1
  <2> QED
    BY <2>2, <2>3 DEF RequestOK, HistoryOK, ContextOK, AnsweredOK, RefusedOK
<1> QED
  BY <1>2, <1>5, <1>7 DEF Inv

-----------------------------------------------------------------------------
(* The theorems.                                                             *)

LEMMA InitInv == Init => Inv
BY PipelineAssumption DEF Init, Inv, StoresOK

\* Every step of a middleware keeps the invariant.
LEMMA MiddlewareInv == ASSUME Inv, NEW p \in Procs, Middleware(p) PROVE Inv'
BY JWTInv, OptionalInv, RequireAuthInv, RequireInv, RequireRoleInv, ABACRequireInv, GinJWTInv,
   GinRequireRoleInv, HasRoleInv, RequirePermissionInv, RequireCustomClaimInv,
   RequireCustomClaimNotInv, RequireAsyncPermissionInv, ScopeCheckerInv DEF Middleware

LEMMA StutterInv == ASSUME Inv, UNCHANGED vars PROVE Inv'
<1>1. UNCHANGED <<unsigned, live, assigned, reqs, loggedOut>>
  BY DEF vars
<1>2. StoresOK'
  BY <1>1 DEF Inv, StoresOK
<1> QED
  BY <1>1, <1>2, TokenInv

LEMMA StepInv == Inv /\ [Next]_vars => Inv'
<1> SUFFICES ASSUME Inv, [Next]_vars PROVE Inv'
  OBVIOUS
<1>1. ASSUME NEW p \in Procs, NEW r \in Requests, Begin(p, r) PROVE Inv'
  BY <1>1, BeginInv
<1>2. ASSUME NEW p \in Procs, Middleware(p) PROVE Inv'
  BY <1>2, MiddlewareInv
<1>3. ASSUME NEW p \in Procs, Serve(p) \/ Return(p) PROVE Inv'
  BY <1>3, ServeInv, ReturnInv
<1>4. ASSUME NEW t \in Tokens, Login(t) \/ Expire(t) PROVE Inv'
  BY <1>4, LoginInv, ExpireInv
<1>5. ASSUME NEW s \in Subjects, NEW r \in Roles, AssignRole(s, r) \/ UnassignRole(s, r) PROVE Inv'
  <2>1. assigned[s] \cup {r} \in SUBSET Roles /\ assigned[s] \ {r} \in SUBSET Roles
    BY DEF Inv, StoresOK
  <2> QED
    BY <1>5, <2>1, AssignedInv DEF AssignRole, UnassignRole
<1>6. CASE UNCHANGED vars
  BY <1>6, StutterInv
<1> QED
  BY <1>1, <1>2, <1>3, <1>4, <1>5, <1>6 DEF Next

LEMMA Invariance == Spec => []Inv
<1> QED
  BY InitInv, StepInv, PTL DEF Spec

LEMMA InvType == Inv => TypeOK
<1> SUFFICES ASSUME Inv PROVE TypeOK
  OBVIOUS
<1>1. ASSUME NEW p \in Procs, reqs[p] # Idle
      PROVE  /\ reqs[p].pc \in {"run", "done"}
             /\ reqs[p].req \in Requests
             /\ reqs[p].i \in 1..(Len(Chain(p)) + 1)
             /\ reqs[p].ctx \in Tokens \cup {NoToken}
             /\ reqs[p].status \in {0, 200, 401, 403}
  <2>1. reqs[p] \in Running /\ RequestOK(reqs[p])
    BY <1>1 DEF Inv
  <2>2. reqs[p].i \in 1..(Len(Chain(p)) + 1)
    BY <2>1 DEF RequestOK, PassedOK, Chain, ChainOf
  <2> QED
    BY <2>1, <2>2 DEF Running, Statuses
<1> QED
  BY <1>1 DEF TypeOK, Inv, StoresOK

LEMMA InvServed == Inv => ServedIsEntitled
<1> SUFFICES ASSUME Inv, NEW p \in Procs, reqs[p] # Idle, reqs[p].pc = "done", reqs[p].status = 200,
                    NEW k \in 1..Len(ChainOf(reqs[p]))
             PROVE  Entitled(reqs[p], k)
  BY DEF ServedIsEntitled, Request, ChainOf
<1>1. reqs[p] \in Running /\ RequestOK(reqs[p])
  BY DEF Inv
<1>2. reqs[p].i = Len(ChainOf(reqs[p])) + 1 /\ Len(ChainOf(reqs[p])) \in Nat
  BY <1>1, ChainType DEF RequestOK, AnsweredOK
<1>3. k \in 1..(reqs[p].i - 1)
  BY <1>2
<1> QED
  BY <1>1, <1>3 DEF RequestOK, PassedOK

LEMMA InvRefused == Inv => RefusalIsJustified
<1> SUFFICES ASSUME Inv PROVE RefusalIsJustified
  OBVIOUS
<1> DEFINE Reason(q) ==
             LET mw == q.req.route.chain[q.i] IN
             IF mw.name \in {"authmw.JWT", "ginmw.JWT"}
             THEN q.status = 401 /\ TokenFor(mw, q.req) \notin q.began \cap live
             ELSE /\ mw.name # "authmw.Optional"
                  /\ \A t \in Proven(q, q.i) \cap live :
                       /\ MayRefuse(q, t)
                       /\ q.status = 401 => t.Subject = "" \/ UserIDs(t) \ {""} = {}
<1>1. ASSUME NEW q \in Request, q.pc = "done", q.status # 200 PROVE Reason(q)
  <2>1. RefusedOK(q, q.status)
    BY <1>1 DEF Inv, Request, RequestOK, AnsweredOK
  <2> QED
    BY <2>1, Zenon DEF RefusedOK, ChainOf
<1>2. RefusalIsJustified <=> \A q \in Request : q.pc = "done" /\ q.status # 200 => Reason(q)
  BY Zenon DEF RefusalIsJustified
<1> HIDE DEF Reason
<1> QED
  BY <1>1, <1>2

\* The stores of tokens and roles and the requests keep their types, in every deployment.
THEOREM TypeCorrect == Spec => []TypeOK
BY Invariance, InvType, PTL

\* Whoever is served was entitled to it at every guard of the route, for any number of requests,
\* tokens and roles and every route that keeps to the documented order (RouteAssumption: a
\* RequireCustomClaimNot stands behind a ginmw.JWT, the claim guards have an extractor),
\* whatever is revoked or assigned while the request is on its way (auth/middleware,
\* rbac.Require, RequireRole, abac.Require and the guards of ginmw).
THEOREM ServedEntitled == Spec => []ServedIsEntitled
BY Invariance, InvServed, PTL

\* Whoever is refused by one of these middlewares lacked what it asks for at some time during
\* the request.
THEOREM RefusedForReason == Spec => []RefusalIsJustified
BY Invariance, InvRefused, PTL
=============================================================================
