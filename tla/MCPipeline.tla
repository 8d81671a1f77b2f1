----------------------------- MODULE MCPipeline -----------------------------
EXTENDS Pipeline

Str(x) == [kind |-> "string", val |-> <<x>>]

\* A user, a blocked account, a token without a subject, with a bypassing role and claims of
\* unexpected types, and a token signed by somebody else.
T(id, sub, custom) == [id |-> id, Subject |-> sub, Custom |-> custom]
TUser == T("t1", "bob", [k \in {"role", "user_id", "scope"} |->
                          Str(IF k = "role" THEN "user" ELSE IF k = "user_id" THEN "bob" ELSE "posts")])
TPending == T("t2", "bob", [k \in {"role", "user_id", "scopes"} |->
                          IF k = "role" THEN Str("pending") ELSE IF k = "user_id" THEN Str("bob")
                          ELSE [kind |-> "[]any", val |-> <<"posts">>]])
TNobody == T("t3", "", [k \in {"role", "user_id", "scope"} |->
                          IF k = "role" THEN Str("superadmin") ELSE [kind |-> "[]any", val |-> <<"posts">>]])
TForged == [TUser EXCEPT !.id = "t4"]

MCTokens == {TUser, TPending, TNobody, TForged}
MCStrangers == {TForged}
MCSubjects == {"bob", ""}
MCRoles == {"editor", "viewer"}
MCGrants == [r \in MCRoles |-> IF r = "editor" THEN {"create", "read"} ELSE {"read"}]

Mid(name) == [name |-> name]
Perm(name, perm) == [name |-> name, perm |-> perm]
RoleGuard(name) == [name |-> name, roles |-> <<"editor", "viewer">>]
Gin(extractor, ws) == [name |-> "ginmw.JWT", extractor |-> extractor, webSocketFallback |-> ws]
ClaimIs(values) == [name |-> "ginmw.RequireCustomClaim", key |-> "user_role", values |-> values]
ClaimNot == [name |-> "ginmw.RequireCustomClaimNot", key |-> "user_role", value |-> "pending"]
Async == [name |-> "ginmw.RequireAsyncPermission", key |-> "user_id",
          bypassKey |-> "user_role", bypassValue |-> "superadmin", perm |-> "create"]
Scopes == [name |-> "ginmw.ScopeChecker", required |-> {"posts"}]

Route(chain) == [chain |-> chain, handler |-> "serve"]
HTTPRoutes == {
  PostsRoute("create"), LogoutRoute, DocumentsRoute({TUser}),
  Route(<<Mid("authmw.Optional"), Mid("authmw.RequireAuth"), RoleGuard("rbac.RequireRole")>>),
  Route(<<Mid("authmw.Optional"), [name |-> "abac.Require", allows |-> {NoToken, TUser}]>>),
  Route(<<Perm("rbac.Require", "create"), Mid("authmw.JWT")>>)}
GinRoutes == {
  Route(<<Gin(FALSE, TRUE), Scopes, Perm("ginmw.RequirePermission", "create")>>),
  Route(<<Gin(TRUE, FALSE), ClaimNot, RoleGuard("ginmw.RequireRole")>>),
  Route(<<Gin(TRUE, FALSE), ClaimIs({"superadmin", "user"}), Async>>),
  Route(<<Scopes, Gin(TRUE, FALSE)>>)}
MCRoutes == HTTPRoutes \cup GinRoutes

In(route, scheme, t) ==
  [route |-> route, scheme |-> scheme, header |-> t, query |-> NoToken, upgrade |-> FALSE]
\* Routes that show the ways to present a token: JWT and Optional, and gin with fallback.
Fronts == {r \in MCRoutes : r.handler = "logout" \/ r.chain[1] \in {Mid("authmw.Optional"), Gin(FALSE, TRUE)}}
MCRequests ==
  {In(r, "Bearer", t) : r \in MCRoutes, t \in {TUser, TPending, TNobody}}
  \cup {In(r, "Bearer", TForged) : r \in Fronts} \cup {In(r, "bearer", TUser) : r \in Fronts}
  \cup {In(r, "Basic", NoToken) : r \in Fronts}
  \cup {[In(r, "", NoToken) EXCEPT !.query = TUser, !.upgrade = r.chain[1].webSocketFallback] :
          r \in {x \in GinRoutes : x.chain[1].name = "ginmw.JWT"}}
=============================================================================
