---------------------------- MODULE ABACRequire -----------------------------
(***************************************************************************)
(* abac behind HTTP: the requests that Require builds out of a verified    *)
(* token (SubjectFromClaims) and a resource, and what the built-in         *)
(* conditions and combinators say of them.                                 *)
(*                                                                         *)
(* Attributes are maps to `any'.  A value is [kind, val]: its Go type and  *)
(* the strings in it.  A token travels as JSON, so the custom claims that  *)
(* Verify returns are not of the types that Sign was given.                *)
(***************************************************************************)
EXTENDS ABAC

CONSTANTS
  MintedClaims,   \* the Claims the application signs: [Subject, Custom]
  NoClaims,       \* no verified token in the request's context
  Actions,        \* the actions routes are guarded with
  Resources       \* what resourceFn returns

Str(x)      == [kind |-> "string",   val |-> <<x>>]
Strings(xs) == [kind |-> "[]string", val |-> xs]
Nil         == [kind |-> "nil",      val |-> <<>>]

NoAttributes == [k \in {} |-> Nil]
Get(attrs, key) == IF key \in DOMAIN attrs THEN attrs[key] ELSE Nil

\* A type assertion v.(string) with the zero value on failure.
AsString(v) == IF v.kind = "string" THEN v.val[1] ELSE ""

\* json.Marshal in Sign and json.Unmarshal into map[string]any in Verify: a []string comes
\* back as []any.
Decoded(v) == IF v.kind = "[]string" THEN [v EXCEPT !.kind = "[]any"] ELSE v

-----------------------------------------------------------------------------
(* The conditions of types.go, as terms.                                     *)

OwnerIsSubjectOrNobody(req) == AsString(Get(req.Resource, "owner")) = AsString(Get(req.Subject, "id"))
OwnerIsSubject(req) ==
  LET owner == AsString(Get(req.Resource, "owner"))
  IN  owner # "" /\ owner = AsString(Get(req.Subject, "id"))

SubjectHasRole(role, req) ==
  LET v == Get(req.Subject, "roles") IN
  \/ v.kind = "[]string" /\ role \in ToSet(v.val)
  \/ v.kind = "string" /\ v.val[1] = role

\* What a condition says of a request; ap is what the conditions it combines say.
Holds(c, req, ap) ==
  CASE c.op = "And"                -> \A i \in DOMAIN c.args : req \in ap[c.args[i]]
    [] c.op = "Or"                 -> \E i \in DOMAIN c.args : req \in ap[c.args[i]]
    [] c.op = "Not"                -> req \notin ap[c.args[1]]
    [] c.op = "ActionIs"           -> req.Action \in c.actions
    [] c.op = "SubjectAttrEquals"  -> Get(req.Subject, c.key) = c.value
    [] c.op = "ResourceAttrEquals" -> Get(req.Resource, c.key) = c.value
    [] c.op = "EnvAttrEquals"      -> Get(req.Environment, c.key) = c.value
    [] c.op = "OwnerIsSubject"     -> OwnerIsSubject(req)
    [] c.op = "SubjectHasRole"     -> SubjectHasRole(c.role, req)

\* Conditions come with the ones they combine, and each holds for what it says.
ASSUME RequireAssumption ==
  /\ \A c \in Conditions : c.op \in {"And", "Or", "Not"} =>
       \A i \in DOMAIN c.args : c.args[i] \in Conditions
  /\ Applies = [c \in Conditions |-> {req \in Requests : Holds(c, req, Applies)}]

-----------------------------------------------------------------------------
(* The requests of Require.                                                  *)

\* "id" is the subject, unless a custom claim of that name replaces it.
SubjectFromClaims(claims) ==
  IF claims = NoClaims THEN NoAttributes
  ELSE [k \in {"id"} \cup DOMAIN claims.Custom |->
          IF k \in DOMAIN claims.Custom THEN Decoded(claims.Custom[k]) ELSE Str(claims.Subject)]

RequestOf(action, claims, resource) ==
  [Action |-> action, Subject |-> SubjectFromClaims(claims), Resource |-> resource,
   Environment |-> [k \in {"method"} |-> Str("GET")]]

RequireRequests ==
  {RequestOf(a, c, r) : a \in Actions, c \in MintedClaims \cup {NoClaims}, r \in Resources}

-----------------------------------------------------------------------------
(* Properties.                                                               *)

\* A request without a token is never admitted by a policy that conjoins OwnerIsSubject: not
\* even to a resource that has no owner (types.go, `owner != ""').
OwnershipNeedsASubject ==
  \A p \in Callers : LET e == evals[p] IN
    e.pc = "done" /\ e.matched # "" /\ e.req.Subject = NoAttributes =>
      LET c == e.snap[e.matched].Condition IN
      c # NilCondition => ~(c.op = "And" /\ \E i \in DOMAIN c.args : c.args[i].op = "OwnerIsSubject")
=============================================================================
