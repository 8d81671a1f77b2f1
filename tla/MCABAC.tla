------------------------------ MODULE MCABAC --------------------------------
EXTENDS ABACRequire

\* Claims and resources of examples/advanced/main.go.
MCClaims ==
  {[Subject |-> "alice", Custom |-> [k \in {"roles"} |-> Strings(<<"admin">>)]],
   [Subject |-> "bob",   Custom |-> [k \in {"roles"} |-> Strings(<<"user">>)]]}
MCResources ==
  {[k \in {"owner"} |-> Str("bob")], [k \in {"visibility"} |-> Str("public")]}
MCActions == {"read", "delete"}

IsAdmin == [op |-> "SubjectHasRole", role |-> "admin"]
Owner == [op |-> "OwnerIsSubject"]
DeletesOf(owner) ==
  [op |-> "And", args |-> <<[op |-> "ResourceAttrEquals", key |-> "owner", value |-> Str(owner)],
                            [op |-> "ActionIs", actions |-> {"delete"}]>>]
OwnerAccess == [op |-> "And", args |-> <<Owner, [op |-> "ActionIs", actions |-> {"read", "delete"}]>>]
PublicRead ==
  [op |-> "And", args |-> <<[op |-> "ResourceAttrEquals", key |-> "visibility", value |-> Str("public")],
                            [op |-> "ActionIs", actions |-> {"read"}]>>]
\* "everybody but bob, and nobody over PUT", to exercise the remaining combinators
NotBob ==
  [op |-> "Not", args |-> <<[op |-> "Or", args |->
     <<[op |-> "SubjectAttrEquals", key |-> "id", value |-> Str("bob")],
       [op |-> "EnvAttrEquals", key |-> "method", value |-> Str("PUT")]>>]>>]

\* The conditions of the policies, with the ones they combine: they are nested three deep.
Parts(c) == IF c.op \in {"And", "Or", "Not"} THEN Range(c.args) ELSE {}
WithParts(conds) == conds \cup UNION {Parts(c) : c \in conds}
MCConditions == WithParts(WithParts({IsAdmin, DeletesOf("bob"), OwnerAccess, PublicRead, NotBob}))

\* What they say, from the inside out.
RECURSIVE MCHolds(_, _)
MCHolds(c, req) ==
  Holds(c, req, [part \in Parts(c) |-> IF MCHolds(part, req) THEN {req} ELSE {}])
MCApplies == [c \in MCConditions |-> {req \in RequireRequests : MCHolds(c, req)}]

MCIDs == {"admin-all", "deny-delete", "owner-access", "public-read"}

Def(id, effect, cond, prio) == [ID |-> id, Effect |-> effect, Condition |-> cond, Priority |-> prio]

\* The example's policies.
ExampleDefs == {Def("admin-all", Allow, IsAdmin, 100), Def("deny-delete", Deny, DeletesOf("bob"), 90),
                Def("owner-access", Allow, OwnerAccess, 50), Def("public-read", Allow, PublicRead, 10)}
\* Ties, a catch-all and a replacement with another priority.
TieDefs == {Def("admin-all", Allow, NotBob, 50), Def("deny-delete", Deny, DeletesOf("bob"), 50),
            Def("deny-delete", Deny, NilCondition, -1), Def("owner-access", Allow, OwnerAccess, 60)}
MCDefs == ExampleDefs \cup TieDefs
=============================================================================
