------------------------------- MODULE MCRBAC -------------------------------
(* Instances of RBAC for TLC: three roles that can inherit in a chain, a fork   *)
(* or a cycle, lose and regain permissions, and be redefined while Can runs.    *)
EXTENDS RBAC

Read  == [resource |-> "posts", action |-> "read"]
AllQ  == {Read}
AnyRead   == [resource |-> "*", action |-> "read"]
AnyAny == [resource |-> "*", action |-> "*"]

Def(name, parents, perms) == [name |-> name, parents |-> parents, perms |-> perms]

Defs == {Def("a", <<"c", "b">>, {}), Def("b", <<"a">>, {}), Def("b", <<>>, {AnyRead}),
         Def("c", <<>>, {AnyAny})}
=============================================================================
