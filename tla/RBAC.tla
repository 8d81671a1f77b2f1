-------------------------------- MODULE RBAC --------------------------------
(***************************************************************************)
(* rbac: an Enforcer that resolves role inheritance over a MemoryStore     *)
(* while administrators change the store.                                  *)
(*                                                                         *)
(* Can locks the store once for the subject's roles and once for every role*)
(* it visits, so a check sees the roles at different moments.  The         *)
(* recursion of roleHasPermission is a depth-first search; its stack is the*)
(* sequence `todo' of the role names still to be visited.                  *)
(***************************************************************************)
EXTENDS Integers, Sequences, FiniteSets, SequencesExt, Functions

CONSTANTS
  Procs,       \* goroutines asking Can, or behind the middlewares
  Subjects,    \* subjects of authenticated requests
  RoleNames,   \* names of roles
  RoleDefs,    \* the Role structs administrators add
  Queries,     \* the permissions asked for: records [resource, action]
  VisitLimit   \* the 64 of roleHasPermission's guard

Perm == [resource : {q.resource : q \in Queries} \cup {"*"},
         action : {q.action : q \in Queries} \cup {"*"}]

\* What MemoryStore.roles holds for a name; `exists' is FALSE for a name without a role.
RoleRec == [exists : BOOLEAN, parents : Seq(RoleNames), perms : SUBSET Perm]

NoRole == [exists |-> FALSE, parents |-> <<>>, perms |-> {}]

ASSUME RBACAssumption ==
  /\ IsFiniteSet(RoleNames) /\ Queries # {}
  /\ RoleDefs \subseteq [name : RoleNames, parents : Seq(RoleNames), perms : SUBSET Perm]
  /\ VisitLimit \in Nat

VARIABLES
  roles,     \* MemoryStore.roles
  subjects,  \* MemoryStore.subjects
  checks     \* checks[p]: the call of Can that goroutine p is in

vars == <<roles, subjects, checks>>

\* perm.matches(resource, action)
Matches(perm, q) == /\ perm.resource \in {"*", q.resource}
                    /\ perm.action \in {"*", q.action}

Grants(role, q) == \E perm \in role.perms : Matches(perm, q)

\* History of a check: `roles0' and `roots0' are the roles and the subject's assignments
\* when it began; `grew' and `shrank' say whether anything was granted or withdrawn since.
Idle == [pc |-> "idle", q |-> CHOOSE q \in Queries : TRUE, subj |-> "", todo |-> <<>>,
         visited |-> {}, roles0 |-> [n \in RoleNames |-> NoRole], roots0 |-> {},
         grew |-> FALSE, shrank |-> FALSE]

Check ==
  [pc : {"idle", "searching", "granted", "denied"}, q : Queries, subj : Subjects \cup {""},
   todo : Seq(RoleNames), visited : SUBSET RoleNames,
   roles0 : [RoleNames -> RoleRec], roots0 : SUBSET RoleNames,
   grew : BOOLEAN, shrank : BOOLEAN]

\* Types, and no role is assigned twice to a subject: otherwise UnassignRole, which cuts
\* out one occurrence, would leave the role in force.
TypeOK ==
  /\ roles \in [RoleNames -> RoleRec]
  /\ subjects \in [Subjects -> Seq(RoleNames)]
  /\ \A s \in Subjects : IsInjective(subjects[s])
  /\ checks \in [Procs -> Check]

Init ==
  /\ roles = [n \in RoleNames |-> NoRole]
  /\ subjects = [s \in Subjects |-> <<>>]
  /\ checks = [p \in Procs |-> Idle]

-----------------------------------------------------------------------------
(* Can, and the Require middleware in front of it.                           *)

\* Require: a request without a subject is forbidden.  Can: read the subject's roles.
Begin(p, s, q) ==
  /\ checks[p].pc = "idle"
  /\ checks' = [checks EXCEPT ![p] =
       IF s = "" THEN [Idle EXCEPT !.pc = "denied", !.q = q]
       ELSE [Idle EXCEPT !.pc = "searching", !.q = q, !.subj = s, !.todo = subjects[s],
                         !.roles0 = roles, !.roots0 = ToSet(subjects[s])]]
  /\ UNCHANGED <<roles, subjects>>

\* Mutant: no guard against cycles.
SkipNever(c, name) == FALSE

\* Mutant: the guard also skips when the search has only just reached the limit.
SkipEarly(c, name) == name \in c.visited \/ Cardinality(c.visited) >= VisitLimit

\* The guard of roleHasPermission against cycles and runaway searches.
Skip(c, name) == name \in c.visited \/ Cardinality(c.visited) > VisitLimit

\* Mutant: an error of GetRole counts as a grant.
VisitFailOpen(p) ==
  /\ checks[p].pc = "searching"
  /\ checks[p].todo # <<>>
  /\ LET c    == checks[p]
         name == Head(c.todo)
     IN checks' = [checks EXCEPT ![p] =
          IF Skip(c, name) THEN [c EXCEPT !.todo = Tail(@)]
          ELSE IF roles[name].exists => Grants(roles[name], c.q)
               THEN [c EXCEPT !.visited = @ \cup {name}, !.pc = "granted"]
          ELSE [c EXCEPT !.visited = @ \cup {name}, !.todo = roles[name].parents \o Tail(@)]]
  /\ UNCHANGED <<roles, subjects>>

\* One call of roleHasPermission, for the next name: GetRole, then its permissions; the
\* parents are searched before whatever is left.
Visit(p) ==
  /\ checks[p].pc = "searching"
  /\ checks[p].todo # <<>>
  /\ LET c    == checks[p]
         name == Head(c.todo)
     IN checks' = [checks EXCEPT ![p] =
          IF Skip(c, name) THEN [c EXCEPT !.todo = Tail(@)]
          ELSE IF roles[name].exists /\ Grants(roles[name], c.q)
               THEN [c EXCEPT !.visited = @ \cup {name}, !.pc = "granted"]
          ELSE [c EXCEPT !.visited = @ \cup {name}, !.todo = roles[name].parents \o Tail(@)]]
  /\ UNCHANGED <<roles, subjects>>

Exhausted(p) ==
  /\ checks[p].pc = "searching"
  /\ checks[p].todo = <<>>
  /\ checks' = [checks EXCEPT ![p].pc = "denied"]
  /\ UNCHANGED <<roles, subjects>>

Return(p) ==
  /\ checks[p].pc \in {"granted", "denied"}
  /\ checks' = [checks EXCEPT ![p] = Idle]
  /\ UNCHANGED <<roles, subjects>>

-----------------------------------------------------------------------------
(* Changes of the store.  What they grant or withdraw is noted in the history*)
(* of the checks under way.                                                  *)

RoleWithin(r1, r2) ==
  /\ r1.exists => r2.exists
  /\ r1.perms \subseteq r2.perms
  /\ ToSet(r1.parents) \subseteq ToSet(r2.parents)

Note(grew, shrank) ==
  [p \in Procs |-> IF checks[p].pc = "searching"
                   THEN [checks[p] EXCEPT !.grew = @ \/ grew, !.shrank = @ \/ shrank]
                   ELSE checks[p]]

NoteRole(old, new) == Note(~RoleWithin(new, old), ~RoleWithin(old, new))

AddRole(def) ==
  /\ LET new == [exists |-> TRUE, parents |-> def.parents, perms |-> def.perms] IN
     /\ roles' = [roles EXCEPT ![def.name] = new]
     /\ checks' = NoteRole(roles[def.name], new)
  /\ UNCHANGED subjects

\* The subjects' assignments of the role stay.
RemoveRole(name) ==
  /\ roles' = [roles EXCEPT ![name] = NoRole]
  /\ checks' = NoteRole(roles[name], NoRole)
  /\ UNCHANGED subjects

\* Mutant: a role that is assigned already is appended once more.
AssignRoleAgain(s, name) ==
  /\ Len(subjects[s]) < 3
  /\ subjects' = [subjects EXCEPT ![s] = Append(@, name)]
  /\ checks' = Note(TRUE, FALSE)
  /\ UNCHANGED roles

AssignRole(s, name) ==
  /\ IF name \in ToSet(subjects[s]) THEN UNCHANGED <<subjects, checks>>
     ELSE /\ subjects' = [subjects EXCEPT ![s] = Append(@, name)]
          /\ checks' = Note(TRUE, FALSE)
  /\ UNCHANGED roles

\* The first occurrence is cut out.
UnassignRole(s, name) ==
  /\ IF name \notin ToSet(subjects[s]) THEN UNCHANGED <<subjects, checks>>
     ELSE /\ subjects' = [subjects EXCEPT ![s] = RemoveFirst(@, name)]
          /\ checks' = Note(FALSE, TRUE)
  /\ UNCHANGED roles

-----------------------------------------------------------------------------
Step(p) == Visit(p) \/ Exhausted(p) \/ Return(p)

Next ==
  \/ \E p \in Procs : Step(p) \/ \E s \in Subjects \cup {""}, q \in Queries : Begin(p, s, q)
  \/ \E def \in RoleDefs : AddRole(def)
  \/ \E name \in RoleNames : RemoveRole(name)
  \/ \E s \in Subjects, name \in RoleNames : AssignRole(s, name) \/ UnassignRole(s, name)

Spec == Init /\ [][Next]_vars

\* A goroutine in Can is scheduled; administrators and clients owe nothing.
FairSpec == Spec /\ \A p \in Procs : WF_vars(Step(p))

-----------------------------------------------------------------------------
(* Properties.                                                               *)

\* The roles inherited from the given ones: those in every set that contains them and is
\* closed under parents.
Closed(rs, S) == \A n \in S : ToSet(rs[n].parents) \subseteq S
Inherited(rs, roots) ==
  {n \in RoleNames : \A S \in SUBSET RoleNames : roots \subseteq S /\ Closed(rs, S) => n \in S}

Permitted(rs, roots, q) == \E n \in Inherited(rs, roots) : rs[n].exists /\ Grants(rs[n], q)

\* When nothing was granted while Can ran, a grant was justified when it began: although
\* the roles are read one by one while others withdraw them, a check never pieces together
\* a permission nobody had.
GrantIsJustified ==
  \A p \in Procs : checks[p].pc = "granted" /\ ~checks[p].grew
                   => Permitted(checks[p].roles0, checks[p].roots0, checks[p].q)

\* When nothing was withdrawn while Can ran, a denial was justified when it began, for
\* stores of at most VisitLimit + 1 roles.
DenialIsJustified ==
  \A p \in Procs : /\ checks[p].pc = "denied" /\ ~checks[p].shrank
                   /\ Cardinality(RoleNames) <= VisitLimit + 1
                   => ~Permitted(checks[p].roles0, checks[p].roots0, checks[p].q)

\* Every Can returns, with cyclic inheritance and while the store keeps changing
\* (`cycles are guarded against').
CanTerminates == \A p \in Procs : checks[p].pc = "searching" ~> checks[p].pc # "searching"
=============================================================================
