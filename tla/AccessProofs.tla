---------------------------- MODULE AccessProofs ----------------------------
(***************************************************************************)
(* Proofs about the two ways of deciding on access.  About RBAC: for every *)
(* number of goroutines, subjects and roles, every inheritance graph       *)
(* (cyclic ones too) and every visit limit.  About ABAC: for every number  *)
(* of goroutines, every set of policies and requests, and arbitrary        *)
(* conditions; and about the built-in conditions of ABACRequire, however   *)
(* policies combine them.                                                  *)
(***************************************************************************)
EXTENDS RBAC, ABACRequire, FiniteSetTheorems, TLAPS

-----------------------------------------------------------------------------
(* Sequences.                                                                *)

\* The elements of a sequence are its head and those of its tail.
LEMMA HeadTail ==
  ASSUME NEW S, NEW s \in Seq(S), s # <<>>
  PROVE  /\ Tail(s) \in Seq(S) /\ Head(s) \in S
         /\ ToSet(s) = {Head(s)} \cup ToSet(Tail(s))
<1>1. Len(s) \in Nat \ {0} /\ Tail(s) \in Seq(S) /\ Head(s) = s[1] /\ DOMAIN s = 1 .. Len(s)
  OBVIOUS
<1>2. DOMAIN Tail(s) = 1 .. (Len(s) - 1) /\ \A i \in 1 .. (Len(s) - 1) : Tail(s)[i] = s[i + 1]
  BY <1>1
<1>3. ToSet(s) \subseteq {Head(s)} \cup ToSet(Tail(s))
  <2> SUFFICES ASSUME NEW i \in DOMAIN s PROVE s[i] \in {Head(s)} \cup ToSet(Tail(s))
    BY DEF ToSet
  <2>1. CASE i = 1
    BY <1>1, <2>1
  <2>2. CASE i # 1
    <3>1. i - 1 \in DOMAIN Tail(s) /\ Tail(s)[i - 1] = s[i]
      BY <1>1, <1>2, <2>2
    <3> QED BY <3>1 DEF ToSet
  <2> QED BY <2>1, <2>2
<1>4. {Head(s)} \cup ToSet(Tail(s)) \subseteq ToSet(s)
  BY <1>1, <1>2 DEF ToSet
<1>5. Head(s) \in S
  BY <1>1
<1> QED BY <1>1, <1>3, <1>4, <1>5

\* The elements of a concatenation, position by position.
LEMMA ConcatElements ==
  ASSUME NEW S, NEW s \in Seq(S), NEW t \in Seq(S)
  PROVE  /\ s \o t \in Seq(S) /\ DOMAIN (s \o t) = 1 .. (Len(s) + Len(t))
         /\ DOMAIN s = 1 .. Len(s) /\ DOMAIN t = 1 .. Len(t) /\ Len(s) \in Nat /\ Len(t) \in Nat
         /\ \A i \in 1 .. Len(s) : (s \o t)[i] = s[i]
         /\ \A i \in 1 .. Len(t) : (s \o t)[Len(s) + i] = t[i]
OBVIOUS

\* The set of elements of a concatenation.
LEMMA ConcatSet ==
  ASSUME NEW S, NEW s \in Seq(S), NEW t \in Seq(S)
  PROVE  s \o t \in Seq(S) /\ ToSet(s \o t) = ToSet(s) \cup ToSet(t)
<1>1. /\ s \o t \in Seq(S) /\ DOMAIN (s \o t) = 1 .. (Len(s) + Len(t))
      /\ DOMAIN s = 1 .. Len(s) /\ DOMAIN t = 1 .. Len(t) /\ Len(s) \in Nat /\ Len(t) \in Nat
      /\ \A i \in 1 .. Len(s) : (s \o t)[i] = s[i]
      /\ \A i \in 1 .. Len(t) : (s \o t)[Len(s) + i] = t[i]
  BY ConcatElements
<1>2. ToSet(s) \cup ToSet(t) \subseteq ToSet(s \o t)
  <2>1. ASSUME NEW i \in 1 .. Len(s) PROVE s[i] \in ToSet(s \o t)
    <3>1. i \in DOMAIN (s \o t) /\ (s \o t)[i] = s[i]
      BY <1>1
    <3> QED BY <3>1 DEF ToSet
  <2>2. ASSUME NEW i \in 1 .. Len(t) PROVE t[i] \in ToSet(s \o t)
    <3>1. Len(s) + i \in DOMAIN (s \o t) /\ (s \o t)[Len(s) + i] = t[i]
      BY <1>1
    <3> QED BY <3>1 DEF ToSet
  <2>3. ToSet(s) = {s[i] : i \in 1 .. Len(s)} /\ ToSet(t) = {t[i] : i \in 1 .. Len(t)}
    BY <1>1 DEF ToSet
  <2> QED BY <2>1, <2>2, <2>3
<1>3. ToSet(s \o t) \subseteq ToSet(s) \cup ToSet(t)
  <2> SUFFICES ASSUME NEW i \in 1 .. (Len(s) + Len(t))
               PROVE  (s \o t)[i] \in ToSet(s) \cup ToSet(t)
    BY <1>1 DEF ToSet
  <2>1. CASE i \in 1 .. Len(s)
    BY <1>1, <2>1 DEF ToSet
  <2>2. CASE i \notin 1 .. Len(s)
    <3>1. i - Len(s) \in 1 .. Len(t) /\ i = Len(s) + (i - Len(s))
      BY <1>1, <2>2
    <3>2. (s \o t)[i] = t[i - Len(s)]
      BY <1>1, <3>1
    <3> QED BY <1>1, <3>1, <3>2 DEF ToSet
  <2> QED BY <2>1, <2>2
<1> QED BY <1>1, <1>2, <1>3

\* Appending what is not there keeps a sequence injective.
LEMMA AppendNewInjective ==
  ASSUME NEW S, NEW s \in Seq(S), NEW x \in S, IsInjective(s), x \notin ToSet(s)
  PROVE  Append(s, x) \in Seq(S) /\ IsInjective(Append(s, x))
<1>0. PICK t : t = Append(s, x)
  OBVIOUS
<1>1. /\ t \in Seq(S) /\ DOMAIN t = 1 .. (Len(s) + 1) /\ DOMAIN s = 1 .. Len(s) /\ Len(s) \in Nat
      /\ \A i \in 1 .. Len(s) : t[i] = s[i]
      /\ t[Len(s) + 1] = x
  BY <1>0
<1>2. \A i \in 1 .. Len(s) : s[i] # x
  BY <1>1 DEF ToSet
<1>3. ASSUME NEW i \in 1 .. (Len(s) + 1), NEW j \in 1 .. (Len(s) + 1), t[i] = t[j]
      PROVE  i = j
  <2>1. CASE i \in 1 .. Len(s) /\ j \in 1 .. Len(s)
    BY <1>1, <1>3, <2>1 DEF IsInjective
  <2>2. CASE i = Len(s) + 1 \/ j = Len(s) + 1
    BY <1>1, <1>2, <1>3, <2>2
  <2> QED BY <1>1, <2>1, <2>2
<1>4. IsInjective(t)
  BY <1>1, <1>3 DEF IsInjective
<1>5. Append(s, x) \in Seq(S)
  BY <1>0, <1>1
<1>6. IsInjective(Append(s, x))
  BY <1>0, <1>4, Zenon
<1> QED BY <1>5, <1>6

\* Cutting one element out keeps a sequence injective.
LEMMA RemoveFirstInjective ==
  ASSUME NEW S, NEW s \in Seq(S), IsInjective(s), NEW x \in ToSet(s)
  PROVE  RemoveFirst(s, x) \in Seq(S) /\ IsInjective(RemoveFirst(s, x))
<1>1. PICK k \in 1 .. Len(s) : s[k] = x
  BY DEF ToSet
<1>2. {i \in 1 .. Len(s) : s[i] = x} = {k}
  BY <1>1 DEF IsInjective
<1>3. Min({k}) = k
  BY <1>1 DEF Min
<1>4. RemoveFirst(s, x) = RemoveAt(s, k)
  BY <1>1, <1>2, <1>3 DEF RemoveFirst, SelectInSeq
<1> DEFINE a == SubSeq(s, 1, k - 1)
           b == SubSeq(s, k + 1, Len(s))
<1>5. /\ a \in Seq(S) /\ Len(a) = k - 1 /\ \A i \in 1 .. (k - 1) : a[i] = s[i]
      /\ b \in Seq(S) /\ Len(b) = Len(s) - k /\ \A i \in 1 .. (Len(s) - k) : b[i] = s[k + i]
  BY <1>1
<1> HIDE DEF a, b
<1>t. PICK t : t = a \o b
  OBVIOUS
<1>6. /\ t \in Seq(S) /\ DOMAIN t = 1 .. (Len(s) - 1)
      /\ \A i \in 1 .. (Len(s) - 1) : t[i] = IF i < k THEN s[i] ELSE s[i + 1]
  <2>1. /\ t \in Seq(S) /\ DOMAIN t = 1 .. (Len(a) + Len(b)) /\ Len(a) \in Nat /\ Len(b) \in Nat
        /\ \A i \in 1 .. Len(a) : t[i] = a[i]
        /\ \A i \in 1 .. Len(b) : t[Len(a) + i] = b[i]
    <3>1. a \in Seq(S) /\ b \in Seq(S)
      BY <1>5
    <3>2. /\ a \o b \in Seq(S) /\ DOMAIN (a \o b) = 1 .. (Len(a) + Len(b))
          /\ Len(a) \in Nat /\ Len(b) \in Nat
          /\ \A i \in 1 .. Len(a) : (a \o b)[i] = a[i]
          /\ \A i \in 1 .. Len(b) : (a \o b)[Len(a) + i] = b[i]
      BY <3>1, ConcatElements
    <3> QED BY <3>2, <1>t, Zenon
  <2>2. DOMAIN t = 1 .. (Len(s) - 1) /\ Len(s) \in Nat
    BY <1>1, <1>5, <2>1
  <2>3. ASSUME NEW i \in 1 .. (Len(s) - 1) PROVE t[i] = IF i < k THEN s[i] ELSE s[i + 1]
    <3>1. CASE i < k
      <4>1. i \in 1 .. (k - 1)
        BY <1>1, <3>1
      <4>2. t[i] = a[i] /\ a[i] = s[i]
        BY <1>5, <2>1, <4>1
      <4> QED BY <3>1, <4>2
    <3>2. CASE ~(i < k)
      <4> DEFINE j == i - (k - 1)
      <4>1. j \in 1 .. (Len(s) - k) /\ (k - 1) + j = i /\ k + j = i + 1
        BY <1>1, <2>2, <3>2
      <4> HIDE DEF j
      <4>2. t[(k - 1) + j] = b[j] /\ b[j] = s[k + j]
        BY <1>5, <2>1, <4>1
      <4> QED BY <3>2, <4>1, <4>2
    <3> QED BY <3>1, <3>2
  <2> QED BY <2>1, <2>2, <2>3
<1>7. ASSUME NEW i \in 1 .. (Len(s) - 1), NEW j \in 1 .. (Len(s) - 1), t[i] = t[j]
      PROVE  i = j
  <2> DEFINE at(n) == IF n < k THEN n ELSE n + 1
  <2>1. Len(s) \in Nat /\ k \in Nat /\ DOMAIN s = 1 .. Len(s)
    BY <1>1
  <2>2. at(i) \in DOMAIN s /\ at(j) \in DOMAIN s
    BY <1>1, <2>1
  <2>3. t[i] = s[at(i)] /\ t[j] = s[at(j)]
    BY <1>6
  <2>4. at(i) = at(j)
    <3> HIDE DEF at
    <3> QED BY <1>7, <2>2, <2>3 DEF IsInjective
  <2> QED BY <2>1, <2>4
<1>8. IsInjective(t)
  BY <1>6, <1>7 DEF IsInjective
<1> QED BY <1>4, <1>6, <1>8, <1>t DEF RemoveAt, a, b

-----------------------------------------------------------------------------
(* Inheritance.                                                              *)

\* RoleWithin is a preorder.
LEMMA WithinTransitive ==
  ASSUME NEW r1, NEW r2, NEW r3, RoleWithin(r1, r2), RoleWithin(r2, r3)
  PROVE  RoleWithin(r1, r3)
BY DEF RoleWithin

\* Every role is within itself.
LEMMA WithinReflexive == \A r : RoleWithin(r, r)
BY DEF RoleWithin

\* The inherited roles contain the roots, are closed under parents and are the least such set.
LEMMA InheritedIs ==
  ASSUME NEW rs \in [RoleNames -> RoleRec], NEW roots \in SUBSET RoleNames
  PROVE  /\ roots \subseteq Inherited(rs, roots)
         /\ \A n \in Inherited(rs, roots) : ToSet(rs[n].parents) \subseteq Inherited(rs, roots)
         /\ \A S \in SUBSET RoleNames :
              roots \subseteq S /\ Closed(rs, S) => Inherited(rs, roots) \subseteq S
<1>1. roots \subseteq Inherited(rs, roots)
  BY DEF Inherited
<1>2. \A S \in SUBSET RoleNames : roots \subseteq S /\ Closed(rs, S) => Inherited(rs, roots) \subseteq S
  BY DEF Inherited
<1>3. ASSUME NEW n \in Inherited(rs, roots), NEW m \in ToSet(rs[n].parents)
      PROVE  m \in Inherited(rs, roots)
  <2>1. n \in RoleNames
    BY DEF Inherited
  <2>2. m \in RoleNames
    <3>1. rs[n].parents \in Seq(RoleNames)
      BY <2>1 DEF RoleRec
    <3> QED BY <3>1 DEF ToSet
  <2>3. ASSUME NEW S \in SUBSET RoleNames, roots \subseteq S, Closed(rs, S) PROVE m \in S
    <3>1. n \in S
      BY <1>2, <2>3
    <3> QED BY <2>3, <3>1 DEF Closed
  <2> QED BY <2>2, <2>3 DEF Inherited
<1> QED BY <1>1, <1>2, <1>3

-----------------------------------------------------------------------------
(* The inductive invariant.                                                  *)

Seen(c) == c.visited \cup ToSet(c.todo)

SmallStore == Cardinality(RoleNames) <= VisitLimit + 1

\* While nothing is granted, roles only lose, and the search stays among the roles that
\* were inherited when it began.
StaysInside(rs, c) ==
  ~c.grew => /\ \A n \in RoleNames : RoleWithin(rs[n], c.roles0[n])
             /\ Seen(c) \subseteq Inherited(c.roles0, c.roots0)

\* While nothing is withdrawn, roles only gain, and the search owes no role: those met
\* contain the roots and the parents of the visited ones, none of which grants the query.
LeavesNothingOut(rs, c) ==
  ~c.shrank /\ SmallStore =>
    /\ \A n \in RoleNames : RoleWithin(c.roles0[n], rs[n])
    /\ c.roots0 \subseteq Seen(c)
    /\ \A n \in c.visited : /\ ToSet(c.roles0[n].parents) \subseteq Seen(c)
                            /\ ~(c.roles0[n].exists /\ Grants(c.roles0[n], c.q))

SearchSound(rs, c) == c.pc = "searching" => StaysInside(rs, c) /\ LeavesNothingOut(rs, c)

VerdictSound(c) ==
  /\ c.pc = "granted" /\ ~c.grew => Permitted(c.roles0, c.roots0, c.q)
  /\ c.pc = "denied" /\ ~c.shrank /\ SmallStore => ~Permitted(c.roles0, c.roots0, c.q)

Inv == TypeOK /\ \A p \in Procs : SearchSound(roles, checks[p]) /\ VerdictSound(checks[p])

\* An idle goroutine satisfies the invariant.
LEMMA IdleSound ==
  ASSUME NEW rs PROVE Idle \in Check /\ SearchSound(rs, Idle) /\ VerdictSound(Idle)
<1>1. NoRole \in RoleRec
  BY DEF NoRole, RoleRec
<1>2. (CHOOSE q \in Queries : TRUE) \in Queries
  BY RBACAssumption
<1>3. Idle \in Check
  BY <1>1, <1>2 DEF Idle, Check
<1> QED BY <1>3 DEF Idle, SearchSound, VerdictSound

\* A request without a subject is denied, and nothing is permitted to nobody.
LEMMA NobodySound ==
  ASSUME NEW rs, NEW q \in Queries, NEW c, c = [Idle EXCEPT !.pc = "denied", !.q = q]
  PROVE  c \in Check /\ SearchSound(rs, c) /\ VerdictSound(c)
<1>1. c \in Check /\ c.pc = "denied" /\ c.roots0 = {}
  BY IdleSound DEF Idle, Check
<1>2. Inherited(c.roles0, {}) \subseteq {}
  <2>1. c.roles0 \in [RoleNames -> RoleRec]
    BY <1>1 DEF Check
  <2>2. Closed(c.roles0, {})
    BY DEF Closed
  <2> QED BY <2>1, <2>2, InheritedIs
<1>3. ~Permitted(c.roles0, c.roots0, c.q)
  BY <1>1, <1>2 DEF Permitted
<1> QED BY <1>1, <1>3 DEF SearchSound, VerdictSound

\* A check that has just read the subject's roles satisfies the invariant.
LEMMA BeginSound ==
  ASSUME NEW rs \in [RoleNames -> RoleRec], NEW assigned \in Seq(RoleNames),
         NEW s \in Subjects, NEW q \in Queries, NEW c,
         c = [Idle EXCEPT !.pc = "searching", !.q = q, !.subj = s, !.todo = assigned,
                          !.roles0 = rs, !.roots0 = ToSet(assigned)]
  PROVE  c \in Check /\ SearchSound(rs, c) /\ VerdictSound(c)
<1>1. ToSet(assigned) \in SUBSET RoleNames
  BY DEF ToSet
<1>2. /\ c.pc = "searching" /\ c.todo = assigned /\ c.visited = {}
      /\ c.roles0 = rs /\ c.roots0 = ToSet(assigned)
  BY DEF Idle
<1>3. c \in Check
  BY <1>1, IdleSound DEF Idle, Check
<1>4. Seen(c) = ToSet(assigned)
  BY <1>2 DEF Seen
<1>5. StaysInside(rs, c)
  BY <1>1, <1>2, <1>4, WithinReflexive, InheritedIs DEF StaysInside
<1>6. LeavesNothingOut(rs, c)
  BY <1>2, <1>4, WithinReflexive DEF LeavesNothingOut
<1> QED BY <1>2, <1>3, <1>5, <1>6 DEF SearchSound, VerdictSound

\* In a small store, the guard skips only roles that were visited.
LEMMA SkipsVisited ==
  ASSUME NEW c \in Check, NEW name \in RoleNames, Skip(c, name), SmallStore
  PROVE  name \in c.visited
<1>1. c.visited \in SUBSET RoleNames
  BY DEF Check
<1>2. CASE Cardinality(c.visited) > VisitLimit
  <2>1. IsFiniteSet(RoleNames) /\ VisitLimit \in Nat
    BY RBACAssumption
  <2>2. /\ IsFiniteSet(c.visited) /\ Cardinality(c.visited) <= Cardinality(RoleNames)
        /\ Cardinality(c.visited) = Cardinality(RoleNames) => c.visited = RoleNames
    BY <1>1, <2>1, FS_Subset
  <2>3. Cardinality(c.visited) \in Nat /\ Cardinality(RoleNames) \in Nat
    BY <2>1, <2>2, FS_CardinalityType
  <2> QED BY <1>2, <2>1, <2>2, <2>3 DEF SmallStore
<1> QED BY <1>2 DEF Skip

\* One step of the search.
LEMMA SkipSound ==
  ASSUME NEW rs \in [RoleNames -> RoleRec], NEW c \in Check, c.pc = "searching",
         c.todo # <<>>, SearchSound(rs, c), Skip(c, Head(c.todo)),
         NEW d, d = [c EXCEPT !.todo = Tail(@)]
  PROVE  d \in Check /\ SearchSound(rs, d) /\ VerdictSound(d)
<1>1. c.todo \in Seq(RoleNames) /\ c.visited \in SUBSET RoleNames
  BY DEF Check
<1>2. /\ Tail(c.todo) \in Seq(RoleNames) /\ Head(c.todo) \in RoleNames
      /\ ToSet(c.todo) = {Head(c.todo)} \cup ToSet(Tail(c.todo))
  BY <1>1, HeadTail
<1>3. /\ d \in Check /\ d.pc = c.pc /\ d.q = c.q /\ d.todo = Tail(c.todo)
      /\ d.visited = c.visited /\ d.roles0 = c.roles0 /\ d.roots0 = c.roots0
      /\ d.grew = c.grew /\ d.shrank = c.shrank
  BY <1>2 DEF Check
<1>4. Seen(d) \subseteq Seen(c) /\ (SmallStore => Seen(d) = Seen(c))
  <2>1. SmallStore => Head(c.todo) \in c.visited
    BY <1>2, SkipsVisited
  <2> QED BY <1>2, <1>3, <2>1 DEF Seen
<1>5. StaysInside(rs, d)
  BY <1>3, <1>4 DEF SearchSound, StaysInside
<1>6. LeavesNothingOut(rs, d)
  BY <1>3, <1>4 DEF SearchSound, LeavesNothingOut
<1> QED BY <1>3, <1>5, <1>6 DEF SearchSound, VerdictSound

\* A grant given by a role the search has reached is justified.
LEMMA GrantSound ==
  ASSUME NEW rs \in [RoleNames -> RoleRec], NEW c \in Check, c.pc = "searching",
         c.todo # <<>>, SearchSound(rs, c),
         rs[Head(c.todo)].exists, Grants(rs[Head(c.todo)], c.q),
         NEW d, d = [c EXCEPT !.visited = @ \cup {Head(c.todo)}, !.pc = "granted"]
  PROVE  d \in Check /\ SearchSound(rs, d) /\ VerdictSound(d)
<1> DEFINE name == Head(c.todo)
<1>1. c.todo \in Seq(RoleNames) /\ c.visited \in SUBSET RoleNames
  BY DEF Check
<1>2. name \in RoleNames /\ name \in Seen(c)
  BY <1>1, HeadTail DEF Seen
<1>3. /\ d \in Check /\ d.pc = "granted" /\ d.q = c.q
      /\ d.roles0 = c.roles0 /\ d.roots0 = c.roots0 /\ d.grew = c.grew
  BY <1>1, <1>2 DEF Check
<1>4. ASSUME ~c.grew PROVE Permitted(c.roles0, c.roots0, c.q)
  <2>1. RoleWithin(rs[name], c.roles0[name]) /\ name \in Inherited(c.roles0, c.roots0)
    BY <1>2, <1>4 DEF SearchSound, StaysInside
  <2>2. c.roles0[name].exists /\ Grants(c.roles0[name], c.q)
    BY <2>1 DEF RoleWithin, Grants
  <2> QED BY <2>1, <2>2 DEF Permitted
<1> QED BY <1>3, <1>4 DEF SearchSound, VerdictSound

\* Replacing a role that does not grant by its parents keeps the search sound.
LEMMA DescendSound ==
  ASSUME NEW rs \in [RoleNames -> RoleRec], NEW c \in Check, c.pc = "searching",
         c.todo # <<>>, SearchSound(rs, c),
         ~(rs[Head(c.todo)].exists /\ Grants(rs[Head(c.todo)], c.q)),
         NEW d, d = [c EXCEPT !.visited = @ \cup {Head(c.todo)},
                              !.todo = rs[Head(c.todo)].parents \o Tail(@)]
  PROVE  d \in Check /\ SearchSound(rs, d) /\ VerdictSound(d)
<1>n. PICK name : name = Head(c.todo)
  OBVIOUS
<1>1. c.todo \in Seq(RoleNames) /\ c.visited \in SUBSET RoleNames
  BY DEF Check
<1>2. /\ Tail(c.todo) \in Seq(RoleNames) /\ name \in RoleNames
      /\ ToSet(c.todo) = {name} \cup ToSet(Tail(c.todo))
  BY <1>n, <1>1, HeadTail
<1>3. rs[name].parents \in Seq(RoleNames)
  BY <1>2 DEF RoleRec
<1>4. /\ rs[name].parents \o Tail(c.todo) \in Seq(RoleNames)
      /\ ToSet(rs[name].parents \o Tail(c.todo)) = ToSet(rs[name].parents) \cup ToSet(Tail(c.todo))
  <2>1. PICK s1 \in Seq(RoleNames), s2 \in Seq(RoleNames) :
          s1 = rs[name].parents /\ s2 = Tail(c.todo)
    BY <1>2, <1>3
  <2>2. s1 \o s2 \in Seq(RoleNames) /\ ToSet(s1 \o s2) = ToSet(s1) \cup ToSet(s2)
    BY ConcatSet
  <2> QED BY <2>1, <2>2, Zenon
<1>5. /\ d \in Check /\ d.pc = c.pc /\ d.q = c.q
      /\ d.todo = rs[name].parents \o Tail(c.todo) /\ d.visited = c.visited \cup {name}
      /\ d.roles0 = c.roles0 /\ d.roots0 = c.roots0 /\ d.grew = c.grew /\ d.shrank = c.shrank
  BY <1>n, <1>1, <1>2, <1>4 DEF Check
<1>6. Seen(d) = Seen(c) \cup ToSet(rs[name].parents) /\ name \in Seen(c)
  BY <1>2, <1>4, <1>5 DEF Seen
<1>7. StaysInside(rs, d)
  <2> SUFFICES ASSUME ~c.grew
               PROVE  /\ \A n \in RoleNames : RoleWithin(rs[n], c.roles0[n])
                      /\ Seen(d) \subseteq Inherited(c.roles0, c.roots0)
    BY <1>5 DEF StaysInside
  <2>1. /\ \A n \in RoleNames : RoleWithin(rs[n], c.roles0[n])
        /\ Seen(c) \subseteq Inherited(c.roles0, c.roots0)
    BY DEF SearchSound, StaysInside
  <2>2. ToSet(rs[name].parents) \subseteq ToSet(c.roles0[name].parents)
    BY <1>2, <2>1 DEF RoleWithin
  <2>3. ToSet(c.roles0[name].parents) \subseteq Inherited(c.roles0, c.roots0)
    <3>1. c.roles0 \in [RoleNames -> RoleRec] /\ c.roots0 \in SUBSET RoleNames
      BY DEF Check
    <3> QED BY <1>6, <2>1, <3>1, InheritedIs
  <2> QED BY <1>6, <2>1, <2>2, <2>3
<1>8. LeavesNothingOut(rs, d)
  <2> SUFFICES ASSUME ~c.shrank, SmallStore
               PROVE  /\ \A n \in RoleNames : RoleWithin(c.roles0[n], rs[n])
                      /\ c.roots0 \subseteq Seen(d)
                      /\ \A n \in d.visited :
                           /\ ToSet(c.roles0[n].parents) \subseteq Seen(d)
                           /\ ~(c.roles0[n].exists /\ Grants(c.roles0[n], c.q))
    BY <1>5 DEF LeavesNothingOut
  <2>1. /\ \A n \in RoleNames : RoleWithin(c.roles0[n], rs[n])
        /\ c.roots0 \subseteq Seen(c)
        /\ \A n \in c.visited : /\ ToSet(c.roles0[n].parents) \subseteq Seen(c)
                                /\ ~(c.roles0[n].exists /\ Grants(c.roles0[n], c.q))
    BY DEF SearchSound, LeavesNothingOut
  <2>2. RoleWithin(c.roles0[name], rs[name])
    BY <1>2, <2>1
  <2>3. /\ ToSet(c.roles0[name].parents) \subseteq Seen(d)
        /\ ~(c.roles0[name].exists /\ Grants(c.roles0[name], c.q))
    BY <1>n, <1>6, <2>2 DEF RoleWithin, Grants
  <2> QED BY <1>5, <1>6, <2>1, <2>3
<1> QED BY <1>5, <1>7, <1>8 DEF SearchSound, VerdictSound

\* A search that runs out of roles has met a set that holds the roots and is closed.
LEMMA ExhaustedSound ==
  ASSUME NEW rs \in [RoleNames -> RoleRec], NEW c \in Check, c.pc = "searching",
         c.todo = <<>>, SearchSound(rs, c), NEW d, d = [c EXCEPT !.pc = "denied"]
  PROVE  d \in Check /\ SearchSound(rs, d) /\ VerdictSound(d)
<1>1. /\ d \in Check /\ d.pc = "denied" /\ d.q = c.q
      /\ d.roles0 = c.roles0 /\ d.roots0 = c.roots0 /\ d.shrank = c.shrank
  BY DEF Check
<1>2. Seen(c) = c.visited
  BY DEF Seen, ToSet
<1>3. ASSUME ~c.shrank, SmallStore PROVE ~Permitted(c.roles0, c.roots0, c.q)
  <2>1. /\ c.roots0 \subseteq c.visited
        /\ \A n \in c.visited : /\ ToSet(c.roles0[n].parents) \subseteq c.visited
                                /\ ~(c.roles0[n].exists /\ Grants(c.roles0[n], c.q))
    BY <1>2, <1>3 DEF SearchSound, LeavesNothingOut
  <2>2. Inherited(c.roles0, c.roots0) \subseteq c.visited
    <3>1. /\ c.roles0 \in [RoleNames -> RoleRec] /\ c.roots0 \in SUBSET RoleNames
          /\ c.visited \in SUBSET RoleNames
      BY DEF Check
    <3>2. Closed(c.roles0, c.visited)
      BY <2>1 DEF Closed
    <3> QED BY <2>1, <3>1, <3>2, InheritedIs
  <2> QED BY <2>1, <2>2 DEF Permitted
<1> QED BY <1>1, <1>3 DEF SearchSound, VerdictSound

\* A change of the store, as the history of a check notes it.
Noted(c, grew, shrank) ==
  IF c.pc = "searching" THEN [c EXCEPT !.grew = @ \/ grew, !.shrank = @ \/ shrank] ELSE c

\* Noting what a change grants and withdraws keeps a check sound.
LEMMA NotedSound ==
  ASSUME NEW rs \in [RoleNames -> RoleRec], NEW rs2 \in [RoleNames -> RoleRec],
         NEW c \in Check, SearchSound(rs, c), VerdictSound(c),
         NEW grew \in BOOLEAN, NEW shrank \in BOOLEAN,
         ~grew => \A n \in RoleNames : RoleWithin(rs2[n], rs[n]),
         ~shrank => \A n \in RoleNames : RoleWithin(rs[n], rs2[n]),
         NEW d, d = Noted(c, grew, shrank)
  PROVE  d \in Check /\ SearchSound(rs2, d) /\ VerdictSound(d)
<1>1. CASE c.pc # "searching"
  BY <1>1 DEF Noted, SearchSound
<1>2. CASE c.pc = "searching"
  <2>1. d = [c EXCEPT !.grew = @ \/ grew, !.shrank = @ \/ shrank]
    BY <1>2 DEF Noted
  <2>2. c.grew \in BOOLEAN /\ c.shrank \in BOOLEAN
    BY DEF Check
  <2>3. (c.grew \/ grew) \in BOOLEAN /\ (c.shrank \/ shrank) \in BOOLEAN
    OBVIOUS
  <2>4. /\ d \in Check /\ d.pc = c.pc /\ d.q = c.q /\ d.todo = c.todo /\ d.visited = c.visited
        /\ d.roles0 = c.roles0 /\ d.roots0 = c.roots0
    BY <2>1, <2>3 DEF Check
  <2>5. d.grew = (c.grew \/ grew) /\ d.shrank = (c.shrank \/ shrank)
    BY <2>1, <2>3 DEF Check
  <2>6. Seen(d) = Seen(c)
    BY <2>4 DEF Seen
  <2>7. StaysInside(rs2, d)
    <3> SUFFICES ASSUME ~d.grew
                 PROVE  /\ \A n \in RoleNames : RoleWithin(rs2[n], c.roles0[n])
                        /\ Seen(c) \subseteq Inherited(c.roles0, c.roots0)
      BY <2>4, <2>6 DEF StaysInside
    <3>1. ~c.grew /\ ~grew
      BY <2>5
    <3>2. /\ \A n \in RoleNames : RoleWithin(rs[n], c.roles0[n])
          /\ Seen(c) \subseteq Inherited(c.roles0, c.roots0)
      BY <1>2, <3>1 DEF SearchSound, StaysInside
    <3> QED BY <3>1, <3>2, WithinTransitive
  <2>8. LeavesNothingOut(rs2, d)
    <3> SUFFICES ASSUME ~d.shrank, SmallStore
                 PROVE  /\ \A n \in RoleNames : RoleWithin(c.roles0[n], rs2[n])
                        /\ c.roots0 \subseteq Seen(c)
                        /\ \A n \in c.visited :
                             /\ ToSet(c.roles0[n].parents) \subseteq Seen(c)
                             /\ ~(c.roles0[n].exists /\ Grants(c.roles0[n], c.q))
      BY <2>4, <2>6 DEF LeavesNothingOut
    <3>1. ~c.shrank /\ ~shrank
      BY <2>5
    <3>2. /\ \A n \in RoleNames : RoleWithin(c.roles0[n], rs[n])
          /\ c.roots0 \subseteq Seen(c)
          /\ \A n \in c.visited : /\ ToSet(c.roles0[n].parents) \subseteq Seen(c)
                                  /\ ~(c.roles0[n].exists /\ Grants(c.roles0[n], c.q))
      BY <1>2, <3>1 DEF SearchSound, LeavesNothingOut
    <3> QED BY <3>1, <3>2, WithinTransitive
  <2> QED BY <1>2, <2>4, <2>7, <2>8 DEF SearchSound, VerdictSound
<1> QED BY <1>1, <1>2

\* A change of the store keeps every check sound.
LEMMA ChangeSound ==
  ASSUME Inv, NEW grew \in BOOLEAN, NEW shrank \in BOOLEAN,
         roles' \in [RoleNames -> RoleRec],
         ~grew => \A n \in RoleNames : RoleWithin(roles'[n], roles[n]),
         ~shrank => \A n \in RoleNames : RoleWithin(roles[n], roles'[n]),
         checks' = Note(grew, shrank)
  PROVE  /\ checks' \in [Procs -> Check]
         /\ \A p \in Procs : SearchSound(roles', checks'[p]) /\ VerdictSound(checks'[p])
<1>1. roles \in [RoleNames -> RoleRec]
  BY DEF Inv, TypeOK
<1>2. checks' = [p \in Procs |-> Noted(checks[p], grew, shrank)]
  BY DEF Note, Noted
<1>3. ASSUME NEW p \in Procs
      PROVE  checks'[p] \in Check /\ SearchSound(roles', checks'[p]) /\ VerdictSound(checks'[p])
  <2>1. checks[p] \in Check /\ SearchSound(roles, checks[p]) /\ VerdictSound(checks[p])
    BY DEF Inv, TypeOK
  <2>2. checks'[p] = Noted(checks[p], grew, shrank)
    BY <1>2
  <2>3. PICK rs \in [RoleNames -> RoleRec], rs2 \in [RoleNames -> RoleRec] :
          rs = roles /\ rs2 = roles'
    BY <1>1
  <2>4. PICK c \in Check : c = checks[p]
    BY <2>1
  <2>5. PICK d : d = Noted(c, grew, shrank)
    OBVIOUS
  <2>6. SearchSound(rs, c) /\ VerdictSound(c)
    BY <2>1, <2>3, <2>4
  <2>7. /\ ~grew => \A n \in RoleNames : RoleWithin(rs2[n], rs[n])
        /\ ~shrank => \A n \in RoleNames : RoleWithin(rs[n], rs2[n])
    BY <2>3
  <2>8. d \in Check /\ SearchSound(rs2, d) /\ VerdictSound(d)
    BY <2>5, <2>6, <2>7, NotedSound, Zenon
  <2> QED BY <2>2, <2>3, <2>4, <2>5, <2>8
<1> QED BY <1>2, <1>3

\* AddRole and RemoveRole replace one role.
LEMMA RoleChangeSound ==
  ASSUME Inv, NEW name \in RoleNames, NEW new \in RoleRec,
         roles' = [roles EXCEPT ![name] = new], checks' = NoteRole(roles[name], new),
         UNCHANGED subjects
  PROVE  Inv'
<1>1. /\ roles \in [RoleNames -> RoleRec] /\ roles' \in [RoleNames -> RoleRec]
      /\ roles'[name] = new /\ \A n \in RoleNames \ {name} : roles'[n] = roles[n]
  BY DEF Inv, TypeOK
<1> DEFINE grew == ~RoleWithin(new, roles[name])
           shrank == ~RoleWithin(roles[name], new)
<1>2. /\ ~grew => \A n \in RoleNames : RoleWithin(roles'[n], roles[n])
      /\ ~shrank => \A n \in RoleNames : RoleWithin(roles[n], roles'[n])
  BY <1>1, WithinReflexive
<1>3. grew \in BOOLEAN /\ shrank \in BOOLEAN
  OBVIOUS
<1>4. checks' = Note(grew, shrank)
  BY DEF NoteRole
<1> HIDE DEF grew, shrank
<1>5. PICK g \in BOOLEAN, s \in BOOLEAN : g = grew /\ s = shrank
  BY <1>3
<1>6. checks' = Note(g, s)
  BY <1>4, <1>5
<1>7. /\ ~g => \A n \in RoleNames : RoleWithin(roles'[n], roles[n])
      /\ ~s => \A n \in RoleNames : RoleWithin(roles[n], roles'[n])
  BY <1>2, <1>5
<1>8. /\ checks' \in [Procs -> Check]
      /\ \A p \in Procs : SearchSound(roles', checks'[p]) /\ VerdictSound(checks'[p])
  BY <1>1, <1>6, <1>7, ChangeSound, Zenon
<1> QED BY <1>1, <1>8 DEF Inv, TypeOK

\* A goroutine's step replaces its own check by one that is as good.
LEMMA OwnCheckSound ==
  ASSUME Inv, NEW p \in Procs, NEW c \in Check, SearchSound(roles, c), VerdictSound(c),
         checks' = [checks EXCEPT ![p] = c], UNCHANGED <<roles, subjects>>
  PROVE  Inv'
<1>1. checks' \in [Procs -> Check] /\ checks'[p] = c /\ \A r \in Procs \ {p} : checks'[r] = checks[r]
  BY DEF Inv, TypeOK
<1>2. ASSUME NEW r \in Procs PROVE SearchSound(roles', checks'[r]) /\ VerdictSound(checks'[r])
  BY <1>1 DEF Inv
<1> QED BY <1>1, <1>2 DEF Inv, TypeOK

-----------------------------------------------------------------------------
\* An empty store satisfies the invariant.
LEMMA InitInv == Init => Inv
<1> SUFFICES ASSUME Init PROVE Inv
  OBVIOUS
<1>1. NoRole \in RoleRec
  BY DEF NoRole, RoleRec
<1>2. roles \in [RoleNames -> RoleRec] /\ subjects \in [Subjects -> Seq(RoleNames)]
  BY <1>1 DEF Init
<1>3. \A s \in Subjects : IsInjective(subjects[s])
  BY DEF Init, IsInjective
<1>4. checks \in [Procs -> Check] /\ \A p \in Procs : checks[p] = Idle
  BY IdleSound DEF Init
<1>5. \A p \in Procs : SearchSound(roles, checks[p]) /\ VerdictSound(checks[p])
  BY <1>4, IdleSound
<1> QED BY <1>2, <1>3, <1>4, <1>5 DEF Inv, TypeOK

\* Beginning a check keeps the invariant.
LEMMA BeginInv ==
  ASSUME Inv, NEW p \in Procs, NEW s \in Subjects \cup {""}, NEW q \in Queries, Begin(p, s, q)
  PROVE  Inv'
<1>1. CASE s = ""
  <2>1. PICK c : c = [Idle EXCEPT !.pc = "denied", !.q = q]
    OBVIOUS
  <2>2. c \in Check /\ SearchSound(roles, c) /\ VerdictSound(c)
    BY <2>1, NobodySound
  <2>3. checks' = [checks EXCEPT ![p] = c] /\ UNCHANGED <<roles, subjects>>
    BY <1>1, <2>1 DEF Begin
  <2> QED BY <2>2, <2>3, OwnCheckSound
<1>2. CASE s # ""
  <2>1. PICK c : c = [Idle EXCEPT !.pc = "searching", !.q = q, !.subj = s, !.todo = subjects[s],
                                  !.roles0 = roles, !.roots0 = ToSet(subjects[s])]
    OBVIOUS
  <2>2. s \in Subjects /\ subjects[s] \in Seq(RoleNames) /\ roles \in [RoleNames -> RoleRec]
    BY <1>2 DEF Inv, TypeOK
  <2>3. c \in Check /\ SearchSound(roles, c) /\ VerdictSound(c)
    BY <2>1, <2>2, BeginSound
  <2>4. checks' = [checks EXCEPT ![p] = c] /\ UNCHANGED <<roles, subjects>>
    BY <1>2, <2>1 DEF Begin
  <2> QED BY <2>3, <2>4, OwnCheckSound
<1> QED BY <1>1, <1>2

\* Visiting a role keeps the invariant: it is skipped, grants, or is replaced by its parents.
LEMMA VisitInv ==
  ASSUME Inv, NEW p \in Procs, Visit(p)
  PROVE  Inv'
<1>1. PICK c \in Check : c = checks[p]
  BY DEF Inv, TypeOK
<1>2. /\ c.pc = "searching" /\ c.todo # <<>> /\ SearchSound(roles, c)
      /\ roles \in [RoleNames -> RoleRec] /\ UNCHANGED <<roles, subjects>>
  BY <1>1 DEF Visit, Inv, TypeOK
<1>3. CASE Skip(c, Head(c.todo))
  <2>1. PICK d : d = [c EXCEPT !.todo = Tail(@)]
    OBVIOUS
  <2>2. checks' = [checks EXCEPT ![p] = d]
    BY <1>1, <1>3, <2>1 DEF Visit
  <2>3. d \in Check /\ SearchSound(roles, d) /\ VerdictSound(d)
    BY <1>2, <1>3, <2>1, SkipSound
  <2> QED BY <1>2, <2>2, <2>3, OwnCheckSound
<1>4. CASE /\ ~Skip(c, Head(c.todo))
           /\ roles[Head(c.todo)].exists /\ Grants(roles[Head(c.todo)], c.q)
  <2>1. PICK d : d = [c EXCEPT !.visited = @ \cup {Head(c.todo)}, !.pc = "granted"]
    OBVIOUS
  <2>2. checks' = [checks EXCEPT ![p] = d]
    BY <1>1, <1>4, <2>1 DEF Visit
  <2>3. d \in Check /\ SearchSound(roles, d) /\ VerdictSound(d)
    BY <1>2, <1>4, <2>1, GrantSound
  <2> QED BY <1>2, <2>2, <2>3, OwnCheckSound
<1>5. CASE /\ ~Skip(c, Head(c.todo))
           /\ ~(roles[Head(c.todo)].exists /\ Grants(roles[Head(c.todo)], c.q))
  <2>1. PICK d : d = [c EXCEPT !.visited = @ \cup {Head(c.todo)},
                               !.todo = roles[Head(c.todo)].parents \o Tail(@)]
    OBVIOUS
  <2>2. checks' = [checks EXCEPT ![p] = d]
    BY <1>1, <1>5, <2>1 DEF Visit
  <2>3. d \in Check /\ SearchSound(roles, d) /\ VerdictSound(d)
    BY <1>2, <1>5, <2>1, DescendSound
  <2> QED BY <1>2, <2>2, <2>3, OwnCheckSound
<1> QED BY <1>3, <1>4, <1>5

\* Ending a check keeps the invariant.
LEMMA ReturnInv ==
  ASSUME Inv, NEW p \in Procs, Exhausted(p) \/ Return(p)
  PROVE  Inv'
<1>1. CASE Exhausted(p)
  <2>1. PICK c \in Check : c = checks[p]
    BY DEF Inv, TypeOK
  <2>2. /\ c.pc = "searching" /\ c.todo = <<>> /\ SearchSound(roles, c)
        /\ roles \in [RoleNames -> RoleRec] /\ UNCHANGED <<roles, subjects>>
    BY <1>1, <2>1 DEF Exhausted, Inv, TypeOK
  <2>3. PICK d : d = [c EXCEPT !.pc = "denied"]
    OBVIOUS
  <2>4. checks' = [checks EXCEPT ![p] = d]
    BY <1>1, <2>1, <2>3 DEF Exhausted
  <2>5. d \in Check /\ SearchSound(roles, d) /\ VerdictSound(d)
    BY <2>2, <2>3, ExhaustedSound
  <2> QED BY <2>2, <2>4, <2>5, OwnCheckSound
<1>2. CASE Return(p)
  BY <1>2, IdleSound, OwnCheckSound DEF Return
<1> QED BY <1>1, <1>2

\* Adding and removing roles keep the invariant.
LEMMA StoreInv ==
  ASSUME Inv,
         \/ \E def \in RoleDefs : AddRole(def)
         \/ \E name \in RoleNames : RemoveRole(name)
  PROVE  Inv'
<1>1. ASSUME NEW def \in RoleDefs, AddRole(def) PROVE Inv'
  <2>1. PICK new : new = [exists |-> TRUE, parents |-> def.parents, perms |-> def.perms]
    OBVIOUS
  <2>2. new \in RoleRec /\ def.name \in RoleNames
    BY <2>1, RBACAssumption DEF RoleRec
  <2>3. /\ roles' = [roles EXCEPT ![def.name] = new]
        /\ checks' = NoteRole(roles[def.name], new) /\ UNCHANGED subjects
    BY <1>1, <2>1 DEF AddRole
  <2> QED BY <2>2, <2>3, RoleChangeSound
<1>2. ASSUME NEW name \in RoleNames, RemoveRole(name) PROVE Inv'
  <2>1. NoRole \in RoleRec
    BY DEF NoRole, RoleRec
  <2> QED BY <1>2, <2>1, RoleChangeSound DEF RemoveRole
<1> QED BY <1>1, <1>2

\* Assigning or withdrawing a role leaves the roles alone.
LEMMA AssignmentInv ==
  ASSUME Inv, NEW s \in Subjects, NEW name \in RoleNames,
         AssignRole(s, name) \/ UnassignRole(s, name)
  PROVE  Inv'
<1>1. /\ roles \in [RoleNames -> RoleRec] /\ subjects \in [Subjects -> Seq(RoleNames)]
      /\ subjects[s] \in Seq(RoleNames) /\ \A r \in Subjects : IsInjective(subjects[r])
  BY DEF Inv, TypeOK
<1>2. ASSUME UNCHANGED <<roles, subjects, checks>> PROVE Inv'
  BY <1>2 DEF Inv, TypeOK
<1>3. ASSUME NEW t \in Seq(RoleNames), IsInjective(t), subjects' = [subjects EXCEPT ![s] = t],
             checks' = Note(TRUE, FALSE) \/ checks' = Note(FALSE, TRUE), UNCHANGED roles
      PROVE  Inv'
  <2>1. /\ subjects' \in [Subjects -> Seq(RoleNames)]
        /\ \A r \in Subjects : IsInjective(subjects'[r])
    BY <1>1, <1>3
  <2>2. /\ roles' \in [RoleNames -> RoleRec]
        /\ \A n \in RoleNames : RoleWithin(roles'[n], roles[n])
        /\ \A n \in RoleNames : RoleWithin(roles[n], roles'[n])
    BY <1>1, <1>3, WithinReflexive
  <2>3. /\ checks' \in [Procs -> Check]
        /\ \A p \in Procs : SearchSound(roles', checks'[p]) /\ VerdictSound(checks'[p])
    <3>1. PICK g \in BOOLEAN, h \in BOOLEAN : checks' = Note(g, h)
      BY <1>3
    <3> QED BY <2>2, <3>1, ChangeSound
  <2> QED BY <2>1, <2>2, <2>3 DEF Inv, TypeOK
<1>4. CASE AssignRole(s, name)
  <2>1. CASE name \in ToSet(subjects[s])
    BY <1>2, <1>4, <2>1 DEF AssignRole
  <2>2. CASE name \notin ToSet(subjects[s])
    <3>1. PICK t : t = Append(subjects[s], name)
      OBVIOUS
    <3>2. t \in Seq(RoleNames) /\ IsInjective(t)
      BY <1>1, <2>2, <3>1, AppendNewInjective
    <3>3. subjects' = [subjects EXCEPT ![s] = t] /\ checks' = Note(TRUE, FALSE) /\ UNCHANGED roles
      BY <1>4, <2>2, <3>1 DEF AssignRole
    <3> QED BY <1>3, <3>2, <3>3
  <2> QED BY <2>1, <2>2
<1>5. CASE UnassignRole(s, name)
  <2>1. CASE name \notin ToSet(subjects[s])
    BY <1>2, <1>5, <2>1 DEF UnassignRole
  <2>2. CASE name \in ToSet(subjects[s])
    <3>1. PICK t : t = RemoveFirst(subjects[s], name)
      OBVIOUS
    <3>2. t \in Seq(RoleNames) /\ IsInjective(t)
      BY <1>1, <2>2, <3>1, RemoveFirstInjective
    <3>3. subjects' = [subjects EXCEPT ![s] = t] /\ checks' = Note(FALSE, TRUE) /\ UNCHANGED roles
      BY <1>5, <2>2, <3>1 DEF UnassignRole
    <3> QED BY <1>3, <3>2, <3>3
  <2> QED BY <2>1, <2>2
<1> QED BY <1>4, <1>5

\* Every step keeps the invariant.
LEMMA NextInv == Inv /\ [Next]_vars => Inv'
<1> SUFFICES ASSUME Inv, [Next]_vars PROVE Inv'
  OBVIOUS
<1>1. ASSUME NEW p \in Procs, Step(p) PROVE Inv'
  BY <1>1, VisitInv, ReturnInv DEF Step
<1>2. ASSUME NEW p \in Procs, NEW s \in Subjects \cup {""}, NEW q \in Queries, Begin(p, s, q)
      PROVE  Inv'
  BY <1>2, BeginInv
<1>3. ASSUME (\E def \in RoleDefs : AddRole(def)) \/ (\E name \in RoleNames : RemoveRole(name))
      PROVE  Inv'
  BY <1>3, StoreInv
<1>4. ASSUME NEW s \in Subjects, NEW name \in RoleNames, AssignRole(s, name) \/ UnassignRole(s, name)
      PROVE  Inv'
  BY <1>4, AssignmentInv
<1>5. CASE UNCHANGED vars
  BY <1>5 DEF vars, Inv, TypeOK
<1> QED BY <1>1, <1>2, <1>3, <1>4, <1>5 DEF Next

-----------------------------------------------------------------------------
\* MemoryStore and Enforcer keep their types, and no subject holds a role twice, whatever
\* the administrators do.
THEOREM TypeCorrect == Spec => []TypeOK
<1>1. Inv => TypeOK
  BY DEF Inv
<1> QED BY <1>1, InitInv, NextInv, PTL DEF Spec

\* Enforcer.Can never pieces together, from roles read at different moments, a permission
\* that nobody had when it began, as long as nothing is granted meanwhile.
THEOREM GrantsJustified == Spec => []GrantIsJustified
<1>1. Inv => GrantIsJustified
  BY DEF Inv, VerdictSound, GrantIsJustified
<1> QED BY <1>1, InitInv, NextInv, PTL DEF Spec

\* Enforcer.Can never overlooks an inherited permission in a store of at most VisitLimit + 1
\* roles, as long as nothing is withdrawn meanwhile: neither the guard against cycles nor
\* the order of the search makes it miss one.
THEOREM DenialsJustified == Spec => []DenialIsJustified
<1>1. Inv => DenialIsJustified
  BY DEF Inv, VerdictSound, SmallStore, DenialIsJustified
<1> QED BY <1>1, InitInv, NextInv, PTL DEF Spec

-----------------------------------------------------------------------------
(***************************************************************************)
(* The inductive invariant: an evaluation under way holds the policies of  *)
(* its snapshot, each once and in descending priority, and one that is over*)
(* has decided as DecisionFollowsPriority says.  Later changes of the store*)
(* do not matter, since the snapshot is the evaluation's own.              *)
(***************************************************************************)
PolicySnap == [PolicyIDs -> Policy \cup {NoPolicy}]

Evaluation ==
  [pc : {"idle", "scan", "done"}, req : Requests \cup {NoRequest}, out : Seq(PolicyIDs),
   failed : BOOLEAN, snap : PolicySnap, effect : {Allow, Deny}, matched : PolicyIDs \cup {""}]

Descending(o, ps) == \A i, j \in DOMAIN o : i < j => ps[o[i]].Priority >= ps[o[j]].Priority

Decided(e) ==
  IF Matching(e) = {} THEN e.effect = DefaultEffect /\ e.matched = ""
  ELSE e.matched \in Top(e) /\ e.effect = e.snap[e.matched].Effect

EvalOK(e) ==
  /\ Enumerates(e.out, Present(e.snap))
  /\ e.pc = "scan" => Descending(e.out, e.snap) /\ e.matched = ""
  /\ e.pc = "done" => Decided(e)

ABACInv == /\ policies \in PolicySnap
           /\ evals \in [Callers -> Evaluation]
           /\ \A p \in Callers : EvalOK(evals[p])

\* An empty store is a snapshot without policies.
LEMMA EmptySnap ==
  /\ [id \in PolicyIDs |-> NoPolicy] \in PolicySnap
  /\ Present([id \in PolicyIDs |-> NoPolicy]) = {}
BY DEF PolicySnap, Present

\* An idle goroutine satisfies the invariant on evaluations.
LEMMA IdleEvalOK == NoEval \in Evaluation /\ EvalOK(NoEval)
<1>1. <<>> \in Seq(PolicyIDs) /\ Len(<<>>) = 0 /\ DOMAIN <<>> = {} /\ DOMAIN <<>> = 1 .. Len(<<>>)
  OBVIOUS
<1>2. NoEval \in Evaluation
  BY <1>1, EmptySnap DEF NoEval, Evaluation, Allow, Deny
<1>3. Enumerates(<<>>, {})
  BY <1>1 DEF Enumerates, IsInjective, ToSet
<1> QED BY <1>2, <1>3, EmptySnap DEF EvalOK, NoEval

\* The slices Policies may return: sequences of IDs that hold every policy once, in order.
LEMMA SlicesAre ==
  ASSUME NEW ps \in PolicySnap, NEW o \in SortedSlices(ps)
  PROVE  o \in Seq(PolicyIDs) /\ Enumerates(o, Present(ps)) /\ Descending(o, ps)
<1> DEFINE n == Cardinality(Present(ps))
<1>1. n \in Nat
  <2>1. Present(ps) \subseteq PolicyIDs
    BY DEF Present
  <2> QED BY <2>1, ABACAssumption, FS_Subset, FS_CardinalityType
<1> HIDE DEF n
<1>2. /\ o \in [1 .. n -> Present(ps)] /\ IsInjective(o)
      /\ \A t \in Present(ps) : \E s \in 1 .. n : o[s] = t
  BY DEF SortedSlices, Bijection, Injection, Surjection, n
<1>3. o \in Seq(PolicyIDs) /\ DOMAIN o = 1 .. n /\ Len(o) = n
  BY <1>1, <1>2 DEF Present
<1>4. ToSet(o) = Present(ps)
  BY <1>2, <1>3 DEF ToSet
<1>5. Descending(o, ps)
  BY DEF SortedSlices, Descending
<1> QED BY <1>2, <1>3, <1>4, <1>5 DEF Enumerates

\* The first hit decides as the policies of highest priority do.
LEMMA FirstHitDecides ==
  ASSUME NEW e \in Evaluation, Enumerates(e.out, Present(e.snap)), Descending(e.out, e.snap)
  PROVE  /\ Hits(e) = {} <=> Matching(e) = {}
         /\ \A i \in Hits(e) : (\A j \in Hits(e) : i <= j) => e.out[i] \in Top(e)
<1>1. DOMAIN e.out \subseteq Nat
  <2>1. e.out \in Seq(PolicyIDs)
    BY DEF Evaluation
  <2>2. Len(e.out) \in Nat
    BY <2>1
  <2> QED BY <2>2 DEF Enumerates
<1>2. \A i \in Hits(e) : e.out[i] \in Matching(e)
  BY DEF Hits, Matching, Enumerates, ToSet
<1>3. \A id \in Matching(e) : \E i \in Hits(e) : e.out[i] = id
  BY DEF Hits, Matching, Enumerates, ToSet
<1>4. ASSUME NEW i \in Hits(e), \A j \in Hits(e) : i <= j, NEW id \in Matching(e)
      PROVE  e.snap[id].Priority <= e.snap[e.out[i]].Priority
  <2>1. PICK j \in Hits(e) : e.out[j] = id
    BY <1>3
  <2>2. i <= j /\ i \in DOMAIN e.out /\ j \in DOMAIN e.out
    BY <1>4, <2>1 DEF Hits
  <2>3. e.snap[id].Priority \in Int /\ e.snap[id] \in Policy
    BY DEF Matching, Present, Evaluation, PolicySnap, Policy
  <2>4. CASE i = j
    BY <2>1, <2>3, <2>4
  <2>5. CASE i < j
    <3>1. e.snap[e.out[i]].Priority >= e.snap[e.out[j]].Priority
      BY <2>2, <2>5 DEF Descending
    <3>2. e.snap[e.out[i]].Priority \in Int
      BY <1>2 DEF Matching, Present, Evaluation, PolicySnap, Policy
    <3> QED BY <2>1, <2>3, <3>1, <3>2
  <2> QED BY <1>1, <2>2, <2>4, <2>5
<1> QED BY <1>2, <1>3, <1>4 DEF Top

\* A step that replaces one evaluation by a well-formed one.
LEMMA EvalStep ==
  ASSUME ABACInv, NEW p \in Callers, UNCHANGED policies
  PROVE  \A d \in Evaluation : EvalOK(d) /\ evals' = [evals EXCEPT ![p] = d] => ABACInv'
BY DEF ABACInv

\* Every step of an evaluation and every change of the policy store keep the invariant.
LEMMA ABACStep == ABACInv /\ [ABACNext]_evalVars => ABACInv'
<1> SUFFICES ASSUME ABACInv, [ABACNext]_evalVars PROVE ABACInv'
  OBVIOUS
<1> USE DEF Allow, Deny
<1>1. ASSUME NEW p \in Callers, NEW req \in Requests, Snapshot(p, req) PROVE ABACInv'
  <2>1. PICK o \in SortedSlices(policies) :
          evals' = [evals EXCEPT ![p] = [NoEval EXCEPT !.pc = "scan", !.req = req, !.out = o,
                                                     !.snap = policies]]
    BY <1>1 DEF Snapshot
  <2> DEFINE d == [NoEval EXCEPT !.pc = "scan", !.req = req, !.out = o, !.snap = policies]
  <2>2. o \in Seq(PolicyIDs) /\ Enumerates(o, Present(policies)) /\ Descending(o, policies)
    BY SlicesAre DEF ABACInv
  <2>3. d \in Evaluation
    BY <2>2, IdleEvalOK DEF Evaluation, ABACInv
  <2>4. d.out = o /\ d.snap = policies /\ d.pc = "scan" /\ d.matched = ""
    BY DEF NoEval
  <2>5. EvalOK(d)
    BY <2>2, <2>4 DEF EvalOK
  <2> HIDE DEF d
  <2> QED BY <1>1, <2>1, <2>3, <2>5, EvalStep DEF Snapshot, d
<1>2. ASSUME NEW p \in Callers, NEW req \in Requests, StoreError(p, req) PROVE ABACInv'
  <2> DEFINE d == [NoEval EXCEPT !.pc = "done", !.req = req, !.failed = TRUE,
                                 !.effect = DefaultEffect]
  <2>1. d \in Evaluation
    BY IdleEvalOK, ABACAssumption DEF Evaluation
  <2>2. /\ d.out = NoEval.out /\ d.snap = NoEval.snap /\ d.pc = "done" /\ d.effect = DefaultEffect
        /\ d.matched = "" /\ NoEval.snap = [id \in PolicyIDs |-> NoPolicy]
    BY DEF NoEval
  <2> HIDE DEF d
  <2>3. Matching(d) = {}
    BY <2>2, EmptySnap DEF Matching
  <2>4. EvalOK(d)
    BY <2>2, <2>3, IdleEvalOK DEF EvalOK, Decided
  <2> QED BY <1>2, <2>1, <2>4, EvalStep DEF StoreError, d
<1>3. ASSUME NEW p \in Callers, Scan(p) PROVE ABACInv'
  <2> DEFINE e == evals[p]
  <2>1. e \in Evaluation /\ EvalOK(e) /\ e.pc = "scan"
    BY <1>3 DEF ABACInv, Scan
  <2>2. Enumerates(e.out, Present(e.snap)) /\ Descending(e.out, e.snap) /\ e.matched = ""
    BY <2>1 DEF EvalOK
  <2>3. CASE Hits(e) = {}
    <3> DEFINE d == [e EXCEPT !.pc = "done", !.effect = DefaultEffect]
    <3>1. evals' = [evals EXCEPT ![p] = d] /\ UNCHANGED policies
      BY <1>3, <2>3 DEF Scan, ABACInv
    <3>2. d \in Evaluation
      BY <2>1, ABACAssumption DEF Evaluation
    <3>3. /\ d.out = e.out /\ d.snap = e.snap /\ d.req = e.req /\ d.pc = "done"
          /\ d.effect = DefaultEffect /\ d.matched = ""
      BY <2>1, <2>2 DEF Evaluation
    <3> HIDE DEF d, e
    <3>4. Matching(d) = {}
      <4>1. Matching(e) = {}
        BY <2>1, <2>2, <2>3, FirstHitDecides
      <4> QED BY <4>1, <3>3 DEF Matching
    <3>5. EvalOK(d)
      BY <2>2, <3>3, <3>4 DEF EvalOK, Decided
    <3> QED BY <3>1, <3>2, <3>5, EvalStep
  <2>4. ASSUME NEW i \in Hits(e), \A j \in Hits(e) : i <= j,
               evals' = [evals EXCEPT ![p].pc = "done", ![p].effect = e.snap[e.out[i]].Effect,
                                      ![p].matched = e.out[i]]
        PROVE  ABACInv'
    <3> DEFINE d == [e EXCEPT !.pc = "done", !.effect = e.snap[e.out[i]].Effect,
                              !.matched = e.out[i]]
    <3>1. evals' = [evals EXCEPT ![p] = d] /\ UNCHANGED policies
      BY <1>3, <2>4 DEF Scan, ABACInv
    <3>2. e.out[i] \in Top(e) /\ Matching(e) # {}
      BY <2>1, <2>2, <2>4, FirstHitDecides
    <3>3. e.out[i] \in PolicyIDs /\ e.snap[e.out[i]] \in Policy
      BY <2>1, <3>2 DEF Top, Matching, Present, Evaluation, PolicySnap
    <3>4. d \in Evaluation
      BY <2>1, <3>3 DEF Evaluation, Policy
    <3>5. /\ d.out = e.out /\ d.snap = e.snap /\ d.req = e.req /\ d.pc = "done"
          /\ d.effect = e.snap[e.out[i]].Effect /\ d.matched = e.out[i]
      BY <2>1 DEF Evaluation
    <3> HIDE DEF d, e
    <3>6. Matching(d) = Matching(e) /\ Top(d) = Top(e)
      BY <3>5 DEF Matching, Top
    <3>7. EvalOK(d)
      BY <2>2, <3>2, <3>5, <3>6 DEF EvalOK, Decided
    <3> QED BY <3>1, <3>4, <3>7, EvalStep
  <2> QED BY <1>3, <2>3, <2>4 DEF Scan
<1>4. ASSUME NEW p \in Callers, EvalReturns(p) PROVE ABACInv'
  BY <1>4, IdleEvalOK, EvalStep DEF EvalReturns
<1>5. ASSUME NEW def \in PolicyDefs, AddPolicy(def) PROVE ABACInv'
  <2>1. policies' \in PolicySnap
    BY <1>5, ABACAssumption DEF AddPolicy, ABACInv, PolicySnap, Policy
  <2> QED BY <1>5, <2>1 DEF AddPolicy, ABACInv
<1>6. ASSUME NEW id \in PolicyIDs, RemovePolicy(id) PROVE ABACInv'
  <2>1. policies' \in PolicySnap
    BY <1>6 DEF RemovePolicy, ABACInv, PolicySnap
  <2> QED BY <1>6, <2>1 DEF RemovePolicy, ABACInv
<1>7. CASE UNCHANGED evalVars
  BY <1>7 DEF evalVars, ABACInv
<1> QED BY <1>1, <1>2, <1>3, <1>4, <1>5, <1>6, <1>7 DEF ABACNext

\* The invariant holds in every reachable state.
LEMMA ABACInvariance == ABACSpec => []ABACInv
<1>1. ABACInit => ABACInv
  BY IdleEvalOK, EmptySnap DEF ABACInit, ABACInv
<1> QED BY <1>1, ABACStep, PTL DEF ABACSpec

\* Types, and that every slice holds each policy of its snapshot exactly once: Policies
\* neither loses nor repeats one.
THEOREM ABACTypeCorrect == ABACSpec => []ABACTypeOK
<1>1. ABACInv => ABACTypeOK
  BY DEF ABACInv, ABACTypeOK, EvalOK, Evaluation, PolicySnap
<1> QED BY <1>1, ABACInvariance, PTL

\* Evaluate, when its store answers, decides as the matching policies of the highest priority
\* say if they agree, and by default only if none matches, however the store changes
\* meanwhile.
THEOREM HighestPriorityDecides == ABACSpec => []DecisionFollowsPriority
<1>1. ABACInv => DecisionFollowsPriority
  <2> SUFFICES ASSUME ABACInv, NEW p \in Callers, NEW e, e = evals[p], e.pc = "done"
               PROVE  /\ Matching(e) = {} => e.effect = DefaultEffect /\ e.matched = ""
                      /\ \A id \in Top(e) :
                           /\ Top(e) = {id} => e.matched = id
                           /\ (\A other \in Top(e) : e.snap[other].Effect = e.snap[id].Effect)
                                => e.effect = e.snap[id].Effect
    BY Zenon DEF DecisionFollowsPriority
  <2>1. Decided(e)
    BY DEF ABACInv, EvalOK
  <2>2. Matching(e) = {} => Top(e) = {}
    BY DEF Top
  <2> QED BY <2>1, <2>2 DEF Decided
<1> QED BY <1>1, ABACInvariance, PTL

\* What a built-in condition that holds for a request says of it: a conjunction that every
\* part of it holds, OwnerIsSubject that the request's subject owns the resource.
LEMMA HeldConditions ==
  ASSUME NEW c \in Conditions, NEW req \in Applies[c]
  PROVE  /\ c.op = "And" => \A i \in DOMAIN c.args : /\ c.args[i] \in Conditions
                                                     /\ req \in Applies[c.args[i]]
         /\ c.op = "OwnerIsSubject" => OwnerIsSubject(req)
<1>1. Holds(c, req, Applies)
  BY RequireAssumption
<1>2. ASSUME c.op = "And" PROVE \A i \in DOMAIN c.args : req \in Applies[c.args[i]]
  BY <1>1, <1>2 DEF Holds
<1>3. ASSUME c.op = "OwnerIsSubject" PROVE OwnerIsSubject(req)
  BY <1>1, <1>3 DEF Holds
<1> QED BY <1>2, <1>3, RequireAssumption

\* A request without attributes of a subject owns nothing, not even what has no owner.
LEMMA NobodyOwns ==
  ASSUME NEW req, req.Subject = NoAttributes
  PROVE  ~OwnerIsSubject(req)
<1>1. AsString(Get(NoAttributes, "id")) = ""
  BY DEF NoAttributes, Get, AsString, Nil
<1> QED BY <1>1 DEF OwnerIsSubject

\* A request without a token is never admitted by a policy that conjoins OwnerIsSubject
\* (abac/types.go, the test of `owner != ""'), whatever else the policy conjoins and
\* whatever other policies the store holds meanwhile.
THEOREM OwnersAreKnown == ABACSpec => []OwnershipNeedsASubject
<1>1. ABACInv => OwnershipNeedsASubject
  <2> SUFFICES ASSUME ABACInv, NEW p \in Callers, evals[p].pc = "done", evals[p].matched # "",
                      evals[p].req.Subject = NoAttributes
               PROVE  LET c == evals[p].snap[evals[p].matched].Condition
                      IN  c # NilCondition =>
                            ~(c.op = "And" /\ \E i \in DOMAIN c.args : c.args[i].op = "OwnerIsSubject")
    BY DEF OwnershipNeedsASubject
  <2> DEFINE e == evals[p]
             c == e.snap[e.matched].Condition
  <2>1. e \in Evaluation /\ Decided(e)
    BY DEF ABACInv, EvalOK
  <2>2. e.matched \in Matching(e)
    BY <2>1 DEF Decided, Top
  <2>3. e.snap[e.matched] \in Policy /\ PolicyMatches(e.snap[e.matched], e.req)
    BY <2>1, <2>2 DEF Matching, Present, Evaluation, PolicySnap
  <2>4. SUFFICES ASSUME c # NilCondition, c.op = "And",
                        NEW i \in DOMAIN c.args, c.args[i].op = "OwnerIsSubject"
                 PROVE  FALSE
    OBVIOUS
  <2>5. c \in Conditions /\ e.req \in Applies[c]
    BY <2>3, <2>4 DEF Policy, PolicyMatches
  <2> HIDE DEF c
  <2>6. c.args[i] \in Conditions /\ e.req \in Applies[c.args[i]]
    BY <2>4, <2>5, HeldConditions
  <2>7. OwnerIsSubject(e.req)
    BY <2>4, <2>6, HeldConditions
  <2> QED BY <2>7, NobodyOwns
<1> QED BY <1>1, ABACInvariance, PTL
=============================================================================
