----------------------------- MODULE JWKSProofs -----------------------------
(***************************************************************************)
(* Proofs about JWKSSource, for every sequence of documents, every number  *)
(* of goroutines and all values of cacheTTL, minRefreshDelay, the HTTP     *)
(* timeout and the delay of an installation.                               *)
(***************************************************************************)
EXTENDS JWKSSource, WellFoundedInduction, TLAPS

-----------------------------------------------------------------------------
(* Documents.                                                                *)

\* A non-empty set of positions has a last one.
LEMMA LastExists ==
  ASSUME NEW n \in Nat, NEW S \in SUBSET (1 .. n), S # {}
  PROVE  Max(S) \in S
<1> DEFINE T == {n - i : i \in S}
<1>1. T \subseteq Nat /\ T # {}
  <2>1. \A i \in S : n - i \in Nat
    OBVIOUS
  <2>2. T \subseteq Nat
    BY <2>1
  <2>3. PICK i \in S : TRUE
    OBVIOUS
  <2>4. n - i \in T
    OBVIOUS
  <2> QED
    BY <2>2, <2>4
<1> DEFINE R == OpToRel(<, Nat)
<1>2. IsWellFoundedOn(R, Nat)
  BY NatLessThanWellFounded
<1> HIDE DEF R, T
<1>3. PICK x \in T : \A y \in T : ~(<<y, x>> \in R)
  BY <1>1, <1>2, WFMin
<1>4. PICK i \in S : x = n - i
  BY DEF T
<1>5. ASSUME NEW j \in S
      PROVE  i >= j
  <2>1. n - j \in T
    BY DEF T
  <2>2. ~(<<n - j, n - i>> \in R)
    BY <1>3, <1>4, <2>1
  <2>3. ~(n - j < n - i)
    BY <2>2 DEF R, OpToRel
  <2> QED
    BY <2>3
<1> QED
  BY <1>5 DEF Max

\* What fetch reads from a document maps key ids to keys.
LEMMA DocumentKeys ==
  ASSUME NEW v \in Versions
  PROVE  /\ DOMAIN KeysOf[v] \subseteq Kids
         /\ KeysOf[v] \in [DOMAIN KeysOf[v] -> Keys]
         /\ Range(KeysOf[v]) \subseteq Keys
<1> DEFINE doc == Docs[v]
           named(kid) == {i \in UsableEntries(doc) : doc[i].kid = kid}
<1>1. doc \in Seq(JWK)
  BY SourceAssumption DEF Versions
<1>2. KeysOf[v] = ParseJWKS(doc)
  BY DEF KeysOf
<1> HIDE DEF doc
<1>3. UsableEntries(doc) \subseteq 1 .. Len(doc) /\ Len(doc) \in Nat
  <2>1. Len(doc) \in Nat /\ DOMAIN doc = 1 .. Len(doc)
    BY <1>1
  <2> QED
    BY <2>1 DEF UsableEntries
<1>4. ASSUME NEW kid \in {doc[i].kid : i \in UsableEntries(doc)}
      PROVE  kid \in Kids /\ doc[Max(named(kid))].key \in Keys
  <2>1. named(kid) \in SUBSET (1 .. Len(doc)) /\ named(kid) # {}
    BY <1>3, <1>4
  <2>2. Max(named(kid)) \in 1 .. Len(doc)
    BY <2>1, <1>3, LastExists
  <2>3. \A i \in 1 .. Len(doc) : doc[i] \in JWK
    BY <1>1
  <2>4. \A i \in 1 .. Len(doc) : doc[i].kid \in Kids /\ doc[i].key \in Keys
    BY <2>3 DEF JWK
  <2> QED
    BY <1>3, <1>4, <2>2, <2>4
<1>5. ParseJWKS(doc) = [kid \in {doc[i].kid : i \in UsableEntries(doc)} |-> doc[Max(named(kid))].key]
  BY DEF ParseJWKS
<1> DEFINE D == {doc[i].kid : i \in UsableEntries(doc)}
<1> HIDE DEF named
<1>6. DOMAIN KeysOf[v] = D /\ \A kid \in D : kid \in Kids /\ KeysOf[v][kid] \in Keys
  BY <1>2, <1>4, <1>5
<1>7. KeysOf[v] = [kid \in DOMAIN KeysOf[v] |-> KeysOf[v][kid]]
  BY <1>2, <1>5
<1> HIDE DEF D
<1> QED
  BY <1>6, <1>7 DEF Range

-----------------------------------------------------------------------------
(* The inductive invariant.  A lookup reads goneFor of a cached key, so the  *)
(* invariant bounds the absence of every cached key by the age of the cache  *)
(* plus the time an answer may have been under way; and since answers are    *)
(* installed in any order, the absence of every key of an answer by the age  *)
(* of its exchange.                                                          *)

Published == \A k \in Range(KeysOf[version]) : goneFor[k] = 0

CacheFresh ==
  fetchAge <= CacheTTL => \A k \in Range(keys) : goneFor[k] <= fetchAge + AnswerBound

AnswerFresh(c) ==
  c.pc = "served" =>
    c.resp \in Versions /\ \A k \in Range(KeysOf[c.resp]) : goneFor[k] <= c.elapsed

ReturnedFresh(c) == c.key # NoKey => c.gone <= CacheTTL + AnswerBound

Inv ==
  /\ TypeOK
  /\ Published
  /\ CacheFresh
  /\ \A p \in Procs : AnswerFresh(calls[p]) /\ ReturnedFresh(calls[p])

\* The parts that are not about calls stand if nothing but calls changes.
LEMMA CallStep ==
  ASSUME Inv, NEW p \in Procs, NEW c \in Call, AnswerFresh(c), ReturnedFresh(c),
         calls' = [calls EXCEPT ![p] = c], attemptAge' \in 0 .. MinRefreshDelay,
         UNCHANGED <<version, healthy, keys, fetchAge, refreshAge, goneFor>>
  PROVE  Inv'
<1>1. TypeOK'
  BY DEF Inv, TypeOK
<1>2. Published' /\ CacheFresh'
  BY DEF Inv, Published, CacheFresh
<1>3. \A q \in Procs : AnswerFresh(calls[q])' /\ ReturnedFresh(calls[q])'
  BY DEF Inv, TypeOK, AnswerFresh, ReturnedFresh
<1> QED
  BY <1>1, <1>2, <1>3 DEF Inv

LEMMA BoundNat == AnswerBound \in Nat /\ HTTPTimeout \in Nat /\ HTTPTimeout <= AnswerBound
BY SourceAssumption DEF AnswerBound

LEMMA IdleCall == Idle \in Call /\ AnswerFresh(Idle) /\ ReturnedFresh(Idle)
BY SourceAssumption, BoundNat DEF Idle, Call, GoneCap, AnswerFresh, ReturnedFresh

LEMMA InitInv == Init => Inv
<1> SUFFICES ASSUME Init PROVE Inv
  OBVIOUS
<1>1. 1 \in Versions
  BY SourceAssumption DEF Versions
<1>2. TypeOK
  BY <1>1, IdleCall, SourceAssumption, BoundNat DEF Init, TypeOK, GoneCap
<1>3. Published
  BY <1>1, DocumentKeys DEF Init, Published
<1>4. CacheFresh
  BY SourceAssumption DEF Init, CacheFresh
<1> QED
  BY <1>2, <1>3, <1>4, IdleCall DEF Init, Inv

-----------------------------------------------------------------------------
(* One lemma for each kind of step.                                          *)

\* A hit returns a key of a cache that is fresh.
LEMMA LookupInv ==
  ASSUME Inv, NEW p \in Procs, NEW c \in Call, NEW m \in Call,
         AnswerFresh(m), ReturnedFresh(m), Lookup(p, c, m),
         UNCHANGED <<version, healthy, keys, fetchAge, refreshAge, goneFor, attemptAge>>
  PROVE  Inv'
<1>0. attemptAge' \in 0 .. MinRefreshDelay
  BY DEF Inv, TypeOK
<1>1. CASE calls' = [calls EXCEPT ![p] = m]
  BY <1>0, <1>1, CallStep
<1>2. CASE \E k \in CachedKeys(c.kid) : calls' = [calls EXCEPT ![p] = Hit(c, k)]
  <2>1. PICK k \in CachedKeys(c.kid) : calls' = [calls EXCEPT ![p] = Hit(c, k)]
    BY <1>2
  <2>2. k \in Range(keys) /\ fetchAge <= CacheTTL
    <3>1. ~(fetchAge > CacheTTL)
      BY DEF CachedKeys
    <3>2. k \in Range(keys)
      BY <3>1 DEF CachedKeys, Range
    <3> QED
      BY <3>1, <3>2, SourceAssumption DEF Inv, TypeOK
  <2>3. k \in Keys /\ goneFor[k] \in 0 .. GoneCap
    BY <2>2 DEF Inv, TypeOK, Range
  <2>4. goneFor[k] <= CacheTTL + AnswerBound
    BY <2>2, <2>3, SourceAssumption, BoundNat DEF Inv, TypeOK, CacheFresh, GoneCap
  <2>5. Hit(c, k) \in Call
    BY <2>3 DEF Hit, Call
  <2>6. AnswerFresh(Hit(c, k)) /\ ReturnedFresh(Hit(c, k))
    BY <2>4 DEF Hit, Call, AnswerFresh, ReturnedFresh
  <2> QED
    BY <1>0, <2>1, <2>5, <2>6, CallStep
<1> QED
  BY <1>1, <1>2 DEF Lookup

LEMMA FirstLookupInv ==
  ASSUME Inv, NEW p \in Procs, NEW kid \in Kids \cup {""}, FirstLookup(p, kid)
  PROVE  Inv'
<1> DEFINE c == [Idle EXCEPT !.op = "KeyFunc", !.kid = kid]
           m == [c EXCEPT !.pc = "missed"]
<1>1. c \in Call /\ m \in Call
  BY IdleCall DEF Idle, Call
<1>2. AnswerFresh(m) /\ ReturnedFresh(m)
  BY DEF Idle, AnswerFresh, ReturnedFresh
<1>3. Lookup(p, c, m)
  BY DEF FirstLookup
<1>4. UNCHANGED <<version, healthy, keys, fetchAge, refreshAge, goneFor, attemptAge>>
  BY DEF FirstLookup
<1> HIDE DEF c, m
<1> QED
  BY <1>1, <1>2, <1>3, <1>4, LookupInv

LEMMA SecondLookupInv ==
  ASSUME Inv, NEW p \in Procs, SecondLookup(p)
  PROVE  Inv'
<1> DEFINE c == calls[p]
           m == [c EXCEPT !.pc = "done", !.ret = "ErrKIDNotFound"]
<1>1. c \in Call /\ ReturnedFresh(c)
  BY DEF Inv, TypeOK
<1>2. m \in Call /\ AnswerFresh(m) /\ ReturnedFresh(m)
  BY <1>1 DEF Call, AnswerFresh, ReturnedFresh
<1>3. Lookup(p, c, m)
  BY DEF SecondLookup
<1>4. UNCHANGED <<version, healthy, keys, fetchAge, refreshAge, goneFor, attemptAge>>
  BY DEF SecondLookup
<1> HIDE DEF c, m
<1> QED
  BY <1>1, <1>2, <1>3, <1>4, LookupInv

\* Steps that only move a call on.
LEMMA MoveOnInv ==
  ASSUME Inv, NEW p \in Procs, Preload(p) \/ RefreshIfAllowed(p) \/ FetchFails(p) \/ Return(p)
  PROVE  Inv'
<1>1. calls[p] \in Call /\ ReturnedFresh(calls[p]) /\ attemptAge \in 0 .. MinRefreshDelay
      /\ 0 \in 0 .. MinRefreshDelay
  BY SourceAssumption DEF Inv, TypeOK
<1>2. CASE Preload(p)
  <2> DEFINE c == [Idle EXCEPT !.op = "Preload", !.pc = "fetching"]
  <2>1. c \in Call /\ AnswerFresh(c) /\ ReturnedFresh(c)
    BY IdleCall DEF Idle, Call, AnswerFresh, ReturnedFresh
  <2> HIDE DEF c
  <2> QED
    BY <1>1, <1>2, <2>1, CallStep DEF Preload, c
<1>3. CASE RefreshIfAllowed(p)
  <2> DEFINE refused == [calls[p] EXCEPT !.pc = "done", !.ret = "refused"]
             started == [calls[p] EXCEPT !.pc = "fetching"]
  <2>1. /\ refused \in Call /\ AnswerFresh(refused) /\ ReturnedFresh(refused)
        /\ started \in Call /\ AnswerFresh(started) /\ ReturnedFresh(started)
    BY <1>1 DEF Call, AnswerFresh, ReturnedFresh
  <2>2. /\ attemptAge' \in 0 .. MinRefreshDelay
        /\ calls' \in {[calls EXCEPT ![p] = refused], [calls EXCEPT ![p] = started]}
        /\ UNCHANGED <<version, healthy, keys, fetchAge, refreshAge, goneFor>>
    BY <1>1, <1>3 DEF RefreshIfAllowed
  <2> HIDE DEF refused, started
  <2> QED
    BY <2>1, <2>2, CallStep
<1>4. CASE FetchFails(p)
  <2> DEFINE c == [calls[p] EXCEPT !.pc = "done", !.ret = "fetch failed"]
  <2>1. c \in Call /\ AnswerFresh(c) /\ ReturnedFresh(c)
    BY <1>1 DEF Call, AnswerFresh, ReturnedFresh
  <2>2. calls' = [calls EXCEPT ![p] = c]
    BY <1>4 DEF FetchFails
  <2> HIDE DEF c
  <2> QED
    BY <1>1, <1>4, <2>1, <2>2, CallStep DEF FetchFails
<1>5. CASE Return(p)
  BY <1>1, <1>5, IdleCall, CallStep DEF Return
<1> QED
  BY <1>2, <1>3, <1>4, <1>5

\* The IdP's answer holds what is published now.
LEMMA ServeInv ==
  ASSUME Inv, NEW p \in Procs, Serve(p)
  PROVE  Inv'
<1> DEFINE c == [calls[p] EXCEPT !.pc = "served", !.resp = version]
<1>1. calls[p] \in Call /\ ReturnedFresh(calls[p]) /\ version \in Versions
      /\ attemptAge \in 0 .. MinRefreshDelay
  BY DEF Inv, TypeOK
<1>2. c \in Call /\ ReturnedFresh(c)
  BY <1>1 DEF Call, ReturnedFresh
<1>3. AnswerFresh(c)
  <2>1. c.resp = version /\ c.elapsed = calls[p].elapsed
    BY <1>1 DEF Call
  <2>2. calls[p].elapsed \in 0 .. AnswerBound
    BY <1>1 DEF Call
  <2>3. \A k \in Range(KeysOf[version]) : goneFor[k] = 0
    BY DEF Inv, Published
  <2> QED
    BY <1>1, <2>1, <2>2, <2>3, BoundNat DEF AnswerFresh
<1>4. calls' = [calls EXCEPT ![p] = c]
  BY DEF Serve
<1> HIDE DEF c
<1> QED
  BY <1>1, <1>2, <1>3, <1>4, CallStep DEF Serve

\* An answer is at most AnswerBound old when it is installed.
LEMMA InstallInv ==
  ASSUME Inv, NEW p \in Procs, Install(p)
  PROVE  Inv'
<1> DEFINE c == IF calls[p].op = "Preload" THEN [calls[p] EXCEPT !.pc = "done", !.ret = "ok"]
                ELSE [calls[p] EXCEPT !.pc = "fetched"]
<1>1. /\ calls[p] \in Call /\ ReturnedFresh(calls[p]) /\ AnswerFresh(calls[p])
      /\ calls[p].pc = "served"
  BY DEF Inv, TypeOK, Install
<1>2. c \in Call /\ AnswerFresh(c) /\ ReturnedFresh(c)
  BY <1>1 DEF Call, AnswerFresh, ReturnedFresh
<1>3. calls' = [calls EXCEPT ![p] = c]
  BY DEF Install
<1>4. /\ keys' = KeysOf[calls[p].resp] /\ fetchAge' = 0 /\ refreshAge' = 0
      /\ UNCHANGED <<version, healthy, goneFor, attemptAge>>
  BY DEF Install
<1>5. calls[p].resp \in Versions
  BY <1>1 DEF AnswerFresh
<1> HIDE DEF c
<1>6. TypeOK'
  BY <1>2, <1>3, <1>4, <1>5, DocumentKeys, SourceAssumption DEF Inv, TypeOK
<1>7. Published'
  BY <1>4 DEF Inv, Published
<1>8. CacheFresh'
  <2>1. \A k \in Range(KeysOf[calls[p].resp]) : k \in Keys /\ goneFor[k] <= calls[p].elapsed
    BY <1>1, <1>5, DocumentKeys DEF AnswerFresh
  <2>2. calls[p].elapsed \in 0 .. AnswerBound
    BY <1>1 DEF Call
  <2>3. \A k \in Keys : goneFor[k] \in 0 .. GoneCap
    BY DEF Inv, TypeOK
  <2> QED
    BY <1>4, <2>1, <2>2, <2>3, SourceAssumption, BoundNat DEF CacheFresh, GoneCap
<1>9. \A q \in Procs : AnswerFresh(calls[q])' /\ ReturnedFresh(calls[q])'
  BY <1>2, <1>3, <1>4 DEF Inv, TypeOK, AnswerFresh, ReturnedFresh
<1> QED
  BY <1>6, <1>7, <1>8, <1>9 DEF Inv

\* A rotation brings keys back, and withdraws others whose absence begins at 0.
LEMMA RotateInv ==
  ASSUME Inv, Rotate
  PROVE  Inv'
<1>1. version + 1 \in Versions /\ version' = version + 1
  BY SourceAssumption DEF Inv, TypeOK, Versions, Rotate
<1>2. goneFor' \in [Keys -> 0 .. GoneCap] /\ \A k \in Keys : goneFor'[k] <= goneFor[k]
  BY SourceAssumption, BoundNat DEF Rotate, Inv, TypeOK, GoneCap
<1>3. UNCHANGED <<healthy, keys, fetchAge, refreshAge, calls, attemptAge>>
  BY DEF Rotate
<1>4. \A k \in Keys : goneFor[k] \in Int /\ goneFor'[k] \in Int
  BY <1>2 DEF Inv, TypeOK
<1>5. TypeOK'
  BY <1>1, <1>2, <1>3 DEF Inv, TypeOK
<1>6. Published'
  BY <1>1, DocumentKeys DEF Published, Rotate
<1>7. CacheFresh'
  <2>1. Range(keys) \subseteq Keys /\ fetchAge \in Int
    BY DEF Inv, TypeOK, Range
  <2>2. SUFFICES ASSUME fetchAge <= CacheTTL, NEW k \in Range(keys)
                 PROVE  goneFor'[k] <= fetchAge + AnswerBound
    BY <1>3 DEF CacheFresh
  <2>3. goneFor[k] <= fetchAge + AnswerBound /\ k \in Keys
    BY <2>1, <2>2 DEF Inv, CacheFresh
  <2> QED
    BY <1>2, <1>4, <2>1, <2>3, SourceAssumption, BoundNat
<1>8. ASSUME NEW p \in Procs
      PROVE  AnswerFresh(calls[p])' /\ ReturnedFresh(calls[p])'
  <2>0. calls[p] \in Call
    BY DEF Inv, TypeOK
  <2>1. calls[p].elapsed \in 0 .. AnswerBound
    BY <2>0 DEF Call
  <2>2. AnswerFresh(calls[p]) /\ ReturnedFresh(calls[p]) /\ calls'[p] = calls[p]
    BY <1>3 DEF Inv
  <2>3. AnswerFresh(calls[p])'
    BY <1>2, <1>4, <2>1, <2>2, DocumentKeys DEF AnswerFresh
  <2> QED
    BY <2>2, <2>3 DEF ReturnedFresh
<1> QED
  BY <1>5, <1>6, <1>7, <1>8 DEF Inv

LEMMA OlderBound ==
  ASSUME NEW cap \in Nat, NEW age \in 0 .. cap
  PROVE  Older(age, cap) \in 0 .. cap /\ Older(age, cap) <= age + 1 /\ age <= Older(age, cap)
BY DEF Older

\* All ages grow together; a cache that is past its age is not bounded any more.
LEMMA TickInv ==
  ASSUME Inv, Tick
  PROVE  Inv'
<1>1. CacheTTL + 1 \in Nat /\ MinRefreshDelay \in Nat /\ GoneCap \in Nat /\ AnswerBound \in Nat
  BY SourceAssumption, BoundNat DEF GoneCap
<1>2. /\ fetchAge' = Older(fetchAge, CacheTTL + 1) /\ fetchAge \in 0 .. (CacheTTL + 1)
      /\ refreshAge' \in 0 .. MinRefreshDelay /\ attemptAge' \in 0 .. MinRefreshDelay
  BY <1>1, OlderBound DEF Tick, Inv, TypeOK
<1>3. UNCHANGED <<version, healthy, keys>> /\ version \in Versions
  BY DEF Tick, Inv, TypeOK
<1>4. ASSUME NEW k \in Keys
      PROVE  /\ goneFor[k] \in 0 .. GoneCap /\ goneFor'[k] \in 0 .. GoneCap
             /\ goneFor'[k] <= goneFor[k] + 1
             /\ k \in Range(KeysOf[version]) => goneFor'[k] = 0
  <2>1. goneFor[k] \in 0 .. GoneCap
    BY DEF Inv, TypeOK
  <2>2. goneFor'[k] = IF k \in Range(KeysOf[version]) THEN 0 ELSE Older(goneFor[k], GoneCap)
    BY DEF Tick
  <2>3. /\ Older(goneFor[k], GoneCap) \in 0 .. GoneCap
        /\ Older(goneFor[k], GoneCap) <= goneFor[k] + 1
    BY <1>1, <2>1, OlderBound
  <2> QED
    BY <1>1, <2>1, <2>2, <2>3
<1>5. goneFor' \in [Keys -> 0 .. GoneCap]
  BY <1>4 DEF Tick
<1>6. ASSUME NEW p \in Procs
      PROVE  /\ calls'[p] \in Call
             /\ AnswerFresh(calls[p])' /\ ReturnedFresh(calls[p])'
  <2>1. /\ calls[p] \in Call /\ calls[p].elapsed \in 0 .. AnswerBound
        /\ AnswerFresh(calls[p]) /\ ReturnedFresh(calls[p])
    BY DEF Inv, TypeOK, Call
  <2>2. calls'[p] = IF Exchanging(calls[p]) THEN [calls[p] EXCEPT !.elapsed = @ + 1] ELSE calls[p]
    BY DEF Tick
  <2>3. CASE Exchanging(calls[p])
    <3>1. calls[p].elapsed < AnswerBound
      BY <2>1, <2>3, BoundNat DEF Tick, Exchanging
    <3>2. calls'[p] = [calls[p] EXCEPT !.elapsed = @ + 1]
      BY <2>2, <2>3
    <3>3. /\ calls'[p] \in Call /\ calls'[p].pc = calls[p].pc /\ calls'[p].resp = calls[p].resp
          /\ calls'[p].elapsed = calls[p].elapsed + 1
          /\ calls'[p].key = calls[p].key /\ calls'[p].gone = calls[p].gone
      <4>1. calls[p].elapsed + 1 \in 0 .. AnswerBound
        BY <1>1, <2>1, <3>1
      <4> DEFINE e == calls[p].elapsed + 1
      <4>2. calls'[p] = [calls[p] EXCEPT !.elapsed = e]
        BY <3>2
      <4> HIDE DEF e
      <4>3. /\ calls'[p] \in Call /\ calls'[p].pc = calls[p].pc /\ calls'[p].resp = calls[p].resp
            /\ calls'[p].elapsed = e
            /\ calls'[p].key = calls[p].key /\ calls'[p].gone = calls[p].gone
        BY <2>1, <4>1, <4>2 DEF Call, e
      <4> QED
        BY <4>3 DEF e
    <3>4. AnswerFresh(calls[p])'
      BY <1>4, <2>1, <3>3, DocumentKeys DEF AnswerFresh
    <3> QED
      BY <2>1, <3>3, <3>4 DEF ReturnedFresh
  <2>4. CASE ~Exchanging(calls[p])
    BY <2>1, <2>2, <2>4 DEF Exchanging, AnswerFresh, ReturnedFresh
  <2> QED
    BY <2>3, <2>4
<1>7. calls' \in [Procs -> Call]
  BY <1>6 DEF Tick
<1>8. TypeOK'
  BY <1>1, <1>2, <1>3, <1>5, <1>7, OlderBound DEF Inv, TypeOK
<1>9. Published'
  BY <1>3, <1>4, DocumentKeys DEF Published
<1>10. CacheFresh'
  <2>1. Range(keys) \subseteq Keys
    BY DEF Inv, TypeOK, Range
  <2>2. SUFFICES ASSUME fetchAge' <= CacheTTL, NEW k \in Range(keys)
                 PROVE  goneFor'[k] <= fetchAge' + AnswerBound
    BY <1>3 DEF CacheFresh
  <2>3. fetchAge' = fetchAge + 1 /\ fetchAge <= CacheTTL
    BY <1>2, <2>2, SourceAssumption DEF Older
  <2>4. goneFor[k] <= fetchAge + AnswerBound
    BY <2>2, <2>3 DEF Inv, CacheFresh
  <2>5. k \in Keys
    BY <2>1, <2>2
  <2>6. goneFor'[k] <= goneFor[k] + 1 /\ goneFor[k] \in Int /\ goneFor'[k] \in Int
    BY <1>4, <2>5
  <2> QED
    BY <1>1, <1>2, <2>3, <2>4, <2>6
<1> QED
  BY <1>6, <1>8, <1>9, <1>10 DEF Inv

LEMMA NextInv == Inv /\ [Next]_vars => Inv'
<1> SUFFICES ASSUME Inv, [Next]_vars PROVE Inv'
  OBVIOUS
<1>1. CASE UNCHANGED vars
  BY <1>1 DEF vars, Inv, TypeOK, Published, CacheFresh, AnswerFresh, ReturnedFresh
<1>2. CASE Recover
  BY <1>2 DEF Recover, Inv, TypeOK, Published, CacheFresh, AnswerFresh, ReturnedFresh
<1>3. ASSUME NEW p \in Procs, Step(p) PROVE Inv'
  BY <1>3, MoveOnInv, ServeInv, InstallInv, SecondLookupInv DEF Step
<1> QED
  BY <1>1, <1>2, <1>3, FirstLookupInv, MoveOnInv, RotateInv, TickInv DEF Next

LEMMA InvariantHolds == Spec => []Inv
BY InitInv, NextInv, PTL DEF Spec

-----------------------------------------------------------------------------
(* The theorems.                                                             *)

\* The cache, the ages and the calls of KeyFunc and Preload stay well typed: no document, in
\* whatever order its entries stand, puts anything but keys into the cache.
THEOREM TypeCorrect == Spec => []TypeOK
<1>1. Inv => TypeOK
  BY DEF Inv
<1> QED
  BY <1>1, InvariantHolds, PTL

\* A key KeyFunc returns was published for signatures at most cacheTTL plus one HTTP timeout
\* and the delay of one installation before, however many goroutines fetch and in whatever
\* order their answers are installed.
THEOREM KeysDieOut == Spec => []RetiredKeysDieOut
<1>1. Inv => RetiredKeysDieOut
  BY DEF Inv, ReturnedFresh, RetiredKeysDieOut
<1> QED
  BY <1>1, InvariantHolds, PTL
=============================================================================
