--------------------------- MODULE APIKeysProofs ----------------------------
(***************************************************************************)
(* Proofs about APIKeys, for every number of goroutines, every set of keys *)
(* and owners, and every assignment of IDs to keys, injective or not.      *)
(***************************************************************************)
EXTENDS APIKeys, TLAPS

-----------------------------------------------------------------------------
(* Types.                                                                    *)

\* What Generate stores is a key record.
LEMMA NewKeyType ==
  ASSUME now \in 0 .. MaxTime, NEW x \in Plaintexts, NEW owner \in Owners, NEW ttl \in Lifetimes
  PROVE  NewKey(x, owner, ttl) \in Key
BY KeyAssumption DEF NewKey, Key, NoExpiry

\* An idle goroutine is a well-typed call.
LEMMA IdleType == Idle \in Call
BY DEF Idle, Call

\* A call of Authenticate that has just begun is well typed.
LEMMA PresentedType ==
  ASSUME NEW raw \in Plaintexts \cup {NoPlaintext}, Live(raw) \in BOOLEAN
  PROVE  Presented(raw) \in Call
BY IdleType DEF Presented, Call, Idle

-----------------------------------------------------------------------------
(* The inductive invariant.  TypeOK alone is not inductive: GetByID is called*)
(* with the ID that the first lookup found.                                  *)

\* The record k is the one issued for its hash, but for the revocation mark.
CopyOf(k) == /\ issued[k.Hash] # NoKey
             /\ k.Subject = issued[k.Hash].Subject
             /\ k.ExpiresAt = issued[k.Hash].ExpiresAt

\* Verify would accept the record k for the plaintext x.
Good(k, x) == k.Hash = x /\ ~k.Revoked /\ ~IsExpired(k)

IssuedFresh   == \A x \in Plaintexts : issued[x] # NoKey => issued[x].Hash = x /\ ~issued[x].Revoked
Indexed       == \A x \in Plaintexts : byH[x] = IF issued[x] # NoKey THEN IdOf[x] ELSE NoId
Faithful      == \A i \in Ids : byID[i] # NoKey => CopyOf(byID[i]) /\ IdOf[byID[i].Hash] = i
RevokedMarked == \A i \in Ids : byID[i] # NoKey /\ byID[i].Hash \in revoked => byID[i].Revoked
RevokedIssued == \A x \in revoked : issued[x] # NoKey

\* A call that has found the hash holds its ID; what it reads may be displaced by a key with
\* the same ID, but a displaced record never comes back.
CallOK(c) ==
  /\ c.pc = "idle" => c = Idle
  /\ c.pc \in {"found", "read"} =>
       c.raw \in Plaintexts /\ issued[c.raw] # NoKey /\ c.id = IdOf[c.raw] /\ c.err = "none"
  /\ c.pc = "found" /\ byID[c.id] # NoKey /\ Good(byID[c.id], c.raw) => c.wasLive
  /\ c.pc = "read" =>
       /\ c.rec \in Key /\ CopyOf(c.rec)
       /\ Good(c.rec, c.raw) => c.wasLive
       /\ byID[c.id] # NoKey /\ byID[c.id].Hash = c.raw =>
            c.rec.Hash = c.raw /\ (c.rec.Revoked => byID[c.id].Revoked)
  /\ c.err = "ok" =>
       /\ c.pc = "done" /\ c.raw \in Plaintexts
       /\ c.rec \in Key /\ CopyOf(c.rec) /\ c.rec.Hash = c.raw /\ ~c.rec.Revoked

StoreInv == IssuedFresh /\ Indexed /\ Faithful /\ RevokedMarked /\ RevokedIssued
CallsInv == \A p \in Procs : CallOK(calls[p])
Inv == TypeOK /\ StoreInv /\ CallsInv

\* An empty store satisfies the invariant.
LEMMA InitInv == Init => Inv
BY KeyAssumption, IdleType DEF Init, Inv, TypeOK, StoreInv, CallsInv, IssuedFresh, Indexed,
   Faithful, RevokedMarked, RevokedIssued, CallOK, Idle

\* A step that replaces one call by a well-formed one and leaves the store alone.
LEMMA CallStep ==
  ASSUME Inv, NEW p \in Procs, UNCHANGED <<now, byID, byH, issued, revoked>>
  PROVE  \A d \in Call : CallOK(d) /\ calls' = [calls EXCEPT ![p] = d] => Inv'
<1> SUFFICES ASSUME NEW d \in Call, CallOK(d), calls' = [calls EXCEPT ![p] = d] PROVE Inv'
  OBVIOUS
<1>1. TypeOK' /\ StoreInv'
  BY DEF Inv, TypeOK, StoreInv, IssuedFresh, Indexed, Faithful, RevokedMarked, RevokedIssued, CopyOf
<1>2. \A q \in Procs : CallOK(calls'[q])
  BY DEF Inv, TypeOK, CallsInv
<1>3. CallsInv'
  BY <1>2 DEF CallsInv, CallOK, CopyOf, Good, IsExpired
<1> QED BY <1>1, <1>3 DEF Inv

\* Generate, Authenticate, Revoke and the clock keep the invariant.
LEMMA StepInv == Inv /\ [Next]_vars => Inv'
<1> SUFFICES ASSUME Inv, [Next]_vars PROVE Inv'
  OBVIOUS
<1> USE DEF Inv
<1>1. ASSUME NEW p \in Procs, NEW x \in Plaintexts \cup {NoPlaintext},
             NEW b \in Plaintexts \cup {NoPlaintext}, FindHash(p, x, b)
      PROVE  Inv'
  <2> DEFINE raw == ExtractKey(x, b)
             c   == calls'[p]
  <2>1. raw \in Plaintexts \cup {NoPlaintext}
    BY DEF ExtractKey
  <2>2. Presented(raw) \in Call /\ Presented(raw).err = "none" /\ Presented(raw).raw = raw
    BY <2>1, PresentedType DEF Live, Presented, Idle
  <2>3. calls' = [calls EXCEPT ![p] = c] /\ UNCHANGED <<now, byID, byH, issued, revoked>>
    BY <1>1 DEF FindHash, TypeOK
  <2>4. CASE raw = NoPlaintext \/ byH[raw] = NoId
    <3>1. c = [Presented(raw) EXCEPT !.pc = "done", !.err = "ErrInvalidKey"]
      BY <1>1, <2>4 DEF FindHash, TypeOK
    <3>2. c \in Call /\ CallOK(c)
      BY <3>1, <2>2 DEF Call, CallOK
    <3> QED BY <3>2, <2>3, CallStep
  <2>5. CASE ~(raw = NoPlaintext \/ byH[raw] = NoId)
    <3>1. c = [Presented(raw) EXCEPT !.pc = "found", !.id = byH[raw]]
      BY <1>1, <2>5 DEF FindHash, TypeOK
    <3>2. raw \in Plaintexts /\ byH[raw] = IdOf[raw] /\ issued[raw] # NoKey /\ IdOf[raw] \in Ids
      BY <2>1, <2>5, KeyAssumption DEF StoreInv, Indexed
    <3>3. Presented(raw).wasLive = Live(raw)
      BY <2>5 DEF Presented, Idle
    <3>4. Good(byID[IdOf[raw]], raw) /\ byID[IdOf[raw]] # NoKey => Live(raw)
      BY <3>2, KeyAssumption DEF Good, Live
    <3>5. c \in Call /\ c.pc = "found" /\ c.raw = raw /\ c.id = IdOf[raw] /\ c.err = "none"
          /\ c.wasLive = Live(raw)
      BY <3>1, <3>2, <3>3, <2>2 DEF Call
    <3>6. CallOK(c)
      BY <3>5, <3>2, <3>4 DEF CallOK
    <3> QED BY <3>5, <3>6, <2>3, CallStep
  <2> QED BY <2>4, <2>5
<1>2. ASSUME NEW p \in Procs, ReadKey(p) PROVE Inv'
  <2> DEFINE c == calls[p]
             d == calls'[p]
  <2>1. calls' = [calls EXCEPT ![p] = d] /\ UNCHANGED <<now, byID, byH, issued, revoked>>
    BY <1>2 DEF ReadKey, TypeOK
  <2>2. c \in Call /\ CallOK(c) /\ c.pc = "found" /\ c.id \in Ids
    BY <1>2, KeyAssumption DEF ReadKey, TypeOK, CallsInv, CallOK
  <2>3. CASE byID[c.id] = NoKey
    <3>1. d = [c EXCEPT !.pc = "done", !.err = "ErrInvalidKey"]
      BY <1>2, <2>3 DEF ReadKey, TypeOK
    <3>2. d \in Call /\ CallOK(d)
      BY <3>1, <2>2 DEF Call, CallOK
    <3> QED BY <3>2, <2>1, CallStep
  <2>4. CASE byID[c.id] # NoKey
    <3>1. d = [c EXCEPT !.pc = "read", !.rec = byID[c.id]]
      BY <1>2, <2>4 DEF ReadKey, TypeOK
    <3>2. byID[c.id] \in Key /\ CopyOf(byID[c.id])
      BY <2>2, <2>4 DEF TypeOK, StoreInv, Faithful
    <3>3. /\ d \in Call /\ d.pc = "read" /\ d.rec = byID[c.id]
          /\ d.raw = c.raw /\ d.id = c.id /\ d.err = c.err /\ d.wasLive = c.wasLive
      BY <3>1, <3>2, <2>2 DEF Call
    <3>4. CallOK(d)
      BY <3>2, <3>3, <2>2, <2>4 DEF CallOK
    <3> QED BY <3>3, <3>4, <2>1, CallStep
  <2> QED BY <2>3, <2>4
<1>3. ASSUME NEW p \in Procs, Decide(p) PROVE Inv'
  <2> DEFINE c == calls[p]
             d == calls'[p]
  <2>1. calls' = [calls EXCEPT ![p] = d] /\ UNCHANGED <<now, byID, byH, issued, revoked>>
    BY <1>3 DEF Decide, TypeOK
  <2>2. c \in Call /\ CallOK(c) /\ c.pc = "read"
    BY <1>3 DEF Decide, TypeOK, CallsInv
  <2>3. d = [c EXCEPT !.pc = "done", !.err = Verdict(c)]
    BY <1>3 DEF Decide, TypeOK
  <2>4. /\ Verdict(c) \in {"ok", "ErrInvalidKey", "ErrRevokedKey", "ErrExpiredKey"}
        /\ Verdict(c) = "ok" => c.rec.Hash = c.raw /\ ~c.rec.Revoked
    BY <2>2 DEF Verdict, CallOK, Key
  <2>5. d \in Call /\ CallOK(d)
    BY <2>2, <2>3, <2>4 DEF Call, CallOK
  <2> QED BY <2>5, <2>1, CallStep
<1>4. ASSUME NEW p \in Procs, Respond(p) PROVE Inv'
  <2>1. Idle \in Call /\ CallOK(Idle)
    BY IdleType DEF CallOK, Idle
  <2> QED BY <1>4, <2>1, CallStep DEF Respond
<1>5. ASSUME NEW x \in Plaintexts, NEW owner \in Owners, NEW ttl \in Lifetimes,
             Issue(x, owner, ttl)
      PROVE  Inv'
  <2> DEFINE k == NewKey(x, owner, ttl)
  <2>1. k \in Key /\ k.Hash = x /\ ~k.Revoked /\ k # NoKey
    BY NewKeyType, KeyAssumption DEF TypeOK, NewKey
  <2>2. TypeOK'
    BY <1>5, <2>1, KeyAssumption DEF Issue, TypeOK
  <2>3. \A y \in Plaintexts : issued'[y] = IF y = x THEN k ELSE issued[y]
    BY <1>5 DEF Issue, TypeOK
  <2>4. \A i \in Ids : byID'[i] = IF i = IdOf[x] THEN k ELSE byID[i]
    BY <1>5 DEF Issue, TypeOK
  <2>5. \A y \in Plaintexts : byH'[y] = IF y = x THEN IdOf[x] ELSE byH[y]
    BY <1>5 DEF Issue, TypeOK
  <2>6. UNCHANGED <<now, calls, revoked>> /\ issued[x] = NoKey
    BY <1>5 DEF Issue
  <2>7. StoreInv'
    <3>1. IssuedFresh' /\ Indexed'
      BY <2>1, <2>3, <2>5 DEF StoreInv, IssuedFresh, Indexed
    <3>2. \A r \in Key : CopyOf(r) => CopyOf(r)'
      BY <2>3, <2>6 DEF CopyOf, Key
    <3>3. /\ issued'[k.Hash] = k /\ IdOf[k.Hash] = IdOf[x]
      BY <2>1, <2>3
    <3>4. ASSUME NEW i \in Ids, byID'[i] # NoKey
          PROVE  CopyOf(byID[i])' /\ IdOf[byID'[i].Hash] = i
      <4>1. CASE i = IdOf[x]
        BY <4>1, <3>3, <2>1, <2>4 DEF CopyOf
      <4>2. CASE i # IdOf[x]
        BY <4>2, <3>2, <3>4, <2>4 DEF StoreInv, Faithful, TypeOK, CopyOf
      <4> QED BY <4>1, <4>2
    <3>5. x \notin revoked
      BY <2>6 DEF StoreInv, RevokedIssued
    <3>6. RevokedMarked' /\ RevokedIssued'
      BY <3>5, <2>1, <2>3, <2>4, <2>6 DEF StoreInv, RevokedMarked, RevokedIssued, TypeOK
    <3> QED BY <3>1, <3>4, <3>6 DEF StoreInv, Faithful
  <2>8. ASSUME NEW q \in Procs PROVE CallOK(calls[q])'
    <3> DEFINE c == calls[q]
    <3>1. c \in Call /\ CallOK(c) /\ calls'[q] = c
      BY <2>6 DEF TypeOK, CallsInv
    <3>2. \A r \in Key : CopyOf(r) => CopyOf(r)'
      BY <2>3, <2>6 DEF CopyOf, Key
    <3>3. c.pc \in {"found", "read"} => c.raw # x /\ c.id \in Ids
      BY <3>1, <2>6, KeyAssumption DEF CallOK
    <3>4. c.pc \in {"found", "read"} /\ byID'[c.id] # NoKey /\ byID'[c.id].Hash = c.raw
          => byID'[c.id] = byID[c.id]
      BY <3>3, <2>1, <2>4
    <3> QED BY <3>1, <3>2, <3>3, <3>4, <2>3, <2>6 DEF CallOK, Good, IsExpired, Idle
  <2> QED BY <2>2, <2>7, <2>8 DEF CallsInv
<1>6. ASSUME NEW id \in Ids, Revoke(id) PROVE Inv'
  <2> DEFINE k == byID[id]
  <2>1. k \in Key /\ k # NoKey /\ UNCHANGED <<now, byH, calls, issued>>
        /\ revoked' = revoked \cup {k.Hash}
    BY <1>6 DEF Revoke, TypeOK
  <2>2. [k EXCEPT !.Revoked = TRUE] \in Key /\ [k EXCEPT !.Revoked = TRUE] # NoKey
    BY <2>1, KeyAssumption DEF Key
  <2>3. \A i \in Ids : byID'[i] = IF i = id THEN [k EXCEPT !.Revoked = TRUE] ELSE byID[i]
    BY <1>6 DEF Revoke, TypeOK
  <2>4. TypeOK'
    BY <1>6, <2>1, <2>2 DEF Revoke, TypeOK, Key
  <2>5. \A i \in Ids : byID'[i] # NoKey =>
          /\ byID[i] # NoKey /\ byID'[i].Hash = byID[i].Hash /\ byID'[i].Subject = byID[i].Subject
          /\ byID'[i].ExpiresAt = byID[i].ExpiresAt /\ (byID[i].Revoked => byID'[i].Revoked)
    BY <2>1, <2>3 DEF Key
  <2>6. StoreInv'
    <3>1. IssuedFresh' /\ Indexed'
      BY <2>1 DEF StoreInv, IssuedFresh, Indexed
    <3>2. Faithful'
      BY <2>1, <2>5 DEF StoreInv, Faithful, CopyOf
    <3>3. RevokedIssued'
      BY <2>1 DEF StoreInv, RevokedIssued, Faithful, CopyOf
    <3>4. ASSUME NEW i \in Ids, byID'[i] # NoKey, byID'[i].Hash = k.Hash PROVE byID'[i].Revoked
      <4>1. i = id
        BY <3>4, <2>1, <2>5 DEF StoreInv, Faithful
      <4> QED BY <4>1, <2>1, <2>3 DEF Key
    <3>5. RevokedMarked'
      BY <3>4, <2>1, <2>5 DEF StoreInv, RevokedMarked
    <3> QED BY <3>1, <3>2, <3>3, <3>5 DEF StoreInv
  <2>7. ASSUME NEW q \in Procs PROVE CallOK(calls[q])'
    <3> DEFINE c == calls[q]
    <3>1. c \in Call /\ CallOK(c) /\ calls'[q] = c
      BY <2>1 DEF TypeOK, CallsInv
    <3>2. c.pc \in {"found", "read"} => c.id \in Ids
      BY <3>1, KeyAssumption DEF CallOK
    <3>3. c.pc = "found" /\ byID'[c.id] # NoKey /\ Good(byID'[c.id], c.raw) => Good(byID[c.id], c.raw)
      BY <3>2, <2>5 DEF Good, IsExpired
    <3> QED BY <3>1, <3>2, <3>3, <2>1, <2>5 DEF CallOK, Good, IsExpired, CopyOf, Idle
  <2> QED BY <2>4, <2>6, <2>7 DEF CallsInv
<1>7. CASE Tick
  <2>1. now' = now + 1 /\ UNCHANGED <<byID, byH, calls, issued, revoked>> /\ now' \in 0 .. MaxTime
    BY <1>7, KeyAssumption DEF Tick, TypeOK
  <2>2. TypeOK' /\ StoreInv'
    BY <2>1 DEF TypeOK, StoreInv, IssuedFresh, Indexed, Faithful, RevokedMarked, RevokedIssued, CopyOf
  <2>3. \A k \in Key : IsExpired(k) => IsExpired(k)'
    BY <2>1 DEF IsExpired, Key, NoExpiry, TypeOK
  <2>4. ASSUME NEW q \in Procs PROVE CallOK(calls[q])'
    <3> DEFINE c == calls[q]
    <3>1. c \in Call /\ CallOK(c) /\ calls'[q] = c
      BY <2>1 DEF TypeOK, CallsInv
    <3>2. c.pc = "found" /\ byID[c.id] # NoKey => byID[c.id] \in Key
      BY <3>1, KeyAssumption DEF CallOK, TypeOK
    <3> QED BY <3>1, <3>2, <2>1, <2>3 DEF CallOK, Good, CopyOf, Idle
  <2> QED BY <2>2, <2>4 DEF CallsInv
<1>8. CASE UNCHANGED vars
  BY <1>8 DEF vars, TypeOK, StoreInv, IssuedFresh, Indexed, Faithful, RevokedMarked,
              RevokedIssued, CallsInv, CallOK, CopyOf, Good, IsExpired
<1> QED BY <1>1, <1>2, <1>3, <1>4, <1>5, <1>6, <1>7, <1>8 DEF Next

\* The invariant holds in every reachable state.
LEMMA Invariance == Spec => []Inv
BY InitInv, StepInv, PTL DEF Spec

-----------------------------------------------------------------------------
(* The results.                                                              *)

\* The store's indexes and the calls under way keep their types; in particular GetByID is
\* always given an ID and never a hash.
THEOREM TypeCorrect == Spec => []TypeOK
<1>1. Inv => TypeOK
  BY DEF Inv
<1> QED BY <1>1, Invariance, PTL

\* Nobody is given another key's identity: what Verify returns is the record issued for the
\* presented plaintext, whatever the IDs are and whoever replaces records meanwhile.
THEOREM NoConfusion == Spec => []AcceptedIsPresented
<1>1. Inv => AcceptedIsPresented
  <2> SUFFICES ASSUME Inv, NEW p \in Procs, calls[p].err = "ok"
               PROVE  calls[p].rec = issued[calls[p].raw]
    BY DEF AcceptedIsPresented
  <2> DEFINE c == calls[p]
             k == issued[c.raw]
  <2>1. /\ c.rec \in Key /\ c.rec.Hash = c.raw /\ ~c.rec.Revoked /\ c.raw \in Plaintexts
        /\ k # NoKey /\ c.rec.Subject = k.Subject /\ c.rec.ExpiresAt = k.ExpiresAt
    BY DEF Inv, CallsInv, CallOK, CopyOf
  <2>2. k \in Key /\ k.Hash = c.raw /\ ~k.Revoked
    BY <2>1 DEF Inv, TypeOK, StoreInv, IssuedFresh
  <2> QED BY <2>1, <2>2 DEF Key
<1> QED BY <1>1, Invariance, PTL

-----------------------------------------------------------------------------
(* No key is lost but to a collision of IDs.  Inv says what an accepted      *)
(* record is; this says what became of a key that is not accepted.           *)

\* Another issued key has the ID of x.
Collided(x) == \E y \in Plaintexts \ {x} : issued[y] # NoKey /\ IdOf[y] = IdOf[x]

\* A reason to refuse the issued key x.
Excused(x) == x \in revoked \/ IsExpired(issued[x]) \/ Collided(x)

\* A record is overwritten, never removed, and marked only by Revoke.
Kept == \A x \in Plaintexts : issued[x] # NoKey => byID[IdOf[x]] # NoKey
MarkRevoked(k) == k.Revoked => k.Hash \in revoked

\* What a call has read has the ID of its key, and its refusal a reason that stays one.
RefusalOK(c) ==
  /\ c.wasIssued => c.raw \in Plaintexts /\ issued[c.raw] # NoKey
  /\ c.pc = "read" => IdOf[c.rec.Hash] = IdOf[c.raw] /\ MarkRevoked(c.rec)
  /\ c.pc = "done" /\ c.wasIssued /\ c.err # "ok" => Excused(c.raw)

WorksInv ==
  /\ Kept
  /\ \A i \in Ids : byID[i] # NoKey => MarkRevoked(byID[i])
  /\ \A p \in Procs : RefusalOK(calls[p])

\* Issue, Revoke and the clock take no reason away.
LEMMA ExcusedStays ==
  ASSUME Inv, NEW x \in Plaintexts, issued[x] # NoKey, Excused(x),
         \A y \in Plaintexts : issued[y] # NoKey => issued'[y] = issued[y],
         revoked \subseteq revoked', now' \in Int, now <= now'
  PROVE  Excused(x)'
<1>1. CASE x \in revoked
  BY <1>1 DEF Excused
<1>2. CASE IsExpired(issued[x])
  <2>1. issued[x] \in Key /\ now \in Int /\ issued'[x] = issued[x]
    BY DEF Inv, TypeOK
  <2> QED BY <1>2, <2>1 DEF Excused, IsExpired, Key, NoExpiry
<1>3. CASE Collided(x)
  BY <1>3 DEF Collided, Excused
<1> QED BY <1>1, <1>2, <1>3 DEF Excused

\* A step that leaves the calls alone and adds to the history keeps every call's reason.
LEMMA RefusalsStay ==
  ASSUME Inv, WorksInv, UNCHANGED calls,
         \A y \in Plaintexts : issued[y] # NoKey => issued'[y] = issued[y],
         revoked \subseteq revoked', now' \in Int, now <= now'
  PROVE  \A p \in Procs : RefusalOK(calls[p])'
<1> SUFFICES ASSUME NEW p \in Procs PROVE RefusalOK(calls[p])'
  OBVIOUS
<1>1. RefusalOK(calls[p]) /\ calls'[p] = calls[p]
  BY DEF WorksInv
<1>2. calls[p].pc = "done" /\ calls[p].wasIssued /\ calls[p].err # "ok" => Excused(calls[p].raw)'
  BY <1>1, ExcusedStays DEF RefusalOK
<1> QED BY <1>1, <1>2 DEF RefusalOK, MarkRevoked

\* A step of one call that leaves the store alone.
LEMMA RefusalStep ==
  ASSUME Inv, WorksInv, NEW p \in Procs, UNCHANGED <<now, byID, byH, issued, revoked>>
  PROVE  \A d : RefusalOK(d) /\ calls' = [calls EXCEPT ![p] = d] => WorksInv'
<1> SUFFICES ASSUME NEW d, RefusalOK(d), calls' = [calls EXCEPT ![p] = d] PROVE WorksInv'
  OBVIOUS
<1>1. \A q \in Procs : RefusalOK(calls'[q])
  BY DEF Inv, TypeOK, WorksInv
<1>2. \A q \in Procs : RefusalOK(calls[q])'
  BY <1>1 DEF RefusalOK, Excused, Collided, MarkRevoked, IsExpired
<1>3. Kept' /\ \A i \in Ids : byID'[i] # NoKey => MarkRevoked(byID[i])'
  BY DEF WorksInv, Kept, MarkRevoked
<1> QED BY <1>2, <1>3 DEF WorksInv

\* In the store, the ID of an issued key leads to its record or to a collider's.
LEMMA KeptOrCollided ==
  ASSUME Inv, NEW x \in Plaintexts, NEW k \in Key, CopyOf(k), IdOf[k.Hash] = IdOf[x], k.Hash # x
  PROVE  Collided(x)
BY DEF Collided, CopyOf, Key

LEMMA StepWorks == Inv /\ WorksInv /\ [Next]_vars => WorksInv'
<1> SUFFICES ASSUME Inv, WorksInv, [Next]_vars PROVE WorksInv'
  OBVIOUS
<1>1. ASSUME NEW p \in Procs, NEW x \in Plaintexts \cup {NoPlaintext},
             NEW b \in Plaintexts \cup {NoPlaintext}, FindHash(p, x, b)
      PROVE  WorksInv'
  <2> DEFINE raw == ExtractKey(x, b)
             d == calls'[p]
  <2>1. raw \in Plaintexts \cup {NoPlaintext}
    BY DEF ExtractKey
  <2>2. calls' = [calls EXCEPT ![p] = d] /\ UNCHANGED <<now, byID, byH, issued, revoked>>
    BY <1>1 DEF FindHash, Inv, TypeOK
  <2>3. CASE raw = NoPlaintext
    <3>1. d = [Idle EXCEPT !.pc = "done", !.err = "ErrInvalidKey"]
      BY <1>1, <2>3 DEF FindHash, Presented, Inv, TypeOK
    <3>2. RefusalOK(d)
      BY <3>1 DEF Idle, RefusalOK
    <3> QED BY <2>2, <3>2, RefusalStep
  <2>4. CASE raw \in Plaintexts /\ byH[raw] = NoId
    <3>1. issued[raw] = NoKey /\ raw # NoPlaintext
      BY <2>4, KeyAssumption DEF Inv, StoreInv, Indexed
    <3>2. d.pc = "done" /\ ~d.wasIssued
      BY <1>1, <2>4, <3>1 DEF FindHash, Presented, Idle, Inv, TypeOK
    <3> QED BY <2>2, <3>2, RefusalStep DEF RefusalOK
  <2>5. CASE raw \in Plaintexts /\ byH[raw] # NoId
    <3>1. issued[raw] # NoKey /\ raw # NoPlaintext
      BY <2>5, KeyAssumption DEF Inv, StoreInv, Indexed
    <3>2. d.pc = "found" /\ d.raw = raw
      BY <1>1, <2>5, <3>1 DEF FindHash, Presented, Idle, Inv, TypeOK
    <3> QED BY <2>2, <2>5, <3>1, <3>2, RefusalStep DEF RefusalOK
  <2> QED BY <2>1, <2>3, <2>4, <2>5
<1>2. ASSUME NEW p \in Procs, ReadKey(p) PROVE WorksInv'
  <2> DEFINE c == calls[p]
             d == calls'[p]
  <2>1. calls' = [calls EXCEPT ![p] = d] /\ UNCHANGED <<now, byID, byH, issued, revoked>>
    BY <1>2 DEF ReadKey, Inv, TypeOK
  <2>2. /\ c \in Call /\ c.pc = "found" /\ c.raw \in Plaintexts /\ issued[c.raw] # NoKey
        /\ c.id = IdOf[c.raw] /\ c.id \in Ids
    BY <1>2, KeyAssumption DEF ReadKey, Inv, TypeOK, CallsInv, CallOK
  <2>3. byID[c.id] # NoKey
    BY <2>2 DEF WorksInv, Kept
  <2>4. byID[c.id] \in Key /\ IdOf[byID[c.id].Hash] = c.id /\ MarkRevoked(byID[c.id])
    BY <2>2, <2>3 DEF Inv, TypeOK, StoreInv, Faithful, WorksInv
  <2>5. d = [c EXCEPT !.pc = "read", !.rec = byID[c.id]]
    BY <1>2, <2>3 DEF ReadKey, Inv, TypeOK
  <2>6. d.pc = "read" /\ d.rec = byID[c.id] /\ d.raw = c.raw
    BY <2>2, <2>5 DEF Call
  <2>7. RefusalOK(d)
    BY <2>2, <2>4, <2>6 DEF RefusalOK
  <2> QED BY <2>1, <2>7, RefusalStep
<1>3. ASSUME NEW p \in Procs, Decide(p) PROVE WorksInv'
  <2> DEFINE c == calls[p]
             d == calls'[p]
  <2>1. calls' = [calls EXCEPT ![p] = d] /\ UNCHANGED <<now, byID, byH, issued, revoked>>
    BY <1>3 DEF Decide, Inv, TypeOK
  <2>2. /\ c \in Call /\ c.pc = "read" /\ c.raw \in Plaintexts /\ issued[c.raw] # NoKey
        /\ c.rec \in Key /\ CopyOf(c.rec)
    BY <1>3 DEF Decide, Inv, TypeOK, CallsInv, CallOK
  <2>3. IdOf[c.rec.Hash] = IdOf[c.raw] /\ MarkRevoked(c.rec)
    BY <2>2 DEF WorksInv, RefusalOK
  <2>4. d.pc = "done" /\ d.err = Verdict(c) /\ d.raw = c.raw
    BY <1>3, <2>2 DEF Decide, Inv, TypeOK, Call
  <2>5. Verdict(c) # "ok" => Excused(c.raw)
    <3>1. CASE c.rec.Hash # c.raw
      BY <3>1, <2>2, <2>3, KeptOrCollided DEF Excused
    <3>2. CASE c.rec.Hash = c.raw /\ c.rec.Revoked
      BY <3>2, <2>3 DEF Excused, MarkRevoked
    <3>3. CASE c.rec.Hash = c.raw /\ ~c.rec.Revoked
      <4>1. Verdict(c) # "ok" => IsExpired(c.rec)
        BY <3>3 DEF Verdict
      <4>2. IsExpired(c.rec) => IsExpired(issued[c.raw])
        BY <3>3, <2>2 DEF IsExpired, CopyOf
      <4> QED BY <4>1, <4>2 DEF Excused
    <3> QED BY <3>1, <3>2, <3>3
  <2>6. RefusalOK(d)
    BY <2>2, <2>4, <2>5 DEF RefusalOK
  <2> QED BY <2>1, <2>6, RefusalStep
<1>4. ASSUME NEW p \in Procs, Respond(p) PROVE WorksInv'
  <2>1. RefusalOK(Idle)
    BY DEF RefusalOK, Idle
  <2> QED BY <1>4, <2>1, RefusalStep DEF Respond
<1>5. ASSUME NEW x \in Plaintexts, NEW owner \in Owners, NEW ttl \in Lifetimes,
             Issue(x, owner, ttl)
      PROVE  WorksInv'
  <2> DEFINE k == NewKey(x, owner, ttl)
  <2>1. k \in Key /\ k.Revoked = FALSE /\ k # NoKey
    BY NewKeyType, KeyAssumption DEF Inv, TypeOK, NewKey
  <2>2. \A y \in Plaintexts : issued'[y] = IF y = x THEN k ELSE issued[y]
    BY <1>5 DEF Issue, Inv, TypeOK
  <2>3. \A i \in Ids : byID'[i] = IF i = IdOf[x] THEN k ELSE byID[i]
    BY <1>5 DEF Issue, Inv, TypeOK
  <2>4. UNCHANGED <<now, calls, revoked>> /\ issued[x] = NoKey /\ now \in Int
    BY <1>5 DEF Issue, Inv, TypeOK
  <2>5. \A p \in Procs : RefusalOK(calls[p])'
    BY <2>2, <2>4, RefusalsStay
  <2> HIDE DEF k
  <2>6. Kept'
    BY <2>1, <2>2, <2>3, KeyAssumption DEF Kept, WorksInv
  <2>7. \A i \in Ids : byID'[i] # NoKey => MarkRevoked(byID[i])'
    BY <2>1, <2>3, <2>4 DEF MarkRevoked, WorksInv
  <2> QED BY <2>5, <2>6, <2>7 DEF WorksInv
<1>6. ASSUME NEW id \in Ids, Revoke(id) PROVE WorksInv'
  <2> DEFINE k == byID[id]
             r == [k EXCEPT !.Revoked = TRUE]
  <2>1. k \in Key /\ k # NoKey /\ UNCHANGED <<now, byH, calls, issued>>
        /\ revoked' = revoked \cup {k.Hash} /\ now \in Int
    BY <1>6 DEF Revoke, Inv, TypeOK
  <2>2. r.Hash = k.Hash /\ r # NoKey
    BY <2>1, KeyAssumption DEF Key
  <2>3. \A i \in Ids : byID'[i] = IF i = id THEN r ELSE byID[i]
    BY <1>6 DEF Revoke, Inv, TypeOK
  <2>4. \A p \in Procs : RefusalOK(calls[p])'
    BY <2>1, RefusalsStay
  <2> HIDE DEF r
  <2>5. Kept'
    BY <2>1, <2>2, <2>3, KeyAssumption DEF Kept, WorksInv
  <2>6. \A i \in Ids : byID'[i] # NoKey => MarkRevoked(byID[i])'
    BY <2>1, <2>2, <2>3 DEF MarkRevoked, WorksInv
  <2> QED BY <2>4, <2>5, <2>6 DEF WorksInv
<1>7. CASE Tick
  <2>1. now' \in Int /\ now <= now' /\ UNCHANGED <<byID, byH, calls, issued, revoked>>
    BY <1>7, KeyAssumption DEF Tick, Inv, TypeOK
  <2>2. \A p \in Procs : RefusalOK(calls[p])'
    BY <2>1, RefusalsStay
  <2> QED BY <2>1, <2>2 DEF WorksInv, Kept, MarkRevoked
<1>8. CASE UNCHANGED vars
  BY <1>8 DEF vars, WorksInv, Kept, MarkRevoked, RefusalOK, Excused, Collided, IsExpired
<1> QED BY <1>1, <1>2, <1>3, <1>4, <1>5, <1>6, <1>7, <1>8 DEF Next

\* An issued key that is neither revoked nor expired is refused only if another key was issued
\* with the same 16 digits: no order of Issue, Revoke and the two lookups of Verify loses one.
THEOREM IssuedKeysWork == Spec => []IssuedKeyWorks
<1>1. Init => WorksInv
  BY KeyAssumption DEF Init, WorksInv, Kept, RefusalOK, Idle
<1>2. WorksInv => IssuedKeyWorks
  BY DEF WorksInv, RefusalOK, Excused, Collided, IssuedKeyWorks
<1> QED BY <1>1, <1>2, StepWorks, Invariance, PTL DEF Spec

-----------------------------------------------------------------------------
(* Refinement of CredentialCheck.                                            *)

LiveKeys == {x \in Plaintexts : Live(x)}

\* Under the invariant a live key is one whose record is in its place, and no revoked key is.
LEMMA LiveIs ==
  ASSUME Inv, NEW x \in Plaintexts
  PROVE  /\ Live(x) <=> issued[x] # NoKey /\ byID[IdOf[x]] # NoKey /\ Good(byID[IdOf[x]], x)
         /\ Live(x) => x \notin revoked
BY KeyAssumption DEF Inv, TypeOK, StoreInv, Indexed, RevokedMarked, Live, Good

\* The abstract answer for a key follows from whether the store would accept it.
LEMMA LiveAnswer ==
  ASSUME NEW x \in Plaintexts
  PROVE  /\ CC!Pending(x, x \in LiveKeys) = CC!Pending(x, Live(x))
         /\ ~Live(x) => CC!Answered(x, x \in LiveKeys) = CC!Answered(x, FALSE)
<1>1. (x \in LiveKeys) = Live(x)
  <2>1. Live(x) \in BOOLEAN
    BY DEF Live
  <2>2. x \in LiveKeys <=> Live(x)
    BY DEF LiveKeys
  <2>3. CASE Live(x)
    <3>1. Live(x) = TRUE
      BY <2>1, <2>3
    <3>2. (x \in LiveKeys) = TRUE
      BY <2>2, <2>3
    <3> QED BY <3>1, <3>2
  <2>4. CASE ~Live(x)
    <3>1. Live(x) = FALSE
      BY <2>1, <2>4
    <3>2. (x \in LiveKeys) = FALSE
      BY <2>2, <2>4
    <3> QED BY <3>1, <3>2
  <2> QED BY <2>3, <2>4
<1>2. ~Live(x) => (x \in LiveKeys) = FALSE
  BY DEF LiveKeys
<1> QED BY <1>1, <1>2, Zenon

\* A step that only changes calls leaves the live keys alone.
LEMMA LiveKept ==
  ASSUME UNCHANGED <<now, byID, byH>>
  PROVE  UNCHANGED LiveKeys
BY DEF LiveKeys, Live, IsExpired

\* The abstract check of a call.
LEMMA CheckOfIs ==
  ASSUME NEW c
  PROVE  /\ c.raw = NoPlaintext => CheckOf(c) = CC!NoCheck
         /\ c.raw # NoPlaintext /\ c.pc \in {"found", "read"} =>
              CheckOf(c) = CC!Pending(c.raw, c.wasLive)
         /\ c.raw # NoPlaintext /\ c.pc \notin {"found", "read"} =>
              CheckOf(c) = CC!Answered(c.raw, c.err = "ok")
BY DEF CheckOf, CC!NoCheck, CC!Pending, CC!Answered

\* A step of one goroutine changes only its own abstract check.
LEMMA ChecksChange ==
  ASSUME Inv, NEW p \in Procs
  PROVE  \A d : calls' = [calls EXCEPT ![p] = d] =>
           [q \in Procs |-> CheckOf(calls[q])]'
             = [[q \in Procs |-> CheckOf(calls[q])] EXCEPT ![p] = CheckOf(d)]
<1>1. \A q \in Procs : CheckOf(calls[q])' = CheckOf(calls'[q])
  BY DEF CheckOf
<1> QED BY <1>1 DEF Inv, TypeOK

\* Every step is a step of CredentialCheck, or changes nothing it sees.
LEMMA StepRefines == Inv /\ Inv' /\ [Next]_vars => [CC!Next]_(CC!vars)
<1> SUFFICES ASSUME Inv, Inv', [Next]_vars PROVE CC!Next \/ UNCHANGED CC!vars
  OBVIOUS
<1> DEFINE checks == [q \in Procs |-> CheckOf(calls[q])]
<1> USE DEF CC!vars
<1>0. LiveKeys' \cap revoked' = {}
  BY KeyAssumption DEF Inv, TypeOK, StoreInv, Indexed, RevokedMarked, Live, LiveKeys
<1>1. ASSUME NEW p \in Procs, NEW x \in Plaintexts \cup {NoPlaintext},
             NEW b \in Plaintexts \cup {NoPlaintext}, FindHash(p, x, b)
      PROVE  CC!Next \/ UNCHANGED CC!vars
  <2> DEFINE raw == ExtractKey(x, b)
  <2>1. raw \in Plaintexts \cup {NoPlaintext}
    BY DEF ExtractKey
  <2>2. UNCHANGED <<now, byID, byH, issued, revoked>> /\ UNCHANGED LiveKeys
    BY <1>1, LiveKept DEF FindHash
  <2>3. calls[p] = Idle /\ CheckOf(calls[p]) = CC!NoCheck
    <3>1. calls[p] = Idle
      BY <1>1 DEF FindHash, Inv, CallsInv, CallOK
    <3> QED BY <3>1, CheckOfIs DEF Idle
  <2>4. CASE raw = NoPlaintext
    <3>1. CheckOf(calls'[p]) = CC!NoCheck
      BY <1>1, <2>4 DEF FindHash, Presented, Idle, CheckOf, CC!NoCheck, Inv, TypeOK
    <3>2. checks' = checks
      BY <3>1, <2>3, <1>1 DEF FindHash, Inv, TypeOK
    <3> QED BY <3>2, <2>2 DEF LiveKeys
  <2>5. CASE raw \in Plaintexts /\ byH[raw] = NoId
    <3>1. ~Live(raw) /\ raw # NoPlaintext
      BY <2>5, KeyAssumption DEF Live
    <3>2. CheckOf(calls'[p]) = CC!Answered(raw, FALSE)
      BY <1>1, <2>5, <3>1 DEF FindHash, Presented, Idle, CheckOf, CC!Answered, Inv, TypeOK
    <3>3. checks' = [checks EXCEPT ![p] = CC!Answered(raw, FALSE)]
      BY <3>2, <1>1, ChecksChange DEF FindHash, Inv, TypeOK
    <3>4. CC!CheckAtOnce(p, raw)
      <4>1. checks' = [checks EXCEPT ![p] = CC!Answered(raw, raw \in LiveKeys)]
        BY <3>1, <3>3, <2>5, LiveAnswer
      <4> QED BY <4>1, <2>2, <2>3 DEF CC!CheckAtOnce, LiveKeys
    <3> QED BY <3>4, <2>5 DEF CC!Next
  <2>6. CASE raw \in Plaintexts /\ byH[raw] # NoId
    <3>1. raw # NoPlaintext
      BY <2>6, KeyAssumption
    <3>2. CheckOf(calls'[p]) = CC!Pending(raw, Live(raw))
      BY <1>1, <2>6, <3>1 DEF FindHash, Presented, Idle, CheckOf, CC!Pending, Inv, TypeOK
    <3>3. checks' = [checks EXCEPT ![p] = CC!Pending(raw, raw \in LiveKeys)]
      <4>1. checks' = [checks EXCEPT ![p] = CC!Pending(raw, Live(raw))]
        BY <3>2, <1>1, ChecksChange DEF FindHash, Inv, TypeOK
      <4> QED BY <4>1, <2>6, LiveAnswer
    <3>4. CC!Begin(p, raw)
      BY <3>3, <2>2, <2>3 DEF CC!Begin, LiveKeys
    <3> QED BY <3>4, <2>6 DEF CC!Next
  <2> QED BY <2>1, <2>4, <2>5, <2>6
<1>2. ASSUME NEW p \in Procs, ReadKey(p) PROVE CC!Next \/ UNCHANGED CC!vars
  <2> DEFINE c == calls[p]
  <2>1. UNCHANGED <<now, byID, byH, issued, revoked>> /\ UNCHANGED LiveKeys
    BY <1>2, LiveKept DEF ReadKey
  <2>2. /\ c \in Call /\ c.pc = "found" /\ c.raw \in Plaintexts /\ c.id = IdOf[c.raw]
        /\ c.raw # NoPlaintext /\ CheckOf(c) = CC!Pending(c.raw, c.wasLive)
    BY <1>2, CheckOfIs, KeyAssumption DEF ReadKey, Inv, TypeOK, CallsInv, CallOK
  <2>3. CASE byID[c.id] = NoKey
    <3> DEFINE d == [c EXCEPT !.pc = "done", !.err = "ErrInvalidKey"]
    <3>1. calls' = [calls EXCEPT ![p] = d]
      BY <1>2, <2>3 DEF ReadKey
    <3>2. CheckOf(d) = CC!Answered(c.raw, FALSE)
      <4>1. d.raw = c.raw /\ d.pc = "done" /\ (d.err = "ok") = FALSE
        BY <2>2 DEF Call
      <4> QED BY <4>1, <2>2, CheckOfIs
    <3>3. c.raw \notin LiveKeys
      BY <2>2, <2>3, LiveIs DEF LiveKeys
    <3>4. checks' = [checks EXCEPT ![p] = CC!Answered(c.raw, FALSE)]
      BY <3>1, <3>2, ChecksChange
    <3>5. CC!Reject(p)
      <4>1. checks[p].st = "pending" /\ checks[p].cred = c.raw
        BY <2>2 DEF CC!Pending
      <4> QED BY <4>1, <3>3, <3>4, <2>1 DEF CC!Reject, LiveKeys
    <3> QED BY <3>5 DEF CC!Next
  <2>4. CASE byID[c.id] # NoKey
    <3> DEFINE d == [c EXCEPT !.pc = "read", !.rec = byID[c.id]]
    <3>1. calls' = [calls EXCEPT ![p] = d]
      BY <1>2, <2>4 DEF ReadKey
    <3>2. CheckOf(d) = CheckOf(c)
      <4>1. d.raw = c.raw /\ d.pc = "read" /\ d.wasLive = c.wasLive
        BY <2>2 DEF Call
      <4> QED BY <4>1, <2>2, CheckOfIs
    <3>3. checks' = checks
      BY <3>1, <3>2, ChecksChange
    <3> QED BY <3>3, <2>1 DEF LiveKeys
  <2> QED BY <2>3, <2>4
<1>3. ASSUME NEW p \in Procs, Decide(p) PROVE CC!Next \/ UNCHANGED CC!vars
  <2> DEFINE c == calls[p]
             d == [c EXCEPT !.pc = "done", !.err = Verdict(c)]
  <2>1. UNCHANGED <<now, byID, byH, issued, revoked>> /\ UNCHANGED LiveKeys
    BY <1>3, LiveKept DEF Decide
  <2>2. /\ c \in Call /\ CallOK(c) /\ c.pc = "read" /\ c.raw \in Plaintexts /\ c.id = IdOf[c.raw]
        /\ c.raw # NoPlaintext /\ CheckOf(c) = CC!Pending(c.raw, c.wasLive)
    BY <1>3, CheckOfIs, KeyAssumption DEF Decide, Inv, TypeOK, CallsInv, CallOK
  <2>3. calls' = [calls EXCEPT ![p] = d] /\ d.raw = c.raw /\ d.pc = "done" /\ d.err = Verdict(c)
    BY <1>3, <2>2 DEF Decide, Inv, TypeOK, Call
  <2>4. c.rec \in Key
    BY <2>2 DEF CallOK
  <2>5. CASE Verdict(c) = "ok"
    <3>1. c.wasLive
      BY <2>2, <2>4, <2>5 DEF Verdict, CallOK, Good
    <3>2. CheckOf(d) = CC!Answered(c.raw, TRUE)
      <4>1. (d.err = "ok") = TRUE
        BY <2>3, <2>5
      <4> QED BY <4>1, <2>2, <2>3, CheckOfIs
    <3>3. checks' = [checks EXCEPT ![p] = CC!Answered(c.raw, TRUE)]
      BY <3>2, <2>3, ChecksChange
    <3>4. CC!Accept(p)
      <4>1. checks[p].st = "pending" /\ checks[p].cred = c.raw /\ checks[p].wasLive = c.wasLive
        BY <2>2 DEF CC!Pending
      <4> QED BY <4>1, <3>1, <3>3, <2>1 DEF CC!Accept, LiveKeys
    <3> QED BY <3>4 DEF CC!Next
  <2>6. CASE Verdict(c) # "ok"
    <3>1. ~Live(c.raw)
      <4> SUFFICES ASSUME Live(c.raw) PROVE FALSE
        OBVIOUS
      <4> DEFINE k == byID[c.id]
      <4>1. k # NoKey /\ k.Hash = c.raw /\ ~k.Revoked /\ ~IsExpired(k) /\ c.id \in Ids
        BY <2>2, LiveIs, KeyAssumption DEF Good
      <4>2. c.rec.Hash = c.raw /\ ~c.rec.Revoked
        BY <4>1, <2>2 DEF CallOK
      <4>3. k.ExpiresAt = c.rec.ExpiresAt
        BY <4>1, <4>2, <2>2 DEF CallOK, CopyOf, Inv, StoreInv, Faithful
      <4>4. ~IsExpired(c.rec)
        BY <4>1, <4>3 DEF IsExpired
      <4> QED BY <4>2, <4>4, <2>6 DEF Verdict
    <3>2. CheckOf(d) = CC!Answered(c.raw, FALSE)
      <4>1. (d.err = "ok") = FALSE
        BY <2>3, <2>6
      <4> QED BY <4>1, <2>2, <2>3, CheckOfIs
    <3>3. checks' = [checks EXCEPT ![p] = CC!Answered(c.raw, FALSE)]
      BY <3>2, <2>3, ChecksChange
    <3>4. CC!Reject(p)
      <4>1. checks[p].st = "pending" /\ checks[p].cred = c.raw
        BY <2>2 DEF CC!Pending
      <4> QED BY <4>1, <3>1, <3>3, <2>1 DEF CC!Reject, LiveKeys
    <3> QED BY <3>4 DEF CC!Next
  <2> QED BY <2>5, <2>6
<1>4. ASSUME NEW p \in Procs, Respond(p) PROVE CC!Next \/ UNCHANGED CC!vars
  <2> DEFINE c == calls[p]
  <2>1. UNCHANGED <<now, byID, byH, issued, revoked>> /\ UNCHANGED LiveKeys
    BY <1>4, LiveKept DEF Respond
  <2>2. c.pc = "done" /\ checks' = [checks EXCEPT ![p] = CC!NoCheck]
    <3>1. CheckOf(Idle) = CC!NoCheck
      BY CheckOfIs DEF Idle
    <3> QED BY <1>4, <3>1, ChecksChange DEF Respond
  <2>3. CASE c.raw = NoPlaintext
    BY <2>1, <2>2, <2>3, CheckOfIs DEF LiveKeys
  <2>4. CASE c.raw # NoPlaintext
    <3>1. CheckOf(c).st = "answered"
      BY <2>2, <2>4, CheckOfIs DEF CC!Answered
    <3>2. CC!Finish(p)
      BY <3>1, <2>1, <2>2 DEF CC!Finish, LiveKeys
    <3> QED BY <3>2 DEF CC!Next
  <2> QED BY <2>3, <2>4
<1>5. ASSUME NEW x \in Plaintexts, NEW owner \in Owners, NEW ttl \in Lifetimes,
             Issue(x, owner, ttl)
      PROVE  CC!Next \/ UNCHANGED CC!vars
  <2>1. LiveKeys' \subseteq Plaintexts \ revoked /\ UNCHANGED <<calls, revoked>>
    BY <1>0, <1>5 DEF Issue, LiveKeys
  <2>2. checks' = checks
    BY <2>1 DEF CheckOf
  <2>3. CC!Drift
    BY <2>1, <2>2 DEF CC!Drift, LiveKeys
  <2> QED BY <2>3 DEF CC!Next
<1>6. ASSUME NEW id \in Ids, Revoke(id) PROVE CC!Next \/ UNCHANGED CC!vars
  <2> DEFINE k == byID[id]
  <2>1. k \in Key /\ k # NoKey /\ UNCHANGED <<now, byH, calls, issued>>
        /\ revoked' = revoked \cup {k.Hash} /\ k.Hash \in Plaintexts /\ IdOf[k.Hash] = id
    BY <1>6 DEF Revoke, Inv, TypeOK, Key, StoreInv, Faithful
  <2>2. \A i \in Ids : byID'[i] = IF i = id THEN [k EXCEPT !.Revoked = TRUE] ELSE byID[i]
    BY <1>6 DEF Revoke, Inv, TypeOK
  <2>3. LiveKeys' = LiveKeys \ {k.Hash}
    <3> SUFFICES ASSUME NEW y \in Plaintexts PROVE Live(y)' <=> Live(y) /\ y # k.Hash
      BY DEF LiveKeys
    <3>1. byH'[y] = byH[y] /\ byH[y] \in Ids \cup {NoId}
      BY <2>1 DEF Inv, TypeOK
    <3>2. [k EXCEPT !.Revoked = TRUE].Revoked = TRUE /\ [k EXCEPT !.Revoked = TRUE].Hash = k.Hash
      BY <2>1 DEF Key
    <3>3. CASE byH[y] = id
      BY <3>1, <3>2, <3>3, <2>1, <2>2, KeyAssumption DEF Live
    <3>4. CASE byH[y] # id
      <4>1. y = k.Hash => byH[y] = NoId
        BY <3>4, <2>1 DEF Inv, StoreInv, Indexed
      <4> QED BY <4>1, <3>1, <3>4, <2>1, <2>2 DEF Live, IsExpired
    <3> QED BY <3>3, <3>4
  <2>4. checks' = checks
    BY <2>1 DEF CheckOf
  <2>5. CC!Revoke(k.Hash)
    BY <2>1, <2>3, <2>4 DEF CC!Revoke, LiveKeys
  <2> QED BY <2>1, <2>5 DEF CC!Next
<1>7. CASE Tick
  <2>1. LiveKeys' \subseteq Plaintexts \ revoked /\ UNCHANGED <<calls, revoked>>
    BY <1>0, <1>7 DEF Tick, LiveKeys
  <2>2. checks' = checks
    BY <2>1 DEF CheckOf
  <2>3. CC!Drift
    BY <2>1, <2>2 DEF CC!Drift, LiveKeys
  <2> QED BY <2>3 DEF CC!Next
<1>8. CASE UNCHANGED vars
  <2>1. UNCHANGED <<now, byID, byH, calls, revoked>>
    BY <1>8 DEF vars
  <2>2. UNCHANGED LiveKeys /\ checks' = checks
    BY <2>1, LiveKept DEF CheckOf
  <2> QED BY <2>1, <2>2 DEF LiveKeys
<1> QED BY <1>1, <1>2, <1>3, <1>4, <1>5, <1>6, <1>7, <1>8 DEF Next

\* The API-key service implements the abstract credential check: a request is accepted only if
\* its key was good when the request came in, refused only if it is dead when refused, and a
\* revoked key never comes back, for every set of IDs and any number of goroutines.
THEOREM Implementation == Spec => ImplementsCheck
<1>1. Init => CC!Init
  <2> SUFFICES ASSUME Init PROVE CC!Init
    OBVIOUS
  <2>1. \A p \in Procs : CheckOf(calls[p]) = CC!NoCheck
    BY CheckOfIs DEF Init, Idle
  <2> QED BY <2>1 DEF Init, CC!Init
<1>2. Inv /\ Inv' /\ [Next]_vars => [CC!Next]_(CC!vars)
  BY StepRefines
<1> QED BY <1>1, <1>2, Invariance, PTL DEF Spec, ImplementsCheck, CC!Spec
=============================================================================
