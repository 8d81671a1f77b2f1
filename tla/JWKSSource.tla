----------------------------- MODULE JWKSSource -----------------------------
(***************************************************************************)
(* auth/jwks: a Source that caches the public keys of an identity provider *)
(* (the IdP) and fetches its JWKS document again when a token names an     *)
(* unknown kid or the cache is too old.                                    *)
(*                                                                         *)
(* KeyFunc is called by concurrent goroutines and holds the mutex only for *)
(* single reads and writes, so a call is split into: the first cache       *)
(* lookup, the rotation guard, the HTTP exchange (the IdP answers, the     *)
(* answer is installed), the second lookup.                                *)
(*                                                                         *)
(* The code compares ages only with cacheTTL and minRefreshDelay.  The     *)
(* model keeps ages instead of times and lets them saturate one step beyond*)
(* the largest value that is told apart; the zero time is such an age.     *)
(***************************************************************************)
EXTENDS Integers, Sequences, FiniteSets, Functions, FiniteSetsExt

CONSTANTS
  Procs,            \* goroutines calling KeyFunc or Preload
  Kids, Keys,       \* key ids and public keys
  Docs,             \* the documents the IdP publishes one after the other
  CacheTTL,         \* cacheTTL
  MinRefreshDelay,  \* minRefreshDelay
  HTTPTimeout,      \* httpClient.Timeout: no exchange takes longer
  InstallDelay,     \* for how long a decoded answer may wait for the scheduler and for s.mu
  EndpointFails,    \* TRUE: an exchange may fail (network, status, decoding)
  NoKey             \* the nil key

\* rawJWK: `ok' says whether the base64 of its numbers decodes, `key' is the key they encode.
JWK == [kid : Kids, use : {"", "sig", "enc"}, kty : {"RSA", "EC", "oct"},
        crv : {"", "P-256", "P-384", "P-521", "secp256k1"}, ok : BOOLEAN, key : Keys]

Versions == 1 .. Len(Docs)

ASSUME SourceAssumption ==
  /\ Docs \in Seq(Seq(JWK)) /\ Docs # <<>>
  /\ CacheTTL \in Nat /\ MinRefreshDelay \in Nat
  /\ HTTPTimeout \in Nat /\ InstallDelay \in Nat
  /\ EndpointFails \in BOOLEAN
  /\ NoKey \notin Keys

-----------------------------------------------------------------------------
(* Reading a document: the loop of fetch.                                    *)

\* toPublicKey, toRSA, toECDSA succeed.
Decodes(raw) ==
  \/ raw.kty = "RSA" /\ raw.ok
  \/ raw.kty = "EC" /\ raw.crv \in {"P-256", "P-384", "P-521"} /\ raw.ok

\* Entries for encryption and entries that do not decode are skipped.
UsableEntries(doc) == {i \in DOMAIN doc : doc[i].use \in {"", "sig"} /\ Decodes(doc[i])}

\* Mutant: the error of toPublicKey is ignored and the nil key stored.
ParseJWKSNilKeys(doc) ==
  LET sig == {i \in DOMAIN doc : doc[i].use \in {"", "sig"}} IN
  [kid \in {doc[i].kid : i \in sig} |->
     LET last == doc[Max({i \in sig : doc[i].kid = kid})]
     IN IF Decodes(last) THEN last.key ELSE NoKey]

\* newKeys[raw.Kid] = key, in document order: of several entries for a kid the last wins.
ParseJWKS(doc) ==
  [kid \in {doc[i].kid : i \in UsableEntries(doc)} |->
     doc[Max({i \in UsableEntries(doc) : doc[i].kid = kid})].key]

\* The keys each version of the document yields.
KeysOf == [v \in Versions |-> ParseJWKS(Docs[v])]

-----------------------------------------------------------------------------
VARIABLES
  version,     \* the document the IdP publishes now
  healthy,     \* from here on every exchange with the IdP succeeds
  keys,        \* Source.keys: kid -> key
  fetchAge,    \* time.Since(fetchAt), up to CacheTTL + 1
  refreshAge,  \* time.Since(lastRefreshAt), up to MinRefreshDelay
  calls,       \* calls[p]: the call goroutine p is in
  goneFor,     \* history: for how long each key has not been published
  attemptAge   \* history: time since refreshIfAllowed last started a fetch

vars == <<version, healthy, keys, fetchAge, refreshAge, calls, goneFor, attemptAge>>

\* How old a document can be when it is installed.
AnswerBound == HTTPTimeout + InstallDelay

GoneCap == CacheTTL + AnswerBound + 1

\* `elapsed' is the age of the exchange, `resp' the document it returned, `gone' is
\* history: goneFor of the returned key when it was looked up.
Idle == [pc |-> "idle", op |-> "none", kid |-> "", elapsed |-> 0, resp |-> 0,
         ret |-> "none", key |-> NoKey, gone |-> 0]

Call ==
  [pc : {"idle", "missed", "fetching", "served", "fetched", "done"},
   op : {"none", "KeyFunc", "Preload"}, kid : Kids \cup {""}, elapsed : 0 .. AnswerBound,
   resp : Versions \cup {0},
   ret : {"none", "ok", "refused", "fetch failed", "ErrKIDNotFound"},
   key : Keys \cup {NoKey}, gone : 0 .. GoneCap]

TypeOK ==
  /\ version \in Versions
  /\ healthy \in BOOLEAN
  /\ DOMAIN keys \subseteq Kids /\ keys \in [DOMAIN keys -> Keys]
  /\ fetchAge \in 0 .. (CacheTTL + 1)
  /\ refreshAge \in 0 .. MinRefreshDelay
  /\ calls \in [Procs -> Call]
  /\ goneFor \in [Keys -> 0 .. GoneCap]
  /\ attemptAge \in 0 .. MinRefreshDelay

\* NewSource: an empty cache; fetchAt and lastRefreshAt are the zero time.
Init ==
  /\ version = 1
  /\ healthy = ~EndpointFails
  /\ keys = [kid \in {} |-> NoKey]
  /\ fetchAge = CacheTTL + 1
  /\ refreshAge = MinRefreshDelay
  /\ calls = [p \in Procs |-> Idle]
  /\ goneFor = [k \in Keys |-> IF k \in Range(KeysOf[1]) THEN 0 ELSE GoneCap]
  /\ attemptAge = MinRefreshDelay

-----------------------------------------------------------------------------
(* KeyFunc and Preload.                                                      *)

\* Mutant: cachedKey does not look at the age of the cache.
CachedKeysForever(kid) ==
  IF kid = "" THEN Range(keys) ELSE {keys[k] : k \in DOMAIN keys \cap {kid}}

\* The keys cachedKey(kid) may return; none is a miss.  Without a kid it returns
\* whichever key the map iteration yields first.
CachedKeys(kid) ==
  IF fetchAge > CacheTTL THEN {}
  ELSE IF kid = "" THEN Range(keys)
  ELSE {keys[k] : k \in DOMAIN keys \cap {kid}}

Hit(c, k) == [c EXCEPT !.pc = "done", !.ret = "ok", !.key = k, !.gone = goneFor[k]]

Lookup(p, c, onMiss) ==
  \/ \E k \in CachedKeys(c.kid) : calls' = [calls EXCEPT ![p] = Hit(c, k)]
  \/ CachedKeys(c.kid) = {} /\ calls' = [calls EXCEPT ![p] = onMiss]

FirstLookup(p, kid) ==
  /\ calls[p].pc = "idle"
  /\ LET c == [Idle EXCEPT !.op = "KeyFunc", !.kid = kid]
     IN Lookup(p, c, [c EXCEPT !.pc = "missed"])
  /\ UNCHANGED <<version, healthy, keys, fetchAge, refreshAge, goneFor, attemptAge>>

\* Mutant: keys that were loaded once are never fetched again.
RefreshOnlyIfEmpty(p) ==
  /\ calls[p].pc = "missed"
  /\ IF refreshAge < MinRefreshDelay \/ DOMAIN keys # {}
     THEN /\ calls' = [calls EXCEPT ![p].pc = "done", ![p].ret = "refused"]
          /\ UNCHANGED attemptAge
     ELSE /\ calls' = [calls EXCEPT ![p].pc = "fetching"]
          /\ attemptAge' = 0
  /\ UNCHANGED <<version, healthy, keys, fetchAge, refreshAge, goneFor>>

\* refreshIfAllowed: read lastRefreshAt, refuse or start the exchange.
RefreshIfAllowed(p) ==
  /\ calls[p].pc = "missed"
  /\ IF refreshAge < MinRefreshDelay
     THEN /\ calls' = [calls EXCEPT ![p].pc = "done", ![p].ret = "refused"]
          /\ UNCHANGED attemptAge
     ELSE /\ calls' = [calls EXCEPT ![p].pc = "fetching"]
          /\ attemptAge' = 0
  /\ UNCHANGED <<version, healthy, keys, fetchAge, refreshAge, goneFor>>

\* Preload fetches at once, without the guard.
Preload(p) ==
  /\ calls[p].pc = "idle"
  /\ calls' = [calls EXCEPT ![p] = [Idle EXCEPT !.op = "Preload", !.pc = "fetching"]]
  /\ UNCHANGED <<version, healthy, keys, fetchAge, refreshAge, goneFor, attemptAge>>

\* The IdP answers with the document of this moment.
Serve(p) ==
  /\ calls[p].pc = "fetching"
  /\ calls' = [calls EXCEPT ![p].pc = "served", ![p].resp = version]
  /\ UNCHANGED <<version, healthy, keys, fetchAge, refreshAge, goneFor, attemptAge>>

\* The exchange fails before or after the IdP answered: nothing is recorded.
FetchFails(p) ==
  /\ calls[p].pc \in {"fetching", "served"}
  /\ ~healthy
  /\ calls' = [calls EXCEPT ![p].pc = "done", ![p].ret = "fetch failed"]
  /\ UNCHANGED <<version, healthy, keys, fetchAge, refreshAge, goneFor, attemptAge>>

\* The end of fetch: the parsed answer replaces the cache, whatever was installed meanwhile.
Install(p) ==
  /\ calls[p].pc = "served"
  /\ keys' = KeysOf[calls[p].resp]
  /\ fetchAge' = 0
  /\ refreshAge' = 0
  /\ calls' = [calls EXCEPT ![p] = IF @.op = "Preload"
                                   THEN [@ EXCEPT !.pc = "done", !.ret = "ok"]
                                   ELSE [@ EXCEPT !.pc = "fetched"]]
  /\ UNCHANGED <<version, healthy, goneFor, attemptAge>>

SecondLookup(p) ==
  /\ calls[p].pc = "fetched"
  /\ Lookup(p, calls[p], [calls[p] EXCEPT !.pc = "done", !.ret = "ErrKIDNotFound"])
  /\ UNCHANGED <<version, healthy, keys, fetchAge, refreshAge, goneFor, attemptAge>>

Return(p) ==
  /\ calls[p].pc = "done"
  /\ calls' = [calls EXCEPT ![p] = Idle]
  /\ UNCHANGED <<version, healthy, keys, fetchAge, refreshAge, goneFor, attemptAge>>

-----------------------------------------------------------------------------
(* The environment.                                                          *)

\* The IdP rotates its keys.
Rotate ==
  /\ version < Len(Docs)
  /\ version' = version + 1
  /\ goneFor' = [k \in Keys |-> IF k \in Range(KeysOf[version + 1]) THEN 0 ELSE goneFor[k]]
  /\ UNCHANGED <<healthy, keys, fetchAge, refreshAge, calls, attemptAge>>

\* The outage ends for good.
Recover ==
  /\ ~healthy
  /\ healthy' = TRUE
  /\ UNCHANGED <<version, keys, fetchAge, refreshAge, calls, goneFor, attemptAge>>

Exchanging(c) == c.pc \in {"fetching", "served"}

Older(age, cap) == IF age < cap THEN age + 1 ELSE cap

\* A tick passes.  The client's timeout covers an exchange until its body is read; the loop
\* over the entries and the wait for the lock, before the answer is installed, come on top.
\* The other steps of a call may be delayed at will.
Tick ==
  /\ \A p \in Procs : /\ calls[p].pc = "fetching" => calls[p].elapsed < HTTPTimeout
                      /\ calls[p].pc = "served" => calls[p].elapsed < AnswerBound
  /\ fetchAge' = Older(fetchAge, CacheTTL + 1)
  /\ refreshAge' = Older(refreshAge, MinRefreshDelay)
  /\ attemptAge' = Older(attemptAge, MinRefreshDelay)
  /\ goneFor' = [k \in Keys |-> IF k \in Range(KeysOf[version]) THEN 0
                                ELSE Older(goneFor[k], GoneCap)]
  /\ calls' = [p \in Procs |-> IF Exchanging(calls[p])
                               THEN [calls[p] EXCEPT !.elapsed = @ + 1] ELSE calls[p]]
  /\ UNCHANGED <<version, healthy, keys>>

Step(p) ==
  \/ RefreshIfAllowed(p) \/ Serve(p) \/ FetchFails(p) \/ Install(p) \/ SecondLookup(p)
  \/ Return(p)

Next ==
  \/ \E p \in Procs : \/ \E kid \in Kids \cup {""} : FirstLookup(p, kid)
                      \/ Preload(p)
                      \/ Step(p)
  \/ Rotate
  \/ Recover
  \/ Tick

Spec == Init /\ [][Next]_vars

\* Goroutines run, the clock advances and tokens, of whatever kid, keep arriving.
Fairness ==
  /\ \A p \in Procs : WF_vars(Step(p))
  /\ WF_vars(\E p \in Procs, kid \in Kids \cup {""} : FirstLookup(p, kid))
  /\ WF_vars(Tick)

FairSpec == Spec /\ Fairness

-----------------------------------------------------------------------------
(* Properties.                                                               *)

\* A key KeyFunc returns was published as a usable signature key at most cacheTTL plus
\* one HTTP timeout and the delay of one installation before: a withdrawn key dies out,
\* however responses overtake each other, and keys that were never published for
\* signatures are never returned.
RetiredKeysDieOut ==
  \A p \in Procs : calls[p].key # NoKey => calls[p].gone <= CacheTTL + AnswerBound

\* Once the last rotation is done and the IdP answers again, the cache comes to hold the
\* published keys and keeps them for good: refused refreshes, tokens that only name
\* withdrawn kids and stale responses that overwrite newer ones delay it, no more.
CacheConverges ==
  <>(version = Len(Docs) /\ healthy) => <>[](keys = KeysOf[Len(Docs)])

\* refreshIfAllowed starts no fetch within minRefreshDelay of the one it started before
\* (jwks.go, `but not more often than minRefreshDelay').
FetchesSpaced ==
  [][\A p \in Procs : calls[p].pc = "missed" /\ calls'[p].pc = "fetching"
                      => attemptAge >= MinRefreshDelay]_vars
=============================================================================
