------------------------------- MODULE APIKeys -------------------------------
(***************************************************************************)
(* apikey: a Service that issues, verifies and revokes API keys over a     *)
(* MemoryStore with two indexes, and the Middleware that reads the key     *)
(* from a request.                                                         *)
(*                                                                         *)
(* Verify takes the store's lock twice, first to find the ID of the hash   *)
(* and then to copy the record, and reads the clock after that: other      *)
(* goroutines issue and revoke in between.  SHA-256 is taken as injective, *)
(* so a plaintext stands for its hash; the ID is the hash's first 16       *)
(* digits, and IdOf need not be injective.                                 *)
(***************************************************************************)
EXTENDS Integers, FiniteSets

CONSTANTS
  Procs,             \* goroutines behind the middleware
  Plaintexts,        \* the keys generateBase62 may draw; it never draws one twice
  Ids, IdOf,         \* hash[:16] of each
  Owners,            \* IssueOptions.Subject
  Lifetimes,         \* IssueOptions.ExpiresIn; 0: the key never expires
  NoPlaintext, NoId, NoKey,
  MaxTime            \* bound on the clock

NoExpiry == -1

Key == [Hash : Plaintexts, Subject : Owners, ExpiresAt : Nat \cup {NoExpiry}, Revoked : BOOLEAN]

ASSUME KeyAssumption ==
  /\ IdOf \in [Plaintexts -> Ids]
  /\ NoPlaintext \notin Plaintexts /\ NoId \notin Ids /\ NoKey \notin Key
  /\ Lifetimes \subseteq Nat /\ MaxTime \in Nat

VARIABLES
  now,      \* the clock
  byID,     \* MemoryStore.byID
  byH,      \* MemoryStore.byH: hash -> id
  calls,    \* calls[p]: the request goroutine p handles
  issued,   \* history: the record Issue returned for each plaintext
  revoked   \* history: the plaintexts whose record was revoked

vars == <<now, byID, byH, calls, issued, revoked>>

\* `raw' is the key extracted from the request, `id' and `rec' are what the store returned,
\* `err' is the outcome.  `wasLive' and `wasIssued' are history, from the start of the call.
Call ==
  [pc : {"idle", "found", "read", "done"}, raw : Plaintexts \cup {NoPlaintext},
   id : Ids \cup {NoId}, rec : Key \cup {NoKey},
   err : {"none", "ok", "ErrInvalidKey", "ErrRevokedKey", "ErrExpiredKey"},
   wasLive : BOOLEAN, wasIssued : BOOLEAN]

Idle == [pc |-> "idle", raw |-> NoPlaintext, id |-> NoId, rec |-> NoKey, err |-> "none",
         wasLive |-> FALSE, wasIssued |-> FALSE]

TypeOK ==
  /\ now \in 0 .. MaxTime
  /\ byID \in [Ids -> Key \cup {NoKey}]
  /\ byH \in [Plaintexts -> Ids \cup {NoId}]
  /\ calls \in [Procs -> Call]
  /\ issued \in [Plaintexts -> Key \cup {NoKey}]
  /\ revoked \subseteq Plaintexts

Init ==
  /\ now = 0
  /\ byID = [i \in Ids |-> NoKey]
  /\ byH = [x \in Plaintexts |-> NoId]
  /\ calls = [p \in Procs |-> Idle]
  /\ issued = [x \in Plaintexts |-> NoKey]
  /\ revoked = {}

-----------------------------------------------------------------------------
(* Issue and Revoke.                                                         *)

NewKey(x, owner, ttl) ==
  [Hash |-> x, Subject |-> owner, ExpiresAt |-> IF ttl > 0 THEN now + ttl ELSE NoExpiry,
   Revoked |-> FALSE]

\* Mutant: Save does not fill the hash index.
IssueUnindexed(x, owner, ttl) ==
  /\ issued[x] = NoKey
  /\ byID' = [byID EXCEPT ![IdOf[x]] = NewKey(x, owner, ttl)]
  /\ issued' = [issued EXCEPT ![x] = NewKey(x, owner, ttl)]
  /\ UNCHANGED <<now, byH, calls, revoked>>

\* Issue with the drawn plaintext x.  Save overwrites whatever has the same ID.
Issue(x, owner, ttl) ==
  /\ issued[x] = NoKey
  /\ byID' = [byID EXCEPT ![IdOf[x]] = NewKey(x, owner, ttl)]
  /\ byH' = [byH EXCEPT ![x] = IdOf[x]]
  /\ issued' = [issued EXCEPT ![x] = NewKey(x, owner, ttl)]
  /\ UNCHANGED <<now, calls, revoked>>

\* An unknown ID is ErrKeyNotFound and changes nothing.
Revoke(id) ==
  /\ byID[id] # NoKey
  /\ byID' = [byID EXCEPT ![id].Revoked = TRUE]
  /\ revoked' = revoked \cup {byID[id].Hash}
  /\ UNCHANGED <<now, byH, calls, issued>>

-----------------------------------------------------------------------------
(* Middleware and Verify.                                                    *)

IsExpired(k) == k.ExpiresAt # NoExpiry /\ now > k.ExpiresAt

\* A key Verify accepts if it runs now and alone.
Live(x) ==
  /\ byH[x] # NoId
  /\ byID[byH[x]] # NoKey
  /\ LET k == byID[byH[x]] IN k.Hash = x /\ ~k.Revoked /\ ~IsExpired(k)

\* extractKey: X-API-Key, and the bearer token only when that is absent.
ExtractKey(xApiKey, bearer) == IF xApiKey # NoPlaintext THEN xApiKey ELSE bearer

\* The call that presents raw, with its history.
Presented(raw) ==
  IF raw = NoPlaintext THEN Idle
  ELSE [Idle EXCEPT !.raw = raw, !.wasLive = Live(raw), !.wasIssued = issued[raw] # NoKey]

\* Mutant: GetByHash hands the hash instead of the ID to GetByID.
FindHashConfused(p, xApiKey, bearer) ==
  /\ calls[p].pc = "idle"
  /\ LET raw == ExtractKey(xApiKey, bearer)
         c   == Presented(raw)
     IN calls' = [calls EXCEPT ![p] =
          IF raw = NoPlaintext \/ byH[raw] = NoId
          THEN [c EXCEPT !.pc = "done", !.err = "ErrInvalidKey"]
          ELSE [c EXCEPT !.pc = "found", !.id = raw]]
  /\ UNCHANGED <<now, byID, byH, issued, revoked>>

\* GetByHash, its first critical section.  Without a key the request is refused at once.
FindHash(p, xApiKey, bearer) ==
  /\ calls[p].pc = "idle"
  /\ LET raw == ExtractKey(xApiKey, bearer)
         c   == Presented(raw)
     IN calls' = [calls EXCEPT ![p] =
          IF raw = NoPlaintext \/ byH[raw] = NoId
          THEN [c EXCEPT !.pc = "done", !.err = "ErrInvalidKey"]
          ELSE [c EXCEPT !.pc = "found", !.id = byH[raw]]]
  /\ UNCHANGED <<now, byID, byH, issued, revoked>>

\* GetByID: a copy of the record as it is now.
ReadKey(p) ==
  /\ calls[p].pc = "found"
  /\ LET c == calls[p] IN
     calls' = [calls EXCEPT ![p] =
       IF byID[c.id] = NoKey THEN [c EXCEPT !.pc = "done", !.err = "ErrInvalidKey"]
       ELSE [c EXCEPT !.pc = "read", !.rec = byID[c.id]]]
  /\ UNCHANGED <<now, byID, byH, issued, revoked>>

\* Mutant: the hash of the record is not compared.
VerdictNoCompare(c) ==
  CASE c.rec.Revoked                         -> "ErrRevokedKey"
    [] ~c.rec.Revoked /\ IsExpired(c.rec)     -> "ErrExpiredKey"
    [] OTHER                                 -> "ok"

\* Mutant: an expired key passes.
VerdictNoExpiry(c) ==
  CASE c.rec.Hash # c.raw                      -> "ErrInvalidKey"
    [] c.rec.Hash = c.raw /\ c.rec.Revoked     -> "ErrRevokedKey"
    [] OTHER                                   -> "ok"

\* The checks of Verify on its copy, in their order.
Verdict(c) ==
  CASE c.rec.Hash # c.raw                        -> "ErrInvalidKey"
    [] c.rec.Hash = c.raw /\ c.rec.Revoked         -> "ErrRevokedKey"
    [] c.rec.Hash = c.raw /\ ~c.rec.Revoked /\ IsExpired(c.rec) -> "ErrExpiredKey"
    [] OTHER                                     -> "ok"

Decide(p) ==
  /\ calls[p].pc = "read"
  /\ calls' = [calls EXCEPT ![p].pc = "done", ![p].err = Verdict(calls[p])]
  /\ UNCHANGED <<now, byID, byH, issued, revoked>>

Respond(p) ==
  /\ calls[p].pc = "done"
  /\ calls' = [calls EXCEPT ![p] = Idle]
  /\ UNCHANGED <<now, byID, byH, issued, revoked>>

Tick ==
  /\ now < MaxTime
  /\ now' = now + 1
  /\ UNCHANGED <<byID, byH, calls, issued, revoked>>

Next ==
  \/ \E p \in Procs :
       \/ \E x, b \in Plaintexts \cup {NoPlaintext} : FindHash(p, x, b)
       \/ ReadKey(p)
       \/ Decide(p)
       \/ Respond(p)
  \/ \E x \in Plaintexts, owner \in Owners, ttl \in Lifetimes : Issue(x, owner, ttl)
  \/ \E id \in Ids : Revoke(id)
  \/ Tick

Spec == Init /\ [][Next]_vars

-----------------------------------------------------------------------------
(* Properties.                                                               *)

\* The record the middleware puts into the context is the one issued for the presented
\* plaintext, with its owner, even when another key has the same ID and replaces the
\* record between the two lookups.
AcceptedIsPresented ==
  \A p \in Procs : calls[p].err = "ok" => calls[p].rec = issued[calls[p].raw]

\* A key that was issued before the request and is neither revoked nor expired when it is
\* answered is refused only if a later key took its ID: truncating the hash to 16 digits is
\* the one way in which a key is lost, races with Issue and Revoke are none.
IssuedKeyWorks ==
  \A p \in Procs : calls[p].pc = "done" /\ calls[p].wasIssued /\ calls[p].err # "ok" =>
    \/ calls[p].raw \in revoked
    \/ IsExpired(issued[calls[p].raw])
    \/ \E x \in Plaintexts \ {calls[p].raw} : issued[x] # NoKey /\ IdOf[x] = IdOf[calls[p].raw]

\* The service implements the abstract credential check.
CheckOf(c) ==
  CASE c.raw = NoPlaintext -> [st |-> "none"]
    [] c.raw # NoPlaintext /\ c.pc \in {"found", "read"} ->
         [st |-> "pending", cred |-> c.raw, wasLive |-> c.wasLive]
    [] OTHER -> [st |-> "answered", cred |-> c.raw, ok |-> c.err = "ok"]

CC == INSTANCE CredentialCheck WITH
        Creds <- Plaintexts, live <- {x \in Plaintexts : Live(x)}, revoked <- revoked,
        checks <- [p \in Procs |-> CheckOf(calls[p])]

ImplementsCheck == CC!Spec
=============================================================================
