----------------------------- MODULE JWTService -----------------------------
(***************************************************************************)
(* auth/jwt: a Service that signs, verifies, refreshes and revokes tokens, *)
(* called by concurrent goroutines that share one Blacklist.               *)
(*                                                                         *)
(* A call is split where another goroutine can come between two effects:   *)
(* Verify parses (and reads the clock), then asks the blacklist; Refresh   *)
(* is Verify, then Revoke of the old token, then Sign.  Sign and Revoke    *)
(* have one effect each and are one step.                                  *)
(*                                                                         *)
(* A token is the record of what its string encodes.  HMAC and RSA         *)
(* (PKCS #1 v1.5) signatures are functions of the content, ECDSA signatures*)
(* draw a fresh nonce: two tokens are the same string exactly when their   *)
(* records are equal.  The claims' Subject, Audience and Custom, which Sign*)
(* and Refresh copy, are one value `sub'.                                  *)
(***************************************************************************)
EXTENDS Integers, FiniteSets, JWTOptions

CONSTANTS
  Procs,              \* goroutines calling the service
  Services,           \* the option structs New may have been called to build
  Algs, Keys, Issuers, Subjects,
  IdPKeys,            \* keys for which the WithJWKS keyfunc finds an entry
  Foreign,            \* token strings clients hold that this service did not sign
  TicksPerSecond,     \* clock resolution: NumericDate keeps whole seconds only
  FallibleBlacklist,  \* TRUE: Blacklist calls may return errors (a remote store)
  MaxExpiry,          \* bound on WithExpiry
  MaxTime,            \* bound on the clock
  NoToken,            \* the empty string
  Nonces, NoNonce     \* the random nonces of ECDSA signatures (bounds the ECDSA tokens)

Options ==
  [signingMethod : Algs \cup {NoMethod}, signingKey : Keys \cup {NoKey},
   verifyKey : Keys \cup {NoKey}, expiry : 0 .. MaxExpiry, issuer : Issuers,
   blacklist : BOOLEAN, keyFunc : BOOLEAN]

\* jwt.NewNumericDate: times in tokens are truncated to the second.
NumericDate(t) == t - (t % TicksPerSecond)

Dates == {NumericDate(t) : t \in 0 .. (MaxTime + MaxExpiry)}

Token ==
  [alg : Algs, key : Keys, iss : Issuers, sub : Subjects, nbf : Dates, exp : Dates,
   sig : Nonces \cup {NoNonce}]

ASSUME ServiceAssumption ==
  /\ TicksPerSecond \in Nat \ {0}
  /\ MaxExpiry \in Nat /\ MaxTime \in Nat
  /\ FallibleBlacklist \in BOOLEAN
  /\ Services \subseteq Options
  /\ \A o \in Services : o.signingMethod # NoMethod => o.signingKey \in Keys
  /\ NoMethod \notin Algs /\ NoKey \notin Keys
  /\ Foreign \subseteq Token /\ NoToken \notin Token

VARIABLES
  opts,       \* Service.opts, never assigned after New
  now,        \* the wall clock, in ticks
  blacklist,  \* MemoryBlacklist.revoked
  minted,     \* the tokens Sign and Refresh returned
  calls       \* calls[p]: the call goroutine p is in

vars == <<opts, now, blacklist, minted, calls>>

-----------------------------------------------------------------------------
(* The calls. `verdict' is what the inner Verify returned, `err' what the    *)
(* call returned, `new' the token it returned.  `wasLive' is history: whether*)
(* the presented token was acceptable when the call began.                   *)

Idle == [pc |-> "idle", op |-> "none", tok |-> NoToken, verdict |-> "none",
         err |-> "none", new |-> NoToken, wasLive |-> FALSE]

Errors == {"ErrExpiredToken", "ErrInvalidToken", "ErrTokenRevoked", "ErrMissingAlgorithm",
           "ErrNoBlacklist", "unmapped"}

Call ==
  [pc : {"idle", "parsed", "verified", "revoked", "done"},
   op : {"none", "Sign", "Verify", "Refresh", "Revoke"},
   tok : Token \cup {NoToken}, verdict : {"none", "ok"} \cup Errors,
   err : {"none", "ok"} \cup Errors, new : Token \cup {NoToken}, wasLive : BOOLEAN]

TypeOK ==
  /\ opts \in Services
  /\ now \in 0 .. MaxTime
  /\ blacklist \subseteq Token
  /\ minted \subseteq Token
  /\ calls \in [Procs -> Call]

-----------------------------------------------------------------------------
(* Parsing.                                                                  *)

HMAC  == {"HS256", "HS384", "HS512"}
ECDSA == {"ES256", "ES384", "ES512"}
RSA   == {"RS256", "RS512"}

\* A string that is no JWT, or names a method nobody registered, has an alg outside.
Methods == HMAC \cup ECDSA \cup RSA

\* The key the keyfunc returns is the one the token was signed with.  The closure
\* Verify builds rejects another algorithm before it returns verifyKey.
MethodOK(t)    == t.alg \in Methods /\ (opts.keyFunc \/ t.alg = opts.signingMethod)
SignatureOK(t) == IF opts.keyFunc THEN t.key \in IdPKeys ELSE t.key = opts.verifyKey

\* jwt.ParseWithClaims followed by mapJWTError: the method, then the signature, then
\* exp before nbf.  Only the HMAC methods report a mismatch as ErrSignatureInvalid;
\* the other methods' errors match no case of mapJWTError and are returned as they are.
ParseResult(t) ==
  CASE ~MethodOK(t)                            -> "ErrInvalidToken"
    [] MethodOK(t) /\ ~SignatureOK(t)          -> IF t.alg \in HMAC THEN "ErrInvalidToken"
                                                                    ELSE "unmapped"
    [] MethodOK(t) /\ SignatureOK(t) /\ now >= t.exp -> "ErrExpiredToken"
    [] MethodOK(t) /\ SignatureOK(t) /\ now < t.exp /\ now < t.nbf -> "ErrInvalidToken"
    [] OTHER -> "ok"

\* An external keyfunc may also fail to resolve any key: ErrTokenUnverifiable.
ParseResults(t) == {ParseResult(t)} \cup (IF opts.keyFunc THEN {"ErrInvalidToken"} ELSE {})

\* The tokens Verify accepts if it runs now and alone.
Acceptable(t) ==
  /\ opts.keyFunc \/ opts.signingMethod # NoMethod
  /\ ParseResult(t) = "ok"
  /\ opts.blacklist => t \notin blacklist

\* The answers of Blacklist.IsRevoked.
IsRevoked(t) == {IF t \in blacklist THEN "yes" ELSE "no"}
                \cup (IF FallibleBlacklist THEN {"error"} ELSE {})

\* Blacklist.Revoke: an implementation that can fail may have stored the token or not.
RevokeResults(t) ==
  {[set |-> blacklist \cup {t}, err |-> "ok"]}
  \cup (IF FallibleBlacklist
        THEN {[set |-> s, err |-> "unmapped"] : s \in {blacklist, blacklist \cup {t}}}
        ELSE {})

\* The string Sign produces now for these claims; a nonce is drawn only once.
SignatureNonces == IF opts.signingMethod \in ECDSA
                   THEN Nonces \ {t.sig : t \in minted \cup Foreign}
                   ELSE {NoNonce}

\* Mutant: nbf is rounded up to the next second instead of down.
SignedTokenRoundedUp(sub, n) ==
  [alg |-> opts.signingMethod, key |-> opts.signingKey, iss |-> opts.issuer, sub |-> sub,
   nbf |-> NumericDate(now + TicksPerSecond - 1), exp |-> NumericDate(now + opts.expiry),
   sig |-> n]

SignedToken(sub, n) ==
  [alg |-> opts.signingMethod, key |-> opts.signingKey, iss |-> opts.issuer, sub |-> sub,
   nbf |-> NumericDate(now), exp |-> NumericDate(now + opts.expiry),
   sig |-> n]

\* Bound: a call that will sign starts only while nonces are left for all that will.
NonceLeft ==
  Cardinality({p \in Procs : calls[p].op = "Refresh" /\ calls[p].pc \in {"parsed", "verified", "revoked"}})
    < Cardinality(SignatureNonces) \/ opts.signingMethod \notin ECDSA

-----------------------------------------------------------------------------
(* The operations.                                                           *)

Init ==
  /\ opts \in Services
  /\ now = 0
  /\ blacklist = {}
  /\ minted = {}
  /\ calls = [p \in Procs |-> Idle]

\* What follows the parse and the blacklist check: Verify returns, Refresh goes on to
\* Revoke the old token, or straight to Sign when there is no blacklist.
AfterVerify(c) ==
  IF c.op = "Verify" THEN [c EXCEPT !.pc = "done", !.verdict = "ok", !.err = "ok"]
  ELSE [c EXCEPT !.pc = IF opts.blacklist THEN "verified" ELSE "revoked", !.verdict = "ok"]

Refuse(c, e) == [c EXCEPT !.pc = "done", !.verdict = e, !.err = e]

\* Mutant: Sign does not test for a missing signing method.
SignStepUnguarded(p, c, sub) ==
  \E n \in SignatureNonces :
    /\ minted' = minted \cup {SignedToken(sub, n)}
    /\ calls' = [calls EXCEPT ![p] = [c EXCEPT !.pc = "done", !.err = "ok",
                                               !.new = SignedToken(sub, n)]]

\* Sign(claims), and the end of Refresh: c is the record of the call that signs.
SignStep(p, c, sub) ==
  IF opts.signingMethod = NoMethod
  THEN /\ calls' = [calls EXCEPT ![p] = [c EXCEPT !.pc = "done", !.err = "ErrMissingAlgorithm"]]
       /\ UNCHANGED minted
  ELSE \E n \in SignatureNonces :
         /\ minted' = minted \cup {SignedToken(sub, n)}
         /\ calls' = [calls EXCEPT ![p] = [c EXCEPT !.pc = "done", !.err = "ok",
                                                    !.new = SignedToken(sub, n)]]

Sign(p, sub) ==
  /\ calls[p].pc = "idle"
  /\ NonceLeft
  /\ SignStep(p, [Idle EXCEPT !.op = "Sign"], sub)
  /\ UNCHANGED <<opts, now, blacklist>>

\* Verify(t) or the Verify that Refresh(t) makes, up to the blacklist check.
Parse(p, op, t) ==
  /\ calls[p].pc = "idle"
  /\ op = "Refresh" => NonceLeft
  /\ LET c == [Idle EXCEPT !.op = op, !.tok = t, !.wasLive = Acceptable(t)] IN
     IF ~opts.keyFunc /\ opts.signingMethod = NoMethod
     THEN calls' = [calls EXCEPT ![p] = Refuse(c, "ErrMissingAlgorithm")]
     ELSE \E r \in ParseResults(t) :
            calls' = [calls EXCEPT ![p] =
                        IF r # "ok" THEN Refuse(c, r)
                        ELSE IF opts.blacklist THEN [c EXCEPT !.pc = "parsed"]
                        ELSE AfterVerify(c)]
  /\ UNCHANGED <<opts, now, blacklist, minted>>

\* Mutant: Verify does not ask the blacklist.
CheckBlacklistSkipped(p) ==
  /\ calls[p].pc = "parsed"
  /\ calls' = [calls EXCEPT ![p] = AfterVerify(calls[p])]
  /\ UNCHANGED <<opts, now, blacklist, minted>>

\* Mutant: the answer of the blacklist is taken the wrong way round.
CheckBlacklistInverted(p) ==
  /\ calls[p].pc = "parsed"
  /\ \E answer \in IsRevoked(calls[p].tok) :
       calls' = [calls EXCEPT ![p] = IF answer = "yes" THEN AfterVerify(calls[p])
                                     ELSE Refuse(calls[p], "ErrTokenRevoked")]
  /\ UNCHANGED <<opts, now, blacklist, minted>>

\* The revocation check fails closed: an error of the blacklist counts as revoked.
CheckBlacklist(p) ==
  /\ calls[p].pc = "parsed"
  /\ \E answer \in IsRevoked(calls[p].tok) :
       calls' = [calls EXCEPT ![p] = IF answer = "no" THEN AfterVerify(calls[p])
                                     ELSE Refuse(calls[p], "ErrTokenRevoked")]
  /\ UNCHANGED <<opts, now, blacklist, minted>>

\* Mutant: Refresh leaves the old token alone.
RefreshRevokeSkipped(p) ==
  /\ calls[p].pc = "verified"
  /\ calls' = [calls EXCEPT ![p].pc = "revoked"]
  /\ UNCHANGED <<opts, now, blacklist, minted>>

\* `_ = s.opts.blacklist.Revoke(tokenString)' in Refresh: the error is dropped.
RefreshRevoke(p) ==
  /\ calls[p].pc = "verified"
  /\ \E r \in RevokeResults(calls[p].tok) : blacklist' = r.set
  /\ calls' = [calls EXCEPT ![p].pc = "revoked"]
  /\ UNCHANGED <<opts, now, minted>>

RefreshSign(p) ==
  /\ calls[p].pc = "revoked"
  /\ SignStep(p, calls[p], calls[p].tok.sub)
  /\ UNCHANGED <<opts, now, blacklist>>

Revoke(p, t) ==
  /\ calls[p].pc = "idle"
  /\ IF ~opts.blacklist
     THEN /\ calls' = [calls EXCEPT ![p] = [Idle EXCEPT !.pc = "done", !.op = "Revoke",
                                              !.tok = t, !.err = "ErrNoBlacklist"]]
          /\ UNCHANGED blacklist
     ELSE \E r \in RevokeResults(t) :
            /\ blacklist' = r.set
            /\ calls' = [calls EXCEPT ![p] = [Idle EXCEPT !.pc = "done", !.op = "Revoke",
                                                !.tok = t, !.err = r.err]]
  /\ UNCHANGED <<opts, now, minted>>

\* The call returns to its caller.
Return(p) ==
  /\ calls[p].pc = "done"
  /\ calls' = [calls EXCEPT ![p] = Idle]
  /\ UNCHANGED <<opts, now, blacklist, minted>>

Tick ==
  /\ now < MaxTime
  /\ now' = now + 1
  /\ UNCHANGED <<opts, blacklist, minted, calls>>

Known == minted \cup Foreign

Next ==
  \/ \E p \in Procs :
       \/ \E sub \in Subjects : Sign(p, sub)
       \/ \E t \in Known : \/ Parse(p, "Verify", t)
                           \/ Parse(p, "Refresh", t)
                           \/ Revoke(p, t)
       \/ CheckBlacklist(p)
       \/ RefreshRevoke(p)
       \/ RefreshSign(p)
       \/ Return(p)
  \/ Tick

Spec == Init /\ [][Next]_vars

-----------------------------------------------------------------------------
(* Properties.                                                               *)

Verified(c) == c.verdict = "ok"

\* Verify and Refresh accept only a token that was acceptable when the call began: one
\* revoked before that is refused, though the blacklist is asked after the parse and
\* may fail (jwt.go Verify, `bErr != nil || revoked').
AcceptedWasLive == \A p \in Procs : Verified(calls[p]) => calls[p].wasLive

\* When Refresh has returned a new token the old one no longer verifies: it was put on
\* the blacklist before the new one was signed, and nothing takes it off again.
RefreshRetiresOld ==
  \A p \in Procs :
    /\ calls[p].op = "Refresh" /\ calls[p].pc = "done" /\ calls[p].err = "ok"
    /\ opts.blacklist
    => ~Acceptable(calls[p].tok)

\* A token that Sign or Refresh has just returned is accepted by Verify: it is not
\* born revoked or expired.
ReturnedIsUsable ==
  [][\A p \in Procs :
       calls'[p].new # NoToken /\ calls[p].new = NoToken => Acceptable(calls[p].new)']_vars

\* The service implements the abstract credential check, with the acceptable tokens as
\* the live credentials and the blacklist as the revoked ones.
Live == {t \in Known : Acceptable(t)}

CheckOf(c) ==
  CASE c.op \notin {"Verify", "Refresh"}    -> [st |-> "none"]
    [] c.op \in {"Verify", "Refresh"} /\ c.verdict = "none" ->
         [st |-> "pending", cred |-> c.tok, wasLive |-> c.wasLive]
    [] OTHER -> [st |-> "answered", cred |-> c.tok, ok |-> Verified(c)]

CC == INSTANCE CredentialCheck WITH
        Creds <- Token, live <- Live, revoked <- blacklist,
        checks <- [p \in Procs |-> CheckOf(calls[p])]

ImplementsCheck == CC!Spec
=============================================================================
