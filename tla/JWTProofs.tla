----------------------------- MODULE JWTProofs ------------------------------
(***************************************************************************)
(* Proofs about JWTService, for every number of goroutines, every set of   *)
(* configurations, keys and subjects, and every clock resolution.          *)
(***************************************************************************)
EXTENDS JWTService, TLAPS

-----------------------------------------------------------------------------
(* Types.                                                                    *)

\* An idle goroutine is a well-typed call.
LEMMA IdleType == Idle \in Call
BY DEF Idle, Call

\* The results of parsing a token.
LEMMA ParseResultType ==
  \A t : ParseResult(t) \in {"ok", "ErrExpiredToken", "ErrInvalidToken", "unmapped"}
BY DEF ParseResult

\* A signed token is a token: its dates lie within the bounds.
LEMMA SignedTokenType ==
  ASSUME opts \in Services, opts.signingMethod # NoMethod, now \in 0 .. MaxTime,
         NEW sub \in Subjects, NEW n \in SignatureNonces
  PROVE  SignedToken(sub, n) \in Token
<1>1. /\ opts.signingMethod \in Algs /\ opts.signingKey \in Keys /\ opts.issuer \in Issuers
      /\ opts.expiry \in 0 .. MaxExpiry
  BY ServiceAssumption DEF Options
<1>2. n \in Nonces \cup {NoNonce}
  BY DEF SignatureNonces
<1>3. NumericDate(now) \in Dates /\ NumericDate(now + opts.expiry) \in Dates
  <2>1. now \in 0 .. (MaxTime + MaxExpiry) /\ now + opts.expiry \in 0 .. (MaxTime + MaxExpiry)
    BY <1>1, ServiceAssumption
  <2> QED BY <2>1 DEF Dates
<1> QED BY <1>1, <1>2, <1>3 DEF SignedToken, Token

-----------------------------------------------------------------------------
(* The inductive invariant.  A call that has passed the parse holds a token; *)
(* the blacklist only grows, so that what is not on it now was not on it when*)
(* the call began.                                                           *)

Parsed == {"parsed", "verified", "revoked"}

CallOK(c) ==
  /\ c.pc = "idle" => c = Idle
  /\ c.pc \in Parsed => c.tok \in Token /\ c.op \in {"Verify", "Refresh"}
  /\ c.pc \in {"parsed", "verified"} => opts.blacklist
  /\ c.pc = "parsed" => c.verdict = "none" /\ (c.tok \notin blacklist => c.wasLive)
  /\ c.pc \in {"verified", "revoked"} => c.op = "Refresh" /\ c.verdict = "ok"
  /\ c.op \in {"Verify", "Refresh"} => c.tok \in Token /\ (c.pc = "done" => c.verdict # "none")
  /\ c.verdict = "ok" => c.wasLive

CallsInv == \A p \in Procs : CallOK(calls[p])
ListInv  == ~opts.blacklist => blacklist = {}
Inv == TypeOK /\ ListInv /\ CallsInv

\* A new service satisfies the invariant.
LEMMA InitInv == Init => Inv
BY ServiceAssumption, IdleType DEF Init, Inv, TypeOK, ListInv, CallsInv, CallOK, Idle, Parsed

\* A step that replaces one call by a well-formed one, and may add to the tokens.
LEMMA CallStep ==
  ASSUME Inv, NEW p \in Procs, UNCHANGED <<opts, now, blacklist>>, minted' \subseteq Token
  PROVE  \A d \in Call : CallOK(d) /\ calls' = [calls EXCEPT ![p] = d] => Inv'
<1> SUFFICES ASSUME NEW d \in Call, CallOK(d), calls' = [calls EXCEPT ![p] = d] PROVE Inv'
  OBVIOUS
<1>1. TypeOK' /\ ListInv'
  BY DEF Inv, TypeOK, ListInv
<1>2. \A q \in Procs : CallOK(calls'[q])
  BY DEF Inv, TypeOK, CallsInv
<1>3. CallsInv'
  BY <1>2 DEF CallsInv, CallOK
<1> QED BY <1>1, <1>3 DEF Inv

\* Sign and the end of Refresh.
LEMMA SignStepInv ==
  ASSUME Inv, NEW p \in Procs, UNCHANGED <<opts, now, blacklist>>, NEW sub \in Subjects,
         NEW c \in Call, CallOK([c EXCEPT !.pc = "done"]), SignStep(p, c, sub)
  PROVE  Inv'
<1>1. CASE opts.signingMethod = NoMethod
  <2> DEFINE d == [c EXCEPT !.pc = "done", !.err = "ErrMissingAlgorithm"]
  <2>1. d \in Call
    BY DEF Call, Errors
  <2>2. CallOK(d)
    BY DEF CallOK, Call, Parsed
  <2>3. calls' = [calls EXCEPT ![p] = d] /\ minted' = minted
    BY <1>1 DEF SignStep
  <2> QED BY <2>1, <2>2, <2>3, CallStep DEF Inv, TypeOK
<1>2. CASE opts.signingMethod # NoMethod
  <2>1. PICK n \in SignatureNonces :
          /\ minted' = minted \cup {SignedToken(sub, n)}
          /\ calls' = [calls EXCEPT ![p] = [c EXCEPT !.pc = "done", !.err = "ok",
                                                     !.new = SignedToken(sub, n)]]
    BY <1>2 DEF SignStep
  <2> DEFINE d == [c EXCEPT !.pc = "done", !.err = "ok", !.new = SignedToken(sub, n)]
  <2>2. SignedToken(sub, n) \in Token
    BY <1>2, SignedTokenType DEF Inv, TypeOK
  <2>3. d \in Call
    BY <2>2 DEF Call
  <2>4. CallOK(d)
    BY DEF CallOK, Call, Parsed
  <2> QED BY <2>1, <2>2, <2>3, <2>4, CallStep DEF Inv, TypeOK
<1> QED BY <1>1, <1>2

\* A step that adds to the blacklist and replaces one call by a well-formed one.
LEMMA RevokeStep ==
  ASSUME Inv, NEW p \in Procs, UNCHANGED <<opts, now, minted>>, opts.blacklist,
         blacklist \subseteq blacklist', blacklist' \subseteq Token
  PROVE  \A d \in Call : CallOK(d) /\ calls' = [calls EXCEPT ![p] = d] => Inv'
<1> SUFFICES ASSUME NEW d \in Call, CallOK(d), calls' = [calls EXCEPT ![p] = d] PROVE Inv'
  OBVIOUS
<1>1. TypeOK' /\ ListInv'
  BY DEF Inv, TypeOK, ListInv
<1>2. \A q \in Procs : CallOK(calls'[q])
  BY DEF Inv, TypeOK, CallsInv
<1>3. CallsInv'
  BY <1>2 DEF CallsInv, CallOK
<1> QED BY <1>1, <1>3 DEF Inv

\* Revoke adds the token to the blacklist or leaves the blacklist as it was.
LEMMA RevokeResultsAre ==
  ASSUME NEW t, NEW r \in RevokeResults(t)
  PROVE  /\ r.set \in {blacklist, blacklist \cup {t}}
         /\ r.err \in {"ok", "unmapped"}
         /\ ~FallibleBlacklist => r.set = blacklist \cup {t}
BY ServiceAssumption DEF RevokeResults

\* The tokens clients hold are tokens.
LEMMA KnownTokens == Inv => Known \subseteq Token
BY ServiceAssumption DEF Inv, TypeOK, Known

\* Parsing a token keeps the invariant.
LEMMA ParseInv ==
  ASSUME Inv, NEW p \in Procs, NEW op \in {"Verify", "Refresh"}, NEW t \in Token, Parse(p, op, t)
  PROVE  Inv'
<1> DEFINE c == [Idle EXCEPT !.op = op, !.tok = t, !.wasLive = Acceptable(t)]
<1>1. c \in Call /\ c.op = op /\ c.tok = t /\ c.wasLive = Acceptable(t) /\ c.verdict = "none"
  BY DEF Idle, Call, Acceptable
<1>2. UNCHANGED <<opts, now, blacklist, minted>> /\ minted' \subseteq Token
  BY DEF Parse, Inv, TypeOK
<1>3. ASSUME NEW e \in Errors, calls' = [calls EXCEPT ![p] = Refuse(c, e)] PROVE Inv'
  <2>1. Refuse(c, e) \in Call
    BY <1>1 DEF Refuse, Call
  <2>2. CallOK(Refuse(c, e))
    BY <1>1 DEF Refuse, Call, CallOK, Parsed, Errors
  <2> QED BY <2>1, <2>2, <1>2, <1>3, CallStep
<1>4. CASE ~opts.keyFunc /\ opts.signingMethod = NoMethod
  BY <1>3, <1>4 DEF Parse, Errors
<1>5. CASE ~(~opts.keyFunc /\ opts.signingMethod = NoMethod)
  <2>1. PICK r \in ParseResults(t) :
          calls' = [calls EXCEPT ![p] = IF r # "ok" THEN Refuse(c, r)
                                        ELSE IF opts.blacklist THEN [c EXCEPT !.pc = "parsed"]
                                        ELSE AfterVerify(c)]
    BY <1>5 DEF Parse
  <2>2. CASE r # "ok"
    <3>1. r \in Errors
      BY <2>2, ParseResultType DEF ParseResults, Errors
    <3> QED BY <3>1, <2>1, <2>2, <1>3
  <2>3. CASE r = "ok" /\ opts.blacklist
    <3> DEFINE d == [c EXCEPT !.pc = "parsed"]
    <3>1. ParseResult(t) = "ok"
      BY <2>3 DEF ParseResults
    <3>2. t \notin blacklist => Acceptable(t)
      BY <3>1, <1>5 DEF Acceptable, Inv, TypeOK
    <3>3. d \in Call /\ d.pc = "parsed" /\ d.op = op /\ d.tok = t /\ d.wasLive = Acceptable(t)
          /\ d.verdict = "none"
      BY <1>1 DEF Call
    <3>4. CallOK(d)
      BY <3>2, <3>3, <2>3 DEF CallOK, Parsed
    <3> QED BY <3>3, <3>4, <2>1, <2>3, <1>2, CallStep
  <2>4. CASE r = "ok" /\ ~opts.blacklist
    <3> DEFINE d == AfterVerify(c)
    <3>1. ParseResult(t) = "ok"
      BY <2>4 DEF ParseResults
    <3>2. Acceptable(t)
      BY <3>1, <1>5, <2>4 DEF Acceptable
    <3>3. d \in Call
      BY <1>1 DEF AfterVerify, Call
    <3>4. /\ d.op = op /\ d.tok = t /\ d.wasLive /\ d.verdict = "ok"
          /\ d.pc = IF op = "Verify" THEN "done" ELSE "revoked"
      BY <1>1, <3>2, <2>4 DEF AfterVerify, Call
    <3>5. CallOK(d)
      BY <3>4 DEF CallOK, Parsed
    <3> QED BY <3>3, <3>5, <2>1, <2>4, <1>2, CallStep
  <2> QED BY <2>2, <2>3, <2>4
<1> QED BY <1>4, <1>5

\* Every operation of the service and the clock keep the invariant.
LEMMA StepInv == Inv /\ [Next]_vars => Inv'
<1> SUFFICES ASSUME Inv, [Next]_vars PROVE Inv'
  OBVIOUS
<1>1. ASSUME NEW p \in Procs, NEW sub \in Subjects, Sign(p, sub) PROVE Inv'
  <2> DEFINE c == [Idle EXCEPT !.op = "Sign"]
  <2>1. c \in Call /\ c.op = "Sign" /\ c.pc = "idle" /\ c.verdict = "none" /\ c.tok = NoToken
    BY DEF Idle, Call
  <2>2. CallOK([c EXCEPT !.pc = "done"])
    BY DEF Idle, CallOK, Parsed
  <2> QED BY <1>1, <2>1, <2>2, SignStepInv DEF Sign
<1>2. ASSUME NEW p \in Procs, NEW t \in Known, NEW op \in {"Verify", "Refresh"}, Parse(p, op, t)
      PROVE  Inv'
  BY <1>2, ParseInv, KnownTokens
<1>3. ASSUME NEW p \in Procs, NEW t \in Known, Revoke(p, t) PROVE Inv'
  <2>1. t \in Token
    BY KnownTokens
  <2> DEFINE d(e) == [Idle EXCEPT !.pc = "done", !.op = "Revoke", !.tok = t, !.err = e]
  <2>2. \A e \in {"ok"} \cup Errors : d(e) \in Call /\ CallOK(d(e))
    BY <2>1 DEF Idle, Call, CallOK, Parsed
  <2>3. CASE ~opts.blacklist
    BY <1>3, <2>2, <2>3, CallStep DEF Revoke, Errors, Inv, TypeOK
  <2>4. CASE opts.blacklist
    <3>1. PICK r \in RevokeResults(t) : blacklist' = r.set /\ calls' = [calls EXCEPT ![p] = d(r.err)]
      BY <1>3, <2>4 DEF Revoke
    <3>2. blacklist \subseteq blacklist' /\ blacklist' \subseteq Token /\ r.err \in {"ok"} \cup Errors
      BY <3>1, <2>1, RevokeResultsAre DEF Errors, Inv, TypeOK
    <3>3. UNCHANGED <<opts, now, minted>>
      BY <1>3 DEF Revoke
    <3> HIDE DEF d
    <3> QED BY <3>1, <3>2, <3>3, <2>2, <2>4, RevokeStep
  <2> QED BY <2>3, <2>4
<1>4. ASSUME NEW p \in Procs, CheckBlacklist(p) PROVE Inv'
  <2> DEFINE c == calls[p]
  <2>1. c \in Call /\ CallOK(c) /\ c.pc = "parsed"
    BY <1>4 DEF CheckBlacklist, Inv, TypeOK, CallsInv
  <2>2. PICK answer \in IsRevoked(c.tok) :
          calls' = [calls EXCEPT ![p] = IF answer = "no" THEN AfterVerify(c)
                                        ELSE Refuse(c, "ErrTokenRevoked")]
    BY <1>4 DEF CheckBlacklist
  <2>3. UNCHANGED <<opts, now, blacklist, minted>> /\ minted' \subseteq Token
    BY <1>4 DEF CheckBlacklist, Inv, TypeOK
  <2>4. CASE answer = "no"
    <3>1. c.wasLive
      BY <2>1, <2>4 DEF IsRevoked, CallOK
    <3>2. AfterVerify(c) \in Call
      BY <2>1 DEF AfterVerify, Call
    <3>3. CallOK(AfterVerify(c))
      BY <2>1, <3>1 DEF AfterVerify, Call, CallOK, Parsed
    <3> QED BY <3>2, <3>3, <2>2, <2>3, <2>4, CallStep
  <2>5. CASE answer # "no"
    <3>1. Refuse(c, "ErrTokenRevoked") \in Call
      BY <2>1 DEF Refuse, Call, Errors
    <3>2. CallOK(Refuse(c, "ErrTokenRevoked"))
      BY <2>1 DEF Refuse, Call, CallOK, Parsed
    <3> QED BY <3>1, <3>2, <2>2, <2>3, <2>5, CallStep
  <2> QED BY <2>4, <2>5
<1>5. ASSUME NEW p \in Procs, RefreshRevoke(p) PROVE Inv'
  <2> DEFINE c == calls[p]
             d == [c EXCEPT !.pc = "revoked"]
  <2>1. c \in Call /\ CallOK(c) /\ c.pc = "verified" /\ c.tok \in Token /\ opts.blacklist
    BY <1>5 DEF RefreshRevoke, Inv, TypeOK, CallsInv, CallOK, Parsed
  <2>2. d \in Call /\ CallOK(d) /\ calls' = [calls EXCEPT ![p] = d]
    BY <1>5, <2>1 DEF RefreshRevoke, Call, CallOK, Parsed
  <2>3. /\ blacklist \subseteq blacklist' /\ blacklist' \subseteq Token
        /\ UNCHANGED <<opts, now, minted>>
    BY <1>5, <2>1, RevokeResultsAre DEF RefreshRevoke, Inv, TypeOK
  <2> QED BY <2>1, <2>2, <2>3, RevokeStep
<1>6. ASSUME NEW p \in Procs, RefreshSign(p) PROVE Inv'
  <2>1. /\ calls[p] \in Call /\ CallOK(calls[p]) /\ calls[p].tok.sub \in Subjects
        /\ calls[p].verdict = "ok"
    BY <1>6 DEF RefreshSign, Inv, TypeOK, CallsInv, CallOK, Parsed, Token
  <2>2. CallOK([calls[p] EXCEPT !.pc = "done"])
    BY <2>1 DEF CallOK, Call, Parsed
  <2> QED BY <1>6, <2>1, <2>2, SignStepInv DEF RefreshSign
<1>7. ASSUME NEW p \in Procs, Return(p) PROVE Inv'
  <2>1. Idle \in Call /\ CallOK(Idle)
    BY IdleType DEF CallOK, Idle, Parsed
  <2> QED BY <1>7, <2>1, CallStep DEF Return, Inv, TypeOK
<1>8. CASE Tick
  BY <1>8, ServiceAssumption DEF Tick, Inv, TypeOK, ListInv, CallsInv, CallOK
<1>9. CASE UNCHANGED vars
  BY <1>9 DEF vars, Inv, TypeOK, ListInv, CallsInv, CallOK
<1> QED BY <1>1, <1>2, <1>3, <1>4, <1>5, <1>6, <1>7, <1>8, <1>9 DEF Next

\* The invariant holds in every reachable state.
LEMMA Invariance == Spec => []Inv
BY InitInv, StepInv, PTL DEF Spec

-----------------------------------------------------------------------------
(* The results.                                                              *)

\* The options, the blacklist and the calls keep their types, and every token Sign or Refresh
\* returns is well formed: Sign never runs without an algorithm and a key.
THEOREM TypeCorrect == Spec => []TypeOK
<1>1. Inv => TypeOK
  BY DEF Inv
<1> QED BY <1>1, Invariance, PTL

\* Verify and Refresh accept only what was acceptable when they were called, whatever other
\* goroutines sign, refresh and revoke meanwhile and whether or not the blacklist fails.
THEOREM NothingDeadAccepted == Spec => []AcceptedWasLive
<1>1. Inv => AcceptedWasLive
  BY DEF Inv, CallsInv, CallOK, AcceptedWasLive, Verified
<1> QED BY <1>1, Invariance, PTL

-----------------------------------------------------------------------------
(* Refresh over a blacklist that does not fail.                              *)

\* A Refresh that has passed its revocation, or returned a token, has put the old one on the
\* blacklist.
Retired(c, list) ==
  c.op = "Refresh" /\ opts.blacklist /\ (c.pc = "revoked" \/ (c.pc = "done" /\ c.err = "ok"))
    => c.tok \in list

RetiredInv == \A p \in Procs : Retired(calls[p], blacklist)

\* A step that replaces one call and does not shorten the blacklist.
LEMMA RetiredStep ==
  ASSUME Inv, RetiredInv, NEW p \in Procs, UNCHANGED opts, blacklist \subseteq blacklist'
  PROVE  \A d : calls' = [calls EXCEPT ![p] = d] /\ Retired(d, blacklist') => RetiredInv'
BY DEF Inv, TypeOK, RetiredInv, Retired

\* A refresh past its revocation keeps its old token on the blacklist.
LEMMA RetiredPreserved ==
  ASSUME ~FallibleBlacklist
  PROVE  Inv /\ RetiredInv /\ [Next]_vars => RetiredInv'
<1> SUFFICES ASSUME Inv, RetiredInv, [Next]_vars PROVE RetiredInv'
  OBVIOUS
<1>1. ASSUME NEW p \in Procs, NEW c \in Call, NEW sub \in Subjects, SignStep(p, c, sub),
             UNCHANGED <<opts, blacklist>>,
             c.op # "Refresh" \/ ~opts.blacklist \/ c.tok \in blacklist
      PROVE  RetiredInv'
  <2>1. PICK e, n : calls' = [calls EXCEPT ![p] = [c EXCEPT !.pc = "done", !.err = e]]
                    \/ calls' = [calls EXCEPT ![p] = [c EXCEPT !.pc = "done", !.err = e, !.new = n]]
    BY <1>1 DEF SignStep
  <2>2. \A d : d = [c EXCEPT !.pc = "done", !.err = e]
               \/ d = [c EXCEPT !.pc = "done", !.err = e, !.new = n] => d.op = c.op /\ d.tok = c.tok
    BY <1>1 DEF Call
  <2>3. \A d : d.op = c.op /\ d.tok = c.tok => Retired(d, blacklist')
    BY <1>1 DEF Retired
  <2>4. CASE calls' = [calls EXCEPT ![p] = [c EXCEPT !.pc = "done", !.err = e]]
    BY <1>1, <2>2, <2>3, <2>4, RetiredStep
  <2>5. CASE calls' = [calls EXCEPT ![p] = [c EXCEPT !.pc = "done", !.err = e, !.new = n]]
    BY <1>1, <2>2, <2>3, <2>5, RetiredStep
  <2> QED BY <2>1, <2>4, <2>5
<1>2. ASSUME NEW p \in Procs, NEW sub \in Subjects, Sign(p, sub) PROVE RetiredInv'
  <2>1. [Idle EXCEPT !.op = "Sign"] \in Call /\ [Idle EXCEPT !.op = "Sign"].op = "Sign"
    BY DEF Idle, Call
  <2> QED BY <1>1, <1>2, <2>1 DEF Sign
<1>3. ASSUME NEW p \in Procs, NEW t \in Known, NEW op \in {"Verify", "Refresh"}, Parse(p, op, t)
      PROVE  RetiredInv'
  <2> DEFINE c == [Idle EXCEPT !.op = op, !.tok = t, !.wasLive = Acceptable(t)]
  <2>1. UNCHANGED <<opts, blacklist>>
    BY <1>3 DEF Parse
  <2>2. ASSUME NEW e \in Errors, calls' = [calls EXCEPT ![p] = Refuse(c, e)] PROVE RetiredInv'
    <3>1. Retired(Refuse(c, e), blacklist')
      BY DEF Refuse, Idle, Errors, Retired
    <3> QED BY <2>1, <2>2, <3>1, RetiredStep
  <2>3. CASE ~opts.keyFunc /\ opts.signingMethod = NoMethod
    BY <1>3, <2>2, <2>3 DEF Parse, Errors
  <2>4. CASE ~(~opts.keyFunc /\ opts.signingMethod = NoMethod)
    <3>1. PICK r \in ParseResults(t) :
            calls' = [calls EXCEPT ![p] = IF r # "ok" THEN Refuse(c, r)
                                          ELSE IF opts.blacklist THEN [c EXCEPT !.pc = "parsed"]
                                          ELSE AfterVerify(c)]
      BY <1>3, <2>4 DEF Parse
    <3>2. r = "ok" \/ r \in Errors
      BY ParseResultType DEF ParseResults, Errors
    <3>3. CASE r # "ok"
      BY <2>2, <3>1, <3>2, <3>3
    <3>4. CASE r = "ok" /\ opts.blacklist
      <4>1. Retired([c EXCEPT !.pc = "parsed"], blacklist')
        BY DEF Idle, Retired
      <4> QED BY <2>1, <3>1, <3>4, <4>1, RetiredStep
    <3>5. CASE r = "ok" /\ ~opts.blacklist
      <4>1. Retired(AfterVerify(c), blacklist')
        BY <3>5 DEF Retired
      <4> QED BY <2>1, <3>1, <3>5, <4>1, RetiredStep
    <3> QED BY <3>3, <3>4, <3>5
  <2> QED BY <2>3, <2>4
<1>4. ASSUME NEW p \in Procs, NEW t \in Known, Revoke(p, t) PROVE RetiredInv'
  <2>1. PICK e : calls' = [calls EXCEPT ![p] = [Idle EXCEPT !.pc = "done", !.op = "Revoke",
                                                  !.tok = t, !.err = e]]
    BY <1>4 DEF Revoke
  <2>2. blacklist \subseteq blacklist' /\ UNCHANGED opts
    <3>1. CASE ~opts.blacklist
      BY <1>4, <3>1 DEF Revoke
    <3>2. CASE opts.blacklist
      <4>1. PICK r \in RevokeResults(t) : blacklist' = r.set
        BY <1>4, <3>2 DEF Revoke
      <4> QED BY <4>1, <1>4, RevokeResultsAre DEF Revoke
    <3> QED BY <3>1, <3>2
  <2>3. Retired([Idle EXCEPT !.pc = "done", !.op = "Revoke", !.tok = t, !.err = e], blacklist')
    BY DEF Idle, Retired
  <2> QED BY <2>1, <2>2, <2>3, RetiredStep
<1>5. ASSUME NEW p \in Procs, CheckBlacklist(p) PROVE RetiredInv'
  <2> DEFINE c == calls[p]
  <2>1. c \in Call /\ CallOK(c) /\ c.pc = "parsed" /\ opts.blacklist /\ UNCHANGED <<opts, blacklist>>
    BY <1>5 DEF CheckBlacklist, Inv, TypeOK, CallsInv, CallOK
  <2>2. calls' = [calls EXCEPT ![p] = AfterVerify(c)]
        \/ calls' = [calls EXCEPT ![p] = Refuse(c, "ErrTokenRevoked")]
    BY <1>5 DEF CheckBlacklist
  <2>3. Retired(AfterVerify(c), blacklist')
    BY <2>1 DEF AfterVerify, Call, Retired
  <2>4. Retired(Refuse(c, "ErrTokenRevoked"), blacklist')
    BY <2>1 DEF Refuse, Call, Retired
  <2> QED BY <2>1, <2>2, <2>3, <2>4, RetiredStep
<1>6. ASSUME NEW p \in Procs, RefreshRevoke(p) PROVE RetiredInv'
  <2>1. calls' = [calls EXCEPT ![p] = [calls[p] EXCEPT !.pc = "revoked"]] /\ UNCHANGED opts
    BY <1>6 DEF RefreshRevoke
  <2>2. blacklist' = blacklist \cup {calls[p].tok}
    BY <1>6, RevokeResultsAre DEF RefreshRevoke
  <2>3. Retired([calls[p] EXCEPT !.pc = "revoked"], blacklist')
    BY <2>2 DEF Inv, TypeOK, Call, Retired
  <2> QED BY <2>1, <2>2, <2>3, RetiredStep
<1>7. ASSUME NEW p \in Procs, RefreshSign(p) PROVE RetiredInv'
  <2>1. /\ calls[p] \in Call /\ calls[p].tok.sub \in Subjects
        /\ ~opts.blacklist \/ calls[p].tok \in blacklist
    BY <1>7 DEF RefreshSign, Inv, TypeOK, CallsInv, CallOK, Parsed, Token, RetiredInv, Retired
  <2> QED BY <1>1, <1>7, <2>1 DEF RefreshSign
<1>8. ASSUME NEW p \in Procs, Return(p) PROVE RetiredInv'
  <2>1. Retired(Idle, blacklist')
    BY DEF Retired, Idle
  <2> QED BY <1>8, <2>1, RetiredStep DEF Return
<1>9. CASE Tick \/ UNCHANGED vars
  BY <1>9 DEF Tick, vars, RetiredInv, Retired
<1> QED BY <1>2, <1>3, <1>4, <1>5, <1>6, <1>7, <1>8, <1>9 DEF Next

\* Over a blacklist that does not fail, the token handed to a successful Refresh is dead when
\* Refresh returns: revocation comes before signing, and the blacklist never shrinks.
THEOREM RefreshRetires ==
  ASSUME ~FallibleBlacklist
  PROVE  Spec => []RefreshRetiresOld
<1>1. Init => RetiredInv
  BY DEF Init, RetiredInv, Retired, Idle
<1>2. Inv /\ RetiredInv /\ [Next]_vars => RetiredInv'
  BY RetiredPreserved
<1>3. RetiredInv => RefreshRetiresOld
  BY DEF RetiredInv, Retired, RefreshRetiresOld, Acceptable
<1> QED BY <1>1, <1>2, <1>3, Invariance, PTL DEF Spec

-----------------------------------------------------------------------------
(* What Sign returns is good.                                                *)

\* The configurations for which it is: a pair of keys that match, a lifetime that the
\* truncation to seconds does not use up and, over a blacklist, signatures that never repeat.
\* Without the last, a token signed in the second in which its equal was revoked is that token.
Usable(o) ==
  o.signingMethod # NoMethod =>
    /\ o.signingMethod \in Methods /\ ~o.keyFunc
    /\ o.verifyKey = o.signingKey
    /\ o.expiry >= TicksPerSecond
    /\ o.blacklist => o.signingMethod \in ECDSA

\* Only tokens that clients hold are on the blacklist, or on their way there.
ListedKnown ==
  /\ blacklist \subseteq Known
  /\ \A p \in Procs : calls[p].pc \in {"parsed", "verified"} => calls[p].tok \in Known

\* Truncation to the second.
LEMMA NumericDateBounds ==
  ASSUME NEW t \in Nat
  PROVE  NumericDate(t) \in Int /\ NumericDate(t) <= t /\ t < NumericDate(t) + TicksPerSecond
<1>1. t % TicksPerSecond \in 0 .. (TicksPerSecond - 1)
  BY ServiceAssumption
<1> QED BY <1>1, ServiceAssumption DEF NumericDate

LEMMA SignedAcceptable ==
  ASSUME Inv, ListedKnown, Usable(opts), opts.signingMethod # NoMethod,
         NEW sub \in Subjects, NEW n \in SignatureNonces
  PROVE  Acceptable(SignedToken(sub, n))
<1> DEFINE t == SignedToken(sub, n)
<1>1. /\ t.alg = opts.signingMethod /\ t.key = opts.signingKey /\ t.sig = n
      /\ t.nbf = NumericDate(now) /\ t.exp = NumericDate(now + opts.expiry)
  BY DEF SignedToken
<1>2. now \in Nat /\ opts.expiry \in Nat /\ TicksPerSecond \in Nat
  BY ServiceAssumption DEF Inv, TypeOK, Options
<1>3. t.nbf \in Int /\ t.exp \in Int /\ t.nbf <= now /\ now < t.exp
  <2>1. now + opts.expiry \in Nat /\ opts.expiry >= TicksPerSecond
    BY <1>2 DEF Usable
  <2>2. NumericDate(now) \in Int /\ NumericDate(now) <= now
    BY <1>2, NumericDateBounds
  <2>3. /\ NumericDate(now + opts.expiry) \in Int
        /\ now + opts.expiry < NumericDate(now + opts.expiry) + TicksPerSecond
    BY <2>1, NumericDateBounds
  <2> QED BY <1>1, <1>2, <2>1, <2>2, <2>3
<1>4. opts.blacklist => t \notin blacklist
  <2> SUFFICES ASSUME opts.blacklist, t \in blacklist PROVE FALSE
    OBVIOUS
  <2>1. n \notin {u.sig : u \in minted \cup Foreign}
    BY DEF Usable, SignatureNonces
  <2>2. t \in minted \cup Foreign
    BY DEF ListedKnown, Known
  <2> QED BY <2>1, <2>2, <1>1
<1> HIDE DEF t
<1>5. MethodOK(t) /\ SignatureOK(t)
  BY <1>1 DEF Usable, MethodOK, SignatureOK
<1>6. ParseResult(t) = "ok"
  BY <1>3, <1>5, <1>2 DEF ParseResult
<1>7. Acceptable(t)
  BY <1>4, <1>6 DEF Acceptable
<1> QED BY <1>7 DEF t

\* A call gets a token to return only from Sign, and Sign does nothing else.
LEMMA OnlySignReturns ==
  ASSUME Inv, [Next]_vars, NEW q \in Procs, calls[q].new = NoToken, calls'[q].new # NoToken
  PROVE  /\ opts.signingMethod # NoMethod /\ UNCHANGED <<opts, now, blacklist>>
         /\ \E sub \in Subjects, n \in SignatureNonces : calls'[q].new = SignedToken(sub, n)
<1> DEFINE Goal ==
      /\ opts.signingMethod # NoMethod /\ UNCHANGED <<opts, now, blacklist>>
      /\ \E sub \in Subjects, n \in SignatureNonces : calls'[q].new = SignedToken(sub, n)
<1>0. calls \in [Procs -> Call] /\ Idle \in Call /\ Idle.new = NoToken
  BY IdleType DEF Inv, TypeOK, Idle
\* A step that replaces one call by one that has no new token is none of Sign's.
<1>1. ASSUME NEW p \in Procs, NEW d, calls' = [calls EXCEPT ![p] = d],
             d.new = calls[p].new \/ d.new = NoToken
      PROVE  FALSE
  BY <1>0, <1>1
<1>2. ASSUME NEW p \in Procs, NEW c \in Call, NEW sub \in Subjects, SignStep(p, c, sub),
             UNCHANGED <<opts, now, blacklist>>, c.new = calls[p].new \/ c.new = NoToken
      PROVE  Goal
  <2>1. CASE opts.signingMethod = NoMethod
    <3> DEFINE d == [c EXCEPT !.pc = "done", !.err = "ErrMissingAlgorithm"]
    <3>1. calls' = [calls EXCEPT ![p] = d] /\ d.new = c.new
      BY <1>2, <2>1 DEF SignStep, Call
    <3> QED BY <3>1, <1>1, <1>2
  <2>2. CASE opts.signingMethod # NoMethod
    <3>1. PICK n \in SignatureNonces :
            calls' = [calls EXCEPT ![p] = [c EXCEPT !.pc = "done", !.err = "ok",
                                                    !.new = SignedToken(sub, n)]]
      BY <1>2, <2>2 DEF SignStep
    <3>2. calls'[p].new = SignedToken(sub, n)
      BY <3>1, <1>0, <1>2 DEF Call
    <3>3. p = q
      BY <3>1, <1>0
    <3> QED BY <3>2, <3>3, <1>2, <2>2
  <2> QED BY <2>1, <2>2
<1>3. ASSUME NEW p \in Procs, NEW sub \in Subjects, Sign(p, sub) PROVE Goal
  <2> DEFINE c == [Idle EXCEPT !.op = "Sign"]
  <2>1. c \in Call /\ c.new = NoToken
    BY DEF Idle, Call
  <2> QED BY <1>3, <2>1, <1>2 DEF Sign
<1>4. ASSUME NEW p \in Procs, NEW t \in Known, NEW op \in {"Verify", "Refresh"}, Parse(p, op, t)
      PROVE  FALSE
  <2> DEFINE c == [Idle EXCEPT !.op = op, !.tok = t, !.wasLive = Acceptable(t)]
  <2>1. c \in Call /\ c.new = NoToken
    BY KnownTokens DEF Idle, Call, Acceptable
  <2>2. \A e : Refuse(c, e).new = NoToken
    BY <2>1 DEF Refuse, Call
  <2>3. AfterVerify(c).new = NoToken /\ [c EXCEPT !.pc = "parsed"].new = NoToken
    BY <2>1 DEF AfterVerify, Call
  <2>4. PICK d : calls' = [calls EXCEPT ![p] = d] /\ d.new = NoToken
    <3> HIDE DEF c
    <3>1. \/ calls' = [calls EXCEPT ![p] = Refuse(c, "ErrMissingAlgorithm")]
          \/ \E r : calls' = [calls EXCEPT ![p] = Refuse(c, r)]
          \/ calls' = [calls EXCEPT ![p] = [c EXCEPT !.pc = "parsed"]]
          \/ calls' = [calls EXCEPT ![p] = AfterVerify(c)]
      BY <1>4 DEF Parse, c
    <3> QED BY <3>1, <2>2, <2>3
  <2> QED BY <2>4, <1>1
<1>5. ASSUME NEW p \in Procs, NEW t \in Known, Revoke(p, t) PROVE FALSE
  <2> DEFINE d(e) == [Idle EXCEPT !.pc = "done", !.op = "Revoke", !.tok = t, !.err = e]
  <2>1. \A e : d(e).new = NoToken
    BY DEF Idle
  <2>2. \E e : calls' = [calls EXCEPT ![p] = d(e)]
    BY <1>5 DEF Revoke
  <2> HIDE DEF d
  <2> QED BY <2>1, <2>2, <1>1
<1>6. ASSUME NEW p \in Procs, CheckBlacklist(p) PROVE FALSE
  <2>1. \A e : Refuse(calls[p], e).new = calls[p].new
    BY <1>0 DEF Refuse, Call
  <2>2. AfterVerify(calls[p]).new = calls[p].new
    BY <1>0 DEF AfterVerify, Call
  <2>3. \/ calls' = [calls EXCEPT ![p] = AfterVerify(calls[p])]
        \/ calls' = [calls EXCEPT ![p] = Refuse(calls[p], "ErrTokenRevoked")]
    BY <1>6 DEF CheckBlacklist
  <2> QED BY <2>1, <2>2, <2>3, <1>1
<1>7. ASSUME NEW p \in Procs, RefreshRevoke(p) PROVE FALSE
  BY <1>7, <1>0 DEF RefreshRevoke, Call
<1>8. ASSUME NEW p \in Procs, RefreshSign(p) PROVE Goal
  <2>1. calls[p] \in Call /\ calls[p].tok.sub \in Subjects
    BY <1>8 DEF RefreshSign, Inv, TypeOK, CallsInv, CallOK, Parsed, Token
  <2> QED BY <1>8, <2>1, <1>2 DEF RefreshSign
<1>9. ASSUME NEW p \in Procs, Return(p) PROVE FALSE
  BY <1>9, <1>0, <1>1 DEF Return
<1>10. ASSUME Tick \/ UNCHANGED vars PROVE FALSE
  BY <1>10 DEF Tick, vars
<1> HIDE DEF Goal
<1>11. Goal
  BY <1>3, <1>4, <1>5, <1>6, <1>7, <1>8, <1>9, <1>10 DEF Next
<1> QED BY <1>11 DEF Goal

LEMMA ListedKnownPreserved == Inv /\ ListedKnown /\ [Next]_vars => ListedKnown'
<1> SUFFICES ASSUME Inv, ListedKnown, [Next]_vars PROVE ListedKnown'
  OBVIOUS
<1>0. calls \in [Procs -> Call]
  BY DEF Inv, TypeOK
\* A step that replaces one call, takes no token from the clients and lists only theirs.
<1>1. ASSUME NEW p \in Procs, NEW d, calls' = [calls EXCEPT ![p] = d], minted \subseteq minted',
             blacklist' \subseteq Known, d.pc \in {"parsed", "verified"} => d.tok \in Known
      PROVE  ListedKnown'
  <2>1. Known \subseteq Known'
    BY <1>1 DEF Known
  <2>2. \A r \in Procs : calls'[r] = IF r = p THEN d ELSE calls[r]
    BY <1>0, <1>1
  <2> QED BY <1>1, <2>1, <2>2 DEF ListedKnown
<1>2. ASSUME NEW p \in Procs, NEW c \in Call, NEW sub, SignStep(p, c, sub), UNCHANGED blacklist
      PROVE  ListedKnown'
  <2>1. \E d : calls' = [calls EXCEPT ![p] = d] /\ d.pc = "done"
    <3>1. \A e, t : /\ [c EXCEPT !.pc = "done", !.err = e].pc = "done"
                   /\ [c EXCEPT !.pc = "done", !.err = e, !.new = t].pc = "done"
      BY <1>2 DEF Call
    <3>2. CASE opts.signingMethod = NoMethod
      BY <1>2, <3>1, <3>2 DEF SignStep
    <3>3. CASE opts.signingMethod # NoMethod
      <4>1. PICK n \in SignatureNonces :
              calls' = [calls EXCEPT ![p] = [c EXCEPT !.pc = "done", !.err = "ok",
                                                      !.new = SignedToken(sub, n)]]
        BY <1>2, <3>3 DEF SignStep
      <4> DEFINE d == [c EXCEPT !.pc = "done", !.err = "ok", !.new = SignedToken(sub, n)]
      <4>2. calls' = [calls EXCEPT ![p] = d] /\ d.pc = "done"
        BY <3>1, <4>1
      <4> HIDE DEF d
      <4> QED BY <4>2
    <3> QED BY <3>2, <3>3
  <2>2. minted \subseteq minted' /\ blacklist' \subseteq Known
    BY <1>2 DEF SignStep, ListedKnown
  <2> QED BY <2>1, <2>2, <1>1
<1>3. ASSUME NEW p \in Procs, NEW sub \in Subjects, Sign(p, sub) PROVE ListedKnown'
  <2>1. [Idle EXCEPT !.op = "Sign"] \in Call
    BY DEF Idle, Call
  <2> QED BY <1>3, <2>1, <1>2 DEF Sign
<1>4. ASSUME NEW p \in Procs, NEW t \in Known, NEW op \in {"Verify", "Refresh"}, Parse(p, op, t)
      PROVE  ListedKnown'
  <2> DEFINE c == [Idle EXCEPT !.op = op, !.tok = t, !.wasLive = Acceptable(t)]
  <2>1. c \in Call /\ c.tok = t
    BY KnownTokens DEF Idle, Call, Acceptable
  <2>2. /\ \A e : Refuse(c, e).tok = t
        /\ AfterVerify(c).tok = t /\ [c EXCEPT !.pc = "parsed"].tok = t
    BY <2>1 DEF Refuse, AfterVerify, Call
  <2>3. \E d : calls' = [calls EXCEPT ![p] = d] /\ d.tok = t
    <3> HIDE DEF c
    <3>1. \/ calls' = [calls EXCEPT ![p] = Refuse(c, "ErrMissingAlgorithm")]
          \/ \E r : calls' = [calls EXCEPT ![p] = Refuse(c, r)]
          \/ calls' = [calls EXCEPT ![p] = [c EXCEPT !.pc = "parsed"]]
          \/ calls' = [calls EXCEPT ![p] = AfterVerify(c)]
      BY <1>4 DEF Parse, c
    <3> QED BY <3>1, <2>2
  <2>4. minted' = minted /\ blacklist' \subseteq Known
    BY <1>4 DEF Parse, ListedKnown
  <2> QED BY <2>3, <2>4, <1>1
<1>5. ASSUME NEW p \in Procs, NEW t \in Known, Revoke(p, t) PROVE ListedKnown'
  <2> DEFINE d(e) == [Idle EXCEPT !.pc = "done", !.op = "Revoke", !.tok = t, !.err = e]
  <2>1. \A e : d(e).pc = "done"
    BY DEF Idle
  <2>2. \E e : calls' = [calls EXCEPT ![p] = d(e)]
    BY <1>5 DEF Revoke
  <2>3. minted' = minted /\ blacklist' \subseteq Known
    <3>1. CASE ~opts.blacklist
      BY <1>5, <3>1 DEF Revoke, ListedKnown
    <3>2. CASE opts.blacklist
      <4>1. PICK r \in RevokeResults(t) : blacklist' = r.set
        BY <1>5, <3>2 DEF Revoke
      <4>2. r.set \in {blacklist, blacklist \cup {t}}
        BY RevokeResultsAre
      <4> QED BY <1>5, <4>1, <4>2 DEF Revoke, ListedKnown
    <3> QED BY <3>1, <3>2
  <2> HIDE DEF d
  <2> QED BY <2>1, <2>2, <2>3, <1>1
<1>6. ASSUME NEW p \in Procs, CheckBlacklist(p) PROVE ListedKnown'
  <2>1. calls[p] \in Call /\ calls[p].tok \in Known
    BY <1>0, <1>6 DEF CheckBlacklist, ListedKnown
  <2>2. (\A e : Refuse(calls[p], e).tok = calls[p].tok) /\ AfterVerify(calls[p]).tok = calls[p].tok
    BY <2>1 DEF Refuse, AfterVerify, Call
  <2>3. \E d : calls' = [calls EXCEPT ![p] = d] /\ d.tok = calls[p].tok
    BY <1>6, <2>2 DEF CheckBlacklist
  <2>4. minted' = minted /\ blacklist' \subseteq Known
    BY <1>6 DEF CheckBlacklist, ListedKnown
  <2> QED BY <2>1, <2>3, <2>4, <1>1
<1>7. ASSUME NEW p \in Procs, RefreshRevoke(p) PROVE ListedKnown'
  <2>1. calls[p].tok \in Known
    BY <1>7 DEF RefreshRevoke, ListedKnown
  <2>2. \E d : calls' = [calls EXCEPT ![p] = d] /\ d.pc = "revoked"
    <3> DEFINE d == [calls[p] EXCEPT !.pc = "revoked"]
    <3>1. calls' = [calls EXCEPT ![p] = d] /\ d.pc = "revoked"
      BY <1>0, <1>7 DEF RefreshRevoke, Call
    <3> QED BY <3>1
  <2>3. minted' = minted /\ blacklist' \subseteq Known
    BY <1>7, <2>1, RevokeResultsAre DEF RefreshRevoke, ListedKnown
  <2> QED BY <2>2, <2>3, <1>1
<1>8. ASSUME NEW p \in Procs, RefreshSign(p) PROVE ListedKnown'
  BY <1>0, <1>2, <1>8 DEF RefreshSign
<1>9. ASSUME NEW p \in Procs, Return(p) PROVE ListedKnown'
  <2>1. Idle.pc = "idle"
    BY DEF Idle
  <2> QED BY <1>1, <1>9, <2>1 DEF Return, ListedKnown
<1>10. CASE Tick \/ UNCHANGED vars
  BY <1>10 DEF Tick, vars, ListedKnown, Known
<1> QED BY <1>3, <1>4, <1>5, <1>6, <1>7, <1>8, <1>9, <1>10 DEF Next

\* What Sign and Refresh return verifies at once, also under concurrent refreshes and
\* revocations of other tokens of the same subject: for every configuration with matching keys,
\* a lifetime of at least a second and, if it has a blacklist, ECDSA.  With HMAC or RSA over a
\* blacklist it does not hold: the same claims in the same second are the same token.
THEOREM ReturnedUsable ==
  ASSUME \A o \in Services : Usable(o)
  PROVE  Spec => ReturnedIsUsable
<1> DEFINE Step == \A p \in Procs : calls'[p].new # NoToken /\ calls[p].new = NoToken
                                    => Acceptable(calls[p].new)'
<1>1. Init => ListedKnown
  BY DEF Init, ListedKnown, Idle
<1>2. Inv /\ ListedKnown /\ [Next]_vars => [Step]_vars
  <2> SUFFICES ASSUME Inv, ListedKnown, [Next]_vars, NEW p \in Procs,
                      calls'[p].new # NoToken, calls[p].new = NoToken
               PROVE  Acceptable(calls[p].new)'
    OBVIOUS
  <2>1. PICK sub \in Subjects, n \in SignatureNonces : calls'[p].new = SignedToken(sub, n)
    BY OnlySignReturns
  <2>2. opts.signingMethod # NoMethod /\ UNCHANGED <<opts, now, blacklist>>
    BY OnlySignReturns
  <2>3. Usable(opts)
    BY DEF Inv, TypeOK
  <2>4. Acceptable(SignedToken(sub, n))
    BY <2>2, <2>3, SignedAcceptable
  <2>5. Acceptable(calls'[p].new)
    BY <2>1, <2>4
  <2> QED BY <2>2, <2>5 DEF Acceptable, ParseResult, MethodOK, SignatureOK
<1>3. Spec => []ListedKnown
  BY <1>1, ListedKnownPreserved, Invariance, PTL DEF Spec
<1> QED BY <1>2, <1>3, Invariance, PTL DEF Spec, ReturnedIsUsable

-----------------------------------------------------------------------------
(* Refinement of CredentialCheck, for a blacklist that does not fail and keys*)
(* that are configured, not fetched: otherwise a live token may be refused.  *)

LocalService == ~FallibleBlacklist /\ \A o \in Services : ~o.keyFunc

\* The abstract check of a call.
LEMMA CheckOfIs ==
  ASSUME NEW c
  PROVE  /\ c.op \notin {"Verify", "Refresh"} => CheckOf(c) = CC!NoCheck
         /\ c.op \in {"Verify", "Refresh"} /\ c.verdict = "none" =>
              CheckOf(c) = CC!Pending(c.tok, c.wasLive)
         /\ c.op \in {"Verify", "Refresh"} /\ c.verdict # "none" =>
              CheckOf(c) = CC!Answered(c.tok, Verified(c))
BY DEF CheckOf, CC!NoCheck, CC!Pending, CC!Answered

\* The answer of an accepted and of a refused call.
LEMMA AnswerIs ==
  ASSUME NEW c, NEW t, c.op \in {"Verify", "Refresh"}, c.tok = t
  PROVE  /\ c.verdict = "ok" => CheckOf(c) = CC!Answered(t, TRUE)
         /\ c.verdict \notin {"none", "ok"} => CheckOf(c) = CC!Answered(t, FALSE)
<1>1. c.verdict = "ok" => Verified(c) = TRUE
  BY DEF Verified
<1>2. c.verdict # "ok" => Verified(c) = FALSE
  BY DEF Verified
<1> QED BY <1>1, <1>2, CheckOfIs

\* A step of one goroutine changes only its own abstract check.
LEMMA ChecksChange ==
  ASSUME Inv, NEW p \in Procs
  PROVE  \A d : calls' = [calls EXCEPT ![p] = d] =>
           [q \in Procs |-> CheckOf(calls[q])]'
             = [[q \in Procs |-> CheckOf(calls[q])] EXCEPT ![p] = CheckOf(d)]
<1>1. \A q \in Procs : CheckOf(calls[q])' = CheckOf(calls'[q])
  BY DEF CheckOf, Verified
<1> QED BY <1>1 DEF Inv, TypeOK

\* A step that changes neither clock, blacklist nor tokens leaves the live tokens alone.
LEMMA LiveKept ==
  ASSUME UNCHANGED <<opts, now, blacklist, minted>>
  PROVE  UNCHANGED Live
BY DEF Live, Known, Acceptable, ParseResult, MethodOK, SignatureOK

\* No live token is on the blacklist.
LEMMA LiveNotRevoked == Inv => Live \subseteq Token \ blacklist
BY KnownTokens DEF Live, Acceptable, Inv, ListInv

\* Whether a known token is live, as a truth value.
LEMMA LiveAnswer ==
  ASSUME NEW t \in Known
  PROVE  /\ (t \in Live) = Acceptable(t)
         /\ Acceptable(t) => (t \in Live) = TRUE
         /\ ~Acceptable(t) => (t \in Live) = FALSE
<1>1. Acceptable(t) \in BOOLEAN
  BY DEF Acceptable
<1>2. t \in Live <=> Acceptable(t)
  BY DEF Live
<1>3. Acceptable(t) => (t \in Live) = TRUE /\ Acceptable(t) = TRUE
  BY <1>1, <1>2
<1>4. ~Acceptable(t) => (t \in Live) = FALSE /\ Acceptable(t) = FALSE
  BY <1>1, <1>2
<1> QED BY <1>3, <1>4

\* Revoking a token takes exactly that one out of the live tokens.
LEMMA LiveRevoked ==
  ASSUME opts.blacklist, UNCHANGED <<opts, now, minted>>, NEW t, blacklist' = blacklist \cup {t}
  PROVE  Live' = Live \ {t}
BY DEF Live, Known, Acceptable, ParseResult, MethodOK, SignatureOK

\* Every step is a step of CredentialCheck, or changes nothing it sees.
LEMMA StepRefines ==
  ASSUME LocalService
  PROVE  Inv /\ Inv' /\ [Next]_vars => [CC!Next]_(CC!vars)
<1> SUFFICES ASSUME Inv, Inv', [Next]_vars PROVE CC!Next \/ UNCHANGED CC!vars
  OBVIOUS
<1> DEFINE checks == [q \in Procs |-> CheckOf(calls[q])]
<1> USE DEF CC!vars
<1>0. Live' \subseteq Token \ blacklist'
  BY KnownTokens, ServiceAssumption DEF Live, Acceptable, Inv, ListInv, TypeOK, Known
<1>a. ASSUME UNCHANGED blacklist, checks' = checks PROVE CC!Next \/ UNCHANGED CC!vars
  <2>1. CC!Drift
    BY <1>0, <1>a DEF CC!Drift
  <2> QED BY <2>1 DEF CC!Next
\* A step that signs changes no check.
<1>b. ASSUME NEW p \in Procs, NEW c \in Call, NEW sub, SignStep(p, c, sub), UNCHANGED blacklist,
             CheckOf(c) = checks[p], c.op = "Refresh" => c.verdict # "none"
      PROVE  CC!Next \/ UNCHANGED CC!vars
  <2>1. PICK d \in Call : /\ calls' = [calls EXCEPT ![p] = d]
                          /\ d.op = c.op /\ d.tok = c.tok /\ d.verdict = c.verdict
                          /\ d.wasLive = c.wasLive
    <3>1. PICK e, n :
            calls' = [calls EXCEPT ![p] = [c EXCEPT !.pc = "done", !.err = e, !.new = n]]
      <4>1. CASE opts.signingMethod = NoMethod
        <5>1. [c EXCEPT !.pc = "done", !.err = "ErrMissingAlgorithm"]
              = [c EXCEPT !.pc = "done", !.err = "ErrMissingAlgorithm", !.new = c.new]
          BY DEF Call
        <5>2. calls' = [calls EXCEPT ![p] = [c EXCEPT !.pc = "done",
                                               !.err = "ErrMissingAlgorithm"]]
          BY <1>b, <4>1 DEF SignStep
        <5>3. calls' = [calls EXCEPT ![p] = [c EXCEPT !.pc = "done",
                                               !.err = "ErrMissingAlgorithm", !.new = c.new]]
          BY <5>1, <5>2
        <5> QED BY <5>3
      <4>2. CASE opts.signingMethod # NoMethod
        BY <1>b, <4>2 DEF SignStep
      <4> QED BY <4>1, <4>2
    <3> DEFINE d0 == [c EXCEPT !.pc = "done", !.err = e, !.new = n]
    <3>2. /\ d0.op = c.op /\ d0.tok = c.tok /\ d0.verdict = c.verdict
          /\ d0.wasLive = c.wasLive
      BY DEF Call
    <3>3. calls'[p] = d0 /\ calls'[p] \in Call
      BY <3>1 DEF Inv, TypeOK
    <3> QED BY <3>1, <3>2, <3>3
  <2>2. CheckOf(d) = CheckOf(c)
    BY <2>1 DEF CheckOf, Verified
  <2>3. checks' = checks
    BY <1>b, <2>1, <2>2, ChecksChange
  <2> QED BY <1>a, <1>b, <2>3
<1>1. ASSUME NEW p \in Procs, NEW sub \in Subjects, Sign(p, sub) PROVE CC!Next \/ UNCHANGED CC!vars
  <2> DEFINE c == [Idle EXCEPT !.op = "Sign"]
  <2>1. c \in Call /\ c.op = "Sign"
    BY DEF Idle, Call
  <2>2. calls[p] = Idle /\ Idle.op = "none"
    BY <1>1 DEF Sign, Inv, CallsInv, CallOK, Idle
  <2>3. CheckOf(c) = CC!NoCheck /\ CheckOf(calls[p]) = CC!NoCheck
    BY <2>1, <2>2, CheckOfIs
  <2> QED BY <1>1, <1>b, <2>1, <2>3 DEF Sign
<1>2. ASSUME NEW p \in Procs, NEW t \in Known, NEW op \in {"Verify", "Refresh"}, Parse(p, op, t)
      PROVE  CC!Next \/ UNCHANGED CC!vars
  <2> DEFINE c == [Idle EXCEPT !.op = op, !.tok = t, !.wasLive = Acceptable(t)]
  <2>1. UNCHANGED <<opts, now, blacklist, minted>> /\ UNCHANGED Live
    BY <1>2, LiveKept DEF Parse
  <2>2. calls[p] = Idle /\ checks[p] = CC!NoCheck
    <3>1. calls[p] = Idle /\ Idle.op = "none"
      BY <1>2 DEF Parse, Inv, CallsInv, CallOK, Idle
    <3> QED BY <3>1, CheckOfIs
  <2>3. t \in Token /\ ~opts.keyFunc
    BY KnownTokens DEF LocalService, Inv, TypeOK
  <2>4. c.op = op /\ c.tok = t /\ c.wasLive = Acceptable(t) /\ c.verdict = "none"
    BY DEF Idle
  <2>5. ASSUME NEW d, calls' = [calls EXCEPT ![p] = d], CheckOf(d) = CC!Answered(t, t \in Live)
        PROVE  CC!Next \/ UNCHANGED CC!vars
    <3>1. checks' = [checks EXCEPT ![p] = CC!Answered(t, t \in Live)]
      BY <2>5, ChecksChange
    <3>2. CC!CheckAtOnce(p, t)
      BY <3>1, <2>1, <2>2 DEF CC!CheckAtOnce
    <3> QED BY <3>2, <2>3 DEF CC!Next
  <2>6. ASSUME NEW e \in Errors, calls' = [calls EXCEPT ![p] = Refuse(c, e)], ~Acceptable(t)
        PROVE  CC!Next \/ UNCHANGED CC!vars
    <3> DEFINE d == Refuse(c, e)
    <3>1. d.op \in {"Verify", "Refresh"} /\ d.tok = t /\ d.verdict \notin {"none", "ok"}
      BY DEF Refuse, Idle, Errors
    <3>2. CheckOf(d) = CC!Answered(t, FALSE)
      <4> HIDE DEF d
      <4> QED BY <3>1, AnswerIs DEF CC!Answered
    <3>3. CheckOf(d) = CC!Answered(t, t \in Live)
      BY <3>2, <2>6, LiveAnswer
    <3> HIDE DEF d
    <3> QED BY <3>3, <2>5, <2>6 DEF d
  <2>7. CASE ~opts.keyFunc /\ opts.signingMethod = NoMethod
    BY <1>2, <2>6, <2>7 DEF Parse, Errors, Acceptable
  <2>8. CASE ~(~opts.keyFunc /\ opts.signingMethod = NoMethod)
    <3>1. calls' = [calls EXCEPT ![p] = IF ParseResult(t) # "ok" THEN Refuse(c, ParseResult(t))
                                        ELSE IF opts.blacklist THEN [c EXCEPT !.pc = "parsed"]
                                        ELSE AfterVerify(c)]
      BY <1>2, <2>3, <2>8 DEF Parse, ParseResults
    <3>2. CASE ParseResult(t) # "ok"
      <4>1. ParseResult(t) \in Errors /\ ~Acceptable(t)
        BY <3>2, ParseResultType DEF Errors, Acceptable
      <4> QED BY <4>1, <3>1, <3>2, <2>6
    <3>3. CASE ParseResult(t) = "ok" /\ opts.blacklist
      <4> DEFINE d == [c EXCEPT !.pc = "parsed"]
      <4>1. d.op = op /\ d.tok = t /\ d.verdict = "none" /\ d.wasLive = Acceptable(t)
        BY DEF Idle
      <4>2. CheckOf(d) = CC!Pending(t, t \in Live)
        BY <4>1, CheckOfIs, LiveAnswer
      <4>3. checks' = [checks EXCEPT ![p] = CC!Pending(t, t \in Live)]
        BY <4>2, <3>1, <3>3, ChecksChange
      <4>4. CC!Begin(p, t)
        BY <4>3, <2>1, <2>2 DEF CC!Begin
      <4> QED BY <4>4, <2>3 DEF CC!Next
    <3>4. CASE ParseResult(t) = "ok" /\ ~opts.blacklist
      <4>1. Acceptable(t)
        BY <3>4, <2>8 DEF Acceptable
      <4> DEFINE d == AfterVerify(c)
      <4>2. d.op \in {"Verify", "Refresh"} /\ d.tok = t /\ d.verdict = "ok"
        BY DEF AfterVerify, Idle
      <4>3. CheckOf(d) = CC!Answered(t, TRUE)
        <5> HIDE DEF d
        <5> QED BY <4>2, AnswerIs DEF CC!Answered
      <4>4. CheckOf(AfterVerify(c)) = CC!Answered(t, t \in Live)
        BY <4>1, <4>3, LiveAnswer
      <4>5. calls' = [calls EXCEPT ![p] = AfterVerify(c)]
        BY <3>1, <3>4
      <4> QED BY <4>4, <4>5, <2>5
    <3> QED BY <3>2, <3>3, <3>4
  <2> QED BY <2>7, <2>8
<1>3. ASSUME NEW p \in Procs, NEW t \in Known, Revoke(p, t) PROVE CC!Next \/ UNCHANGED CC!vars
  <2>1. PICK e : calls' = [calls EXCEPT ![p] = [Idle EXCEPT !.pc = "done", !.op = "Revoke",
                                                  !.tok = t, !.err = e]]
    BY <1>3 DEF Revoke
  <2> DEFINE d == [Idle EXCEPT !.pc = "done", !.op = "Revoke", !.tok = t, !.err = e]
  <2>2. calls[p] = Idle /\ Idle.op = "none" /\ d.op = "Revoke"
    BY <1>3 DEF Revoke, Inv, CallsInv, CallOK, Idle
  <2>3. checks' = checks
    <3> HIDE DEF d
    <3>1. CheckOf(d) = CC!NoCheck /\ checks[p] = CC!NoCheck
      BY <2>2, CheckOfIs
    <3>2. checks' = [checks EXCEPT ![p] = CheckOf(d)]
      BY <2>1, ChecksChange DEF d
    <3> QED BY <3>1, <3>2
  <2>4. CASE ~opts.blacklist
    BY <1>3, <1>a, <2>3, <2>4 DEF Revoke
  <2>5. CASE opts.blacklist
    <3>1. blacklist' = blacklist \cup {t} /\ UNCHANGED <<opts, now, minted>>
      BY <1>3, <2>5, RevokeResultsAre DEF Revoke, LocalService
    <3>2. Live' = Live \ {t}
      BY <3>1, <2>5, LiveRevoked
    <3>3. CC!Revoke(t)
      BY <3>1, <3>2, <2>3 DEF CC!Revoke
    <3> QED BY <3>3, KnownTokens DEF CC!Next
  <2> QED BY <2>4, <2>5
<1>4. ASSUME NEW p \in Procs, CheckBlacklist(p) PROVE CC!Next \/ UNCHANGED CC!vars
  <2> DEFINE c == calls[p]
  <2>1. UNCHANGED <<opts, now, blacklist, minted>> /\ UNCHANGED Live
    BY <1>4, LiveKept DEF CheckBlacklist
  <2>2. /\ c \in Call /\ CallOK(c) /\ c.pc = "parsed" /\ c.op \in {"Verify", "Refresh"}
        /\ c.verdict = "none" /\ opts.blacklist
    BY <1>4 DEF CheckBlacklist, Inv, TypeOK, CallsInv, CallOK, Parsed
  <2>3. checks[p].st = "pending" /\ checks[p].cred = c.tok /\ checks[p].wasLive = c.wasLive
    BY <2>2, CheckOfIs DEF CC!Pending
  <2>4. CASE c.tok \in blacklist
    <3> DEFINE d == Refuse(c, "ErrTokenRevoked")
    <3>1. calls' = [calls EXCEPT ![p] = d]
      BY <1>4, <2>4 DEF CheckBlacklist, IsRevoked, LocalService
    <3>2. d.op = c.op /\ d.tok = c.tok /\ d.verdict = "ErrTokenRevoked"
      BY <2>2 DEF Refuse, Call
    <3>3. checks' = [checks EXCEPT ![p] = CC!Answered(c.tok, FALSE)]
      <4> HIDE DEF c, d
      <4>1. CheckOf(d) = CC!Answered(c.tok, FALSE)
        BY <3>2, <2>2, AnswerIs DEF CC!Answered
      <4>2. checks' = [checks EXCEPT ![p] = CheckOf(d)]
        BY <3>1, ChecksChange
      <4> QED BY <4>1, <4>2
    <3>4. c.tok \notin Live
      BY <2>2, <2>4 DEF Live, Acceptable
    <3>5. CC!Reject(p)
      BY <3>3, <3>4, <2>1, <2>3 DEF CC!Reject
    <3> QED BY <3>5 DEF CC!Next
  <2>5. CASE c.tok \notin blacklist
    <3> DEFINE d == AfterVerify(c)
    <3>1. calls' = [calls EXCEPT ![p] = d]
      BY <1>4, <2>5 DEF CheckBlacklist, IsRevoked, LocalService
    <3>2. d.op = c.op /\ d.tok = c.tok /\ d.verdict = "ok"
      BY <2>2 DEF AfterVerify, Call
    <3>3. checks' = [checks EXCEPT ![p] = CC!Answered(c.tok, TRUE)]
      <4> HIDE DEF c, d
      <4>1. CheckOf(d) = CC!Answered(c.tok, TRUE)
        BY <3>2, <2>2, AnswerIs DEF CC!Answered
      <4>2. checks' = [checks EXCEPT ![p] = CheckOf(d)]
        BY <3>1, ChecksChange
      <4> QED BY <4>1, <4>2
    <3>4. c.wasLive
      BY <2>2, <2>5 DEF CallOK
    <3>5. CC!Accept(p)
      BY <3>3, <3>4, <2>1, <2>3 DEF CC!Accept
    <3> QED BY <3>5 DEF CC!Next
  <2> QED BY <2>4, <2>5
<1>5. ASSUME NEW p \in Procs, RefreshRevoke(p) PROVE CC!Next \/ UNCHANGED CC!vars
  <2> DEFINE c == calls[p]
             d == [c EXCEPT !.pc = "revoked"]
  <2>1. c \in Call /\ c.tok \in Token /\ opts.blacklist
    BY <1>5 DEF RefreshRevoke, Inv, TypeOK, CallsInv, CallOK, Parsed
  <2>2. /\ blacklist' = blacklist \cup {c.tok} /\ UNCHANGED <<opts, now, minted>>
        /\ calls' = [calls EXCEPT ![p] = d]
    BY <1>5, RevokeResultsAre DEF RefreshRevoke, LocalService
  <2>3. d.op = c.op /\ d.tok = c.tok /\ d.verdict = c.verdict /\ d.wasLive = c.wasLive
    BY <2>1 DEF Call
  <2>4. CheckOf(d) = CheckOf(c)
    BY <2>3 DEF CheckOf, Verified
  <2>5. checks' = checks
    BY <2>2, <2>4, ChecksChange
  <2>6. Live' = Live \ {c.tok}
    BY <2>1, <2>2, LiveRevoked
  <2>7. CC!Revoke(c.tok)
    BY <2>2, <2>5, <2>6 DEF CC!Revoke
  <2> QED BY <2>1, <2>7 DEF CC!Next
<1>6. ASSUME NEW p \in Procs, RefreshSign(p) PROVE CC!Next \/ UNCHANGED CC!vars
  <2>1. calls[p] \in Call /\ calls[p].verdict = "ok"
    BY <1>6 DEF RefreshSign, Inv, TypeOK, CallsInv, CallOK
  <2> QED BY <1>6, <1>b, <2>1 DEF RefreshSign
<1>7. ASSUME NEW p \in Procs, Return(p) PROVE CC!Next \/ UNCHANGED CC!vars
  <2> DEFINE c == calls[p]
  <2>1. UNCHANGED <<opts, now, blacklist, minted>> /\ UNCHANGED Live
    BY <1>7, LiveKept DEF Return
  <2>2. c.pc = "done" /\ checks' = [checks EXCEPT ![p] = CC!NoCheck] /\ CallOK(c)
    <3>1. CheckOf(Idle) = CC!NoCheck
      BY CheckOfIs DEF Idle
    <3> QED BY <1>7, <3>1, ChecksChange DEF Return, Inv, CallsInv
  <2>3. CASE c.op \notin {"Verify", "Refresh"}
    <3>1. checks[p] = CC!NoCheck
      BY <2>3, CheckOfIs
    <3> QED BY <3>1, <2>1, <2>2
  <2>4. CASE c.op \in {"Verify", "Refresh"}
    <3>1. checks[p].st = "answered"
      BY <2>2, <2>4, CheckOfIs DEF CallOK, CC!Answered
    <3>2. CC!Finish(p)
      BY <3>1, <2>1, <2>2 DEF CC!Finish
    <3> QED BY <3>2 DEF CC!Next
  <2> QED BY <2>3, <2>4
<1>8. CASE Tick \/ UNCHANGED vars
  <2>1. UNCHANGED <<blacklist, calls>>
    BY <1>8 DEF Tick, vars
  <2>2. checks' = checks
    BY <2>1 DEF CheckOf, Verified
  <2> QED BY <1>a, <2>1, <2>2
<1> QED BY <1>1, <1>2, <1>3, <1>4, <1>5, <1>6, <1>7, <1>8 DEF Next

\* The JWT service implements the abstract credential check: Verify and Refresh accept only a
\* token that was live when they were called, refuse only one that is dead when they answer,
\* and no revoked token is ever live again.
THEOREM Implementation ==
  ASSUME LocalService
  PROVE  Spec => ImplementsCheck
<1>1. Init => CC!Init
  <2> SUFFICES ASSUME Init PROVE CC!Init
    OBVIOUS
  <2>1. \A p \in Procs : CheckOf(calls[p]) = CC!NoCheck
    BY CheckOfIs DEF Init, Idle
  <2>2. Live \subseteq Token
    BY ServiceAssumption DEF Live, Known, Init
  <2> QED BY <2>1, <2>2 DEF Init, CC!Init
<1>2. Inv /\ Inv' /\ [Next]_vars => [CC!Next]_(CC!vars)
  BY StepRefines
<1> QED BY <1>1, <1>2, Invariance, PTL DEF Spec, ImplementsCheck, CC!Spec
=============================================================================
