----------------------------- MODULE TimeWindows ----------------------------
(***************************************************************************)
(* reqsign and otp: proofs that are bound to a time and checked on another *)
(* machine.  A sender signs requests (SigningTransport) that the network   *)
(* may delay, alter or deliver again, and a user reads codes from a device *)
(* and types them in later; the verifier (Middleware, VerifyWithOptions)   *)
(* compares with its own clock.  Clocks count ticks, TicksPerSecond to a   *)
(* second; the sender's and the device's differ from the verifier's.       *)
(***************************************************************************)
EXTENDS Integers, FiniteSets

CONSTANTS
  Procs,            \* the verifier's goroutines
  Bodies, NoBody,
  Secret, OtherSecret,
  NoHeader, Malformed,   \* a header that is missing; one that does not parse
  TicksPerSecond,
  Options,          \* reqsign.VerifyOptions: ReplayWindow in ticks, 0 for the default
  DefaultReplayWindow,
  OTPOptions,       \* otp.VerifyOptions: Digits, Period (seconds) and Skew, 0 for the default
  DefaultDigits, DefaultPeriod, DefaultSkew,
  CounterMod,       \* 2^64: counters are unsigned
  MaxDrift, MaxTime, MaxSigned   \* bounds

ASSUME WindowAssumption ==
  /\ TicksPerSecond \in Nat \ {0}
  /\ Options.ReplayWindow \in Int /\ DefaultReplayWindow \in Nat
  /\ OTPOptions.Period \in Nat /\ OTPOptions.Skew \in Nat
  /\ DefaultPeriod \in Nat \ {0} /\ DefaultSkew \in Nat \ {0}
  /\ {MaxDrift, MaxTime} \subseteq Nat /\ MaxDrift <= MaxTime
  /\ CounterMod \in Nat /\ CounterMod > MaxTime + MaxDrift + OTPOptions.Skew + DefaultSkew
  /\ Secret \notin {OtherSecret, NoHeader}
  /\ {NoHeader, Malformed} \cap Int = {}

VARIABLES
  now,          \* the verifier's clock
  net,          \* requests in transit: [sig, ts, body]
  signed,       \* history: what SigningTransport has signed, and its clock then
  delivered,    \* history: the requests that have arrived
  srv           \* the request each goroutine verifies
vars == <<now, net, signed, delivered, srv>>

Abs(x) == IF x < 0 THEN -x ELSE x
\* The sender's and the device's clock, at most MaxDrift off.
OtherClock == (now - MaxDrift)..(now + MaxDrift)
Unix(t) == t \div TicksPerSecond

-----------------------------------------------------------------------------
(* reqsign.                                                                  *)

\* An HMAC stands for what went into it; a string that is no HMAC, or not in hexadecimal,
\* for one under another secret.
sign(secret, body, ts) == [key |-> secret, ts |-> ts, body |-> body]
NoSignature == sign(NoHeader, NoBody, NoHeader)
\* Mutant: the timestamp is not part of the payload.
VerifyBodyOnly(secret, body, ts, sig) ==
  sig.key = secret /\ sig.body = body
Verify(secret, body, ts, sig) == sig = sign(secret, body, ts)

ReplayWindow == IF Options.ReplayWindow > 0 THEN Options.ReplayWindow ELSE DefaultReplayWindow

Idle == [pc |-> "idle"]

Init ==
  /\ now = MaxDrift
  /\ net = {} /\ signed = {} /\ delivered = {}
  /\ srv = [p \in Procs |-> Idle]

Signed(s) == [sig |-> sign(Secret, s.body, s.ts), ts |-> s.ts, body |-> s.body]

\* Mutant: the timestamp is rounded to the nearest second.
RoundTripRounds(body, clock) ==
  LET s == [ts |-> Unix(clock + TicksPerSecond \div 2), body |-> body, at |-> clock] IN
  /\ Cardinality(signed) < MaxSigned
  /\ net' = net \cup {Signed(s)}
  /\ signed' = signed \cup {s}
  /\ UNCHANGED <<now, delivered, srv>>
\* The body is read whole (an empty one if there is none), the time taken, the headers set.
RoundTrip(body, clock) ==
  LET s == [ts |-> Unix(clock), body |-> body, at |-> clock] IN
  /\ Cardinality(signed) < MaxSigned
  /\ net' = net \cup {Signed(s)}
  /\ signed' = signed \cup {s}
  /\ UNCHANGED <<now, delivered, srv>>

\* What may happen to a request on the way: a header lost or mangled, another timestamp or
\* body, a signature of somebody else's.
Altered(m) ==
  {[m EXCEPT !.ts = x] : x \in {NoHeader, Malformed, m.ts - 1, m.ts + 1}}
  \cup {[m EXCEPT !.sig = x] : x \in {NoSignature, sign(OtherSecret, m.body, m.ts)}}
  \cup {[m EXCEPT !.body = x] : x \in Bodies \cup {NoBody}}
\* The bound: a request is altered once.
Alter(m) ==
  /\ m \in net /\ \E s \in signed : m = Signed(s)
  /\ \E x \in Altered(m) : net' = (net \ {m}) \cup {x}
  /\ UNCHANGED <<now, signed, delivered, srv>>

\* A request arrives, for the first time or again: the middleware remembers none.
Deliver(p, m) ==
  /\ srv[p] = Idle /\ m \in net
  /\ srv' = [srv EXCEPT ![p] = [pc |-> "headers", msg |-> m, at |-> 0, body |-> NoBody,
                                broken |-> FALSE, first |-> m \notin delivered]]
  /\ delivered' = delivered \cup {m}
  /\ UNCHANGED <<now, net, signed>>

Fail(p) == srv' = [srv EXCEPT ![p].pc = "401"]

\* Middleware, up to the replay check.  at is the clock's reading.
\* Mutant: the window is taken for seconds.
CheckTimestampUnits(p) ==
  LET m == srv[p].msg IN
  /\ srv[p].pc = "headers"
  /\ IF m.sig = NoSignature \/ m.ts \in {NoHeader, Malformed}
        \/ Abs(now - m.ts * TicksPerSecond) > ReplayWindow \div TicksPerSecond
     THEN srv' = [srv EXCEPT ![p].pc = "401", ![p].at = now]
     ELSE srv' = [srv EXCEPT ![p].pc = "body", ![p].at = now]
  /\ UNCHANGED <<now, net, signed, delivered>>
CheckTimestamp(p) ==
  LET m == srv[p].msg IN
  /\ srv[p].pc = "headers"
  /\ IF m.sig = NoSignature \/ m.ts \in {NoHeader, Malformed} \/ Abs(now - m.ts * TicksPerSecond) > ReplayWindow
     THEN srv' = [srv EXCEPT ![p].pc = "401", ![p].at = now]
     ELSE srv' = [srv EXCEPT ![p].pc = "body", ![p].at = now]
  /\ UNCHANGED <<now, net, signed, delivered>>

\* The body is read, which may take long or fail, and put back for the handler; then the
\* signature is checked.
ReadAndVerify(p) ==
  LET m == srv[p].msg IN
  /\ srv[p].pc = "body"
  /\ IF Verify(Secret, m.body, m.ts, m.sig)
     THEN srv' = [srv EXCEPT ![p].pc = "handler", ![p].body = m.body] ELSE Fail(p)
  /\ UNCHANGED <<now, net, signed, delivered>>
ReadFails(p) ==
  /\ srv[p].pc = "body"
  /\ srv' = [srv EXCEPT ![p].pc = "401", ![p].broken = TRUE]
  /\ UNCHANGED <<now, net, signed, delivered>>

Return(p) ==
  /\ srv[p].pc \in {"401", "handler"}
  /\ srv' = [srv EXCEPT ![p] = Idle]
  /\ UNCHANGED <<now, net, signed, delivered>>

-----------------------------------------------------------------------------
(* otp.                                                                      *)

counterFor(t, step) == (Unix(t) \div step) % CounterMod
generateHOTP(c, n) == [counter |-> c, digits |-> n]

digits == IF OTPOptions.Digits = 0 THEN DefaultDigits ELSE OTPOptions.Digits
period == IF OTPOptions.Period = 0 THEN DefaultPeriod ELSE OTPOptions.Period
skew == IF OTPOptions.Skew = 0 THEN DefaultSkew ELSE OTPOptions.Skew

\* The code the device shows; GenerateAt, for any period and number of digits.
CodeAt(t) == generateHOTP(counterFor(t, period), digits)

\* Mutant: the candidates end before the last step.
VerifyWithOptionsShort(code) ==
  /\ code.digits = digits
  /\ \E i \in (-skew)..(skew - 1) : code = generateHOTP((counterFor(now, period) + i) % CounterMod, digits)
VerifyWithOptions(code) ==
  /\ code.digits = digits
  /\ \E i \in (-skew)..skew : code = generateHOTP((counterFor(now, period) + i) % CounterMod, digits)

-----------------------------------------------------------------------------
Tick ==
  /\ now < MaxTime /\ now' = now + 1
  /\ UNCHANGED <<net, signed, delivered, srv>>

Next ==
  \/ \E body \in Bodies \cup {NoBody}, clock \in OtherClock : RoundTrip(body, clock)
  \/ \E m \in net : Alter(m) \/ \E p \in Procs : Deliver(p, m)
  \/ \E p \in Procs : CheckTimestamp(p) \/ ReadAndVerify(p) \/ ReadFails(p) \/ Return(p)
  \/ Tick

Spec == Init /\ [][Next]_vars

-----------------------------------------------------------------------------
(* Properties.                                                               *)

TypeOK ==
  /\ now \in 0..MaxTime
  /\ \A s \in signed : s.at \in Int /\ s.ts = Unix(s.at) /\ s.body \in Bodies \cup {NoBody}
  /\ \A p \in Procs : srv[p] = Idle \/
       /\ srv[p].pc \in {"headers", "body", "401", "handler"}
       /\ srv[p].at \in 0..now /\ srv[p].first \in BOOLEAN

\* reqsign.Middleware: what a handler gets was signed by a holder of the secret, that body
\* under that timestamp, and the sender's clock then and the verifier's at the check differ
\* by less than the window and a second (timestamps are whole seconds), in either direction;
\* whatever the network did to the request and however often it was delivered.
HandledWasSigned ==
  \A p \in Procs : srv[p].pc = "handler" =>
    \E s \in signed :
      /\ srv[p].body = s.body /\ srv[p].msg.ts = s.ts
      /\ Abs(srv[p].at - s.at) < ReplayWindow + TicksPerSecond

\* reqsign.Middleware: a request that arrives for the first time, as it was signed, and while
\* the two clocks' readings differ by at most the window less a second, is answered 401 only
\* if its body cannot be read.  (Nothing is asked of a second delivery.)
TimelyIsHandled ==
  \A p \in Procs : srv[p].pc = "401" /\ ~srv[p].broken /\ srv[p].first =>
    \A s \in signed :
      srv[p].msg = Signed(s) =>
        Abs(srv[p].at - s.at) > ReplayWindow - TicksPerSecond

\* otp.VerifyWithOptions, with the clock's reading t when the user read the code: accepted if
\* it differs from the server's at the check by at most Skew periods (`meaning +-30 seconds
\* tolerance'), and refused from Skew + 1 periods on, also at the start of the epoch, where
\* the counter wraps.
Step == period * TicksPerSecond
CodesLiveTheirWindow ==
  \A t \in 0..(MaxTime + MaxDrift) :
    /\ Abs(t - now) <= skew * Step => VerifyWithOptions(CodeAt(t))
    /\ VerifyWithOptions(CodeAt(t)) => Abs(t - now) < (skew + 1) * Step
=============================================================================
