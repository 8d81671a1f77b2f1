-------------------------- MODULE TimeWindowsProofs -------------------------
(***************************************************************************)
(* Proofs about reqsign in TimeWindows, for every secret, body, window,    *)
(* resolution and drift of the clocks, and number of goroutines: what a    *)
(* handler gets was signed and is recent, and what is timely is handled.   *)
(***************************************************************************)
EXTENDS TimeWindows, TLAPS

Stamps == Int \cup {NoHeader, Malformed}
Contents == Bodies \cup {NoBody}
Signatures == [key : {Secret, OtherSecret, NoHeader}, ts : Stamps, body : Contents]
Messages == [sig : Signatures, ts : Stamps, body : Contents]
Signings == {s \in [ts : Int, body : Contents, at : Int] : s.ts = Unix(s.at)}
Verifications ==
  [pc : {"headers", "body", "401", "handler"}, msg : Messages, at : Int, body : Contents,
   broken : BOOLEAN, first : BOOLEAN]

\* Signatures under the secret come from the sender.
Genuine(m) == m.sig.key = Secret => \E s \in signed : m.sig = sign(Secret, s.body, s.ts)

Recent(q) == q.msg.ts \in Int /\ Abs(q.at - q.msg.ts * TicksPerSecond) <= ReplayWindow

\* What the middleware has established when it has come as far as q.pc.
Established(q) ==
  /\ Genuine(q.msg)
  /\ q.pc \in {"body", "handler"} => Recent(q)
  /\ q.pc = "handler" => q.msg.sig = sign(Secret, q.msg.body, q.msg.ts) /\ q.body = q.msg.body
  /\ q.pc = "401" /\ ~q.broken =>
       \/ q.msg.sig = NoSignature
       \/ ~Recent(q)
       \/ q.msg.sig # sign(Secret, q.msg.body, q.msg.ts)

\* The inductive invariant.
Inv ==
  /\ now \in Int
  /\ signed \subseteq Signings
  /\ net \subseteq Messages /\ \A m \in net : Genuine(m)
  /\ srv \in [Procs -> {Idle} \cup Verifications]
  /\ \A p \in Procs : srv[p] # Idle => Established(srv[p])

\* Truncation to the second takes less than a second off.
LEMMA UnixBounds ==
  ASSUME NEW t \in Int
  PROVE  /\ Unix(t) \in Int
         /\ Unix(t) * TicksPerSecond <= t
         /\ t < Unix(t) * TicksPerSecond + TicksPerSecond
BY WindowAssumption DEF Unix

LEMMA IdleIsNoVerification == Idle \notin Verifications
BY DEF Idle, Verifications

LEMMA ReplayWindowType == ReplayWindow \in Int
BY WindowAssumption DEF ReplayWindow

LEMMA SignedMessages ==
  ASSUME NEW s \in Signings
  PROVE  Signed(s) \in Messages /\ Signed(s).sig = sign(Secret, s.body, s.ts)
BY DEF Signings, Signed, Messages, Signatures, Stamps, Contents, sign

\* A signature of the sender's is on no header that is missing or forged.
LEMMA AlteredMessages ==
  ASSUME NEW m \in Messages, Genuine(m), NEW x \in Altered(m), m.ts \in Int
  PROVE  x \in Messages /\ Genuine(x)
<1>1. CASE \E y \in {NoHeader, Malformed, m.ts - 1, m.ts + 1} : x = [m EXCEPT !.ts = y]
  BY <1>1 DEF Messages, Stamps, Genuine
<1>2. CASE \E y \in {NoSignature, sign(OtherSecret, m.body, m.ts)} : x = [m EXCEPT !.sig = y]
  <2>1. PICK y \in {NoSignature, sign(OtherSecret, m.body, m.ts)} : x = [m EXCEPT !.sig = y]
    BY <1>2
  <2>2. y \in Signatures /\ y.key # Secret
    BY WindowAssumption DEF NoSignature, sign, Signatures, Stamps, Contents, Messages
  <2>3. x \in Messages /\ x.sig = y
    BY <2>1, <2>2 DEF Messages
  <2> QED BY <2>2, <2>3 DEF Genuine
<1>3. CASE \E y \in Contents : x = [m EXCEPT !.body = y]
  BY <1>3 DEF Messages, Genuine
<1> QED BY <1>1, <1>2, <1>3 DEF Altered, Contents

LEMMA InitInv == Init => Inv
BY WindowAssumption DEF Init, Inv

-----------------------------------------------------------------------------
(* One lemma for each action.                                                *)

LEMMA RoundTripInv ==
  ASSUME Inv, NEW body \in Contents, NEW clock \in OtherClock, RoundTrip(body, clock)
  PROVE  Inv'
<1> DEFINE s == [ts |-> Unix(clock), body |-> body, at |-> clock]
<1>1. clock \in Int
  BY WindowAssumption DEF OtherClock, Inv
<1>2. s \in Signings
  BY <1>1, UnixBounds DEF Signings
<1>3. net' = net \cup {Signed(s)} /\ signed' = signed \cup {s} /\ UNCHANGED <<now, srv>>
  BY DEF RoundTrip
<1>4. Signed(s) \in Messages /\ Signed(s).sig = sign(Secret, s.body, s.ts)
  BY <1>2, SignedMessages
<1>5. \A m : Genuine(m) => Genuine(m)'
  BY <1>3 DEF Genuine
<1>6. Genuine(Signed(s))'
  BY <1>3, <1>4 DEF Genuine
<1> HIDE DEF s
<1>7. \A p \in Procs : srv[p] # Idle => Established(srv[p])'
  BY <1>3, <1>5 DEF Inv, Established, Recent
<1> QED BY <1>2, <1>3, <1>4, <1>5, <1>6, <1>7 DEF Inv

LEMMA AlterInv ==
  ASSUME Inv, NEW m \in net, Alter(m)
  PROVE  Inv'
<1>1. PICK x \in Altered(m) : net' = (net \ {m}) \cup {x}
  BY DEF Alter
<1>2. UNCHANGED <<now, signed, srv>>
  BY DEF Alter
<1>3. m \in Messages /\ Genuine(m)
  BY DEF Inv
<1>4. m.ts \in Int
  BY DEF Alter, Inv, Signings, Signed
<1>5. x \in Messages /\ Genuine(x)
  BY <1>3, <1>4, AlteredMessages
<1> QED BY <1>1, <1>2, <1>5 DEF Inv, Genuine, Established, Recent

LEMMA DeliverInv ==
  ASSUME Inv, NEW p \in Procs, NEW m \in net, Deliver(p, m)
  PROVE  Inv'
<1> DEFINE first == m \notin delivered
           q == [pc |-> "headers", msg |-> m, at |-> 0, body |-> NoBody, broken |-> FALSE,
                 first |-> first]
<1>1. srv' = [srv EXCEPT ![p] = q] /\ UNCHANGED <<now, net, signed>>
  BY DEF Deliver
<1>2. m \in Messages /\ Genuine(m)
  BY DEF Inv
<1>4. first \in BOOLEAN
  OBVIOUS
<1> HIDE DEF first
<1>3. q \in Verifications /\ Established(q)
  BY <1>2, <1>4 DEF Verifications, Contents, Established
<1> HIDE DEF q
<1> QED BY <1>1, <1>3 DEF Inv, Established, Genuine, Recent

\* A step of one verification that leaves everything else alone.
LEMMA StepInv ==
  ASSUME Inv, NEW p \in Procs, NEW q \in Verifications, Established(q),
         srv' = [srv EXCEPT ![p] = q], UNCHANGED <<now, net, signed>>
  PROVE  Inv'
BY DEF Inv, Established, Genuine, Recent

LEMMA CheckTimestampInv ==
  ASSUME Inv, NEW p \in Procs, CheckTimestamp(p)
  PROVE  Inv'
<1>1. srv[p] \in Verifications /\ Established(srv[p]) /\ srv[p].pc = "headers"
  BY DEF Inv, CheckTimestamp, Idle
<1>2. now \in Int /\ ReplayWindow \in Int
  BY ReplayWindowType DEF Inv
<1> DEFINE m == srv[p].msg
           late == m.sig = NoSignature \/ m.ts \in {NoHeader, Malformed}
                   \/ Abs(now - m.ts * TicksPerSecond) > ReplayWindow
           q == [srv[p] EXCEPT !.pc = IF late THEN "401" ELSE "body", !.at = now]
<1>3. srv' = [srv EXCEPT ![p] = q] /\ UNCHANGED <<now, net, signed>>
  BY <1>1 DEF CheckTimestamp, Inv
<1>4. q \in Verifications /\ q.msg = m /\ q.at = now /\ q.pc = (IF late THEN "401" ELSE "body")
  BY <1>1, <1>2 DEF Verifications
<1>5. m.ts \in Stamps
  BY <1>1 DEF Verifications, Messages
<1>6. CASE late
  <2>1. q.msg.sig = NoSignature \/ ~Recent(q)
    <3>1. CASE m.ts \in {NoHeader, Malformed}
      BY <3>1, <1>4, WindowAssumption DEF Recent
    <3>2. CASE m.ts \in Int /\ Abs(now - m.ts * TicksPerSecond) > ReplayWindow
      <4>1. Abs(now - m.ts * TicksPerSecond) \in Int
        BY <3>2, <1>2, WindowAssumption DEF Abs
      <4> QED BY <3>2, <4>1, <1>2, <1>4 DEF Recent
    <3> QED BY <1>4, <1>5, <1>6, <3>1, <3>2 DEF Stamps
  <2>2. Established(q)
    BY <2>1, <1>1, <1>4, <1>6 DEF Established
  <2> HIDE DEF q
  <2> QED BY <2>2, <1>4, <1>3, StepInv
<1>7. CASE ~late
  <2>1. m.ts \in Int
    BY <1>5, <1>7 DEF Stamps
  <2>2. Abs(now - m.ts * TicksPerSecond) \in Int
    BY <2>1, <1>2, WindowAssumption DEF Abs
  <2>3. Recent(q)
    BY <2>1, <2>2, <1>2, <1>4, <1>7 DEF Recent
  <2>4. Established(q)
    BY <2>3, <1>1, <1>4, <1>7 DEF Established
  <2> HIDE DEF q
  <2> QED BY <2>4, <1>4, <1>3, StepInv
<1> QED BY <1>6, <1>7

LEMMA ReadAndVerifyInv ==
  ASSUME Inv, NEW p \in Procs, ReadAndVerify(p)
  PROVE  Inv'
<1>1. srv[p] \in Verifications /\ Established(srv[p]) /\ srv[p].pc = "body"
  BY DEF Inv, ReadAndVerify, Idle
<1> DEFINE m == srv[p].msg
<1>2. CASE m.sig = sign(Secret, m.body, m.ts)
  <2> DEFINE q == [srv[p] EXCEPT !.pc = "handler", !.body = m.body]
  <2>1. srv' = [srv EXCEPT ![p] = q] /\ UNCHANGED <<now, net, signed>>
    BY <1>1, <1>2 DEF ReadAndVerify, Verify, Inv
  <2>2. q \in Verifications /\ q.msg = m /\ q.at = srv[p].at /\ q.pc = "handler" /\ q.body = m.body
    BY <1>1 DEF Verifications, Messages
  <2>3. Established(q)
    BY <1>1, <1>2, <2>2 DEF Established, Recent
  <2> QED BY <2>1, <2>2, <2>3, StepInv
<1>3. CASE m.sig # sign(Secret, m.body, m.ts)
  <2> DEFINE q == [srv[p] EXCEPT !.pc = "401"]
  <2>1. srv' = [srv EXCEPT ![p] = q] /\ UNCHANGED <<now, net, signed>>
    BY <1>1, <1>3 DEF ReadAndVerify, Verify, Fail, Inv
  <2>2. q \in Verifications /\ q.msg = m /\ q.pc = "401"
    BY <1>1 DEF Verifications
  <2>3. Established(q)
    BY <1>1, <1>3, <2>2 DEF Established
  <2> QED BY <2>1, <2>2, <2>3, StepInv
<1> QED BY <1>2, <1>3

LEMMA ReadFailsInv ==
  ASSUME Inv, NEW p \in Procs, ReadFails(p)
  PROVE  Inv'
<1>1. srv[p] \in Verifications /\ Established(srv[p])
  BY DEF Inv, ReadFails, Idle
<1> DEFINE q == [srv[p] EXCEPT !.pc = "401", !.broken = TRUE]
<1>2. srv' = [srv EXCEPT ![p] = q] /\ UNCHANGED <<now, net, signed>>
  BY <1>1 DEF ReadFails, Inv
<1>3. q \in Verifications /\ q.msg = srv[p].msg /\ q.pc = "401" /\ q.broken = TRUE
  BY <1>1 DEF Verifications
<1>4. Established(q)
  BY <1>1, <1>3 DEF Established
<1> QED BY <1>2, <1>3, <1>4, StepInv

LEMMA NextInv == Inv /\ [Next]_vars => Inv'
<1> SUFFICES ASSUME Inv, [Next]_vars PROVE Inv'
  OBVIOUS
<1>1. CASE UNCHANGED vars
  BY <1>1 DEF vars, Inv, Established, Genuine, Recent
<1>2. CASE \E body \in Bodies \cup {NoBody}, clock \in OtherClock : RoundTrip(body, clock)
  BY <1>2, RoundTripInv DEF Contents
<1>3. CASE \E m \in net : Alter(m)
  BY <1>3, AlterInv
<1>4. CASE \E m \in net, p \in Procs : Deliver(p, m)
  BY <1>4, DeliverInv
<1>5. ASSUME NEW p \in Procs, CheckTimestamp(p) PROVE Inv'
  BY <1>5, CheckTimestampInv
<1>6. ASSUME NEW p \in Procs, ReadAndVerify(p) PROVE Inv'
  BY <1>6, ReadAndVerifyInv
<1>7. ASSUME NEW p \in Procs, ReadFails(p) PROVE Inv'
  BY <1>7, ReadFailsInv
<1>8. ASSUME NEW p \in Procs, Return(p) PROVE Inv'
  BY <1>8 DEF Return, Inv, Established, Genuine, Recent
<1>9. CASE Tick
  BY <1>9 DEF Tick, Inv, Established, Genuine, Recent
<1> QED BY <1>1, <1>2, <1>3, <1>4, <1>5, <1>6, <1>7, <1>8, <1>9 DEF Next

LEMMA InvariantHolds == Spec => []Inv
BY InitInv, NextInv, PTL DEF Spec

-----------------------------------------------------------------------------
\* Signatures of equal records were made of the same timestamp and body.
LEMMA SignInjective ==
  ASSUME NEW a, NEW b, NEW t, NEW u, sign(Secret, a, t) = sign(Secret, b, u)
  PROVE  a = b /\ t = u
BY DEF sign

LEMMA InvHandled == Inv => HandledWasSigned
<1> SUFFICES ASSUME Inv, NEW p \in Procs, srv[p].pc = "handler"
             PROVE  \E s \in signed : /\ srv[p].body = s.body /\ srv[p].msg.ts = s.ts
                                      /\ Abs(srv[p].at - s.at) < ReplayWindow + TicksPerSecond
  BY DEF HandledWasSigned
<1> DEFINE q == srv[p]
<1>1. q \in Verifications /\ Established(q)
  BY DEF Inv, Idle
<1>2. q.msg.sig = sign(Secret, q.msg.body, q.msg.ts) /\ q.body = q.msg.body /\ Recent(q)
  BY <1>1 DEF Established
<1>3. PICK s \in signed : q.msg.sig = sign(Secret, s.body, s.ts)
  BY <1>1, <1>2 DEF Established, Genuine, sign
<1>4. s.body = q.body /\ s.ts = q.msg.ts
  <2>1. sign(Secret, s.body, s.ts) = sign(Secret, q.msg.body, q.msg.ts)
    BY <1>2, <1>3
  <2> QED BY <2>1, <1>2, SignInjective
<1>5. s.at \in Int /\ s.ts = Unix(s.at) /\ s.ts \in Int
  BY DEF Inv, Signings
<1>6. q.at \in Int /\ ReplayWindow \in Int /\ TicksPerSecond \in Int
  BY <1>1, ReplayWindowType, WindowAssumption DEF Verifications
<1>7. s.ts * TicksPerSecond <= s.at /\ s.at < s.ts * TicksPerSecond + TicksPerSecond
  BY <1>5, UnixBounds
<1>8. Abs(q.at - s.ts * TicksPerSecond) <= ReplayWindow
  BY <1>2, <1>4 DEF Recent
<1> DEFINE base == s.ts * TicksPerSecond
<1>9. base \in Int
  BY <1>5, <1>6
<1> HIDE DEF base
<1>10. Abs(q.at - s.at) < ReplayWindow + TicksPerSecond
  <2>1. base <= s.at /\ s.at < base + TicksPerSecond /\ Abs(q.at - base) <= ReplayWindow
    BY <1>7, <1>8 DEF base
  <2> QED BY <2>1, <1>5, <1>6, <1>9 DEF Abs
<1> QED BY <1>4, <1>10

LEMMA InvTimely == Inv => TimelyIsHandled
<1> SUFFICES ASSUME Inv, NEW p \in Procs, srv[p].pc = "401", ~srv[p].broken, srv[p].first,
                    NEW s \in signed, srv[p].msg = Signed(s)
             PROVE  Abs(srv[p].at - s.at) > ReplayWindow - TicksPerSecond
  BY DEF TimelyIsHandled
<1> DEFINE q == srv[p]
<1>1. q \in Verifications /\ Established(q)
  BY DEF Inv, Idle
<1>2. s.at \in Int /\ s.ts = Unix(s.at) /\ s.ts \in Int /\ s \in Signings
  BY DEF Inv, Signings
<1>3. q.msg.sig = sign(Secret, s.body, s.ts) /\ q.msg.ts = s.ts /\ q.msg.body = s.body
  BY DEF Signed
<1>4. q.msg.sig # NoSignature
  BY <1>3, WindowAssumption DEF NoSignature, sign
<1>5. ~Recent(q)
  BY <1>1, <1>3, <1>4 DEF Established
<1>6. q.at \in Int /\ ReplayWindow \in Int /\ TicksPerSecond \in Int
  BY <1>1, ReplayWindowType, WindowAssumption DEF Verifications
<1>7. s.ts * TicksPerSecond <= s.at /\ s.at < s.ts * TicksPerSecond + TicksPerSecond
  BY <1>2, UnixBounds
<1> DEFINE base == s.ts * TicksPerSecond
<1>8. base \in Int
  BY <1>2, <1>6
<1>9. ~(Abs(q.at - base) <= ReplayWindow)
  BY <1>2, <1>3, <1>5 DEF Recent
<1>10. base <= s.at /\ s.at < base + TicksPerSecond
  BY <1>7
<1> HIDE DEF base
<1> QED BY <1>2, <1>6, <1>8, <1>9, <1>10 DEF Abs

\* reqsign.Middleware hands a handler only what SigningTransport signed under this secret,
\* within the replay window and the second lost to truncation, whatever the network does.
THEOREM HandledTheorem == Spec => []HandledWasSigned
BY InvariantHolds, InvHandled, PTL

\* reqsign.Middleware refuses no request that arrives unaltered, in time and for the first
\* time, unless its body cannot be read.
THEOREM TimelyTheorem == Spec => []TimelyIsHandled
BY InvariantHolds, InvTimely, PTL

-----------------------------------------------------------------------------
(* The clock.  Inv does not need to know where the clock stands; the bounds  *)
(* of TypeOK and the codes of otp do.                                        *)

ClockInv ==
  /\ now \in 0..MaxTime
  /\ \A p \in Procs : srv[p] # Idle => srv[p].at \in 0..now

LEMMA NextClock == Inv /\ Inv' /\ ClockInv /\ [Next]_vars => ClockInv'
<1> SUFFICES ASSUME Inv, Inv', ClockInv, [Next]_vars PROVE ClockInv'
  OBVIOUS
\* A step of one verification: it keeps the time of its check, or takes it now.
<1>0. ASSUME NEW p \in Procs, NEW q, q = Idle \/ q.at = srv[p].at \/ q.at = now \/ q.at = 0,
             srv[p] # Idle \/ q = Idle \/ q.at = now \/ q.at = 0,
             srv' = [srv EXCEPT ![p] = q], now' = now
      PROVE  ClockInv'
  BY <1>0, WindowAssumption DEF ClockInv, Inv
<1>1. CASE UNCHANGED vars
  BY <1>1 DEF vars, ClockInv
<1>2. CASE \E body \in Bodies \cup {NoBody}, clock \in OtherClock : RoundTrip(body, clock)
  BY <1>2 DEF RoundTrip, ClockInv
<1>3. CASE \E m \in net : Alter(m)
  BY <1>3 DEF Alter, ClockInv
<1>4. ASSUME NEW m \in net, NEW p \in Procs, Deliver(p, m) PROVE ClockInv'
  <2> DEFINE first == m \notin delivered
             q == [pc |-> "headers", msg |-> m, at |-> 0, body |-> NoBody, broken |-> FALSE,
                   first |-> first]
  <2>1. srv' = [srv EXCEPT ![p] = q] /\ now' = now /\ q.at = 0
    BY <1>4 DEF Deliver
  <2> HIDE DEF q
  <2> QED BY <2>1, <1>0
<1>5. ASSUME NEW p \in Procs, CheckTimestamp(p) PROVE ClockInv'
  <2>1. srv[p] \in Verifications /\ srv[p] # Idle /\ now' = now
    BY <1>5, IdleIsNoVerification DEF CheckTimestamp, Inv, Idle
  <2>2. PICK v \in {"401", "body"} : srv' = [srv EXCEPT ![p].pc = v, ![p].at = now]
    BY <1>5 DEF CheckTimestamp
  <2> DEFINE q == [srv[p] EXCEPT !.pc = v, !.at = now]
  <2>3. srv' = [srv EXCEPT ![p] = q] /\ q.at = now
    BY <2>1, <2>2 DEF Inv, Verifications
  <2> HIDE DEF q
  <2> QED BY <2>1, <2>3, <1>0
<1>6. ASSUME NEW p \in Procs, ReadAndVerify(p) \/ ReadFails(p) PROVE ClockInv'
  <2>1. srv[p] \in Verifications /\ srv[p] # Idle /\ now' = now
    BY <1>6, IdleIsNoVerification DEF ReadAndVerify, ReadFails, Inv, Idle
  <2>2. srv'[p].at = srv[p].at /\ srv' = [srv EXCEPT ![p] = srv'[p]]
    BY <1>6, <2>1 DEF ReadAndVerify, ReadFails, Fail, Inv, Verifications
  <2> QED BY <2>1, <2>2, <1>0
<1>7. ASSUME NEW p \in Procs, Return(p) PROVE ClockInv'
  BY <1>7, <1>0 DEF Return
<1>8. CASE Tick
  BY <1>8, WindowAssumption DEF Tick, ClockInv
<1> QED BY <1>1, <1>2, <1>3, <1>4, <1>5, <1>6, <1>7, <1>8 DEF Next

LEMMA ClockHolds == Spec => []ClockInv
<1>1. Init => ClockInv
  BY WindowAssumption DEF Init, ClockInv
<1> QED BY <1>1, NextClock, InvariantHolds, PTL DEF Spec

\* Clocks and the records of requests under way stay what the middleware and SigningTransport
\* take them for; a check is never made at a time that has not come.
THEOREM TypeCorrect == Spec => []TypeOK
<1>1. Inv /\ ClockInv => TypeOK
  BY DEF Inv, ClockInv, TypeOK, Signings, Contents, Verifications
<1> QED BY <1>1, InvariantHolds, ClockHolds, PTL

-----------------------------------------------------------------------------
(* otp.                                                                      *)

\* The step of time t, in whole periods since the epoch.
Period(t) == Unix(t) \div period

LEMMA OptionTypes ==
  /\ period \in Nat \ {0} /\ skew \in Nat /\ skew <= OTPOptions.Skew + DefaultSkew
  /\ Step \in Nat \ {0}
<1>1. period \in Nat \ {0} /\ skew \in Nat /\ skew <= OTPOptions.Skew + DefaultSkew
  BY WindowAssumption DEF period, skew
<1>2. Step \in Nat \ {0}
  BY <1>1, WindowAssumption DEF Step
<1> QED BY <1>1, <1>2

\* Division rounds down.
LEMMA DivBounds ==
  ASSUME NEW a \in Nat, NEW d \in Nat \ {0}
  PROVE  a \div d \in Nat /\ (a \div d) * d <= a /\ a < (a \div d) * d + d /\ a \div d <= a
OBVIOUS

LEMMA PeriodBounds ==
  ASSUME NEW t \in Nat
  PROVE  /\ Period(t) \in Nat /\ Period(t) <= t
         /\ Period(t) * Step <= t /\ t < Period(t) * Step + Step
<1> DEFINE u == Unix(t)
           c == Period(t)
<1>1. u \in Nat /\ u <= t /\ u * TicksPerSecond <= t /\ t < u * TicksPerSecond + TicksPerSecond
  BY WindowAssumption, DivBounds DEF Unix
<1>2. c \in Nat /\ c <= u /\ c * period <= u /\ u < c * period + period
  BY <1>1, OptionTypes, DivBounds DEF Period
<1>3. (c * period) * TicksPerSecond = c * Step /\ period * TicksPerSecond = Step
  BY <1>2, OptionTypes, WindowAssumption DEF Step
<1> DEFINE v == c * period
<1>4. v \in Nat /\ v <= u /\ u + 1 <= v + period
  BY <1>1, <1>2, OptionTypes
<1> HIDE DEF u, v
<1>5. v * TicksPerSecond <= u * TicksPerSecond
  BY <1>1, <1>4, WindowAssumption
<1>6. (u + 1) * TicksPerSecond <= (v + period) * TicksPerSecond
  BY <1>1, <1>4, OptionTypes, WindowAssumption
<1>7. /\ (u + 1) * TicksPerSecond = u * TicksPerSecond + TicksPerSecond
      /\ (v + period) * TicksPerSecond = v * TicksPerSecond + Step
  BY <1>1, <1>3, <1>4, OptionTypes, WindowAssumption
<1>8. v * TicksPerSecond = c * Step
  BY <1>3 DEF v
<1> DEFINE vt == v * TicksPerSecond
           ut == u * TicksPerSecond
<1>9. vt \in Nat /\ ut \in Nat /\ Step \in Nat /\ TicksPerSecond \in Nat
  BY <1>1, <1>4, OptionTypes, WindowAssumption
<1>10. vt <= ut /\ ut + TicksPerSecond <= vt + Step /\ ut <= t /\ t < ut + TicksPerSecond
  BY <1>1, <1>5, <1>6, <1>7
<1> HIDE DEF vt, ut
<1>11. vt <= t /\ t < vt + Step
  BY <1>9, <1>10
<1> QED BY <1>1, <1>2, <1>8, <1>11 DEF vt

\* Within n steps of each other in time means within n periods, and within n periods means
\* less than n + 1 steps apart in time.
LEMMA PeriodsApart ==
  ASSUME NEW t \in Nat, NEW u \in Nat, NEW n \in Nat
  PROVE  /\ t - u <= n * Step => Period(t) - Period(u) <= n
         /\ Period(t) - Period(u) <= n => t - u < (n + 1) * Step
<1> DEFINE a == Period(t)
           b == Period(u)
<1>1. a \in Nat /\ b \in Nat /\ a * Step <= t /\ t < a * Step + Step
      /\ b * Step <= u /\ u < b * Step + Step
  BY PeriodBounds
<1> HIDE DEF a, b
<1>2. ASSUME t - u <= n * Step, ~(a - b <= n) PROVE FALSE
  <2>1. b + n + 1 <= a
    BY <1>1, <1>2
  <2>2. (b + n + 1) * Step <= a * Step
    BY <2>1, <1>1, OptionTypes
  <2>3. (b + n + 1) * Step = b * Step + n * Step + Step
    BY <1>1, OptionTypes
  <2>4. a * Step \in Nat /\ b * Step \in Nat /\ n * Step \in Nat
    BY <1>1, OptionTypes
  <2> QED BY <2>2, <2>3, <2>4, <1>1, <1>2, OptionTypes
<1>3. ASSUME a - b <= n PROVE t - u < (n + 1) * Step
  <2>1. a <= b + n
    BY <1>1, <1>3
  <2>2. a * Step <= (b + n) * Step
    BY <2>1, <1>1, OptionTypes
  <2>3. (b + n) * Step = b * Step + n * Step /\ (n + 1) * Step = n * Step + Step
    BY <1>1, OptionTypes
  <2>4. a * Step \in Nat /\ b * Step \in Nat /\ n * Step \in Nat
    BY <1>1, OptionTypes
  <2> QED BY <2>2, <2>3, <2>4, <1>1, OptionTypes
<1> QED BY <1>2, <1>3, PeriodBounds DEF a, b

\* Adding the offset to the unsigned counter finds a period that has come or will come, and
\* before the epoch only counters that nobody's clock shows.
LEMMA CounterWraps ==
  ASSUME NEW a \in Nat, NEW b \in Nat, NEW i \in Int,
         a < CounterMod, b + i < CounterMod, a - (b + i) < CounterMod
  PROVE  a = (b + i) % CounterMod <=> a = b + i
<1>1. CASE b + i >= 0
  BY <1>1, WindowAssumption
<1>2. CASE b + i < 0
  <2>1. b + i + CounterMod \in 0..(CounterMod - 1)
    BY <1>2, WindowAssumption
  <2>2. (b + i) % CounterMod = b + i + CounterMod
    BY <1>2, <2>1, WindowAssumption
  <2> QED BY <1>2, <2>2, WindowAssumption
<1> QED BY <1>1, <1>2

\* VerifyWithOptions accepts a code exactly if its period is at most skew from the clock's.
LEMMA AcceptedIs ==
  ASSUME ClockInv, NEW t \in 0..(MaxTime + MaxDrift)
  PROVE  VerifyWithOptions(CodeAt(t)) <=> Period(t) - Period(now) <= skew
                                          /\ Period(now) - Period(t) <= skew
<1> DEFINE a == Period(t)
           b == Period(now)
<1>1. t \in Nat /\ now \in Nat /\ now <= MaxTime /\ t <= MaxTime + MaxDrift
  BY WindowAssumption DEF ClockInv
<1>2. a \in Nat /\ b \in Nat /\ a <= t /\ b <= now
  BY <1>1, PeriodBounds
<1>3. counterFor(t, period) = a % CounterMod /\ counterFor(now, period) = b % CounterMod
  BY DEF counterFor, Period
<1> HIDE DEF a, b
<1>4. a < CounterMod /\ b < CounterMod
  BY <1>1, <1>2, WindowAssumption
<1>5. counterFor(t, period) = a /\ counterFor(now, period) = b
  BY <1>2, <1>3, <1>4, WindowAssumption
<1>6. VerifyWithOptions(CodeAt(t)) <=> \E i \in (-skew)..skew : a = (b + i) % CounterMod
  BY <1>5 DEF VerifyWithOptions, CodeAt, generateHOTP
<1>7. ASSUME NEW i \in (-skew)..skew PROVE a = (b + i) % CounterMod <=> a = b + i
  <2>1. i \in Int /\ i <= skew /\ -skew <= i
    BY OptionTypes
  <2>2. b + i < CounterMod /\ a - (b + i) < CounterMod
    BY <2>1, <1>1, <1>2, OptionTypes, WindowAssumption
  <2> QED BY <2>1, <2>2, <1>2, <1>4, CounterWraps
<1>8. VerifyWithOptions(CodeAt(t)) <=> \E i \in (-skew)..skew : a = b + i
  BY <1>6, <1>7
<1>9. (\E i \in (-skew)..skew : a = b + i) <=> a - b <= skew /\ b - a <= skew
  <2>1. ASSUME a - b <= skew, b - a <= skew PROVE \E i \in (-skew)..skew : a = b + i
    <3>1. a - b \in (-skew)..skew /\ a = b + (a - b)
      BY <2>1, <1>2, OptionTypes
    <3> QED BY <3>1
  <2>2. ASSUME NEW i \in (-skew)..skew, a = b + i PROVE a - b <= skew /\ b - a <= skew
    BY <2>2, <1>2, OptionTypes
  <2> QED BY <2>1, <2>2
<1> QED BY <1>8, <1>9 DEF a, b

LEMMA InvCodes == ClockInv => CodesLiveTheirWindow
<1> SUFFICES ASSUME ClockInv, NEW t \in 0..(MaxTime + MaxDrift)
             PROVE  /\ Abs(t - now) <= skew * Step => VerifyWithOptions(CodeAt(t))
                    /\ VerifyWithOptions(CodeAt(t)) => Abs(t - now) < (skew + 1) * Step
  BY DEF CodesLiveTheirWindow
<1>1. t \in Nat /\ now \in Nat /\ skew \in Nat
  BY OptionTypes, WindowAssumption DEF ClockInv
<1> DEFINE near == skew * Step
           far  == (skew + 1) * Step
<1>2. near \in Nat /\ far \in Nat
  BY <1>1, OptionTypes
<1>3. /\ t - now <= near => Period(t) - Period(now) <= skew
      /\ now - t <= near => Period(now) - Period(t) <= skew
      /\ Period(t) - Period(now) <= skew => t - now < far
      /\ Period(now) - Period(t) <= skew => now - t < far
  BY <1>1, PeriodsApart
<1> HIDE DEF near, far
<1>4. Abs(t - now) <= near => t - now <= near /\ now - t <= near
  BY <1>1, <1>2 DEF Abs
<1>5. t - now < far /\ now - t < far => Abs(t - now) < far
  BY <1>1, <1>2 DEF Abs
<1>6. /\ Abs(t - now) <= near => VerifyWithOptions(CodeAt(t))
      /\ VerifyWithOptions(CodeAt(t)) => Abs(t - now) < far
  BY <1>3, <1>4, <1>5, AcceptedIs
<1> QED BY <1>6 DEF near, far

\* otp.VerifyWithOptions accepts a code for Skew whole periods to either side of the time it
\* was read at and for none of the periods after Skew + 1, for every period, skew, number of
\* digits and resolution of the clock; the wrap of the unsigned counter below the epoch lets
\* no code in.
THEOREM CodesTheorem == Spec => []CodesLiveTheirWindow
BY ClockHolds, InvCodes, PTL
=============================================================================
