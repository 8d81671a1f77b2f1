-------------------------- MODULE RateLimiterProofs -------------------------
(***************************************************************************)
(* Proofs about RateLimiter, for every set of limiters that share a store, *)
(* every number of goroutines, keys and buckets, and every clock.          *)
(***************************************************************************)
EXTENDS RateLimiter, TLAPS

-----------------------------------------------------------------------------
(* Arithmetic of bucket.inc.                                                 *)

LEMMA QuotientNat ==
  ASSUME NEW a \in Nat, NEW w \in Nat \ {0}
  PROVE  a \div w \in Nat /\ (a = 0 => a \div w = 0)
OBVIOUS

\* Truncation of the weighted counter never yields less than 0, and nothing of nothing.
LEMMA WeightedNat ==
  ASSUME NEW prev \in Nat, NEW rest \in Nat, NEW window \in Nat \ {0},
         NEW w \in Weighted(prev, rest, window)
  PROVE  w \in Nat /\ (prev = 0 \/ rest = 0 => w = 0)
<1> DEFINE a == prev * rest
           q == a \div window
<1>1. a \in Nat /\ (prev = 0 \/ rest = 0 => a = 0)
  OBVIOUS
<1> HIDE DEF a
<1>2. q \in Nat /\ (a = 0 => q = 0)
  BY <1>1, QuotientNat
<1>3. w = q \/ (q > 0 /\ w = q - 1)
  BY DEF Weighted, a
<1> HIDE DEF q
<1> QED
  BY <1>1, <1>2, <1>3

Rotates(b, t) == t - b.windowStart >= b.window

\* The counters after a request: a rotation starts a window that is not in the future.
LEMMA RotatedBucket ==
  ASSUME NEW b \in Bucket, NEW t \in Nat
  PROVE  /\ Rotated(b, t) \in Bucket
         /\ Rotated(b, t).window = b.window
         /\ Rotates(b, t) => /\ Rotated(b, t).curr = 1
                             /\ Rotated(b, t).prev \in {0, b.curr}
                             /\ Rotated(b, t).windowStart <= t
                             /\ Rotated(b, t).windowStart >= b.windowStart + b.window
                             /\ t < Rotated(b, t).windowStart + b.window
         /\ ~Rotates(b, t) => /\ Rotated(b, t).curr = b.curr + 1
                              /\ Rotated(b, t).prev = b.prev
                              /\ Rotated(b, t).windowStart = b.windowStart
<1> DEFINE e == t - b.windowStart
<1>1. /\ b.prev \in Nat /\ b.curr \in Nat /\ b.windowStart \in Nat /\ b.window \in Nat \ {0}
      /\ e \in Int
  BY DEF Bucket
<1>2. CASE e >= 2 * b.window
  <2>1. Rotated(b, t) = [b EXCEPT !.prev = 0, !.curr = 1, !.windowStart = t]
    BY <1>1, <1>2 DEF Rotated
  <2> QED
    <3>1. Rotates(b, t) /\ t <= t /\ t >= b.windowStart + b.window /\ t < t + b.window
      BY <1>1, <1>2 DEF Rotates
    <3> DEFINE x == 0
               y == 1
    <3>2. x \in Nat /\ y \in Nat
      OBVIOUS
    <3>3. Rotated(b, t) = [b EXCEPT !.prev = x, !.curr = y, !.windowStart = t]
      BY <2>1
    <3> HIDE DEF x, y
    <3>4. /\ Rotated(b, t) \in Bucket
          /\ Rotated(b, t).window = b.window /\ Rotated(b, t).prev = x
          /\ Rotated(b, t).curr = y /\ Rotated(b, t).windowStart = t
      BY <3>2, <3>3 DEF Bucket
    <3> QED
      BY <3>1, <3>4 DEF x, y
<1>3. CASE e >= b.window /\ e < 2 * b.window
  <2>1. Rotated(b, t) = [b EXCEPT !.prev = b.curr, !.curr = 1, !.windowStart = b.windowStart + b.window]
    BY <1>1, <1>3 DEF Rotated
  <2> QED
    <3>1. /\ Rotates(b, t) /\ b.windowStart + b.window \in Nat /\ b.windowStart + b.window <= t
          /\ t < b.windowStart + b.window + b.window
      BY <1>1, <1>3 DEF Rotates
    <3> DEFINE y == 1
               z == b.windowStart + b.window
    <3>2. y \in Nat /\ z \in Nat
      BY <3>1
    <3>3. Rotated(b, t) = [b EXCEPT !.prev = b.curr, !.curr = y, !.windowStart = z]
      BY <2>1
    <3> HIDE DEF y, z
    <3>4. /\ Rotated(b, t) \in Bucket
          /\ Rotated(b, t).window = b.window /\ Rotated(b, t).prev = b.curr
          /\ Rotated(b, t).curr = y /\ Rotated(b, t).windowStart = z
      BY <1>1, <3>2, <3>3 DEF Bucket
    <3>5. z >= b.windowStart + b.window /\ z <= t /\ t < z + b.window
      BY <1>1, <3>1 DEF z
    <3> QED
      BY <3>1, <3>4, <3>5 DEF y
<1>4. CASE e < b.window
  <2>1. Rotated(b, t) = [b EXCEPT !.curr = b.curr + 1]
    BY <1>1, <1>4 DEF Rotated
  <2> QED
    BY <1>1, <1>4, <2>1 DEF Bucket, Rotates
<1> QED
  BY <1>1, <1>2, <1>3, <1>4

\* What inc returns is at least the counter of the current window, and 1 for a request that
\* opens a window or finds empty counters.
LEMMA EstimateBound ==
  ASSUME NEW b \in Bucket, NEW t \in Nat, NEW count \in Estimates(b, t)
  PROVE  /\ count \in Int /\ count >= Rotated(b, t).curr
         /\ Rotates(b, t) \/ (b.prev = 0 /\ b.curr = 0) => count = 1
<1> DEFINE new == Rotated(b, t)
           rest == b.window - (t - b.windowStart)
           r == IF rest < 0 THEN 0 ELSE rest
<1>1. /\ b.prev \in Nat /\ b.curr \in Nat /\ b.windowStart \in Nat /\ b.window \in Nat \ {0}
  BY DEF Bucket
<1>2. r \in Nat /\ (Rotates(b, t) => r = 0)
  BY <1>1 DEF Rotates
<1>3. new.prev \in Nat /\ new.curr \in Nat
  BY RotatedBucket DEF Bucket
<1>4. PICK w \in Weighted(new.prev, r, b.window) : count = w + new.curr
  BY DEF Estimates
<1> HIDE DEF r
<1>5. w \in Nat /\ (new.prev = 0 \/ r = 0 => w = 0)
  BY <1>1, <1>2, <1>3, <1>4, WeightedNat
<1>6. CASE Rotates(b, t)
  BY <1>2, <1>3, <1>4, <1>5, <1>6, RotatedBucket
<1>7. CASE ~Rotates(b, t)
  <2>1. new.prev = b.prev /\ new.curr = b.curr + 1
    BY <1>7, RotatedBucket
  <2> HIDE DEF new
  <2> QED
    BY <1>1, <1>3, <1>4, <1>5, <1>7, <2>1 DEF new
<1> QED
  BY <1>6, <1>7

-----------------------------------------------------------------------------
(* The inductive invariant.                                                  *)

\* The admitted are among the counted; a bucket nothing was counted in is empty; a window
\* began no later than the last request counted in it.
BucketOK(b) ==
  /\ heap[b].windowStart <= now
  /\ hist[b].adm <= heap[b].curr
  /\ hist[b].last = -1 => heap[b].prev = 0 /\ heap[b].curr = 0
  /\ hist[b].last # -1 => heap[b].windowStart <= hist[b].last

\* What SlidingCap rests on.  G[t] counts the requests timed at t or before; the window began
\* at s.  Of those timed since then no more were admitted than the window has admitted, none
\* is timed after it, and the interval before it holds no more than a limit.
Tally(h) == [t \in Int |-> Upto(h, t)]

Sliding(G, s, w, adm) ==
  /\ \A t \in Int : G[t] \in Nat
  /\ \A t, u \in Int : t <= u => G[t] <= G[u]
  /\ \A t \in Int : t >= s => G[t] - G[s - 1] <= adm
  /\ \A t \in Int : t >= s + w - 1 => G[t] = G[s + w - 1]
  /\ \A t \in Int : s - w <= t /\ t < s => \E l \in Limiters : G[s - 1] - G[t - 1] <= l.limit
  /\ \A t \in Int : \E l \in Limiters : G[t + w - 1] - G[t - 1] <= 2 * l.limit

SlidingOK(b) == Sliding(Tally(hist[b]), heap[b].windowStart, heap[b].window, hist[b].adm)

\* A request holds a bucket until it is answered; one that has read the clock has read it
\* after the bucket was created.  One that was refused was not alone in its window.
RequestOK(r) ==
  /\ r.pc \in {"located", "sampled"} => r.b \in DOMAIN heap
  /\ r.pc = "sampled" => /\ r.t <= now
                         /\ hist[r.b].last = -1 => heap[r.b].windowStart <= r.t
  /\ r.pc = "limited" /\ Counted(r) => r.before > r.t - heap[r.b].window

Inv ==
  /\ TypeOK
  /\ \A b \in DOMAIN heap : BucketOK(b)
  /\ \A b \in Buckets \ DOMAIN heap : hist[b] = NoHist
  /\ \A p \in Procs : RequestOK(reqs[p])
  /\ WindowCap
  /\ \A b \in DOMAIN heap : SlidingOK(b)

Capped(adm) == adm = 0 \/ \E l \in Limiters : adm <= l.limit

\* A request is counted at clock reading r, in the window that begins at s2; n is 1 if it is
\* admitted and r is not before s2.
Moves(G, H, s, s2, w, adm, adm2, r, n) ==
  /\ s \in Nat /\ s2 \in Nat /\ w \in Nat \ {0} /\ adm \in Nat /\ adm2 \in Nat
  /\ r \in Nat /\ n \in {0, 1}
  /\ Sliding(G, s, w, adm) /\ Capped(adm) /\ Capped(adm2)
  /\ \A t \in Int : H[t] = G[t] + (IF r <= t THEN n ELSE 0)
  /\ n = 1 => s2 <= r /\ r < s2 + w
  /\ \/ s2 = s /\ adm2 >= adm + n
     \/ s2 >= s + w /\ s2 <= r /\ adm2 >= n

LEMMA SlidingStep ==
  ASSUME NEW G, NEW H, NEW s, NEW s2, NEW w, NEW adm, NEW adm2, NEW r, NEW n,
         Moves(G, H, s, s2, w, adm, adm2, r, n)
  PROVE  Sliding(H, s2, w, adm2)
<1>0. /\ s \in Nat /\ s2 \in Nat /\ w \in Nat \ {0} /\ adm \in Nat /\ adm2 \in Nat
      /\ r \in Nat /\ n \in {0, 1} /\ Sliding(G, s, w, adm)
      /\ adm = 0 \/ \E l \in Limiters : adm <= l.limit
      /\ adm2 = 0 \/ \E l \in Limiters : adm2 <= l.limit
      /\ \A t \in Int : H[t] = G[t] + (IF r <= t THEN n ELSE 0)
      /\ n = 1 => s2 <= r /\ r < s2 + w
      /\ \/ s2 = s /\ adm2 >= adm + n
         \/ s2 >= s + w /\ s2 <= r /\ adm2 >= n
  BY DEF Moves, Capped
<1> USE <1>0
<1> USE LimiterAssumption
<1>1. \A t \in Int : H[t] \in Nat
  BY DEF Sliding
<1>2. \A t, u \in Int : t <= u => H[t] <= H[u]
  BY DEF Sliding
<1>3. H[s2 - 1] = G[s2 - 1]
  BY DEF Sliding
<1>4. ASSUME NEW t \in Int, t >= s2 PROVE H[t] - H[s2 - 1] <= adm2
  BY <1>3, <1>4 DEF Sliding
<1>5. ASSUME NEW t \in Int, t >= s2 + w - 1 PROVE H[t] = H[s2 + w - 1]
  BY <1>5 DEF Sliding
<1>6. ASSUME NEW t \in Int, s2 - w <= t, t < s2
      PROVE  \E l \in Limiters : H[s2 - 1] - H[t - 1] <= l.limit
  BY <1>3, <1>6 DEF Sliding
<1>7. ASSUME NEW t \in Int PROVE \E l \in Limiters : H[t + w - 1] - H[t - 1] <= 2 * l.limit
  <2>1. PICK k \in Limiters : G[t + w - 1] - G[t - 1] <= 2 * k.limit
    BY DEF Sliding
  <2>2. /\ t + w - 1 \in Int /\ t - 1 \in Int /\ s2 - 1 \in Int /\ \A l \in Limiters : l.limit \in Nat
        /\ H[t + w - 1] \in Nat /\ H[t - 1] \in Nat /\ H[s2 - 1] \in Nat
        /\ G[t + w - 1] \in Nat /\ G[t - 1] \in Nat
    <3>1. t + w - 1 \in Int /\ t - 1 \in Int /\ s2 - 1 \in Int
      OBVIOUS
    <3> QED BY <1>1, <3>1 DEF Sliding
  <2>3. /\ H[t + w - 1] = G[t + w - 1] + (IF r <= t + w - 1 THEN n ELSE 0)
        /\ H[t - 1] = G[t - 1] + (IF r <= t - 1 THEN n ELSE 0)
    BY <2>2
  <2>4. CASE ~(n = 1 /\ t <= r /\ r <= t + w - 1)
    BY <2>1, <2>2, <2>3, <2>4
  <2>5. CASE n = 1 /\ t <= r /\ r <= t + w - 1
    <3>1. s2 <= r /\ adm2 # 0
      BY <2>5
    <3>2. PICK l \in Limiters : adm2 <= l.limit
      BY <3>1
    <3>3. t + w - 1 >= s2 /\ s2 - w <= t
      BY <2>5, <3>1
    <3>4. H[t + w - 1] - H[s2 - 1] <= adm2
      BY <1>4, <2>2, <3>3
    <3>5. CASE t >= s2
      <4>1. H[s2 - 1] <= H[t - 1]
        BY <1>2, <2>2, <3>5
      <4> QED BY <2>2, <3>2, <3>4, <4>1
    <3>6. CASE t < s2
      <4>1. PICK j \in Limiters : H[s2 - 1] - H[t - 1] <= j.limit
        BY <1>6, <3>3, <3>6
      <4>2. j.limit \in Nat /\ l.limit \in Nat
        BY <2>2
      <4>3. H[t + w - 1] - H[t - 1] <= 2 * j.limit \/ H[t + w - 1] - H[t - 1] <= 2 * l.limit
        BY <2>2, <3>2, <3>4, <4>1, <4>2
      <4> QED BY <4>3
    <3> QED BY <3>5, <3>6
  <2> QED BY <2>4, <2>5
<1> QED
  BY <1>1, <1>2, <1>4, <1>5, <1>6, <1>7 DEF Sliding

LEMMA IdleType == Idle \in Request
<1>1. (CHOOSE l \in Limiters : TRUE) \in Limiters /\ (CHOOSE k \in Keys : TRUE) \in Keys
  BY LimiterAssumption
<1> QED
  BY <1>1, LimiterAssumption DEF Idle, Request

LEMMA NoHistType == NoHist \in Hist
BY DEF NoHist, Hist

\* A bucket nothing was counted in.
LEMMA NoHistSlides ==
  ASSUME NEW s \in Nat, NEW w \in Nat \ {0}
  PROVE  Sliding(Tally(NoHist), s, w, 0)
<1> DEFINE G == Tally(NoHist)
<1>1. \A t \in Int : G[t] = 0
  BY LimiterAssumption DEF Tally, Upto, NoHist
<1> HIDE DEF G
<1>2. PICK l \in Limiters : l.limit \in Nat
  BY LimiterAssumption
<1>3. Sliding(G, s, w, 0)
  BY <1>1, <1>2 DEF Sliding
<1> QED BY <1>3 DEF G

\* What a request timed at r adds to the tally.
LEMMA TallyStep ==
  ASSUME NEW g, NEW h, NEW r \in 0 .. MaxTime, NEW n \in {0, 1}, g.upto \in [0 .. MaxTime -> Nat],
         \A t \in 0 .. MaxTime : h.upto[t] = g.upto[t] + (IF r <= t THEN n ELSE 0)
  PROVE  \A t \in Int : Tally(h)[t] = Tally(g)[t] + (IF r <= t THEN n ELSE 0)
<1> SUFFICES ASSUME NEW t \in Int
             PROVE  Upto(h, t) = Upto(g, t) + (IF r <= t THEN n ELSE 0)
  BY DEF Tally
<1> USE LimiterAssumption
<1>1. CASE t < 0
  BY <1>1 DEF Upto
<1>2. CASE t >= 0 /\ t <= MaxTime
  <2>1. t \in 0 .. MaxTime
    BY <1>2
  <2>2. Upto(h, t) = h.upto[t] /\ Upto(g, t) = g.upto[t]
    BY <1>2 DEF Upto
  <2> QED BY <2>1, <2>2
<1>3. CASE t > MaxTime
  <2>1. MaxTime \in 0 .. MaxTime /\ r <= t /\ r <= MaxTime
    BY <1>3
  <2>2. Upto(h, t) = h.upto[MaxTime] /\ Upto(g, t) = g.upto[MaxTime]
    BY <1>3 DEF Upto
  <2> QED BY <2>1, <2>2
<1> QED BY <1>1, <1>2, <1>3

LEMMA InitInv == Init => Inv
<1> SUFFICES ASSUME Init PROVE Inv
  OBVIOUS
<1>1. TypeOK
  <2>1. reqs \in [Procs -> Request] /\ \A p \in Procs : reqs[p].b = NoBucket
    BY IdleType DEF Init, Idle
  <2>2. hist \in [Buckets -> Hist]
    BY NoHistType DEF Init
  <2>3. DOMAIN heap = {} /\ heap \in [DOMAIN heap -> Bucket]
    BY DEF Init
  <2>4. now \in 0 .. MaxTime /\ sent \in Nat
    BY LimiterAssumption DEF Init
  <2> QED
    BY <2>1, <2>2, <2>3, <2>4 DEF Init, TypeOK
<1>2. \A p \in Procs : RequestOK(reqs[p])
  BY DEF Init, RequestOK, Idle
<1>3. WindowCap
  BY DEF Init, WindowCap, NoHist
<1> QED
  BY <1>1, <1>2, <1>3 DEF Init, Inv

\* Steps that change nothing but one request.
LEMMA RequestStep ==
  ASSUME Inv, NEW p \in Procs, NEW r \in Request, RequestOK(r),
         r.b # NoBucket => r.b \in DOMAIN heap,
         reqs' = [reqs EXCEPT ![p] = r], UNCHANGED <<now, buckets, heap, sent, hist>>
  PROVE  Inv'
<1>1. TypeOK'
  BY DEF Inv, TypeOK
<1>2. \A q \in Procs : RequestOK(reqs[q])'
  BY DEF Inv, TypeOK, RequestOK, Counted
<1> QED
  BY <1>1, <1>2 DEF Inv, BucketOK, WindowCap, SlidingOK

LEMMA SampleInv ==
  ASSUME Inv, NEW p \in Procs, Sample(p)
  PROVE  Inv'
<1> DEFINE r == [reqs[p] EXCEPT !.pc = "sampled", !.t = now]
<1>1. /\ reqs[p] \in Request /\ reqs[p].pc = "located" /\ now \in 0 .. MaxTime
      /\ reqs[p].b \in DOMAIN heap
  BY DEF Inv, TypeOK, Sample, RequestOK
<1>2. r \in Request /\ r.pc = "sampled" /\ r.t = now /\ r.b = reqs[p].b
  BY <1>1 DEF Request
<1>3. reqs' = [reqs EXCEPT ![p] = r] /\ UNCHANGED <<now, buckets, heap, sent, hist>>
  BY DEF Sample
<1> HIDE DEF r
<1>4. RequestOK(r)
  BY <1>1, <1>2, LimiterAssumption DEF RequestOK, Inv, BucketOK
<1> QED
  BY <1>1, <1>2, <1>3, <1>4, RequestStep

LEMMA StoreErrorInv ==
  ASSUME Inv, NEW p \in Procs, NEW lim \in Limiters, NEW key \in Keys, StoreError(p, lim, key)
  PROVE  Inv'
<1> DEFINE r == [Idle EXCEPT !.pc = "limited", !.lim = lim, !.key = key]
<1>1. r \in Request /\ r.pc = "limited" /\ r.b = NoBucket
  BY IdleType DEF Idle, Request
<1>2. reqs' = [reqs EXCEPT ![p] = r] /\ UNCHANGED <<now, buckets, heap, sent, hist>>
  BY DEF StoreError
<1> HIDE DEF r
<1> QED
  BY <1>1, <1>2, RequestStep DEF RequestOK, Counted

LEMMA RespondInv ==
  ASSUME Inv, NEW p \in Procs, Respond(p)
  PROVE  Inv'
<1>1. Idle.b = NoBucket /\ RequestOK(Idle)
  BY DEF Idle, RequestOK
<1> QED
  BY <1>1, IdleType, RequestStep DEF Respond

LEMMA ResetInv ==
  ASSUME Inv, NEW key \in Keys, Reset(key)
  PROVE  Inv'
<1>1. TypeOK'
  BY DEF Inv, TypeOK, Reset
<1>2. \A q \in Procs : RequestOK(reqs[q])'
  BY DEF Inv, TypeOK, RequestOK, Counted, Reset
<1> QED
  BY <1>1, <1>2 DEF Inv, BucketOK, WindowCap, SlidingOK, Reset

LEMMA TickInv ==
  ASSUME Inv, Tick
  PROVE  Inv'
<1>1. TypeOK' /\ now \in Int
  BY LimiterAssumption DEF Inv, TypeOK, Tick
<1>2. ASSUME NEW q \in Procs PROVE RequestOK(reqs[q])'
  <2>1. reqs[q] \in Request /\ RequestOK(reqs[q])
    BY DEF Inv, TypeOK
  <2>2. reqs[q].t \in 0 .. MaxTime
    BY <2>1 DEF Request
  <2> QED
    BY <1>1, <2>1, <2>2, LimiterAssumption DEF RequestOK, Counted, Tick
<1>3. ASSUME NEW b \in DOMAIN heap PROVE BucketOK(b)'
  <2>1. heap[b].windowStart \in Nat /\ BucketOK(b)
    BY DEF Inv, TypeOK, Bucket
  <2> QED
    BY <1>1, <2>1 DEF BucketOK, Tick
<1> QED
  BY <1>1, <1>2, <1>3 DEF Inv, WindowCap, SlidingOK, Tick

\* A request finds its bucket or creates it, empty and with a window that begins now.
LEMMA LocateInv ==
  ASSUME Inv, NEW p \in Procs, NEW lim \in Limiters, NEW key \in Keys, Locate(p, lim, key)
  PROVE  Inv'
<1>1. PICK b \in Buckets :
        /\ \/ b = buckets[key] /\ UNCHANGED <<buckets, heap>>
           \/ /\ buckets[key] = NoBucket /\ b \notin DOMAIN heap
              /\ buckets' = [buckets EXCEPT ![key] = b]
              /\ heap' = [x \in DOMAIN heap \cup {b} |->
                            IF x = b THEN [prev |-> 0, curr |-> 0, windowStart |-> now,
                                           window |-> lim.window]
                            ELSE heap[x]]
        /\ reqs' = [reqs EXCEPT ![p] = [Idle EXCEPT !.pc = "located", !.lim = lim, !.key = key,
                                                    !.b = b]]
  BY DEF Locate
<1> DEFINE r == [Idle EXCEPT !.pc = "located", !.lim = lim, !.key = key, !.b = b]
<1>2. r \in Request /\ r.pc = "located" /\ r.b = b
  BY IdleType DEF Idle, Request
<1>3. reqs' = [reqs EXCEPT ![p] = r]
  BY <1>1
<1>4. sent' \in Nat /\ UNCHANGED <<now, hist>> /\ b # NoBucket
  BY LimiterAssumption DEF Locate, Inv, TypeOK
<1> HIDE DEF r
<1>5. /\ DOMAIN heap \subseteq DOMAIN heap' /\ b \in DOMAIN heap' /\ DOMAIN heap' \subseteq Buckets
      /\ heap' \in [DOMAIN heap' -> Bucket]
      /\ \A x \in DOMAIN heap : heap'[x] = heap[x]
      /\ \A x \in DOMAIN heap' \ DOMAIN heap :
           heap'[x].prev = 0 /\ heap'[x].curr = 0 /\ heap'[x].windowStart = now
      /\ buckets' \in [Keys -> Buckets \cup {NoBucket}]
      /\ \A k \in Keys : buckets'[k] # NoBucket => buckets'[k] \in DOMAIN heap'
  <2>1. CASE b = buckets[key] /\ UNCHANGED <<buckets, heap>>
    BY <1>4, <2>1 DEF Inv, TypeOK
  <2>2. CASE /\ buckets[key] = NoBucket /\ b \notin DOMAIN heap
             /\ buckets' = [buckets EXCEPT ![key] = b]
             /\ heap' = [x \in DOMAIN heap \cup {b} |->
                            IF x = b THEN [prev |-> 0, curr |-> 0, windowStart |-> now,
                                           window |-> lim.window]
                            ELSE heap[x]]
    <3> DEFINE n == [prev |-> 0, curr |-> 0, windowStart |-> now, window |-> lim.window]
    <3>1. n \in Bucket /\ n.prev = 0 /\ n.curr = 0 /\ n.windowStart = now
      BY LimiterAssumption DEF Bucket, Inv, TypeOK
    <3>2. heap' = [x \in DOMAIN heap \cup {b} |-> IF x = b THEN n ELSE heap[x]]
      BY <2>2
    <3> HIDE DEF n
    <3> QED
      BY <2>2, <3>1, <3>2 DEF Inv, TypeOK
  <2> QED
    BY <1>1, <2>1, <2>2
<1>6. TypeOK'
  BY <1>2, <1>3, <1>4, <1>5 DEF Inv, TypeOK
<1>7. ASSUME NEW x \in DOMAIN heap' PROVE BucketOK(x)'
  <2>1. CASE x \in DOMAIN heap
    BY <1>4, <1>5, <2>1 DEF Inv, BucketOK
  <2>2. CASE x \notin DOMAIN heap
    <3>1. hist[x] = NoHist
      BY <1>5, <2>2 DEF Inv
    <3> QED
      BY <1>4, <1>5, <2>2, <3>1, LimiterAssumption DEF Inv, TypeOK, BucketOK, NoHist
  <2> QED
    BY <2>1, <2>2
<1>8. ASSUME NEW q \in Procs PROVE RequestOK(reqs[q])'
  <2>1. CASE q = p
    BY <1>2, <1>3, <1>4, <1>5, <2>1 DEF Inv, TypeOK, RequestOK
  <2>2. CASE q # p
    <3>1. reqs'[q] = reqs[q] /\ RequestOK(reqs[q]) /\ reqs[q] \in Request
          /\ (reqs[q].b # NoBucket => reqs[q].b \in DOMAIN heap)
      BY <1>3, <2>2 DEF Inv, TypeOK
    <3> QED
      BY <1>4, <1>5, <3>1 DEF RequestOK, Counted
  <2> QED
    BY <2>1, <2>2
<1>9. WindowCap'
  BY <1>4 DEF Inv, WindowCap
<1>10. \A x \in Buckets \ DOMAIN heap' : hist'[x] = NoHist
  BY <1>4, <1>5 DEF Inv
<1>11. ASSUME NEW x \in DOMAIN heap' PROVE SlidingOK(x)'
  <2>1. CASE x \in DOMAIN heap
    BY <1>4, <1>5, <2>1 DEF Inv, SlidingOK
  <2>2. CASE x \notin DOMAIN heap
    <3>1. hist[x] = NoHist /\ NoHist.adm = 0
      BY <1>5, <2>2 DEF Inv, NoHist
    <3>2. heap'[x].windowStart \in Nat /\ heap'[x].window \in Nat \ {0}
      BY <1>5 DEF Bucket
    <3> QED
      BY <1>4, <3>1, <3>2, NoHistSlides DEF SlidingOK
  <2> QED
    BY <2>1, <2>2
<1> QED
  BY <1>6, <1>7, <1>8, <1>9, <1>10, <1>11 DEF Inv

LEMMA LargerOf ==
  ASSUME NEW a \in Int, NEW b \in Int
  PROVE  Larger(a, b) \in {a, b} /\ Larger(a, b) >= a /\ Larger(a, b) >= b
BY DEF Larger

\* Counting: who is admitted finds the current counter within the limit; who is refused
\* shares a window with a request counted before.
LEMMA CountInv ==
  ASSUME Inv, NEW p \in Procs, Count(p)
  PROVE  Inv'
<1> DEFINE r == reqs[p]
           b == r.b
           t == r.t
           old == heap[b]
           new == Rotated(old, t)
           timely == t >= new.windowStart
           h == hist[b]
<1>1. /\ r \in Request /\ RequestOK(r) /\ r.pc = "sampled" /\ b \in DOMAIN heap /\ b \in Buckets
      /\ old \in Bucket /\ h \in Hist /\ BucketOK(b)
  BY DEF Inv, TypeOK, Count, RequestOK
<1>2. t \in 0 .. MaxTime /\ r.lim \in Limiters /\ r.lim.limit \in Nat \ {0} /\ t \in Nat
  BY <1>1, LimiterAssumption DEF Request
<1>3. PICK count \in Estimates(old, t) :
        /\ heap' = [heap EXCEPT ![b] = Rotated(@, t)]
        /\ reqs' = [reqs EXCEPT ![p].pc = IF Admit(r.lim, count) THEN "admitted" ELSE "limited",
                                ![p].count = count, ![p].before = h.last]
        /\ hist' = [hist EXCEPT ![b] =
                      [last |-> Larger(h.last, t),
                       adm |-> (IF Rotates(old, t) THEN 0 ELSE h.adm)
                               + (IF Admit(r.lim, count) THEN 1 ELSE 0),
                       upto |-> [u \in 0 .. MaxTime |->
                                   h.upto[u] + IF Admit(r.lim, count) /\ timely /\ t <= u
                                               THEN 1 ELSE 0]]]
  BY Zenon DEF Count, Rotates
<1>4. UNCHANGED <<now, buckets, sent>>
  BY DEF Count
<1> DEFINE A == Admit(r.lim, count)
           one == IF A THEN 1 ELSE 0
           adm == (IF Rotates(old, t) THEN 0 ELSE h.adm) + one
           last == Larger(h.last, t)
           tick == IF A /\ timely THEN 1 ELSE 0
           upto == [u \in 0 .. MaxTime |-> h.upto[u] + (IF t <= u THEN tick ELSE 0)]
           res == [r EXCEPT !.pc = IF A THEN "admitted" ELSE "limited",
                            !.count = count, !.before = h.last]
<1>5. /\ heap' = [heap EXCEPT ![b] = new]
      /\ reqs' = [reqs EXCEPT ![p] = res]
      /\ hist' = [hist EXCEPT ![b] = [last |-> last, adm |-> adm, upto |-> upto]]
  <2>1. heap' = [heap EXCEPT ![b] = new]
    BY <1>3
  <2>2. reqs' = [reqs EXCEPT ![p] = res]
    BY <1>3, <1>1 DEF Inv, TypeOK
  <2>3. hist' = [hist EXCEPT ![b] = [last |-> last, adm |-> adm, upto |-> upto]]
    <3>1. upto = [u \in 0 .. MaxTime |-> h.upto[u] + IF A /\ timely /\ t <= u THEN 1 ELSE 0]
      BY Zenon
    <3> QED
      BY <1>3, <3>1
  <2> QED
    BY <2>1, <2>2, <2>3
<1>6. /\ new \in Bucket /\ new.window = old.window
      /\ Rotates(old, t) => /\ new.curr = 1 /\ new.windowStart <= t
                            /\ new.windowStart >= old.windowStart + old.window
                            /\ t < new.windowStart + old.window
      /\ ~Rotates(old, t) => new.curr = old.curr + 1 /\ new.windowStart = old.windowStart
  BY <1>1, <1>2, RotatedBucket
<1>7. /\ count \in Int /\ count >= new.curr
      /\ Rotates(old, t) \/ (old.prev = 0 /\ old.curr = 0) => count = 1
  BY <1>1, <1>2, EstimateBound
<1>8. /\ h.last \in Int /\ h.adm \in Nat /\ h.upto \in [0 .. MaxTime -> Nat]
      /\ old.windowStart \in Nat /\ old.window \in Nat \ {0} /\ old.curr \in Nat /\ old.prev \in Nat
      /\ new.windowStart \in Nat /\ new.curr \in Nat /\ now \in Int
  BY <1>1, <1>6 DEF Hist, Bucket, Inv, TypeOK
<1>9. /\ old.windowStart <= now /\ h.adm <= old.curr /\ t <= now
      /\ h.last = -1 => old.prev = 0 /\ old.curr = 0 /\ old.windowStart <= t
      /\ h.last # -1 => old.windowStart <= h.last
  BY <1>1 DEF BucketOK, RequestOK
<1>10. A <=> count <= r.lim.limit
  BY DEF Admit
<1>11. last \in Int /\ last >= h.last /\ last >= t
  BY <1>2, <1>8, LargerOf
<1>12. res \in Request /\ res.b = b /\ res.t = t /\ res.before = h.last
       /\ res.pc = IF A THEN "admitted" ELSE "limited"
  BY <1>1, <1>7, <1>8 DEF Request
<1> HIDE DEF new, old, h, res, last, A, t
<1>13. /\ one \in {0, 1} /\ adm \in Nat /\ tick \in {0, 1} /\ tick <= one
       /\ tick = 1 => t >= new.windowStart
  <2>1. one \in {0, 1} /\ tick \in {0, 1} /\ tick <= one /\ (tick = 1 => t >= new.windowStart)
    OBVIOUS
  <2> HIDE DEF one
  <2>2. adm \in Nat
    BY <1>8, <2>1
  <2> QED
    BY <2>1, <2>2
<1> HIDE DEF tick
<1>23. upto \in [0 .. MaxTime -> Nat]
  <2>1. ASSUME NEW u \in 0 .. MaxTime PROVE h.upto[u] + (IF t <= u THEN tick ELSE 0) \in Nat
    <3> DEFINE m == h.upto[u]
               k == IF t <= u THEN tick ELSE 0
    <3>1. m \in Nat
      BY <1>8
    <3>2. k \in {0, 1}
      BY <1>13
    <3> HIDE DEF m, k
    <3>3. m + k \in Nat
      BY <3>1, <3>2
    <3> QED BY <3>3 DEF m, k
  <2> QED
    BY <2>1
<1>24. /\ ~Rotates(old, t) => adm = h.adm + one
       /\ Rotates(old, t) => adm = one
  BY <1>8
<1>14. adm <= new.curr
  BY <1>6, <1>8, <1>9
<1>15. A \/ adm = 0 \/ adm = h.adm
  BY <1>8
<1> DEFINE g == [last |-> last, adm |-> adm, upto |-> upto]
<1>25. /\ g.upto = [u \in 0 .. MaxTime |-> h.upto[u] + (IF t <= u THEN tick ELSE 0)]
       /\ g.adm = adm
  OBVIOUS
<1> HIDE DEF one, adm, upto
<1>16. TypeOK'
  <2>1. [last |-> last, adm |-> adm, upto |-> upto] \in Hist
    BY <1>11, <1>13, <1>23 DEF Hist
  <2>2. DOMAIN heap' = DOMAIN heap /\ heap' \in [DOMAIN heap -> Bucket]
    BY <1>1, <1>5, <1>6 DEF Inv, TypeOK
  <2>3. reqs' \in [Procs -> Request]
        /\ \A q \in Procs : reqs'[q].b # NoBucket => reqs'[q].b \in DOMAIN heap
    BY <1>1, <1>5, <1>12 DEF Inv, TypeOK
  <2>4. hist' \in [Buckets -> Hist]
    BY <1>5, <2>1 DEF Inv, TypeOK
  <2> QED
    BY <1>4, <2>2, <2>3, <2>4 DEF Inv, TypeOK
<1>17. /\ heap'[b] = new /\ hist'[b] = g /\ hist'[b].last = last /\ hist'[b].adm = adm
       /\ \A x \in Buckets : x # b => hist'[x] = hist[x]
       /\ \A x \in DOMAIN heap : x # b => heap'[x] = heap[x]
       /\ DOMAIN heap' = DOMAIN heap
  BY <1>1, <1>5 DEF Inv, TypeOK
<1>18. ASSUME NEW x \in DOMAIN heap' PROVE BucketOK(x)'
  <2>1. CASE x = b
    <3>1. new.windowStart <= now
      BY <1>2, <1>6, <1>8, <1>9
    <3>2. last # -1
      BY <1>2, <1>11
    <3>3. new.windowStart <= last
      BY <1>2, <1>6, <1>8, <1>9, <1>11
    <3> QED
      BY <1>4, <1>14, <1>17, <2>1, <3>1, <3>2, <3>3 DEF BucketOK
  <2>2. CASE x # b
    BY <1>4, <1>17, <2>2 DEF Inv, TypeOK, BucketOK
  <2> QED
    BY <2>1, <2>2
<1>19. \A x \in Buckets \ DOMAIN heap' : hist'[x] = NoHist
  BY <1>1, <1>17 DEF Inv
<1>20. WindowCap'
  <2>1. ASSUME NEW x \in Buckets, x # b
        PROVE  hist'[x].adm = 0 \/ \E l \in Limiters : hist'[x].adm <= l.limit
    BY <1>17, <2>1 DEF Inv, WindowCap
  <2>2. adm = 0 \/ \E l \in Limiters : adm <= l.limit
    <3>1. CASE A
      BY <1>2, <1>7, <1>8, <1>10, <1>13, <1>14, <3>1
    <3>2. CASE ~A
      <4>1. h.adm = 0 \/ \E l \in Limiters : h.adm <= l.limit
        BY <1>1 DEF Inv, WindowCap, h
      <4> QED
        BY <1>15, <3>2, <4>1
    <3> QED
      BY <3>1, <3>2
  <2> QED
    BY <1>17, <2>1, <2>2 DEF WindowCap
<1>21. ~A => h.last > t - old.window
  <2> SUFFICES ASSUME h.last <= t - old.window PROVE count = 1
    BY <1>2, <1>8, <1>10
  <2>1. CASE h.last = -1
    BY <1>7, <1>9, <2>1
  <2>2. CASE h.last # -1
    BY <1>2, <1>7, <1>8, <1>9, <2>2 DEF Rotates
  <2> QED
    BY <2>1, <2>2
<1>22. ASSUME NEW q \in Procs PROVE RequestOK(reqs[q])'
  <2>1. CASE q = p
    <3>1. reqs'[q] = res
      BY <1>5, <2>1 DEF Inv, TypeOK
    <3> QED
      BY <1>6, <1>12, <1>17, <1>21, <3>1 DEF RequestOK, Counted
  <2>2. CASE q # p
    <3>1. /\ reqs'[q] = reqs[q] /\ RequestOK(reqs[q])
          /\ reqs[q].b # NoBucket => reqs[q].b \in DOMAIN heap
      BY <1>5, <2>2 DEF Inv, TypeOK
    <3>2. \A x \in DOMAIN heap : heap'[x].window = heap[x].window
      BY <1>6, <1>17 DEF old
    <3>3. last # -1
      BY <1>2, <1>11
    <3>4. DOMAIN heap \subseteq Buckets
      BY DEF Inv, TypeOK
    <3> QED
      BY <1>4, <1>17, <3>1, <3>2, <3>3, <3>4 DEF RequestOK, Counted
  <2> QED
    BY <2>1, <2>2
<1>26. ASSUME NEW x \in DOMAIN heap' PROVE SlidingOK(x)'
  <2>1. CASE x # b
    BY <1>17, <2>1 DEF Inv, TypeOK, SlidingOK
  <2>2. CASE x = b
    <3>1. Sliding(Tally(h), old.windowStart, old.window, h.adm)
      BY <1>1 DEF Inv, SlidingOK, h, old
    <3>2. \A u \in Int : Tally(g)[u] = Tally(h)[u] + (IF t <= u THEN tick ELSE 0)
      <4> HIDE DEF g
      <4>1. h.upto \in [0 .. MaxTime -> Nat] /\ t \in 0 .. MaxTime /\ tick \in {0, 1}
        BY <1>2, <1>8, <1>13
      <4>2. \A u \in 0 .. MaxTime : g.upto[u] = h.upto[u] + (IF t <= u THEN tick ELSE 0)
        BY <1>25
      <4> QED
        BY <4>1, <4>2, TallyStep
    <3>3. Capped(h.adm) /\ Capped(adm)
      BY <1>1, <1>17, <1>20 DEF Inv, WindowCap, Capped, h
    <3>4. /\ tick = 1 => new.windowStart <= t /\ t < new.windowStart + old.window
          /\ \/ new.windowStart = old.windowStart /\ adm >= h.adm + tick
             \/ /\ new.windowStart >= old.windowStart + old.window /\ new.windowStart <= t
                /\ adm >= tick
      <4>1. CASE Rotates(old, t)
        BY <1>2, <1>6, <1>8, <1>13, <1>24, <4>1
      <4>2. CASE ~Rotates(old, t)
        <5>1. new.windowStart = old.windowStart /\ t < old.windowStart + old.window
          BY <1>2, <1>6, <1>8, <4>2 DEF Rotates
        <5> QED
          BY <1>2, <1>8, <1>13, <1>24, <4>2, <5>1
      <4> QED
        BY <4>1, <4>2
    <3>5. Sliding(Tally(g), new.windowStart, old.window, adm)
      <4> HIDE DEF g
      <4>1. Moves(Tally(h), Tally(g), old.windowStart, new.windowStart, old.window, h.adm, adm, t, tick)
        BY <1>2, <1>8, <1>13, <3>1, <3>2, <3>3, <3>4 DEF Moves
      <4> QED
        BY <4>1, SlidingStep
    <3> QED
      BY <1>6, <1>17, <2>2, <3>5 DEF SlidingOK
  <2> QED
    BY <2>1, <2>2
<1> QED
  BY <1>16, <1>18, <1>19, <1>20, <1>22, <1>26 DEF Inv

LEMMA NextInv == Inv /\ [Next]_vars => Inv'
<1> SUFFICES ASSUME Inv, [Next]_vars PROVE Inv'
  OBVIOUS
<1>1. CASE UNCHANGED vars
  BY <1>1 DEF vars, Inv, TypeOK, BucketOK, RequestOK, WindowCap, Counted, SlidingOK
<1> QED
  BY <1>1, LocateInv, StoreErrorInv, SampleInv, CountInv, RespondInv, ResetInv, TickInv DEF Next

LEMMA InvariantHolds == Spec => []Inv
BY InitInv, NextInv, PTL DEF Spec

-----------------------------------------------------------------------------
(* The theorems.                                                             *)

\* The store stays well typed; in particular no request, and no key, ever points to a bucket
\* that is not there, though Reset drops buckets that requests still hold.
THEOREM TypeCorrect == Spec => []TypeOK
<1>1. Inv => TypeOK
  BY DEF Inv
<1> QED
  BY <1>1, InvariantHolds, PTL

\* In one window of a bucket no more requests are admitted than the largest limit of the
\* limiters that share the store, whatever the clocks, orders and resets.
THEOREM WindowCapHolds == Spec => []WindowCap
<1>1. Inv => WindowCap
  BY DEF Inv
<1> QED
  BY <1>1, InvariantHolds, PTL

\* A key of which no request is counted for one window of its bucket is served again:
\* bucket.inc counts the request that opens a window as 1.
THEOREM QuietClientsServed == Spec => []QuietClientAdmitted
<1>1. Inv => QuietClientAdmitted
  BY DEF Inv, RequestOK, QuietClientAdmitted
<1> QED
  BY <1>1, InvariantHolds, PTL

\* bucket.inc approximates a sliding window: in any interval as long as the window no more
\* than twice the largest limit is admitted of the requests counted in the window they were
\* timed in, though windows do not begin where intervals do.
THEOREM SlidingCapHolds == Spec => []SlidingCap
<1>1. Inv => SlidingCap
  <2> SUFFICES ASSUME Inv, NEW b \in DOMAIN heap, NEW t \in 0 .. MaxTime
               PROVE  \E l \in Limiters :
                        Upto(hist[b], t + heap[b].window - 1) - Upto(hist[b], t - 1) <= 2 * l.limit
    BY DEF SlidingCap
  <2> DEFINE w == heap[b].window
  <2>1. w \in Nat \ {0}
    BY DEF Inv, TypeOK, Bucket
  <2>2. t \in Int /\ t + w - 1 \in Int /\ t - 1 \in Int
    BY <2>1
  <2>3. \E l \in Limiters : Tally(hist[b])[t + w - 1] - Tally(hist[b])[t - 1] <= 2 * l.limit
    BY <2>2 DEF Inv, SlidingOK, Sliding
  <2> HIDE DEF w
  <2>4. /\ Tally(hist[b])[t + w - 1] = Upto(hist[b], t + w - 1)
        /\ Tally(hist[b])[t - 1] = Upto(hist[b], t - 1)
    BY <2>2, Zenon DEF Tally
  <2> QED
    BY <2>3, <2>4 DEF w
<1> QED
  BY <1>1, InvariantHolds, PTL
=============================================================================
