----------------------------- MODULE RateLimiter -----------------------------
(***************************************************************************)
(* ratelimit: HTTP middlewares (New) that count requests per key in a      *)
(* shared MemoryStore with the sliding-window counter of type bucket.      *)
(*                                                                         *)
(* Inc takes two locks one after the other: it finds or creates the bucket *)
(* under the store's mutex, reads the clock, and only then counts under the*)
(* bucket's own mutex.  A request is split at these points: other requests,*)
(* clock ticks and Reset (which drops the bucket from the map while some   *)
(* request still holds the pointer) come in between.                       *)
(***************************************************************************)
EXTENDS Integers, FiniteSets

CONSTANTS
  Procs,          \* goroutines handling requests
  Limiters,       \* the Config of each middleware that shares the store
  Keys,           \* what KeyFn yields
  Buckets,        \* addresses of bucket structs (bounds the buckets created)
  NoBucket,       \* the nil pointer
  StoreFails,     \* TRUE: Store.Inc may return an error
  MaxTime, MaxRequests  \* bounds on the clock and on the requests sent

ASSUME LimiterAssumption ==
  /\ Limiters \subseteq [limit : Nat \ {0}, window : Nat \ {0}]
  /\ Limiters # {} /\ Keys # {}
  /\ NoBucket \notin Buckets
  /\ StoreFails \in BOOLEAN
  /\ MaxTime \in Nat /\ MaxRequests \in Nat

VARIABLES
  now,      \* the clock
  buckets,  \* MemoryStore.buckets: key -> bucket pointer
  heap,     \* the bucket structs
  reqs,     \* reqs[p]: the request goroutine p handles
  sent,     \* how many requests were sent
  hist      \* history, per bucket: see Hist

vars == <<now, buckets, heap, reqs, sent, hist>>

Bucket == [prev : Nat, curr : Nat, windowStart : Nat, window : Nat \ {0}]

\* `last': the largest clock reading counted so far (-1: none); `adm': the requests
\* admitted in the current window; `upto': upto[t] are the requests admitted with a clock
\* reading of at most t, but for those that found a later window when they were counted.
Hist == [last : Int, adm : Nat, upto : [0 .. MaxTime -> Nat]]

NoHist == [last |-> -1, adm |-> 0, upto |-> [t \in 0 .. MaxTime |-> 0]]

\* `t' is the clock reading passed to bucket.inc, `count' its result.  `before' is
\* history: hist.last of the bucket before this request was counted.
Request ==
  [pc : {"idle", "located", "sampled", "admitted", "limited"},
   lim : Limiters, key : Keys, b : Buckets \cup {NoBucket}, t : 0 .. MaxTime, count : Int,
   before : Int]

Idle == [pc |-> "idle", lim |-> CHOOSE l \in Limiters : TRUE, key |-> CHOOSE k \in Keys : TRUE,
         b |-> NoBucket, t |-> 0, count |-> 0, before |-> -1]

TypeOK ==
  /\ now \in 0 .. MaxTime
  /\ buckets \in [Keys -> Buckets \cup {NoBucket}]
  /\ DOMAIN heap \subseteq Buckets /\ heap \in [DOMAIN heap -> Bucket]
  /\ \A k \in Keys : buckets[k] # NoBucket => buckets[k] \in DOMAIN heap
  /\ reqs \in [Procs -> Request]
  /\ \A p \in Procs : reqs[p].b # NoBucket => reqs[p].b \in DOMAIN heap
  /\ sent \in Nat
  /\ hist \in [Buckets -> Hist]

Init ==
  /\ now = 0
  /\ buckets = [k \in Keys |-> NoBucket]
  /\ heap = [b \in {} |-> 0]
  /\ reqs = [p \in Procs |-> Idle]
  /\ sent = 0
  /\ hist = [b \in Buckets |-> NoHist]

-----------------------------------------------------------------------------
(* bucket.inc                                                                *)

\* Mutant: a new window starts but windowStart is not moved.
RotatedInPlace(b, t) ==
  LET elapsed == t - b.windowStart IN
  CASE elapsed >= b.window -> [b EXCEPT !.prev = b.curr, !.curr = 1]
    [] elapsed < b.window  -> [b EXCEPT !.curr = @ + 1]

\* The counters after a request at clock reading t.
Rotated(b, t) ==
  LET elapsed == t - b.windowStart IN
  CASE elapsed >= 2 * b.window ->
         [b EXCEPT !.prev = 0, !.curr = 1, !.windowStart = t]
    [] elapsed >= b.window /\ elapsed < 2 * b.window ->
         [b EXCEPT !.prev = b.curr, !.curr = 1, !.windowStart = @ + b.window]
    [] elapsed < b.window -> [b EXCEPT !.curr = @ + 1]

\* int64(float64(prev) * (float64(rest) / float64(window))).  The product of the rounded
\* quotient can fall just short of an integer, and is then truncated to the one below.
Weighted(prev, rest, window) ==
  LET q == (prev * rest) \div window IN
  {q} \cup (IF rest % window # 0 /\ q > 0 /\ (prev * rest) % window = 0 THEN {q - 1} ELSE {})

\* Mutant: the previous window is weighted by the time elapsed since the window that the
\* rotation has just started.
EstimatesAfterRotation(b, t) ==
  LET new  == Rotated(b, t)
      rest == new.window - (t - new.windowStart)
  IN {w + new.curr : w \in Weighted(new.prev, IF rest < 0 THEN 0 ELSE rest, b.window)}

\* The results inc may return: the weight is taken from the time elapsed since the start
\* of the window BEFORE the rotation; a negative one counts as 0, one above 1 stays.
Estimates(b, t) ==
  LET rest == b.window - (t - b.windowStart)
      new  == Rotated(b, t)
  IN {w + new.curr : w \in Weighted(new.prev, IF rest < 0 THEN 0 ELSE rest, b.window)}

-----------------------------------------------------------------------------
(* A request: New's handler and MemoryStore.Inc.                             *)

\* The bucket of the key, created on its first use with the window of that request.
Locate(p, lim, key) ==
  /\ reqs[p].pc = "idle"
  /\ sent < MaxRequests
  /\ \E b \in Buckets :
       /\ \/ b = buckets[key] /\ UNCHANGED <<buckets, heap>>
          \/ /\ buckets[key] = NoBucket /\ b \notin DOMAIN heap
             /\ buckets' = [buckets EXCEPT ![key] = b]
             /\ heap' = [x \in DOMAIN heap \cup {b} |->
                           IF x = b THEN [prev |-> 0, curr |-> 0, windowStart |-> now,
                                          window |-> lim.window]
                           ELSE heap[x]]
       /\ reqs' = [reqs EXCEPT ![p] = [Idle EXCEPT !.pc = "located", !.lim = lim, !.key = key,
                                                   !.b = b]]
  /\ sent' = sent + 1
  /\ UNCHANGED <<now, hist>>

\* time.Now() is evaluated before b.mu is taken.
Sample(p) ==
  /\ reqs[p].pc = "located"
  /\ reqs' = [reqs EXCEPT ![p].pc = "sampled", ![p].t = now]
  /\ UNCHANGED <<now, buckets, heap, sent, hist>>

\* Mutant: one request too many is admitted.
AdmitOneMore(lim, count) == count <= lim.limit + 1

\* err != nil || count > cfg.Limit is refused, everything else goes to the next handler.
Admit(lim, count) == count <= lim.limit

Larger(a, b) == IF a > b THEN a ELSE b

Count(p) ==
  /\ reqs[p].pc = "sampled"
  /\ LET r == reqs[p]
         b == r.b
         h == hist[b]
         rotates == r.t - heap[b].windowStart >= heap[b].window
         timely == r.t >= Rotated(heap[b], r.t).windowStart
     IN \E count \in Estimates(heap[b], r.t) :
          /\ heap' = [heap EXCEPT ![b] = Rotated(@, r.t)]
          /\ reqs' = [reqs EXCEPT ![p].pc = IF Admit(r.lim, count) THEN "admitted" ELSE "limited",
                                  ![p].count = count, ![p].before = h.last]
          /\ hist' = [hist EXCEPT ![b] =
                        [last |-> Larger(h.last, r.t),
                         adm |-> (IF rotates THEN 0 ELSE h.adm)
                                 + (IF Admit(r.lim, count) THEN 1 ELSE 0),
                         upto |-> [t \in 0 .. MaxTime |->
                                     h.upto[t] + IF Admit(r.lim, count) /\ timely /\ r.t <= t
                                                 THEN 1 ELSE 0]]]
  /\ UNCHANGED <<now, buckets, sent>>

\* A Store that returns an error: the request is refused.
StoreError(p, lim, key) ==
  /\ StoreFails
  /\ reqs[p].pc = "idle"
  /\ reqs' = [reqs EXCEPT ![p] = [Idle EXCEPT !.pc = "limited", !.lim = lim, !.key = key]]
  /\ UNCHANGED <<now, buckets, heap, sent, hist>>

Respond(p) ==
  /\ reqs[p].pc \in {"admitted", "limited"}
  /\ reqs' = [reqs EXCEPT ![p] = Idle]
  /\ UNCHANGED <<now, buckets, heap, sent, hist>>

\* Mutant: Reset frees the bucket although requests may still hold the pointer.
ResetFrees(key) ==
  /\ buckets' = [buckets EXCEPT ![key] = NoBucket]
  /\ heap' = [b \in DOMAIN heap \ {buckets[key]} |-> heap[b]]
  /\ UNCHANGED <<now, reqs, sent, hist>>

\* MemoryStore.Reset forgets the bucket; requests that have located it keep using it.
Reset(key) ==
  /\ buckets' = [buckets EXCEPT ![key] = NoBucket]
  /\ UNCHANGED <<now, heap, reqs, sent, hist>>

Tick ==
  /\ now < MaxTime
  /\ now' = now + 1
  /\ UNCHANGED <<buckets, heap, reqs, sent, hist>>

Next ==
  \/ \E p \in Procs :
       \/ \E lim \in Limiters, key \in Keys : Locate(p, lim, key) \/ StoreError(p, lim, key)
       \/ Sample(p)
       \/ Count(p)
       \/ Respond(p)
  \/ \E key \in Keys : Reset(key)
  \/ Tick

Spec == Init /\ [][Next]_vars

-----------------------------------------------------------------------------
(* Properties.                                                               *)

\* In one window of a bucket no more requests are admitted than the largest limit of the
\* limiters that use it, whatever the order in which requests and resets interleave.
WindowCap ==
  \A b \in Buckets : \/ hist[b].adm = 0
                     \/ \E l \in Limiters : hist[b].adm <= l.limit

Upto(h, t) == IF t < 0 THEN 0 ELSE h.upto[IF t > MaxTime THEN MaxTime ELSE t]

\* In any interval as long as the window at most twice the limit is admitted: the counter
\* only approximates a sliding window, but never by more than one further window.  Requests
\* that read the clock and then waited for the bucket's mutex until another one had moved
\* the window past their reading come on top: each later window admits up to its limit of
\* them.
SlidingCap ==
  \A b \in DOMAIN heap, t \in 0 .. MaxTime :
    \E l \in Limiters :
      Upto(hist[b], t + heap[b].window - 1) - Upto(hist[b], t - 1) <= 2 * l.limit

Counted(r) == r.b # NoBucket

\* A request is refused only if another request of its bucket was counted less than one
\* window of the bucket before it was timed, or later: a client that is quiet for that window
\* is served, whatever it did before.  (The bucket's window is the one of the limiter that
\* made it; the Retry-After of a 429 is the refusing limiter's and promises no such thing.)
QuietClientAdmitted ==
  \A p \in Procs : reqs[p].pc = "limited" /\ Counted(reqs[p])
                   => reqs[p].before > reqs[p].t - heap[reqs[p].b].window
=============================================================================
