----------------------------- MODULE RateLimiter ----------------------------
(***************************************************************************)
(* The fixed-window limiter in front of every /v1 route (api/rate-limit.ts,*)
(* the onRequest hooks of api/routes.ts).  Its Map of buckets, which keeps *)
(* insertion order, is a sequence.  Each limiter of the code is one        *)
(* instance; keys are addresses or identities.                             *)
(***************************************************************************)
EXTENDS SequencesExt, Subsequences

CONSTANTS
  Keys,      \* who calls
  Observed,  \* the one whose history is kept; any will do
  Window,    \* windowMs
  Limit,     \* allowance per window, none if it is not positive
  MaxKeys,   \* buckets kept
  MaxTime

ASSUME LimiterAssumption ==
  Observed \in Keys /\ Window \in Nat \ {0} /\ Limit \in Int /\ MaxKeys \in Nat \ {0} /\ MaxTime \in Nat

VARIABLES
  now,        \* the clock
  buckets,    \* a sequence of [key, count, start]
  allowed,    \* history: how many hits of Observed were let through at a time
  forgotten   \* history: its bucket was dropped before its window ended

limiterVars == <<now, buckets, allowed, forgotten>>

-----------------------------------------------------------------------------
(***************************************************************************)
(* check() and gc(), on any sequence of buckets.                           *)
(***************************************************************************)

KeysOf(bs)      == {bs[i].key : i \in DOMAIN bs}
BucketOf(bs, k) == CHOOSE b \in ToSet(bs) : b.key = k

WindowOver(b, t) == t - b.start >= Window

\* Mutant: the limit is compared before the hit is counted.
WithinLimitBefore(b) == b.count - 1 <= Limit

WithinLimit(b) == b.count <= Limit

\* Map.set: a key that is there keeps its place.
Put(bs, b) ==
  IF b.key \in KeysOf(bs)
  THEN [i \in DOMAIN bs |-> IF bs[i].key = b.key THEN b ELSE bs[i]]
  ELSE Append(bs, b)

\* gc: beyond the cap the oldest insertions go, whatever their windows; below
\* it ended windows go, once the map is more than half full.
Gc(bs, t) ==
  IF Len(bs) > MaxKeys THEN SubSeq(bs, Len(bs) - MaxKeys + 1, Len(bs))
  ELSE IF 2 * Len(bs) > MaxKeys THEN KeepAt(bs, {i \in DOMAIN bs : ~WindowOver(bs[i], t)})
  ELSE bs

\* A hit of k at t: what it leaves and whether it is let through.
Check(bs, k, t) ==
  IF Limit <= 0 THEN [allowed |-> TRUE, buckets |-> bs]
  ELSE LET fresh == k \notin KeysOf(bs) \/ WindowOver(BucketOf(bs, k), t)
           b     == IF fresh THEN [key |-> k, count |-> 1, start |-> t]
                    ELSE [BucketOf(bs, k) EXCEPT !.count = @ + 1]
       IN [allowed |-> WithinLimit(b),
           buckets |-> IF fresh THEN Gc(Put(bs, b), t) ELSE Put(bs, b)]

-----------------------------------------------------------------------------
(***************************************************************************)
(* One limiter under any traffic.                                          *)
(***************************************************************************)

LimiterInit ==
  /\ now = 0
  /\ buckets = <<>>
  /\ allowed = [t \in 0 .. MaxTime |-> 0]
  /\ forgotten = FALSE

Hit(k) ==
  LET c    == Check(buckets, k, now)
      gone == {b \in ToSet(buckets) : ~WindowOver(b, now) /\ b.key \notin KeysOf(c.buckets)}
  IN /\ buckets' = c.buckets
     /\ allowed' = IF c.allowed /\ k = Observed THEN [allowed EXCEPT ![now] = @ + 1] ELSE allowed
     /\ forgotten' = (forgotten \/ \E b \in gone : b.key = Observed)
     /\ UNCHANGED now

Pass ==
  /\ now < MaxTime
  /\ now' = now + 1
  /\ UNCHANGED <<buckets, allowed, forgotten>>

LimiterNext == Pass \/ \E k \in Keys : Hit(k)

\* Bounds the counters of a checked instance.
LimiterBound ==
  /\ \A i \in DOMAIN buckets : buckets[i].count <= Limit + 2
  /\ \A t \in 0 .. MaxTime : allowed[t] <= 2 * Limit + 1

LimiterSpec == LimiterInit /\ [][LimiterNext]_limiterVars

-----------------------------------------------------------------------------
(***************************************************************************)
(* Properties.                                                             *)
(***************************************************************************)

\* How often Observed was let through in the window that ends with time t.
AllowedUpTo(t) ==
  SumFunctionOnSet(allowed, {s \in 0 .. MaxTime : s <= t /\ s > t - Window})

\* In any span of one window a caller gets less than twice its allowance, however
\* its requests fall around the edge of the limiter's window; only eviction
\* starts it anew.
LessThanTwiceTheLimit ==
  ~forgotten => \A t \in 0 .. MaxTime : AllowedUpTo(t) < 2 * Limit
=============================================================================
