---------------------------- MODULE RateLimiter ----------------------------
(***************************************************************************)
(* rateLimiter of api/httpapi: a token bucket per client key.  allow reads *)
(* the clock before it takes the lock, so two requests may be counted in   *)
(* the other order than they read it, and a bucket's last can go back.     *)
(* Tokens are counted in parts: a request costs TicksPerMinute of them and *)
(* a tick of the clock brings Rpm.                                         *)
(***************************************************************************)
EXTENDS Integers, Sequences

CONSTANTS
  Keys,            \* client keys
  TicksPerMinute,  \* resolution of the clock
  Rpm, Burst,      \* the limiter's parameters
  Missing          \* no bucket

ASSUME LimiterAssumption ==
  /\ TicksPerMinute \in Nat \ {0}
  /\ Rpm \in Nat \ {0}
  /\ Burst \in Nat \ {0}
  /\ Missing \notin [tokens : Int, last : Nat]

VARIABLES
  clock,    \* time.Now()
  bucket,   \* l.b
  passed,   \* history, per key and request: its time, and how many were let
            \* through since, itself included
  newest    \* history, per key: the latest time a request was counted at

limiterVars == <<clock, bucket, passed, newest>>

Full == Burst * TicksPerMinute
Cost == TicksPerMinute

LimiterInit ==
  /\ clock = 0
  /\ bucket = [k \in Keys |-> Missing]
  /\ passed = [k \in Keys |-> <<>>]
  /\ newest = [k \in Keys |-> 0]

Tick ==
  /\ clock' = clock + 1
  /\ UNCHANGED <<bucket, passed, newest>>

(* A bug: the time since the last request counts as time elapsed even when *)
(* it is the wrong way round.                                              *)
RefillDistance(b, now) ==
  LET t == b.tokens + (IF now > b.last THEN now - b.last ELSE b.last - now) * Rpm
  IN  IF t > Full THEN Full ELSE t

(* What the bucket holds at now, at most the burst.                         *)
Refill(b, now) ==
  LET t == b.tokens + (now - b.last) * Rpm
  IN  IF t > Full THEN Full ELSE t

(* Whether a request counted at now passes, and the bucket it leaves.       *)
Passes(b, now) == b = Missing \/ Refill(b, now) >= Cost

(* A bug: a refused request pays as well.                                  *)
SpendAlways(b, now) ==
  [tokens |-> (IF b = Missing THEN Full ELSE Refill(b, now)) - Cost, last |-> now]

Spend(b, now) ==
  [tokens |-> CASE b = Missing                          -> Full - Cost
                [] b # Missing /\ Passes(b, now)        -> Refill(b, now) - Cost
                [] b # Missing /\ ~Passes(b, now)       -> Refill(b, now),
   last   |-> now]

Later(a, b) == IF a > b THEN a ELSE b

(* The history with one more request, n of which passed.                    *)
Counted(ps, now, n) ==
  [p \in 1 .. Len(ps) + 1 |-> IF p = Len(ps) + 1 THEN [at |-> now, n |-> n]
                              ELSE [at |-> ps[p].at, n |-> ps[p].n + n]]

(* allow, from the lock on, for a request that read now.                    *)
Allow(k, now) ==
  LET n == IF Passes(bucket[k], now) THEN 1 ELSE 0
  IN  /\ bucket' = [bucket EXCEPT ![k] = Spend(@, now)]
      /\ newest' = [newest EXCEPT ![k] = Later(@, now)]
      /\ passed' = [passed EXCEPT ![k] = Counted(@, now, n)]
      /\ UNCHANGED clock

-----------------------------------------------------------------------------
(* Properties                                                              *)

(* Of the requests of one key counted from any one of them on, no more pass *)
(* than the burst and what the time between them refills, in whatever order *)
(* they were counted.                                                       *)
RateBound ==
  \A k \in Keys : \A p \in DOMAIN passed[k] :
    passed[k][p].n * Cost <= Full + (newest[k] - passed[k][p].at) * Rpm

(* A client that waits for the time of one token after its latest request   *)
(* passes: refused requests, and requests counted out of order, cost it     *)
(* nothing.                                                                 *)
WaitedIsAdmitted ==
  \A k \in Keys : \A now \in 0 .. clock :
    (now - newest[k]) * Rpm >= Cost => Passes(bucket[k], now)
=============================================================================
