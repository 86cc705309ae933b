-------------------------- MODULE ApiServerProofs --------------------------
(***************************************************************************)
(* The server, for every configuration, rate, burst, clock, set of keys    *)
(* and number of requests: the rate limiter keeps its bounds in whatever   *)
(* order requests are counted, no request reaches the service past what    *)
(* the configuration asked for, and what is refused changes nothing.       *)
(***************************************************************************)
EXTENDS ApiServer, TLAPS

Bucket == [tokens : Int, last : Nat]
Entry  == [at : Nat, n : Nat]

(* What ties a bucket to its history: the tokens it lacks are those it gave *)
(* out less those that time brought, and it owes no more than the time its  *)
(* last lies before the newest request.                                     *)
BucketInv(b, ps, new) ==
  /\ b.tokens <= Full
  /\ b.last <= new
  /\ b.tokens + (new - b.last) * Rpm >= 0
  /\ \A p \in DOMAIN ps : ps[p].n * Cost + b.tokens <= Full + (b.last - ps[p].at) * Rpm

LimiterInv ==
  /\ clock \in Nat
  /\ bucket \in [Keys -> Bucket \cup {Missing}]
  /\ passed \in [Keys -> Seq(Entry)]
  /\ newest \in [Keys -> Nat]
  /\ \A k \in Keys : IF bucket[k] = Missing THEN passed[k] = << >>
                     ELSE BucketInv(bucket[k], passed[k], newest[k])

Status == {"none", "rate_limited", "unauthorized", "no_content", "not_found",
           "invalid_request", "ok", "invalid_input", "internal"}

CallRecord ==
  [pc : {"free", "counting", "admitted", "service", "answer"},
   kind : Kinds \cup {"none"}, key : Keys \cup {"none"}, at : Nat,
   counted : BOOLEAN, status : Status, applied : BOOLEAN]

CallInv ==
  /\ call \in [Clients -> CallRecord]
  /\ \A c \in Clients : call[c].pc = "counting" => call[c].key \in Keys

-----------------------------------------------------------------------------
(* Arithmetic of the bucket                                                *)

(* A full bucket holds at least one request.                                *)
LEMMA FullInt == Full \in Int /\ Cost \in Int /\ 0 < Cost /\ Cost <= Full
<1>1. Burst \in Int /\ TicksPerMinute \in Int /\ 1 <= Burst /\ 1 <= TicksPerMinute
  BY LimiterAssumption
<1>2. Burst * TicksPerMinute \in Int /\ TicksPerMinute <= Burst * TicksPerMinute
  BY <1>1
<1> QED BY <1>1, <1>2 DEF Full, Cost

(* Time passes in either direction at the same rate.                        *)
LEMMA Elapsed ==
  ASSUME NEW a \in Int, NEW b \in Int, NEW c \in Int
  PROVE  /\ (a - b) * Rpm \in Int
         /\ (a - b) * Rpm + (b - c) * Rpm = (a - c) * Rpm
         /\ a <= b => (a - c) * Rpm <= (b - c) * Rpm
<1>1. Rpm \in Int /\ 0 < Rpm
  BY LimiterAssumption
<1>2. (a - b) * Rpm + (b - c) * Rpm = (a - c) * Rpm
  BY <1>1
<1>3. ASSUME a <= b PROVE (a - c) * Rpm <= (b - c) * Rpm
  BY <1>1, <1>3
<1> QED BY <1>1, <1>2, <1>3

(* What is owed is paid back by the time up to the newest request.          *)
LEMMA OwedInTime ==
  ASSUME NEW t \in Int, NEW l \in Int, NEW now \in Int, NEW new \in Int, NEW new2 \in Int,
         new <= new2, t + (new - l) * Rpm >= 0
  PROVE  (t + (now - l) * Rpm) + (new2 - now) * Rpm >= 0
<1>1. /\ (now - l) * Rpm \in Int /\ (new - l) * Rpm \in Int
      /\ (new2 - l) * Rpm \in Int /\ (new2 - now) * Rpm \in Int
  BY Zenon, Elapsed
<1>2. (new2 - now) * Rpm + (now - l) * Rpm = (new2 - l) * Rpm
  BY Zenon, Elapsed
<1>3. (new - l) * Rpm <= (new2 - l) * Rpm
  BY Zenon, Elapsed
<1> QED BY <1>1, <1>2, <1>3

(* One more request in a window, and the time since the last one.           *)
LEMMA WindowGrows ==
  ASSUME NEW m \in Int, NEW one \in Int, NEW t \in Int, NEW u \in Int,
         NEW l \in Int, NEW at \in Int, NEW now \in Int,
         m * Cost + t <= Full + (l - at) * Rpm,
         u + one * Cost <= t + (now - l) * Rpm
  PROVE  (m + one) * Cost + u <= Full + (now - at) * Rpm
<1>1. /\ (now - l) * Rpm \in Int /\ (l - at) * Rpm \in Int /\ (now - at) * Rpm \in Int
      /\ (now - l) * Rpm + (l - at) * Rpm = (now - at) * Rpm
  BY Elapsed, ZenonT(60)
<1>2. /\ m * Cost \in Int /\ one * Cost \in Int
      /\ (m + one) * Cost = m * Cost + one * Cost
  BY FullInt
<1> QED BY <1>1, <1>2, FullInt

(* A bucket that meets a request: what it holds is capped, and what it      *)
(* leaves accounts for the request.                                         *)
LEMMA SpendBucket ==
  ASSUME NEW b \in Bucket, b # Missing, NEW now \in Nat, b.tokens <= Full
  PROVE  LET n == IF Passes(b, now) THEN 1 ELSE 0
         IN  /\ Spend(b, now) \in Bucket
             /\ Spend(b, now).last = now
             /\ Spend(b, now).tokens <= Full
             /\ Spend(b, now).tokens + n * Cost <= b.tokens + (now - b.last) * Rpm
             /\ \/ Spend(b, now).tokens >= 0
                \/ n = 0 /\ Spend(b, now).tokens = b.tokens + (now - b.last) * Rpm
             /\ Spend(b, now).tokens + n * Cost <= Full
<1> DEFINE e == (now - b.last) * Rpm
<1>0. b.tokens \in Int /\ b.last \in Int /\ now \in Int
  BY DEF Bucket
<1>1. e \in Int /\ b.tokens \in Int
  BY Zenon, <1>0, Elapsed
<1>2. /\ Refill(b, now) \in Int
      /\ Refill(b, now) <= Full
      /\ Refill(b, now) <= b.tokens + e
      /\ Refill(b, now) < Full => Refill(b, now) = b.tokens + e
  BY <1>1, FullInt DEF Refill
<1>3. CASE Passes(b, now)
  <2>1. Spend(b, now) = [tokens |-> Refill(b, now) - Cost, last |-> now]
    BY <1>3 DEF Spend
  <2>2. Refill(b, now) >= Cost
    BY <1>3 DEF Passes
  <2> QED BY <1>1, <1>2, <1>3, <2>1, <2>2, FullInt DEF Bucket
<1>4. CASE ~Passes(b, now)
  <2>1. Spend(b, now) = [tokens |-> Refill(b, now), last |-> now]
    BY <1>4 DEF Spend
  <2>2. Refill(b, now) < Cost
    BY <1>2, <1>4, FullInt DEF Passes
  <2> QED BY <1>1, <1>2, <1>4, <2>1, <2>2, FullInt DEF Bucket
<1> QED BY <1>3, <1>4

-----------------------------------------------------------------------------
(* The later of two times.                                                  *)
LEMMA LaterIs ==
  ASSUME NEW a \in Nat, NEW b \in Nat
  PROVE  Later(a, b) \in Nat /\ a <= Later(a, b) /\ b <= Later(a, b)
BY DEF Later

(* What counting a request does to the history of a key.                    *)
LEMMA CountedIs ==
  ASSUME NEW ps \in Seq(Entry), NEW now \in Nat, NEW n \in {0, 1}
  PROVE  /\ Counted(ps, now, n) \in Seq(Entry)
         /\ DOMAIN Counted(ps, now, n) = 1 .. Len(ps) + 1
         /\ Counted(ps, now, n)[Len(ps) + 1] = [at |-> now, n |-> n]
         /\ \A p \in 1 .. Len(ps) : Counted(ps, now, n)[p] = [at |-> ps[p].at, n |-> ps[p].n + n]
<1>1. Len(ps) \in Nat /\ \A p \in 1 .. Len(ps) : ps[p] \in Entry
  OBVIOUS
<1>2. \A p \in 1 .. Len(ps) : ps[p].at \in Nat /\ ps[p].n + n \in Nat
  BY <1>1 DEF Entry
<1>3. \A p \in 1 .. Len(ps) + 1 : Counted(ps, now, n)[p] \in Entry
  BY SMTT(30), <1>1, <1>2 DEF Counted, Entry
<1>4. Counted(ps, now, n) \in [1 .. Len(ps) + 1 -> Entry]
  BY <1>3 DEF Counted
<1>5. Counted(ps, now, n) \in Seq(Entry)
  BY <1>1, <1>4
<1> QED BY <1>1, <1>5 DEF Counted

(* A request keeps the bucket's ties to its history.                        *)
LEMMA AllowKeepsBucket ==
  ASSUME NEW b \in Bucket, b # Missing, NEW now \in Nat,
         NEW ps \in Seq(Entry), NEW new \in Nat,
         BucketInv(b, ps, new)
  PROVE  BucketInv(Spend(b, now), Counted(ps, now, IF Passes(b, now) THEN 1 ELSE 0),
                   Later(new, now))
<1> DEFINE s == Spend(b, now)
           n == IF Passes(b, now) THEN 1 ELSE 0
           ps2 == Counted(ps, now, n)
           new2 == Later(new, now)
<1>1. /\ s \in Bucket
      /\ s.last = now
      /\ s.tokens <= Full
      /\ s.tokens + n * Cost <= b.tokens + (now - b.last) * Rpm
      /\ s.tokens >= 0 \/ (n = 0 /\ s.tokens = b.tokens + (now - b.last) * Rpm)
      /\ s.tokens + n * Cost <= Full
  BY SpendBucket DEF BucketInv
<1>2. /\ b.tokens \in Int /\ b.last \in Int /\ now \in Int /\ new \in Int
      /\ s.tokens \in Int /\ n \in Int /\ n \in {0, 1}
  BY <1>1 DEF Bucket
<1>3. new2 \in Int /\ new <= new2 /\ now <= new2
  BY DEF Later
<1>4. /\ DOMAIN ps2 = 1 .. Len(ps) + 1
      /\ ps2[Len(ps) + 1] = [at |-> now, n |-> n]
      /\ \A p \in 1 .. Len(ps) : ps2[p] = [at |-> ps[p].at, n |-> ps[p].n + n]
  BY Zenon, <1>2, CountedIs
<1>5. Len(ps) \in Nat /\ \A p \in 1 .. Len(ps) : ps[p] \in Entry
  OBVIOUS
<1> HIDE DEF s, n, ps2, new2
<1>6. s.tokens + (new2 - s.last) * Rpm >= 0
  <2>1. CASE s.tokens >= 0
    <3>1. (now - now) * Rpm <= (new2 - now) * Rpm /\ (new2 - now) * Rpm \in Int
      BY Zenon, <1>2, <1>3, Elapsed
    <3>2. (now - now) * Rpm = 0
      BY <1>2, LimiterAssumption
    <3> QED BY <1>1, <1>2, <2>1, <3>1, <3>2
  <2>2. CASE n = 0 /\ s.tokens = b.tokens + (now - b.last) * Rpm
    <3>1. b.tokens + (new - b.last) * Rpm >= 0
      BY DEF BucketInv
    <3>2. (b.tokens + (now - b.last) * Rpm) + (new2 - now) * Rpm >= 0
      BY <1>2, <1>3, <3>1, OwedInTime, Zenon
    <3> QED BY <1>1, <2>2, <3>2
  <2> QED BY <1>1, <2>1, <2>2
<1>7. ASSUME NEW p \in DOMAIN ps2
      PROVE  ps2[p].n * Cost + s.tokens <= Full + (s.last - ps2[p].at) * Rpm
  <2>1. CASE p = Len(ps) + 1
    <3>1. ps2[p].n = n /\ ps2[p].at = now
      BY <1>4, <2>1
    <3>2. n * Cost \in Int /\ (now - now) * Rpm = 0
      BY <1>2, FullInt, LimiterAssumption
    <3>3. n * Cost + s.tokens <= Full + (now - now) * Rpm
      BY <1>1, <1>2, <3>2, FullInt
    <3> QED BY <1>1, <3>1, <3>3
  <2>2. CASE p # Len(ps) + 1
    <3>1. p \in 1 .. Len(ps)
      BY <1>4, <1>5, <2>2
    <3>2. ps[p].n \in Int /\ ps[p].at \in Int
      BY <1>5, <3>1 DEF Entry
    <3>3. ps2[p].n = ps[p].n + n /\ ps2[p].at = ps[p].at
      <4>1. ps2[p] = [at |-> ps[p].at, n |-> ps[p].n + n]
        BY <1>4, <3>1, Zenon
      <4> QED BY <4>1
    <3>4. ps[p].n * Cost + b.tokens <= Full + (b.last - ps[p].at) * Rpm
      BY <1>5, <3>1 DEF BucketInv
    <3>5. s.tokens + n * Cost <= b.tokens + (now - b.last) * Rpm
      BY <1>1
    <3>6. (ps[p].n + n) * Cost + s.tokens <= Full + (now - ps[p].at) * Rpm
      <4>1. ASSUME NEW m \in Int, NEW at \in Int,
                   m * Cost + b.tokens <= Full + (b.last - at) * Rpm
            PROVE  (m + n) * Cost + s.tokens <= Full + (now - at) * Rpm
        BY <1>2, <3>5, <4>1, WindowGrows, Zenon
      <4> QED BY <3>2, <3>4, <4>1, Zenon
    <3> QED BY <1>1, <3>3, <3>6
  <2> QED BY <2>1, <2>2
<1>8. s.last <= new2
  BY <1>1, <1>3
<1> QED BY <1>1, <1>6, <1>7, <1>8 DEF BucketInv, s, n, ps2, new2

(* The first request of a key makes its bucket.                             *)
LEMMA FirstKeepsBucket ==
  ASSUME NEW now \in Nat, NEW new \in Nat
  PROVE  /\ Spend(Missing, now) \in Bucket
         /\ BucketInv(Spend(Missing, now), Counted(<< >>, now, 1), Later(new, now))
<1> DEFINE s == Spend(Missing, now)
<1>1. s = [tokens |-> Full - Cost, last |-> now]
  BY DEF Spend
<1>2. s \in Bucket /\ s.tokens = Full - Cost /\ s.last = now
  BY <1>1, FullInt DEF Bucket
<1>3. now \in Int /\ Later(new, now) \in Int /\ now <= Later(new, now)
  BY DEF Later
<1>4. s.tokens + (Later(new, now) - now) * Rpm >= 0
  <2>1. (now - now) * Rpm <= (Later(new, now) - now) * Rpm
        /\ (Later(new, now) - now) * Rpm \in Int
    BY Zenon, <1>3, Elapsed
  <2>2. (now - now) * Rpm = 0
    BY LimiterAssumption
  <2> QED BY <1>2, <2>1, <2>2, FullInt
<1>5. /\ DOMAIN Counted(<< >>, now, 1) = 1 .. 1
      /\ Counted(<< >>, now, 1)[1] = [at |-> now, n |-> 1]
  BY DEF Counted
<1>6. 1 * Cost + s.tokens <= Full + (now - now) * Rpm
  BY <1>2, FullInt, LimiterAssumption
<1>7. \A p \in DOMAIN Counted(<< >>, now, 1) :
        Counted(<< >>, now, 1)[p].n * Cost + s.tokens
          <= Full + (s.last - Counted(<< >>, now, 1)[p].at) * Rpm
  BY <1>2, <1>5, <1>6
<1> QED BY <1>2, <1>3, <1>4, <1>7, FullInt DEF BucketInv

(* allow keeps the limiter's invariant, whatever time the request had read. *)
LEMMA AllowKeepsInv ==
  ASSUME LimiterInv, NEW k \in Keys, NEW now \in Nat, Allow(k, now)
  PROVE  LimiterInv'
<1> DEFINE n == IF Passes(bucket[k], now) THEN 1 ELSE 0
<1>1. /\ bucket' = [bucket EXCEPT ![k] = Spend(bucket[k], now)]
      /\ newest' = [newest EXCEPT ![k] = Later(newest[k], now)]
      /\ passed' = [passed EXCEPT ![k] = Counted(passed[k], now, n)]
      /\ clock' = clock
  BY DEF Allow
<1>2. /\ clock \in Nat /\ newest \in [Keys -> Nat]
      /\ bucket \in [Keys -> Bucket \cup {Missing}]
      /\ passed \in [Keys -> Seq(Entry)]
  BY DEF LimiterInv
<1>3. n \in {0, 1}
  OBVIOUS
<1>4. Missing \notin Bucket
  BY LimiterAssumption DEF Bucket
<1>5. /\ Spend(bucket[k], now) \in Bucket
      /\ BucketInv(Spend(bucket[k], now), Counted(passed[k], now, n), Later(newest[k], now))
  <2>1. CASE bucket[k] = Missing
    <3>1. passed[k] = << >> /\ n = 1
      BY <2>1 DEF LimiterInv, Passes
    <3> QED BY <1>2, <2>1, <3>1, FirstKeepsBucket
  <2>2. CASE bucket[k] # Missing
    <3>1. bucket[k] \in Bucket /\ BucketInv(bucket[k], passed[k], newest[k])
      BY <1>2, <2>2 DEF LimiterInv
    <3>2. Spend(bucket[k], now) \in Bucket
      BY <2>2, <3>1, SpendBucket DEF BucketInv
    <3> QED BY <1>2, <2>2, <3>1, <3>2, AllowKeepsBucket
  <2> QED BY <2>1, <2>2
<1>6. Counted(passed[k], now, n) \in Seq(Entry) /\ Later(newest[k], now) \in Nat
  BY Zenon, <1>2, <1>3, CountedIs, LaterIs
<1> HIDE DEF n
<1>7. /\ clock' \in Nat /\ newest' \in [Keys -> Nat]
      /\ bucket' \in [Keys -> Bucket \cup {Missing}]
      /\ passed' \in [Keys -> Seq(Entry)]
  BY <1>1, <1>2, <1>5, <1>6
<1>8. ASSUME NEW j \in Keys
      PROVE  IF bucket'[j] = Missing THEN passed'[j] = << >>
             ELSE BucketInv(bucket'[j], passed'[j], newest'[j])
  <2>1. CASE j = k
    BY <1>1, <1>2, <1>4, <1>5, <2>1
  <2>2. CASE j # k
    <3>1. bucket'[j] = bucket[j] /\ passed'[j] = passed[j] /\ newest'[j] = newest[j]
      BY <1>1, <1>2, <2>2
    <3>2. IF bucket[j] = Missing THEN passed[j] = << >>
          ELSE BucketInv(bucket[j], passed[j], newest[j])
      BY DEF LimiterInv
    <3> QED BY <3>1, <3>2
  <2> QED BY <2>1, <2>2
<1> QED BY <1>7, <1>8 DEF LimiterInv, BucketInv

-----------------------------------------------------------------------------
Inv == LimiterInv /\ CallInv

(* The invariant holds before the first request.                            *)
LEMMA InvInit == Init => Inv
<1> SUFFICES ASSUME Init PROVE Inv
  OBVIOUS
<1>1. LimiterInv
  BY DEF Init, LimiterInit, LimiterInv
<1>2. NotAsked \in CallRecord /\ NotAsked.pc = "free"
  BY DEF NotAsked, CallRecord, Status
<1>3. CallInv
  BY <1>2 DEF Init, CallInv
<1> QED BY <1>1, <1>3 DEF Inv

(* What a client's step may make of its request: one that waits to be       *)
(* counted came with a key, and read the clock.                             *)
LEMMA CallStep ==
  ASSUME CallInv, NEW c \in Clients, NEW rec \in CallRecord,
         rec.pc = "counting" => rec.key \in Keys,
         call' = [call EXCEPT ![c] = rec]
  PROVE  CallInv'
BY DEF CallInv

(* Every step of the server keeps the invariant.                            *)
LEMMA InvNext == Inv /\ [Next]_vars => Inv'
<1> SUFFICES ASSUME Inv, [Next]_vars PROVE Inv'
  OBVIOUS
<1> USE DEF Inv
<1>0. LimiterInv /\ CallInv /\ clock \in Nat
  BY DEF LimiterInv
<1>1. ASSUME UNCHANGED limiterVars PROVE LimiterInv'
  BY <1>0, <1>1 DEF limiterVars, LimiterInv, BucketInv
<1>2. ASSUME UNCHANGED call PROVE CallInv'
  BY <1>0, <1>2 DEF CallInv
<1>3. CASE UNCHANGED vars
  BY <1>1, <1>2, <1>3 DEF vars
<1>4. CASE LoadConfig \/ BuildApp \/ Listen \/ Notify \/ Signal \/ Shutdown \/ Drain
  <2>1. UNCHANGED <<limiterVars, call>>
    BY <1>4 DEF LoadConfig, BuildApp, Listen, Notify, Signal, Shutdown, Drain
  <2> QED BY <1>1, <1>2, <2>1
<1>5. CASE Advance
  <2>1. clock' \in Nat /\ UNCHANGED <<bucket, passed, newest, call>>
    BY <1>0, <1>5 DEF Advance, Tick
  <2>2. LimiterInv'
    BY <1>0, <2>1 DEF LimiterInv, BucketInv
  <2> QED BY <1>2, <2>1, <2>2
<1>6. ASSUME NEW c \in Clients, Arrive(c) PROVE Inv'
  <2>1. PICK key \in Keys :
          call' = [call EXCEPT ![c] =
                     [NotAsked EXCEPT !.pc = IF mux.limited THEN "counting" ELSE "admitted",
                                      !.key = key,
                                      !.at = IF mux.limited THEN clock ELSE 0]]
    BY <1>6 DEF Arrive
  <2> DEFINE rec == [NotAsked EXCEPT !.pc = IF mux.limited THEN "counting" ELSE "admitted",
                                     !.key = key,
                                     !.at = IF mux.limited THEN clock ELSE 0]
  <2>2. rec \in CallRecord /\ rec.key = key
    BY Zenon, <1>0 DEF NotAsked, CallRecord, Status
  <2>3. CallInv'
    BY Zenon, <1>0, <2>1, <2>2, CallStep
  <2>4. UNCHANGED limiterVars
    BY <1>6 DEF Arrive
  <2> QED BY <1>1, <2>3, <2>4
<1>7. ASSUME NEW c \in Clients, Count(c) PROVE Inv'
  <2>1. call[c] \in CallRecord /\ call[c].pc = "counting" /\ call[c].key \in Keys /\ call[c].at \in Nat
    BY <1>0, <1>7 DEF Count, CallInv, CallRecord
  <2>2. LimiterInv'
    BY <1>0, <1>7, <2>1, AllowKeepsInv DEF Count
  <2> DEFINE yes == [call[c] EXCEPT !.pc = "admitted", !.at = 0, !.counted = TRUE]
             no == [call[c] EXCEPT !.pc = "answer", !.at = 0, !.status = "rate_limited"]
  <2>3. yes \in CallRecord /\ no \in CallRecord /\ yes.pc = "admitted" /\ no.pc = "answer"
    BY Zenon, <2>1 DEF CallRecord, Status
  <2>4. call' = [call EXCEPT ![c] = IF Passes(bucket[call[c].key], call[c].at) THEN yes ELSE no]
    BY <1>7 DEF Count, Keep
  <2>5. CallInv'
    <3>1. CASE Passes(bucket[call[c].key], call[c].at)
      BY Zenon, <1>0, <2>3, <2>4, <3>1, CallStep
    <3>2. CASE ~Passes(bucket[call[c].key], call[c].at)
      BY Zenon, <1>0, <2>3, <2>4, <3>2, CallStep
    <3> QED BY <3>1, <3>2
  <2> QED BY <2>2, <2>5
<1>8. ASSUME NEW c \in Clients, Route(c) PROVE Inv'
  <2>0. ASSUME NEW kind \in Kinds PROVE Users(kind) \in Status
    BY DEF Users, Status
  <2>1. PICK kind \in Kinds, answer \in Status :
          call' = [call EXCEPT ![c] =
                     [call[c] EXCEPT !.pc = IF answer = "none" THEN "service" ELSE "answer",
                                     !.kind = kind, !.status = answer]]
    BY Zenon, <1>8, <2>0 DEF Route, Keep, Status
  <2> DEFINE rec == [call[c] EXCEPT !.pc = IF answer = "none" THEN "service" ELSE "answer",
                                    !.kind = kind, !.status = answer]
  <2>2. call[c] \in CallRecord
    BY <1>0 DEF CallInv
  <2>3. rec \in CallRecord /\ rec.pc # "counting"
    BY <2>2, ZenonT(60) DEF CallRecord, Status
  <2>4. CallInv'
    BY Zenon, <1>0, <2>1, <2>3, CallStep
  <2>5. UNCHANGED limiterVars
    BY <1>8 DEF Route
  <2> QED BY <1>1, <2>4, <2>5
<1>9. ASSUME NEW c \in Clients, Serve(c) PROVE Inv'
  <2>1. PICK status \in {"ok", "invalid_input", "internal"}, applied \in BOOLEAN :
          call' = [call EXCEPT ![c] =
                     [call[c] EXCEPT !.pc = "answer", !.applied = applied,
                                     !.status = IF @ = "none" THEN status ELSE @]]
    BY <1>9 DEF Serve, Keep
  <2> DEFINE rec == [call[c] EXCEPT !.pc = "answer", !.applied = applied,
                                    !.status = IF @ = "none" THEN status ELSE @]
  <2>2. call[c] \in CallRecord
    BY <1>0 DEF CallInv
  <2>3. rec \in CallRecord /\ rec.pc # "counting"
    BY <2>2, ZenonT(60) DEF CallRecord, Status
  <2>4. CallInv'
    BY Zenon, <1>0, <2>1, <2>3, CallStep
  <2>5. UNCHANGED limiterVars
    BY <1>9 DEF Serve
  <2> QED BY <1>1, <2>4, <2>5
<1>10. ASSUME NEW c \in Clients, Return(c) PROVE Inv'
  <2>1. call' = [call EXCEPT ![c] = NotAsked] /\ UNCHANGED limiterVars
    BY <1>10 DEF Return, Keep
  <2>2. NotAsked \in CallRecord /\ NotAsked.pc # "counting"
    BY DEF NotAsked, CallRecord, Status
  <2>3. CallInv'
    BY Zenon, <1>0, <2>1, <2>2, CallStep
  <2> QED BY <1>1, <2>1, <2>3
<1> QED BY <1>3, <1>4, <1>5, <1>6, <1>7, <1>8, <1>9, <1>10 DEF Next

(* For every rate, burst and order of counting, no window of requests of a  *)
(* key lets more through than the burst and the refill of its length.       *)
THEOREM RateIsBounded == Spec => []RateBound
<1>1. Inv => RateBound
  <2> SUFFICES ASSUME Inv, NEW k \in Keys, NEW p \in DOMAIN passed[k]
               PROVE  passed[k][p].n * Cost <= Full + (newest[k] - passed[k][p].at) * Rpm
    BY DEF RateBound
  <2> DEFINE b == bucket[k]
  <2>1. b \in Bucket /\ BucketInv(b, passed[k], newest[k])
    BY DEF Inv, LimiterInv
  <2>2. /\ b.tokens \in Int /\ b.last \in Int /\ newest[k] \in Int
        /\ passed[k][p].n \in Int /\ passed[k][p].at \in Int
    <3>1. passed[k] \in Seq(Entry) /\ newest[k] \in Nat
      BY DEF Inv, LimiterInv
    <3>2. passed[k][p] \in Entry
      BY <3>1
    <3> QED BY <2>1, <3>1, <3>2 DEF Bucket, Entry
  <2>3. /\ b.tokens + (newest[k] - b.last) * Rpm >= 0
        /\ passed[k][p].n * Cost + b.tokens <= Full + (b.last - passed[k][p].at) * Rpm
    BY <2>1 DEF BucketInv
  <2> HIDE DEF b
  <2>4. ASSUME NEW m \in Int, NEW at \in Int, NEW new \in Int, NEW t \in Int, NEW l \in Int,
               t + (new - l) * Rpm >= 0,
               m * Cost + t <= Full + (l - at) * Rpm
        PROVE  m * Cost <= Full + (new - at) * Rpm
    <3>1. /\ (new - l) * Rpm \in Int /\ (l - at) * Rpm \in Int /\ (new - at) * Rpm \in Int
          /\ (new - l) * Rpm + (l - at) * Rpm = (new - at) * Rpm
      BY Elapsed, ZenonT(60)
    <3>2. m * Cost \in Int
      BY FullInt
    <3> QED BY <2>4, <3>1, <3>2, FullInt
  <2> QED BY <2>2, <2>3, <2>4, Zenon
<1> QED BY <1>1, InvInit, InvNext, PTL DEF Spec

(* A client that lets the time of one token pass is let through, whatever   *)
(* was refused or counted out of order before.                              *)
THEOREM WaitingIsEnough == Spec => []WaitedIsAdmitted
<1>1. Inv => WaitedIsAdmitted
  <2> SUFFICES ASSUME Inv, NEW k \in Keys, NEW now \in 0 .. clock,
                      (now - newest[k]) * Rpm >= Cost, bucket[k] # Missing
               PROVE  Refill(bucket[k], now) >= Cost
    BY DEF WaitedIsAdmitted, Passes
  <2> DEFINE b == bucket[k]
             new == newest[k]
  <2>1. b \in Bucket /\ BucketInv(b, passed[k], new) /\ new \in Nat /\ clock \in Nat
    BY DEF Inv, LimiterInv
  <2>2. b.tokens \in Int /\ b.last \in Int /\ new \in Int /\ now \in Int
    BY <2>1 DEF Bucket
  <2>3. b.tokens + (new - b.last) * Rpm >= 0
    BY <2>1 DEF BucketInv
  <2> HIDE DEF b, new
  <2>4. (now - new) * Rpm >= Cost
    BY DEF new
  <2>5. /\ (now - new) * Rpm \in Int /\ (new - b.last) * Rpm \in Int
        /\ (now - b.last) * Rpm \in Int
        /\ (now - new) * Rpm + (new - b.last) * Rpm = (now - b.last) * Rpm
    BY Zenon, <2>2, Elapsed
  <2>6. b.tokens + (now - b.last) * Rpm >= Cost
    BY <2>2, <2>3, <2>4, <2>5, FullInt
  <2> QED BY <2>6, FullInt DEF Refill, b
<1> QED BY <1>1, InvInit, InvNext, PTL DEF Spec
-----------------------------------------------------------------------------
(* The server from its configuration to its answers                        *)

(* A configuration that is loaded limits with parameters that limit and has *)
(* no empty key, so what is built from it does what it asks for; requests   *)
(* come only after that.                                                    *)
BuiltInv ==
  /\ phase = "loaded" => SecurityValid(cfg)
  /\ phase \in {"start", "loaded"} => \A c \in Clients : call[c].pc = "free"
  /\ asked.limit => mux.limited
  /\ asked.apiKeys # {} => mux.keyed /\ mux.allowed = asked.apiKeys

(* Where a request is tells what it has passed, and what it has done.       *)
Through(r) ==
  /\ r.pc \in {"admitted", "service"} /\ mux.limited => r.counted
  /\ r.pc = "service" /\ mux.keyed => r.key \in mux.allowed
  /\ r.pc \in {"counting", "admitted", "service"} => r.status = "none" /\ ~r.applied
  /\ r.applied => r.status \in {"ok", "invalid_input"}

ServerInv ==
  /\ Inv
  /\ BuiltInv
  /\ \A c \in Clients : Through(call[c])

(* A profile is not validated, and is valid.                                *)
LEMMA ProfilesAreSecure ==
  ASSUME NEW name \in Profiles
  PROVE  SecurityValid(LoadProfile(name))
<1>1. Rpm > 0 /\ Burst > 0
  BY LimiterAssumption
<1>2. DefaultConfig.rpm = Rpm /\ DefaultConfig.burst = Burst /\ DefaultConfig.apiKeys = {}
  BY DEF DefaultConfig
<1>3. ASSUME NEW p, p.rpm = Rpm, p.burst = Burst, p.apiKeys = {} PROVE SecurityValid(p)
  BY <1>1, <1>3 DEF SecurityValid
<1>4. \A p \in {ProfileDevelopment, ProfileTesting, ProfileStaging, ProfileProduction,
                ProfileProductionSQL, ProfileProductionMySQL} :
        p.rpm = Rpm /\ p.burst = Burst /\ p.apiKeys = {}
  <2>1. ProfileProduction.rpm = Rpm /\ ProfileProduction.burst = Burst
        /\ ProfileProduction.apiKeys = {}
    BY DEF ProfileProduction, DefaultConfig
  <2>2. ProfileTesting.rpm = Rpm /\ ProfileTesting.burst = Burst /\ ProfileTesting.apiKeys = {}
    BY DEF ProfileTesting, DefaultConfig
  <2>3. ProfileStaging.rpm = Rpm /\ ProfileStaging.burst = Burst /\ ProfileStaging.apiKeys = {}
    BY DEF ProfileStaging, DefaultConfig
  <2>4. ProfileProductionSQL.rpm = Rpm /\ ProfileProductionSQL.burst = Burst
        /\ ProfileProductionSQL.apiKeys = {}
    BY DEF ProfileProductionSQL, ProfileProduction, DefaultConfig
  <2> QED BY <1>2, <2>1, <2>2, <2>3, <2>4
         DEF ProfileDevelopment, ProfileProductionSQL, ProfileProductionMySQL
<1>5. LoadProfile(name) \in {ProfileDevelopment, ProfileTesting, ProfileStaging,
                              ProfileProduction, ProfileProductionSQL, ProfileProductionMySQL}
  BY DEF LoadProfile, Profiles
<1> QED BY <1>3, <1>4, <1>5

(* What LoadConfig accepts is secure.                                       *)
LEMMA LoadedIsSecure == LoadConfig /\ phase' = "loaded" => SecurityValid(cfg')
<1> SUFFICES ASSUME LoadConfig, phase' = "loaded" PROVE SecurityValid(cfg')
  OBVIOUS
<1>1. cfg' = Loaded /\ (source \in Profiles \/ Validate(Loaded))
  BY DEF LoadConfig, Exit
<1>2. CASE source \in Profiles
  <2>1. Loaded = LoadProfile(source)
    BY <1>2 DEF Loaded, Profiles
  <2> QED BY <1>1, <1>2, <2>1, ProfilesAreSecure
<1>3. CASE Validate(Loaded)
  BY <1>1, <1>3 DEF Validate
<1> QED BY <1>1, <1>2, <1>3

(* The server starts with nothing asked for and no request.                 *)
LEMMA ServerInvInit == Init => ServerInv
<1> SUFFICES ASSUME Init PROVE ServerInv
  OBVIOUS
<1>1. BuiltInv
  BY DEF Init, BuiltInv, NotAsked
<1>2. ASSUME NEW c \in Clients PROVE Through(call[c])
  BY DEF Init, Through, NotAsked
<1> QED BY <1>1, <1>2, InvInit DEF ServerInv

(* A client's step puts one request in its place.                           *)
LEMMA ThroughStep ==
  ASSUME ServerInv, UNCHANGED mainVars, NEW c \in Clients, NEW rec, Through(rec),
         rec.pc = "free" \/ phase \notin {"start", "loaded"},
         call' = [call EXCEPT ![c] = rec]
  PROVE  BuiltInv' /\ \A d \in Clients : Through(call[d])'
<1>1. call \in [Clients -> CallRecord]
  BY DEF ServerInv, Inv, CallInv
<1>2. BuiltInv'
  BY <1>1 DEF ServerInv, BuiltInv, mainVars, SecurityValid
<1>3. ASSUME NEW d \in Clients PROVE Through(call[d])'
  BY <1>1 DEF ServerInv, Through, mainVars
<1> QED BY <1>2, <1>3

(* A step of main leaves the requests alone, and once something is built     *)
(* the middleware too.                                                      *)
LEMMA MainStep ==
  ASSUME ServerInv, LoadConfig \/ BuildApp \/ Listen \/ Notify \/ Signal \/ Shutdown \/ Drain
  PROVE  BuiltInv' /\ \A c \in Clients : Through(call[c])'
<1> USE DEF ServerInv
<1>1. UNCHANGED call
  BY DEF LoadConfig, BuildApp, Listen, Notify, Signal, Shutdown, Drain
<1>2. CASE LoadConfig
  <2>1. phase = "start" /\ phase' \in {"loaded", "exited"} /\ UNCHANGED <<mux, asked>>
    BY <1>2 DEF LoadConfig, Exit
  <2>2. BuiltInv'
    BY <1>1, <1>2, <2>1, LoadedIsSecure DEF BuiltInv
  <2>3. ASSUME NEW c \in Clients PROVE Through(call[c])'
    BY <1>1, <2>1 DEF Through
  <2> QED BY <2>2, <2>3
<1>3. CASE BuildApp
  <2>1. phase = "loaded" /\ phase' \notin {"start", "loaded"} /\ SecurityValid(cfg)
    BY <1>3 DEF BuildApp, Exit, BuiltInv
  <2>2. \/ UNCHANGED <<mux, asked>>
        \/ mux' = Middleware(cfg) /\ asked' = [limit |-> cfg.limit, apiKeys |-> cfg.apiKeys]
    BY <1>3 DEF BuildApp
  <2>3. BuiltInv'
    <3>1. CASE UNCHANGED <<mux, asked>>
      BY <2>1, <3>1 DEF BuiltInv
    <3>2. CASE mux' = Middleware(cfg) /\ asked' = [limit |-> cfg.limit, apiKeys |-> cfg.apiKeys]
      <4>1. asked'.limit => mux'.limited
        BY <2>1, <3>2 DEF Middleware, SecurityValid
      <4>2. asked'.apiKeys # {} => mux'.keyed /\ mux'.allowed = asked'.apiKeys
        BY <2>1, <3>2 DEF Middleware, SecurityValid
      <4> QED BY <2>1, <4>1, <4>2 DEF BuiltInv
    <3> QED BY <2>2, <3>1, <3>2
  <2>4. ASSUME NEW c \in Clients PROVE Through(call[c])'
    <3>1. call'[c] = call[c] /\ call[c].pc = "free" /\ Through(call[c])
      BY <1>1, <2>1 DEF BuiltInv
    <3> QED BY <3>1 DEF Through
  <2> QED BY <2>3, <2>4
<1>4. CASE Listen \/ Notify \/ Signal \/ Shutdown \/ Drain
  <2>1. /\ UNCHANGED <<mux, asked>>
        /\ phase' # phase => phase' \notin {"start", "loaded"}
        /\ phase' = "loaded" => cfg' = cfg
    BY <1>4 DEF Listen, Notify, Signal, Shutdown, Drain, Exit
  <2>2. BuiltInv'
    BY <1>1, <2>1 DEF BuiltInv
  <2>3. ASSUME NEW c \in Clients PROVE Through(call[c])'
    BY <1>1, <2>1 DEF Through
  <2> QED BY <2>2, <2>3
<1> QED BY <1>2, <1>3, <1>4

(* Every step of the server keeps the invariant.                            *)
LEMMA ServerInvNext == ServerInv /\ [Next]_vars => ServerInv'
<1> SUFFICES ASSUME ServerInv, [Next]_vars
             PROVE  BuiltInv' /\ \A c \in Clients : Through(call[c])'
  BY InvNext DEF ServerInv
<1>0. /\ call \in [Clients -> CallRecord]
      /\ \A c \in Clients : Through(call[c])
      /\ \A c \in Clients : call[c].pc # "free" => phase \notin {"start", "loaded"}
  BY DEF ServerInv, Inv, CallInv, BuiltInv
<1>1. CASE UNCHANGED vars \/ Advance
  <2>1. UNCHANGED <<mainVars, call>>
    BY <1>1 DEF vars, Advance
  <2>2. BuiltInv'
    BY <2>1 DEF ServerInv, BuiltInv, mainVars
  <2>3. ASSUME NEW c \in Clients PROVE Through(call[c])'
    BY <1>0, <2>1 DEF Through, mainVars
  <2> QED BY <2>2, <2>3
<1>2. ASSUME NEW c \in Clients, Arrive(c)
      PROVE  BuiltInv' /\ \A d \in Clients : Through(call[d])'
  <2>1. PICK key \in Keys :
          call' = [call EXCEPT ![c] =
                     [NotAsked EXCEPT !.pc = IF mux.limited THEN "counting" ELSE "admitted",
                                      !.key = key,
                                      !.at = IF mux.limited THEN clock ELSE 0]]
    BY <1>2 DEF Arrive
  <2> DEFINE rec == [NotAsked EXCEPT !.pc = IF mux.limited THEN "counting" ELSE "admitted",
                                     !.key = key,
                                     !.at = IF mux.limited THEN clock ELSE 0]
  <2>2. Through(rec)
    BY DEF Through, NotAsked
  <2> QED BY Zenon, <1>2, <2>1, <2>2, ThroughStep DEF Arrive
<1>3. ASSUME NEW c \in Clients, Count(c)
      PROVE  BuiltInv' /\ \A d \in Clients : Through(call[d])'
  <2>1. /\ call[c] \in CallRecord /\ call[c].pc = "counting" /\ Through(call[c])
        /\ UNCHANGED mainVars
    BY <1>0, <1>3 DEF Count, Keep
  <2> DEFINE yes == [call[c] EXCEPT !.pc = "admitted", !.at = 0, !.counted = TRUE]
             no == [call[c] EXCEPT !.pc = "answer", !.at = 0, !.status = "rate_limited"]
  <2>2. Through(yes) /\ Through(no)
    BY <2>1 DEF Through, CallRecord
  <2>3. call' = [call EXCEPT ![c] = yes] \/ call' = [call EXCEPT ![c] = no]
    BY Zenon, <1>3 DEF Count, Keep
  <2> HIDE DEF yes, no
  <2> QED BY <1>0, <2>1, <2>2, <2>3, ThroughStep
<1>4. ASSUME NEW c \in Clients, Route(c)
      PROVE  BuiltInv' /\ \A d \in Clients : Through(call[d])'
  <2>1. /\ call[c] \in CallRecord /\ call[c].pc = "admitted" /\ Through(call[c])
        /\ UNCHANGED mainVars
    BY <1>0, <1>4 DEF Route, Keep
  <2>a. PICK kind \in Kinds : \E answer :
          /\ answer = IF ~Authorized(c) THEN "unauthorized"
                      ELSE IF Preflight(kind) THEN "no_content" ELSE Users(kind)
          /\ call' = [call EXCEPT ![c] =
                        [call[c] EXCEPT !.pc = IF answer = "none" THEN "service" ELSE "answer",
                                        !.kind = kind, !.status = answer]]
    BY <1>4 DEF Route, Keep
  <2>2. PICK answer :
          /\ answer = IF ~Authorized(c) THEN "unauthorized"
                      ELSE IF Preflight(kind) THEN "no_content" ELSE Users(kind)
          /\ call' = [call EXCEPT ![c] =
                        [call[c] EXCEPT !.pc = IF answer = "none" THEN "service" ELSE "answer",
                                        !.kind = kind, !.status = answer]]
    BY <2>a
  <2> DEFINE rec == [call[c] EXCEPT !.pc = IF answer = "none" THEN "service" ELSE "answer",
                                    !.kind = kind, !.status = answer]
  <2>3. /\ answer \in {"unauthorized", "no_content", "none", "invalid_request", "not_found"}
        /\ answer = "none" => Authorized(c)
    BY <2>2 DEF Users, Preflight
  <2>4. /\ rec.pc = (IF answer = "none" THEN "service" ELSE "answer")
        /\ rec.kind = kind /\ rec.status = answer /\ rec.key = call[c].key
        /\ rec.counted = call[c].counted /\ rec.applied = call[c].applied
    BY <2>1 DEF CallRecord
  <2> HIDE DEF rec
  <2>5. Through(rec)
    BY <2>1, <2>3, <2>4 DEF Through, Authorized
  <2>6. call' = [call EXCEPT ![c] = rec]
    BY <2>2 DEF rec
  <2> QED BY Zenon, <1>0, <2>1, <2>5, <2>6, ThroughStep
<1>5. ASSUME NEW c \in Clients, Serve(c)
      PROVE  BuiltInv' /\ \A d \in Clients : Through(call[d])'
  <2>1. /\ call[c] \in CallRecord /\ call[c].pc = "service" /\ Through(call[c])
        /\ UNCHANGED mainVars
    BY <1>0, <1>5 DEF Serve, Keep
  <2>2. PICK status \in {"ok", "invalid_input", "internal"}, applied \in BOOLEAN :
          /\ applied => status \in {"ok", "invalid_input"}
          /\ call' = [call EXCEPT ![c] =
                        [call[c] EXCEPT !.pc = "answer", !.applied = applied,
                                        !.status = IF @ = "none" THEN status ELSE @]]
    BY Zenon, <1>5 DEF Serve, Keep
  <2> DEFINE rec == [call[c] EXCEPT !.pc = "answer", !.applied = applied,
                                    !.status = IF @ = "none" THEN status ELSE @]
  <2>3. /\ rec.pc = "answer" /\ rec.applied = applied /\ rec.status = status
    BY <2>1 DEF CallRecord, Through
  <2> HIDE DEF rec
  <2>4. Through(rec)
    BY <2>1, <2>2, <2>3 DEF Through
  <2>5. call' = [call EXCEPT ![c] = rec]
    BY <2>2 DEF rec
  <2> QED BY Zenon, <1>0, <2>1, <2>4, <2>5, ThroughStep
<1>6. ASSUME NEW c \in Clients, Return(c)
      PROVE  BuiltInv' /\ \A d \in Clients : Through(call[d])'
  <2>1. call[c] \in CallRecord /\ Through(call[c]) /\ UNCHANGED mainVars
    BY <1>0, <1>6 DEF Return, Keep
  <2>2. call' = [call EXCEPT ![c] = NotAsked]
    BY <1>6 DEF Return, Keep
  <2>3. Through(NotAsked) /\ NotAsked.pc = "free"
    BY DEF Through, NotAsked
  <2> QED BY Zenon, <2>1, <2>2, <2>3, ThroughStep
<1> QED BY <1>1, <1>2, <1>3, <1>4, <1>5, <1>6, MainStep DEF Next

(* Whatever the configuration is made of, a request at the service was      *)
(* counted if the configuration limits rates, and has one of its keys if it *)
(* has keys.                                                                *)
THEOREM ServiceIsGuarded == Spec => []ServiceGuarded
<1>1. ServerInv => ServiceGuarded
  BY DEF ServerInv, BuiltInv, Through, ServiceGuarded
<1> QED BY <1>1, ServerInvInit, ServerInvNext, PTL DEF Spec

(* However requests interleave with each other and with a shutdown, a       *)
(* change is made only for a request answered ok or invalid_input: every    *)
(* other error answer means that nothing has changed.                       *)
THEOREM RefusalsChangeNothing == Spec => []RefusalChangesNothing
<1>1. ServerInv => RefusalChangesNothing
  BY DEF ServerInv, Through, RefusalChangesNothing
<1> QED BY <1>1, ServerInvInit, ServerInvNext, PTL DEF Spec
=============================================================================
