-------------------------- MODULE AnalyticsProofs --------------------------
(***************************************************************************)
(* Proofs about the dashboard and the export, for any number of            *)
(* goroutines, events and days and any failures of the exporters.          *)
(***************************************************************************)
EXTENDS Streaming, AggregationProofs

-----------------------------------------------------------------------------
(* What is counted, and what is still to reach the dashboard               *)

StreamEvent == [kind : {"points", "level", "badge", "achievement"}, points : Int]

Values(val, es) == [i \in 1 .. Len(es) |-> val[es[i]]]

(* Lines of distinct workers out of P.                                     *)
Lines(P) == {ws \in Seq(P) : \A i, j \in 1 .. Len(ws) : ws[i] = ws[j] => i = j}

Owing(val, ws, wk) == [i \in 1 .. Len(ws) |-> val[wk[ws[i]].e]]

(* A total has counted the events in es, and on top of them the one event  *)
(* each worker of P has still to add.                                      *)
Promise(val, all, es, P, wk) ==
  \A ws \in Lines(P) : SeqSum(Values(val, es)) + SeqSum(Owing(val, ws, wk)) <= all

(* The values of events are numbers, whose sum is one.                     *)
LEMMA ValuesType ==
  ASSUME NEW val \in [StreamEvent -> Nat], NEW es \in Seq(StreamEvent)
  PROVE  /\ Values(val, es) \in Seq(Nat) /\ Values(val, es) \in Seq(Int)
         /\ SeqSum(Values(val, es)) \in Nat
<1>1. Values(val, es) \in Seq(Nat)
  BY DEF Values
<1>2. Values(val, es) \in Seq(Int)
  BY DEF Values
<1> QED BY Zenon, <1>1, <1>2, SumNat

(* So are those that the workers of a line have to add.                    *)
LEMMA OwingType ==
  ASSUME NEW val \in [StreamEvent -> Nat], NEW P, NEW wk,
         \A w \in P : wk[w].e \in StreamEvent, NEW ws \in Seq(P)
  PROVE  /\ Owing(val, ws, wk) \in Seq(Nat) /\ Owing(val, ws, wk) \in Seq(Int)
         /\ SeqSum(Owing(val, ws, wk)) \in Nat
<1>0. \A i \in 1 .. Len(ws) : ws[i] \in P /\ val[wk[ws[i]].e] \in Nat
  OBVIOUS
<1>1. Owing(val, ws, wk) \in Seq(Nat)
  BY <1>0 DEF Owing
<1>2. Owing(val, ws, wk) \in Seq(Int)
  BY <1>0 DEF Owing
<1> QED BY Zenon, <1>1, <1>2, SumNat

(* An event is counted before it is published: the total that counts it    *)
(* keeps its promise for the worker that will publish it.                  *)
LEMMA PromiseCounts ==
  ASSUME NEW val \in [StreamEvent -> Nat], NEW es \in Seq(StreamEvent), NEW all \in Int,
         NEW P, NEW wk, \A u \in P : wk[u].e \in StreamEvent,
         Promise(val, all, es, P, wk),
         NEW w, w \notin P, NEW new, \A u \in P : new[u] = wk[u],
         new[w].e \in StreamEvent
  PROVE  Promise(val, all + val[new[w].e], es, P \cup {w}, new)
<1> DEFINE v == val[new[w].e]
           base == SeqSum(Values(val, es))
<1>1. v \in Nat /\ base \in Nat
  BY ValuesType
<1> SUFFICES ASSUME NEW ws \in Lines(P \cup {w})
             PROVE  base + SeqSum(Owing(val, ws, new)) <= all + v
  BY DEF Promise
<1>2. ws \in Seq(P \cup {w}) /\ \A i, j \in 1 .. Len(ws) : ws[i] = ws[j] => i = j
  BY Zenon DEF Lines
<1>3. CASE \A i \in 1 .. Len(ws) : ws[i] # w
  <2>1. ws \in Seq(P)
    <3>1. \A i \in 1 .. Len(ws) : ws[i] \in P
      BY <1>2, <1>3
    <3>2. Len(ws) \in Nat /\ ws = [i \in 1 .. Len(ws) |-> ws[i]]
      BY <1>2
    <3> QED BY SMTT(30), <3>1, <3>2
  <2>2. ws \in Lines(P)
    BY Zenon, <1>2, <2>1 DEF Lines
  <2>3. Owing(val, ws, new) = Owing(val, ws, wk)
    BY <2>1 DEF Owing
  <2>4. base + SeqSum(Owing(val, ws, wk)) <= all /\ SeqSum(Owing(val, ws, wk)) \in Nat
    BY Zenon, <2>1, <2>2, OwingType DEF Promise
  <2> HIDE DEF v, base
  <2> QED BY <1>1, <2>3, <2>4
<1>4. CASE \E i \in 1 .. Len(ws) : ws[i] = w
  <2>1. PICK i \in 1 .. Len(ws) : ws[i] = w
    BY <1>4
  <2> DEFINE t == [j \in 1 .. Len(ws) - 1 |-> IF j < i THEN ws[j] ELSE ws[j + 1]]
  <2>2. /\ Len(ws) - 1 \in Nat /\ Len(t) = Len(ws) - 1
        /\ \A j \in 1 .. Len(t) : t[j] = IF j < i THEN ws[j] ELSE ws[j + 1]
    OBVIOUS
  <2>3. ASSUME NEW j \in 1 .. Len(t) PROVE t[j] \in P
    <3>1. CASE j < i
      <4>1. j \in 1 .. Len(ws) /\ j # i /\ t[j] = ws[j]
        BY SMTT(30), <2>2, <3>1
      <4> QED BY SMTT(30), <1>2, <2>1, <4>1
    <3>2. CASE ~(j < i)
      <4>1. j + 1 \in 1 .. Len(ws) /\ j + 1 # i /\ t[j] = ws[j + 1]
        BY <2>2, <3>2
      <4> QED BY SMTT(30), <1>2, <2>1, <4>1
    <3> QED BY <3>1, <3>2
  <2>4. t \in Seq(P)
    BY <2>2, <2>3
  <2>5. ASSUME NEW j \in 1 .. Len(t), NEW k \in 1 .. Len(t), t[j] = t[k] PROVE j = k
    <3> DEFINE J == IF j < i THEN j ELSE j + 1
               K == IF k < i THEN k ELSE k + 1
    <3>1. J \in 1 .. Len(ws) /\ K \in 1 .. Len(ws) /\ t[j] = ws[J] /\ t[k] = ws[K]
      BY <2>2
    <3>2. J = K
      BY Zenon, <1>2, <2>5, <3>1
    <3> QED BY <3>2
  <2>6. t \in Lines(P)
    BY Zenon, <2>4, <2>5 DEF Lines
  <2> HIDE DEF t
  <2>7. SeqSum(Owing(val, ws, new)) = SeqSum(Owing(val, t, wk)) + v
    <3> DEFINE big == Owing(val, ws, new)
               small == Owing(val, t, wk)
    <3>1. big \in Seq(Int) /\ small \in Seq(Int)
      BY Zenon, <1>2, <2>4, OwingType
    <3>2. Len(big) = Len(ws) /\ Len(small) = Len(t) /\ big[i] = v
      BY <2>1, <2>2 DEF Owing
    <3>3. ASSUME NEW j \in 1 .. Len(t) PROVE small[j] = IF j < i THEN big[j] ELSE big[j + 1]
      <4>1. small[j] = val[new[t[j]].e]
        BY <2>3 DEF Owing
      <4>2. j \in 1 .. Len(ws) /\ j + 1 \in 1 .. Len(ws)
        BY <2>2
      <4> QED BY Zenon, <2>2, <4>1, <4>2 DEF Owing
    <3> HIDE DEF big, small
    <3>4. i \in 1 .. Len(big) /\ Len(big) = Len(small) + 1
      BY <2>2, <3>2
    <3>5. SeqSum(big) = SeqSum(small) + big[i]
      BY ZenonT(40), <3>1, <3>2, <3>3, <3>4, SumWithout
    <3> QED BY <3>2, <3>5 DEF big, small
  <2>8. base + SeqSum(Owing(val, t, wk)) <= all /\ SeqSum(Owing(val, t, wk)) \in Nat
    BY Zenon, <2>4, <2>6, OwingType DEF Promise
  <2> HIDE DEF v, base
  <2> QED BY SMTT(30), <1>1, <2>7, <2>8
<1> QED BY Zenon, <1>3, <1>4

(* The event a worker adds is one it owed; the dashboard may forget an old *)
(* one for it.                                                             *)
LEMMA PromiseKept ==
  ASSUME NEW val \in [StreamEvent -> Nat], NEW es \in Seq(StreamEvent), NEW all \in Int,
         NEW P, NEW wk, \A u \in P : wk[u].e \in StreamEvent,
         Promise(val, all, es, P, wk),
         NEW w \in P, NEW new, \A u \in P \ {w} : new[u] = wk[u],
         NEW later, later = Append(es, wk[w].e) \/ later = Tail(Append(es, wk[w].e))
  PROVE  later \in Seq(StreamEvent) /\ Promise(val, all, later, P \ {w}, new)
<1> DEFINE e == wk[w].e
           v == val[e]
           r == Append(es, e)
           base == SeqSum(Values(val, es))
<1>1. e \in StreamEvent /\ v \in Nat /\ base \in Nat /\ Values(val, es) \in Seq(Int)
  BY ValuesType
<1> HIDE DEF e
<1>2. r \in Seq(StreamEvent) /\ r # <<>> /\ Len(r) = Len(es) + 1
  BY <1>1
<1>3. SeqSum(Values(val, r)) = base + v /\ SeqSum(Values(val, r)) \in Nat
  <2>1. Values(val, r) = Append(Values(val, es), v)
    BY <1>1 DEF Values
  <2>2. SeqSum(Values(val, r)) \in Nat
    BY Zenon, <1>2, ValuesType
  <2> DEFINE vs == Values(val, es)
  <2>3. vs \in Seq(Int) /\ v \in Int
    BY <1>1
  <2> HIDE DEF vs, v
  <2>4. SeqSum(Append(vs, v)) = SeqSum(vs) + v
    BY ZenonT(40), <2>3, SumAppend
  <2> QED BY ZenonT(40), <2>1, <2>2, <2>4 DEF vs
<1>4. later \in Seq(StreamEvent) /\ SeqSum(Values(val, later)) <= base + v
      /\ SeqSum(Values(val, later)) \in Nat
  <2>1. CASE later = r
    BY SMTT(30), <1>1, <1>2, <1>3, <2>1
  <2>2. CASE later = Tail(r)
    <3>1. later \in Seq(StreamEvent)
      BY SMTT(30), <1>2, <2>2
    <3>2. /\ Values(val, r) \in Seq(Nat) /\ Values(val, r) # <<>>
          /\ Tail(Values(val, r)) = Values(val, later)
          /\ Head(Values(val, r)) \in Nat
      <4> HIDE DEF r
      <4>1. Values(val, r) \in Seq(Nat)
        BY Zenon, <1>2, ValuesType
      <4>2. Len(Values(val, r)) = Len(r) /\ Len(r) \in Nat \ {0}
        BY <1>2 DEF Values
      <4>3. later \in Seq(StreamEvent) /\ Len(later) = Len(r) - 1
            /\ \A i \in 1 .. Len(later) : later[i] = r[i + 1]
        BY SMTT(30), <1>2, <2>2
      <4>4. Tail(Values(val, r)) = Values(val, later)
        BY SMTT(30), <4>1, <4>2, <4>3 DEF Values
      <4> QED BY SMTT(30), <4>1, <4>2, <4>4
    <3>3. SeqSum(Values(val, r)) = SeqSum(Values(val, later)) + Head(Values(val, r))
      BY Zenon, <1>2, <3>2, SumTail, ValuesType
    <3>4. SeqSum(Values(val, later)) \in Nat
      BY Zenon, <3>1, ValuesType
    <3> HIDE DEF base, v
    <3> QED BY SMTT(30), <1>1, <1>3, <3>1, <3>2, <3>3, <3>4
  <2> QED BY Zenon, <2>1, <2>2 DEF e
<1>5. ASSUME NEW ws \in Lines(P \ {w})
      PROVE  SeqSum(Values(val, later)) + SeqSum(Owing(val, ws, new)) <= all
  <2> DEFINE t == Append(ws, w)
  <2>1. ws \in Seq(P \ {w}) /\ ws \in Seq(P)
        /\ \A i, j \in 1 .. Len(ws) : ws[i] = ws[j] => i = j
    BY SMTT(30) DEF Lines
  <2>2. t \in Seq(P) /\ Len(t) = Len(ws) + 1 /\ t[Len(ws) + 1] = w
        /\ \A i \in 1 .. Len(ws) : t[i] = ws[i] /\ t[i] # w
    BY <2>1
  <2> HIDE DEF t
  <2>3. t \in Lines(P)
    <3>1. ASSUME NEW i \in 1 .. Len(t), NEW j \in 1 .. Len(t), t[i] = t[j] PROVE i = j
      <4>1. CASE i \in 1 .. Len(ws) /\ j \in 1 .. Len(ws)
        BY ZenonT(40), <2>1, <2>2, <3>1, <4>1
      <4>2. CASE i = Len(ws) + 1 /\ j = Len(ws) + 1
        BY Zenon, <4>2
      <4>3. CASE \/ i = Len(ws) + 1 /\ j \in 1 .. Len(ws)
                 \/ i \in 1 .. Len(ws) /\ j = Len(ws) + 1
        BY ZenonT(40), <2>2, <3>1, <4>3
      <4>4. Len(ws) \in Nat /\ i \in 1 .. Len(ws) + 1 /\ j \in 1 .. Len(ws) + 1
        BY <2>1, <2>2
      <4> QED BY SMTT(30), <4>1, <4>2, <4>3, <4>4
    <3> QED BY <2>2, <3>1 DEF Lines
  <2>4. /\ Owing(val, ws, new) = Owing(val, ws, wk) /\ Owing(val, ws, wk) \in Seq(Int)
        /\ SeqSum(Owing(val, ws, wk)) \in Nat
    <3>1. Owing(val, ws, new) = Owing(val, ws, wk)
      BY <2>1 DEF Owing
    <3> QED BY Zenon, <2>1, <3>1, OwingType
  <2>5. SeqSum(Owing(val, t, wk)) = SeqSum(Owing(val, ws, wk)) + v
    <3>1. Owing(val, t, wk) = Append(Owing(val, ws, wk), v)
      BY SMTT(30), <2>2 DEF Owing, e
    <3> DEFINE vs == Owing(val, ws, wk)
    <3>2. vs \in Seq(Int) /\ v \in Int
      BY SMTT(30), <1>1, <2>4
    <3> HIDE DEF vs, v
    <3>3. SeqSum(Append(vs, v)) = SeqSum(vs) + v
      BY Zenon, <3>2, SumAppend
    <3> QED BY Zenon, <3>1, <3>3 DEF vs
  <2>6. base + SeqSum(Owing(val, t, wk)) <= all
    BY Zenon, <2>3 DEF Promise
  <2> HIDE DEF base, v
  <2> QED BY SMTT(30), <1>1, <1>4, <2>4, <2>5, <2>6
<1> QED BY Zenon, <1>4, <1>5 DEF Promise

(* Fewer workers owe less.                                                 *)
LEMMA PromiseFewer ==
  ASSUME NEW val, NEW es, NEW all, NEW P, NEW wk, Promise(val, all, es, P, wk),
         NEW Q \in SUBSET P, NEW new, \A u \in Q : new[u].e = wk[u].e
  PROVE  Promise(val, all, es, Q, new)
<1> SUFFICES ASSUME NEW ws \in Lines(Q)
             PROVE  SeqSum(Values(val, es)) + SeqSum(Owing(val, ws, new)) <= all
  BY DEF Promise
<1>1. ws \in Seq(Q) /\ ws \in Lines(P)
  BY DEF Lines
<1>2. Owing(val, ws, new) = Owing(val, ws, wk)
  BY <1>1 DEF Owing
<1> QED BY ZenonT(40), <1>1, <1>2 DEF Promise
-----------------------------------------------------------------------------
(* The dashboard's pages                                                   *)

awardVal == [e \in StreamEvent |-> Positive(e)]
badgeVal == [e \in StreamEvent |-> IsBadge(e)]

(* A call of the hook that has yet to add its event to the dashboard.      *)
Pending(wk) ==
  {w \in Workers : wk[w].at = "counted" \/ (wk[w].at = "calling" /\ Dashboard \in wk[w].to)}

CallOk(r) ==
  \/ r = Idle
  \/ r = [at |-> "counted", e |-> r.e] /\ r.e \in StreamEvent
  \/ r = [at |-> "calling", e |-> r.e, to |-> r.to] /\ r.e \in StreamEvent

CallsOk(wk) == wk = [w \in Workers |-> wk[w]] /\ \A w \in Workers : CallOk(wk[w])

CountersOk(m) ==
  /\ m.allPoints \in Nat /\ m.realtime.points \in Nat /\ m.realtime.points <= m.allPoints
  /\ m.allBadges \in Nat /\ m.realtime.badges \in Nat /\ m.realtime.badges <= m.allBadges

Covers(p, points, badges) ==
  /\ p.recent \in Seq(StreamEvent)
  /\ SeqSum(Values(awardVal, p.recent)) <= points
  /\ SeqSum(Values(badgeVal, p.recent)) <= badges

Within(p, points, badges) ==
  /\ p.stats.points \in Nat /\ p.stats.points <= points
  /\ p.stats.badges \in Nat /\ p.stats.badges <= badges

(* What a page has read stays within the totals until it reads them.       *)
PageOk(p, points, badges) ==
  /\ p.at \in {"recent", "stats"} => Covers(p, points, badges)
  /\ p.at = "stats" => Within(p, points, badges)
  /\ p.at = "done" => Covers(p, p.points, p.badges) /\ Within(p, p.points, p.badges)

(* The inductive invariant of DashboardCounts: the totals are ahead of the *)
(* recent events by at least what the calls under way have still to add.   *)
DashboardInv ==
  /\ CallsOk(work) /\ recent \in Seq(StreamEvent) /\ CountersOk(metrics)
  /\ Promise(awardVal, metrics.allPoints, recent, Pending(work), work)
  /\ Promise(badgeVal, metrics.allBadges, recent, Pending(work), work)
  /\ PageOk(page, metrics.allPoints, metrics.allBadges)

(* What an event adds to a total is a number.                              *)
LEMMA ValueTypes ==
  awardVal \in [StreamEvent -> Nat] /\ badgeVal \in [StreamEvent -> Nat]
BY DEF awardVal, badgeVal, StreamEvent, Positive, IsBadge

(* Calls that owe the dashboard an event hold one.                         *)
LEMMA PendingHold ==
  ASSUME NEW wk, CallsOk(wk)
  PROVE  \A w \in Pending(wk) : w \in Workers /\ wk[w].e \in StreamEvent
BY DEF CallsOk, CallOk, Pending, Idle

(* Totals only grow, which is all a page asks of them.                     *)
LEMMA PageGrows ==
  ASSUME NEW p, NEW a \in Nat, NEW b \in Nat, PageOk(p, a, b),
         NEW c \in Nat, NEW d \in Nat, a <= c, b <= d
  PROVE  PageOk(p, c, d)
<1>1. ASSUME Covers(p, a, b) PROVE Covers(p, c, d)
  BY SMTT(40), <1>1, ValueTypes, ValuesType DEF Covers
<1>2. ASSUME Within(p, a, b) PROVE Within(p, c, d)
  BY <1>2 DEF Within
<1> QED BY Zenon, <1>1, <1>2 DEF PageOk

(* Nothing being owed, a promise is about the recent events alone.         *)
LEMMA PromiseCovers ==
  ASSUME NEW val \in [StreamEvent -> Nat], NEW es \in Seq(StreamEvent), NEW all, NEW P, NEW wk,
         Promise(val, all, es, P, wk)
  PROVE  SeqSum(Values(val, es)) <= all
<1>1. <<>> \in Lines(P)
  BY DEF Lines
<1>2. Owing(val, <<>>, wk) = <<>>
  BY DEF Owing
<1>3. SeqSum(<<>>) = 0
  <2>1. <<>> \in Seq(Int) /\ Len(<<>>) = 0
    OBVIOUS
  <2> QED BY Zenon, <2>1, SumType
<1>4. SeqSum(Values(val, es)) + 0 <= all
  BY ZenonT(40), <1>1, <1>2, <1>3 DEF Promise
<1> QED BY SMTT(30), <1>4, ValuesType

(* OnEvent counts an event, and only then is it on its way.                *)
LEMMA CountStep ==
  ASSUME DashboardInv, NEW w \in Workers, HookCount(w)
  PROVE  DashboardInv'
<1>1. PICK e \in Events :
        /\ metrics' = OnEvent(metrics, e, now)
        /\ work' = [work EXCEPT ![w] = [at |-> "counted", e |-> convertToStreamEvent(e)]]
  BY Zenon DEF HookCount, Count
<1> DEFINE s == convertToStreamEvent(e)
<1>2. /\ metrics' = OnEvent(metrics, e, now) /\ work[w] = Idle
      /\ work' = [work EXCEPT ![w] = [at |-> "counted", e |-> s]]
      /\ recent' = recent /\ page' = page
  BY Zenon, <1>1 DEF HookCount, streamVars
<1>3. /\ s \in StreamEvent /\ awardVal[s] = Awarded(e) /\ badgeVal[s] = Badged(e)
      /\ Awarded(e) \in Nat /\ Badged(e) \in Nat
  <2>1. e.kind \in {"points", "level", "badge", "achievement"} /\ e.delta \in Int
    BY MetricsAssumption DEF Events
  <2>2. s \in StreamEvent /\ s.kind = e.kind /\ s.points = IF e.kind = "points" THEN e.delta ELSE 0
    BY <2>1 DEF convertToStreamEvent, StreamEvent
  <2> HIDE DEF s
  <2>3. awardVal[s] = Positive(s) /\ badgeVal[s] = IsBadge(s)
    BY ZenonT(40), <2>2 DEF awardVal, badgeVal
  <2> QED BY SMTT(30), <2>1, <2>2, <2>3 DEF Positive, IsBadge, Awarded, Badged
<1> HIDE DEF s
<1>4. /\ CallsOk(work) /\ recent \in Seq(StreamEvent) /\ CountersOk(metrics)
      /\ Promise(awardVal, metrics.allPoints, recent, Pending(work), work)
      /\ Promise(badgeVal, metrics.allBadges, recent, Pending(work), work)
      /\ PageOk(page, metrics.allPoints, metrics.allBadges)
  BY Zenon DEF DashboardInv
<1>5. /\ metrics'.allPoints = metrics.allPoints + Awarded(e)
      /\ metrics'.allBadges = metrics.allBadges + Badged(e)
      /\ metrics'.realtime = Realtime(metrics, e, now)
  BY ZenonT(40), <1>2 DEF OnEvent
<1>6. CountersOk(metrics')
  <2>1. CASE metrics'.realtime = [points |-> 0, badges |-> 0, levels |-> 0]
    BY SMTT(30), <1>3, <1>4, <1>5, <2>1 DEF CountersOk
  <2>2. CASE metrics'.realtime = [ points |-> metrics.realtime.points + Awarded(e),
                                   badges |-> metrics.realtime.badges + Badged(e),
                                   levels |-> metrics.realtime.levels + Levelled(e) ]
    <3>1. ASSUME NEW x \in Nat, NEW y \in Nat, NEW z \in Nat, x <= y
          PROVE  x + z \in Nat /\ y + z \in Nat /\ x + z <= y + z
      BY SMTT(30), <3>1
    <3>2. /\ metrics'.realtime.points = metrics.realtime.points + Awarded(e)
          /\ metrics'.realtime.badges = metrics.realtime.badges + Badged(e)
      BY SMTT(30), <2>2
    <3>3. /\ metrics.realtime.points \in Nat /\ metrics.allPoints \in Nat
          /\ metrics.realtime.points <= metrics.allPoints
          /\ metrics.realtime.badges \in Nat /\ metrics.allBadges \in Nat
          /\ metrics.realtime.badges <= metrics.allBadges
      BY ZenonT(40), <1>4 DEF CountersOk
    <3>4. /\ metrics'.realtime.points \in Nat /\ metrics'.allPoints \in Nat
          /\ metrics'.realtime.points <= metrics'.allPoints
      <4>1. /\ metrics.realtime.points + Awarded(e) \in Nat /\ metrics.allPoints + Awarded(e) \in Nat
            /\ metrics.realtime.points + Awarded(e) <= metrics.allPoints + Awarded(e)
        BY ZenonT(40), <1>3, <3>1, <3>3
      <4> QED BY ZenonT(40), <1>5, <3>2, <4>1
    <3>5. /\ metrics'.realtime.badges \in Nat /\ metrics'.allBadges \in Nat
          /\ metrics'.realtime.badges <= metrics'.allBadges
      <4>1. /\ metrics.realtime.badges + Badged(e) \in Nat /\ metrics.allBadges + Badged(e) \in Nat
            /\ metrics.realtime.badges + Badged(e) <= metrics.allBadges + Badged(e)
        BY ZenonT(40), <1>3, <3>1, <3>3
      <4> QED BY ZenonT(40), <1>5, <3>2, <4>1
    <3> QED BY ZenonT(40), <3>4, <3>5 DEF CountersOk
  <2> QED BY ZenonT(40), <1>5, <2>1, <2>2 DEF Realtime
<1>7. CallsOk(work')
  BY ZenonT(40), <1>2, <1>3, <1>4 DEF CallsOk, CallOk
<1>8. /\ w \notin Pending(work) /\ Pending(work') = Pending(work) \cup {w}
      /\ work'[w].e = s /\ \A u \in Pending(work) : work'[u] = work[u]
  BY SMTT(30), <1>2, <1>4 DEF Pending, CallsOk, Idle
<1>9. Promise(awardVal, metrics'.allPoints, recent, Pending(work'), work')
  <2>1. metrics.allPoints \in Int
    BY SMTT(30), <1>4 DEF CountersOk
  <2>2. Promise(awardVal, metrics.allPoints + awardVal[work'[w].e], recent,
                Pending(work) \cup {w}, work')
    BY ZenonT(40), <1>3, <1>4, <1>8, <2>1, PromiseCounts, ValueTypes, PendingHold
  <2> QED BY Zenon, <1>3, <1>5, <1>8, <2>2
<1>10. Promise(badgeVal, metrics'.allBadges, recent, Pending(work'), work')
  <2>1. metrics.allBadges \in Int
    BY <1>4 DEF CountersOk
  <2>2. Promise(badgeVal, metrics.allBadges + badgeVal[work'[w].e], recent,
                Pending(work) \cup {w}, work')
    BY ZenonT(40), <1>3, <1>4, <1>8, <2>1, PromiseCounts, ValueTypes, PendingHold
  <2> QED BY ZenonT(40), <1>3, <1>5, <1>8, <2>2
<1>11. PageOk(page, metrics'.allPoints, metrics'.allBadges)
  <2>1. /\ metrics.allPoints \in Nat /\ metrics.allBadges \in Nat
        /\ metrics'.allPoints \in Nat /\ metrics'.allBadges \in Nat
        /\ metrics.allPoints <= metrics'.allPoints /\ metrics.allBadges <= metrics'.allBadges
    BY SMTT(30), <1>3, <1>4, <1>5 DEF CountersOk
  <2> QED BY ZenonT(40), <1>4, <2>1, PageGrows
<1> QED BY ZenonT(40), <1>2, <1>4, <1>6, <1>7, <1>9, <1>10, <1>11 DEF DashboardInv

(* A step of a call that takes none on and adds no event.                  *)
LEMMA QuietStep ==
  ASSUME DashboardInv, CallsOk(work'), Pending(work') \subseteq Pending(work),
         \A u \in Pending(work') : work'[u].e = work[u].e,
         recent' = recent, metrics' = metrics, page' = page
  PROVE  DashboardInv'
<1>1. Promise(awardVal, metrics.allPoints, recent, Pending(work'), work')
  BY Zenon, PromiseFewer DEF DashboardInv
<1>2. Promise(badgeVal, metrics.allBadges, recent, Pending(work'), work')
  BY ZenonT(40), PromiseFewer DEF DashboardInv
<1> QED BY ZenonT(40), <1>1, <1>2 DEF DashboardInv

(* The other steps of the hook.                                            *)
LEMMA PublishStep ==
  ASSUME DashboardInv, NEW w \in Workers, Publish(w)
  PROVE  DashboardInv'
<1>0. CallsOk(work)
  BY DEF DashboardInv
<1>1. CASE HookCopy(w)
  <2>1. /\ work' = [work EXCEPT ![w] = [at |-> "calling", e |-> work[w].e, to |-> Range(subscribers)]]
        /\ work[w].at = "counted" /\ recent' = recent /\ metrics' = metrics /\ page' = page
    BY ZenonT(40), <1>1 DEF HookCopy, streamVars, metricsVars
  <2>2. work[w].e \in StreamEvent
    BY SMTT(30), <1>0, <2>1 DEF CallsOk, CallOk, Idle
  <2>3. CallsOk(work')
    BY Zenon, <1>0, <2>1, <2>2 DEF CallsOk, CallOk
  <2>4. Pending(work') \subseteq Pending(work) /\ \A u \in Pending(work') : work'[u].e = work[u].e
    BY Zenon, <1>0, <2>1 DEF Pending, CallsOk
  <2> QED BY Zenon, <2>1, <2>3, <2>4, QuietStep
<1>2. ASSUME NEW s, Called(w, s)
      PROVE  /\ CallsOk(work') /\ Pending(work') \subseteq Pending(work)
             /\ \A u \in Workers \ {w} : work'[u] = work[u]
             /\ work'[w].e = work[w].e /\ s \in work[w].to /\ work[w].at = "calling"
             /\ work'[w].to = work[w].to \ {s} /\ work'[w].at = "calling"
  <2>1. work' = [work EXCEPT ![w].to = @ \ {s}] /\ work[w].at = "calling" /\ s \in work[w].to
    BY Zenon, <1>2 DEF Called
  <2>2. /\ work[w] = [at |-> "calling", e |-> work[w].e, to |-> work[w].to]
        /\ work[w].e \in StreamEvent
    BY SMTT(30), <1>0, <2>1 DEF CallsOk, CallOk, Idle
  <2>3. work' = [work EXCEPT ![w] = [at |-> "calling", e |-> work[w].e, to |-> work[w].to \ {s}]]
    <3>1. ASSUME NEW a, NEW e, NEW t, NEW u
          PROVE  [[at |-> a, e |-> e, to |-> t] EXCEPT !.to = u] = [at |-> a, e |-> e, to |-> u]
      OBVIOUS
    <3>2. [work[w] EXCEPT !.to = work[w].to \ {s}]
            = [at |-> "calling", e |-> work[w].e, to |-> work[w].to \ {s}]
      BY SMTT(30), <2>2, <3>1
    <3> QED BY Zenon, <2>1, <3>2
  <2>4. CallsOk(work')
    BY Zenon, <1>0, <2>2, <2>3 DEF CallsOk, CallOk
  <2>5. Pending(work') \subseteq Pending(work)
    <3>1. work = [u \in Workers |-> work[u]] /\ w \in Workers
      BY ZenonT(40), <1>0 DEF CallsOk
    <3>2. work'[w] = [at |-> "calling", e |-> work[w].e, to |-> work[w].to \ {s}]
      BY Zenon, <2>3, <3>1
    <3>3. work'[w].at = "calling" /\ work'[w].to = work[w].to \ {s}
      BY SMTT(30), <3>2
    <3>4. ASSUME NEW u \in Workers, u # w PROVE work'[u] = work[u]
      BY Zenon, <2>3, <3>1, <3>4
    <3>5. ASSUME NEW u \in Pending(work') PROVE u \in Pending(work)
      <4>1. CASE u = w
        BY Zenon, <2>1, <3>1, <3>3, <3>5, <4>1 DEF Pending
      <4>2. CASE u # w
        BY Zenon, <3>4, <3>5, <4>2 DEF Pending
      <4> QED BY ZenonT(40), <4>1, <4>2
    <3> QED BY ZenonT(40), <3>5
  <2> QED BY ZenonT(40), <1>0, <2>1, <2>3, <2>4, <2>5 DEF CallsOk
<1>3. CASE CallDashboard(w)
  <2> DEFINE e == work[w].e
  <2>1. /\ Called(w, Dashboard) /\ metrics' = metrics /\ page' = page
        /\ recent' \in {Append(recent, e), Tail(Append(recent, e))}
    BY Zenon, <1>3 DEF CallDashboard, metricsVars
  <2>2. /\ CallsOk(work') /\ Pending(work') \subseteq Pending(work)
        /\ \A u \in Workers \ {w} : work'[u] = work[u]
        /\ Dashboard \in work[w].to /\ work[w].at = "calling"
        /\ work'[w].to = work[w].to \ {Dashboard} /\ work'[w].at = "calling"
    BY ZenonT(40), <1>2, <2>1
  <2>3. w \in Pending(work) /\ Pending(work') \subseteq Pending(work) \ {w}
        /\ \A u \in Pending(work) \ {w} : work'[u] = work[u]
    <3>1. w \in Pending(work)
      BY Zenon, <2>2 DEF Pending
    <3>2. w \notin Pending(work')
      BY Zenon, <2>2 DEF Pending
    <3> QED BY ZenonT(40), <2>2, <3>1, <3>2 DEF Pending
  <2>4. /\ recent \in Seq(StreamEvent) /\ metrics.allPoints \in Int /\ metrics.allBadges \in Int
        /\ Promise(awardVal, metrics.allPoints, recent, Pending(work), work)
        /\ Promise(badgeVal, metrics.allBadges, recent, Pending(work), work)
    BY DEF DashboardInv, CountersOk
  <2>5. /\ recent' \in Seq(StreamEvent)
        /\ Promise(awardVal, metrics.allPoints, recent', Pending(work) \ {w}, work')
        /\ Promise(badgeVal, metrics.allBadges, recent', Pending(work) \ {w}, work')
    <3>1. \A u \in Pending(work) : work[u].e \in StreamEvent
      BY ZenonT(40), <1>0, PendingHold
    <3> DEFINE P == Pending(work)
               later == recent'
               new == work'
    <3>2. /\ w \in P /\ (\A u \in P : work[u].e \in StreamEvent) /\ (\A u \in P \ {w} : new[u] = work[u])
          /\ later = Append(recent, work[w].e) \/ later = Tail(Append(recent, work[w].e))
      BY ZenonT(40), <2>1, <2>3, <3>1
    <3> HIDE DEF P, later, new
    <3>3. ASSUME NEW val \in [StreamEvent -> Nat], NEW all \in Int, Promise(val, all, recent, P, work)
          PROVE  later \in Seq(StreamEvent) /\ Promise(val, all, later, P \ {w}, new)
      BY Zenon, <2>4, <3>2, <3>3, PromiseKept
    <3>4. /\ later \in Seq(StreamEvent)
          /\ Promise(awardVal, metrics.allPoints, later, P \ {w}, new)
          /\ Promise(badgeVal, metrics.allBadges, later, P \ {w}, new)
      BY Zenon, <2>4, <3>3, ValueTypes DEF P
    <3> QED BY Zenon, <3>4 DEF P, later, new
  <2>6. /\ Promise(awardVal, metrics.allPoints, recent', Pending(work'), work')
        /\ Promise(badgeVal, metrics.allBadges, recent', Pending(work'), work')
    BY ZenonT(40), <2>3, <2>5, PromiseFewer
  <2> QED BY ZenonT(40), <2>1, <2>2, <2>5, <2>6 DEF DashboardInv
<1>4. ASSUME NEW s \in Sockets, CallSocket(w, s) PROVE DashboardInv'
  <2>1. Called(w, s) /\ metrics' = metrics /\ page' = page /\ recent' = recent
    BY Zenon, <1>4 DEF CallSocket, metricsVars
  <2>2. /\ CallsOk(work') /\ Pending(work') \subseteq Pending(work)
        /\ \A u \in Workers \ {w} : work'[u] = work[u]
        /\ work'[w].e = work[w].e
    BY Zenon, <1>2, <2>1
  <2>3. \A u \in Pending(work') : work'[u].e = work[u].e
    BY Zenon, <2>2 DEF Pending
  <2> QED BY ZenonT(40), <2>1, <2>2, <2>3, QuietStep
<1>5. CASE HookReturn(w)
  <2>1. /\ work' = [work EXCEPT ![w] = Idle]
        /\ recent' = recent /\ metrics' = metrics /\ page' = page
    BY Zenon, <1>5 DEF HookReturn, streamVars, metricsVars
  <2>2. CallsOk(work')
    BY ZenonT(40), <1>0, <2>1 DEF CallsOk, CallOk
  <2>3. Pending(work') \subseteq Pending(work) /\ \A u \in Pending(work') : work'[u].e = work[u].e
    BY ZenonT(40), <1>0, <2>1 DEF Pending, CallsOk, Idle
  <2> QED BY Zenon, <2>1, <2>2, <2>3, QuietStep
<1> QED BY ZenonT(40), <1>1, <1>3, <1>4, <1>5 DEF Publish

(* A page reads the recent events, then the 24-hour counters, then the     *)
(* totals, which were ahead of both all along.                             *)
LEMMA PageStep ==
  ASSUME DashboardInv, PageRecent \/ PageStats \/ PageTop
  PROVE  DashboardInv'
<1>1. metrics' = metrics /\ work' = work /\ recent' = recent
  BY Zenon DEF PageRecent, PageStats, PageTop, metricsVars, streamVars
<1>2. /\ PageOk(page, metrics.allPoints, metrics.allBadges) /\ CountersOk(metrics)
      /\ recent \in Seq(StreamEvent)
      /\ Promise(awardVal, metrics.allPoints, recent, Pending(work), work)
      /\ Promise(badgeVal, metrics.allBadges, recent, Pending(work), work)
  BY DEF DashboardInv
<1>3. PageOk(page', metrics.allPoints, metrics.allBadges)
  <2>1. CASE PageRecent
    <3>1. page' = [at |-> "recent", recent |-> recent]
      BY Zenon, <2>1 DEF PageRecent
    <3>2. /\ SeqSum(Values(awardVal, recent)) <= metrics.allPoints
          /\ SeqSum(Values(badgeVal, recent)) <= metrics.allBadges
      BY ZenonT(40), <1>2, ValueTypes, PromiseCovers
    <3> QED BY ZenonT(40), <1>2, <3>1, <3>2 DEF PageOk, Covers
  <2>2. CASE PageStats
    BY ZenonT(40), <1>2, <2>2 DEF PageStats, PageOk, Covers, Within, CountersOk
  <2>3. CASE PageTop
    BY Zenon, <1>2, <2>3 DEF PageTop, PageOk, Covers, Within
  <2> QED BY ZenonT(40), <2>1, <2>2, <2>3
<1> QED BY Zenon, <1>1, <1>3 DEF DashboardInv

(* The invariant holds from the start and is kept.                         *)
LEMMA DashboardInvHolds == PublisherSpec => []DashboardInv
<1>1. PublisherInit => DashboardInv
  <2> SUFFICES ASSUME PublisherInit PROVE DashboardInv
    OBVIOUS
  <2>1. /\ metrics.allPoints = 0 /\ metrics.allBadges = 0
        /\ metrics.realtime.points = 0 /\ metrics.realtime.badges = 0
        /\ work = [w \in Workers |-> Idle] /\ recent = <<>> /\ page.at = "none"
    BY Zenon DEF PublisherInit, MetricsInit, NewMetrics, NoPage
  <2>2. CallsOk(work) /\ Pending(work) = {} /\ CountersOk(metrics) /\ recent \in Seq(StreamEvent)
    <3>1. \A w \in Workers : work[w] = Idle /\ work[w].at = "idle"
      BY ZenonT(40), <2>1 DEF Idle
    <3>2. CallsOk(work)
      BY Zenon, <2>1, <3>1 DEF CallsOk, CallOk
    <3>3. Pending(work) = {}
      BY Zenon, <3>1 DEF Pending
    <3>4. CountersOk(metrics)
      BY SMTT(30), <2>1 DEF CountersOk
    <3> QED BY SMTT(30), <2>1, <3>2, <3>3, <3>4
  <2>3. PageOk(page, metrics.allPoints, metrics.allBadges)
    BY ZenonT(40), <2>1 DEF PageOk
  <2>4. ASSUME NEW val PROVE Promise(val, 0, <<>>, {}, work)
    <3> SUFFICES ASSUME NEW ws \in Lines({})
                 PROVE  SeqSum(Values(val, <<>>)) + SeqSum(Owing(val, ws, work)) <= 0
      BY DEF Promise
    <3>1. ws = <<>>
      BY DEF Lines
    <3>2. Values(val, <<>>) = <<>> /\ Owing(val, ws, work) = <<>>
      BY SMTT(30), <3>1 DEF Values, Owing
    <3>3. <<>> \in Seq(Int) /\ Len(<<>>) = 0
      OBVIOUS
    <3>4. SeqSum(<<>>) = 0
      BY Zenon, <3>3, SumType
    <3> QED BY SMTT(30), <3>2, <3>4
  <2> QED BY Zenon, <2>1, <2>2, <2>3, <2>4 DEF DashboardInv
<1>2. DashboardInv /\ [PublisherNext]_publisherVars => DashboardInv'
  <2> SUFFICES ASSUME DashboardInv, [PublisherNext]_publisherVars PROVE DashboardInv'
    OBVIOUS
  <2>1. CASE \E w \in Workers : HookCount(w) \/ Publish(w)
    BY ZenonT(40), <2>1, CountStep, PublishStep
  <2>2. CASE PageRecent \/ PageStats \/ PageTop
    BY ZenonT(40), <2>2, PageStep
  <2>3. ASSUME metrics' = metrics, work' = work, recent' = recent, page' = page PROVE DashboardInv'
    BY ZenonT(40), <2>3 DEF DashboardInv
  <2>4. CASE \E id \in {"dashboard", "client"} : Unsubscribe(id)
    BY ZenonT(40), <2>3, <2>4 DEF Unsubscribe, metricsVars
  <2>5. CASE Subscribe("client")
    BY ZenonT(40), <2>3, <2>5 DEF Subscribe, metricsVars
  <2>6. CASE \E s \in Sockets : ReadEvent(s) \/ ReadCancelled(s)
    BY ZenonT(40), <2>3, <2>6 DEF ReadEvent, ReadCancelled, metricsVars
  <2>7. CASE TimePasses
    BY ZenonT(40), <2>3, <2>7 DEF TimePasses, Tick, streamVars
  <2>8. CASE UNCHANGED publisherVars
    BY ZenonT(40), <2>3, <2>8 DEF publisherVars, metricsVars
  <2> QED BY ZenonT(40), <2>1, <2>2, <2>4, <2>5, <2>6, <2>7, <2>8 DEF PublisherNext
<1> QED BY <1>1, <1>2, PTL DEF PublisherSpec

(* Every page of the dashboard adds up, whatever the hook, the subscribers *)
(* and the clock do while GetDashboardData is under way.                   *)
THEOREM PagesAddUp == PublisherSpec => []DashboardCounts
<1>1. DashboardInv => DashboardCounts
  <2> SUFFICES ASSUME DashboardInv, page.at = "done" PROVE DashboardCounts
    BY Zenon DEF DashboardCounts
  <2>1. Covers(page, page.points, page.badges) /\ Within(page, page.points, page.badges)
    BY DEF DashboardInv, PageOk
  <2>2. page.recent \in Seq(StreamEvent)
    BY Zenon, <2>1 DEF Covers
  <2>3. [i \in DOMAIN page.recent |-> Positive(page.recent[i])] = Values(awardVal, page.recent)
    BY SMTT(30), <2>2 DEF Values, awardVal
  <2>4. [i \in DOMAIN page.recent |-> IsBadge(page.recent[i])] = Values(badgeVal, page.recent)
    BY SMTT(30), <2>2 DEF Values, badgeVal
  <2>5. /\ Total(Positive, page.recent) = SeqSum(Values(awardVal, page.recent))
        /\ Total(IsBadge, page.recent) = SeqSum(Values(badgeVal, page.recent))
    BY ZenonT(40), <2>3, <2>4 DEF Total
  <2> QED BY ZenonT(40), <2>1, <2>5 DEF Covers, Within, DashboardCounts
<1> QED BY <1>1, DashboardInvHolds, PTL

-----------------------------------------------------------------------------
(* The rounds of the export                                                *)

SegmentOwed(i, es) == {<<"segment", i, what>> : what \in Range(es)}

EventsOk(x) == x.at = "segment" => x.events \in Seq(Counters) /\ x.events # <<>>

(* What the console and Segment still lack is in the items to go and in    *)
(* the events to be sent.                                                  *)
RoundOwes(x, m) ==
  /\ x.at = "next" => m \subseteq Owed(x.todo)
  /\ x.at = "batch" =>
       m \subseteq Owed(x.todo) \cup SegmentOwed(x.item, convertToSegmentEvents(x.item))
  /\ x.at = "segment" => m \subseteq Owed(x.todo) \cup SegmentOwed(x.item, x.events)

Delivers(r, u, x, m) ==
  /\ r \in {"ok", "closed"} => u = {}
  /\ r = "ok" /\ ~x => m = {}

(* The inductive invariant of RoundDelivers, as long as no Close has raced *)
(* a round: what is not delivered is held in the buffer, a round has no    *)
(* result before its end, and a Close that runs between two rounds sends   *)
(* all that the buffer holds.                                              *)
Orderly ==
  /\ buffer \in Seq(Range(buffer)) /\ undelivered \subseteq Range(buffer)
  /\ exporter.at \in {"next", "batch", "segment"} => result = "none" /\ closer.at # "closing"
  /\ closer.at = "closing" => closer.payload = buffer
  /\ EventsOk(exporter)
  /\ ~multi => RoundOwes(exporter, missing)
  /\ Delivers(result, undelivered, multi, missing)

ExportInv == ~raced => Orderly

(* The elements of a sequence and one more.                                *)
LEMMA RangeAppend ==
  ASSUME NEW s, s \in Seq(Range(s)), NEW x
  PROVE  /\ Range(Append(s, x)) = Range(s) \cup {x}
         /\ Append(s, x) \in Seq(Range(Append(s, x)))
<1> DEFINE S == Range(s)
           u == Append(s, x)
<1>1. s \in Seq(S) /\ \A j \in 1 .. Len(s) : s[j] \in S
  BY DEF Range
<1>2. \A y \in S : \E j \in 1 .. Len(s) : s[j] = y
  BY DEF Range
<1> HIDE DEF S
<1>3. /\ u \in Seq(S \cup {x}) /\ Len(u) = Len(s) + 1 /\ u[Len(s) + 1] = x
      /\ \A j \in 1 .. Len(s) : u[j] = s[j]
  <2>1. s \in Seq(S \cup {x})
    BY <1>1
  <2> QED BY SMTT(30), <1>1, <2>1
<1> HIDE DEF u
<1>4. Range(u) = S \cup {x}
  <2>1. DOMAIN u = 1 .. Len(s) + 1
    BY <1>3
  <2>2. ASSUME NEW y \in S PROVE y \in Range(u)
    <3>1. PICK j \in 1 .. Len(s) : s[j] = y
      BY Zenon, <1>2
    <3>2. j \in DOMAIN u /\ u[j] = y
      BY SMTT(30), <1>1, <1>3, <2>1, <3>1
    <3> QED BY Zenon, <3>2 DEF Range
  <2>3. x \in Range(u)
    BY SMTT(30), <1>1, <1>3, <2>1 DEF Range
  <2>4. Range(u) \subseteq S \cup {x}
    BY <1>3 DEF Range
  <2> QED BY ZenonT(40), <2>2, <2>3, <2>4
<1> QED BY ZenonT(40), <1>3, <1>4 DEF S, u

(* The elements of a sequence are its first and those of the rest.         *)
LEMMA RangeParts ==
  ASSUME NEW S, NEW s \in Seq(S), s # <<>>
  PROVE  Tail(s) \in Seq(S) /\ Range(s) \subseteq {Head(s)} \cup Range(Tail(s))
<1> DEFINE t == Tail(s)
<1>1. t \in Seq(S) /\ Len(t) = Len(s) - 1 /\ Head(s) = s[1] /\ Len(s) \in Nat \ {0}
      /\ \A j \in 1 .. Len(t) : t[j] = s[j + 1]
  OBVIOUS
<1> HIDE DEF t
<1>2. ASSUME NEW j \in 1 .. Len(s) PROVE s[j] \in {s[1]} \cup Range(t)
  <2>1. CASE j = 1
    BY Zenon, <2>1
  <2>2. CASE j # 1
    <3>1. j - 1 \in 1 .. Len(t) /\ t[j - 1] = s[(j - 1) + 1] /\ (j - 1) + 1 = j
      BY SMTT(30), <1>1, <2>2
    <3>2. DOMAIN t = 1 .. Len(t)
      BY <1>1
    <3> QED BY ZenonT(40), <3>1, <3>2 DEF Range
  <2> QED BY Zenon, <2>1, <2>2
<1>3. Range(s) \subseteq {s[1]} \cup Range(t)
  BY <1>2 DEF Range
<1> QED BY Zenon, <1>1, <1>3 DEF t

(* An item's events are named after counters.                              *)
LEMMA SegmentEventsType ==
  ASSUME NEW i
  PROVE  convertToSegmentEvents(i) \in Seq(Counters)
<1> DEFINE Event(what) == IF i.data[what] > 0 THEN <<what>> ELSE <<>>
           a == Event("users")
           b == Event("points")
           c == Event("badges")
<1>1. a \in Seq(Counters) /\ b \in Seq(Counters) /\ c \in Seq(Counters)
  <2>1. <<>> \in Seq(Counters) /\ \A what \in Counters : <<what>> \in Seq(Counters)
    OBVIOUS
  <2>2. \A what \in Counters : Event(what) = <<>> \/ Event(what) = <<what>>
    OBVIOUS
  <2>3. "users" \in Counters /\ "points" \in Counters /\ "badges" \in Counters
    BY DEF Counters
  <2> HIDE DEF Event
  <2> QED BY Zenon, <2>1, <2>2, <2>3
<1>2. convertToSegmentEvents(i) = (a \o b) \o c
  BY DEF convertToSegmentEvents
<1> HIDE DEF a, b, c
<1>3. (a \o b) \o c \in Seq(Counters)
  BY SMTT(30), <1>1
<1> QED BY Zenon, <1>2, <1>3

(* Where the exporter is when an item's events are to be sent.             *)
LEMMA SegmentOwes ==
  ASSUME NEW todo, NEW i, NEW es \in Seq(Counters), NEW m
  PROVE  /\ Segment(todo, i, es).at \in {"next", "segment"} /\ EventsOk(Segment(todo, i, es))
         /\ m \subseteq Owed(todo) \cup SegmentOwed(i, es) => RoundOwes(Segment(todo, i, es), m)
<1>1. CASE es = <<>>
  <2>1. SegmentOwed(i, es) = {}
    BY SMTT(30), <1>1 DEF SegmentOwed, Range
  <2> QED BY ZenonT(40), <1>1, <2>1 DEF Segment, EventsOk, RoundOwes
<1>2. CASE es # <<>>
  BY ZenonT(40), <1>2 DEF Segment, EventsOk, RoundOwes
<1> QED BY ZenonT(40), <1>1, <1>2

(* An item's part of what a round owes.                                    *)
LEMMA OwedParts ==
  ASSUME NEW items, NEW i
  PROVE  Owed(items) \subseteq Owed(items \ {i}) \cup {<<"console", i, "all">>}
                                \cup SegmentOwed(i, convertToSegmentEvents(i))
BY DEF Owed, SegmentOwed

(* A flush: what arrived was in the buffer, which keeps what did not.      *)
LEMMA FlushKeeps ==
  ASSUME Orderly, NEW a \in Answers, NEW cancelled, HttpFlush(a.ok, a.arrives, cancelled)
  PROVE  /\ buffer' \in Seq(Range(buffer')) /\ undelivered' \subseteq Range(buffer')
         /\ a.ok => undelivered' = {}
<1>1. CASE a.ok
  <2>1. a.arrives /\ buffer' = <<>> /\ undelivered' = undelivered \ Range(buffer)
    BY ZenonT(40), <1>1 DEF HttpFlush, Answers
  <2>2. undelivered' = {}
    BY ZenonT(40), <2>1 DEF Orderly
  <2>3. buffer' \in Seq(Range(buffer'))
    BY SMTT(30), <2>1
  <2> QED BY ZenonT(40), <2>2, <2>3
<1>2. CASE ~a.ok
  BY ZenonT(40), <1>2 DEF HttpFlush, Orderly
<1> QED BY ZenonT(40), <1>1, <1>2

(* An item goes to the console and to the buffer.                          *)
LEMMA ItemStep ==
  ASSUME Orderly, NEW i, ItemExport(i)
  PROVE  Orderly'
<1> DEFINE left == exporter.todo \ {i}
           es == convertToSegmentEvents(i)
           x == IF Len(buffer) + 1 >= batchSize
                THEN [at |-> "batch", todo |-> left, item |-> i]
                ELSE Segment(left, i, es)
<1>1. /\ exporter.at = "next" /\ exporter' = x
      /\ missing' = missing \ {<<"console", i, "all">>} /\ buffer' = Append(buffer, i)
      /\ undelivered' = undelivered \cup {i} /\ multi' = multi /\ result' = result
      /\ closer' = closer
  BY Zenon DEF ItemExport, closeVars
<1>2. /\ buffer \in Seq(Range(buffer)) /\ undelivered \subseteq Range(buffer)
      /\ result = "none" /\ closer.at # "closing"
      /\ ~multi => missing \subseteq Owed(exporter.todo)
  BY ZenonT(40), <1>1 DEF Orderly, RoundOwes
<1>3. buffer' \in Seq(Range(buffer')) /\ undelivered' \subseteq Range(buffer')
  BY ZenonT(40), <1>1, <1>2, RangeAppend
<1>4. ~multi => missing' \subseteq Owed(left) \cup SegmentOwed(i, es)
  BY Zenon, <1>1, <1>2, OwedParts
<1>5. es \in Seq(Counters)
  BY ZenonT(40), SegmentEventsType
<1>6. EventsOk(x) /\ (~multi => RoundOwes(x, missing'))
  <2>1. CASE x = [at |-> "batch", todo |-> left, item |-> i]
    <3>1. x.at = "batch" /\ x.todo = left /\ x.item = i
      <4> HIDE DEF left, x
      <4> QED BY <2>1
    <3> HIDE DEF left, x
    <3>2. x.at # "segment" /\ x.at # "next"
      BY <3>1
    <3> QED BY Zenon, <1>4, <3>1, <3>2 DEF EventsOk, RoundOwes
  <2>2. CASE x = Segment(left, i, es)
    <3> HIDE DEF left, es, x
    <3> QED BY ZenonT(40), <1>4, <1>5, <2>2, SegmentOwes
  <2> QED BY ZenonT(40), <2>1, <2>2
<1> HIDE DEF x
<1> QED BY ZenonT(40), <1>1, <1>2, <1>3, <1>6 DEF Orderly, Delivers

(* A full batch is flushed; without a MultiExporter an error ends the      *)
(* round.                                                                  *)
LEMMA BatchStep ==
  ASSUME Orderly, NEW a \in Answers, BatchFlush(a.ok, a.arrives)
  PROVE  Orderly'
<1> DEFINE es == convertToSegmentEvents(exporter.item)
           x == Segment(exporter.todo, exporter.item, es)
<1>1. exporter.at = "batch" /\ multi' = multi /\ missing' = missing /\ closer' = closer
  BY DEF BatchFlush, closeVars
<1>2. /\ buffer' \in Seq(Range(buffer')) /\ undelivered' \subseteq Range(buffer')
      /\ result = "none" /\ closer.at # "closing" /\ es \in Seq(Counters)
      /\ ~multi => missing \subseteq Owed(exporter.todo) \cup SegmentOwed(exporter.item, es)
  BY Zenon, <1>1, FlushKeeps, SegmentEventsType DEF BatchFlush, Orderly, RoundOwes
<1>3. CASE exporter' = x /\ result' = result
  <2>1. x.at \in {"next", "segment"} /\ EventsOk(x) /\ (~multi => RoundOwes(x, missing))
    <3> HIDE DEF es
    <3> QED BY Zenon, <1>2, SegmentOwes
  <2> HIDE DEF x
  <2> QED BY ZenonT(40), <1>1, <1>2, <1>3, <2>1 DEF Orderly, Delivers
<1>4. CASE RoundEnd("error")
  BY ZenonT(40), <1>1, <1>2, <1>4 DEF RoundEnd, Waiting, Orderly, Delivers, RoundOwes, EventsOk
<1> QED BY ZenonT(40), <1>3, <1>4 DEF BatchFlush

(* An event goes to Segment, or fails and ends the item or the round.      *)
LEMMA SegmentStep ==
  ASSUME Orderly, NEW a \in Answers, SegmentSend(a.ok, a.arrives)
  PROVE  Orderly'
<1> DEFINE i == exporter.item
           es == exporter.events
           more == IF a.ok THEN Tail(es) ELSE <<>>
           x == Segment(exporter.todo, i, more)
<1>1. /\ exporter.at = "segment" /\ multi' = multi /\ buffer' = buffer /\ undelivered' = undelivered
      /\ missing' = IF a.arrives THEN missing \ {<<"segment", i, Head(es)>>} ELSE missing
      /\ closer' = closer
  BY Zenon DEF SegmentSend, closeVars
<1>2. /\ buffer \in Seq(Range(buffer)) /\ undelivered \subseteq Range(buffer)
      /\ result = "none" /\ closer.at # "closing" /\ es \in Seq(Counters) /\ es # <<>>
      /\ ~multi => missing \subseteq Owed(exporter.todo) \cup SegmentOwed(i, es)
  BY Zenon, <1>1 DEF Orderly, RoundOwes, EventsOk
<1>3. CASE exporter' = x /\ result' = result /\ (a.ok \/ multi)
  <2>1. more \in Seq(Counters)
    BY SMTT(30), <1>2
  <2>2. ~multi => missing' \subseteq Owed(exporter.todo) \cup SegmentOwed(i, more)
    <3> SUFFICES ASSUME ~multi PROVE missing' \subseteq Owed(exporter.todo) \cup SegmentOwed(i, more)
      OBVIOUS
    <3>1. a.ok /\ a.arrives /\ more = Tail(es)
      BY Zenon, <1>3 DEF Answers
    <3>2. Range(es) \subseteq {Head(es)} \cup Range(more)
      BY ZenonT(40), <1>2, <3>1, RangeParts
    <3>3. SegmentOwed(i, es) \subseteq {<<"segment", i, Head(es)>>} \cup SegmentOwed(i, more)
      BY Zenon, <3>2 DEF SegmentOwed
    <3> QED BY ZenonT(40), <1>1, <1>2, <3>1, <3>3
  <2>3. x.at \in {"next", "segment"} /\ EventsOk(x) /\ (~multi => RoundOwes(x, missing'))
    <3> HIDE DEF more, i
    <3> QED BY ZenonT(40), <2>1, <2>2, SegmentOwes
  <2> HIDE DEF x
  <2> QED BY ZenonT(40), <1>1, <1>2, <1>3, <2>3 DEF Orderly, Delivers
<1>4. CASE RoundEnd("error")
  BY ZenonT(40), <1>1, <1>2, <1>4 DEF RoundEnd, Waiting, Orderly, Delivers, RoundOwes, EventsOk
<1> QED BY ZenonT(40), <1>3, <1>4 DEF SegmentSend

(* The flush that ends a round.                                            *)
LEMMA FinalStep ==
  ASSUME Orderly, NEW a \in Answers, FinalFlush(a.ok, a.arrives)
  PROVE  Orderly'
<1>1. /\ exporter.at = "next" /\ exporter.todo = {} /\ exporter' = Waiting
      /\ result' = (IF a.ok THEN "ok" ELSE "error") /\ multi' = multi /\ missing' = missing
      /\ closer' = closer /\ closer.at # "closing"
  BY Zenon DEF FinalFlush, RoundEnd, closeVars, Orderly
<1>2. /\ buffer' \in Seq(Range(buffer')) /\ undelivered' \subseteq Range(buffer')
      /\ a.ok => undelivered' = {}
  BY Zenon, FlushKeeps DEF FinalFlush
<1>3. ~multi => missing = {}
  <2>1. Owed({}) = {}
    BY Zenon DEF Owed
  <2> QED BY ZenonT(40), <1>1, <2>1 DEF Orderly, RoundOwes
<1> QED BY ZenonT(40), <1>1, <1>2, <1>3 DEF Orderly, Delivers, Waiting, RoundOwes, EventsOk

(* Close sends what the buffer holds, if that is anything and no round is  *)
(* in progress.                                                            *)
LEMMA CloseBegins ==
  ASSUME Orderly, CloseBegin, ~raced'
  PROVE  Orderly'
<1>1. /\ UNCHANGED <<multi, exporter, buffer, undelivered, missing>>
      /\ closer.at # "closing"
  BY DEF CloseBegin, Unclosed
<1>2. CASE buffer = <<>>
  <2>1. closer' = closer /\ result' = IF InRound THEN result ELSE "closed"
    BY Zenon, <1>2 DEF CloseBegin, closeVars
  <2>2. undelivered = {}
    BY SMTT(30), <1>2 DEF Orderly, Range
  <2> QED BY ZenonT(40), <1>1, <2>1, <2>2 DEF Orderly, Delivers, InRound
<1>3. CASE buffer # <<>>
  <2>1. /\ closer' = [at |-> "closing", payload |-> buffer] /\ result' = result
        /\ raced' = (raced \/ InRound)
    BY Zenon, <1>3 DEF CloseBegin
  <2>2. ~InRound /\ closer'.payload = buffer
    BY <2>1
  <2> QED BY ZenonT(40), <1>1, <2>1, <2>2 DEF Orderly, Delivers, InRound
<1> QED BY <1>2, <1>3

(* A Close that no round has raced delivers what the buffer holds, or      *)
(* leaves it there.                                                        *)
LEMMA CloseEnds ==
  ASSUME Orderly, NEW a \in Answers, CloseEnd(a.ok, a.arrives), ~raced
  PROVE  Orderly'
<1>1. /\ closer.at = "closing" /\ closer' = Unclosed /\ UNCHANGED <<multi, exporter, missing>>
      /\ buffer' = (IF a.ok THEN <<>> ELSE buffer)
      /\ undelivered' = (IF a.arrives THEN undelivered \ Range(closer.payload) ELSE undelivered)
      /\ result' = IF a.ok THEN "closed" ELSE "error"
  BY Zenon DEF CloseEnd
<1>2. closer'.at # "closing" /\ closer.payload = buffer /\ ~InRound
  BY <1>1 DEF Orderly, Unclosed, InRound
<1>3. /\ buffer' \in Seq(Range(buffer')) /\ undelivered' \subseteq Range(buffer')
      /\ a.ok => undelivered' = {}
  <2>1. CASE a.ok
    <3>1. buffer' = <<>> /\ undelivered' = {}
      BY ZenonT(40), <1>1, <1>2, <2>1 DEF Orderly, Answers
    <3>2. buffer' \in Seq(Range(buffer'))
      BY SMTT(30), <3>1
    <3> QED BY Zenon, <3>1, <3>2
  <2>2. CASE ~a.ok
    BY ZenonT(40), <1>1, <2>2 DEF Orderly
  <2> QED BY Zenon, <2>1, <2>2
<1> QED BY ZenonT(40), <1>1, <1>2, <1>3 DEF Orderly, Delivers, InRound, RoundOwes, EventsOk

(* When a round or a Close reports success, the endpoint has all it was    *)
(* ever to get and, without a MultiExporter, so have the console and       *)
(* Segment, whatever requests failed or arrived though they failed, as     *)
(* long as no Close has sent during a round.                               *)
THEOREM RoundsDeliver == Spec => []RoundDelivers
<1>1. Init => ExportInv
  <2> SUFFICES ASSUME Init PROVE ExportInv
    OBVIOUS
  <2>1. /\ exporter = Waiting /\ buffer = <<>> /\ result = "none"
        /\ undelivered = {} /\ missing = {} /\ closer = Unclosed
    BY DEF Init
  <2>2. buffer \in Seq(Range(buffer))
    BY SMTT(30), <2>1
  <2> QED BY ZenonT(40), <2>1, <2>2 DEF ExportInv, Orderly, Waiting, Unclosed, Delivers, RoundOwes,
                                        EventsOk
<1>2. ExportInv /\ [Next]_vars => ExportInv'
  <2> SUFFICES ASSUME ExportInv, [Next]_vars, ~raced' PROVE Orderly'
    BY DEF ExportInv
  <2>0. ~raced /\ Orderly
    <3>1. raced => raced'
      BY ZenonT(40) DEF Next, ExportStep, CloseStep, RoundBegin, Stopped, ItemExport, BatchFlush,
                        SegmentSend, FinalFlush, CloseBegin, CloseEnd, Cancel, vars, exportVars,
                        closeVars
    <3> QED BY <3>1 DEF ExportInv
  <2>1. CASE UNCHANGED exportVars
    BY Zenon, <2>0, <2>1 DEF exportVars, closeVars, Orderly, Delivers, RoundOwes, EventsOk
  <2>2. CASE RoundBegin
    BY Zenon, <2>0, <2>2 DEF RoundBegin, Orderly, Delivers, RoundOwes, EventsOk
  <2>3. CASE Stopped
    BY Zenon, <2>0, <2>3 DEF Stopped, closeVars, Orderly, Delivers, RoundOwes, EventsOk
  <2>4. CASE Cancel
    BY Zenon, <2>0, <2>4 DEF Cancel, closeVars, Orderly, Delivers, RoundOwes, EventsOk
  <2>5. CASE exporter.at = "next" /\ \E i \in exporter.todo : ItemExport(i)
    BY ZenonT(40), <2>0, <2>5, ItemStep
  <2>6. CASE \E a \in Answers : \/ BatchFlush(a.ok, a.arrives)
                                \/ SegmentSend(a.ok, a.arrives)
                                \/ FinalFlush(a.ok, a.arrives)
    BY ZenonT(40), <2>0, <2>6, BatchStep, SegmentStep, FinalStep
  <2>7. CASE CloseStep
    BY ZenonT(40), <2>0, <2>7, CloseBegins, CloseEnds DEF CloseStep
  <2> QED BY ZenonT(40), <2>1, <2>2, <2>3, <2>4, <2>5, <2>6, <2>7 DEF Next, ExportStep, vars
<1>3. ExportInv => RoundDelivers
  BY DEF ExportInv, Orderly, Delivers, RoundDelivers
<1> QED BY <1>1, <1>2, <1>3, PTL DEF Spec

=============================================================================
