---------------------------- MODULE Aggregation ----------------------------
(***************************************************************************)
(* analytics.AggregationEngine: AggregateNow holds the engine's lock and   *)
(* reads the metrics of the current day, week and month one counter at a   *)
(* time, each read under the metrics' own lock, while events go on.        *)
(***************************************************************************)
EXTENDS Metrics, Sums

CONSTANT MaxAggs    \* bound: calls of AggregateNow

VARIABLES
  log,        \* history: the events counted, in order
  agg,        \* the running AggregateNow: what it has to read, what it has read
              \* and (history) how many events were counted when it began
  store,      \* the aggregations by period and key
  aggs        \* history: calls of AggregateNow

aggVars == <<log, agg, store, aggs>>

Resting == [at |-> -1]
Periods == {"daily", "weekly", "monthly"}
Zero    == [users |-> 0, points |-> 0, badges |-> 0]

KeyOf(p, d) == CASE p = "daily" -> d
                 [] p = "weekly" -> getWeekKey(d)
                 [] p = "monthly" -> getMonthKey(d)

AggInit ==
  /\ log = <<>>
  /\ agg = Resting
  /\ store = [p \in Periods |-> <<>>]
  /\ aggs = 0

-----------------------------------------------------------------------------
(* AggregationEngine.OnEvent: the metrics count the event.                  *)
Observe ==
  /\ \E e \in Events : Count(e) /\ log' = Append(log, e)
  /\ UNCHANGED <<agg, store, aggs>>

(* A bug: on a Sunday the week is taken to start on the next day.          *)
WeekStartNoWrap(d) == d - (Weekday(d) - 1)

(* Go's % leaves -1 for a Sunday, which is six days after its Monday.       *)
WeekStart(d) ==
  LET since == Weekday(d) - 1
  IN  d - IF since < 0 THEN since + 7 ELSE since

WeekDays(d)  == {x \in Days : WeekStart(d) <= x /\ x < WeekStart(d) + 7}

(* From the first of d's month to the day before the first of the next.     *)
MonthDays(d) ==
  {x \in Days : \A s \in MonthStarts : IF s <= d THEN s <= x ELSE x < s}

Read(p, what, d) == [period |-> p, what |-> what, day |-> d]

DaysOf(p, d) == CASE p = "daily" -> {d}
                  [] p = "weekly" -> WeekDays(d)
                  [] p = "monthly" -> MonthDays(d)

(* The active users of a period are asked for once, points and badges for   *)
(* each of its days; a day on which nothing happens adds nothing.           *)
Reads(d) ==
  {Read(p, "users", d) : p \in Periods}
    \cup UNION {{Read(p, what, x) : what \in {"points", "badges"}, x \in DaysOf(p, d)} :
                 p \in Periods}

(* aggregateDaily, aggregateWeekly, aggregateMonthly; the loops over days.  *)
Turn == [daily |-> 1, weekly |-> 2, monthly |-> 3]

Sooner(q, r) ==
  \/ Turn[q.period] < Turn[r.period]
  \/ /\ q.period = r.period /\ r.what # "users"
     /\ \/ q.what = "users"
        \/ q.day < r.day
        \/ q.day = r.day /\ q.what = "points" /\ r.what = "badges"

(* AggregateNow takes the lock and reads the clock.                         *)
AggregateBegin ==
  /\ agg = Resting
  /\ aggs < MaxAggs
  /\ aggs' = aggs + 1
  /\ agg' = [at |-> Today, todo |-> Reads(Today), from |-> events,
             data |-> [p \in Periods |-> Zero]]
  /\ UNCHANGED <<metricsVars, log, store>>

Getter(r) ==
  CASE r.what = "points" -> metrics.points[r.day]
    [] r.what = "badges" -> metrics.badges[r.day]
    [] r.what = "users"  -> Cardinality(
         CASE r.period = "daily"   -> metrics.daily[r.day]
           [] r.period = "weekly"  -> metrics.weekly[getWeekKey(r.day)]
           [] r.period = "monthly" -> metrics.monthly[getMonthKey(r.day)])

AggregateRead ==
  /\ agg # Resting
  /\ \E r \in agg.todo :
       /\ \A q \in agg.todo : ~Sooner(q, r)
       /\ agg' = [agg EXCEPT !.todo = @ \ {r}, !.data[r.period][r.what] = @ + Getter(r)]
  /\ UNCHANGED <<metricsVars, log, store, aggs>>

(* The aggregations are stored and the lock released; until then nobody     *)
(* can read them.                                                           *)
AggregateEnd ==
  /\ agg # Resting
  /\ agg.todo = {}
  /\ store' = [p \in Periods |->
                (KeyOf(p, agg.at) :> agg.data[p]) @@ store[p]]
  /\ agg' = Resting
  /\ UNCHANGED <<metricsVars, log, aggs>>

GetAllAggregatedData(p) == {[key |-> k, data |-> store[p][k]] : k \in DOMAIN store[p]}

Aggregate == AggregateBegin \/ AggregateRead \/ AggregateEnd

-----------------------------------------------------------------------------
(* Properties                                                              *)

(* What the first n events say of a period.                                 *)
Truth(p, k, n) ==
  LET Mine(e) == KeyOf(p, DayOf(e.time)) = k
      Award(e) == IF Mine(e) /\ e.kind = "points" /\ e.delta > 0 THEN e.delta ELSE 0
      Badge(e) == IF Mine(e) /\ e.kind = "badge" THEN 1 ELSE 0
  IN  [ users  |-> Cardinality({log[i].user : i \in {j \in 1 .. n : Mine(log[j])}}),
        points |-> SeqSum([i \in 1 .. n |-> Award(log[i])]),
        badges |-> SeqSum([i \in 1 .. n |-> Badge(log[i])]) ]

(* What AggregateNow stores of a day, a week or a month is no less than     *)
(* what had been counted of it when it began, no more than what has been    *)
(* counted when it ends, and nothing of another period: the loop over a     *)
(* days of a week or month and its key agree on what a week or month is,    *)
(* Sundays included.                                                        *)
AggregateBracketed ==
  agg # Resting /\ agg.todo = {} =>
    \A p \in Periods, what \in DOMAIN Zero :
      /\ Truth(p, KeyOf(p, agg.at), agg.from)[what] <= agg.data[p][what]
      /\ agg.data[p][what] <= Truth(p, KeyOf(p, agg.at), events)[what]
=============================================================================
