------------------------------ MODULE Metrics ------------------------------
(***************************************************************************)
(* analytics.ComprehensiveMetrics: counters by day, week and month that    *)
(* each event updates under one lock, and counters "of the last 24 hours"  *)
(* that an event resets.  One metric and one badge stand for all, so the   *)
(* counters by metric and by badge are the totals.  What no method reads   *)
(* (levels and achievements by day, the level distribution) is left out.   *)
(***************************************************************************)
EXTENDS Integers, FiniteSets, Sequences, SequencesExt

CONSTANTS
  Inputs,        \* what an event can say: [kind, user, delta]
  TicksPerDay,   \* clock ticks in 24 hours
  Days,          \* the days on which something happens
  FirstWeekday,  \* day 0's Weekday (Sunday is 0)
  MonthStarts,   \* the days that are the first of a month
  MaxLate,       \* bound: ticks between an event and the call of the hook
  MaxEvents      \* bound: events

ASSUME MetricsAssumption ==
  /\ \A i \in Inputs : i.kind \in {"points", "level", "badge", "achievement"} /\ i.delta \in Int
  /\ TicksPerDay \in Nat \ {0}
  /\ FirstWeekday \in 0 .. 6
  /\ Days \subseteq Nat /\ 0 \in Days
  /\ MonthStarts \subseteq Nat
  /\ MaxLate \in Nat /\ MaxEvents \in Nat

VARIABLES
  metrics,    \* the counters
  now,        \* the clock, in ticks
  events      \* history: how many events were counted

metricsVars == <<metrics, now, events>>

-----------------------------------------------------------------------------
(* The UTC calendar                                                        *)

DayOf(t)   == t \div TicksPerDay
Weekday(d) == (FirstWeekday + d) % 7

(* ISO weeks run from Monday to Sunday; week 0 is the one of day 0.         *)
getWeekKey(d)  == (d + ((FirstWeekday + 6) % 7)) \div 7
getMonthKey(d) == Cardinality({s \in MonthStarts : s <= d})

Weeks  == {getWeekKey(d) : d \in Days}
Months == {getMonthKey(d) : d \in Days}

Today == DayOf(now)

-----------------------------------------------------------------------------
NewMetrics(t) ==
  [ daily     |-> [d \in Days |-> {}],
    weekly    |-> [w \in Weeks |-> {}],
    monthly   |-> [m \in Months |-> {}],
    points    |-> [d \in Days |-> 0],
    badges    |-> [d \in Days |-> 0],
    allPoints |-> 0,
    allBadges |-> 0,
    realtime  |-> [points |-> 0, badges |-> 0, levels |-> 0],
    lastReset |-> t ]

(* A bug: points that were taken back are counted like awards.             *)
AwardedAny(e) == IF e.kind = "points" THEN e.delta ELSE 0

Awarded(e) == IF e.kind = "points" /\ e.delta > 0 THEN e.delta ELSE 0
Badged(e) == IF e.kind = "badge" THEN 1 ELSE 0
Levelled(e) == IF e.kind = "level" THEN 1 ELSE 0

(* The reset comes last: it also forgets the event that triggers it.        *)
Realtime(m, e, t) ==
  IF t - m.lastReset > TicksPerDay
  THEN [points |-> 0, badges |-> 0, levels |-> 0]
  ELSE [ points |-> m.realtime.points + Awarded(e),
         badges |-> m.realtime.badges + Badged(e),
         levels |-> m.realtime.levels + Levelled(e) ]

OnEvent(m, e, t) ==
  LET d == DayOf(e.time)
  IN  [ daily     |-> [m.daily EXCEPT ![d] = @ \cup {e.user}],
        weekly    |-> [m.weekly EXCEPT ![getWeekKey(d)] = @ \cup {e.user}],
        monthly   |-> [m.monthly EXCEPT ![getMonthKey(d)] = @ \cup {e.user}],
        points    |-> [m.points EXCEPT ![d] = @ + Awarded(e)],
        badges    |-> [m.badges EXCEPT ![d] = @ + Badged(e)],
        allPoints |-> m.allPoints + Awarded(e),
        allBadges |-> m.allBadges + Badged(e),
        realtime  |-> Realtime(m, e, t),
        lastReset |-> IF t - m.lastReset > TicksPerDay THEN t ELSE m.lastReset ]

-----------------------------------------------------------------------------
MetricsInit ==
  /\ now = 0
  /\ metrics = NewMetrics(0)
  /\ events = 0

(* An event reaches the hook after it was made, perhaps on a later day.     *)
Events == {[kind |-> i.kind, user |-> i.user, delta |-> i.delta, time |-> t] :
             i \in Inputs, t \in {x \in 0 .. now : now - x <= MaxLate /\ DayOf(x) \in Days}}

Count(e) ==
  /\ events < MaxEvents
  /\ events' = events + 1
  /\ metrics' = OnEvent(metrics, e, now)
  /\ UNCHANGED now

(* Nothing happens between two readings of the clock, for any time.         *)
Tick ==
  /\ \E t \in UNION {d * TicksPerDay .. (d + 1) * TicksPerDay - 1 : d \in Days} :
       /\ t > now
       /\ now' = t
  /\ UNCHANGED <<metrics, events>>
=============================================================================
