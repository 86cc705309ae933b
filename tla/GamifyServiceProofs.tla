------------------------ MODULE GamifyServiceProofs ------------------------
(***************************************************************************)
(* Proofs about GamifyService, for any number of clients, users, metrics   *)
(* and calls, any deltas, and a Storage that may fail.                     *)
(***************************************************************************)
EXTENDS GamifyService, FiniteSetTheorems, TLAPS

-----------------------------------------------------------------------------
(* The level curve                                                         *)

(* The thresholds that an XP total reaches.                                *)
Thresholds(xp) == {k \in 1 .. (xp \div 100) : 100 * k * k <= xp}

(* A positive total reaches finitely many thresholds of DefaultLevel.      *)
LEMMA ThresholdsFinite ==
  ASSUME NEW xp \in Int, xp > 0
  PROVE  IsFiniteSet(Thresholds(xp)) /\ Cardinality(Thresholds(xp)) \in Nat
<1>1. xp \div 100 \in Int
  OBVIOUS
<1>2. IsFiniteSet(1 .. (xp \div 100))
  BY <1>1, FS_Interval
<1>3. Thresholds(xp) \subseteq 1 .. (xp \div 100)
  BY DEF Thresholds
<1>4. IsFiniteSet(Thresholds(xp))
  BY <1>2, <1>3, FS_Subset
<1>5. QED
  BY <1>4, FS_CardinalityType

(* core.DefaultLevel is at least 1, whatever the total.                    *)
LEMMA DefaultLevelPositive ==
  ASSUME NEW xp \in Int
  PROVE  DefaultLevel(xp) \in Nat /\ DefaultLevel(xp) >= 1
<1>1. CASE xp <= 0
  BY <1>1 DEF DefaultLevel
<1>2. CASE xp > 0
  <2>1. DefaultLevel(xp) = Cardinality(Thresholds(xp)) + 1
    BY <1>2 DEF DefaultLevel, Thresholds
  <2>2. QED
    BY <1>2, <2>1, ThresholdsFinite
<1>3. QED
  BY <1>1, <1>2

(* core.DefaultLevel never falls when the total grows.                     *)
LEMMA DefaultLevelMonotone ==
  ASSUME NEW x \in Int, NEW y \in Int, x <= y
  PROVE  DefaultLevel(x) <= DefaultLevel(y)
<1>1. CASE x <= 0
  <2>1. DefaultLevel(x) = 1
    BY <1>1 DEF DefaultLevel
  <2>2. QED
    BY <2>1, DefaultLevelPositive
<1>2. CASE x > 0
  <2>1. y > 0
    BY <1>2
  <2>2. /\ DefaultLevel(x) = Cardinality(Thresholds(x)) + 1
        /\ DefaultLevel(y) = Cardinality(Thresholds(y)) + 1
    BY <1>2, <2>1 DEF DefaultLevel, Thresholds
  <2>3. x \div 100 <= y \div 100
    BY <1>2
  <2>4. Thresholds(x) \subseteq Thresholds(y)
    <3> SUFFICES ASSUME NEW k \in Thresholds(x)
                 PROVE  k \in Thresholds(y)
      OBVIOUS
    <3>1. k \in Int /\ 1 <= k /\ k <= x \div 100 /\ 100 * k * k <= x
      BY DEF Thresholds
    <3>2. k \in 1 .. (y \div 100)
      BY <3>1, <2>3
    <3>3. 100 * k * k <= y
      BY <3>1
    <3>4. QED
      BY <3>2, <3>3 DEF Thresholds
  <2>5. Cardinality(Thresholds(x)) <= Cardinality(Thresholds(y))
    BY <2>1, <2>4, ThresholdsFinite, FS_Subset
  <2>6. QED
    BY <1>2, <2>1, <2>2, <2>5, ThresholdsFinite
<1>3. QED
  BY <1>1, <1>2
-----------------------------------------------------------------------------
(* The inductive invariant                                                 *)

Canonical(u) == u.plain = TRUE /\ ValidUserID(u)

Evaluating(c, u) ==
  /\ call[c].pc \in {"publish", "read"}
  /\ call[c].ev.user = u
  /\ call[c].ev.metric = XP

(* What a client in the middle of a call is holding.                       *)
Holds(pc, ev) ==
  /\ pc \in {"publish", "read"} =>
       ev.type = "points_added" /\ Canonical(ev.user) /\ ev.metric \in Metrics
  /\ pc = "badge" =>
       ev.type = "badge_awarded" /\ ev.badge \in badges[ev.user]
  /\ pc = "evaluate" => ev.type = None
  /\ pc \in {"setlevel", "announce"} =>
       /\ ev.type = "level_up"
       /\ Canonical(ev.user)
       /\ ev.metric = XP
       /\ ev.level <= DefaultLevel(peak[ev.user])

CallOK == \A c \in Clients : Holds(call[c].pc, call[c].ev)

PeakOK == \A u \in UserID : points[u][XP] <= peak[u]

(* StoredLevelAnnounced while calls are running.                           *)
StoredLevelDue ==
  \A u \in UserID :
    levels[u][XP] > 0 => \E e \in LevelUpsDue(u) : e.level = levels[u][XP]

(* NoLevelUpLost while calls are running: the level of the total is due,   *)
(* or a client is about to read a state that shows that total.             *)
TotalCovered ==
  \A u \in UserID :
    Scored(u) /\ u \notin missed =>
      \/ \E c \in Clients : Evaluating(c, u)
      \/ \E e \in LevelUpsDue(u) : e.level >= DefaultLevel(points[u][XP])

IInv ==
  /\ TypeOK
  /\ CallOK
  /\ PeakOK
  /\ LevelsEarned
  /\ StoredLevelDue
  /\ TotalCovered
  /\ OneRecordPerUser
  /\ AnnouncedBadgeHeld
-----------------------------------------------------------------------------
(* Helpers                                                                 *)

(* core.NormalizeUserID yields a canonical id.                             *)
LEMMA NormalizeCanonical ==
  ASSUME NEW id \in UserID, ValidUserID(id)
  PROVE  NormalizeUserID(id) \in UserID /\ Canonical(NormalizeUserID(id))
BY DEF NormalizeUserID, UserID, Canonical, ValidUserID

(* The constructors of core/events.go build Events.                        *)
LEMMA EventTypes ==
  ASSUME NEW u \in UserID
  PROVE  /\ EmptyEvent(u) \in Event
         /\ \A m \in Metrics, d \in Int, t \in Int :
              NewPointsAdded(u, m, d, t) \in Event
         /\ \A b \in Badges : NewBadgeAwarded(u, b) \in Event
         /\ \A m \in Metrics, l \in Nat : NewLevelUp(u, m, l) \in Event
BY DEF Event, EventType, EmptyEvent, NewPointsAdded, NewBadgeAwarded, NewLevelUp

(* AddSafe lets no sum out of the int64 range.                             *)
LEMMA AddSafeRange ==
  ASSUME NEW base \in Int64, NEW delta \in Int, ~Overflows(base, delta)
  PROVE  base + delta \in Int64
BY CoreAssumption, MaxIntAssumption DEF Int64, MinInt, Overflows

(* An event that is due stays due: a client drops a LevelUp it holds only  *)
(* once it is published.                                                   *)
LEMMA DueStays ==
  ASSUME TypeOK, NEW c \in Clients, NEW pc \in Step, NEW ev \in Event,
         Goto(c, pc, ev),
         published \subseteq published',
         call[c].pc \in {"setlevel", "announce"} =>
           \/ pc \in {"setlevel", "announce"} /\ ev = call[c].ev
           \/ call[c].ev \in published' /\ call[c].ev.type = "level_up",
         NEW u \in UserID
  PROVE  LevelUpsDue(u) \subseteq LevelUpsDue(u)'
<1> SUFFICES ASSUME NEW e \in LevelUpsDue(u)
             PROVE  e \in LevelUpsDue(u)'
  OBVIOUS
<1>1. CASE e \in LevelUpsPublished(u)
  BY <1>1 DEF LevelUpsDue, LevelUpsPublished
<1>2. CASE \E k \in Clients : /\ call[k].pc \in {"setlevel", "announce"}
                              /\ call[k].ev.user = u
                              /\ e = call[k].ev
  <2>1. PICK k \in Clients : /\ call[k].pc \in {"setlevel", "announce"}
                             /\ call[k].ev.user = u
                             /\ e = call[k].ev
    BY <1>2
  <2>2. CASE k # c
    <3>1. call'[k] = call[k]
      BY <2>2 DEF Goto, TypeOK
    <3>2. QED
      BY <2>1, <3>1 DEF LevelUpsDue
  <2>3. CASE k = c
    <3>1. call'[c] = [pc |-> pc, ev |-> ev]
      BY DEF Goto, TypeOK
    <3>2. QED
      BY <2>1, <2>3, <3>1 DEF LevelUpsDue, LevelUpsPublished
  <2>4. QED
    BY <2>2, <2>3
<1>3. QED
  BY <1>1, <1>2 DEF LevelUpsDue

(* Initially nothing is stored, published or running.                      *)
LEMMA InitIInv == Init => IInv
<1> SUFFICES ASSUME Init PROVE IInv
  OBVIOUS
<1> USE DEF Init
<1>1. NoUser \in UserID
  BY DEF NoUser, UserID
<1>2. IdleCall \in [pc : Step, ev : Event]
  BY <1>1, EventTypes DEF IdleCall, Step
<1>3. TypeOK
  BY <1>2, CoreAssumption, MaxIntAssumption, ServiceAssumption DEF TypeOK, Int64, MinInt
<1>4. \A c \in Clients : call[c].pc = "idle"
  BY DEF IdleCall
<1>5. CallOK
  BY <1>4 DEF CallOK, Holds
<1>6. PeakOK /\ StoredLevelDue
  BY CoreAssumption, MaxIntAssumption DEF PeakOK, StoredLevelDue
<1>7. LevelsEarned
  BY DefaultLevelPositive, CoreAssumption, MaxIntAssumption DEF LevelsEarned, LevelUpsPublished
<1>8. TotalCovered /\ OneRecordPerUser /\ AnnouncedBadgeHeld
  BY CoreAssumption, MaxIntAssumption DEF TotalCovered, Scored, OneRecordPerUser, AnnouncedBadgeHeld
<1>9. QED
  BY <1>3, <1>5, <1>6, <1>7, <1>8 DEF IInv
-----------------------------------------------------------------------------
(* The steps                                                               *)

(* Storing a total keeps the peak above the total, and the peak never      *)
(* falls.                                                                  *)
LEMMA RecordPointsFacts ==
  ASSUME TypeOK, PeakOK, NEW user \in UserID, NEW m \in Metrics,
         NEW total \in Int64, RecordPoints(user, m, total)
  PROVE  /\ points' \in [UserID -> [Metrics -> Int64]]
         /\ peak' \in [UserID -> Nat]
         /\ PeakOK'
         /\ \A u \in UserID : DefaultLevel(peak[u]) <= DefaultLevel(peak'[u])
         /\ \A u \in UserID :
              u # user \/ m # XP => points'[u][XP] = points[u][XP]
         /\ \A u \in UserID, k \in Metrics :
              u # user => points'[u][k] = points[u][k]
<1> USE CoreAssumption, MaxIntAssumption
<1>1. points' = [points EXCEPT ![user][m] = total]
  BY DEF RecordPoints
<1>2. points' \in [UserID -> [Metrics -> Int64]]
  BY <1>1 DEF TypeOK
<1>3. total \in Int
  BY DEF Int64, MinInt
<1>4. peak' \in [UserID -> Nat]
  BY <1>3 DEF RecordPoints, TypeOK
<1>5. \A u \in UserID : peak[u] <= peak'[u]
  BY <1>3 DEF RecordPoints, TypeOK
<1>6. \A u \in UserID, k \in Metrics :
        points'[u][k] = IF u = user /\ k = m THEN total ELSE points[u][k]
  BY <1>1 DEF TypeOK
<1>7. PeakOK'
  <2> SUFFICES ASSUME NEW u \in UserID
               PROVE  points'[u][XP] <= peak'[u]
    BY DEF PeakOK
  <2>1. points[u][XP] \in Int /\ points[u][XP] <= peak[u]
    BY DEF TypeOK, PeakOK, Int64, MinInt
  <2>2. CASE u = user /\ XP = m
    <3>1. points'[u][XP] = total
      BY <1>6, <2>2
    <3>2. QED
      BY <3>1, <2>2, <1>3 DEF RecordPoints, TypeOK
  <2>3. CASE ~(u = user /\ XP = m)
    <3>1. points'[u][XP] = points[u][XP]
      BY <1>6, <2>3
    <3>2. QED
      BY <3>1, <2>1, <1>4, <1>5 DEF TypeOK
  <2>4. QED
    BY <2>2, <2>3
<1>8. \A u \in UserID : DefaultLevel(peak[u]) <= DefaultLevel(peak'[u])
  <2> SUFFICES ASSUME NEW u \in UserID
               PROVE  DefaultLevel(peak[u]) <= DefaultLevel(peak'[u])
    OBVIOUS
  <2>1. peak[u] \in Int /\ peak'[u] \in Int
    BY <1>4 DEF TypeOK
  <2>2. QED
    BY <2>1, <1>5, DefaultLevelMonotone
<1>9. QED
  BY <1>2, <1>4, <1>6, <1>7, <1>8

(* LevelsEarned survives a peak that grows while levels and LevelUps stay. *)
LEMMA EarnedStays ==
  ASSUME TypeOK, LevelsEarned, UNCHANGED <<levels, published>>,
         peak' \in [UserID -> Nat],
         \A u \in UserID : DefaultLevel(peak[u]) <= DefaultLevel(peak'[u])
  PROVE  LevelsEarned'
<1> SUFFICES ASSUME NEW u \in UserID
             PROVE  /\ levels[u][XP] <= DefaultLevel(peak'[u])
                    /\ \A e \in LevelUpsPublished(u) : e.level <= DefaultLevel(peak'[u])
  BY DEF LevelsEarned, LevelUpsPublished
<1>1. levels[u][XP] \in Nat /\ \A e \in LevelUpsPublished(u) : e.level \in Nat
  BY CoreAssumption, MaxIntAssumption DEF TypeOK, LevelUpsPublished, Event
<1>2. DefaultLevel(peak[u]) \in Nat /\ DefaultLevel(peak'[u]) \in Nat
  BY DefaultLevelPositive DEF TypeOK
<1>3. QED
  BY <1>1, <1>2 DEF LevelsEarned

(* One client moves: what it holds afterwards is what its step gave it,    *)
(* and what the others hold stays true, since badges are never taken away  *)
(* and the peak never falls.                                               *)
LEMMA CallStep ==
  ASSUME IInv, NEW c \in Clients, NEW pc \in Step, NEW ev \in Event,
         Goto(c, pc, ev), Holds(pc, ev)',
         \A u \in UserID : badges[u] \subseteq badges'[u],
         peak' \in [UserID -> Nat],
         \A u \in UserID : DefaultLevel(peak[u]) <= DefaultLevel(peak'[u])
  PROVE  /\ call'[c] = [pc |-> pc, ev |-> ev]
         /\ \A k \in Clients : k # c => call'[k] = call[k]
         /\ call' \in [Clients -> [pc : Step, ev : Event]]
         /\ CallOK'
<1>1. /\ call'[c] = [pc |-> pc, ev |-> ev]
      /\ \A k \in Clients : k # c => call'[k] = call[k]
      /\ call' \in [Clients -> [pc : Step, ev : Event]]
  BY DEF Goto, IInv, TypeOK
<1>2. CallOK'
  <2> SUFFICES ASSUME NEW k \in Clients
               PROVE  Holds(call[k].pc, call[k].ev)'
    BY DEF CallOK
  <2>1. CASE k = c
    BY <2>1, <1>1 DEF Holds
  <2>2. CASE k # c
    <3>1. /\ call'[k] = call[k]
          /\ call[k].ev.user \in UserID
          /\ call[k].ev.level \in Nat
      BY <2>2, <1>1 DEF IInv, TypeOK, Event
    <3>2. /\ DefaultLevel(peak[call[k].ev.user]) \in Nat
          /\ DefaultLevel(peak'[call[k].ev.user]) \in Nat
      BY <3>1, DefaultLevelPositive DEF IInv, TypeOK
    <3>3. Holds(call[k].pc, call[k].ev)
      BY DEF IInv, CallOK
    <3>4. QED
      BY <3>1, <3>2, <3>3 DEF Holds
  <2>3. QED
    BY <2>1, <2>2
<1>3. QED
  BY <1>1, <1>2

(* AddPoints up to a successful Storage.AddPoints keeps the invariant.     *)
LEMMA AddPointsStep ==
  ASSUME IInv, NEW c \in Clients, NEW id \in UserID, NEW m \in Metrics,
         NEW d \in Deltas, AddPoints(c, id, m, d)
  PROVE  IInv'
<1> DEFINE user  == NormalizeUserID(id)
           total == points[user][m] + d
<1> USE CoreAssumption, MaxIntAssumption, ServiceAssumption
<1>1. user \in UserID /\ Canonical(user)
  BY NormalizeCanonical DEF AddPoints
<1>2. total \in Int64 /\ total \in Int /\ d \in Int
  <2>1. points[user][m] \in Int64
    BY <1>1 DEF IInv, TypeOK
  <2>2. total \in Int64
    BY <2>1, AddSafeRange, Zenon DEF AddPoints
  <2>3. QED
    BY <2>2 DEF Int64, MinInt
<1>3. /\ RecordPoints(user, m, total)
      /\ Goto(c, "publish", NewPointsAdded(user, m, d, total))
      /\ UNCHANGED <<levels, badges, published, missed>>
      /\ call[c].pc = "idle"
      /\ calls' \in 0 .. MaxCalls
  BY DEF AddPoints, StartCall, IInv, TypeOK
<1>4. /\ points' \in [UserID -> [Metrics -> Int64]]
      /\ peak' \in [UserID -> Nat]
      /\ PeakOK'
      /\ \A u \in UserID : DefaultLevel(peak[u]) <= DefaultLevel(peak'[u])
      /\ \A u \in UserID :
           u # user \/ m # XP => points'[u][XP] = points[u][XP]
      /\ \A u \in UserID, k \in Metrics :
           u # user => points'[u][k] = points[u][k]
  BY <1>1, <1>2, <1>3, RecordPointsFacts DEF IInv
<1>5. PICK ev \in Event : ev = NewPointsAdded(user, m, d, total)
  BY <1>1, <1>2, EventTypes
<1>6. ev.type = "points_added" /\ ev.user = user /\ ev.metric = m
  BY Zenon, <1>5 DEF NewPointsAdded
<1>7. Goto(c, "publish", ev)
  BY <1>3, <1>5
<1>8. Holds("publish", ev)'
  BY <1>1, <1>6 DEF Holds
<1>9. /\ call'[c] = [pc |-> "publish", ev |-> ev]
      /\ \A k \in Clients : k # c => call'[k] = call[k]
      /\ call' \in [Clients -> [pc : Step, ev : Event]]
      /\ CallOK'
  BY <1>3, <1>4, <1>7, <1>8, CallStep, Zenon DEF Step
<1>10. TypeOK'
  BY <1>3, <1>4, <1>9, SMTT(30) DEF IInv, TypeOK
<1>11. LevelsEarned'
  BY <1>3, <1>4, EarnedStays DEF IInv
<1>12. \A u \in UserID : LevelUpsDue(u) \subseteq LevelUpsDue(u)'
  BY <1>3, <1>7, DueStays DEF IInv, Step
<1>13. StoredLevelDue'
  BY <1>3, <1>12 DEF IInv, StoredLevelDue
<1>14. TotalCovered'
  <2> SUFFICES ASSUME NEW u \in UserID, Scored(u), u \notin missed
               PROVE  \/ \E k \in Clients : Evaluating(k, u)'
                      \/ \E e \in LevelUpsDue(u)' : e.level >= DefaultLevel(points'[u][XP])
    BY <1>3 DEF TotalCovered, Scored
  <2>1. CASE u = user /\ m = XP
    BY <2>1, <1>6, <1>9 DEF Evaluating
  <2>2. CASE ~(u = user /\ m = XP)
    <3>1. points'[u][XP] = points[u][XP]
      BY ZenonT(40), <2>2, <1>4
    <3>2. CASE \E k \in Clients : Evaluating(k, u)
      BY <3>2, <1>3, <1>9 DEF Evaluating
    <3>3. CASE \E e \in LevelUpsDue(u) : e.level >= DefaultLevel(points[u][XP])
      BY Zenon, <3>1, <3>3, <1>12
    <3>4. QED
      BY <3>2, <3>3 DEF IInv, TotalCovered
  <2>3. QED
    BY Zenon, <2>1, <2>2
<1>15. OneRecordPerUser'
  BY <1>1, <1>3, <1>4 DEF IInv, OneRecordPerUser, Canonical
<1>16. AnnouncedBadgeHeld'
  BY <1>3 DEF IInv, AnnouncedBadgeHeld
<1>17. QED
  BY <1>4, <1>9, <1>10, <1>11, <1>13, <1>14, <1>15, <1>16 DEF IInv

(* A peak that stays has not fallen.                                       *)
LEMMA PeakSame ==
  ASSUME TypeOK, peak' = peak
  PROVE  /\ peak' \in [UserID -> Nat]
         /\ \A u \in UserID : DefaultLevel(peak[u]) <= DefaultLevel(peak'[u])
<1>1. \A u \in UserID : DefaultLevel(peak[u]) \in Nat
  BY DefaultLevelPositive DEF TypeOK
<1>2. QED
  BY <1>1 DEF TypeOK

(* Four of the conjuncts speak of the storage and of what was published,   *)
(* and of no call.                                                         *)
LEMMA StoreSame ==
  ASSUME IInv, UNCHANGED <<points, levels, badges, published, peak>>
  PROVE  PeakOK' /\ LevelsEarned' /\ OneRecordPerUser' /\ AnnouncedBadgeHeld'
<1>1. PeakOK'
  BY DEF IInv, PeakOK
<1>2. LevelsEarned'
  <2>1. \A u \in UserID : LevelUpsPublished(u)' = LevelUpsPublished(u)
    BY DEF LevelUpsPublished
  <2>2. QED
    BY <2>1 DEF IInv, LevelsEarned
<1>3. OneRecordPerUser'
  BY DEF IInv, OneRecordPerUser
<1>4. AnnouncedBadgeHeld'
  BY DEF IInv, AnnouncedBadgeHeld
<1>5. QED
  BY <1>1, <1>2, <1>3, <1>4

(* A refused call, and a step that changes nothing, keep the invariant.    *)
LEMMA RefusedStep ==
  ASSUME IInv, UNCHANGED <<points, levels, badges, call, published, peak, missed>>,
         calls' \in 0 .. MaxCalls
  PROVE  IInv'
<1>1. TypeOK'
  BY DEF IInv, TypeOK
<1>2. CallOK'
  BY DEF IInv, CallOK, Holds
<1>3. \A u \in UserID : LevelUpsDue(u)' = LevelUpsDue(u)
  BY DEF LevelUpsDue, LevelUpsPublished
<1>4. StoredLevelDue'
  BY <1>3 DEF IInv, StoredLevelDue
<1>5. TotalCovered'
  BY <1>3 DEF IInv, TotalCovered, Scored, Evaluating
<1>6. QED
  BY <1>1, <1>2, <1>4, <1>5, StoreSame DEF IInv

(* A call that fails in Storage.AddPoints keeps the invariant, whether or  *)
(* not the total was changed before the failure.                           *)
LEMMA AddPointsFailsStep ==
  ASSUME IInv, NEW c \in Clients, NEW id \in UserID, NEW m \in Metrics,
         NEW d \in Deltas, AddPointsFails(c, id, m, d)
  PROVE  IInv'
<1> DEFINE user  == NormalizeUserID(id)
           total == points[user][m] + d
<1> USE CoreAssumption, MaxIntAssumption, ServiceAssumption
<1>1. /\ user \in UserID /\ Canonical(user)
      /\ UNCHANGED <<levels, badges, call, published>>
      /\ calls' \in 0 .. MaxCalls
  BY NormalizeCanonical DEF AddPointsFails, StartCall, IInv, TypeOK
<1>2. CASE UNCHANGED <<points, peak, missed>>
  BY <1>1, <1>2, RefusedStep, SMTT(30)
<1>3. CASE /\ ~Overflows(points[user][m], d)
           /\ RecordPoints(user, m, total)
           /\ missed' = IF m = XP THEN missed \cup {user} ELSE missed
  <2>1. total \in Int64
    <3>1. points[user][m] \in Int64 /\ d \in Int
      BY <1>1 DEF IInv, TypeOK
    <3>2. QED
      BY <3>1, <1>3, AddSafeRange
  <2>2. /\ points' \in [UserID -> [Metrics -> Int64]]
        /\ peak' \in [UserID -> Nat]
        /\ PeakOK'
        /\ \A u \in UserID : DefaultLevel(peak[u]) <= DefaultLevel(peak'[u])
        /\ \A u \in UserID :
             u # user \/ m # XP => points'[u][XP] = points[u][XP]
        /\ \A u \in UserID, k \in Metrics :
             u # user => points'[u][k] = points[u][k]
    BY <1>1, <1>3, <2>1, RecordPointsFacts DEF IInv
  <2>3. TypeOK'
    BY ZenonT(40), <1>1, <1>3, <2>2 DEF IInv, TypeOK
  <2>4. CallOK'
    <3> SUFFICES ASSUME NEW k \in Clients
                 PROVE  Holds(call[k].pc, call[k].ev)'
      BY DEF CallOK
    <3>1. /\ call'[k] = call[k]
          /\ call[k].ev.user \in UserID
          /\ call[k].ev.level \in Nat
      BY ZenonT(40), <1>1 DEF IInv, TypeOK, Event
    <3>2. /\ DefaultLevel(peak[call[k].ev.user]) \in Nat
          /\ DefaultLevel(peak'[call[k].ev.user]) \in Nat
      BY <3>1, <2>2, DefaultLevelPositive DEF IInv, TypeOK
    <3>3. Holds(call[k].pc, call[k].ev)
      BY DEF IInv, CallOK
    <3>4. QED
      BY <1>1, <2>2, <3>1, <3>2, <3>3 DEF Holds
  <2>5. LevelsEarned'
    BY <1>1, <2>2, EarnedStays DEF IInv
  <2>6. \A u \in UserID : LevelUpsDue(u)' = LevelUpsDue(u)
    BY <1>1, SMTT(30) DEF LevelUpsDue, LevelUpsPublished
  <2>7. StoredLevelDue'
    BY <1>1, <2>6 DEF IInv, StoredLevelDue
  <2>8. TotalCovered'
    <3> SUFFICES ASSUME NEW u \in UserID, Scored(u), u \notin missed'
                 PROVE  \/ \E k \in Clients : Evaluating(k, u)'
                        \/ \E e \in LevelUpsDue(u)' : e.level >= DefaultLevel(points'[u][XP])
      BY Zenon, <1>1 DEF TotalCovered, Scored
    <3>1. u \notin missed /\ points'[u][XP] = points[u][XP]
      BY Zenon, <1>3, <2>2
    <3>2. QED
      BY Zenon, <1>1, <2>6, <3>1 DEF IInv, TotalCovered, Evaluating
  <2>9. OneRecordPerUser'
    BY SMTT(30), <1>1, <2>2 DEF IInv, OneRecordPerUser, Canonical
  <2>10. AnnouncedBadgeHeld'
    BY <1>1 DEF IInv, AnnouncedBadgeHeld
  <2>11. QED
    BY <2>2, <2>3, <2>4, <2>5, <2>7, <2>8, <2>9, <2>10 DEF IInv
<1>4. QED
  BY <1>2, <1>3 DEF AddPointsFails

(* Publishing PointsAdded keeps the invariant: from here on the total      *)
(* counts as scored, and this client is about to evaluate it.              *)
LEMMA PublishPointsStep ==
  ASSUME IInv, NEW c \in Clients, PublishPoints(c)
  PROVE  IInv'
<1> USE CoreAssumption, MaxIntAssumption, ServiceAssumption
<1>1. PICK ev \in Event : ev = call[c].ev
  BY DEF IInv, TypeOK
<1>2. /\ call[c].pc = "publish"
      /\ published' = published \cup {ev}
      /\ Goto(c, "read", ev)
      /\ UNCHANGED <<points, levels, badges, peak, missed, calls>>
  BY Zenon, <1>1 DEF PublishPoints, store
<1>3. ev.type = "points_added" /\ Canonical(ev.user) /\ ev.metric \in Metrics
  BY <1>1, <1>2 DEF IInv, CallOK, Holds
<1>4. /\ peak' \in [UserID -> Nat]
      /\ \A u \in UserID : DefaultLevel(peak[u]) <= DefaultLevel(peak'[u])
  BY <1>2, PeakSame DEF IInv
<1>5. /\ call'[c] = [pc |-> "read", ev |-> ev]
      /\ \A k \in Clients : k # c => call'[k] = call[k]
      /\ call' \in [Clients -> [pc : Step, ev : Event]]
      /\ CallOK'
  <2>1. Holds("read", ev)'
    BY <1>3 DEF Holds
  <2>2. QED
    BY <1>2, <1>4, <2>1, CallStep, Zenon DEF Step
<1>6. TypeOK'
  BY <1>2, <1>5 DEF IInv, TypeOK
<1>7. PeakOK'
  BY <1>2 DEF IInv, PeakOK
<1>8. \A u \in UserID : LevelUpsPublished(u)' = LevelUpsPublished(u)
  BY <1>2, <1>3 DEF LevelUpsPublished
<1>9. LevelsEarned'
  BY Zenon, <1>2, <1>8 DEF IInv, LevelsEarned
<1>10. \A u \in UserID : LevelUpsDue(u) \subseteq LevelUpsDue(u)'
  BY Zenon, <1>2, DueStays DEF IInv, Step
<1>11. StoredLevelDue'
  BY Zenon, <1>2, <1>10 DEF IInv, StoredLevelDue
<1>12. TotalCovered'
  <2> SUFFICES ASSUME NEW u \in UserID, Scored(u)', u \notin missed
               PROVE  \/ \E k \in Clients : Evaluating(k, u)'
                      \/ \E e \in LevelUpsDue(u)' : e.level >= DefaultLevel(points[u][XP])
    BY <1>2 DEF TotalCovered
  <2>1. CASE ev.user = u /\ ev.metric = XP
    BY <2>1, <1>5 DEF Evaluating
  <2>2. CASE ~(ev.user = u /\ ev.metric = XP)
    <3>1. Scored(u)
      BY Zenon, <2>2, <1>2 DEF Scored
    <3>2. CASE \E k \in Clients : Evaluating(k, u)
      BY <3>2, <2>2, <1>1, <1>5 DEF Evaluating
    <3>3. CASE \E e \in LevelUpsDue(u) : e.level >= DefaultLevel(points[u][XP])
      BY <3>3, <1>10
    <3>4. QED
      BY Zenon, <3>1, <3>2, <3>3 DEF IInv, TotalCovered
  <2>3. QED
    BY Zenon, <2>1, <2>2
<1>13. OneRecordPerUser'
  BY <1>2 DEF IInv, OneRecordPerUser
<1>14. AnnouncedBadgeHeld'
  BY Zenon, <1>2, <1>3 DEF IInv, AnnouncedBadgeHeld
<1>15. QED
  BY <1>5, <1>6, <1>7, <1>9, <1>11, <1>12, <1>13, <1>14 DEF IInv

(* The read of the state and the evaluation of the rules keep the          *)
(* invariant: after it the level of the current total is due, because the  *)
(* rule has just emitted it or because a level at least as high is stored. *)
LEMMA ReadAndEvaluateStep ==
  ASSUME IInv, NEW c \in Clients, ReadAndEvaluate(c)
  PROVE  IInv'
<1> USE CoreAssumption, MaxIntAssumption, ServiceAssumption
<1>1. PICK ev \in Event : ev = call[c].ev
  BY DEF IInv, TypeOK
<1>2. PICK usr \in UserID : usr = ev.user
  BY DEF Event
<1>3. PICK lvl \in Nat : lvl = DefaultLevel(points[usr][XP])
  <2>1. points[usr][XP] \in Int
    BY DEF IInv, TypeOK, Int64, MinInt
  <2>2. QED
    BY <2>1, DefaultLevelPositive
<1>4. PICK up \in Event : up = NewLevelUp(usr, XP, lvl)
  BY EventTypes
<1>5. up.type = "level_up" /\ up.user = usr /\ up.metric = XP /\ up.level = lvl
  BY <1>4 DEF NewLevelUp
<1>6. PICK nul \in Event : nul = EmptyEvent(NoUser)
  BY EventTypes, ZenonT(30) DEF NoUser, UserID
<1>7. DEFINE xp == ev.type = "points_added" /\ ev.metric = XP
<1>8. /\ call[c].pc \in {"read", "evaluate"}
      /\ UNCHANGED <<points, levels, badges, published, peak, calls>>
      /\ missed' = IF xp THEN missed \ {usr} ELSE missed
  BY Zenon, <1>1, <1>2 DEF ReadAndEvaluate, store
<1>9. \/ Goto(c, "idle", nul) /\ (xp => lvl <= levels[usr][XP])
      \/ Goto(c, "setlevel", up) /\ xp
  <2>1. Evaluate(usr, points[usr][XP], levels[usr][XP], ev) =
          IF xp /\ lvl > levels[usr][XP] THEN {up} ELSE {}
    BY <1>3, <1>4 DEF Evaluate
  <2>2. levels[usr][XP] \in Nat
    BY DEF IInv, TypeOK
  <2>3. \/ Evaluate(usr, points[usr][XP], levels[usr][XP], ev) = {} /\ Return(c)
        \/ \E d \in Evaluate(usr, points[usr][XP], levels[usr][XP], ev) : Goto(c, "setlevel", d)
    BY Zenon, <1>1, <1>2 DEF ReadAndEvaluate
  <2>4. Return(c) => Goto(c, "idle", nul)
    BY Zenon, <1>6 DEF Return, Goto, IdleCall
  <2>5. ~(lvl > levels[usr][XP]) => lvl <= levels[usr][XP]
    BY <2>2
  <2> HIDE DEF xp
  <2>6. CASE xp /\ lvl > levels[usr][XP]
    <3>1. Evaluate(usr, points[usr][XP], levels[usr][XP], ev) = {up}
      BY Zenon, <2>1, <2>6
    <3> QED BY Zenon, <2>3, <2>6, <3>1
  <2>7. CASE ~(xp /\ lvl > levels[usr][XP])
    <3>1. Evaluate(usr, points[usr][XP], levels[usr][XP], ev) = {}
      BY Zenon, <2>1, <2>7
    <3> QED BY Zenon, <2>3, <2>4, <2>5, <2>7, <3>1
  <2>8. QED
    BY Zenon, <2>6, <2>7
<1>10. PICK pc \in Step, nev \in Event :
         /\ Goto(c, pc, nev)
         /\ \/ pc = "idle" /\ nev = nul /\ (xp => lvl <= levels[usr][XP])
            \/ pc = "setlevel" /\ nev = up /\ xp
  BY <1>9 DEF Step
<1>11. /\ xp => call[c].pc = "read" /\ Canonical(usr)
       /\ call[c].pc = "read" /\ ev.metric = XP => xp
  BY <1>1, <1>2, <1>8 DEF IInv, CallOK, Holds, None
<1>12. /\ peak' \in [UserID -> Nat]
       /\ \A u \in UserID : DefaultLevel(peak[u]) <= DefaultLevel(peak'[u])
  BY Zenon, <1>8, PeakSame DEF IInv
<1>13. Holds(pc, nev)'
  <2>1. CASE pc = "idle"
    BY Zenon, <2>1 DEF Holds
  <2>2. CASE pc = "setlevel" /\ nev = up /\ xp
    <3>1. points[usr][XP] \in Int /\ peak[usr] \in Int /\ points[usr][XP] <= peak[usr]
      BY DEF IInv, TypeOK, PeakOK, Int64, MinInt
    <3>2. lvl <= DefaultLevel(peak[usr])
      BY Zenon, <3>1, <1>3, DefaultLevelMonotone
    <3>3. QED
      BY <2>2, <3>2, <1>5, <1>8, <1>11 DEF Holds
  <2>3. QED
    BY Zenon, <2>1, <2>2, <1>10
<1>14. /\ call'[c] = [pc |-> pc, ev |-> nev]
       /\ \A k \in Clients : k # c => call'[k] = call[k]
       /\ call' \in [Clients -> [pc : Step, ev : Event]]
       /\ CallOK'
  BY Zenon, <1>8, <1>10, <1>12, <1>13, CallStep
<1>15. TypeOK'
  BY <1>8, <1>14 DEF IInv, TypeOK
<1>16. PeakOK' /\ LevelsEarned' /\ OneRecordPerUser' /\ AnnouncedBadgeHeld'
  BY <1>8, StoreSame
<1>17. \A u \in UserID : LevelUpsDue(u) \subseteq LevelUpsDue(u)'
  BY Zenon, <1>8, <1>10, DueStays DEF IInv
<1>18. StoredLevelDue'
  BY Zenon, <1>8, <1>17 DEF IInv, StoredLevelDue
<1>19. TotalCovered'
  <2> SUFFICES ASSUME NEW u \in UserID, Scored(u), u \notin missed'
               PROVE  \/ \E k \in Clients : Evaluating(k, u)'
                      \/ \E e \in LevelUpsDue(u)' : e.level >= DefaultLevel(points[u][XP])
    BY Zenon, <1>8 DEF TotalCovered, Scored
  <2>1. CASE u = usr /\ xp
    <3>1. CASE pc = "setlevel" /\ nev = up
      <4>1. up \in LevelUpsDue(usr)'
        BY SMTT(30), <3>1, <1>5, <1>14 DEF LevelUpsDue
      <4>2. QED
        BY <2>1, <4>1, <1>3, <1>5
    <3>2. CASE pc = "idle" /\ lvl <= levels[usr][XP]
      <4>1. lvl >= 1 /\ levels[usr][XP] \in Nat
        <5>1. points[usr][XP] \in Int
          BY DEF IInv, TypeOK, Int64, MinInt
        <5>2. QED
          BY <5>1, <1>3, DefaultLevelPositive DEF IInv, TypeOK
      <4>2. PICK e \in LevelUpsDue(usr) : e.level = levels[usr][XP]
        BY <4>1, <3>2 DEF IInv, StoredLevelDue
      <4>3. QED
        BY Zenon, <2>1, <3>2, <4>1, <4>2, <1>3, <1>17
    <3>3. QED
      BY Zenon, <2>1, <3>1, <3>2, <1>10
  <2>2. CASE ~(u = usr /\ xp)
    <3>1. u \notin missed
      BY Zenon, <2>2, <1>8
    <3>2. CASE \E k \in Clients : Evaluating(k, u)
      <4>1. PICK k \in Clients : Evaluating(k, u)
        BY Zenon, <3>2
      <4>2. k # c
        BY Zenon, <2>2, <4>1, <1>1, <1>2, <1>8, <1>11 DEF Evaluating
      <4>3. QED
        BY Zenon, <4>1, <4>2, <1>14 DEF Evaluating
    <3>3. CASE \E e \in LevelUpsDue(u) : e.level >= DefaultLevel(points[u][XP])
      BY Zenon, <3>3, <1>17
    <3>4. QED
      BY Zenon, <3>1, <3>2, <3>3 DEF IInv, TotalCovered
  <2>3. QED
    BY Zenon, <2>1, <2>2
<1>20. QED
  BY <1>14, <1>15, <1>16, <1>18, <1>19 DEF IInv

(* A failed read keeps the invariant: the user is then one whose total the *)
(* rules have missed.                                                      *)
LEMMA ReadFailsStep ==
  ASSUME IInv, NEW c \in Clients, ReadFails(c)
  PROVE  IInv'
<1> USE CoreAssumption, MaxIntAssumption, ServiceAssumption
<1>1. PICK ev \in Event : ev = call[c].ev
  BY DEF IInv, TypeOK
<1>2. PICK nul \in Event : nul = EmptyEvent(NoUser)
  BY EventTypes, Zenon DEF NoUser, UserID
<1>3. DEFINE xp == ev.type = "points_added" /\ ev.metric = XP
<1>4. /\ call[c].pc \in {"read", "evaluate"}
      /\ Goto(c, "idle", nul)
      /\ UNCHANGED <<points, levels, badges, published, peak, calls>>
      /\ missed' = IF xp THEN missed \cup {ev.user} ELSE missed
  BY Zenon, <1>1, <1>2 DEF ReadFails, store, Return, Goto, IdleCall
<1>5. call[c].pc = "read" /\ ev.metric = XP => xp
  BY Zenon, <1>1 DEF IInv, CallOK, Holds
<1>6. /\ peak' \in [UserID -> Nat]
      /\ \A u \in UserID : DefaultLevel(peak[u]) <= DefaultLevel(peak'[u])
  BY <1>4, PeakSame DEF IInv
<1>7. /\ call'[c] = [pc |-> "idle", ev |-> nul]
      /\ \A k \in Clients : k # c => call'[k] = call[k]
      /\ call' \in [Clients -> [pc : Step, ev : Event]]
      /\ CallOK'
  <2>1. Holds("idle", nul)'
    BY Zenon DEF Holds
  <2>2. QED
    BY <2>1, <1>4, <1>6, CallStep, Zenon DEF Step
<1>8. TypeOK'
  BY <1>4, <1>7 DEF IInv, TypeOK, Event
<1>9. PeakOK' /\ LevelsEarned' /\ OneRecordPerUser' /\ AnnouncedBadgeHeld'
  BY Zenon, <1>4, StoreSame
<1>10. \A u \in UserID : LevelUpsDue(u) \subseteq LevelUpsDue(u)'
  BY Zenon, <1>4, DueStays DEF IInv, Step
<1>11. StoredLevelDue'
  BY <1>4, <1>10 DEF IInv, StoredLevelDue
<1>12. TotalCovered'
  <2> SUFFICES ASSUME NEW u \in UserID, Scored(u), u \notin missed'
               PROVE  \/ \E k \in Clients : Evaluating(k, u)'
                      \/ \E e \in LevelUpsDue(u)' : e.level >= DefaultLevel(points[u][XP])
    BY Zenon, <1>4 DEF TotalCovered, Scored
  <2>1. u \notin missed
    BY ZenonT(40), <1>4
  <2>2. CASE \E k \in Clients : Evaluating(k, u)
    <3>1. PICK k \in Clients : Evaluating(k, u)
      BY ZenonT(40), <2>2
    <3>2. k # c
      BY Zenon, <3>1, <1>1, <1>4, <1>5 DEF Evaluating
    <3>3. QED
      BY Zenon, <3>1, <3>2, <1>7 DEF Evaluating
  <2>3. CASE \E e \in LevelUpsDue(u) : e.level >= DefaultLevel(points[u][XP])
    BY <2>3, <1>10
  <2>4. QED
    BY Zenon, <2>1, <2>2, <2>3 DEF IInv, TotalCovered
<1>13. QED
  BY <1>7, <1>8, <1>9, <1>11, <1>12 DEF IInv

(* Storing the level keeps the invariant: the event with that level is     *)
(* still in the client's hands, so the stored level is due.                *)
LEMMA SetLevelStep ==
  ASSUME IInv, NEW c \in Clients, SetLevel(c)
  PROVE  IInv'
<1> USE CoreAssumption, MaxIntAssumption, ServiceAssumption
<1>1. PICK d \in Event : d = call[c].ev
  BY DEF IInv, TypeOK
<1>2. /\ call[c].pc = "setlevel"
      /\ \/ levels' = [levels EXCEPT ![d.user][d.metric] = d.level]
         \/ levels' = levels
      /\ Goto(c, "announce", d)
      /\ UNCHANGED <<points, badges, published, peak, missed, calls>>
  BY Zenon, <1>1 DEF SetLevel, RecordLevel
<1>3. /\ d.type = "level_up" /\ Canonical(d.user) /\ d.metric = XP
      /\ d.level <= DefaultLevel(peak[d.user])
      /\ d.user \in UserID /\ d.level \in Nat
  BY <1>1, <1>2 DEF IInv, CallOK, Holds, Event
<1>4. /\ levels' \in [UserID -> [Metrics -> Nat]]
      /\ \A u \in UserID, m \in Metrics :
           \/ levels'[u][m] = levels[u][m]
           \/ u = d.user /\ m = XP /\ levels'[u][m] = d.level
  <2>1. levels \in [UserID -> [Metrics -> Nat]]
    BY DEF IInv, TypeOK
  <2>2. CASE levels' = levels
    BY <2>1, <2>2
  <2>3. CASE levels' = [levels EXCEPT ![d.user][XP] = d.level]
    BY <2>1, <2>3, <1>3
  <2>4. QED
    BY <2>2, <2>3, <1>2, <1>3
<1>5. /\ peak' \in [UserID -> Nat]
      /\ \A u \in UserID : DefaultLevel(peak[u]) <= DefaultLevel(peak'[u])
  BY <1>2, PeakSame DEF IInv
<1>6. /\ call'[c] = [pc |-> "announce", ev |-> d]
      /\ \A k \in Clients : k # c => call'[k] = call[k]
      /\ call' \in [Clients -> [pc : Step, ev : Event]]
      /\ CallOK'
  <2>1. Holds("announce", d)'
    BY <1>2, <1>3 DEF Holds
  <2>2. QED
    BY <2>1, <1>2, <1>5, CallStep DEF Step
<1>7. TypeOK'
  BY <1>2, <1>4, <1>6 DEF IInv, TypeOK
<1>8. PeakOK' /\ AnnouncedBadgeHeld'
  BY <1>2 DEF IInv, PeakOK, AnnouncedBadgeHeld
<1>9. LevelsEarned'
  BY ZenonT(40), <1>2, <1>3, <1>4 DEF IInv, LevelsEarned, LevelUpsPublished
<1>10. \A u \in UserID : LevelUpsDue(u) \subseteq LevelUpsDue(u)'
  BY <1>1, <1>2, DueStays DEF IInv, Step
<1>11. StoredLevelDue'
  <2> SUFFICES ASSUME NEW u \in UserID, levels'[u][XP] > 0
               PROVE  \E e \in LevelUpsDue(u)' : e.level = levels'[u][XP]
    BY DEF StoredLevelDue
  <2>1. CASE levels'[u][XP] = levels[u][XP]
    BY <2>1, <1>10 DEF IInv, StoredLevelDue
  <2>2. CASE u = d.user /\ levels'[u][XP] = d.level
    <3>1. d \in LevelUpsDue(u)'
      BY <2>2, <1>6 DEF LevelUpsDue
    <3>2. QED
      BY <3>1, <2>2
  <2>3. QED
    BY <2>1, <2>2, <1>4
<1>12. TotalCovered'
  <2> SUFFICES ASSUME NEW u \in UserID, Scored(u), u \notin missed
               PROVE  \/ \E k \in Clients : Evaluating(k, u)'
                      \/ \E e \in LevelUpsDue(u)' : e.level >= DefaultLevel(points[u][XP])
    BY <1>2 DEF TotalCovered, Scored
  <2>1. \A k \in Clients : Evaluating(k, u) => Evaluating(k, u)'
    BY Zenon, <1>2, <1>6 DEF Evaluating
  <2>2. QED
    BY <2>1, <1>10 DEF IInv, TotalCovered
<1>13. OneRecordPerUser'
  BY <1>2, <1>3, <1>4, SMTT(30) DEF IInv, OneRecordPerUser, Canonical
<1>14. QED
  BY Zenon, <1>6, <1>7, <1>8, <1>9, <1>11, <1>12, <1>13 DEF IInv

(* Publishing the LevelUp or the BadgeAwarded event that a client holds    *)
(* keeps the invariant.                                                    *)
LEMMA PublishHeldStep ==
  ASSUME IInv, NEW c \in Clients, Announce(c) \/ PublishBadge(c)
  PROVE  IInv'
<1> USE CoreAssumption, MaxIntAssumption, ServiceAssumption
<1>1. PICK d \in Event : d = call[c].ev
  BY DEF IInv, TypeOK
<1>2. PICK nul \in Event : nul = EmptyEvent(NoUser)
  BY EventTypes, Zenon DEF NoUser, UserID
<1>3. /\ call[c].pc \in {"announce", "badge"}
      /\ published' = published \cup {d}
      /\ Goto(c, "idle", nul)
      /\ UNCHANGED <<points, levels, badges, peak, missed, calls>>
  BY Zenon, <1>1, <1>2 DEF Announce, PublishBadge, store, Return, Goto, IdleCall
<1>4. /\ d.type # "points_added"
      /\ d.type = "level_up" => d.level <= DefaultLevel(peak[d.user])
      /\ d.type = "badge_awarded" => d.badge \in badges[d.user]
      /\ call[c].pc = "announce" => d.type = "level_up"
  BY Zenon, <1>1, <1>3 DEF IInv, CallOK, Holds
<1>5. /\ peak' \in [UserID -> Nat]
      /\ \A u \in UserID : DefaultLevel(peak[u]) <= DefaultLevel(peak'[u])
  BY <1>3, PeakSame DEF IInv
<1>6. /\ call'[c] = [pc |-> "idle", ev |-> nul]
      /\ \A k \in Clients : k # c => call'[k] = call[k]
      /\ call' \in [Clients -> [pc : Step, ev : Event]]
      /\ CallOK'
  <2>1. Holds("idle", nul)'
    BY Zenon DEF Holds
  <2>2. QED
    BY <2>1, <1>3, <1>5, CallStep, Zenon DEF Step
<1>7. TypeOK'
  BY Zenon, <1>3, <1>6 DEF IInv, TypeOK
<1>8. PeakOK' /\ OneRecordPerUser' /\ AnnouncedBadgeHeld'
  BY <1>3, <1>4 DEF IInv, PeakOK, OneRecordPerUser, AnnouncedBadgeHeld
<1>9. LevelsEarned'
  BY Zenon, <1>3, <1>4 DEF IInv, LevelsEarned, LevelUpsPublished
<1>10. \A u \in UserID : LevelUpsDue(u) \subseteq LevelUpsDue(u)'
  BY Zenon, <1>1, <1>3, <1>4, DueStays DEF IInv, Step
<1>11. StoredLevelDue'
  BY <1>3, <1>10 DEF IInv, StoredLevelDue
<1>12. TotalCovered'
  <2> SUFFICES ASSUME NEW u \in UserID, Scored(u), u \notin missed
               PROVE  \/ \E k \in Clients : Evaluating(k, u)'
                      \/ \E e \in LevelUpsDue(u)' : e.level >= DefaultLevel(points[u][XP])
    BY Zenon, <1>3, <1>4 DEF TotalCovered, Scored
  <2>1. \A k \in Clients : Evaluating(k, u) => Evaluating(k, u)'
    BY Zenon, <1>3, <1>6 DEF Evaluating
  <2>2. QED
    BY Zenon, <2>1, <1>10 DEF IInv, TotalCovered
<1>13. QED
  BY Zenon, <1>6, <1>7, <1>8, <1>9, <1>11, <1>12 DEF IInv

(* AwardBadge up to Storage.AwardBadge keeps the invariant: badges are     *)
(* only ever added.                                                        *)
LEMMA AwardBadgeStep ==
  ASSUME IInv, NEW c \in Clients, NEW id \in UserID, NEW b,
         AwardBadge(c, id, b)
  PROVE  IInv'
<1> DEFINE user == NormalizeUserID(id)
<1> USE CoreAssumption, MaxIntAssumption, ServiceAssumption
<1>1. /\ user \in UserID /\ Canonical(user) /\ b \in Badges
      /\ badges' = [badges EXCEPT ![user] = @ \cup {b}]
      /\ UNCHANGED <<points, levels, published, peak, missed>>
      /\ call[c].pc = "idle"
      /\ calls' \in 0 .. MaxCalls
  BY NormalizeCanonical DEF AwardBadge, RecordBadge, ValidateBadgeID, StartCall, IInv, TypeOK
<1>2. PICK ev \in Event : ev = NewBadgeAwarded(user, b)
  BY <1>1, EventTypes
<1>3. ev.type = "badge_awarded" /\ ev.user = user /\ ev.badge = b
  BY <1>2 DEF NewBadgeAwarded
<1>4. /\ badges' \in [UserID -> SUBSET Badges]
      /\ \A u \in UserID : badges[u] \subseteq badges'[u]
      /\ \A u \in UserID : u # user => badges'[u] = badges[u]
      /\ b \in badges'[user]
  BY Zenon, <1>1 DEF IInv, TypeOK
<1>5. /\ peak' \in [UserID -> Nat]
      /\ \A u \in UserID : DefaultLevel(peak[u]) <= DefaultLevel(peak'[u])
  BY <1>1, PeakSame DEF IInv
<1>6. PICK pc \in Step, nev \in Event :
        /\ Goto(c, pc, nev)
        /\ \/ pc = "badge" /\ nev = ev
           \/ pc = "idle"
  <2>1. CASE Goto(c, "badge", NewBadgeAwarded(user, b))
    BY ZenonT(40), <2>1, <1>2 DEF Step
  <2>2. CASE call' = call
    <3>1. call[c].ev \in Event /\ call[c] = [pc |-> "idle", ev |-> call[c].ev]
      BY Zenon, <1>1 DEF IInv, TypeOK
    <3>2. Goto(c, "idle", call[c].ev)
      BY Zenon, <2>2, <3>1 DEF Goto, IInv, TypeOK
    <3>3. QED
      BY <3>1, <3>2 DEF Step
  <2>3. QED
    BY <2>1, <2>2 DEF AwardBadge, RecordBadge
<1>7. /\ call'[c] = [pc |-> pc, ev |-> nev]
      /\ \A k \in Clients : k # c => call'[k] = call[k]
      /\ call' \in [Clients -> [pc : Step, ev : Event]]
      /\ CallOK'
  <2>1. Holds(pc, nev)'
    BY Zenon, <1>3, <1>4, <1>6 DEF Holds
  <2>2. QED
    BY ZenonT(40), <2>1, <1>4, <1>5, <1>6, CallStep
<1>8. TypeOK'
  BY Zenon, <1>1, <1>4, <1>7 DEF IInv, TypeOK
<1>9. PeakOK' /\ LevelsEarned'
  BY Zenon, <1>1 DEF IInv, PeakOK, LevelsEarned, LevelUpsPublished
<1>10. \A u \in UserID : LevelUpsDue(u) \subseteq LevelUpsDue(u)'
  BY ZenonT(40), <1>1, <1>6, DueStays DEF IInv
<1>11. StoredLevelDue'
  BY <1>1, <1>10 DEF IInv, StoredLevelDue
<1>12. TotalCovered'
  <2> SUFFICES ASSUME NEW u \in UserID, Scored(u), u \notin missed
               PROVE  \/ \E k \in Clients : Evaluating(k, u)'
                      \/ \E e \in LevelUpsDue(u)' : e.level >= DefaultLevel(points[u][XP])
    BY Zenon, <1>1 DEF TotalCovered, Scored
  <2>1. \A k \in Clients : Evaluating(k, u) => Evaluating(k, u)'
    BY Zenon, <1>1, <1>7 DEF Evaluating
  <2>2. QED
    BY Zenon, <2>1, <1>10 DEF IInv, TotalCovered
<1>13. OneRecordPerUser'
  <2> SUFFICES ASSUME NEW u \in UserID, ~(u.plain /\ ValidUserID(u))
               PROVE  badges'[u] = {} /\ \A m \in Metrics : points'[u][m] = 0 /\ levels'[u][m] = 0
    BY Zenon DEF OneRecordPerUser
  <2>1. u # user
    BY Zenon, <1>1 DEF Canonical
  <2>2. points' = points /\ levels' = levels /\ badges'[u] = badges[u]
    BY Zenon, <1>1, <1>4, <2>1
  <2>3. QED
    BY Zenon, <2>2 DEF IInv, OneRecordPerUser
<1>14. AnnouncedBadgeHeld'
  BY <1>1, <1>4, SMTT(30) DEF IInv, TypeOK, AnnouncedBadgeHeld, Event
<1>15. QED
  BY Zenon, <1>7, <1>8, <1>9, <1>11, <1>12, <1>13, <1>14 DEF IInv

(* Starting EvaluateRules keeps the invariant.                             *)
LEMMA EvaluateRulesStep ==
  ASSUME IInv, NEW c \in Clients, NEW id \in UserID, EvaluateRules(c, id)
  PROVE  IInv'
<1> USE CoreAssumption, MaxIntAssumption, ServiceAssumption
<1>1. PICK ev \in Event : ev = EmptyEvent(id)
  BY Zenon, EventTypes
<1>2. /\ Goto(c, "evaluate", ev)
      /\ ev.type = None
      /\ UNCHANGED <<points, levels, badges, published, peak, missed>>
      /\ call[c].pc = "idle"
      /\ calls' \in 0 .. MaxCalls
  BY <1>1, SMTT(30) DEF EvaluateRules, EmptyEvent, StartCall, store, IInv, TypeOK
<1>3. /\ peak' \in [UserID -> Nat]
      /\ \A u \in UserID : DefaultLevel(peak[u]) <= DefaultLevel(peak'[u])
  BY <1>2, PeakSame, SMTT(30) DEF IInv
<1>4. /\ call'[c] = [pc |-> "evaluate", ev |-> ev]
      /\ \A k \in Clients : k # c => call'[k] = call[k]
      /\ call' \in [Clients -> [pc : Step, ev : Event]]
      /\ CallOK'
  <2>1. Holds("evaluate", ev)'
    BY Zenon, <1>2 DEF Holds
  <2>2. QED
    BY <2>1, <1>2, <1>3, CallStep, Zenon DEF Step
<1>5. TypeOK'
  BY <1>2, <1>4, SMTT(30) DEF IInv, TypeOK
<1>6. PeakOK' /\ LevelsEarned' /\ OneRecordPerUser' /\ AnnouncedBadgeHeld'
  BY <1>2, StoreSame, ZenonT(30)
<1>7. \A u \in UserID : LevelUpsDue(u) \subseteq LevelUpsDue(u)'
  BY ZenonT(40), <1>2, DueStays DEF IInv, Step
<1>8. StoredLevelDue'
  BY Zenon, <1>2, <1>7 DEF IInv, StoredLevelDue
<1>9. TotalCovered'
  <2> SUFFICES ASSUME NEW u \in UserID, Scored(u), u \notin missed
               PROVE  \/ \E k \in Clients : Evaluating(k, u)'
                      \/ \E e \in LevelUpsDue(u)' : e.level >= DefaultLevel(points[u][XP])
    BY Zenon, <1>2 DEF TotalCovered, Scored
  <2>1. \A k \in Clients : Evaluating(k, u) => Evaluating(k, u)'
    BY <1>2, <1>4 DEF Evaluating
  <2>2. QED
    BY Zenon, <2>1, <1>7 DEF IInv, TotalCovered
<1>10. QED
  BY Zenon, <1>4, <1>5, <1>6, <1>8, <1>9 DEF IInv

(* Every step of the service keeps the invariant.                          *)
LEMMA NextIInv == IInv /\ [Next]_vars => IInv'
<1> SUFFICES ASSUME IInv, [Next]_vars PROVE IInv'
  BY Zenon
<1>1. CASE UNCHANGED vars
  BY <1>1, RefusedStep DEF vars, IInv, TypeOK
<1>2. CASE Next
  <2>1. PICK c \in Clients :
          \/ Advance(c)
          \/ \E id \in UserID :
               \/ \E m \in Metrics, d \in Deltas :
                    AddPoints(c, id, m, d) \/ AddPointsFails(c, id, m, d)
               \/ \E d \in Deltas \cup {0} : AddPointsRejected(c, id, d)
               \/ \E b \in Badges \cup {BadBadge} :
                    AwardBadge(c, id, b) \/ AwardBadgeRejected(c, id, b)
               \/ EvaluateRules(c, id)
    BY <1>2 DEF Next
  <2>2. CASE Advance(c)
    BY <2>2, PublishPointsStep, ReadAndEvaluateStep, ReadFailsStep,
       SetLevelStep, PublishHeldStep DEF Advance
  <2>3. ASSUME NEW id \in UserID, NEW m \in Metrics, NEW d \in Deltas,
               AddPoints(c, id, m, d) \/ AddPointsFails(c, id, m, d)
        PROVE  IInv'
    BY <2>3, AddPointsStep, AddPointsFailsStep
  <2>4. ASSUME NEW id \in UserID, NEW x,
               AddPointsRejected(c, id, x) \/ AwardBadgeRejected(c, id, x)
        PROVE  IInv'
    <3>1. /\ UNCHANGED <<points, levels, badges, call, published, peak, missed>>
          /\ calls' \in 0 .. MaxCalls
      BY <2>4, ServiceAssumption DEF AddPointsRejected, AwardBadgeRejected,
         StartCall, store, IInv, TypeOK
    <3>2. QED
      BY <3>1, RefusedStep
  <2>5. ASSUME NEW id \in UserID, NEW b, AwardBadge(c, id, b)
        PROVE  IInv'
    BY <2>5, AwardBadgeStep
  <2>6. ASSUME NEW id \in UserID, EvaluateRules(c, id)
        PROVE  IInv'
    BY <2>6, EvaluateRulesStep
  <2>7. QED
    BY Zenon, <2>1, <2>2, <2>3, <2>4, <2>5, <2>6
<1>3. QED
  BY <1>1, <1>2

-----------------------------------------------------------------------------
(* The theorems                                                            *)

(* The state of the service keeps its type: in particular every total      *)
(* stays in the range of an int64.                                         *)
THEOREM TypeCorrect == Spec => []TypeOK
<1>1. IInv => TypeOK
  BY DEF IInv
<1>2. QED
  BY <1>1, InitIInv, NextIInv, PTL DEF Spec

(* No level is stored or announced that the user's total never reached.    *)
THEOREM LevelsAreEarned == Spec => []LevelsEarned
<1>1. IInv => LevelsEarned
  BY DEF IInv
<1>2. QED
  BY <1>1, InitIInv, NextIInv, PTL DEF Spec

(* When no call is running for a user, the level of the user's total has   *)
(* been announced, however the calls were interleaved.                     *)
THEOREM LevelUpsAreNotLost == Spec => []NoLevelUpLost
<1>1. IInv => NoLevelUpLost
  <2> SUFFICES ASSUME IInv, NEW u \in UserID,
                      AtRest(u), Scored(u), u \notin missed
               PROVE  \E e \in LevelUpsPublished(u) :
                         e.level >= DefaultLevel(points[u][XP])
    BY DEF NoLevelUpLost
  <2>1. LevelUpsDue(u) = LevelUpsPublished(u)
    BY DEF LevelUpsDue, AtRest
  <2>2. \A c \in Clients : ~Evaluating(c, u)
    BY DEF Evaluating, AtRest
  <2>3. QED
    BY <2>1, <2>2 DEF IInv, TotalCovered
<1>2. QED
  BY <1>1, InitIInv, NextIInv, PTL DEF Spec

(* When no call is running for a user, the stored level is an announced    *)
(* one.                                                                    *)
THEOREM StoredLevelsAreAnnounced == Spec => []StoredLevelAnnounced
<1>1. IInv => StoredLevelAnnounced
  <2> SUFFICES ASSUME IInv, NEW u \in UserID, AtRest(u), levels[u][XP] > 0
               PROVE  \E e \in LevelUpsPublished(u) : e.level = levels[u][XP]
    BY DEF StoredLevelAnnounced
  <2>1. LevelUpsDue(u) = LevelUpsPublished(u)
    BY DEF LevelUpsDue, AtRest
  <2>2. QED
    BY <2>1 DEF IInv, StoredLevelDue
<1>2. QED
  BY <1>1, InitIInv, NextIInv, PTL DEF Spec

(* Only normalized ids ever hold points, levels or badges.                 *)
THEOREM RecordsAreNormalized == Spec => []OneRecordPerUser
<1>1. IInv => OneRecordPerUser
  BY DEF IInv
<1>2. QED
  BY <1>1, InitIInv, NextIInv, PTL DEF Spec

(* Every announced badge is held.                                          *)
THEOREM AnnouncedBadgesAreHeld == Spec => []AnnouncedBadgeHeld
<1>1. IInv => AnnouncedBadgeHeld
  BY DEF IInv
<1>2. QED
  BY <1>1, InitIInv, NextIInv, PTL DEF Spec

-----------------------------------------------------------------------------
(* Calls that do not overlap                                               *)

LevelPending(c, u) ==
  Evaluating(c, u) \/ (call[c].pc = "setlevel" /\ call[c].ev.user = u)

(* While storage works and calls are serial, the level about to be stored  *)
(* is the level of the total, and a stored level that is too low is about  *)
(* to be replaced.                                                         *)
LevelToStore ==
  \A c \in Clients :
    call[c].pc = "setlevel" => call[c].ev.level = DefaultLevel(points[call[c].ev.user][XP])

LevelStored ==
  \A u \in UserID :
    Scored(u) => \/ levels[u][XP] >= DefaultLevel(points[u][XP])
                 \/ \E c \in Clients : LevelPending(c, u)

SerialInv == ~faults => LevelToStore /\ LevelStored

(* A step that touches no total and no level, and starts or ends no level, *)
(* keeps the serial invariant.                                             *)
LEMMA SerialSame ==
  ASSUME LevelToStore, LevelStored, UNCHANGED <<points, levels>>,
         \A u \in UserID : Scored(u)' => Scored(u),
         \A k \in Clients : call'[k].pc = "setlevel" => call'[k] = call[k],
         \A k \in Clients, u \in UserID : LevelPending(k, u) => LevelPending(k, u)'
  PROVE  LevelToStore' /\ LevelStored'
<1>1. LevelToStore'
  BY Zenon DEF LevelToStore
<1>2. LevelStored'
  BY Zenon DEF LevelStored
<1> QED BY Zenon, <1>1, <1>2

(* Each step of a service whose calls do not overlap keeps it.             *)
LEMMA SerialNext ==
  ASSUME IInv, SerialInv, OneAtATime', [Next]_vars
  PROVE  SerialInv'
<1> SUFFICES ASSUME ~faults' PROVE LevelToStore' /\ LevelStored'
  BY DEF SerialInv
<1> USE CoreAssumption, MaxIntAssumption, ServiceAssumption
<1>1. ~faults /\ LevelToStore /\ LevelStored /\ TypeOK /\ CallOK
  <2>1. faults' = faults
    <3>1. ASSUME NEW c \in Clients, Advance(c) PROVE faults' = faults
      BY Zenon, <3>1 DEF Advance, PublishPoints, ReadAndEvaluate, ReadFails, SetLevel, Announce,
                  PublishBadge
    <3>2. ASSUME NEW c \in Clients, StartCall(c) PROVE faults' = faults
      BY Zenon, <3>2 DEF StartCall
    <3>3. ASSUME NEW c \in Clients, NEW id, NEW m, NEW d,
                 AddPoints(c, id, m, d) \/ AddPointsFails(c, id, m, d)
          PROVE  faults' = faults
      BY Zenon, <3>2, <3>3 DEF AddPoints, AddPointsFails
    <3>4. ASSUME NEW c \in Clients, NEW id, NEW d, AddPointsRejected(c, id, d) PROVE faults' = faults
      BY Zenon, <3>2, <3>4 DEF AddPointsRejected
    <3>5. ASSUME NEW c \in Clients, NEW id, NEW b,
                 AwardBadge(c, id, b) \/ AwardBadgeRejected(c, id, b)
          PROVE  faults' = faults
      BY Zenon, <3>2, <3>5 DEF AwardBadge, AwardBadgeRejected
    <3>6. ASSUME NEW c \in Clients, NEW id, EvaluateRules(c, id) PROVE faults' = faults
      BY Zenon, <3>2, <3>6 DEF EvaluateRules
    <3>7. CASE UNCHANGED vars
      BY Zenon, <3>7 DEF vars
    <3> QED BY Zenon, <3>1, <3>3, <3>4, <3>5, <3>6, <3>7 DEF Next
  <2> QED BY Zenon, <2>1 DEF SerialInv, IInv
<1> DEFINE Kept(c, pc, ev) ==
             /\ call'[c] = [pc |-> pc, ev |-> ev]
             /\ \A k \in Clients : k # c => call'[k] = call[k]
<1>2. ASSUME NEW c \in Clients, NEW pc, NEW ev, Goto(c, pc, ev) PROVE Kept(c, pc, ev)
  BY Zenon, <1>1, <1>2 DEF Goto, TypeOK
<1>3. ASSUME NEW c \in Clients, Return(c)
      PROVE  Kept(c, "idle", IdleCall.ev)
  BY <1>1, <1>3 DEF Return, TypeOK, IdleCall
<1>4. ASSUME NEW c \in Clients, PublishPoints(c) PROVE LevelToStore' /\ LevelStored'
  <2> DEFINE ev == call[c].ev
  <2>1. /\ call[c].pc = "publish" /\ published' = published \cup {ev}
        /\ UNCHANGED <<points, levels>>
        /\ Kept(c, "read", ev)
    BY Zenon, <1>2, <1>4 DEF PublishPoints, store
  <2>2. LevelToStore'
    BY SMTT(30), <1>1, <2>1 DEF LevelToStore
  <2>3. ASSUME NEW k \in Clients, NEW u \in UserID, LevelPending(k, u) PROVE LevelPending(k, u)'
    BY SMTT(30), <2>1, <2>3 DEF LevelPending, Evaluating
  <2>4. ASSUME NEW u \in UserID, Scored(u)', ~Scored(u) PROVE LevelPending(c, u)'
    BY SMTT(30), <2>1, <2>4 DEF Scored, LevelPending, Evaluating
  <2>5. LevelStored'
    BY ZenonT(40), <1>1, <2>1, <2>3, <2>4 DEF LevelStored
  <2> QED BY Zenon, <2>2, <2>5
<1>5. ASSUME NEW c \in Clients, ReadAndEvaluate(c) PROVE LevelToStore' /\ LevelStored'
  <2> DEFINE ev == call[c].ev
             w  == ev.user
             now == DefaultLevel(points[w][XP])
             up == NewLevelUp(w, XP, now)
  <2>1. /\ call[c].pc \in {"read", "evaluate"}
        /\ UNCHANGED <<points, levels, published>>
        /\ \/ Evaluate(w, points[w][XP], levels[w][XP], ev) = {} /\ Return(c)
           \/ \E e \in Evaluate(w, points[w][XP], levels[w][XP], ev) : Goto(c, "setlevel", e)
    BY ZenonT(40), <1>5 DEF ReadAndEvaluate, store
  <2>2. w \in UserID /\ now \in Nat /\ levels[w][XP] \in Nat
    <3>1. w \in UserID
      BY <1>1 DEF TypeOK, Event
    <3>2. points[w][XP] \in Int /\ levels[w][XP] \in Nat
      BY SMTT(30), <1>1, <3>1 DEF TypeOK, Int64, MinInt
    <3> QED BY <3>1, <3>2, DefaultLevelPositive
  <2>3. Evaluating(c, w) => ev.type = "points_added" /\ ev.metric = XP
    BY Zenon, <1>1 DEF CallOK, Holds, Evaluating
  <2>4. \A u \in UserID : Scored(u)' <=> Scored(u)
    BY Zenon, <2>1 DEF Scored
  <2> HIDE DEF ev, w, now
  <2>5. CASE Evaluate(w, points[w][XP], levels[w][XP], ev) = {} /\ Return(c)
    <3>1. Kept(c, "idle", IdleCall.ev)
      BY Zenon, <1>3, <2>5
    <3>2. Evaluating(c, w) => levels[w][XP] >= now
      <4>1. Evaluating(c, w) => ~(now > levels[w][XP])
        <5>1. {NewLevelUp(w, XP, DefaultLevel(points[w][XP]))} # {}
          OBVIOUS
        <5> QED BY Zenon, <2>3, <2>5, <5>1 DEF Evaluate, now
      <4>2. ~(now > levels[w][XP]) => levels[w][XP] >= now
        <5> DEFINE l == levels[w][XP]
        <5>1. now \in Nat /\ l \in Nat
          BY Zenon, <2>2
        <5> HIDE DEF l
        <5>2. ~(now > l) => l >= now
          BY <5>1
        <5> QED BY Zenon, <5>2 DEF l
      <4> QED BY Zenon, <4>1, <4>2
    <3>3. LevelToStore'
      BY SMTT(30), <1>1, <2>1, <3>1 DEF LevelToStore
    <3>4. ASSUME NEW u \in UserID, Scored(u)
          PROVE  levels[u][XP] >= DefaultLevel(points[u][XP]) \/ \E k \in Clients : LevelPending(k, u)'
      <4>1. ASSUME NEW k \in Clients, LevelPending(k, u), k # c PROVE LevelPending(k, u)'
        BY SMTT(30), <3>1, <4>1 DEF LevelPending, Evaluating
      <4>2. ASSUME LevelPending(c, u) PROVE u = w /\ Evaluating(c, w)
        BY ZenonT(40), <2>1, <4>2 DEF LevelPending, Evaluating, w, ev
      <4> QED BY Zenon, <1>1, <3>2, <3>4, <4>1, <4>2 DEF LevelStored, now
    <3> QED BY ZenonT(40), <2>1, <2>4, <3>3, <3>4 DEF LevelStored
  <2>6. CASE \E e \in Evaluate(w, points[w][XP], levels[w][XP], ev) : Goto(c, "setlevel", e)
    <3>1. Goto(c, "setlevel", up)
      BY Zenon, <2>6 DEF Evaluate, now
    <3>2. Kept(c, "setlevel", up)
      BY Zenon, <1>2, <3>1
    <3>3. up.user = w /\ up.level = now
      BY Zenon DEF NewLevelUp
    <3>4. LevelToStore'
      <4>1. ASSUME NEW k \in Clients, k # c PROVE call'[k] = call[k]
        BY Zenon, <3>2, <4>1
      <4>2. call'[c].ev.level = DefaultLevel(points'[call'[c].ev.user][XP])
        <5>1. call'[c].ev = up
          BY <3>2
        <5>2. points' = points
          BY Zenon, <2>1
        <5> QED BY Zenon, <3>3, <5>1, <5>2 DEF now
      <4> QED BY Zenon, <1>1, <2>1, <4>1, <4>2 DEF LevelToStore
    <3>5. ASSUME NEW u \in UserID, NEW k \in Clients, LevelPending(k, u) PROVE LevelPending(k, u)'
      <4>1. CASE k = c
        <5>1. u = w
          BY Zenon, <2>1, <3>5, <4>1 DEF LevelPending, Evaluating, w, ev
        <5> QED BY SMTT(30), <3>2, <3>3, <4>1, <5>1 DEF LevelPending
      <4>2. CASE k # c
        BY Zenon, <3>2, <3>5, <4>2 DEF LevelPending, Evaluating
      <4> QED BY Zenon, <4>1, <4>2
    <3> QED BY ZenonT(40), <1>1, <2>1, <2>4, <3>4, <3>5 DEF LevelStored
  <2> QED BY ZenonT(40), <2>1, <2>5, <2>6
<1>6. ASSUME NEW c \in Clients, SetLevel(c) PROVE LevelToStore' /\ LevelStored'
  <2> DEFINE d == call[c].ev
             w == d.user
  <2>1. /\ call[c].pc = "setlevel" /\ UNCHANGED <<points, published>>
        /\ levels' = [levels EXCEPT ![w][d.metric] = d.level]
        /\ Kept(c, "announce", d)
    BY SMTT(30), <1>1, <1>2, <1>6 DEF SetLevel, RecordLevel
  <2>2. w \in UserID /\ d.metric = XP /\ d.level = DefaultLevel(points[w][XP]) /\ d.level \in Nat
    BY ZenonT(40), <1>1, <2>1 DEF TypeOK, Event, CallOK, Holds, LevelToStore
  <2>3. /\ levels'[w][XP] = d.level
        /\ \A u \in UserID : u # w => levels'[u] = levels[u]
    BY Zenon, <1>1, <2>1, <2>2 DEF TypeOK
  <2>4. LevelToStore'
    BY SMTT(30), <1>1, <2>1 DEF LevelToStore
  <2>5. ASSUME NEW u \in UserID, Scored(u)', u # w
        PROVE  levels'[u][XP] >= DefaultLevel(points'[u][XP]) \/ \E k \in Clients : LevelPending(k, u)'
    <3>1. Scored(u)
      BY Zenon, <2>1, <2>5 DEF Scored
    <3>2. ASSUME NEW k \in Clients, LevelPending(k, u) PROVE LevelPending(k, u)'
      BY Zenon, <2>1, <2>5, <3>2 DEF LevelPending, Evaluating
    <3> QED BY Zenon, <1>1, <2>1, <2>3, <2>5, <3>1, <3>2 DEF LevelStored
  <2>6. levels'[w][XP] >= DefaultLevel(points'[w][XP])
    BY SMTT(40), <2>1, <2>2, <2>3
  <2> QED BY Zenon, <2>4, <2>5, <2>6 DEF LevelStored
<1>7. ASSUME NEW c \in Clients, Announce(c) \/ PublishBadge(c) PROVE LevelToStore' /\ LevelStored'
  <2>1. /\ call[c].pc \in {"announce", "badge"} /\ UNCHANGED <<points, levels>>
        /\ published' = published \cup {call[c].ev}
        /\ Kept(c, "idle", IdleCall.ev)
    BY Zenon, <1>3, <1>7 DEF Announce, PublishBadge, store
  <2>2. call[c].ev.type # "points_added"
    BY Zenon, <1>1, <2>1 DEF CallOK, Holds
  <2>3. \A u \in UserID : Scored(u)' => Scored(u)
    BY Zenon, <2>1, <2>2 DEF Scored
  <2>4. \A k \in Clients : call'[k].pc = "setlevel" => call'[k] = call[k]
    <3>1. call'[c] = [pc |-> "idle", ev |-> IdleCall.ev]
      BY Zenon, <2>1
    <3>2. call'[c].pc = "idle"
      BY <3>1
    <3> QED BY Zenon, <2>1, <3>2
  <2>5. \A k \in Clients, u \in UserID : LevelPending(k, u) => LevelPending(k, u)'
    BY Zenon, <2>1 DEF LevelPending, Evaluating
  <2> QED BY Zenon, <1>1, <2>1, <2>3, <2>4, <2>5, SerialSame
<1>8. ASSUME NEW c \in Clients, NEW id \in UserID, NEW m \in Metrics, NEW d \in Deltas,
             AddPoints(c, id, m, d)
      PROVE  LevelToStore' /\ LevelStored'
  <2> DEFINE w == NormalizeUserID(id)
             ev == NewPointsAdded(w, m, d, points[w][m] + d)
  <2>1. /\ points' = [points EXCEPT ![w][m] = points[w][m] + d]
        /\ UNCHANGED <<levels, published>>
        /\ Kept(c, "publish", ev)
        /\ call[c].pc = "idle"
    BY SMTT(30), <1>2, <1>8 DEF AddPoints, RecordPoints, StartCall
  <2>2. ev.user = w /\ ev.metric = m
    BY Zenon DEF NewPointsAdded
  <2> HIDE DEF ev
  <2>3. \A k \in Clients : k # c => call'[k] = call[k] /\ call[k].pc = "idle"
    BY <2>1 DEF OneAtATime
  <2>4. LevelToStore'
    BY <2>1, <2>3 DEF LevelToStore
  <2>5. ASSUME NEW u \in UserID, Scored(u)', ~(u = w /\ m = XP)
        PROVE  levels'[u][XP] >= DefaultLevel(points'[u][XP])
    <3>1. points'[u][XP] = points[u][XP]
      BY <1>1, <2>1, <2>5 DEF TypeOK
    <3>2. \A k \in Clients : ~LevelPending(k, u)
      BY Zenon, <2>1, <2>3 DEF LevelPending, Evaluating
    <3>3. Scored(u)
      BY Zenon, <2>1, <2>5 DEF Scored
    <3> QED BY Zenon, <1>1, <2>1, <3>1, <3>2, <3>3 DEF LevelStored
  <2>6. ASSUME m = XP PROVE LevelPending(c, w)'
    BY SMTT(30), <2>1, <2>2, <2>6 DEF LevelPending, Evaluating
  <2> QED BY Zenon, <2>4, <2>5, <2>6 DEF LevelStored
<1>9. ASSUME UNCHANGED <<points, levels, call, published>> PROVE LevelToStore' /\ LevelStored'
  BY ZenonT(40), <1>1, <1>9 DEF LevelToStore, LevelStored, LevelPending, Evaluating, Scored
<1>10. ASSUME NEW c \in Clients, NEW id \in UserID, NEW b,
              AwardBadge(c, id, b) \/ EvaluateRules(c, id)
       PROVE  LevelToStore' /\ LevelStored'
  <2>1. /\ call[c].pc = "idle" /\ UNCHANGED <<points, levels, published>>
        /\ \E pc \in {"badge", "evaluate"} : \E ev : Goto(c, pc, ev)
    BY <1>1, <1>10 DEF AwardBadge, EvaluateRules, StartCall, store
  <2> PICK pc \in {"badge", "evaluate"} : \E ev : Goto(c, pc, ev)
    BY <2>1
  <2> PICK ev : Goto(c, pc, ev)
    BY Zenon
  <2>2. Kept(c, pc, ev)
    BY Zenon, <1>2
  <2>3. \A u \in UserID : Scored(u)' => Scored(u)
    BY Zenon, <2>1 DEF Scored
  <2>4. \A k \in Clients : call'[k].pc = "setlevel" => call'[k] = call[k]
    BY SMTT(30), <2>2
  <2>5. \A k \in Clients, u \in UserID : LevelPending(k, u) => LevelPending(k, u)'
    BY <2>1, <2>2 DEF LevelPending, Evaluating
  <2> QED BY Zenon, <1>1, <2>1, <2>3, <2>4, <2>5, SerialSame
<1>11. CASE UNCHANGED vars
  BY Zenon, <1>9, <1>11 DEF vars
<1>12. ASSUME NEW c \in Clients, NEW id \in UserID, NEW m, NEW x,
              \/ AddPointsFails(c, id, m, x) \/ AddPointsRejected(c, id, x)
              \/ AwardBadgeRejected(c, id, x)
       PROVE  LevelToStore' /\ LevelStored'
  BY ZenonT(40), <1>1, <1>9, <1>12 DEF AddPointsFails, AddPointsRejected, AwardBadgeRejected, store
<1>13. ASSUME NEW c \in Clients, ReadFails(c) PROVE FALSE
  BY <1>1, <1>13 DEF ReadFails
<1> QED
  BY Zenon, <1>4, <1>5, <1>6, <1>7, <1>8, <1>10, <1>11, <1>12, <1>13 DEF Next, Advance

(* Calls that do not overlap keep the stored level current.                *)
THEOREM SerialLevelsAreCurrent == Spec => SerialLevelCurrent
<1>1. Init => SerialInv
  BY CoreAssumption DEF Init, SerialInv, LevelToStore, LevelStored, Scored, IdleCall
<1>2. IInv /\ SerialInv /\ OneAtATime /\ OneAtATime' /\ [Next]_vars => SerialInv'
  BY Zenon, SerialNext
<1>3. SerialInv => StoredLevelCurrent
  BY DEF SerialInv, LevelStored, LevelPending, Evaluating, StoredLevelCurrent, AtRest
<1> QED BY <1>1, <1>2, <1>3, InitIInv, NextIInv, PTL DEF Spec, SerialLevelCurrent
=============================================================================
