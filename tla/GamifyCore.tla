----------------------------- MODULE GamifyCore -----------------------------
(***************************************************************************)
(* The pure part of package core: the XP-to-level curve, user identifiers, *)
(* badge identifiers, events and LevelUpRule.                              *)
(***************************************************************************)
EXTENDS SafeInt, FiniteSets

CONSTANTS
  Names,     \* what is left of a user id once case and outer blanks are ignored
  Blank,     \* the name of an id that is empty or all blanks
  Metrics,   \* counter namespaces
  XP,        \* core.MetricXP, the metric of the default LevelUpRule
  Badges,    \* badge ids that pass ValidateBadgeID
  BadBadge   \* stands for the badge ids ValidateBadgeID refuses

ASSUME CoreAssumption ==
  /\ Blank \notin Names
  /\ XP \in Metrics
  /\ BadBadge \notin Badges

-----------------------------------------------------------------------------
(* floor(sqrt(xp) / 10) counts the thresholds 100 * k^2 that xp reaches.   *)
DefaultLevel(totalXP) ==
  IF totalXP <= 0
    THEN 1
    ELSE Cardinality({k \in 1 .. (totalXP \div 100) : 100 * k * k <= totalXP}) + 1

-----------------------------------------------------------------------------
(* A user id is a name plus whether it is written the way NormalizeUserID  *)
(* writes it: trimmed and in lower case.                                   *)

UserID == [name : Names \cup {Blank}, plain : BOOLEAN]

ValidUserID(id) == id.name # Blank

(* A bug: the id is checked but used as the caller wrote it.               *)
NormalizeNothing(id) == id

NormalizeUserID(id) == [name |-> id.name, plain |-> TRUE]

ValidateBadgeID(badge) == badge \in Badges

-----------------------------------------------------------------------------
(* An Event carries Go's zero value in every field its constructor leaves  *)
(* unset. Time and Metadata are read by no rule and are left out.          *)

EventType == {"points_added", "badge_awarded", "achievement_unlocked", "level_up"}

None == "none"

Event ==
  [type   : EventType \cup {None},
   user   : UserID,
   metric : Metrics \cup {None},
   delta  : Int,
   total  : Int,
   badge  : Badges \cup {None},
   level  : Nat]

NoUser == [name |-> Blank, plain |-> TRUE]

EmptyEvent(user) ==
  [type |-> None, user |-> user, metric |-> None, delta |-> 0, total |-> 0,
   badge |-> None, level |-> 0]

NewPointsAdded(user, metric, delta, total) ==
  [type |-> "points_added", user |-> user, metric |-> metric, delta |-> delta,
   total |-> total, badge |-> None, level |-> 0]

NewBadgeAwarded(user, badge) ==
  [type |-> "badge_awarded", user |-> user, metric |-> None, delta |-> 0,
   total |-> 0, badge |-> badge, level |-> 0]

NewLevelUp(user, metric, level) ==
  [type |-> "level_up", user |-> user, metric |-> metric, delta |-> 0,
   total |-> 0, badge |-> None, level |-> level]

(* A bug: the delta is counted again, though the total has it already.     *)
EvaluateCountsTwice(user, total, level, trigger) ==
  IF /\ trigger.type = "points_added"
     /\ trigger.metric = XP
     /\ DefaultLevel(total + trigger.delta) > level
    THEN {NewLevelUp(user, XP, DefaultLevel(total + trigger.delta))}
    ELSE {}

(* A bug: the rule looks at the total as it was before the addition.       *)
EvaluateTotalBefore(user, total, level, trigger) ==
  IF /\ trigger.type = "points_added"
     /\ trigger.metric = XP
     /\ DefaultLevel(total - trigger.delta) > level
    THEN {NewLevelUp(user, XP, DefaultLevel(total - trigger.delta))}
    ELSE {}

(* A bug: a gain of one level is not enough.                               *)
EvaluateSkipsOne(user, total, level, trigger) ==
  IF /\ trigger.type = "points_added"
     /\ trigger.metric = XP
     /\ DefaultLevel(total) > level + 1
    THEN {NewLevelUp(user, XP, DefaultLevel(total))}
    ELSE {}

(* LevelUpRule.Evaluate for the XP metric: the set of derived events, given *)
(* the total and the level (0 when absent) of the snapshot it is handed.    *)
Evaluate(user, total, level, trigger) ==
  IF /\ trigger.type = "points_added"
     /\ trigger.metric = XP
     /\ DefaultLevel(total) > level
    THEN {NewLevelUp(user, XP, DefaultLevel(total))}
    ELSE {}
=============================================================================
