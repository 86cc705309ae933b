---------------------------- MODULE GamifyService ----------------------------
(***************************************************************************)
(* engine.GamifyService called by several goroutines at once.  Every call  *)
(* the service makes on its Storage or its EventBus is one step, because   *)
(* the service holds no lock of its own between them: other calls, for the *)
(* same user, run in the gaps.  Each Storage operation is atomic, as in    *)
(* adapters/memory, where it runs under the user's mutex.  The Storage     *)
(* interface also lets every operation fail; with faults a failing call    *)
(* may or may not have taken effect first (adapters/jsonfile changes its   *)
(* map before the save that fails).                                        *)
(***************************************************************************)
EXTENDS GamifyCore

CONSTANTS
  Clients,   \* goroutines calling the service
  Deltas,    \* values of AddPoints' delta argument
  MaxCalls   \* bound: calls started over a behaviour

ASSUME ServiceAssumption ==
  /\ Deltas \subseteq Int
  /\ MaxCalls \in Nat

VARIABLES
  points,    \* UserState.Points: total per user and metric, 0 when absent
  levels,    \* UserState.Levels: level per user and metric, 0 when absent
  badges,    \* UserState.Badges
  faults,    \* whether Storage operations may fail for reasons of their own
  call,      \* per client: where it is, and the event it is working on
  published, \* history: the events these operations handed to EventBus.Publish
  peak,      \* history: the highest XP total a user ever had
  missed,    \* history: users whose XP total Storage failed to show to the rules
  calls      \* history: calls started, bounded by MaxCalls

store == <<points, levels, badges>>
vars  == <<points, levels, badges, faults, call, published, peak, missed, calls>>

(* What a client does next. "publish" and "read" belong to AddPoints,      *)
(* "badge" to AwardBadge, "evaluate" to EvaluateRules; "setlevel" and      *)
(* "announce" to the loop over the derived events.                         *)
Step == {"idle", "publish", "read", "badge", "evaluate", "setlevel", "announce"}

IdleCall == [pc |-> "idle", ev |-> EmptyEvent(NoUser)]

Goto(c, pc, ev) == call' = [call EXCEPT ![c] = [pc |-> pc, ev |-> ev]]

Return(c) == call' = [call EXCEPT ![c] = IdleCall]

StartCall(c) ==
  /\ call[c].pc = "idle"
  /\ calls < MaxCalls
  /\ calls' = calls + 1
  /\ UNCHANGED faults

Init ==
  /\ points = [u \in UserID |-> [m \in Metrics |-> 0]]
  /\ levels = [u \in UserID |-> [m \in Metrics |-> 0]]
  /\ badges = [u \in UserID |-> {}]
  /\ faults \in BOOLEAN
  /\ call = [c \in Clients |-> IdleCall]
  /\ published = {}
  /\ peak = [u \in UserID |-> 0]
  /\ missed = {}
  /\ calls = 0

-----------------------------------------------------------------------------
(* The writes of Storage                                                   *)

RecordPoints(user, metric, total) ==
  /\ points' = [points EXCEPT ![user][metric] = total]
  /\ peak' = IF metric = XP /\ total > peak[user]
               THEN [peak EXCEPT ![user] = total] ELSE peak

RecordBadge(user, badge) == badges' = [badges EXCEPT ![user] = @ \cup {badge}]

RecordLevel(user, metric, level) == levels' = [levels EXCEPT ![user][metric] = level]

-----------------------------------------------------------------------------
(* AddPoints, up to and including Storage.AddPoints                        *)

AddPoints(c, id, metric, delta) ==
  LET user  == NormalizeUserID(id)
      total == points[user][metric] + delta
  IN  /\ StartCall(c)
      /\ delta # 0
      /\ ValidUserID(id)
      /\ ~Overflows(points[user][metric], delta)
      /\ RecordPoints(user, metric, total)
      /\ Goto(c, "publish", NewPointsAdded(user, metric, delta, total))
      /\ UNCHANGED <<levels, badges, published, missed>>

(* Storage.AddPoints returns an error: an overflow, or a failed save. The   *)
(* call returns it, and neither publishes nor evaluates anything.           *)
AddPointsFails(c, id, metric, delta) ==
  LET user  == NormalizeUserID(id)
      total == points[user][metric] + delta
  IN  /\ StartCall(c)
      /\ delta # 0
      /\ ValidUserID(id)
      /\ \/ /\ Overflows(points[user][metric], delta) \/ faults
            /\ UNCHANGED <<points, peak, missed>>
         \/ /\ faults
            /\ ~Overflows(points[user][metric], delta)
            /\ RecordPoints(user, metric, total)
            /\ missed' = IF metric = XP THEN missed \cup {user} ELSE missed
      /\ UNCHANGED <<levels, badges, call, published>>

(* delta = 0 or an id that is blank: refused before the storage is reached. *)
AddPointsRejected(c, id, delta) ==
  /\ StartCall(c)
  /\ delta = 0 \/ ~ValidUserID(id)
  /\ UNCHANGED <<store, call, published, peak, missed>>

PublishPoints(c) ==
  /\ call[c].pc = "publish"
  /\ published' = published \cup {call[c].ev}
  /\ Goto(c, "read", call[c].ev)
  /\ UNCHANGED <<store, peak, missed, calls, faults>>

(* Storage.GetState and the rule evaluation on the snapshot it returns.    *)
ReadAndEvaluate(c) ==
  LET ev      == call[c].ev
      u       == ev.user
      derived == Evaluate(u, points[u][XP], levels[u][XP], ev)
  IN  /\ call[c].pc \in {"read", "evaluate"}
      /\ \/ /\ derived = {}
            /\ Return(c)
         \/ \E d \in derived : Goto(c, "setlevel", d)
      /\ missed' = IF ev.type = "points_added" /\ ev.metric = XP
                     THEN missed \ {u} ELSE missed
      /\ UNCHANGED <<store, published, peak, calls, faults>>

(* GetState fails: AddPoints returns its total and skips the rules, and     *)
(* EvaluateRules returns the error.                                         *)
ReadFails(c) ==
  LET ev == call[c].ev
  IN  /\ faults
      /\ call[c].pc \in {"read", "evaluate"}
      /\ missed' = IF ev.type = "points_added" /\ ev.metric = XP
                     THEN missed \cup {ev.user} ELSE missed
      /\ Return(c)
      /\ UNCHANGED <<store, published, peak, calls, faults>>

(* A bug: the call returns when SetLevel fails, before it announces.       *)
SetLevelErrorReturns(c) ==
  LET d == call[c].ev
  IN  /\ call[c].pc = "setlevel"
      /\ \/ /\ RecordLevel(d.user, d.metric, d.level)
            /\ Goto(c, "announce", d)
         \/ /\ faults
            /\ Return(c)
            /\ UNCHANGED levels
      /\ UNCHANGED <<points, badges, published, peak, missed, calls, faults>>

(* A bug: the level is added to the stored one.                            *)
SetLevelAdds(c) ==
  LET d == call[c].ev
  IN  /\ call[c].pc = "setlevel"
      /\ levels' = [levels EXCEPT ![d.user][d.metric] = @ + d.level]
      /\ Goto(c, "announce", d)
      /\ UNCHANGED <<points, badges, published, peak, missed, calls, faults>>

(* Storage.SetLevel, whose error is discarded.                             *)
SetLevel(c) ==
  LET d == call[c].ev
  IN  /\ call[c].pc = "setlevel"
      /\ \/ RecordLevel(d.user, d.metric, d.level)
         \/ faults /\ UNCHANGED levels
      /\ Goto(c, "announce", d)
      /\ UNCHANGED <<points, badges, published, peak, missed, calls, faults>>

Announce(c) ==
  /\ call[c].pc = "announce"
  /\ published' = published \cup {call[c].ev}
  /\ Return(c)
  /\ UNCHANGED <<store, peak, missed, calls, faults>>

-----------------------------------------------------------------------------
(* AwardBadge                                                              *)

(* A bug: the error of Storage.AwardBadge is discarded.                    *)
AwardBadgeErrorIgnored(c, id, badge) ==
  LET user == NormalizeUserID(id)
  IN  /\ StartCall(c)
      /\ ValidUserID(id)
      /\ ValidateBadgeID(badge)
      /\ \/ RecordBadge(user, badge)
         \/ faults /\ UNCHANGED badges
      /\ Goto(c, "badge", NewBadgeAwarded(user, badge))
      /\ UNCHANGED <<points, levels, published, peak, missed>>

AwardBadge(c, id, badge) ==
  LET user == NormalizeUserID(id)
  IN  /\ StartCall(c)
      /\ ValidUserID(id)
      /\ ValidateBadgeID(badge)
      /\ RecordBadge(user, badge)
      /\ \/ Goto(c, "badge", NewBadgeAwarded(user, badge))
         \/ faults /\ UNCHANGED call
      /\ UNCHANGED <<points, levels, published, peak, missed>>

AwardBadgeRejected(c, id, badge) ==
  /\ StartCall(c)
  /\ ~ValidUserID(id) \/ ~ValidateBadgeID(badge) \/ faults
  /\ UNCHANGED <<store, call, published, peak, missed>>

PublishBadge(c) ==
  /\ call[c].pc = "badge"
  /\ published' = published \cup {call[c].ev}
  /\ Return(c)
  /\ UNCHANGED <<store, peak, missed, calls, faults>>

-----------------------------------------------------------------------------
(* EvaluateRules hands the rules an event with no type, for the id exactly *)
(* as the caller wrote it.                                                 *)

EvaluateRules(c, id) ==
  /\ StartCall(c)
  /\ Goto(c, "evaluate", EmptyEvent(id))
  /\ UNCHANGED <<store, published, peak, missed>>

-----------------------------------------------------------------------------
Advance(c) ==
  \/ PublishPoints(c)
  \/ ReadAndEvaluate(c)
  \/ ReadFails(c)
  \/ SetLevel(c)
  \/ Announce(c)
  \/ PublishBadge(c)

Next ==
  \E c \in Clients :
    \/ Advance(c)
    \/ \E id \in UserID :
         \/ \E m \in Metrics, d \in Deltas :
              AddPoints(c, id, m, d) \/ AddPointsFails(c, id, m, d)
         \/ \E d \in Deltas \cup {0} : AddPointsRejected(c, id, d)
         \/ \E b \in Badges \cup {BadBadge} :
              AwardBadge(c, id, b) \/ AwardBadgeRejected(c, id, b)
         \/ EvaluateRules(c, id)

Spec == Init /\ [][Next]_vars

(* A goroutine that has started a call runs to its return.                 *)
FairSpec == Spec /\ \A c \in Clients : WF_vars(Advance(c))

-----------------------------------------------------------------------------
(* Properties                                                              *)

TypeOK ==
  /\ points \in [UserID -> [Metrics -> Int64]]
  /\ levels \in [UserID -> [Metrics -> Nat]]
  /\ badges \in [UserID -> SUBSET Badges]
  /\ call \in [Clients -> [pc : Step, ev : Event]]
  /\ published \subseteq Event
  /\ peak \in [UserID -> Nat]
  /\ missed \subseteq UserID
  /\ calls \in 0 .. MaxCalls

LevelUpsPublished(u) == {e \in published : e.type = "level_up" /\ e.user = u}

(* The LevelUp events of u that are published, or that a client holds and  *)
(* has still to publish.                                                   *)
LevelUpsDue(u) ==
  LevelUpsPublished(u) \cup
  {call[c].ev : c \in {k \in Clients : /\ call[k].pc \in {"setlevel", "announce"}
                                      /\ call[k].ev.user = u}}

Scored(u) ==
  \E e \in published : e.type = "points_added" /\ e.user = u /\ e.metric = XP

AtRest(u) == \A c \in Clients : call[c].pc # "idle" => call[c].ev.user # u

(* A level is never stored and never announced unless the user's XP total  *)
(* reached it at some time: a snapshot that is stale when AddPoints acts   *)
(* on it was still true once.                                              *)
LevelsEarned ==
  \A u \in UserID :
    /\ levels[u][XP] <= DefaultLevel(peak[u])
    /\ \A e \in LevelUpsPublished(u) : e.level <= DefaultLevel(peak[u])

(* Whatever the interleaving of AddPoints calls, once none is running for  *)
(* a user, a LevelUp at least as high as the level of that user's total    *)
(* has been published, unless Storage failed to show the rules that total  *)
(* (missed).                                                               *)
NoLevelUpLost ==
  \A u \in UserID :
    AtRest(u) /\ Scored(u) /\ u \notin missed =>
      \E e \in LevelUpsPublished(u) : e.level >= DefaultLevel(points[u][XP])

(* AddPoints stores a level before it announces it, and at rest every      *)
(* level in storage is one that was announced.                             *)
StoredLevelAnnounced ==
  \A u \in UserID :
    AtRest(u) /\ levels[u][XP] > 0 =>
      \E e \in LevelUpsPublished(u) : e.level = levels[u][XP]

(* What a user has is never split between two spellings of the id: points, *)
(* badges and levels, those of EvaluateRules included, are written under   *)
(* the normalized one.  Another spelling may at most leave an empty record *)
(* where it was read.                                                      *)
OneRecordPerUser ==
  \A u \in UserID :
    ~(u.plain /\ ValidUserID(u)) =>
      /\ badges[u] = {}
      /\ \A m \in Metrics : points[u][m] = 0 /\ levels[u][m] = 0

(* A BadgeAwarded event is never ahead of the storage: who receives one    *)
(* finds the badge in the user's state.                                    *)
AnnouncedBadgeHeld ==
  \A e \in published : e.type = "badge_awarded" => e.badge \in badges[e.user]

(* While storage works, the stored level is at rest no lower than the one   *)
(* the total gives.                                                         *)
StoredLevelCurrent ==
  \A u \in UserID :
    ~faults /\ AtRest(u) /\ Scored(u) => levels[u][XP] >= DefaultLevel(points[u][XP])

OneAtATime == \A c, k \in Clients : c # k => call[c].pc = "idle" \/ call[k].pc = "idle"

(* Calls that never overlap keep the stored level current.                  *)
SerialLevelCurrent == []OneAtATime => []StoredLevelCurrent

(* A level the XP total stays at or above from some time on is announced,   *)
(* unless storage keeps that total from the rules.                          *)
SustainedLevelAnnounced ==
  \A u \in {id \in UserID : id.plain /\ ValidUserID(id)}, l \in 1 .. 3 :
    <>[](Scored(u) /\ u \notin missed /\ DefaultLevel(points[u][XP]) >= l)
      => <>(\E e \in LevelUpsPublished(u) : e.level >= l)
=============================================================================
