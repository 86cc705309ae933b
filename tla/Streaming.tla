----------------------------- MODULE Streaming -----------------------------
(***************************************************************************)
(* analytics.StreamPublisher with its subscribers: the dashboard and       *)
(* WebSocket subscribers.  The bus calls the hook from several goroutines, *)
(* a dashboard request copies the recent events and then reads two sets of *)
(* counters, each under its own lock, and readers take what the publisher  *)
(* puts in their channel.                                                  *)
(***************************************************************************)
EXTENDS Metrics, Sums

CONSTANTS
  Workers,     \* goroutines that call OnEvent
  MaxRecent,   \* the dashboard's maxEvents
  Buffer,      \* bufferSize of a WebSocketSubscriber
  MaxSubs      \* bound: WebSocketSubscribers made

VARIABLES
  subscribers,  \* the map: an id's subscriber object
  work,         \* per worker: where OnEvent is, its event, whom it has to call
  recent,       \* the dashboard's recentEvents
  made,         \* WebSocketSubscribers made so far
  chan,         \* sendChan of each
  shut,         \* those whose closeChan is closed
  reader,       \* per WebSocketSubscriber: "reading" | "eof" | "cancelled"
  removed,      \* history: the ones an Unsubscribe took out of the map
  page          \* the dashboard request: its step and what it has read

publisherVars == <<metricsVars, subscribers, work, recent, made, chan, shut, reader, removed, page>>

streamVars == <<subscribers, recent, made, chan, shut, reader, removed>>

Dashboard == 0                      \* the DashboardManager
Sockets   == 1 .. MaxSubs           \* the WebSocketSubscribers
Idle      == [at |-> "idle"]
NoPage    == [at |-> "none"]

PublisherInit ==
  /\ MetricsInit
  /\ subscribers = ("dashboard" :> Dashboard)
  /\ work = [w \in Workers |-> Idle]
  /\ recent = <<>>
  /\ made = 0
  /\ chan = [s \in Sockets |-> <<>>]
  /\ shut = {}
  /\ reader = [s \in Sockets |-> "reading"]
  /\ removed = {}
  /\ page = NoPage

-----------------------------------------------------------------------------
(* SubscribeToRealtime: a used id gets the new subscriber, and nothing      *)
(* closes the one it had.                                                   *)
Subscribe(id) ==
  /\ made < MaxSubs
  /\ made' = made + 1
  /\ subscribers' = (id :> (made + 1)) @@ subscribers
  /\ UNCHANGED <<metricsVars, work, recent, chan, shut, reader, removed, page>>

(* A bug: the subscriber is taken out of the map and not closed.           *)
UnsubscribeOpen(id) ==
  /\ id \in DOMAIN subscribers
  /\ removed' = removed \cup {subscribers[id]}
  /\ subscribers' = [x \in DOMAIN subscribers \ {id} |-> subscribers[x]]
  /\ UNCHANGED <<metricsVars, work, recent, made, chan, shut, reader, page>>

(* The dashboard's Close does nothing.                                      *)
Unsubscribe(id) ==
  /\ id \in DOMAIN subscribers
  /\ shut' = shut \cup ({subscribers[id]} \ {Dashboard})
  /\ removed' = removed \cup {subscribers[id]}
  /\ subscribers' = [x \in DOMAIN subscribers \ {id} |-> subscribers[x]]
  /\ UNCHANGED <<metricsVars, work, recent, made, chan, reader, page>>

-----------------------------------------------------------------------------
(* What subscribers get; its user and its time play no part here.           *)
convertToStreamEvent(e) ==
  [kind |-> e.kind, points |-> IF e.kind = "points" THEN e.delta ELSE 0]

(* StreamPublisher.OnEvent: the event is counted, under the metrics' lock,  *)
HookCount(w) ==
  /\ work[w] = Idle
  /\ \E e \in Events :
       /\ Count(e)
       /\ work' = [work EXCEPT ![w] = [at |-> "counted", e |-> convertToStreamEvent(e)]]
  /\ UNCHANGED <<streamVars, page>>

(* the subscribers are copied, under the publisher's,                       *)
HookCopy(w) ==
  /\ work[w].at = "counted"
  /\ work' = [work EXCEPT ![w] = [at |-> "calling", e |-> @.e, to |-> Range(subscribers)]]
  /\ UNCHANGED <<metricsVars, streamVars, page>>

Called(w, s) ==
  /\ work[w].at = "calling"
  /\ s \in work[w].to
  /\ work' = [work EXCEPT ![w].to = @ \ {s}]

(* and each is called, in any order, under none.  The dashboard keeps the   *)
(* newest events;                                                           *)
CallDashboard(w) ==
  /\ Called(w, Dashboard)
  /\ LET r == Append(recent, work[w].e)
     IN  recent' = IF Len(r) > MaxRecent THEN Tail(r) ELSE r
  /\ UNCHANGED <<metricsVars, subscribers, made, chan, shut, reader, removed, page>>

(* a closed WebSocketSubscriber with a place in its buffer takes the event  *)
(* or not, as select chooses, and a full one never does.                    *)
CallSocket(w, s) ==
  /\ Called(w, s)
  /\ \/ /\ Len(chan[s]) < Buffer
        /\ chan' = [chan EXCEPT ![s] = Append(@, work[w].e)]
     \/ /\ s \in shut \/ Len(chan[s]) >= Buffer
        /\ UNCHANGED chan
  /\ UNCHANGED <<metricsVars, subscribers, recent, made, shut, reader, removed, page>>

HookReturn(w) ==
  /\ work[w].at = "calling"
  /\ work[w].to = {}
  /\ work' = [work EXCEPT ![w] = Idle]
  /\ UNCHANGED <<metricsVars, streamVars, page>>

-----------------------------------------------------------------------------
(* ReadEvent, called until it fails: select takes any case that is ready.   *)
ReadEvent(s) ==
  /\ s <= made
  /\ reader[s] = "reading"
  /\ \/ /\ chan[s] # <<>>
        /\ chan' = [chan EXCEPT ![s] = Tail(@)]
        /\ UNCHANGED reader
     \/ /\ s \in shut
        /\ reader' = [reader EXCEPT ![s] = "eof"]
        /\ UNCHANGED chan
  /\ UNCHANGED <<metricsVars, work, subscribers, recent, made, shut, removed, page>>

ReadCancelled(s) ==
  /\ s <= made
  /\ reader[s] = "reading"
  /\ reader' = [reader EXCEPT ![s] = "cancelled"]
  /\ UNCHANGED <<metricsVars, work, subscribers, recent, made, chan, shut, removed, page>>

-----------------------------------------------------------------------------
(* GetDashboardData: a copy of the recent events, then GetRealtimeStats,    *)
(* then the totals of GetTopMetrics.                                        *)
PageRecent ==
  /\ page.at \in {"none", "done"}
  /\ page' = [at |-> "recent", recent |-> recent]
  /\ UNCHANGED <<metricsVars, work, streamVars>>

PageStats ==
  /\ page.at = "recent"
  /\ page' = [at |-> "stats", recent |-> page.recent, stats |-> metrics.realtime]
  /\ UNCHANGED <<metricsVars, work, streamVars>>

PageTop ==
  /\ page.at = "stats"
  /\ page' = [at |-> "done", recent |-> page.recent, stats |-> page.stats,
              points |-> metrics.allPoints, badges |-> metrics.allBadges]
  /\ UNCHANGED <<metricsVars, work, streamVars>>

-----------------------------------------------------------------------------
Publish(w) ==
  HookCopy(w) \/ CallDashboard(w) \/ (\E s \in Sockets : CallSocket(w, s)) \/ HookReturn(w)

TimePasses == Tick /\ UNCHANGED <<work, streamVars, page>>

PublisherNext ==
  \/ \E w \in Workers : HookCount(w) \/ Publish(w)
  \/ \E id \in {"dashboard", "client"} : Unsubscribe(id)
  \/ Subscribe("client")
  \/ \E s \in Sockets : ReadEvent(s) \/ ReadCancelled(s)
  \/ PageRecent \/ PageStats \/ PageTop
  \/ TimePasses

PublisherSpec == PublisherInit /\ [][PublisherNext]_publisherVars

(* OnEvent runs to its end and readers go on reading; nobody has to         *)
(* publish, subscribe, unsubscribe, cancel or look.                         *)
PublisherFairSpec ==
  /\ PublisherSpec
  /\ \A w \in Workers : WF_publisherVars(Publish(w))
  /\ \A s \in Sockets : WF_publisherVars(ReadEvent(s))

-----------------------------------------------------------------------------
(* Properties                                                              *)

Total(f(_), es) == SeqSum([i \in DOMAIN es |-> f(es[i])])

Positive(e) == IF e.points > 0 THEN e.points ELSE 0
IsBadge(e)  == IF e.kind = "badge" THEN 1 ELSE 0

(* A dashboard page adds up, though its parts are read at different times   *)
(* while events go on: every award and badge among its recent events is in  *)
(* its totals, and so is whatever its 24-hour counters say, because OnEvent *)
(* counts before it publishes and the page reads in the opposite order.     *)
DashboardCounts ==
  page.at = "done" =>
    /\ page.points >= Total(Positive, page.recent)
    /\ page.badges >= Total(IsBadge, page.recent)
    /\ page.points >= page.stats.points
    /\ page.badges >= page.stats.badges

(* The reader of a subscriber that was unsubscribed gets its end of file    *)
(* (or was cancelled), even when an OnEvent that copied the subscriber      *)
(* before still puts events in its channel.                                 *)
ReaderEnds ==
  \A s \in Sockets : (s \in removed) ~> (reader[s] # "reading")
=============================================================================
