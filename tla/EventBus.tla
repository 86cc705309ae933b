------------------------------ MODULE EventBus ------------------------------
(***************************************************************************)
(* engine.EventBus: publish/subscribe with a bounded queue and a pool of   *)
(* workers (DispatchAsync), or with handlers run by the publisher itself   *)
(* (DispatchSync).  Both run dispatchSync, which copies the handlers of    *)
(* the event's type under the lock and calls them after releasing it.      *)
(* Event n is the n-th event published; log[n] is its type.                *)
(***************************************************************************)
EXTENDS Integers, Sequences, FiniteSets

CONSTANTS
  Runners,    \* goroutines running dispatchSync: workers, or sync publishers
  Types,      \* event types
  Capacity,   \* size of asyncQueue (2048 in the code)
  MaxEvents,  \* bound: events published
  MaxSubs     \* bound: calls of Subscribe

ASSUME BusAssumption ==
  /\ IsFiniteSet(Runners)
  /\ Capacity \in Nat \ {0}
  /\ MaxEvents \in Nat
  /\ MaxSubs \in Nat

VARIABLES
  mode,       \* "async" or "sync", as given to NewEventBus
  nextID,     \* the id of the newest subscription
  subs,       \* ids subscribed, per event type
  queue,      \* asyncQueue
  closed,     \* whether ctx is cancelled
  run,        \* per runner: where it is, its event, the handlers it has to call
  log,        \* history: types of the events published
  dropped,    \* history: events refused by a full queue
  done,       \* history: events whose dispatch is over
  delivered,  \* history: <<subscription, event>> for every handler call
  born,       \* history: events published before each subscription
  late        \* history: calls of a handler after its unsubscription

hist == <<log, dropped, done, delivered, born, late>>
vars == <<mode, nextID, subs, queue, closed, run, log, dropped, done, delivered, born, late>>

EventID == 1 .. MaxEvents
SubID   == 1 .. MaxSubs

NoJob == [pc |-> "idle", ev |-> 0, todo |-> {}]

Subscribed == UNION {subs[t] : t \in Types}

Init ==
  /\ mode \in {"async", "sync"}
  /\ nextID = 0
  /\ subs = [t \in Types |-> {}]
  /\ queue = <<>>
  /\ closed = FALSE
  /\ run = [r \in Runners |-> NoJob]
  /\ log = <<>>
  /\ dropped = {}
  /\ done = {}
  /\ delivered = {}
  /\ born = [s \in SubID |-> 0]
  /\ late = [s \in SubID |-> 0]

-----------------------------------------------------------------------------
Subscribe(t) ==
  LET id == nextID + 1
  IN  /\ nextID < MaxSubs
      /\ nextID' = id
      /\ subs' = [subs EXCEPT ![t] = @ \cup {id}]
      /\ born' = [born EXCEPT ![id] = Len(log)]
      /\ UNCHANGED <<mode, queue, closed, run, log, dropped, done, delivered, late>>

(* The closure Subscribe returns; calling it again changes nothing.         *)
Unsubscribe(t, id) ==
  /\ subs' = [subs EXCEPT ![t] = @ \ {id}]
  /\ UNCHANGED <<mode, nextID, queue, closed, run, hist>>

-----------------------------------------------------------------------------
(* A bug: one event more than the queue holds.                             *)
PublishAsyncOneMore(t) ==
  LET n == Len(log) + 1
  IN  /\ mode = "async"
      /\ n <= MaxEvents
      /\ log' = Append(log, t)
      /\ \/ /\ Len(queue) <= Capacity
            /\ queue' = Append(queue, n)
            /\ UNCHANGED dropped
         \/ /\ Len(queue) > Capacity
            /\ dropped' = dropped \cup {n}
            /\ UNCHANGED queue
      /\ UNCHANGED <<mode, nextID, subs, closed, run, done, delivered, born, late>>

(* Publish in async mode never blocks, and does not look at ctx.            *)
PublishAsync(t) ==
  LET n == Len(log) + 1
  IN  /\ mode = "async"
      /\ n <= MaxEvents
      /\ log' = Append(log, t)
      /\ \/ /\ Len(queue) < Capacity
            /\ queue' = Append(queue, n)
            /\ UNCHANGED dropped
         \/ /\ Len(queue) = Capacity
            /\ dropped' = dropped \cup {n}
            /\ UNCHANGED queue
      /\ UNCHANGED <<mode, nextID, subs, closed, run, done, delivered, born, late>>

PublishSync(r, t) ==
  LET n == Len(log) + 1
  IN  /\ mode = "sync"
      /\ run[r].pc = "idle"
      /\ n <= MaxEvents
      /\ log' = Append(log, t)
      /\ run' = [run EXCEPT ![r] = [pc |-> "copy", ev |-> n, todo |-> {}]]
      /\ UNCHANGED <<mode, nextID, subs, queue, closed, dropped, done, delivered, born, late>>

(* A worker's select: an event is ready, or ctx is done, or both, and then  *)
(* either branch may be taken.                                              *)
Take(r) ==
  /\ mode = "async"
  /\ run[r].pc = "idle"
  /\ queue # <<>>
  /\ queue' = Tail(queue)
  /\ run' = [run EXCEPT ![r] = [pc |-> "copy", ev |-> Head(queue), todo |-> {}]]
  /\ UNCHANGED <<mode, nextID, subs, closed, hist>>

(* A bug: the worker looks at ctx after it has received an event.          *)
StopWithEvent(r) ==
  /\ mode = "async"
  /\ run[r].pc = "idle"
  /\ closed
  /\ queue # <<>>
  /\ queue' = Tail(queue)
  /\ run' = [run EXCEPT ![r].pc = "stopped"]
  /\ UNCHANGED <<mode, nextID, subs, closed, hist>>

(* A bug: Close sends one signal, which one worker consumes.               *)
StopOneWorker(r) ==
  /\ mode = "async"
  /\ run[r].pc = "idle"
  /\ closed
  /\ \A q \in Runners : run[q].pc # "stopped"
  /\ run' = [run EXCEPT ![r].pc = "stopped"]
  /\ UNCHANGED <<mode, nextID, subs, queue, closed, hist>>

Stop(r) ==
  /\ mode = "async"
  /\ run[r].pc = "idle"
  /\ closed
  /\ run' = [run EXCEPT ![r].pc = "stopped"]
  /\ UNCHANGED <<mode, nextID, subs, queue, closed, hist>>

Close ==
  /\ closed' = TRUE
  /\ UNCHANGED <<mode, nextID, subs, queue, run, hist>>

-----------------------------------------------------------------------------
(* A bug: handlers that unsubscribed are not left out.                     *)
CopyAllHandlers(r) ==
  /\ run[r].pc = "copy"
  /\ run' = [run EXCEPT ![r].pc = "call", ![r].todo = 1 .. nextID]
  /\ UNCHANGED <<mode, nextID, subs, queue, closed, hist>>

(* dispatchSync: copy the handlers, call them one by one in map order,      *)
(* return.                                                                  *)
CopyHandlers(r) ==
  /\ run[r].pc = "copy"
  /\ run' = [run EXCEPT ![r].pc = "call", ![r].todo = subs[log[run[r].ev]]]
  /\ UNCHANGED <<mode, nextID, subs, queue, closed, hist>>

(* A bug: a handler that was called may be called again.                   *)
CallHandlerAgain(r, h) ==
  /\ run[r].pc = "call"
  /\ h \in run[r].todo
  /\ delivered' = delivered \cup {<<h, run[r].ev>>}
  /\ late' = IF h \in Subscribed THEN late ELSE [late EXCEPT ![h] = @ + 1]
  /\ UNCHANGED <<mode, nextID, subs, queue, closed, run, log, dropped, done, born>>

CallHandler(r, h) ==
  /\ run[r].pc = "call"
  /\ h \in run[r].todo
  /\ run' = [run EXCEPT ![r].todo = @ \ {h}]
  /\ delivered' = delivered \cup {<<h, run[r].ev>>}
  /\ late' = IF h \in Subscribed THEN late ELSE [late EXCEPT ![h] = @ + 1]
  /\ UNCHANGED <<mode, nextID, subs, queue, closed, log, dropped, done, born>>

(* A bug: a handler's panic ends the dispatch and is recovered from.       *)
FinishOnPanic(r) ==
  /\ run[r].pc = "call"
  /\ run' = [run EXCEPT ![r] = NoJob]
  /\ done' = done \cup {run[r].ev}
  /\ UNCHANGED <<mode, nextID, subs, queue, closed, log, dropped, delivered, born, late>>

(* A bug: a worker returns after one event.                                *)
FinishAndExit(r) ==
  /\ run[r].pc = "call"
  /\ run[r].todo = {}
  /\ run' = [run EXCEPT ![r] = [NoJob EXCEPT !.pc = "stopped"]]
  /\ done' = done \cup {run[r].ev}
  /\ UNCHANGED <<mode, nextID, subs, queue, closed, log, dropped, delivered, born, late>>

Finish(r) ==
  /\ run[r].pc = "call"
  /\ run[r].todo = {}
  /\ run' = [run EXCEPT ![r] = NoJob]
  /\ done' = done \cup {run[r].ev}
  /\ UNCHANGED <<mode, nextID, subs, queue, closed, log, dropped, delivered, born, late>>

Dispatch(r) ==
  \/ CopyHandlers(r)
  \/ \E h \in SubID : CallHandler(r, h)
  \/ Finish(r)

Next ==
  \/ Close
  \/ \E t \in Types :
       \/ Subscribe(t)
       \/ \E id \in 1 .. nextID : Unsubscribe(t, id)
       \/ PublishAsync(t)
       \/ \E r \in Runners : PublishSync(r, t)
  \/ \E r \in Runners : Take(r) \/ Stop(r) \/ Dispatch(r)

Spec == Init /\ [][Next]_vars

(* Handlers return, and a goroutine that can run does. select picks among   *)
(* ready branches at random, so a worker that meets a cancelled ctx again   *)
(* and again takes that branch at last.                                     *)
FairSpec ==
  /\ Spec
  /\ \A r \in Runners :
       /\ WF_vars(Take(r))
       /\ WF_vars(Dispatch(r))
       /\ SF_vars(Stop(r))

-----------------------------------------------------------------------------
(* Properties                                                              *)

QueueAt == {queue[i] : i \in DOMAIN queue}

TypeOK ==
  /\ nextID \in 0 .. MaxSubs
  /\ subs \in [Types -> SUBSET (1 .. nextID)]
  /\ queue \in Seq(EventID)
  /\ Len(queue) <= Capacity
  /\ closed \in BOOLEAN
  /\ run \in [Runners -> [pc : {"idle", "copy", "call", "stopped"},
                          ev : 0 .. MaxEvents, todo : SUBSET SubID]]
  /\ log \in Seq(Types)
  /\ Len(log) <= MaxEvents
  /\ dropped \subseteq EventID
  /\ done \subseteq EventID
  /\ delivered \subseteq SubID \X EventID
  /\ born \in [SubID -> 0 .. MaxEvents]
  /\ late \in [SubID -> Nat]

Busy(r) == run[r].pc \in {"copy", "call"}

(* An event is in one place only: refused, waiting in the queue, in the     *)
(* hands of one runner, or dispatched; and every published event is in one. *)
EventInOnePlace ==
  /\ \A i, j \in DOMAIN queue : i < j => queue[i] < queue[j]
  /\ \A r, q \in Runners : r # q /\ Busy(r) /\ Busy(q) => run[r].ev # run[q].ev
  /\ QueueAt \cap (dropped \cup done) = {}
  /\ dropped \cap done = {}
  /\ \A r \in Runners : Busy(r) => run[r].ev \notin QueueAt \cup dropped \cup done
  /\ 1 .. Len(log) = QueueAt \cup dropped \cup done
                       \cup {run[r].ev : r \in {q \in Runners : Busy(q)}}

(* No handler is ever about to get an event it already had.                *)
NeverRedelivered ==
  \A r \in Runners : \A h \in run[r].todo : <<h, run[r].ev>> \notin delivered

(* A subscription made before an event was published, and still in force,   *)
(* has had the event once its dispatch is over, whoever subscribed or       *)
(* unsubscribed during the dispatch.                                        *)
SubscriberNotMissed ==
  \A n \in done : \A h \in subs[log[n]] : born[h] < n => <<h, n>> \in delivered

(* After its unsubscription a handler can still be called, by a runner that *)
(* had copied it before, but at most once by each.                          *)
LateCallsBounded ==
  \A h \in 1 .. nextID : h \notin Subscribed => late[h] <= Cardinality(Runners)

(* When publishing pauses (here, at its bound), an open bus catches up:     *)
(* every event it accepted is dispatched.                                   *)
AcceptedIsDispatched ==
  []<>(closed \/ \A n \in 1 .. Len(log) : n \in done \cup dropped)

(* Close ends every worker.                                                 *)
CloseStopsWorkers == (mode = "async" /\ closed) ~> \A r \in Runners : run[r].pc = "stopped"

(* An event that was waiting when Close was called is still dispatched.     *)
QueuedBeforeCloseDispatched ==
  \A n \in EventID : (n \in QueueAt /\ ~closed) ~> (n \in done)
=============================================================================
