-------------------------------- MODULE Hub --------------------------------
(***************************************************************************)
(* realtime.Hub: subscriptions are buffered channels; Broadcast copies     *)
(* them under the lock and sends after releasing it.  The callers are the  *)
(* goroutines that run the bus handlers gamify.New registers, and nothing  *)
(* recovers their panics: a send on a closed channel ends the process.     *)
(***************************************************************************)
EXTENDS Integers, Sequences

CONSTANTS
  Workers,    \* goroutines that call Broadcast
  MaxSubs,    \* bound: calls of Subscribe
  Buffer,     \* capacity of a channel (256 in the WebSocket handler)
  MaxEvents   \* bound: events broadcast

ASSUME HubAssumption ==
  /\ MaxSubs \in Nat
  /\ Buffer \in Nat \ {0}
  /\ MaxEvents \in Nat

VARIABLES
  next,       \* the newest id
  subs,       \* ids in the map
  chan,       \* what waits in the channel of each id
  closed,     \* ids whose channel is closed
  sending,    \* per worker: its event and the receivers it has to send to
  panicked,   \* a send met a closed channel, and the process is over
  events,     \* history: events broadcast so far
  over,       \* history: events whose Broadcast has returned
  before,     \* history: per event, what was over when it was broadcast
  raced       \* history: an id was closed when a worker had yet to send to it

hubVars == <<next, subs, chan, closed, sending, panicked, events, over, before, raced>>

SubID   == 1 .. MaxSubs
EventID == 1 .. MaxEvents
Idle    == [ev |-> 0, to |-> {}]

HubInit ==
  /\ next = 0
  /\ subs = {}
  /\ chan = [s \in SubID |-> <<>>]
  /\ closed = {}
  /\ sending = [w \in Workers |-> Idle]
  /\ panicked = FALSE
  /\ events = 0
  /\ over = {}
  /\ before = [e \in EventID |-> {}]
  /\ raced = FALSE

HubSubscribe ==
  /\ ~panicked
  /\ next < MaxSubs
  /\ next' = next + 1
  /\ subs' = subs \cup {next + 1}
  /\ UNCHANGED <<chan, closed, sending, panicked, events, over, before, raced>>

(* A bug: the channel is closed and its entry stays in the map.            *)
HubUnsubscribeKeeps(id) ==
  /\ ~panicked
  /\ closed' = closed \cup {id}
  /\ raced' = (raced \/ \E w \in Workers : id \in sending[w].to)
  /\ UNCHANGED <<next, subs, chan, sending, panicked, events, over, before>>

(* Every caller has stopped reading, so what the channel held is lost.      *)
HubUnsubscribe(id) ==
  /\ ~panicked
  /\ IF id \in subs
     THEN /\ subs' = subs \ {id}
          /\ closed' = closed \cup {id}
          /\ chan' = [chan EXCEPT ![id] = <<>>]
          /\ raced' = (raced \/ \E w \in Workers : id \in sending[w].to)
     ELSE UNCHANGED <<subs, closed, chan, raced>>
  /\ UNCHANGED <<next, sending, panicked, events, over, before>>

(* Broadcast, up to the release of the lock.                                *)
HubCopy(w) ==
  /\ ~panicked
  /\ sending[w] = Idle
  /\ events < MaxEvents
  /\ events' = events + 1
  /\ sending' = [sending EXCEPT ![w] = [ev |-> events + 1, to |-> subs]]
  /\ before' = [before EXCEPT ![events + 1] = over]
  /\ UNCHANGED <<next, subs, chan, closed, panicked, over, raced>>

(* A bug: the send waits for a place in the channel.                       *)
HubSendWaits(w, id) ==
  /\ ~panicked
  /\ id \in sending[w].to
  /\ id \in closed \/ Len(chan[id]) < Buffer
  /\ sending' = [sending EXCEPT ![w].to = @ \ {id}]
  /\ panicked' = (id \in closed)
  /\ chan' = IF id \in closed THEN chan ELSE [chan EXCEPT ![id] = Append(@, sending[w].ev)]
  /\ UNCHANGED <<next, subs, closed, events, over, before, raced>>

(* A bug: a receiver that had a place for the event is sent to again.      *)
HubSendAgain(w, id) ==
  /\ ~panicked
  /\ id \in sending[w].to
  /\ sending' = [sending EXCEPT ![w].to = IF Len(chan[id]) < Buffer THEN @ ELSE @ \ {id}]
  /\ panicked' = (id \in closed)
  /\ chan' = IF id \in closed \/ Len(chan[id]) >= Buffer
             THEN chan ELSE [chan EXCEPT ![id] = Append(@, sending[w].ev)]
  /\ UNCHANGED <<next, subs, closed, events, over, before, raced>>

(* One turn of Broadcast's loop: the receivers come in the map's order,     *)
(* which is any order, and a full channel loses the event.                  *)
HubSend(w, id) ==
  /\ ~panicked
  /\ id \in sending[w].to
  /\ sending' = [sending EXCEPT ![w].to = @ \ {id}]
  /\ panicked' = (id \in closed)
  /\ chan' = IF id \in closed \/ Len(chan[id]) >= Buffer
             THEN chan ELSE [chan EXCEPT ![id] = Append(@, sending[w].ev)]
  /\ UNCHANGED <<next, subs, closed, events, over, before, raced>>

HubReturn(w) ==
  /\ ~panicked
  /\ sending[w] # Idle
  /\ sending[w].to = {}
  /\ sending' = [sending EXCEPT ![w] = Idle]
  /\ over' = over \cup {sending[w].ev}
  /\ UNCHANGED <<next, subs, chan, closed, panicked, events, before, raced>>

HubStep(w) == HubReturn(w) \/ \E id \in SubID : HubSend(w, id)

-----------------------------------------------------------------------------
(* Properties                                                              *)

(* Broadcast meets a closed channel only when the Unsubscribe that closed   *)
(* it came after the copy: a subscription that ended before a broadcast     *)
(* began cannot end the process.                                            *)
PanicOnlyFromRace == panicked => raced
=============================================================================
