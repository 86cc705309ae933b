----------------------------- MODULE EventStream -----------------------------
(***************************************************************************)
(* From the hub to the program that listens: the WebSocket handler         *)
(* (adapters/websocket) subscribes to the hub and writes each event as a   *)
(* frame; the goroutine of SubscribeEvents (sdk/go) reads the frames and   *)
(* puts the events in a channel its caller drains.  Connection i has one   *)
(* handler and one such goroutine.                                         *)
(***************************************************************************)
EXTENDS Hub

CONSTANTS
  Conns,       \* connections
  WireBuffer,  \* frames the network holds before a write blocks
  OutBuffer    \* capacity of the SDK's channel (32)

ASSUME StreamAssumption ==
  /\ WireBuffer \in Nat \ {0}
  /\ OutBuffer \in Nat \ {0}

VARIABLES
  handler,     \* where the handler is
  sub,         \* its subscription, 0 before it has one
  hand,        \* the event it is writing
  expired,     \* its write deadline, set once, has passed
  conn,        \* the connection
  wire,        \* frames written and not yet read
  reader,      \* where the SDK's goroutine is
  ctxDone,     \* the caller's ctx is done
  out,         \* events waiting in the SDK's channel
  seen         \* history: events the SDK has read

connVars   == <<handler, sub, hand, expired, conn, wire>>
clientVars == <<reader, ctxDone, out, seen>>
vars       == <<hubVars, connVars, clientVars>>

Init ==
  /\ HubInit
  /\ handler = [i \in Conns |-> "none"]
  /\ sub = [i \in Conns |-> 0]
  /\ hand = [i \in Conns |-> <<>>]
  /\ expired = [i \in Conns |-> FALSE]
  /\ conn = [i \in Conns |-> "none"]
  /\ wire = [i \in Conns |-> <<>>]
  /\ reader = [i \in Conns |-> "none"]
  /\ ctxDone = [i \in Conns |-> FALSE]
  /\ out = [i \in Conns |-> 0]
  /\ seen = [i \in Conns |-> <<>>]

-----------------------------------------------------------------------------
(* SubscribeEvents dials, the handler upgrades; or the handshake fails and  *)
(* both give up.                                                            *)
Handshake(i) ==
  /\ ~panicked
  /\ conn[i] = "none"
  /\ reader[i] = "none"
  /\ \/ /\ conn' = [conn EXCEPT ![i] = "open"]
        /\ handler' = [handler EXCEPT ![i] = "upgraded"]
        /\ reader' = [reader EXCEPT ![i] = "check"]
     \/ /\ reader' = [reader EXCEPT ![i] = "error"]
        /\ UNCHANGED <<conn, handler>>
  /\ UNCHANGED <<hubVars, sub, hand, expired, wire, ctxDone, out, seen>>

(* hub.Subscribe(256), then SetWriteDeadline, which nothing renews.         *)
WsSubscribe(i) ==
  /\ handler[i] = "upgraded"
  /\ HubSubscribe
  /\ sub' = [sub EXCEPT ![i] = next + 1]
  /\ handler' = [handler EXCEPT ![i] = "range"]
  /\ UNCHANGED <<hand, expired, conn, wire, clientVars>>

WsDeadline(i) ==
  /\ ~panicked
  /\ handler[i] \in {"range", "write"}
  /\ expired' = [expired EXCEPT ![i] = TRUE]
  /\ UNCHANGED <<hubVars, handler, sub, hand, conn, wire, clientVars>>

(* for ev := range ch                                                       *)
WsReceive(i) ==
  /\ ~panicked
  /\ handler[i] = "range"
  /\ chan[sub[i]] # <<>>
  /\ chan' = [chan EXCEPT ![sub[i]] = Tail(@)]
  /\ hand' = [hand EXCEPT ![i] = <<Head(chan[sub[i]])>>]
  /\ handler' = [handler EXCEPT ![i] = "write"]
  /\ UNCHANGED <<next, subs, closed, sending, panicked, events, over, before, raced,
                 sub, expired, conn, wire, clientVars>>

(* A bug: the handler goes on after a failed write.                        *)
WsWriteGoesOn(i) ==
  /\ ~panicked
  /\ handler[i] = "write"
  /\ \/ /\ ~expired[i]
        /\ conn[i] \in {"open", "stalled"}
        /\ Len(wire[i]) < WireBuffer
        /\ wire' = [wire EXCEPT ![i] = @ \o hand[i]]
     \/ /\ expired[i] \/ conn[i] = "cut"
        /\ UNCHANGED wire
  /\ hand' = [hand EXCEPT ![i] = <<>>]
  /\ handler' = [handler EXCEPT ![i] = "range"]
  /\ UNCHANGED <<hubVars, sub, expired, conn, clientVars>>

(* WriteMessage: it blocks while the network takes no more, fails once the  *)
(* deadline has passed, and on a connection the peer has closed it either   *)
(* fails or loses the frame.                                                *)
WsWrite(i) ==
  /\ ~panicked
  /\ handler[i] = "write"
  /\ hand' = [hand EXCEPT ![i] = <<>>]
  /\ \/ /\ ~expired[i]
        /\ conn[i] \in {"open", "stalled"}
        /\ Len(wire[i]) < WireBuffer
        /\ wire' = [wire EXCEPT ![i] = @ \o hand[i]]
        /\ handler' = [handler EXCEPT ![i] = "range"]
     \/ /\ ~expired[i]
        /\ conn[i] = "cut"
        /\ handler' = [handler EXCEPT ![i] = "range"]
        /\ UNCHANGED wire
     \/ /\ expired[i] \/ conn[i] = "cut"
        /\ handler' = [handler EXCEPT ![i] = "unsubscribe"]
        /\ UNCHANGED wire
  /\ UNCHANGED <<hubVars, sub, expired, conn, clientVars>>

(* The deferred calls, last first: Unsubscribe, then conn.Close.            *)
WsUnsubscribe(i) ==
  /\ handler[i] = "unsubscribe"
  /\ HubUnsubscribe(sub[i])
  /\ handler' = [handler EXCEPT ![i] = "close"]
  /\ UNCHANGED <<sub, hand, expired, conn, wire, clientVars>>

WsClose(i) ==
  /\ ~panicked
  /\ handler[i] = "close"
  /\ handler' = [handler EXCEPT ![i] = "gone"]
  /\ conn' = [conn EXCEPT ![i] = IF @ = "open" THEN "finished" ELSE @]
  /\ UNCHANGED <<hubVars, sub, hand, expired, wire, clientVars>>

WsStep(i) ==
  WsSubscribe(i) \/ WsReceive(i) \/ WsWrite(i) \/ WsUnsubscribe(i) \/ WsClose(i)

-----------------------------------------------------------------------------
(* The goroutine returns: conn.Close, then close(out).                      *)
SdkClose(i) ==
  /\ reader' = [reader EXCEPT ![i] = "closed"]
  /\ conn' = [conn EXCEPT ![i] = IF @ = "open" THEN "cut" ELSE @]
  /\ wire' = [wire EXCEPT ![i] = <<>>]

(* A bug: the loop does not look at ctx.                                   *)
SdkCheckNothing(i) ==
  /\ reader[i] = "check"
  /\ reader' = [reader EXCEPT ![i] = "read"]
  /\ UNCHANGED <<hubVars, connVars, ctxDone, out, seen>>

SdkCheck(i) ==
  /\ reader[i] = "check"
  /\ \/ /\ ctxDone[i]
        /\ SdkClose(i)
     \/ /\ ~ctxDone[i]
        /\ reader' = [reader EXCEPT ![i] = "read"]
        /\ UNCHANGED <<conn, wire>>
  /\ UNCHANGED <<hubVars, handler, sub, hand, expired, ctxDone, out, seen>>

(* A bug: a frame waits until the caller has room for its event.           *)
SdkReadWaits(i) ==
  /\ reader[i] = "read"
  /\ \/ /\ wire[i] # <<>>
        /\ conn[i] # "stalled"
        /\ out[i] < OutBuffer
        /\ wire' = [wire EXCEPT ![i] = Tail(@)]
        /\ seen' = [seen EXCEPT ![i] = Append(@, Head(wire[i]))]
        /\ out' = [out EXCEPT ![i] = @ + 1]
        /\ reader' = [reader EXCEPT ![i] = "check"]
        /\ UNCHANGED conn
     \/ /\ wire[i] = <<>>
        /\ conn[i] \in {"finished", "cut"}
        /\ SdkClose(i)
        /\ UNCHANGED <<seen, out>>
  /\ UNCHANGED <<hubVars, handler, sub, hand, expired, ctxDone>>

(* ReadJSON returns a frame, and a full channel loses its event; or it      *)
(* fails.  While it waits, ctx is not looked at.                            *)
SdkRead(i) ==
  /\ reader[i] = "read"
  /\ \/ /\ wire[i] # <<>>
        /\ conn[i] # "stalled"
        /\ wire' = [wire EXCEPT ![i] = Tail(@)]
        /\ seen' = [seen EXCEPT ![i] = Append(@, Head(wire[i]))]
        /\ out' = [out EXCEPT ![i] = IF @ < OutBuffer THEN @ + 1 ELSE @]
        /\ reader' = [reader EXCEPT ![i] = "check"]
        /\ UNCHANGED conn
     \/ /\ wire[i] = <<>>
        /\ conn[i] \in {"finished", "cut"}
        /\ SdkClose(i)
        /\ UNCHANGED <<seen, out>>
  /\ UNCHANGED <<hubVars, handler, sub, hand, expired, ctxDone>>

(* The caller takes an event, or cancels.                                   *)
Consume(i) ==
  /\ out[i] > 0
  /\ out' = [out EXCEPT ![i] = @ - 1]
  /\ UNCHANGED <<hubVars, connVars, reader, ctxDone, seen>>

Cancel(i) ==
  /\ reader[i] \in {"check", "read"}
  /\ ctxDone' = [ctxDone EXCEPT ![i] = TRUE]
  /\ UNCHANGED <<hubVars, connVars, reader, out, seen>>

-----------------------------------------------------------------------------
(* The network resets a connection, or stops carrying it and tells nobody;  *)
(* the end of the server's process resets them all.                         *)
Reset(i) ==
  /\ conn[i] = "open"
  /\ conn' = [conn EXCEPT ![i] = "cut"]
  /\ wire' = [wire EXCEPT ![i] = <<>>]
  /\ UNCHANGED <<hubVars, handler, sub, hand, expired, clientVars>>

Stall(i) ==
  /\ conn[i] = "open"
  /\ conn' = [conn EXCEPT ![i] = "stalled"]
  /\ UNCHANGED <<hubVars, handler, sub, hand, expired, wire, clientVars>>

HubOnly == UNCHANGED <<connVars, clientVars>>

(* Any code may subscribe to the hub directly; this one never reads.        *)
Idler(id) == id \in 1 .. next /\ \A i \in Conns : sub[i] # id

Next ==
  \/ \E w \in Workers : (HubCopy(w) \/ HubStep(w)) /\ HubOnly
  \/ HubSubscribe /\ HubOnly
  \/ \E id \in SubID : Idler(id) /\ HubUnsubscribe(id) /\ HubOnly
  \/ \E i \in Conns :
       \/ Handshake(i) \/ WsDeadline(i) \/ WsStep(i)
       \/ SdkCheck(i) \/ SdkRead(i) \/ Consume(i) \/ Cancel(i)
       \/ Reset(i) \/ Stall(i)

Spec == Init /\ [][Next]_vars

(* Goroutines that can run do, and a dead process loses its sockets.  The   *)
(* clock, the network and the caller owe nothing.                           *)
FairSpec ==
  /\ Spec
  /\ \A w \in Workers : WF_vars(HubStep(w) /\ HubOnly)
  /\ \A i \in Conns :
       /\ WF_vars(WsStep(i))
       /\ WF_vars(SdkCheck(i) \/ SdkRead(i))
       /\ WF_vars(panicked /\ Reset(i))

-----------------------------------------------------------------------------
(* Properties                                                              *)

Flow(i) == seen[i] \o wire[i] \o hand[i] \o (IF sub[i] = 0 THEN <<>> ELSE chan[sub[i]])

(* On its way through channel, handler, network and SDK an event is never   *)
(* doubled, and it never overtakes one whose Broadcast had returned before  *)
(* its own began; only broadcasts that overlapped may be seen in any order. *)
FlowInOrder ==
  \A i \in Conns : \A p, q \in DOMAIN Flow(i) :
    p < q => /\ Flow(i)[p] # Flow(i)[q]
             /\ Flow(i)[q] \notin before[Flow(i)[p]]

(* A broadcast returns, whatever its receivers do, unless the process ends. *)
BroadcastReturns ==
  \A w \in Workers : (sending[w] # Idle) ~> (sending[w] = Idle \/ panicked)

(* An event in the channel of a stream is read by its client, however slow  *)
(* the caller is, unless the connection or the process ends or the deadline *)
(* passes.                                                                  *)
EventReachesClient ==
  \A i \in Conns : \A e \in EventID :
    (sub[i] # 0 /\ \E p \in DOMAIN chan[sub[i]] : chan[sub[i]][p] = e)
      ~> \/ \E p \in DOMAIN seen[i] : seen[i][p] = e
         \/ expired[i] \/ conn[i] # "open" \/ panicked

(* A stream whose deadline has passed is unsubscribed at its next event:    *)
(* dead streams do not pile up in the hub while events flow.                *)
ExpiredStreamCollected ==
  \A i \in Conns :
    (expired[i] /\ chan[sub[i]] # <<>>) ~> (sub[i] \notin subs \/ panicked)

(* The SDK's channel closes when the connection drops, and when ctx is done *)
(* and one more frame, or an error, ends the read it was in.                *)
StreamCloses ==
  \A i \in Conns :
    /\ (reader[i] \in {"check", "read"} /\ conn[i] \in {"finished", "cut"})
         ~> (reader[i] = "closed")
    /\ (ctxDone[i] /\ wire[i] # <<>>) ~> (reader[i] = "closed" \/ conn[i] = "stalled")
=============================================================================
