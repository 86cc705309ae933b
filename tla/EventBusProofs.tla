--------------------------- MODULE EventBusProofs ---------------------------
(***************************************************************************)
(* Proofs about EventBus, for any number of runners, types, events and     *)
(* subscriptions, any capacity and both modes.                             *)
(***************************************************************************)
EXTENDS EventBus, FiniteSetTheorems, TLAPS

(* The events in the hands of a runner.                                    *)
InHand == {run[r].ev : r \in {q \in Runners : Busy(q)}}

(* A runner that is calling handlers still has to call, or has called,     *)
(* every handler subscribed before its event was published.                *)
CallingOK ==
  \A r \in Runners :
    /\ run[r].pc # "call" => run[r].todo = {}
    /\ run[r].todo \subseteq 1 .. nextID
    /\ Busy(r) => run[r].ev \in 1 .. Len(log)
    /\ run[r].pc = "call" =>
         \A h \in subs[log[run[r].ev]] :
           born[h] < run[r].ev => h \in run[r].todo \/ <<h, run[r].ev>> \in delivered

(* A handler call belongs to a dispatch that is over, or that is going on  *)
(* and will not repeat it.                                                 *)
DeliveredOK ==
  \A h \in SubID, n \in EventID :
    <<h, n>> \in delivered =>
      \/ n \in done
      \/ \E r \in Runners :
           run[r].pc = "call" /\ run[r].ev = n /\ h \notin run[r].todo

Callers(h) == {r \in Runners : h \in run[r].todo}

(* LateCallsBounded counts the calls that are still to come as well.       *)
LateOK ==
  /\ \A h \in SubID : h \in Subscribed \/ h > nextID => late[h] = 0
  /\ \A h \in SubID : h \notin Subscribed =>
       late[h] + Cardinality(Callers(h)) <= Cardinality(Runners)

IInv ==
  /\ TypeOK
  /\ EventInOnePlace
  /\ CallingOK
  /\ DeliveredOK
  /\ SubscriberNotMissed
  /\ LateOK

-----------------------------------------------------------------------------
(* Lemmas about the queue                                                  *)

(* Publish puts one more event in the queue.                               *)
LEMMA AppendElements ==
  ASSUME NEW S, NEW s \in Seq(S), NEW x \in S
  PROVE  {Append(s, x)[i] : i \in DOMAIN Append(s, x)} = {s[i] : i \in DOMAIN s} \cup {x}
<1> DEFINE a == Append(s, x)
<1>1. /\ DOMAIN a = 1 .. (Len(s) + 1)
      /\ DOMAIN s = 1 .. Len(s)
      /\ Len(s) \in Nat
      /\ a[Len(s) + 1] = x
      /\ \A i \in 1 .. Len(s) : a[i] = s[i]
  OBVIOUS
<1>2. \A i \in DOMAIN a : i \in DOMAIN s \/ i = Len(s) + 1
  BY <1>1
<1>3. DOMAIN s \subseteq DOMAIN a /\ Len(s) + 1 \in DOMAIN a
  BY <1>1
<1> QED
  BY <1>1, <1>2, <1>3

(* The same, said of the events the queue holds.                          *)
LEMMA QueueAppended ==
  ASSUME TypeOK, NEW e \in EventID, queue' = Append(queue, e)
  PROVE  QueueAt' = QueueAt \cup {e}
<1>1. queue \in Seq(EventID)
  BY DEF TypeOK
<1>2. {Append(queue, e)[i] : i \in DOMAIN Append(queue, e)} = {queue[i] : i \in DOMAIN queue} \cup {e}
  BY <1>1, AppendElements, SMTT(30)
<1> QED
  BY <1>2, Zenon DEF QueueAt

(* A worker takes the oldest event, and no other, out of the queue.        *)
LEMMA TailElements ==
  ASSUME NEW S \in SUBSET Nat, NEW s \in Seq(S), s # <<>>,
         \A i, j \in DOMAIN s : i < j => s[i] < s[j]
  PROVE  /\ {Tail(s)[i] : i \in DOMAIN Tail(s)} = {s[i] : i \in DOMAIN s} \ {Head(s)}
         /\ Head(s) \in {s[i] : i \in DOMAIN s}
         /\ \A i, j \in DOMAIN Tail(s) : i < j => Tail(s)[i] < Tail(s)[j]
<1>1. /\ Len(s) \in Nat \ {0}
      /\ DOMAIN s = 1 .. Len(s)
      /\ Tail(s) \in Seq(S)
      /\ DOMAIN Tail(s) = 1 .. (Len(s) - 1)
      /\ Head(s) = s[1]
      /\ \A i \in 1 .. (Len(s) - 1) : Tail(s)[i] = s[i + 1]
  OBVIOUS
<1>2. 1 \in DOMAIN s /\ \A i \in DOMAIN s : s[i] \in Nat
  <2>1. 1 \in DOMAIN s
    BY <1>1
  <2>2. \A i \in DOMAIN s : s[i] \in S
    BY <1>1
  <2> QED
    BY <2>1, <2>2, Zenon
<1>3. \A i \in DOMAIN Tail(s) : i + 1 \in DOMAIN s /\ 1 < i + 1
  BY <1>1
<1>4. \A i \in DOMAIN s : i # 1 => i - 1 \in DOMAIN Tail(s) /\ s[i] = Tail(s)[i - 1]
  BY <1>1
<1>5. \A i \in DOMAIN s : i # 1 => s[1] < s[i]
  BY <1>1, <1>2
<1>6. ASSUME NEW i \in DOMAIN Tail(s)
      PROVE  Tail(s)[i] \in {s[k] : k \in DOMAIN s} \ {Head(s)}
  <2>1. Tail(s)[i] = s[i + 1] /\ i + 1 \in DOMAIN s /\ i + 1 # 1
    BY <1>1, <1>3
  <2> QED
    BY <2>1, <1>1, <1>2, <1>5
<1>7. ASSUME NEW k \in DOMAIN s, s[k] # Head(s)
      PROVE  s[k] \in {Tail(s)[i] : i \in DOMAIN Tail(s)}
  BY <1>1, <1>4, <1>7, Zenon
<1>8. ASSUME NEW i \in DOMAIN Tail(s), NEW j \in DOMAIN Tail(s), i < j
      PROVE  Tail(s)[i] < Tail(s)[j]
  <2>1. i + 1 \in DOMAIN s /\ j + 1 \in DOMAIN s /\ i + 1 < j + 1
    BY <1>1, <1>3, <1>8
  <2> QED
    BY <2>1, <1>1
<1>9. {Tail(s)[i] : i \in DOMAIN Tail(s)} \subseteq {s[i] : i \in DOMAIN s} \ {Head(s)}
  BY <1>6
<1>10. {s[i] : i \in DOMAIN s} \ {Head(s)} \subseteq {Tail(s)[i] : i \in DOMAIN Tail(s)}
  BY <1>7
<1>11. Head(s) \in {s[i] : i \in DOMAIN s}
  BY <1>1, <1>2
<1> QED
  BY <1>8, <1>9, <1>10, <1>11, Zenon

(* Initially nothing is published, queued or running.                      *)
LEMMA InitIInv == Init => IInv
<1> SUFFICES ASSUME Init PROVE IInv
  OBVIOUS
<1> USE BusAssumption
<1>1. TypeOK
  <2>1. run \in [Runners -> [pc : {"idle", "copy", "call", "stopped"},
                             ev : 0 .. MaxEvents, todo : SUBSET SubID]]
    BY DEF Init, NoJob
  <2>2. born \in [SubID -> 0 .. MaxEvents] /\ late \in [SubID -> Nat]
    BY DEF Init
  <2>3. queue \in Seq(EventID) /\ log \in Seq(Types) /\ Len(queue) = 0 /\ Len(log) = 0
    BY DEF Init
  <2>4. subs \in [Types -> SUBSET (1 .. nextID)] /\ nextID \in 0 .. MaxSubs
    BY DEF Init
  <2>5. /\ closed \in BOOLEAN
        /\ dropped \subseteq EventID
        /\ done \subseteq EventID
        /\ delivered \subseteq SubID \X EventID
    BY Zenon DEF Init
  <2> QED
    BY <2>1, <2>2, <2>3, <2>4, <2>5 DEF TypeOK
<1>2. EventInOnePlace
  <2>1. QueueAt = {} /\ 1 .. Len(log) = {} /\ \A r \in Runners : ~Busy(r)
    BY DEF Init, QueueAt, Busy, NoJob
  <2> QED
    BY <2>1 DEF Init, EventInOnePlace
<1>3. CallingOK /\ DeliveredOK /\ SubscriberNotMissed
  BY DEF Init, CallingOK, DeliveredOK, SubscriberNotMissed, Busy, NoJob
<1>4. LateOK
  <2>1. \A h : Callers(h) = {}
    BY DEF Init, Callers, NoJob
  <2>2. Cardinality(Runners) \in Nat /\ Cardinality({}) = 0
    BY FS_CardinalityType, FS_EmptySet
  <2>3. \A h \in SubID : late[h] = 0
    BY DEF Init
  <2>4. \A h \in SubID : late[h] + Cardinality(Callers(h)) <= Cardinality(Runners)
    <3> TAKE h \in SubID
    <3> QED
      BY <2>1, <2>2, <2>3
  <2> QED
    BY <2>3, <2>4 DEF LateOK
<1> QED
  BY <1>1, <1>2, <1>3, <1>4 DEF IInv

-----------------------------------------------------------------------------
(* What the steps have in common                                           *)

RunType == [pc : {"idle", "copy", "call", "stopped"},
            ev : 0 .. MaxEvents, todo : SUBSET SubID]

(* The runners keep their type.                                             *)
LEMMA RunTypeDef == TypeOK => run \in [Runners -> RunType]
BY DEF TypeOK, RunType

(* The places of the events depend on the queue, the log, the two sets and *)
(* on who is busy with what; steps that change none of them keep them.     *)
LEMMA PlacesStay ==
  ASSUME EventInOnePlace, UNCHANGED <<queue, log, dropped, done>>,
         \A r \in Runners : Busy(r)' = Busy(r) /\ (Busy(r) => run'[r].ev = run[r].ev)
  PROVE  EventInOnePlace'
<1>1. QueueAt' = QueueAt
  BY DEF QueueAt
<1>2. {run[r].ev : r \in {q \in Runners : Busy(q)}}'
        = {run[r].ev : r \in {q \in Runners : Busy(q)}}
  <2>1. {q \in Runners : Busy(q)}' = {q \in Runners : Busy(q)}
    OBVIOUS
  <2> QED
    BY <2>1
<1>3. \A r, q \in Runners : r # q /\ Busy(r)' /\ Busy(q)' => run'[r].ev # run'[q].ev
  BY DEF EventInOnePlace
<1>4. \A r \in Runners : Busy(r)' => run'[r].ev \notin (QueueAt \cup dropped \cup done)'
  BY <1>1 DEF EventInOnePlace
<1> QED
  BY <1>1, <1>2, <1>3, <1>4 DEF EventInOnePlace

(* The number of runners about to call a handler is at most the number of  *)
(* runners.                                                                *)
LEMMA CallersBound ==
  ASSUME NEW h
  PROVE  /\ IsFiniteSet(Callers(h))
         /\ Cardinality(Callers(h)) \in Nat
         /\ Cardinality(Runners) \in Nat
         /\ Cardinality(Callers(h)) <= Cardinality(Runners)
<1>1. Callers(h) \subseteq Runners /\ IsFiniteSet(Runners)
  BY BusAssumption DEF Callers
<1> QED
  BY <1>1, FS_Subset, FS_CardinalityType

(* A step that calls no handler and ends no subscription keeps LateOK.      *)
LEMMA LateStays ==
  ASSUME LateOK, UNCHANGED <<nextID, subs, late>>,
         \A r \in Runners, h \in SubID :
           h \notin Subscribed => (h \in run'[r].todo <=> h \in run[r].todo)
  PROVE  LateOK'
<1>1. Subscribed' = Subscribed
  BY DEF Subscribed
<1>2. ASSUME NEW h \in SubID, h \notin Subscribed
      PROVE  Callers(h)' = Callers(h)
  BY <1>2 DEF Callers
<1>3. \A h \in SubID : h \notin Subscribed =>
        (late[h] + Cardinality(Callers(h)) <= Cardinality(Runners))'
  BY <1>2 DEF LateOK
<1> QED
  BY <1>1, <1>3 DEF LateOK

-----------------------------------------------------------------------------
(* One lemma per step                                                      *)

(* A new subscription misses nothing: every event there is was published   *)
(* before it.                                                              *)
LEMMA SubscribeStep ==
  ASSUME IInv, NEW t \in Types, Subscribe(t)
  PROVE  IInv'
<1> USE BusAssumption
<1> DEFINE id == nextID + 1
<1>1. /\ TypeOK /\ EventInOnePlace /\ CallingOK /\ DeliveredOK
      /\ SubscriberNotMissed /\ LateOK
  BY DEF IInv
<1>2. /\ id \in SubID /\ nextID \in Nat /\ nextID' = id /\ Len(log) \in 0 .. MaxEvents
      /\ subs' = [subs EXCEPT ![t] = @ \cup {id}]
      /\ born' = [born EXCEPT ![id] = Len(log)]
      /\ UNCHANGED <<queue, closed, run, log, dropped, done, delivered, late>>
  BY <1>1 DEF Subscribe, TypeOK, SubID
<1>3. \A u \in Types : subs[u] \subseteq 1 .. nextID /\ subs'[u] \subseteq subs[u] \cup {id}
  BY <1>1, <1>2 DEF TypeOK
<1>4. /\ born'[id] = Len(log)
      /\ \A h \in 1 .. nextID : born'[h] = born[h]
  BY <1>1, <1>2 DEF TypeOK, SubID
<1>5. TypeOK'
  <2>1. nextID' \in 0 .. MaxSubs
    BY <1>2 DEF SubID
  <2>2. subs' \in [Types -> SUBSET (1 .. nextID')]
    <3>1. 1 .. nextID' = (1 .. nextID) \cup {id}
      BY <1>2
    <3> QED
      BY <1>1, <1>2, <3>1 DEF TypeOK
  <2>3. born' \in [SubID -> 0 .. MaxEvents]
    BY <1>1, <1>2 DEF TypeOK
  <2> QED
    BY <1>1, <1>2, <2>1, <2>2, <2>3 DEF TypeOK
<1>6. EventInOnePlace'
  BY <1>1, <1>2, PlacesStay DEF Busy
<1>7. done \subseteq 1 .. Len(log)
  BY <1>1 DEF EventInOnePlace
<1>8. CallingOK'
  <2> SUFFICES ASSUME NEW r \in Runners
               PROVE  /\ run[r].pc # "call" => run[r].todo = {}
                      /\ run[r].todo \subseteq 1 .. nextID'
                      /\ Busy(r) => run[r].ev \in 1 .. Len(log)
                      /\ run[r].pc = "call" =>
                           \A h \in subs'[log[run[r].ev]] :
                             born'[h] < run[r].ev =>
                               h \in run[r].todo \/ <<h, run[r].ev>> \in delivered
    BY <1>2 DEF CallingOK, Busy
  <2>1. run[r].todo \subseteq 1 .. nextID'
    BY <1>1, <1>2 DEF CallingOK
  <2>2. ASSUME run[r].pc = "call", NEW h \in subs'[log[run[r].ev]], born'[h] < run[r].ev
        PROVE  h \in run[r].todo \/ <<h, run[r].ev>> \in delivered
    <3>1. run[r].ev \in 1 .. Len(log) /\ log[run[r].ev] \in Types
      BY <1>1, <2>2 DEF CallingOK, Busy, TypeOK
    <3>2. h \in subs[log[run[r].ev]]
      BY <1>2, <1>3, <1>4, <2>2, <3>1
    <3> QED
      BY <1>1, <1>3, <1>4, <2>2, <3>1, <3>2 DEF CallingOK
  <2> QED
    BY <1>1, <2>1, <2>2 DEF CallingOK
<1>9. DeliveredOK'
  BY <1>1, <1>2 DEF DeliveredOK
<1>10. SubscriberNotMissed'
  <2> SUFFICES ASSUME NEW n \in done, NEW h \in subs'[log[n]], born'[h] < n
               PROVE  <<h, n>> \in delivered
    BY <1>2 DEF SubscriberNotMissed
  <2>1. n \in 1 .. Len(log) /\ log[n] \in Types
    BY <1>1, <1>7 DEF TypeOK
  <2>2. h \in subs[log[n]]
    BY <1>2, <1>3, <1>4, <2>1
  <2> QED
    BY <1>1, <1>3, <1>4, <2>1, <2>2 DEF SubscriberNotMissed
<1>11. LateOK'
  <2>1. Subscribed \subseteq Subscribed' /\ id \in Subscribed' /\ Subscribed' \subseteq Subscribed \cup {id}
    BY <1>1, <1>2 DEF Subscribed, TypeOK
  <2>2. \A h \in SubID : h > nextID' \/ h \in Subscribed' => h > nextID \/ h \in Subscribed
    BY <1>2, <2>1 DEF SubID
  <2>3. \A h : Callers(h)' = Callers(h)
    BY <1>2 DEF Callers
  <2>4. ASSUME NEW h \in SubID, h \notin Subscribed'
        PROVE  (late[h] + Cardinality(Callers(h)) <= Cardinality(Runners))'
    BY <1>1, <1>2, <2>1, <2>3, <2>4 DEF LateOK
  <2> QED
    BY <1>1, <1>2, <2>2, <2>4 DEF LateOK
<1> QED
  BY <1>5, <1>6, <1>8, <1>9, <1>10, <1>11 DEF IInv

(* Unsubscribing takes obligations away; from then on calls are late.      *)
LEMMA UnsubscribeStep ==
  ASSUME IInv, NEW t \in Types, NEW id \in 1 .. nextID, Unsubscribe(t, id)
  PROVE  IInv'
<1> USE BusAssumption
<1>1. /\ TypeOK /\ EventInOnePlace /\ CallingOK /\ DeliveredOK
      /\ SubscriberNotMissed /\ LateOK
  BY DEF IInv
<1>2. /\ subs' = [subs EXCEPT ![t] = @ \ {id}]
      /\ UNCHANGED <<nextID, queue, closed, run, log, dropped, done, delivered, born, late>>
  BY DEF Unsubscribe, hist
<1>3. subs' \in [Types -> SUBSET (1 .. nextID)] /\ \A u \in Types : subs'[u] \subseteq subs[u]
  BY <1>1, <1>2 DEF TypeOK
<1>4. TypeOK'
  BY <1>1, <1>2, <1>3 DEF TypeOK
<1>5. EventInOnePlace'
  BY <1>1, <1>2, PlacesStay DEF Busy
<1>6. done \subseteq 1 .. Len(log)
  BY <1>1 DEF EventInOnePlace
<1>7. \A n \in 1 .. Len(log) : log[n] \in Types
  BY <1>1 DEF TypeOK
<1>8. CallingOK'
  <2>1. \A r \in Runners : run[r].pc = "call" => subs'[log[run[r].ev]] \subseteq subs[log[run[r].ev]]
    BY <1>1, <1>3, <1>7 DEF CallingOK, Busy
  <2> QED
    BY <1>1, <1>2, <2>1 DEF CallingOK, Busy
<1>9. DeliveredOK'
  BY <1>1, <1>2 DEF DeliveredOK
<1>10. SubscriberNotMissed'
  BY <1>1, <1>2, <1>3, <1>6, <1>7 DEF SubscriberNotMissed
<1>11. LateOK'
  <2>1. Subscribed' \subseteq Subscribed
    BY <1>1, <1>2, <1>3 DEF Subscribed, TypeOK
  <2>2. \A h : Callers(h)' = Callers(h)
    BY <1>2 DEF Callers
  <2>3. ASSUME NEW h \in SubID
        PROVE  h \notin Subscribed' =>
                 (late[h] + Cardinality(Callers(h)) <= Cardinality(Runners))'
    <3>1. CASE h \in Subscribed
      BY <1>1, <1>2, <2>2, <3>1, CallersBound DEF LateOK
    <3>2. CASE h \notin Subscribed
      BY <1>1, <1>2, <2>2, <3>2 DEF LateOK
    <3> QED
      BY <3>1, <3>2
  <2> QED
    BY <1>1, <1>2, <2>1, <2>3 DEF LateOK
<1> QED
  BY <1>4, <1>5, <1>8, <1>9, <1>10, <1>11 DEF IInv

(* A longer log is the same log for the events it already had.             *)
LEMMA LogGrows ==
  ASSUME IInv, NEW t \in Types, log' = Append(log, t), Len(log) + 1 <= MaxEvents
  PROVE  /\ log' \in Seq(Types)
         /\ Len(log) \in Nat
         /\ Len(log') = Len(log) + 1
         /\ Len(log') <= MaxEvents
         /\ Len(log) + 1 \in EventID
         /\ 1 .. Len(log') = (1 .. Len(log)) \cup {Len(log) + 1}
         /\ \A n \in 1 .. Len(log) : log'[n] = log[n]
<1>1. log \in Seq(Types) /\ Len(log) \in Nat
  BY DEF IInv, TypeOK
<1>2. log' \in Seq(Types) /\ Len(log') = Len(log) + 1
  BY <1>1
<1>3. \A n \in 1 .. Len(log) : log'[n] = log[n]
  BY <1>1
<1>4. 1 .. Len(log') = (1 .. Len(log)) \cup {Len(log) + 1}
  BY <1>1, <1>2
<1> QED
  BY <1>1, <1>2, <1>3, <1>4, BusAssumption DEF EventID

(* The conjuncts that speak of handlers do not notice a new event.         *)
LEMMA HandlersStay ==
  ASSUME IInv, NEW t \in Types, log' = Append(log, t), Len(log) + 1 <= MaxEvents,
         UNCHANGED <<nextID, subs, done, delivered, born, late>>,
         \A r \in Runners :
           \/ run'[r] = run[r]
           \/ /\ ~Busy(r)
              /\ run'[r] = [pc |-> "copy", ev |-> Len(log) + 1, todo |-> {}]
  PROVE  CallingOK' /\ DeliveredOK' /\ SubscriberNotMissed' /\ LateOK'
<1>1. /\ TypeOK /\ EventInOnePlace /\ CallingOK /\ DeliveredOK
      /\ SubscriberNotMissed /\ LateOK
  BY DEF IInv
<1>2. /\ Len(log) \in Nat /\ Len(log') = Len(log) + 1
      /\ \A n \in 1 .. Len(log) : log'[n] = log[n]
  BY LogGrows
<1>3. done \subseteq 1 .. Len(log)
  BY <1>1 DEF EventInOnePlace
<1>4. CallingOK'
  <2> SUFFICES ASSUME NEW r \in Runners
               PROVE  /\ run'[r].pc # "call" => run'[r].todo = {}
                      /\ run'[r].todo \subseteq 1 .. nextID
                      /\ Busy(r)' => run'[r].ev \in 1 .. Len(log')
                      /\ run'[r].pc = "call" =>
                           \A h \in subs[log'[run'[r].ev]] :
                             born[h] < run'[r].ev =>
                               h \in run'[r].todo \/ <<h, run'[r].ev>> \in delivered
    BY Zenon DEF CallingOK
  <2>1. CASE run'[r] = run[r]
    BY <1>1, <1>2, <2>1 DEF CallingOK, Busy
  <2>2. CASE run'[r] = [pc |-> "copy", ev |-> Len(log) + 1, todo |-> {}]
    BY <1>2, <2>2 DEF Busy
  <2> QED
    BY <2>1, <2>2, Zenon
<1>5. DeliveredOK'
  <2>1. \A r \in Runners : run[r].pc = "call" => run'[r] = run[r]
    BY DEF Busy
  <2> QED
    BY <1>1, <2>1 DEF DeliveredOK
<1>6. SubscriberNotMissed'
  BY <1>1, <1>2, <1>3 DEF SubscriberNotMissed
<1>7. LateOK'
  <2>1. ASSUME NEW r \in Runners
        PROVE  run'[r].todo = run[r].todo
    <3>1. CASE run'[r] = run[r]
      BY <3>1
    <3>2. CASE ~Busy(r) /\ run'[r] = [pc |-> "copy", ev |-> Len(log) + 1, todo |-> {}]
      <4>1. run[r].todo = {}
        BY <1>1, <3>2 DEF CallingOK, Busy
      <4> QED
        BY <3>2, <4>1
    <3> QED
      BY <3>1, <3>2
  <2> QED
    BY <1>1, <2>1, LateStays
<1> QED
  BY <1>4, <1>5, <1>6, <1>7

(* Publishing to the queue, or finding it full.                            *)
LEMMA PublishAsyncStep ==
  ASSUME IInv, NEW t \in Types, PublishAsync(t)
  PROVE  IInv'
<1> USE BusAssumption
<1> DEFINE n == Len(log) + 1
<1>1. TypeOK /\ EventInOnePlace
  BY DEF IInv
<1>2. /\ n <= MaxEvents
      /\ log' = Append(log, t)
      /\ UNCHANGED <<nextID, subs, closed, run, done, delivered, born, late>>
      /\ \/ Len(queue) < Capacity /\ queue' = Append(queue, n) /\ dropped' = dropped
         \/ dropped' = dropped \cup {n} /\ queue' = queue
  BY DEF PublishAsync
<1>3. /\ log' \in Seq(Types)
      /\ Len(log) \in Nat
      /\ Len(log') <= MaxEvents
      /\ n \in EventID
      /\ 1 .. Len(log') = (1 .. Len(log)) \cup {n}
  BY <1>2, LogGrows
<1>4. CallingOK' /\ DeliveredOK' /\ SubscriberNotMissed' /\ LateOK'
  BY <1>2, HandlersStay
<1>5. queue' \in Seq(EventID) /\ Len(queue') <= Capacity /\ dropped' \subseteq EventID
  <2>1. queue \in Seq(EventID) /\ Len(queue) \in Nat /\ Len(queue) <= Capacity
    BY <1>1 DEF TypeOK
  <2>2. CASE Len(queue) < Capacity /\ queue' = Append(queue, n) /\ dropped' = dropped
    <3>1. queue' \in Seq(EventID) /\ Len(queue') = Len(queue) + 1
      BY <1>3, <2>1, <2>2
    <3> QED
      BY <1>1, <2>1, <2>2, <3>1 DEF TypeOK
  <2>3. CASE dropped' = dropped \cup {n} /\ queue' = queue
    BY <1>1, <1>3, <2>3 DEF TypeOK
  <2> QED
    BY <1>2, <2>2, <2>3
<1>6. TypeOK'
  BY Zenon, <1>1, <1>2, <1>3, <1>5 DEF TypeOK
<1>7. /\ QueueAt \cup dropped \cup done \subseteq 1 .. Len(log)
      /\ \A r \in Runners : Busy(r) => run[r].ev \in 1 .. Len(log)
      /\ n \notin 1 .. Len(log)
  BY <1>1, <1>3 DEF EventInOnePlace
<1>8. /\ QueueAt' \cup dropped' = QueueAt \cup dropped \cup {n}
      /\ QueueAt' \subseteq QueueAt \cup {n}
      /\ dropped' \subseteq dropped \cup {n}
      /\ QueueAt' \cap dropped' = {}
      /\ \A i, j \in DOMAIN queue' : i < j => queue'[i] < queue'[j]
  <2>1. CASE queue' = Append(queue, n) /\ dropped' = dropped
    <3>1. QueueAt' = QueueAt \cup {n}
      BY <1>1, <1>3, <2>1, QueueAppended
    <3>2. /\ Len(queue) \in Nat /\ queue \in Seq(EventID)
          /\ DOMAIN queue = 1 .. Len(queue) /\ DOMAIN queue' = 1 .. Len(queue) + 1
          /\ \A i \in 1 .. Len(queue) : queue'[i] = queue[i]
          /\ queue'[Len(queue) + 1] = n
      BY <1>1, <2>1 DEF TypeOK
    <3>3. \A i \in DOMAIN queue : queue[i] \in 1 .. Len(log)
      BY <1>7 DEF QueueAt
    <3>4. ASSUME NEW i \in DOMAIN queue', NEW j \in DOMAIN queue', i < j
          PROVE  queue'[i] < queue'[j]
      <4>1. i \in DOMAIN queue
        BY <3>2, <3>4
      <4>2. CASE j \in DOMAIN queue
        BY <1>1, <3>2, <3>4, <4>1, <4>2 DEF EventInOnePlace
      <4>3. CASE j = Len(queue) + 1
        BY <1>3, <3>2, <3>3, <4>1, <4>3
      <4> QED
        BY <3>2, <4>2, <4>3
    <3> QED
      BY <1>1, <1>7, <2>1, <3>1, <3>4 DEF EventInOnePlace
  <2>2. CASE dropped' = dropped \cup {n} /\ queue' = queue
    <3>1. QueueAt' = QueueAt
      BY <2>2 DEF QueueAt
    <3> QED
      BY <1>1, <1>7, <2>2, <3>1 DEF EventInOnePlace
  <2> QED
    BY <1>2, <2>1, <2>2
<1>9. EventInOnePlace'
  <2>1. \A r \in Runners : Busy(r)' = Busy(r)
    BY <1>2 DEF Busy
  <2>2. InHand' = InHand
    BY <1>2, <2>1 DEF InHand
  <2>3. 1 .. Len(log') = (QueueAt \cup dropped \cup done \cup InHand)'
    BY <1>1, <1>2, <1>3, <1>8, <2>2, Zenon DEF EventInOnePlace, InHand
  <2>4. \A r \in Runners : Busy(r)' => run'[r].ev \notin (QueueAt \cup dropped \cup done)'
    BY <1>1, <1>2, <1>7, <1>8, <2>1 DEF EventInOnePlace
  <2>5. \A r, q \in Runners : r # q /\ Busy(r)' /\ Busy(q)' => run'[r].ev # run'[q].ev
    BY <1>1, <1>2, <2>1 DEF EventInOnePlace
  <2>6. (QueueAt \cap (dropped \cup done))' = {} /\ (dropped \cap done)' = {}
    BY <1>1, <1>2, <1>7, <1>8 DEF EventInOnePlace
  <2> QED
    BY <1>8, <2>3, <2>4, <2>5, <2>6 DEF EventInOnePlace, InHand
<1> QED
  BY <1>4, <1>6, <1>9 DEF IInv

(* A publisher that dispatches its event itself.                           *)
LEMMA PublishSyncStep ==
  ASSUME IInv, NEW r \in Runners, NEW t \in Types, PublishSync(r, t)
  PROVE  IInv'
<1> USE BusAssumption
<1> DEFINE n == Len(log) + 1
<1>1. TypeOK /\ EventInOnePlace
  BY DEF IInv
<1>2. /\ n <= MaxEvents
      /\ run[r].pc = "idle"
      /\ log' = Append(log, t)
      /\ run' = [run EXCEPT ![r] = [pc |-> "copy", ev |-> n, todo |-> {}]]
      /\ UNCHANGED <<nextID, subs, queue, closed, dropped, done, delivered, born, late>>
  BY DEF PublishSync
<1>3. /\ log' \in Seq(Types)
      /\ Len(log) \in Nat
      /\ Len(log') <= MaxEvents
      /\ n \in EventID
      /\ 1 .. Len(log') = (1 .. Len(log)) \cup {n}
  BY <1>2, LogGrows
<1>4. /\ run'[r] = [pc |-> "copy", ev |-> n, todo |-> {}]
      /\ \A q \in Runners : q # r => run'[q] = run[q]
      /\ ~Busy(r)
  BY <1>1, <1>2 DEF TypeOK, Busy
<1>5. CallingOK' /\ DeliveredOK' /\ SubscriberNotMissed' /\ LateOK'
  <2>1. \A q \in Runners :
          \/ run'[q] = run[q]
          \/ ~Busy(q) /\ run'[q] = [pc |-> "copy", ev |-> Len(log) + 1, todo |-> {}]
    BY <1>4
  <2> QED
    BY <1>2, <2>1, HandlersStay
<1>6. TypeOK'
  <2>1. [pc |-> "copy", ev |-> n, todo |-> {}] \in RunType
    BY <1>3 DEF RunType, EventID
  <2>2. run' \in [Runners -> RunType]
    BY Zenon, <1>1, <1>2, <2>1, RunTypeDef
  <2> QED
    BY Zenon, <1>1, <1>2, <1>3, <2>2 DEF TypeOK, RunType
<1>7. EventInOnePlace'
  <2>1. /\ QueueAt' = QueueAt
        /\ QueueAt \cup dropped \cup done \subseteq 1 .. Len(log)
        /\ \A q \in Runners : Busy(q) => run[q].ev \in 1 .. Len(log)
        /\ n \notin 1 .. Len(log)
    BY SMTT(20), <1>1, <1>2, <1>3 DEF EventInOnePlace, QueueAt
  <2>2. /\ Busy(r)' /\ run'[r].ev = n
        /\ \A q \in Runners : q # r => Busy(q)' = Busy(q) /\ run'[q].ev = run[q].ev
    BY <1>4 DEF Busy
  <2>3. InHand' = InHand \cup {n}
    BY <1>4, <2>2 DEF InHand
  <2>4. 1 .. Len(log') = (QueueAt \cup dropped \cup done \cup InHand)'
    BY <1>1, <1>2, <1>3, <2>1, <2>3, Zenon DEF EventInOnePlace, InHand
  <2>5. \A q \in Runners : Busy(q)' => run'[q].ev \notin (QueueAt \cup dropped \cup done)'
    BY ZenonT(40), <1>1, <1>2, <2>1, <2>2 DEF EventInOnePlace
  <2>6. \A p, q \in Runners : p # q /\ Busy(p)' /\ Busy(q)' => run'[p].ev # run'[q].ev
    BY <1>1, <2>1, <2>2 DEF EventInOnePlace
  <2> QED
    BY Zenon, <1>1, <1>2, <2>1, <2>4, <2>5, <2>6 DEF EventInOnePlace, InHand
<1> QED
  BY <1>5, <1>6, <1>7 DEF IInv

(* The event leaves the queue for the hands of one worker.                 *)
LEMMA TakeStep ==
  ASSUME IInv, NEW r \in Runners, Take(r)
  PROVE  IInv'
<1> USE BusAssumption
<1>1. /\ TypeOK /\ EventInOnePlace /\ CallingOK /\ DeliveredOK
      /\ SubscriberNotMissed /\ LateOK
  BY DEF IInv
<1>2. /\ run[r].pc = "idle"
      /\ queue # <<>>
      /\ queue' = Tail(queue)
      /\ run' = [run EXCEPT ![r] = [pc |-> "copy", ev |-> Head(queue), todo |-> {}]]
      /\ UNCHANGED <<nextID, subs, closed, log, dropped, done, delivered, born, late>>
  BY DEF Take, hist
<1>3. /\ run'[r] = [pc |-> "copy", ev |-> Head(queue), todo |-> {}]
      /\ \A q \in Runners : q # r => run'[q] = run[q]
      /\ ~Busy(r)
  BY <1>1, <1>2 DEF TypeOK, Busy
<1>4. /\ QueueAt' = QueueAt \ {Head(queue)}
      /\ Head(queue) \in QueueAt
      /\ \A i, j \in DOMAIN queue' : i < j => queue'[i] < queue'[j]
  <2>1. /\ queue \in Seq(EventID) /\ EventID \in SUBSET Nat
        /\ \A i, j \in DOMAIN queue : i < j => queue[i] < queue[j]
    BY <1>1 DEF TypeOK, EventInOnePlace, EventID
  <2>2. /\ {Tail(queue)[i] : i \in DOMAIN Tail(queue)} = QueueAt \ {Head(queue)}
        /\ Head(queue) \in QueueAt
        /\ \A i, j \in DOMAIN Tail(queue) : i < j => Tail(queue)[i] < Tail(queue)[j]
    BY <1>2, <2>1, TailElements, Zenon DEF QueueAt
  <2> QED
    BY Zenon, <1>2, <2>2 DEF QueueAt
<1>5. Head(queue) \in 1 .. Len(log)
  BY <1>1, <1>4 DEF EventInOnePlace
<1>6. TypeOK'
  <2>1. queue' \in Seq(EventID) /\ Len(queue') <= Capacity /\ Head(queue) \in EventID
    <3>1. queue \in Seq(EventID) /\ Len(queue) <= Capacity
      BY <1>1 DEF TypeOK
    <3>2. Head(queue) \in EventID /\ Tail(queue) \in Seq(EventID) /\ Len(Tail(queue)) <= Len(queue)
      BY <1>2, <3>1
    <3> QED
      BY <1>2, <3>1, <3>2
  <2>2. [pc |-> "copy", ev |-> Head(queue), todo |-> {}] \in RunType
    BY <2>1 DEF RunType, EventID
  <2>3. run' \in [Runners -> RunType]
    BY <1>1, <1>2, <2>2, RunTypeDef
  <2> QED
    BY <1>1, <1>2, <2>1, <2>3 DEF TypeOK, RunType
<1>7. EventInOnePlace'
  <2>1. /\ Busy(r)' /\ run'[r].ev = Head(queue)
        /\ \A q \in Runners : q # r => Busy(q)' = Busy(q) /\ run'[q].ev = run[q].ev
    BY <1>3 DEF Busy
  <2>2. InHand' = InHand \cup {Head(queue)}
    BY <1>3, <2>1 DEF InHand
  <2>3. 1 .. Len(log') = (QueueAt \cup dropped \cup done \cup InHand)'
    BY <1>1, <1>2, <1>4, <2>2, Zenon DEF EventInOnePlace, InHand
  <2>4. \A q \in Runners : Busy(q)' => run'[q].ev \notin (QueueAt \cup dropped \cup done)'
    BY <1>1, <1>2, <1>4, <2>1 DEF EventInOnePlace
  <2>5. \A p, q \in Runners : p # q /\ Busy(p)' /\ Busy(q)' => run'[p].ev # run'[q].ev
    BY ZenonT(40), <1>1, <1>4, <2>1 DEF EventInOnePlace
  <2> QED
    BY Zenon, <1>1, <1>2, <1>4, <2>3, <2>4, <2>5 DEF EventInOnePlace, InHand
<1>8. CallingOK'
  <2> DEFINE OK(q) == /\ run[q].pc # "call" => run[q].todo = {}
                      /\ run[q].todo \subseteq 1 .. nextID
                      /\ Busy(q) => run[q].ev \in 1 .. Len(log)
                      /\ run[q].pc = "call" =>
                           \A h \in subs[log[run[q].ev]] :
                             born[h] < run[q].ev =>
                               h \in run[q].todo \/ <<h, run[q].ev>> \in delivered
  <2>1. ASSUME NEW q \in Runners, q # r PROVE OK(q)'
    <3>1. run'[q] = run[q] /\ Busy(q)' = Busy(q)
      BY Zenon, <1>3, <2>1 DEF Busy
    <3>2. OK(q)
      BY <1>1 DEF CallingOK
    <3> QED
      BY SMTT(30), <1>2, <3>1, <3>2
  <2>2. OK(r)'
    BY <1>2, <1>3, <1>5
  <2> QED
    BY Zenon, <2>1, <2>2 DEF CallingOK
<1>9. DeliveredOK'
  <2>1. \A q \in Runners : run[q].pc = "call" => run'[q] = run[q]
    BY <1>2, <1>3
  <2> QED
    BY <1>1, <1>2, <2>1 DEF DeliveredOK
<1>10. SubscriberNotMissed'
  BY <1>1, <1>2 DEF SubscriberNotMissed
<1>11. LateOK'
  <2>1. run[r].todo = {} /\ run'[r].todo = {}
    BY <1>1, <1>2, <1>3 DEF CallingOK
  <2>2. \A q \in Runners : run'[q].todo = run[q].todo
    BY <1>3, <2>1
  <2> QED
    BY Zenon, <1>1, <1>2, <2>2, LateStays
<1> QED
  BY <1>6, <1>7, <1>8, <1>9, <1>10, <1>11 DEF IInv

(* A worker that stops was idle; nothing else changes.                     *)
LEMMA StopStep ==
  ASSUME IInv, NEW r \in Runners, Stop(r)
  PROVE  IInv'
<1>1. /\ TypeOK /\ EventInOnePlace /\ CallingOK /\ DeliveredOK
      /\ SubscriberNotMissed /\ LateOK
  BY DEF IInv
<1>2. /\ run[r].pc = "idle"
      /\ run' = [run EXCEPT ![r].pc = "stopped"]
      /\ UNCHANGED <<nextID, subs, queue, closed, log, dropped, done, delivered, born, late>>
  BY DEF Stop, hist
<1>3. /\ run' \in [Runners -> RunType]
      /\ run'[r].pc = "stopped" /\ run'[r].todo = run[r].todo
      /\ \A q \in Runners : q # r => run'[q] = run[q]
  BY <1>1, <1>2, RunTypeDef DEF RunType
<1>4. TypeOK'
  BY <1>1, <1>2, <1>3, Zenon DEF TypeOK, RunType
<1>5. \A q \in Runners : Busy(q)' = Busy(q) /\ (Busy(q) => run'[q] = run[q])
  BY <1>2, <1>3 DEF Busy
<1>6. EventInOnePlace'
  BY <1>1, <1>2, <1>5, PlacesStay
<1>7. CallingOK'
  BY <1>1, <1>2, <1>3 DEF CallingOK, Busy
<1>8. DeliveredOK'
  BY <1>1, <1>2, <1>5 DEF DeliveredOK, Busy
<1>9. SubscriberNotMissed'
  BY <1>1, <1>2 DEF SubscriberNotMissed
<1>10. LateOK'
  <2>1. \A q \in Runners : run'[q].todo = run[q].todo
    BY <1>3
  <2> QED
    BY <1>1, <1>2, <2>1, LateStays
<1> QED
  BY <1>4, <1>6, <1>7, <1>8, <1>9, <1>10 DEF IInv

(* The handlers copied are all those in force, and only those.             *)
LEMMA CopyHandlersStep ==
  ASSUME IInv, NEW r \in Runners, CopyHandlers(r)
  PROVE  IInv'
<1>1. /\ TypeOK /\ EventInOnePlace /\ CallingOK /\ DeliveredOK
      /\ SubscriberNotMissed /\ LateOK
  BY DEF IInv
<1>2. /\ run[r].pc = "copy"
      /\ run' = [run EXCEPT ![r].pc = "call", ![r].todo = subs[log[run[r].ev]]]
      /\ UNCHANGED <<nextID, subs, queue, closed, log, dropped, done, delivered, born, late>>
  BY DEF CopyHandlers, hist
<1>3. /\ run[r].ev \in 1 .. Len(log)
      /\ log[run[r].ev] \in Types
      /\ subs[log[run[r].ev]] \subseteq 1 .. nextID
      /\ 1 .. nextID \subseteq SubID
  BY <1>1, <1>2, BusAssumption DEF CallingOK, Busy, TypeOK, SubID
<1>4. /\ run'[r].pc = "call" /\ run'[r].ev = run[r].ev
      /\ run'[r].todo = subs[log[run[r].ev]]
      /\ \A q \in Runners : q # r => run'[q] = run[q]
  BY <1>1, <1>2, RunTypeDef DEF RunType
<1>5. run' \in [Runners -> RunType]
  BY <1>1, <1>2, <1>3, RunTypeDef, Zenon DEF RunType
<1>6. TypeOK'
  BY <1>1, <1>2, <1>5 DEF TypeOK, RunType
<1>7. \A q \in Runners : Busy(q)' = Busy(q) /\ (Busy(q) => run'[q].ev = run[q].ev)
  <2> TAKE q \in Runners
  <2>1. CASE q = r
    <3>1. Busy(r) /\ Busy(r)'
      BY <1>2, <1>4 DEF Busy
    <3> QED
      BY <1>4, <2>1, <3>1
  <2>2. CASE q # r
    BY <1>4, <2>2 DEF Busy
  <2> QED
    BY <2>1, <2>2
<1>8. EventInOnePlace'
  BY <1>1, <1>2, <1>7, PlacesStay, Zenon
<1>9. CallingOK'
  <2> SUFFICES ASSUME NEW q \in Runners
               PROVE  /\ run'[q].pc # "call" => run'[q].todo = {}
                      /\ run'[q].todo \subseteq 1 .. nextID
                      /\ Busy(q)' => run'[q].ev \in 1 .. Len(log)
                      /\ run'[q].pc = "call" =>
                           \A h \in subs[log[run'[q].ev]] :
                             born[h] < run'[q].ev =>
                               h \in run'[q].todo \/ <<h, run'[q].ev>> \in delivered
    BY <1>2, Zenon DEF CallingOK
  <2>1. CASE q = r
    BY Zenon, <1>3, <1>4, <2>1
  <2>2. CASE q # r
    BY <1>1, <1>4, <2>2 DEF CallingOK, Busy
  <2> QED
    BY <2>1, <2>2
<1>10. DeliveredOK'
  <2> SUFFICES ASSUME NEW h \in SubID, NEW n \in EventID, <<h, n>> \in delivered
               PROVE  \/ n \in done
                      \/ \E q \in Runners :
                           run'[q].pc = "call" /\ run'[q].ev = n /\ h \notin run'[q].todo
    BY <1>2, ZenonT(40) DEF DeliveredOK
  <2>1. \A q \in Runners : run[q].pc = "call" => q # r
    BY <1>2
  <2> QED
    BY <1>1, <1>4, <2>1 DEF DeliveredOK
<1>11. SubscriberNotMissed'
  BY <1>1, <1>2 DEF SubscriberNotMissed
<1>12. LateOK'
  <2>1. subs[log[run[r].ev]] \subseteq Subscribed /\ run[r].todo = {}
    BY <1>1, <1>2, <1>3 DEF Subscribed, CallingOK
  <2>2. \A q \in Runners, h \in SubID :
          h \notin Subscribed => (h \in run'[q].todo <=> h \in run[q].todo)
    BY <1>4, <2>1
  <2> QED
    BY <1>1, <1>2, <2>2, LateStays, Zenon
<1> QED
  BY <1>6, <1>8, <1>9, <1>10, <1>11, <1>12 DEF IInv

(* A call is late when its handler is no longer subscribed: the runner     *)
(* that makes it has one call less to make.                                *)
LEMMA CallHandlerStep ==
  ASSUME IInv, NEW r \in Runners, NEW h \in SubID, CallHandler(r, h)
  PROVE  IInv'
<1>1. /\ TypeOK /\ EventInOnePlace /\ CallingOK /\ DeliveredOK
      /\ SubscriberNotMissed /\ LateOK
  BY DEF IInv
<1>2. /\ run[r].pc = "call" /\ h \in run[r].todo
      /\ run' = [run EXCEPT ![r].todo = @ \ {h}]
      /\ delivered' = delivered \cup {<<h, run[r].ev>>}
      /\ late' = IF h \in Subscribed THEN late ELSE [late EXCEPT ![h] = @ + 1]
      /\ UNCHANGED <<nextID, subs, queue, closed, log, dropped, done, born>>
  BY DEF CallHandler
<1>3. /\ run' \in [Runners -> RunType]
      /\ run'[r].pc = "call" /\ run'[r].ev = run[r].ev
      /\ run'[r].todo = run[r].todo \ {h}
      /\ \A q \in Runners : q # r => run'[q] = run[q]
  BY <1>1, <1>2, RunTypeDef DEF RunType
<1>4. run[r].ev \in EventID
  BY <1>1, <1>2, BusAssumption DEF CallingOK, Busy, TypeOK, EventID
<1>5. TypeOK'
  <2>1. late' \in [SubID -> Nat] /\ delivered' \subseteq SubID \X EventID
    BY <1>1, <1>2, <1>4 DEF TypeOK
  <2> QED
    BY <1>1, <1>2, <1>3, <2>1 DEF TypeOK, RunType
<1>6. \A q \in Runners : Busy(q)' = Busy(q) /\ (Busy(q) => run'[q].ev = run[q].ev)
  BY <1>2, <1>3 DEF Busy
<1>7. EventInOnePlace'
  BY <1>1, <1>2, <1>6, PlacesStay
<1>8. CallingOK'
  BY <1>1, <1>2, <1>3 DEF CallingOK, Busy
<1>9. DeliveredOK'
  <2> SUFFICES ASSUME NEW g \in SubID, NEW n \in EventID, <<g, n>> \in delivered'
               PROVE  \/ n \in done
                      \/ \E q \in Runners :
                           run'[q].pc = "call" /\ run'[q].ev = n /\ g \notin run'[q].todo
    BY <1>2 DEF DeliveredOK
  <2>1. CASE <<g, n>> \in delivered
    BY <1>1, <1>2, <1>3, <2>1 DEF DeliveredOK
  <2>2. CASE <<g, n>> = <<h, run[r].ev>>
    BY <1>3, <2>2
  <2> QED
    BY <1>2, <2>1, <2>2
<1>10. SubscriberNotMissed'
  BY <1>1, <1>2 DEF SubscriberNotMissed
<1>11. LateOK'
  <2>1. Subscribed' = Subscribed
    BY <1>2 DEF Subscribed
  <2>2. \A g \in SubID : g \in Subscribed \/ g > nextID => late'[g] = 0
    <3>1. h <= nextID /\ nextID \in Nat
      BY <1>1, <1>2 DEF CallingOK, TypeOK
    <3> QED
      BY <1>1, <1>2, <3>1 DEF LateOK, TypeOK, SubID
  <2>3. ASSUME NEW g \in SubID, g \notin Subscribed
        PROVE  (late[g] + Cardinality(Callers(g)) <= Cardinality(Runners))'
    <3>1. CASE g # h
      <4>1. Callers(g)' = Callers(g)
        BY <1>3, <3>1 DEF Callers
      <4> QED
        BY <1>1, <1>2, <2>3, <3>1, <4>1 DEF LateOK, TypeOK
    <3>2. CASE g = h
      <4>1. Callers(h)' = Callers(h) \ {r} /\ r \in Callers(h)
        BY <1>2, <1>3 DEF Callers
      <4>2. Cardinality(Callers(h)') = Cardinality(Callers(h)) - 1
        BY <4>1, CallersBound, FS_RemoveElement, Zenon
      <4>3. late'[h] = late[h] + 1 /\ late[h] \in Nat
        BY <1>1, <1>2, <2>3, <3>2 DEF TypeOK
      <4>4. late[h] + Cardinality(Callers(h)) <= Cardinality(Runners)
        BY <1>1, <2>3, <3>2 DEF LateOK
      <4> QED
        BY <3>2, <4>2, <4>3, <4>4, CallersBound
    <3> QED
      BY <3>1, <3>2
  <2> QED
    BY <1>2, <2>1, <2>2, <2>3 DEF LateOK
<1> QED
  BY <1>5, <1>7, <1>8, <1>9, <1>10, <1>11 DEF IInv

(* A dispatch that is over has called every handler it owed.               *)
LEMMA FinishStep ==
  ASSUME IInv, NEW r \in Runners, Finish(r)
  PROVE  IInv'
<1>1. /\ TypeOK /\ EventInOnePlace /\ CallingOK /\ DeliveredOK
      /\ SubscriberNotMissed /\ LateOK
  BY DEF IInv
<1>2. /\ run[r].pc = "call" /\ run[r].todo = {}
      /\ run' = [run EXCEPT ![r] = NoJob]
      /\ done' = done \cup {run[r].ev}
      /\ UNCHANGED <<nextID, subs, queue, closed, log, dropped, delivered, born, late>>
  BY DEF Finish
<1>3. /\ run'[r] = NoJob
      /\ \A q \in Runners : q # r => run'[q] = run[q]
  BY <1>1, <1>2 DEF TypeOK
<1>4. /\ Busy(r) /\ ~Busy(r)'
      /\ \A q \in Runners : q # r => Busy(q)' = Busy(q) /\ run'[q].ev = run[q].ev
  BY <1>2, <1>3 DEF Busy, NoJob
<1>5. run[r].ev \in 1 .. Len(log) /\ run[r].ev \in EventID
  BY <1>1, <1>4, BusAssumption DEF CallingOK, TypeOK, EventID
<1>6. TypeOK'
  <2>1. NoJob \in RunType
    BY BusAssumption DEF NoJob, RunType
  <2>2. run' \in [Runners -> RunType]
    BY Zenon, <1>1, <1>2, <2>1, RunTypeDef
  <2> QED
    BY <1>1, <1>2, <1>5, <2>2 DEF TypeOK, RunType
<1>7. EventInOnePlace'
  <2>1. QueueAt' = QueueAt
    BY <1>2 DEF QueueAt
  <2>2. /\ \A q \in Runners : Busy(q)' => q # r /\ Busy(q)
        /\ InHand' \subseteq InHand
        /\ InHand \subseteq InHand' \cup {run[r].ev}
    BY <1>4 DEF InHand
  <2>3. run[r].ev \in InHand
    BY Zenon, <1>4 DEF InHand
  <2>4. 1 .. Len(log') = (QueueAt \cup dropped \cup done \cup InHand)'
    BY Zenon, <1>1, <1>2, <2>1, <2>2, <2>3 DEF EventInOnePlace, InHand
  <2>5. \A q \in Runners : Busy(q)' => run'[q].ev \notin (QueueAt \cup dropped \cup done)'
    BY <1>1, <1>2, <1>4, <2>1, <2>2 DEF EventInOnePlace
  <2>6. \A p, q \in Runners : p # q /\ Busy(p)' /\ Busy(q)' => run'[p].ev # run'[q].ev
    BY Zenon, <1>1, <1>4, <2>2 DEF EventInOnePlace
  <2>7. (QueueAt \cap (dropped \cup done))' = {} /\ (dropped \cap done)' = {}
    BY Zenon, <1>1, <1>2, <1>4, <2>1 DEF EventInOnePlace
  <2> QED
    BY <1>1, <1>2, <2>4, <2>5, <2>6, <2>7 DEF EventInOnePlace, InHand
<1>8. CallingOK'
  BY <1>1, <1>2, <1>3 DEF CallingOK, Busy, NoJob
<1>9. DeliveredOK'
  <2> SUFFICES ASSUME NEW h \in SubID, NEW n \in EventID, <<h, n>> \in delivered
               PROVE  \/ n \in done'
                      \/ \E q \in Runners :
                           run'[q].pc = "call" /\ run'[q].ev = n /\ h \notin run'[q].todo
    BY <1>2 DEF DeliveredOK
  <2>1. CASE n \in done \/ n = run[r].ev
    BY <1>2, <2>1
  <2>2. CASE n \notin done /\ n # run[r].ev
    <3>1. PICK q \in Runners : run[q].pc = "call" /\ run[q].ev = n /\ h \notin run[q].todo
      BY <1>1, <2>2 DEF DeliveredOK
    <3>2. run'[q] = run[q]
      BY <1>3, <2>2, <3>1
    <3> QED
      BY <3>1, <3>2
  <2> QED
    BY <2>1, <2>2
<1>10. SubscriberNotMissed'
  <2>1. \A h \in subs[log[run[r].ev]] :
          born[h] < run[r].ev => <<h, run[r].ev>> \in delivered
    BY <1>1, <1>2 DEF CallingOK
  <2> QED
    BY <1>1, <1>2, <2>1 DEF SubscriberNotMissed
<1>11. LateOK'
  <2>1. run'[r].todo = run[r].todo
    BY <1>2, <1>3 DEF NoJob
  <2>2. \A q \in Runners : run'[q].todo = run[q].todo
    BY <1>3, <2>1
  <2> QED
    BY <1>1, <1>2, <2>2, LateStays
<1> QED
  BY <1>6, <1>7, <1>8, <1>9, <1>10, <1>11 DEF IInv

(* Close, and steps of other parts of the program, touch none of this.     *)
LEMMA CloseStep ==
  ASSUME IInv, closed' \in BOOLEAN,
         UNCHANGED <<nextID, subs, queue, run, log, dropped, done, delivered, born, late>>
  PROVE  IInv'
<1>1. /\ TypeOK /\ EventInOnePlace /\ CallingOK /\ DeliveredOK
      /\ SubscriberNotMissed /\ LateOK
  BY DEF IInv
<1>2. TypeOK'
  BY <1>1 DEF TypeOK
<1>3. EventInOnePlace'
  BY Zenon, <1>1, PlacesStay DEF Busy
<1>4. CallingOK' /\ DeliveredOK' /\ SubscriberNotMissed'
  BY <1>1 DEF CallingOK, DeliveredOK, SubscriberNotMissed, Busy
<1>5. LateOK'
  BY <1>1, LateStays
<1> QED
  BY <1>2, <1>3, <1>4, <1>5 DEF IInv

(* Every step of the bus keeps the inductive invariant.                     *)
LEMMA NextIInv == IInv /\ [Next]_vars => IInv'
<1> SUFFICES ASSUME IInv, [Next]_vars PROVE IInv'
  OBVIOUS
<1>1. CASE Close
  BY <1>1, CloseStep DEF Close, hist
<1>2. ASSUME NEW t \in Types, Subscribe(t) PROVE IInv'
  BY <1>2, SubscribeStep
<1>3. ASSUME NEW t \in Types, NEW id \in 1 .. nextID, Unsubscribe(t, id) PROVE IInv'
  BY <1>3, UnsubscribeStep
<1>4. ASSUME NEW t \in Types, PublishAsync(t) PROVE IInv'
  BY <1>4, PublishAsyncStep
<1>5. ASSUME NEW r \in Runners, NEW t \in Types, PublishSync(r, t) PROVE IInv'
  BY <1>5, PublishSyncStep
<1>6. ASSUME NEW r \in Runners, Take(r) PROVE IInv'
  BY <1>6, TakeStep
<1>7. ASSUME NEW r \in Runners, Stop(r) PROVE IInv'
  BY <1>7, StopStep
<1>8. ASSUME NEW r \in Runners, CopyHandlers(r) PROVE IInv'
  BY <1>8, CopyHandlersStep
<1>9. ASSUME NEW r \in Runners, NEW h \in SubID, CallHandler(r, h) PROVE IInv'
  BY Zenon, <1>9, CallHandlerStep
<1>10. ASSUME NEW r \in Runners, Finish(r) PROVE IInv'
  BY <1>10, FinishStep
<1>11. CASE UNCHANGED vars
  BY <1>11, CloseStep DEF vars, IInv, TypeOK
<1> QED
  BY <1>1, <1>2, <1>3, <1>4, <1>5, <1>6, <1>7, <1>8, <1>9, <1>10, <1>11 DEF Next, Dispatch

-----------------------------------------------------------------------------
(* Theorems                                                                *)

(* The inductive invariant holds of every behaviour.                        *)
LEMMA SpecIInv == Spec => []IInv
BY InitIInv, NextIInv, PTL DEF Spec

(* The bus keeps its types; in particular the queue never outgrows its     *)
(* capacity.                                                               *)
THEOREM BusTypeCorrect == Spec => []TypeOK
<1>1. IInv => TypeOK
  BY DEF IInv
<1> QED
  BY <1>1, SpecIInv, PTL

(* Publish, the queue and the workers neither lose nor duplicate an event: *)
(* it is refused, waiting, in one runner's hands or dispatched.            *)
THEOREM EventsAreInOnePlace == Spec => []EventInOnePlace
<1>1. IInv => EventInOnePlace
  BY DEF IInv
<1> QED
  BY <1>1, SpecIInv, PTL

(* dispatchSync never gives a handler the same event twice.                *)
THEOREM EventsAreNotRedelivered == Spec => []NeverRedelivered
<1>1. IInv => NeverRedelivered
  <2> SUFFICES ASSUME IInv, NEW r \in Runners, NEW h \in run[r].todo,
                      <<h, run[r].ev>> \in delivered
               PROVE  FALSE
    BY ZenonT(40) DEF NeverRedelivered
  <2>1. /\ run[r].pc = "call" /\ Busy(r)
        /\ run[r].ev \notin done
        /\ h \in SubID /\ run[r].ev \in EventID
    BY DEF IInv, CallingOK, EventInOnePlace, Busy, TypeOK
  <2>2. PICK q \in Runners :
          run[q].pc = "call" /\ run[q].ev = run[r].ev /\ h \notin run[q].todo
    BY <2>1 DEF IInv, DeliveredOK
  <2>3. q = r
    BY <2>1, <2>2 DEF IInv, EventInOnePlace, Busy
  <2> QED
    BY <2>2, <2>3
<1> QED
  BY <1>1, SpecIInv, PTL

(* Copying the handlers under the lock misses none of the subscriptions    *)
(* that were in force when the event was published and still are.          *)
THEOREM SubscribersAreNotMissed == Spec => []SubscriberNotMissed
<1>1. IInv => SubscriberNotMissed
  BY DEF IInv
<1> QED
  BY <1>1, SpecIInv, PTL

(* A handler is called after its unsubscription at most once per runner.   *)
THEOREM LateCallsAreBounded == Spec => []LateCallsBounded
<1>1. IInv => LateCallsBounded
  <2> SUFFICES ASSUME IInv, NEW h \in 1 .. nextID, h \notin Subscribed
               PROVE  late[h] <= Cardinality(Runners)
    BY DEF LateCallsBounded
  <2>1. h \in SubID /\ late[h] \in Nat
    BY BusAssumption DEF IInv, TypeOK, SubID
  <2>2. late[h] + Cardinality(Callers(h)) <= Cardinality(Runners)
    BY <2>1 DEF IInv, LateOK
  <2> QED
    BY <2>1, <2>2, CallersBound
<1> QED
  BY <1>1, SpecIInv, PTL
=============================================================================
