------------------------- MODULE EventStreamProofs -------------------------
(***************************************************************************)
(* For any number of broadcasting goroutines, subscriptions, connections   *)
(* and events: a broadcast meets a closed channel only in a race with      *)
(* Unsubscribe, and events keep their order on the way to the client.      *)
(***************************************************************************)
EXTENDS EventStream, SequenceTheorems, TLAPS

Sending == [ev : Nat, to : SUBSET Nat]

(* An id is given once, so what was closed is never a subscription again,   *)
(* and a worker's copy holds a closed id only if it was closed after the    *)
(* copy was made.                                                           *)
HubInv ==
  /\ next \in Nat
  /\ events \in Nat
  /\ subs \subseteq 1 .. next
  /\ closed \subseteq 1 .. next
  /\ subs \cap closed = {}
  /\ sending \in [Workers -> Sending]
  /\ \A w \in Workers : sending[w].to \cap closed # {} => raced
  /\ panicked => raced

(* The invariant holds of a new hub.                                        *)
LEMMA HubInvInit == Init => HubInv
<1> SUFFICES ASSUME Init PROVE HubInv
  OBVIOUS
<1>1. Idle \in Sending /\ Idle.to = {}
  BY DEF Idle, Sending
<1> QED BY <1>1 DEF Init, HubInit, HubInv

(* Steps of handlers, network and SDK leave the hub alone.                  *)
LEMMA UnchangedKeeps ==
  ASSUME HubInv, UNCHANGED <<next, subs, closed, sending, panicked, events, raced>>
  PROVE  HubInv'
BY DEF HubInv

(* Subscribe gives an id that was never closed.                             *)
LEMMA SubscribeKeeps == HubInv /\ HubSubscribe => HubInv'
<1> SUFFICES ASSUME HubInv, HubSubscribe PROVE HubInv'
  OBVIOUS
<1>1. /\ next' = next + 1 /\ subs' = subs \cup {next + 1}
      /\ UNCHANGED <<closed, sending, panicked, events, raced>>
  BY DEF HubSubscribe
<1>2. subs' \subseteq 1 .. next' /\ closed' \subseteq 1 .. next' /\ next' \in Nat
  BY <1>1 DEF HubInv
<1>3. next + 1 \notin closed
  BY DEF HubInv
<1> QED BY <1>1, <1>2, <1>3 DEF HubInv

(* Unsubscribe closes an id, and records whether a copy holds it.           *)
LEMMA UnsubscribeKeeps ==
  ASSUME HubInv, NEW id, HubUnsubscribe(id)
  PROVE  HubInv'
<1>1. CASE id \notin subs
  BY <1>1, UnchangedKeeps DEF HubUnsubscribe
<1>2. CASE id \in subs
  <2>1. /\ subs' = subs \ {id} /\ closed' = closed \cup {id}
        /\ raced' = (raced \/ \E w \in Workers : id \in sending[w].to)
        /\ UNCHANGED <<next, sending, panicked, events>>
    BY <1>2 DEF HubUnsubscribe
  <2>2. subs' \subseteq 1 .. next' /\ closed' \subseteq 1 .. next' /\ subs' \cap closed' = {}
    BY <1>2, <2>1 DEF HubInv
  <2>3. ASSUME NEW w \in Workers, sending'[w].to \cap closed' # {} PROVE raced'
    <3>1. CASE id \in sending[w].to
      BY Zenon, <2>1, <3>1
    <3>2. CASE id \notin sending[w].to
      BY Zenon, <2>1, <2>3, <3>2 DEF HubInv
    <3> QED BY <3>1, <3>2
  <2>4. panicked' => raced'
    BY Zenon, <2>1 DEF HubInv
  <2> QED BY <2>1, <2>2, <2>3, <2>4 DEF HubInv
<1> QED BY <1>1, <1>2

(* Broadcast copies open channels only.                                     *)
LEMMA CopyKeeps ==
  ASSUME HubInv, NEW w \in Workers, HubCopy(w)
  PROVE  HubInv'
<1> DEFINE new == [ev |-> events + 1, to |-> subs]
<1>1. /\ sending' = [sending EXCEPT ![w] = new] /\ events' = events + 1
      /\ UNCHANGED <<next, subs, closed, panicked, raced>>
  BY DEF HubCopy
<1>2. new \in Sending /\ new.to = subs
  BY DEF HubInv, Sending
<1> HIDE DEF new
<1>3. sending' \in [Workers -> Sending] /\ events' \in Nat
  BY <1>1, <1>2 DEF HubInv
<1>4. ASSUME NEW v \in Workers, sending'[v].to \cap closed' # {} PROVE raced'
  BY Zenon, <1>1, <1>2, <1>4 DEF HubInv
<1> QED BY <1>1, <1>3, <1>4 DEF HubInv

(* A send to a closed channel is one to an id of the copy.                  *)
LEMMA SendKeeps ==
  ASSUME HubInv, NEW w \in Workers, NEW id \in SubID, HubSend(w, id)
  PROVE  HubInv'
<1> DEFINE new == [sending[w] EXCEPT !.to = @ \ {id}]
<1>1. /\ id \in sending[w].to /\ sending' = [sending EXCEPT ![w] = new]
      /\ panicked' = (id \in closed)
      /\ UNCHANGED <<next, subs, closed, events, raced>>
  BY DEF HubSend
<1>2. new \in Sending /\ new.to = sending[w].to \ {id}
  BY DEF HubInv, Sending
<1> HIDE DEF new
<1>3. sending' \in [Workers -> Sending]
  BY <1>1, <1>2 DEF HubInv
<1>4. ASSUME NEW v \in Workers, sending'[v].to \cap closed' # {} PROVE raced'
  <2>1. sending[v].to \cap closed # {}
    BY <1>1, <1>2, <1>4 DEF HubInv
  <2> QED BY <1>1, <2>1 DEF HubInv
<1>5. panicked' => raced'
  BY Zenon, <1>1 DEF HubInv
<1> QED BY <1>1, <1>3, <1>4, <1>5 DEF HubInv

(* Broadcast returns with nothing left to send.                             *)
LEMMA ReturnKeeps ==
  ASSUME HubInv, NEW w \in Workers, HubReturn(w)
  PROVE  HubInv'
<1>1. /\ sending' = [sending EXCEPT ![w] = Idle]
      /\ UNCHANGED <<next, subs, closed, panicked, events, raced>>
  BY DEF HubReturn
<1>2. Idle \in Sending /\ Idle.to = {}
  BY DEF Idle, Sending
<1>3. sending' \in [Workers -> Sending]
  BY <1>1, <1>2 DEF HubInv
<1>4. ASSUME NEW v \in Workers, sending'[v].to \cap closed' # {} PROVE raced'
  BY <1>1, <1>2, <1>4 DEF HubInv
<1> QED BY <1>1, <1>3, <1>4 DEF HubInv

(* Every step of the composition keeps the invariant.                       *)
LEMMA HubInvNext == HubInv /\ [Next]_vars => HubInv'
<1> SUFFICES ASSUME HubInv, [Next]_vars PROVE HubInv'
  OBVIOUS
<1>1. CASE UNCHANGED vars
  BY <1>1, UnchangedKeeps DEF vars, hubVars
<1>2. ASSUME NEW w \in Workers, HubCopy(w) \/ HubStep(w) PROVE HubInv'
  BY <1>2, CopyKeeps, SendKeeps, ReturnKeeps DEF HubStep
<1>3. ASSUME NEW i \in Conns, WsStep(i) PROVE HubInv'
  <2>1. CASE WsSubscribe(i)
    BY <2>1, SubscribeKeeps DEF WsSubscribe
  <2>2. CASE WsReceive(i)
    BY <2>2, UnchangedKeeps DEF WsReceive
  <2>3. CASE WsWrite(i) \/ WsClose(i)
    BY Zenon, <2>3, UnchangedKeeps DEF WsWrite, WsClose, hubVars
  <2>4. CASE WsUnsubscribe(i)
    BY <2>4, UnsubscribeKeeps DEF WsUnsubscribe
  <2> QED BY <1>3, <2>1, <2>2, <2>3, <2>4 DEF WsStep
<1>4. ASSUME NEW i \in Conns,
             \/ Handshake(i) \/ WsDeadline(i) \/ SdkCheck(i) \/ SdkRead(i)
             \/ Consume(i) \/ Cancel(i) \/ Reset(i) \/ Stall(i)
      PROVE  HubInv'
  <2>1. UNCHANGED hubVars
    BY <1>4 DEF Handshake, WsDeadline, SdkCheck, SdkRead, Consume, Cancel, Reset, Stall
  <2> QED BY <2>1, UnchangedKeeps DEF hubVars
<1> QED BY <1>1, <1>2, <1>3, <1>4, SubscribeKeeps, UnsubscribeKeeps DEF Next

(* Broadcast sends on a closed channel only to a subscription that was      *)
(* ended between the copy and the send, however many goroutines broadcast   *)
(* and however many subscriptions come and go.                              *)
THEOREM BroadcastSafeUnlessRaced == Spec => []PanicOnlyFromRace
<1>1. HubInv => PanicOnlyFromRace
  BY DEF HubInv, PanicOnlyFromRace
<1> QED BY <1>1, HubInvInit, HubInvNext, PTL DEF Spec

-----------------------------------------------------------------------------
(* Sequences whose elements are in order                                   *)

Elems(s) == {s[p] : p \in DOMAIN s}

InOrder(s, b) ==
  \A p, q \in DOMAIN s : p < q => s[p] # s[q] /\ s[q] \notin b[s[p]]

(* The elements of a concatenation are those of its parts.                  *)
LEMMA ElemsConcat ==
  ASSUME NEW S, NEW s \in Seq(S), NEW t \in Seq(S)
  PROVE  s \o t \in Seq(S) /\ Elems(s \o t) = Elems(s) \cup Elems(t)
<1>1. /\ s \o t \in Seq(S) /\ Len(s) \in Nat /\ Len(t) \in Nat
      /\ DOMAIN s = 1 .. Len(s) /\ DOMAIN t = 1 .. Len(t)
      /\ DOMAIN (s \o t) = 1 .. Len(s) + Len(t)
      /\ \A i \in 1 .. Len(s) + Len(t) :
           (s \o t)[i] = IF i <= Len(s) THEN s[i] ELSE t[i - Len(s)]
  BY ConcatProperties, LenProperties
<1> DEFINE st == s \o t
<1>2. \A i \in DOMAIN s : i \in DOMAIN st /\ st[i] = s[i]
  BY <1>1
<1>3. \A i \in DOMAIN t : i + Len(s) \in DOMAIN st /\ st[i + Len(s)] = t[i]
  BY <1>1
<1>4. \A i \in DOMAIN st : \/ i \in DOMAIN s /\ st[i] = s[i]
                           \/ i - Len(s) \in DOMAIN t /\ st[i] = t[i - Len(s)]
  BY <1>1
<1> HIDE DEF st
<1>5. Elems(st) = Elems(s) \cup Elems(t)
  BY <1>2, <1>3, <1>4 DEF Elems
<1> QED BY <1>1, <1>5 DEF st

(* A concatenation is in order when its parts are, and no element of the    *)
(* first comes too late for one of the second.                              *)
LEMMA OrderConcat ==
  ASSUME NEW S, NEW s \in Seq(S), NEW t \in Seq(S), NEW b
  PROVE  InOrder(s \o t, b) <=>
           /\ InOrder(s, b)
           /\ InOrder(t, b)
           /\ \A x \in Elems(s), y \in Elems(t) : x # y /\ y \notin b[x]
<1>1. /\ Len(s) \in Nat /\ Len(t) \in Nat
      /\ DOMAIN s = 1 .. Len(s) /\ DOMAIN t = 1 .. Len(t)
      /\ DOMAIN (s \o t) = 1 .. Len(s) + Len(t)
      /\ \A i \in 1 .. Len(s) + Len(t) :
           (s \o t)[i] = IF i <= Len(s) THEN s[i] ELSE t[i - Len(s)]
  BY ConcatProperties, LenProperties
<1> DEFINE st == s \o t
           m == Len(s)
<1>2. \A i \in DOMAIN s : i \in DOMAIN st /\ st[i] = s[i] /\ i \in Nat /\ i <= m
  BY <1>1
<1>3. \A i \in DOMAIN t : i + m \in DOMAIN st /\ st[i + m] = t[i] /\ i \in Nat /\ 0 < i
  BY <1>1
<1>4. \A i \in DOMAIN st : /\ i \in Nat
                           /\ \/ i \in DOMAIN s /\ st[i] = s[i] /\ i <= m
                              \/ i - m \in DOMAIN t /\ st[i] = t[i - m] /\ m < i
  BY <1>1
<1>5. m \in Nat
  BY <1>1
<1> HIDE DEF st, m
<1>6. ASSUME InOrder(st, b)
      PROVE  /\ InOrder(s, b) /\ InOrder(t, b)
             /\ \A x \in Elems(s), y \in Elems(t) : x # y /\ y \notin b[x]
  <2>1. InOrder(s, b)
    BY <1>2, <1>6 DEF InOrder
  <2>2. InOrder(t, b)
    <3> SUFFICES ASSUME NEW p \in DOMAIN t, NEW q \in DOMAIN t, p < q
                 PROVE  t[p] # t[q] /\ t[q] \notin b[t[p]]
      BY DEF InOrder
    <3>1. p + m < q + m
      BY <1>3, <1>5
    <3> QED BY <1>3, <1>6, <3>1 DEF InOrder
  <2>3. ASSUME NEW p \in DOMAIN s, NEW q \in DOMAIN t
        PROVE  s[p] # t[q] /\ t[q] \notin b[s[p]]
    <3>1. p < q + m
      BY <1>2, <1>3, <1>5
    <3> QED BY <1>2, <1>3, <1>6, <3>1 DEF InOrder
  <2> QED BY <2>1, <2>2, <2>3 DEF Elems
<1>7. ASSUME /\ InOrder(s, b) /\ InOrder(t, b)
             /\ \A x \in Elems(s), y \in Elems(t) : x # y /\ y \notin b[x]
      PROVE  InOrder(st, b)
  <2> SUFFICES ASSUME NEW p \in DOMAIN st, NEW q \in DOMAIN st, p < q
               PROVE  st[p] # st[q] /\ st[q] \notin b[st[p]]
    BY DEF InOrder
  <2>1. CASE p <= m /\ q <= m
    BY <1>4, <1>5, <1>7, <2>1 DEF InOrder
  <2>2. CASE p <= m /\ m < q
    <3>1. st[p] \in Elems(s) /\ st[q] \in Elems(t)
      BY <1>4, <1>5, <2>2 DEF Elems
    <3> QED BY <1>7, <3>1
  <2>3. CASE m < p
    <3>1. /\ p - m \in DOMAIN t /\ q - m \in DOMAIN t /\ p - m < q - m
          /\ st[p] = t[p - m] /\ st[q] = t[q - m]
      BY <1>4, <1>5, <2>3
    <3> QED BY <1>7, <3>1 DEF InOrder
  <2> QED BY <1>4, <1>5, <2>1, <2>2, <2>3
<1> QED BY <1>6, <1>7 DEF st

(* What is in order stays so when a part in the middle is lost.             *)
LEMMA OrderWithout ==
  ASSUME NEW S, NEW s \in Seq(S), NEW t \in Seq(S), NEW u \in Seq(S), NEW b,
         InOrder((s \o t) \o u, b)
  PROVE  /\ InOrder(s \o u, b)
         /\ Elems(s \o u) \subseteq Elems((s \o t) \o u)
<1>1. s \o t \in Seq(S) /\ Elems(s \o t) = Elems(s) \cup Elems(t)
  BY ElemsConcat
<1>2. Elems((s \o t) \o u) = Elems(s \o t) \cup Elems(u)
  <2> DEFINE st == s \o t
  <2> HIDE DEF st
  <2>1. st \in Seq(S)
    BY <1>1 DEF st
  <2>2. Elems(st \o u) = Elems(st) \cup Elems(u)
    BY <2>1, ElemsConcat
  <2> QED BY <2>2 DEF st
<1>3. Elems(s \o u) = Elems(s) \cup Elems(u)
  BY ElemsConcat
<1>4. /\ InOrder(s \o t, b) /\ InOrder(u, b)
      /\ \A x \in Elems(s \o t), y \in Elems(u) : x # y /\ y \notin b[x]
  BY Zenon, <1>1, OrderConcat
<1>5. InOrder(s, b)
  BY <1>4, OrderConcat
<1>6. InOrder(s \o u, b)
  BY <1>1, <1>4, <1>5, OrderConcat
<1> QED BY <1>1, <1>2, <1>3, <1>6

(* A beginning of what is in order is in order.                             *)
LEMMA OrderPrefix ==
  ASSUME NEW S, NEW s \in Seq(S), NEW t \in Seq(S), NEW b, InOrder(s \o t, b)
  PROVE  InOrder(s, b) /\ Elems(s) \subseteq Elems(s \o t)
BY OrderConcat, ElemsConcat

(* An element at the end that nothing before it has to follow.              *)
LEMMA OrderAppend ==
  ASSUME NEW S, NEW s \in Seq(S), NEW e \in S, NEW b, InOrder(s, b),
         \A x \in Elems(s) : x # e /\ e \notin b[x]
  PROVE  InOrder(s \o <<e>>, b) /\ Elems(s \o <<e>>) = Elems(s) \cup {e}
<1> DEFINE one == <<e>>
<1>1. one \in Seq(S) /\ Elems(one) = {e} /\ InOrder(one, b)
  BY DEF Elems, InOrder
<1> HIDE DEF one
<1>2. InOrder(s \o one, b)
  BY <1>1, OrderConcat
<1>3. Elems(s \o one) = Elems(s) \cup {e}
  BY <1>1, ElemsConcat
<1> QED BY <1>2, <1>3 DEF one

Path(a, w, h, c) == ((a \o w) \o h) \o c

(* What is on its way are events.                                           *)
LEMMA PathType ==
  ASSUME NEW S, NEW a \in Seq(S), NEW w \in Seq(S), NEW h \in Seq(S), NEW c \in Seq(S)
  PROVE  Path(a, w, h, c) \in Seq(S)
BY ConcatProperties DEF Path

(* The first element of a sequence can be put at the end of another.        *)
LEMMA HeadMoves ==
  ASSUME NEW S, NEW x \in Seq(S), NEW y \in Seq(S), y # <<>>
  PROVE  /\ Append(x, Head(y)) \o Tail(y) = x \o y
         /\ (x \o <<Head(y)>>) \o Tail(y) = x \o y
<1> DEFINE h == Head(y)
           t == Tail(y)
           one == <<h>>
<1>1. /\ h \in S /\ t \in Seq(S) /\ Len(t) = Len(y) - 1
      /\ \A i \in 1 .. Len(t) : t[i] = y[i + 1]
      /\ h = y[1] /\ Len(y) \in Nat \ {0}
  BY HeadTailProperties, EmptySeq
<1>2. one \o t = y
  BY <1>1
<1>3. one \in Seq(S) /\ Append(x, h) = x \o one
  BY <1>1, AppendIsConcat
<1>4. one \in Seq(S) /\ t \in Seq(S)
  BY <1>1, <1>3
<1> HIDE DEF h, t, one
<1>5. (x \o one) \o t = x \o (one \o t)
  BY SMTT(30), <1>4, ConcatAssociative
<1> QED BY Zenon, <1>2, <1>3, <1>5 DEF h, t, one

(* A frame that the SDK reads is where it was in the flow.                  *)
LEMMA PathRead ==
  ASSUME NEW S, NEW a \in Seq(S), NEW w \in Seq(S), NEW h, NEW c, w # <<>>
  PROVE  Path(Append(a, Head(w)), Tail(w), h, c) = Path(a, w, h, c)
<1>1. Append(a, Head(w)) \o Tail(w) = a \o w
  BY HeadMoves
<1> QED BY <1>1 DEF Path

(* So is one that the handler writes,                                       *)
LEMMA PathWrite ==
  ASSUME NEW S, NEW a \in Seq(S), NEW w \in Seq(S), NEW h \in Seq(S), NEW c
  PROVE  Path(a, w \o h, <<>>, c) = Path(a, w, h, c)
<1>1. /\ a \o (w \o h) = (a \o w) \o h
      /\ w \o h \in Seq(S) /\ a \o (w \o h) \in Seq(S)
  <2>1. a \o (w \o h) = (a \o w) \o h
    BY ConcatAssociative
  <2>2. w \o h \in Seq(S)
    BY Zenon, ConcatProperties
  <2>3. a \o (w \o h) \in Seq(S)
    BY Zenon, <2>2, ConcatProperties
  <2> QED BY <2>1, <2>2, <2>3
<1>2. (a \o (w \o h)) \o <<>> = (a \o w) \o h
  BY <1>1, ConcatEmptySeq
<1> QED BY <1>2 DEF Path

(* and an event that it receives.                                           *)
LEMMA PathReceive ==
  ASSUME NEW S, NEW a \in Seq(S), NEW w \in Seq(S), NEW c \in Seq(S), c # <<>>
  PROVE  Path(a, w, <<Head(c)>>, Tail(c)) = Path(a, w, <<>>, c)
<1> DEFINE aw == a \o w
<1>1. aw \in Seq(S)
  BY ConcatProperties
<1> HIDE DEF aw
<1>2. aw \o <<>> = aw
  BY <1>1, ConcatEmptySeq
<1>3. (aw \o <<Head(c)>>) \o Tail(c) = aw \o c
  BY Zenon, <1>1, HeadMoves
<1> QED BY Zenon, <1>2, <1>3 DEF aw, Path

(* Concatenation is associative, as a formula.                              *)
LEMMA Associates == \A S : \A x, y, z \in Seq(S) : (x \o y) \o z = x \o (y \o z)
<1> SUFFICES ASSUME NEW S, NEW x \in Seq(S), NEW y \in Seq(S), NEW z \in Seq(S)
             PROVE  (x \o y) \o z = x \o (y \o z)
  OBVIOUS
<1> QED BY ConcatAssociative

(* What goes into the channel is at the end of the flow.                    *)
LEMMA PathGrows ==
  ASSUME NEW S, NEW a, NEW w, NEW h, NEW c \in Seq(S), NEW d \in Seq(S),
         ((a \o w) \o h) \in Seq(S)
  PROVE  Path(a, w, h, c \o d) = Path(a, w, h, c) \o d
<1> DEFINE awh == (a \o w) \o h
<1>1. awh \in Seq(S)
  OBVIOUS
<1> HIDE DEF awh
<1>2. (awh \o c) \o d = awh \o (c \o d)
  BY SMTT(30), <1>1, Associates
<1> QED BY <1>2 DEF Path, awh

(* A flow that loses what was on the wire, in the handler's hand or in the  *)
(* channel.                                                                 *)
LEMMA PathLoses ==
  ASSUME NEW S, NEW a \in Seq(S), NEW w \in Seq(S), NEW h \in Seq(S), NEW c \in Seq(S),
         NEW b, InOrder(Path(a, w, h, c), b)
  PROVE  \A f \in {Path(a, <<>>, h, c), Path(a, w, <<>>, c), Path(a, w, h, <<>>)} :
           InOrder(f, b) /\ Elems(f) \subseteq Elems(Path(a, w, h, c))
<1>0. /\ <<>> \in Seq(S) /\ a \o w \in Seq(S) /\ (a \o w) \o h \in Seq(S)
      /\ h \o c \in Seq(S) /\ a \o h \in Seq(S)
  BY ConcatProperties
<1>1. ASSUME NEW f, f = ((a \o <<>>) \o h) \o c
      PROVE  InOrder(f, b) /\ Elems(f) \subseteq Elems(Path(a, w, h, c))
  <2>1. f = a \o (h \o c)
    BY SMTT(30), <1>0, <1>1, ConcatEmptySeq, ConcatAssociative
  <2>2. ((a \o w) \o h) \o c = (a \o w) \o (h \o c)
    <3> DEFINE aw == a \o w
    <3> HIDE DEF aw
    <3>1. aw \in Seq(S)
      BY <1>0 DEF aw
    <3>2. (aw \o h) \o c = aw \o (h \o c)
      BY SMTT(30), <3>1, ConcatAssociative
    <3> QED BY <3>2 DEF aw
  <2> QED BY Zenon, <1>0, <2>1, <2>2, OrderWithout DEF Path
<1>2. ASSUME NEW f, f = ((a \o w) \o <<>>) \o c
      PROVE  InOrder(f, b) /\ Elems(f) \subseteq Elems(Path(a, w, h, c))
  <2>1. f = (a \o w) \o c
    BY <1>0, <1>2, ConcatEmptySeq
  <2> QED BY Zenon, <1>0, <2>1, OrderWithout DEF Path
<1>3. ASSUME NEW f, f = ((a \o w) \o h) \o <<>>
      PROVE  InOrder(f, b) /\ Elems(f) \subseteq Elems(Path(a, w, h, c))
  <2> DEFINE g == (a \o w) \o h
  <2>1. f = g /\ g \in Seq(S) /\ Path(a, w, h, c) = g \o c
    BY <1>0, <1>3, ConcatEmptySeq DEF Path
  <2> HIDE DEF g
  <2>2. InOrder(g, b) /\ Elems(g) \subseteq Elems(g \o c)
    BY <2>1, OrderPrefix
  <2> QED BY <2>1, <2>2
<1> QED BY Zenon, <1>1, <1>2, <1>3 DEF Path

-----------------------------------------------------------------------------
(* The way of an event                                                     *)

Handlers == {"none", "upgraded", "range", "write", "unsubscribe", "close", "gone"}

StreamType ==
  /\ next <= MaxSubs /\ events <= MaxEvents
  /\ chan \in [SubID -> Seq(EventID)]
  /\ sub \in [Conns -> 0 .. next]
  /\ seen \in [Conns -> Seq(EventID)]
  /\ wire \in [Conns -> Seq(EventID)]
  /\ hand \in [Conns -> Seq(EventID)]
  /\ handler \in [Conns -> Handlers]
  /\ conn \in [Conns -> {"none", "open", "stalled", "cut", "finished"}]
  /\ over \subseteq 1 .. events
  /\ before \in [EventID -> SUBSET over]

(* A subscription has one handler, and a channel nobody has is empty; the   *)
(* handler holds an event only while it writes it.                          *)
SubscriptionInv ==
  /\ \A i, j \in Conns : sub[i] = sub[j] /\ sub[i] # 0 => i = j
  /\ \A s \in SubID : s > next => chan[s] = <<>>
  /\ \A i \in Conns : /\ handler[i] # "write" => hand[i] = <<>>
                      /\ handler[i] \in {"range", "write"} => sub[i] # 0
                      /\ conn[i] = "none" => handler[i] = "none"

(* A broadcast in progress has an event of its own, which is not over.      *)
SendingInv ==
  /\ \A w \in Workers :
       /\ sending[w].to \subseteq 1 .. next
       /\ sending[w].to # {} => sending[w].ev # 0
       /\ sending[w].ev \in 0 .. events
       /\ sending[w].ev \notin over
  /\ \A v, w \in Workers : sending[v].ev = sending[w].ev /\ sending[v].ev # 0 => v = w

(* What a broadcast has yet to send to a connection is not on its way.      *)
FlowOk(i) ==
  /\ InOrder(Flow(i), before)
  /\ Elems(Flow(i)) \subseteq 1 .. events
  /\ \A w \in Workers : sub[i] \in sending[w].to => sending[w].ev \notin Elems(Flow(i))

StreamInv ==
  /\ HubInv
  /\ StreamType
  /\ SubscriptionInv
  /\ SendingInv
  /\ \A i \in Conns : FlowOk(i)

Queue(i) == IF sub[i] = 0 THEN <<>> ELSE chan[sub[i]]

(* The parts of a flow.                                                     *)
LEMMA FlowParts ==
  ASSUME StreamInv, NEW i \in Conns
  PROVE  /\ seen[i] \in Seq(EventID) /\ wire[i] \in Seq(EventID)
         /\ hand[i] \in Seq(EventID) /\ Queue(i) \in Seq(EventID)
         /\ Flow(i) = Path(seen[i], wire[i], hand[i], Queue(i))
         /\ InOrder(Path(seen[i], wire[i], hand[i], Queue(i)), before)
         /\ Flow(i) \in Seq(EventID)
         /\ sub[i] # 0 => sub[i] \in SubID /\ Queue(i) = chan[sub[i]]
<1>1. seen[i] \in Seq(EventID) /\ wire[i] \in Seq(EventID) /\ hand[i] \in Seq(EventID)
  BY DEF StreamInv, StreamType
<1>2. sub[i] # 0 => sub[i] \in SubID
  BY HubAssumption DEF StreamInv, StreamType, HubInv, SubID
<1>3. Queue(i) \in Seq(EventID)
  BY <1>2 DEF StreamInv, StreamType, Queue
<1>4. Flow(i) = Path(seen[i], wire[i], hand[i], Queue(i))
  BY DEF Flow, Queue, Path
<1>5. Flow(i) \in Seq(EventID)
  BY SMTT(30), <1>1, <1>3, <1>4, PathType
<1>6. InOrder(Flow(i), before)
  BY DEF StreamInv, FlowOk
<1> QED BY <1>1, <1>2, <1>3, <1>4, <1>5, <1>6 DEF Queue

(* The same in the state after a step.                                      *)
LEMMA FlowPrimed ==
  ASSUME NEW i
  PROVE  /\ Flow(i)' = Path(seen'[i], wire'[i], hand'[i], Queue(i)')
         /\ Queue(i)' = IF sub'[i] = 0 THEN <<>> ELSE chan'[sub'[i]]
BY DEF Flow, Queue, Path

(* Nothing is on its way before anything was sent.                          *)
LEMMA StreamInvInit == Init => StreamInv
<1> SUFFICES ASSUME Init PROVE StreamInv
  OBVIOUS
<1>1. StreamType
  BY HubAssumption DEF Init, HubInit, StreamType, Handlers
<1>2. SubscriptionInv
  BY DEF Init, HubInit, SubscriptionInv
<1>3. SendingInv
  BY DEF Init, HubInit, SendingInv, Idle
<1>4. ASSUME NEW i \in Conns PROVE FlowOk(i)
  <2>1. Flow(i) = <<>>
    BY DEF Init, HubInit, Flow
  <2> QED BY <2>1 DEF FlowOk, InOrder, Elems
<1> QED BY <1>1, <1>2, <1>3, <1>4, HubInvInit DEF StreamInv

(* A step of a handler, of the network or of the SDK moves or loses events  *)
(* of one connection.                                                       *)
LEMMA ConnStep ==
  ASSUME StreamInv, NEW i \in Conns,
         UNCHANGED <<next, events, over, before, sending, sub>>,
         \A j \in Conns \ {i} : Flow(j)' = Flow(j),
         InOrder(Flow(i)', before), Elems(Flow(i)') \subseteq Elems(Flow(i))
  PROVE  SendingInv' /\ \A j \in Conns : FlowOk(j)'
<1>1. SendingInv'
  BY DEF StreamInv, SendingInv
<1>2. ASSUME NEW j \in Conns PROVE FlowOk(j)'
  <2>1. FlowOk(j)
    BY DEF StreamInv
  <2>2. CASE j = i
    BY <2>1, <2>2 DEF FlowOk
  <2>3. CASE j # i
    BY <2>1, <2>3 DEF FlowOk
  <2> QED BY <2>2, <2>3
<1> QED BY <1>1, <1>2

(* The handler takes an event from its channel.                             *)
LEMMA ReceiveKeeps ==
  ASSUME StreamInv, NEW i \in Conns, WsReceive(i)
  PROVE  StreamType' /\ SubscriptionInv' /\ SendingInv' /\ \A j \in Conns : FlowOk(j)'
<1> DEFINE c == chan[sub[i]]
<1>1. /\ handler[i] = "range" /\ c # <<>> /\ sub[i] # 0 /\ hand[i] = <<>>
      /\ chan' = [chan EXCEPT ![sub[i]] = Tail(c)]
      /\ hand' = [hand EXCEPT ![i] = <<Head(c)>>]
      /\ handler' = [handler EXCEPT ![i] = "write"]
      /\ UNCHANGED <<next, events, over, before, sending, sub, conn, wire, seen>>
  BY Zenon DEF WsReceive, clientVars, StreamInv, SubscriptionInv
<1>2. sub[i] \in SubID /\ Queue(i) = c /\ c \in Seq(EventID)
  BY <1>1, FlowParts
<1>3. Head(c) \in EventID /\ Tail(c) \in Seq(EventID) /\ <<Head(c)>> \in Seq(EventID)
  BY <1>1, <1>2, HeadTailProperties
<1>4. StreamType'
  BY Zenon, <1>1, <1>3 DEF StreamInv, StreamType, Handlers
<1>5. SubscriptionInv'
  BY <1>1 DEF StreamInv, StreamType, SubscriptionInv
<1>6. ASSUME NEW j \in Conns \ {i} PROVE Flow(j)' = Flow(j)
  <2>1. sub[j] # 0 => sub[j] # sub[i] /\ sub[j] \in SubID
    BY <1>1, FlowParts DEF StreamInv, SubscriptionInv
  <2>2. Queue(j)' = Queue(j) /\ hand'[j] = hand[j]
    BY Zenon, <1>1, <2>1 DEF Queue, StreamInv, StreamType
  <2> QED BY ZenonT(40), <1>1, <2>2, FlowParts, FlowPrimed
<1>7. Flow(i)' = Path(seen[i], wire[i], <<Head(c)>>, Tail(c))
  <2>1. hand'[i] = <<Head(c)>> /\ chan'[sub[i]] = Tail(c)
    BY <1>1, <1>2 DEF StreamInv, StreamType
  <2> QED BY Zenon, <1>1, <2>1, FlowPrimed
<1>8. Flow(i)' = Flow(i)
  <2> HIDE DEF c
  <2> QED BY <1>1, <1>2, <1>7, FlowParts, PathReceive
<1>9. InOrder(Flow(i), before)
  BY DEF StreamInv, FlowOk
<1> QED BY <1>1, <1>4, <1>5, <1>6, <1>8, <1>9, ConnStep

(* The handler writes a frame, or loses it.                                 *)
LEMMA WriteKeeps ==
  ASSUME StreamInv, NEW i \in Conns, WsWrite(i)
  PROVE  StreamType' /\ SubscriptionInv' /\ SendingInv' /\ \A j \in Conns : FlowOk(j)'
<1>1. PICK h \in {"range", "unsubscribe"} :
        /\ handler[i] = "write"
        /\ hand' = [hand EXCEPT ![i] = <<>>]
        /\ handler' = [handler EXCEPT ![i] = h]
        /\ wire' = wire \/ wire' = [wire EXCEPT ![i] = @ \o hand[i]]
        /\ UNCHANGED <<next, events, over, before, sending, sub, conn, chan, seen>>
  BY Zenon DEF WsWrite, hubVars, clientVars
<1> DEFINE wh == wire[i] \o hand[i]
<1>2. wh \in Seq(EventID)
  BY FlowParts, ConcatProperties
<1>3. wire' = wire \/ wire' = [wire EXCEPT ![i] = wh]
  BY Zenon, <1>1
<1>4. Path(seen[i], wh, <<>>, Queue(i)) = Flow(i)
  BY FlowParts, PathWrite
<1> HIDE DEF wh
<1>5. StreamType'
  <2>1. wire' \in [Conns -> Seq(EventID)] /\ handler' \in [Conns -> Handlers]
    BY ZenonT(40), <1>1, <1>2, <1>3 DEF StreamInv, StreamType, Handlers
  <2>2. <<>> \in Seq(EventID)
    OBVIOUS
  <2>3. hand' \in [Conns -> Seq(EventID)]
    BY <1>1, <2>2 DEF StreamInv, StreamType
  <2> QED BY <1>1, <2>1, <2>3 DEF StreamInv, StreamType
<1>6. SubscriptionInv'
  BY Zenon, <1>1 DEF StreamInv, StreamType, SubscriptionInv
<1>7. ASSUME NEW j \in Conns \ {i} PROVE Flow(j)' = Flow(j)
  <2>1. wire'[j] = wire[j] /\ hand'[j] = hand[j] /\ Queue(j)' = Queue(j)
    BY <1>1, <1>3 DEF Queue, StreamInv, StreamType
  <2> QED BY <1>1, <2>1, FlowParts, FlowPrimed
<1>8. InOrder(Flow(i)', before) /\ Elems(Flow(i)') \subseteq Elems(Flow(i))
  <2>1. hand'[i] = <<>> /\ Queue(i)' = Queue(i) /\ wire'[i] \in {wire[i], wh}
    BY Zenon, <1>1, <1>3 DEF Queue, StreamInv, StreamType
  <2>2. CASE wire'[i] = wh
    <3>1. Flow(i)' = Flow(i)
      BY Zenon, <1>1, <1>4, <2>1, <2>2, FlowPrimed
    <3> QED BY <3>1, FlowParts
  <2>3. CASE wire'[i] = wire[i]
    <3>1. Flow(i)' = Path(seen[i], wire[i], <<>>, Queue(i))
      BY <1>1, <2>1, <2>3, FlowPrimed
    <3> QED BY <3>1, FlowParts, PathLoses
  <2> QED BY <2>1, <2>2, <2>3
<1> QED BY <1>1, <1>5, <1>6, <1>7, <1>8, ConnStep

(* The connection loses what is on the wire, or nothing.                    *)
LEMMA LossKeeps ==
  ASSUME StreamInv, NEW i \in Conns, wire' = wire \/ wire' = [wire EXCEPT ![i] = <<>>],
         UNCHANGED <<next, events, over, before, sending, sub, chan, hand, seen>>
  PROVE  SendingInv' /\ \A j \in Conns : FlowOk(j)'
<1>0. ASSUME NEW j \in Conns PROVE Queue(j)' = Queue(j)
  BY Zenon DEF Queue
<1>1. ASSUME NEW j \in Conns \ {i} PROVE Flow(j)' = Flow(j)
  <2>1. wire'[j] = wire[j]
    BY Zenon, <1>1 DEF StreamInv, StreamType
  <2> QED BY <1>0, <2>1, FlowParts, FlowPrimed
<1>2. InOrder(Flow(i)', before) /\ Elems(Flow(i)') \subseteq Elems(Flow(i))
  <2>1. wire'[i] \in {wire[i], <<>>}
    BY Zenon DEF StreamInv, StreamType
  <2>2. CASE wire'[i] = wire[i]
    <3>1. Flow(i)' = Flow(i)
      BY ZenonT(40), <1>0, <2>2, FlowParts, FlowPrimed
    <3> QED BY Zenon, <3>1, FlowParts
  <2>3. CASE wire'[i] = <<>>
    <3>1. Flow(i)' = Path(seen[i], <<>>, hand[i], Queue(i))
      BY <1>0, <2>3, FlowPrimed
    <3> QED BY <3>1, FlowParts, PathLoses
  <2> QED BY <2>1, <2>2, <2>3
<1> QED BY <1>1, <1>2, ConnStep

(* The SDK reads a frame, or finds the connection at its end.               *)
LEMMA ReadKeeps ==
  ASSUME StreamInv, NEW i \in Conns, SdkRead(i)
  PROVE  StreamType' /\ SubscriptionInv' /\ SendingInv' /\ \A j \in Conns : FlowOk(j)'
<1>0. UNCHANGED <<next, events, over, before, sending, sub, chan, hand, handler>>
  BY DEF SdkRead, hubVars
<1>1. CASE /\ wire[i] # <<>>
           /\ wire' = [wire EXCEPT ![i] = Tail(@)]
           /\ seen' = [seen EXCEPT ![i] = Append(@, Head(wire[i]))]
           /\ UNCHANGED conn
  <2>1. /\ wire[i] \in Seq(EventID) /\ seen[i] \in Seq(EventID)
        /\ Head(wire[i]) \in EventID /\ Tail(wire[i]) \in Seq(EventID)
        /\ Append(seen[i], Head(wire[i])) \in Seq(EventID)
    BY <1>1, FlowParts, HeadTailProperties, AppendProperties
  <2>2. StreamType'
    BY <1>0, <1>1, <2>1 DEF StreamInv, StreamType, Handlers
  <2>3. SubscriptionInv'
    BY <1>0, <1>1 DEF StreamInv, SubscriptionInv
  <2>4. ASSUME NEW j \in Conns PROVE Queue(j)' = Queue(j)
    BY Zenon, <1>0 DEF Queue
  <2>5. ASSUME NEW j \in Conns \ {i} PROVE Flow(j)' = Flow(j)
    <3>1. wire'[j] = wire[j] /\ seen'[j] = seen[j]
      BY <1>1 DEF StreamInv, StreamType
    <3> QED BY <1>0, <2>4, <3>1, FlowParts, FlowPrimed
  <2>6. Flow(i)' = Path(Append(seen[i], Head(wire[i])), Tail(wire[i]), hand[i], Queue(i))
    <3>1. wire'[i] = Tail(wire[i]) /\ seen'[i] = Append(seen[i], Head(wire[i]))
      BY <1>1 DEF StreamInv, StreamType
    <3> QED BY Zenon, <1>0, <2>4, <3>1, FlowPrimed
  <2>7. Flow(i)' = Flow(i)
    BY <1>1, <2>6, FlowParts, PathRead
  <2>8. InOrder(Flow(i), before)
    BY DEF StreamInv, FlowOk
  <2> QED BY Zenon, <1>0, <2>2, <2>3, <2>5, <2>7, <2>8, ConnStep
<1>2. CASE SdkClose(i) /\ UNCHANGED seen
  <2>1. /\ wire' = [wire EXCEPT ![i] = <<>>]
        /\ conn' = [conn EXCEPT ![i] = IF @ = "open" THEN "cut" ELSE @]
    BY <1>2 DEF SdkClose
  <2>2. StreamType'
    BY <1>0, <1>2, <2>1 DEF StreamInv, StreamType, Handlers
  <2>3. SubscriptionInv'
    BY <1>0, <1>2, <2>1 DEF StreamInv, StreamType, SubscriptionInv
  <2> QED BY Zenon, <1>0, <1>2, <2>1, <2>2, <2>3, LossKeeps
<1> QED BY <1>1, <1>2 DEF SdkRead

(* Steps of connections that move no event.                                 *)
LEMMA QuietKeeps ==
  ASSUME StreamInv, NEW i \in Conns,
         \/ Handshake(i) \/ WsDeadline(i) \/ WsClose(i) \/ SdkCheck(i)
         \/ Consume(i) \/ Cancel(i) \/ Reset(i) \/ Stall(i)
  PROVE  StreamType' /\ SubscriptionInv' /\ SendingInv' /\ \A j \in Conns : FlowOk(j)'
<1>1. /\ UNCHANGED <<next, events, over, before, sending, sub, chan, hand, seen>>
      /\ wire' = wire \/ wire' = [wire EXCEPT ![i] = <<>>]
  BY Zenon DEF Handshake, WsDeadline, WsClose, SdkCheck, SdkClose, Consume, Cancel, Reset, Stall,
         hubVars, connVars, clientVars
<1>2. \/ UNCHANGED <<handler, conn>>
      \/ /\ conn[i] = "none"
         /\ handler' = [handler EXCEPT ![i] = "upgraded"] /\ conn' = [conn EXCEPT ![i] = "open"]
      \/ /\ handler[i] = "close" /\ handler' = [handler EXCEPT ![i] = "gone"]
         /\ conn' = [conn EXCEPT ![i] = IF @ = "open" THEN "finished" ELSE @]
      \/ /\ UNCHANGED handler
         /\ conn' = [conn EXCEPT ![i] = IF @ = "open" THEN "cut" ELSE @]
      \/ /\ UNCHANGED handler /\ conn[i] = "open"
         /\ conn' = [conn EXCEPT ![i] = "cut"] \/ conn' = [conn EXCEPT ![i] = "stalled"]
  BY DEF Handshake, WsDeadline, WsClose, SdkCheck, SdkClose, Consume, Cancel, Reset, Stall,
         hubVars, connVars, clientVars
<1>3. /\ handler' \in [Conns -> Handlers]
      /\ conn' \in [Conns -> {"none", "open", "stalled", "cut", "finished"}]
  BY Zenon, <1>2 DEF StreamInv, StreamType, Handlers
<1>4. StreamType'
  <2>0. <<>> \in Seq(EventID)
    OBVIOUS
  <2>1. wire' \in [Conns -> Seq(EventID)]
    BY Zenon, <1>1, <2>0 DEF StreamInv, StreamType
  <2> QED BY <1>1, <1>3, <2>1 DEF StreamInv, StreamType
<1>5. ASSUME NEW j \in Conns
      PROVE  /\ handler'[j] # "write" => hand[j] = <<>>
             /\ handler'[j] \in {"range", "write"} => sub[j] # 0
             /\ conn'[j] = "none" => handler'[j] = "none"
  BY <1>2 DEF StreamInv, StreamType, SubscriptionInv
<1>6. SubscriptionInv'
  BY Zenon, <1>1, <1>5 DEF StreamInv, SubscriptionInv
<1> QED BY Zenon, <1>1, <1>4, <1>6, LossKeeps

(* A new subscription has an empty channel, which no broadcast knows.       *)
LEMMA SubscribeFlow ==
  ASSUME StreamInv, HubSubscribe, UNCHANGED <<seen, wire, hand, conn>>,
         \/ UNCHANGED <<sub, handler>>
         \/ \E i \in Conns : /\ handler[i] = "upgraded"
                             /\ sub' = [sub EXCEPT ![i] = next + 1]
                             /\ handler' = [handler EXCEPT ![i] = "range"]
  PROVE  StreamType' /\ SubscriptionInv' /\ SendingInv' /\ \A j \in Conns : FlowOk(j)'
<1>1. /\ next < MaxSubs /\ next' = next + 1 /\ next \in Nat
      /\ UNCHANGED <<chan, sending, events, over, before>>
  BY DEF HubSubscribe, StreamInv, HubInv
<1>2. /\ sub' \in [Conns -> 0 .. next + 1]
      /\ handler' \in [Conns -> Handlers]
  <2>1. next + 1 \in 0 .. next + 1 /\ 0 .. next \subseteq 0 .. next + 1 /\ "range" \in Handlers
    BY <1>1 DEF Handlers
  <2>2. sub \in [Conns -> 0 .. next + 1] /\ handler \in [Conns -> Handlers]
    BY <2>1 DEF StreamInv, StreamType
  <2> QED BY <2>1, <2>2
<1>3. StreamType'
  BY <1>1, <1>2, HubAssumption DEF StreamInv, StreamType
<1>4. ASSUME NEW j \in Conns
      PROVE  \/ sub'[j] = sub[j] /\ handler'[j] = handler[j] /\ sub[j] \in 0 .. next
             \/ sub'[j] = next + 1 /\ handler[j] = "upgraded" /\ handler'[j] = "range"
  BY <1>1 DEF StreamInv, StreamType
<1>5. SubscriptionInv'
  <2>1. ASSUME NEW i \in Conns, NEW j \in Conns, sub'[i] = sub'[j], sub'[i] # 0 PROVE i = j
    BY SMTT(30), <1>1, <1>4, <2>1 DEF StreamInv, StreamType, SubscriptionInv
  <2>2. ASSUME NEW s \in SubID, s > next' PROVE chan'[s] = <<>>
    BY <1>1, <2>2 DEF StreamInv, SubscriptionInv, SubID
  <2>3. ASSUME NEW j \in Conns
        PROVE  /\ handler'[j] # "write" => hand'[j] = <<>>
               /\ handler'[j] \in {"range", "write"} => sub'[j] # 0
               /\ conn'[j] = "none" => handler'[j] = "none"
    BY <1>1, <1>4 DEF StreamInv, SubscriptionInv
  <2> QED BY <2>1, <2>2, <2>3 DEF SubscriptionInv
<1>6. SendingInv'
  BY <1>1 DEF StreamInv, SendingInv
<1>7. ASSUME NEW j \in Conns PROVE FlowOk(j)'
  <2>1. CASE sub'[j] = sub[j]
    <3>1. Flow(j)' = Flow(j)
      BY Zenon, <1>1, <2>1 DEF Flow
    <3> QED BY <1>1, <2>1, <3>1 DEF FlowOk, StreamInv
  <2>2. CASE sub'[j] = next + 1
    <3>1. next + 1 \in SubID /\ chan[next + 1] = <<>>
      BY <1>1, HubAssumption DEF StreamInv, SubscriptionInv, SubID
    <3>2. Flow(j)' = Path(seen[j], wire[j], hand[j], <<>>)
      BY SMTT(30), <1>1, <2>2, <3>1, FlowPrimed
    <3>3. InOrder(Flow(j)', before) /\ Elems(Flow(j)') \subseteq Elems(Flow(j))
      BY SMTT(40), <3>2, FlowParts, PathLoses
    <3>4. \A w \in Workers : next + 1 \notin sending[w].to
      BY <1>1 DEF StreamInv, SendingInv
    <3> QED BY <1>1, <2>2, <3>3, <3>4 DEF FlowOk, StreamInv
  <2> QED BY Zenon, <1>4, <2>1, <2>2
<1> QED BY <1>3, <1>5, <1>6, <1>7

(* Unsubscribe empties a channel.                                           *)
LEMMA UnsubscribeFlow ==
  ASSUME StreamInv, NEW id, HubUnsubscribe(id),
         UNCHANGED <<seen, wire, hand, conn, sub>>,
         \/ UNCHANGED handler
         \/ \E i \in Conns : /\ handler[i] = "unsubscribe"
                             /\ handler' = [handler EXCEPT ![i] = "close"]
  PROVE  StreamType' /\ SubscriptionInv' /\ SendingInv' /\ \A j \in Conns : FlowOk(j)'
<1>1. /\ UNCHANGED <<next, sending, events, over, before>>
      /\ chan' = chan \/ chan' = [chan EXCEPT ![id] = <<>>]
  BY DEF HubUnsubscribe
<1>2. StreamType'
  <2>0. <<>> \in Seq(EventID)
    OBVIOUS
  <2>1. chan' \in [SubID -> Seq(EventID)]
    BY Zenon, <1>1, <2>0 DEF StreamInv, StreamType
  <2>2. handler' \in [Conns -> Handlers]
    BY Zenon DEF StreamInv, StreamType, Handlers
  <2> QED BY <1>1, <2>1, <2>2 DEF StreamInv, StreamType
<1>3. ASSUME NEW s \in SubID PROVE chan'[s] = chan[s] \/ chan'[s] = <<>>
  BY <1>1 DEF StreamInv, StreamType
<1>4. SubscriptionInv'
  BY <1>1, <1>3 DEF StreamInv, StreamType, SubscriptionInv
<1>5. SendingInv'
  BY Zenon, <1>1 DEF StreamInv, SendingInv
<1>6. ASSUME NEW j \in Conns PROVE FlowOk(j)'
  <2>1. Queue(j)' \in {Queue(j), <<>>}
    BY Zenon, <1>3, FlowParts DEF Queue
  <2>2. InOrder(Flow(j)', before) /\ Elems(Flow(j)') \subseteq Elems(Flow(j))
    <3>1. Flow(j)' = Path(seen[j], wire[j], hand[j], Queue(j)')
      BY Zenon, <1>1, FlowPrimed
    <3>2. /\ seen[j] \in Seq(EventID) /\ wire[j] \in Seq(EventID) /\ hand[j] \in Seq(EventID)
          /\ Queue(j) \in Seq(EventID) /\ Flow(j) = Path(seen[j], wire[j], hand[j], Queue(j))
          /\ InOrder(Path(seen[j], wire[j], hand[j], Queue(j)), before)
      BY Zenon, FlowParts
    <3>3. /\ InOrder(Path(seen[j], wire[j], hand[j], Queue(j)'), before)
          /\ Elems(Path(seen[j], wire[j], hand[j], Queue(j)'))
               \subseteq Elems(Path(seen[j], wire[j], hand[j], Queue(j)))
      BY Zenon, <2>1, <3>2, PathLoses
    <3> QED BY Zenon, <3>1, <3>2, <3>3
  <2> QED BY Zenon, <1>1, <2>2 DEF FlowOk, StreamInv
<1> QED BY <1>2, <1>4, <1>5, <1>6

(* A new broadcast has a new event, and knows which were over before it.    *)
LEMMA CopyFlow ==
  ASSUME StreamInv, NEW w \in Workers, HubCopy(w), HubOnly
  PROVE  StreamType' /\ SubscriptionInv' /\ SendingInv' /\ \A j \in Conns : FlowOk(j)'
<1> DEFINE new == [ev |-> events + 1, to |-> subs]
<1>1. /\ events < MaxEvents /\ events' = events + 1
      /\ sending' = [sending EXCEPT ![w] = new]
      /\ before' = [before EXCEPT ![events + 1] = over]
      /\ UNCHANGED <<next, chan, over, sub, seen, wire, hand, handler, conn>>
  BY DEF HubCopy, HubOnly, connVars, clientVars
<1>2. /\ events \in Nat /\ events + 1 \in EventID /\ over \subseteq 1 .. events
      /\ subs \subseteq 1 .. next /\ sending \in [Workers -> Sending]
      /\ before \in [EventID -> SUBSET over]
  BY <1>1, HubAssumption DEF StreamInv, StreamType, HubInv, EventID
<1>3. new.ev = events + 1 /\ new.to = subs
  OBVIOUS
<1> HIDE DEF new
<1>4. StreamType'
  <2>1. over \subseteq 1 .. events + 1 /\ events + 1 <= MaxEvents
    BY <1>1, <1>2, HubAssumption
  <2>2. before' \in [EventID -> SUBSET over]
    BY <1>1, <1>2
  <2> QED BY <1>1, <2>1, <2>2 DEF StreamInv, StreamType
<1>5. SubscriptionInv'
  BY Zenon, <1>1 DEF StreamInv, SubscriptionInv
<1>6. SendingInv'
  <2>1. ASSUME NEW v \in Workers
        PROVE  sending'[v] = IF v = w THEN new ELSE sending[v]
    BY <1>1, <1>2
  <2>2. events + 1 \in 0 .. events + 1 /\ 0 .. events \subseteq 0 .. events + 1
        /\ events + 1 # 0 /\ events + 1 \notin over /\ events + 1 \notin 0 .. events
    BY <1>2
  <2>3. ASSUME NEW v \in Workers
        PROVE  /\ sending'[v].to \subseteq 1 .. next'
               /\ sending'[v].to # {} => sending'[v].ev # 0
               /\ sending'[v].ev \in 0 .. events'
               /\ sending'[v].ev \notin over'
    BY ZenonT(40), <1>1, <1>2, <1>3, <2>1, <2>2 DEF StreamInv, SendingInv
  <2>4. ASSUME NEW u \in Workers, NEW v \in Workers, sending'[u].ev = sending'[v].ev,
               sending'[u].ev # 0
        PROVE  u = v
    BY <1>3, <2>1, <2>2, <2>4 DEF StreamInv, SendingInv
  <2> QED BY <2>3, <2>4 DEF SendingInv
<1>7. ASSUME NEW j \in Conns PROVE FlowOk(j)'
  <2>1. Flow(j)' = Flow(j) /\ Flow(j) \in Seq(EventID) /\ FlowOk(j)
    BY Zenon, <1>1, FlowParts DEF Flow, StreamInv
  <2>2. ASSUME NEW x \in Elems(Flow(j)) PROVE before'[x] = before[x] /\ x # events + 1
    <3>1. x \in 1 .. events /\ x \in EventID
      BY SMTT(30), <1>1, <1>2, <2>1, HubAssumption DEF FlowOk, EventID
    <3> QED BY SMTT(30), <1>1, <1>2, <3>1
  <2>3. InOrder(Flow(j), before')
    BY Zenon, <2>1, <2>2 DEF FlowOk, InOrder, Elems
  <2>4. Elems(Flow(j)) \subseteq 1 .. events + 1
    BY SMTT(30), <1>2, <2>1 DEF FlowOk
  <2>5. ASSUME NEW v \in Workers, sub'[j] \in sending'[v].to
        PROVE  sending'[v].ev \notin Elems(Flow(j))
    BY <1>1, <1>2, <1>3, <2>1, <2>2, <2>5 DEF FlowOk
  <2> QED BY ZenonT(40), <1>1, <2>1, <2>3, <2>4, <2>5 DEF FlowOk
<1> QED BY <1>4, <1>5, <1>6, <1>7

(* A send puts the broadcast's event behind what is on its way: the event   *)
(* is not there yet, and being sent it is in nobody's past.                 *)
LEMMA SendFlow ==
  ASSUME StreamInv, NEW w \in Workers, NEW id \in SubID, HubSend(w, id), HubOnly
  PROVE  StreamType' /\ SubscriptionInv' /\ SendingInv' /\ \A j \in Conns : FlowOk(j)'
<1> DEFINE new == [sending[w] EXCEPT !.to = @ \ {id}]
           e == sending[w].ev
<1>1. /\ id \in sending[w].to
      /\ sending' = [sending EXCEPT ![w] = new]
      /\ chan' = chan \/ chan' = [chan EXCEPT ![id] = Append(@, e)]
      /\ UNCHANGED <<next, events, over, before, sub, seen, wire, hand, handler, conn>>
  BY Zenon DEF HubSend, HubOnly, connVars, clientVars
<1>2. /\ sending \in [Workers -> Sending] /\ chan \in [SubID -> Seq(EventID)]
      /\ events \in Nat /\ events <= MaxEvents
  BY Zenon DEF StreamInv, StreamType, HubInv
<1>3. new.ev = e /\ new.to = sending[w].to \ {id}
  BY <1>2 DEF Sending
<1>4. e \in EventID /\ e # 0 /\ e \in 1 .. events /\ e \notin over /\ id \in 1 .. next
  BY SMTT(30), <1>1, <1>2, HubAssumption DEF StreamInv, SendingInv, EventID
<1> HIDE DEF new, e
<1>5. StreamType'
  <2>1. Append(chan[id], e) \in Seq(EventID)
    BY Zenon, <1>2, <1>4, AppendProperties
  <2>2. chan' \in [SubID -> Seq(EventID)]
    BY Zenon, <1>1, <1>2, <2>1
  <2> QED BY <1>1, <2>2 DEF StreamInv, StreamType
<1>6. SubscriptionInv'
  <2>1. ASSUME NEW s \in SubID, s > next PROVE chan'[s] = <<>>
    <3>1. s # id /\ chan[s] = <<>>
      BY <1>4, <2>1 DEF StreamInv, StreamType, HubInv, SubscriptionInv
    <3> QED BY Zenon, <1>1, <1>2, <3>1
  <2> QED BY <1>1, <2>1 DEF StreamInv, SubscriptionInv
<1>7. ASSUME NEW v \in Workers
      PROVE  sending'[v].ev = sending[v].ev /\ sending'[v].to \subseteq sending[v].to
  BY Zenon, <1>1, <1>2, <1>3 DEF e
<1>8. SendingInv'
  BY SMTT(40), <1>1, <1>7 DEF StreamInv, SendingInv
<1>9. ASSUME NEW j \in Conns PROVE FlowOk(j)'
  <2>1. FlowOk(j)
    BY DEF StreamInv
  <2>2. CASE Queue(j)' = Queue(j)
    <3>1. Flow(j)' = Flow(j)
      <4>1. Flow(j)' = Path(seen'[j], wire'[j], hand'[j], Queue(j)')
        BY Zenon, FlowPrimed
      <4>2. Flow(j) = Path(seen[j], wire[j], hand[j], Queue(j))
        BY Zenon, FlowParts
      <4>3. seen' = seen /\ wire' = wire /\ hand' = hand
        BY Zenon, <1>1
      <4> QED BY Zenon, <2>2, <4>1, <4>2, <4>3
    <3> QED BY ZenonT(40), <1>1, <1>7, <2>1, <3>1 DEF FlowOk
  <2>3. CASE sub[j] = id /\ Queue(j)' = Append(Queue(j), e)
    <3>1. Flow(j)' = Flow(j) \o <<e>>
      <4>1. Queue(j)' = Queue(j) \o <<e>> /\ Queue(j) \in Seq(EventID)
        BY Zenon, <1>4, <2>3, FlowParts, AppendIsConcat
      <4>2. Flow(j)' = Path(seen[j], wire[j], hand[j], Queue(j) \o <<e>>)
        BY Zenon, <1>1, <4>1, FlowPrimed
      <4>3. <<e>> \in Seq(EventID)
        BY <1>4
      <4>4. Path(seen[j], wire[j], hand[j], Queue(j) \o <<e>>)
              = Path(seen[j], wire[j], hand[j], Queue(j)) \o <<e>>
        <5> DEFINE q == Queue(j)
                   one == <<e>>
        <5>1. q \in Seq(EventID) /\ one \in Seq(EventID)
          BY <4>1, <4>3
        <5> HIDE DEF q, one
        <5>2. (seen[j] \o wire[j]) \o hand[j] \in Seq(EventID)
          BY FlowParts, ConcatProperties
        <5>3. ASSUME NEW a, NEW b, NEW c, (a \o b) \o c \in Seq(EventID)
              PROVE  Path(a, b, c, q \o one) = Path(a, b, c, q) \o one
          BY <5>1, <5>3, PathGrows
        <5>4. Path(seen[j], wire[j], hand[j], q \o one)
                = Path(seen[j], wire[j], hand[j], q) \o one
          BY <5>2, <5>3
        <5> QED BY <5>4 DEF q, one
      <4> QED BY <4>2, <4>4, FlowParts, ZenonT(30)
    <3>2. ASSUME NEW x \in Elems(Flow(j)) PROVE x # e /\ e \notin before[x]
      <4>1. x # e
        BY Zenon, <1>1, <2>1, <2>3 DEF FlowOk, e
      <4>2. x \in EventID
        BY <1>2, <2>1, HubAssumption DEF FlowOk, EventID
      <4>3. before[x] \subseteq over
        BY Zenon, <4>2 DEF StreamInv, StreamType
      <4> QED BY Zenon, <1>4, <4>1, <4>3
    <3>3. InOrder(Flow(j)', before) /\ Elems(Flow(j)') = Elems(Flow(j)) \cup {e}
      <4> DEFINE F == Flow(j)
      <4>1. F \in Seq(EventID) /\ InOrder(F, before) /\ \A x \in Elems(F) : x # e /\ e \notin before[x]
        BY Zenon, <2>1, <3>2, FlowParts DEF FlowOk
      <4> HIDE DEF F
      <4>2. InOrder(F \o <<e>>, before) /\ Elems(F \o <<e>>) = Elems(F) \cup {e}
        BY <1>4, <4>1, OrderAppend
      <4> QED BY Zenon, <3>1, <4>2 DEF F
    <3>4. ASSUME NEW v \in Workers, sub'[j] \in sending'[v].to
          PROVE  sending'[v].ev \notin Elems(Flow(j)')
      <4>1. v # w
        BY Zenon, <1>1, <1>2, <1>3, <2>3, <3>4
      <4>2. sending[v].ev # e
        BY Zenon, <1>4, <4>1 DEF StreamInv, SendingInv, e
      <4> QED BY Zenon, <1>1, <1>7, <2>1, <3>3, <3>4, <4>2 DEF FlowOk
    <3> QED BY Zenon, <1>1, <1>4, <2>1, <3>3, <3>4 DEF FlowOk
  <2> QED BY Zenon, <1>1, <1>2, <2>2, <2>3, FlowParts DEF Queue
<1> QED BY <1>5, <1>6, <1>8, <1>9

(* When a broadcast returns, its event is over, and it was the only one     *)
(* that sends it.                                                           *)
LEMMA ReturnFlow ==
  ASSUME StreamInv, NEW w \in Workers, HubReturn(w), HubOnly
  PROVE  StreamType' /\ SubscriptionInv' /\ SendingInv' /\ \A j \in Conns : FlowOk(j)'
<1> DEFINE e == sending[w].ev
<1>1. /\ sending[w] # Idle /\ sending[w].to = {}
      /\ sending' = [sending EXCEPT ![w] = Idle]
      /\ over' = over \cup {e}
      /\ UNCHANGED <<next, chan, events, before, sub, seen, wire, hand, handler, conn>>
  BY Zenon DEF HubReturn, HubOnly, connVars, clientVars
<1>2. sending \in [Workers -> Sending] /\ events \in Nat /\ over \subseteq 1 .. events
  BY DEF StreamInv, StreamType, HubInv
<1>3. e # 0
  BY <1>1, <1>2 DEF Sending, Idle
<1>4. e \in 1 .. events
  BY <1>2, <1>3 DEF StreamInv, SendingInv
<1>5. Idle.ev = 0 /\ Idle.to = {}
  BY Zenon DEF Idle
<1> HIDE DEF e
<1>6. StreamType'
  <2>1. over' \subseteq 1 .. events /\ SUBSET over \subseteq SUBSET over'
    BY Zenon, <1>1, <1>2, <1>4
  <2>2. before' \in [EventID -> SUBSET over']
    BY Zenon, <1>1, <2>1 DEF StreamInv, StreamType
  <2> QED BY Zenon, <1>1, <2>1, <2>2 DEF StreamInv, StreamType
<1>7. SubscriptionInv'
  BY Zenon, <1>1 DEF StreamInv, SubscriptionInv
<1>8. ASSUME NEW v \in Workers
      PROVE  \/ v # w /\ sending'[v] = sending[v] /\ (sending[v].ev # e)
             \/ v = w /\ sending'[v].ev = 0 /\ sending'[v].to = {}
  BY Zenon, <1>1, <1>2, <1>3, <1>5 DEF StreamInv, SendingInv, e
<1>9. SendingInv'
  <2>1. 0 \notin over /\ 0 # e /\ 0 \in 0 .. events
    BY SMTT(30), <1>2, <1>3
  <2> QED BY <1>1, <1>8, <2>1 DEF StreamInv, SendingInv
<1>10. ASSUME NEW j \in Conns PROVE FlowOk(j)'
  <2>1. Flow(j)' = Flow(j)
    BY <1>1 DEF Flow
  <2>2. FlowOk(j) /\ sub' = sub /\ before' = before /\ events' = events
    BY Zenon, <1>1 DEF StreamInv
  <2>3. ASSUME NEW v \in Workers, sub[j] \in sending'[v].to PROVE sending'[v] = sending[v]
    BY Zenon, <1>8, <2>3
  <2> QED BY Zenon, <2>1, <2>2, <2>3 DEF FlowOk
<1> QED BY <1>6, <1>7, <1>9, <1>10

(* Every step of the composition keeps the invariant.                       *)
LEMMA StreamInvNext == StreamInv /\ [Next]_vars => StreamInv'
<1> SUFFICES ASSUME StreamInv, [Next]_vars
             PROVE  StreamType' /\ SubscriptionInv' /\ SendingInv' /\ \A j \in Conns : FlowOk(j)'
  BY Zenon, HubInvNext DEF StreamInv
<1> DEFINE Goal == StreamType' /\ SubscriptionInv' /\ SendingInv' /\ \A j \in Conns : FlowOk(j)'
<1>1. CASE UNCHANGED vars
  BY Zenon, <1>1 DEF vars, hubVars, connVars, clientVars, StreamInv, StreamType, SubscriptionInv,
              SendingInv, FlowOk, Flow
<1>2. ASSUME NEW w \in Workers, HubCopy(w) \/ HubStep(w), HubOnly PROVE Goal
  BY <1>2, CopyFlow, SendFlow, ReturnFlow DEF HubStep
<1>3. ASSUME HubSubscribe, HubOnly PROVE Goal
  BY <1>3, SubscribeFlow DEF HubOnly, connVars, clientVars
<1>4. ASSUME NEW id, HubUnsubscribe(id), HubOnly PROVE Goal
  BY <1>4, UnsubscribeFlow DEF HubOnly, connVars, clientVars
<1>5. ASSUME NEW i \in Conns, WsSubscribe(i) PROVE Goal
  BY Zenon, <1>5, SubscribeFlow DEF WsSubscribe, clientVars
<1>6. ASSUME NEW i \in Conns, WsUnsubscribe(i) PROVE Goal
  BY Zenon, <1>6, UnsubscribeFlow DEF WsUnsubscribe, clientVars
<1> HIDE DEF Goal
<1>7. ASSUME NEW i \in Conns,
             \/ Handshake(i) \/ WsDeadline(i) \/ WsStep(i)
             \/ SdkCheck(i) \/ SdkRead(i) \/ Consume(i) \/ Cancel(i)
             \/ Reset(i) \/ Stall(i)
      PROVE  Goal
  BY <1>5, <1>6, <1>7, ReceiveKeeps, WriteKeeps, QuietKeeps, ReadKeeps DEF WsStep, Goal
<1>8. Goal
  BY <1>1, <1>2, <1>3, <1>4, <1>7 DEF Next, Goal
<1> QED BY <1>8 DEF Goal

(* However many goroutines broadcast to however many connections, a client  *)
(* sees no event twice, and none before one whose broadcast had returned    *)
(* when its own began.                                                      *)
THEOREM FlowsAreInOrder == Spec => []FlowInOrder
<1>1. StreamInv => FlowInOrder
  BY DEF StreamInv, FlowOk, InOrder, FlowInOrder
<1> QED BY <1>1, StreamInvInit, StreamInvNext, PTL DEF Spec
=============================================================================
