------------------------------ MODULE Export -------------------------------
(***************************************************************************)
(* analytics.AnalyticsService in the background: aggregation, and the      *)
(* periodic export of the daily aggregations to the console, to an HTTP    *)
(* endpoint in batches and to Segment one event at a time, through an      *)
(* ExportManager and, if so configured, a MultiExporter.  A request that   *)
(* fails (or times out) may have arrived all the same.                     *)
(***************************************************************************)
EXTENDS Aggregation

CONSTANTS
  Setups,       \* the exporters' configuration is one of these: [multi, batchSize]
  MaxFailures,  \* bound: requests that fail; the endpoints answer the others
  MaxHeld       \* bound: no round begins after a cancellation with more held

VARIABLES
  multi,        \* the manager's exporters are behind a MultiExporter
  batchSize,
  ctxDone,      \* the context of Start is cancelled
  exporter,     \* startPeriodicExport: its step, items to go, the item, the
                \* Segment events of it that are to be sent
  buffer,       \* the HTTPExporter's
  failures,     \* history: failed requests
  closer,       \* ExportManager.Close: what it sends, if it is running
  raced,        \* history: Close sent the buffer while a round was in progress
  result,       \* what the last ExportData, or a Close since, returned
  undelivered,  \* history: items the HTTPExporter got and the endpoint did not
  missing       \* history: what the round owes to the console and to Segment

closeVars == <<closer, raced>>
exportVars == <<multi, batchSize, ctxDone, exporter, buffer, failures, closeVars, result,
                undelivered, missing>>
vars == <<metricsVars, aggVars, exportVars>>

Waiting  == [at |-> "waiting"]
Unclosed == [at |-> "idle"]

Init ==
  /\ MetricsInit
  /\ AggInit
  /\ \E s \in Setups : multi = s.multi /\ batchSize = s.batchSize
  /\ ctxDone = FALSE
  /\ exporter = Waiting
  /\ buffer = <<>>
  /\ failures = 0
  /\ closer = Unclosed
  /\ raced = FALSE
  /\ result = "none"
  /\ undelivered = {}
  /\ missing = {}

-----------------------------------------------------------------------------
(* convertToSegmentEvents: one event for each counter that is not zero.     *)
convertToSegmentEvents(i) ==
  LET Event(what) == IF i.data[what] > 0 THEN <<what>> ELSE <<>>
  IN  Event("users") \o Event("points") \o Event("badges")

(* Where the goroutine is when Segment is to get those events of an item.   *)
Segment(todo, i, es) ==
  IF es = <<>> THEN [at |-> "next", todo |-> todo]
  ELSE [at |-> "segment", todo |-> todo, item |-> i, events |-> es]

Owed(items) ==
  {<<"console", i, "all">> : i \in items}
    \cup UNION {{<<"segment", i, what>> : what \in Range(convertToSegmentEvents(i))} : i \in items}

(* A tick of startPeriodicExport: GetAllAggregatedData waits for the engine *)
(* and ExportData begins.  When the context is done too, select may still   *)
(* choose the tick.                                                         *)
RoundBegin ==
  /\ exporter = Waiting
  /\ ctxDone => Len(buffer) <= MaxHeld
  /\ agg = Resting
  /\ LET items == GetAllAggregatedData("daily")
     IN  /\ exporter' = [at |-> "next", todo |-> items]
         /\ missing' = Owed(items)
  /\ result' = "none"
  /\ raced' = (raced \/ closer.at = "closing")
  /\ UNCHANGED <<multi, batchSize, ctxDone, buffer, failures, closer, undelivered>>

Stopped ==
  /\ exporter = Waiting
  /\ ctxDone
  /\ exporter' = [at |-> "returned"]
  /\ UNCHANGED <<multi, batchSize, ctxDone, buffer, failures, closeVars, result, undelivered, missing>>

(* A bug: the first error ends the goroutine.                              *)
RoundEndStops(r) ==
  /\ exporter' = IF r = "ok" THEN Waiting ELSE [at |-> "returned"]
  /\ result' = r

(* ExportData returns, and the loop goes on whatever it returns.            *)
RoundEnd(r) ==
  /\ exporter' = Waiting
  /\ result' = r

(* The next item, in the order of a map: the console prints it, and         *)
(* HTTPExporter.Export puts it in the buffer, up to the flush of a batch.   *)
ItemExport(i) ==
  /\ exporter.at = "next"
  /\ i \in exporter.todo
  /\ missing' = missing \ {<<"console", i, "all">>}
  /\ buffer' = Append(buffer, i)
  /\ undelivered' = undelivered \cup {i}
  /\ LET left == exporter.todo \ {i}
     IN  exporter' = IF Len(buffer) + 1 >= batchSize
                     THEN [at |-> "batch", todo |-> left, item |-> i]
                     ELSE Segment(left, i, convertToSegmentEvents(i))
  /\ UNCHANGED <<multi, batchSize, ctxDone, failures, closeVars, result>>

(* A request whose context is done fails.                                   *)
Post(ok, cancelled) ==
  /\ ok => ~cancelled
  /\ failures' = IF ok \/ cancelled THEN failures ELSE failures + 1
  /\ failures' <= MaxFailures

(* A bug: the buffer is cleared before the answer is known.                *)
HttpFlushClears(ok, arrives, cancelled) ==
  /\ IF buffer = <<>> THEN ok /\ UNCHANGED failures ELSE Post(ok, cancelled)
  /\ buffer' = <<>>
  /\ undelivered' = IF arrives THEN undelivered \ Range(buffer) ELSE undelivered

(* HTTPExporter.Flush: the buffer is cleared only when the answer is good.  *)
HttpFlush(ok, arrives, cancelled) ==
  /\ IF buffer = <<>> THEN ok /\ UNCHANGED failures ELSE Post(ok, cancelled)
  /\ buffer' = IF ok THEN <<>> ELSE buffer
  /\ undelivered' = IF arrives THEN undelivered \ Range(buffer) ELSE undelivered

BatchFlush(ok, arrives) ==
  /\ exporter.at = "batch"
  /\ HttpFlush(ok, arrives, ctxDone)
  /\ IF ok \/ multi
     THEN /\ exporter' = Segment(exporter.todo, exporter.item,
                                 convertToSegmentEvents(exporter.item))
          /\ UNCHANGED result
     ELSE RoundEnd("error")
  /\ UNCHANGED <<multi, batchSize, ctxDone, closeVars, missing>>

(* SegmentExporter.Export: the events one after the other, up to the first  *)
(* that fails.                                                              *)
SegmentSend(ok, arrives) ==
  /\ exporter.at = "segment"
  /\ Post(ok, ctxDone)
  /\ missing' = IF arrives THEN missing \ {<<"segment", exporter.item, Head(exporter.events)>>}
                ELSE missing
  /\ IF ok \/ multi
     THEN /\ exporter' = Segment(exporter.todo, exporter.item,
                                 IF ok THEN Tail(exporter.events) ELSE <<>>)
          /\ UNCHANGED result
     ELSE RoundEnd("error")
  /\ UNCHANGED <<multi, batchSize, ctxDone, buffer, closeVars, undelivered>>

(* ExportManager.Flush at the end of ExportData; only the HTTPExporter has  *)
(* something to flush.                                                      *)
FinalFlush(ok, arrives) ==
  /\ exporter.at = "next"
  /\ exporter.todo = {}
  /\ HttpFlush(ok, arrives, ctxDone)
  /\ RoundEnd(IF ok THEN "ok" ELSE "error")
  /\ UNCHANGED <<multi, batchSize, ctxDone, closeVars, missing>>

InRound == exporter.at \in {"next", "batch", "segment"}

(* ExportManager.Close may be called at any time.  Nothing in the buffer,   *)
(* and it returns at once; else its flush, with a context of its own, sends *)
(* what the buffer holds now.                                               *)
CloseBegin ==
  /\ closer = Unclosed
  /\ IF buffer = <<>>
     THEN /\ result' = IF InRound THEN result ELSE "closed"
          /\ UNCHANGED closeVars
     ELSE /\ closer' = [at |-> "closing", payload |-> buffer]
          /\ raced' = (raced \/ InRound)
          /\ UNCHANGED result
  /\ UNCHANGED <<multi, batchSize, ctxDone, exporter, buffer, failures, undelivered, missing>>

(* A good answer empties the buffer, whatever a round has put there since;  *)
(* the buffer has no lock, and one of two writes at once may be lost.       *)
CloseEnd(ok, arrives) ==
  /\ closer.at = "closing"
  /\ Post(ok, FALSE)
  /\ closer' = Unclosed
  /\ \/ ok /\ buffer' = <<>>
     \/ (~ok \/ raced) /\ buffer' = buffer
  /\ undelivered' = IF arrives THEN undelivered \ Range(closer.payload) ELSE undelivered
  /\ result' = IF raced THEN result ELSE IF ok THEN "closed" ELSE "error"
  /\ UNCHANGED <<multi, batchSize, ctxDone, exporter, raced, missing>>

Cancel ==
  /\ ~ctxDone
  /\ ctxDone' = TRUE
  /\ UNCHANGED <<multi, batchSize, exporter, buffer, failures, closeVars, result, undelivered, missing>>

-----------------------------------------------------------------------------
(* ok => arrives: a good answer comes from an endpoint that got the request *)
Answers == {a \in [ok : BOOLEAN, arrives : BOOLEAN] : a.ok => a.arrives}

ExportStep ==
  \/ RoundBegin
  \/ Stopped
  \/ exporter.at = "next" /\ \E i \in exporter.todo : ItemExport(i)
  \/ \E a \in Answers : \/ BatchFlush(a.ok, a.arrives)
                        \/ SegmentSend(a.ok, a.arrives)
                        \/ FinalFlush(a.ok, a.arrives)

CloseStep == CloseBegin \/ \E a \in Answers : CloseEnd(a.ok, a.arrives)

Next ==
  \/ (Observe \/ Aggregate) /\ UNCHANGED exportVars
  \/ Tick /\ UNCHANGED <<aggVars, exportVars>>
  \/ (ExportStep \/ CloseStep \/ Cancel) /\ UNCHANGED <<metricsVars, aggVars>>

Spec == Init /\ [][Next]_vars

(* AggregateNow runs to its end, the ticker goes on, and every request is   *)
(* answered or times out.  Failures are bounded: in the end the endpoints   *)
(* work.                                                                    *)
FairSpec ==
  /\ Spec
  /\ WF_vars((AggregateRead \/ AggregateEnd) /\ UNCHANGED exportVars)
  /\ WF_vars(ExportStep /\ UNCHANGED <<metricsVars, aggVars>>)

-----------------------------------------------------------------------------
(* Properties                                                              *)

(* When ExportData returns nil, the endpoint has everything the             *)
(* HTTPExporter was ever given, the batches of failed rounds included, and  *)
(* without a MultiExporter (which swallows the errors of Export) the        *)
(* console and Segment have every part of the round.  When Close returns    *)
(* nil, nothing is left behind in the buffer.  A Close that sends during a  *)
(* round may empty the buffer of what the round has put there since.        *)
RoundDelivers ==
  ~raced => /\ result \in {"ok", "closed"} => undelivered = {}
            /\ result = "ok" /\ ~multi => missing = {}

(* Until the service is stopped, what the HTTPExporter holds is delivered   *)
(* once the endpoints work, however rounds or a Close failed before.        *)
HeldIsDelivered == []<>(undelivered = {} \/ ctxDone \/ raced)
=============================================================================
