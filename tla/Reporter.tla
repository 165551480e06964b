------------------------------ MODULE Reporter ------------------------------
(***************************************************************************)
(* jaeger_client.reporter.Reporter: application threads hand finished      *)
(* spans to a Tornado IOLoop with add_callback; callbacks on the loop put  *)
(* them in a bounded tornado.queues.Queue; one coroutine, _consume_queue,  *)
(* takes them out in batches and submits each batch to the agent.          *)
(* Reporter.close schedules _flush, which sets the stopped flag, puts a    *)
(* sentinel behind the queued spans and joins the queue.                   *)
(*                                                                         *)
(* The loop runs one callback at a time.  A callback that runs to its end  *)
(* without yielding is one action; _consume_queue is cut into the steps    *)
(* between which an application thread may call the reporter, and while it *)
(* has the loop (Busy) no other callback runs.                             *)
(***************************************************************************)
EXTENDS Integers, Sequences

CONSTANTS
  Span,           \* the spans the application finishes
  Closer,         \* the calls of close()
  Stop,           \* self.stop, the sentinel object
  QueueCapacity,  \* maxsize of the queue; 0 is "no bound" to Tornado
  BatchSize,
  FlushInterval,  \* is flush_interval a positive number?
  AsyncSend       \* may the future _send returns be pending when it is yielded?

ASSUME ReporterAssumption ==
  /\ QueueCapacity \in Nat /\ BatchSize \in Nat /\ BatchSize <= QueueCapacity
  /\ FlushInterval \in BOOLEAN /\ AsyncSend \in BOOLEAN
  /\ Span \cap Closer = {} /\ Stop \notin Span \cup Closer

VARIABLES
  ready,       \* callbacks added by the application: s is _report_span_from_ioloop(s), c is _flush for c
  queue,       \* the items of the Tornado queue
  getter,      \* the future of an unanswered Queue.get: "none", "untimed" or "timed"
  got,         \* the item a Queue.get has delivered and the consumer has not looked at
  putters,     \* the closers whose Queue.put(stop) waits for room
  unfinished,  \* Queue._unfinished_tasks
  stopped,     \* self.stopped
  process,     \* is self._process set?
  pc,          \* where _consume_queue is
  spans,       \* its batch
  stopping,    \* its local variable "stopped"
  closing,     \* how far each call of close() is
  outcome,     \* what became of each span, as the metrics count it
  before,      \* history: the spans reported before each close() was called
  unnamed,     \* history: the spans reported before set_process
  enqueued,    \* history: the items put in the queue, in order
  handled      \* history: the spans whose batch was submitted, in order

queueVars    == <<queue, getter, got, unfinished>>
consumerVars == <<pc, spans, stopping>>
historyVars  == <<before, unnamed, enqueued, handled>>
vars == <<ready, queueVars, putters, stopped, process, consumerVars, closing, outcome, historyVars>>

Init ==
  /\ ready = <<>> /\ queue = <<>> /\ getter = "none" /\ got = <<>>
  /\ putters = <<>> /\ unfinished = 0
  /\ stopped = FALSE /\ process = FALSE
  /\ pc = "filling" /\ spans = <<>> /\ stopping = FALSE
  /\ closing = [c \in Closer |-> "open"]
  /\ outcome = [s \in Span |-> "new"]
  /\ before = [c \in Closer |-> {}] /\ unnamed = {}
  /\ enqueued = <<>> /\ handled = <<>>

-----------------------------------------------------------------------------
(* The application's threads. *)

SetProcess ==
  /\ process' = TRUE
  /\ UNCHANGED <<ready, queueVars, putters, stopped, consumerVars, closing, outcome, historyVars>>

ReportSpan(s) ==
  /\ outcome[s] = "new"
  /\ outcome' = [outcome EXCEPT ![s] = "pending"]
  /\ ready' = Append(ready, s)
  /\ unnamed' = IF process THEN unnamed ELSE unnamed \cup {s}
  /\ UNCHANGED <<queueVars, putters, stopped, process, consumerVars, closing, before, enqueued, handled>>

Close(c) ==
  /\ closing[c] = "open"
  /\ closing' = [closing EXCEPT ![c] = "called"]
  /\ before' = [before EXCEPT ![c] = {s \in Span : outcome[s] # "new"}]
  /\ ready' = Append(ready, c)
  /\ UNCHANGED <<queueVars, putters, stopped, process, consumerVars, outcome, unnamed, enqueued, handled>>

-----------------------------------------------------------------------------
(* Callbacks on the loop. *)

\* _consume_queue holds the loop: it is between two yields of a pending future.
Busy == pc \in {"filling", "received", "submitting"}

Runs(callback) == ~Busy /\ ready # <<>> /\ Head(ready) = callback /\ ready' = Tail(ready)

\* Queue.put_nowait raises QueueFull: nobody waits for an item and there is no room.
QueueFull == getter = "none" /\ QueueCapacity # 0 /\ Len(queue) >= QueueCapacity

\* Queue.put_nowait otherwise: the item goes to the waiting getter, or in the queue.
PutNowait(item) ==
  /\ ~QueueFull
  /\ unfinished' = unfinished + 1
  /\ enqueued' = Append(enqueued, item)
  /\ \/ getter # "none" /\ got' = <<item>> /\ getter' = "none" /\ UNCHANGED queue
     \/ getter = "none" /\ queue' = Append(queue, item) /\ UNCHANGED <<got, getter>>

Drop(s, why) ==
  /\ outcome' = [outcome EXCEPT ![s] = why]
  /\ UNCHANGED <<queueVars, enqueued>>

RunReport(s) ==
  /\ Runs(s)
  /\ \/ stopped /\ Drop(s, "refused")
     \/ ~stopped /\ QueueFull /\ Drop(s, "overflow")
     \/ ~stopped /\ PutNowait(s) /\ UNCHANGED outcome
  /\ UNCHANGED <<putters, stopped, process, consumerVars, closing, before, unnamed, handled>>

\* Mutant: the flag is set after the put, so not while the put waits.
MarkStopped_AfterPut == stopped' = (stopped \/ ~QueueFull)

MarkStopped == stopped' = TRUE

\* _flush up to its first pending yield: the put when the queue is full, else the join.
RunFlush(c) ==
  /\ Runs(c)
  /\ MarkStopped
  /\ \/ /\ QueueFull
        /\ putters' = Append(putters, c)
        /\ closing' = [closing EXCEPT ![c] = "putting"]
        /\ UNCHANGED <<queueVars, enqueued>>
     \/ /\ PutNowait(Stop)
        /\ closing' = [closing EXCEPT ![c] = "joining"]
        /\ UNCHANGED putters
  /\ UNCHANGED <<process, consumerVars, outcome, before, unnamed, handled>>

\* The rest of _flush once its waiting put was accepted.
RunJoin(c) ==
  /\ ~Busy
  /\ closing[c] = "put"
  /\ closing' = [closing EXCEPT ![c] = IF unfinished = 0 THEN "closed" ELSE "joining"]
  /\ UNCHANGED <<ready, queueVars, putters, stopped, process, consumerVars, outcome, historyVars>>

\* Mutant: the timeout abandons the get without withdrawing it from the queue.
TimerFires_KeepsGetter ==
  /\ ~Busy
  /\ getter = "timed"
  /\ pc' = "received"
  /\ UNCHANGED <<ready, queueVars, putters, stopped, process, spans, stopping, closing, outcome, historyVars>>

\* The deadline of Queue.get: its future fails and the queue forgets it.
TimerFires ==
  /\ ~Busy
  /\ getter = "timed"
  /\ getter' = "none"
  /\ UNCHANGED <<ready, queue, got, unfinished, putters, stopped, process, consumerVars, closing, outcome, historyVars>>

-----------------------------------------------------------------------------
(* The coroutine _consume_queue. *)

\* Mutant: one task_done for a whole batch.
TaskDone_Once(n) == unfinished' = unfinished - 1 /\ UNCHANGED closing

\* Mutant: the joins return at any task_done.
TaskDone_Wakes(n) ==
  /\ unfinished' = unfinished - n
  /\ closing' = [c \in Closer |-> IF closing[c] = "joining" THEN "closed" ELSE closing[c]]

\* n calls of Queue.task_done: the joins return when the count reaches zero.
TaskDone(n) ==
  /\ unfinished' = unfinished - n
  /\ closing' = IF n = unfinished
                  THEN [c \in Closer |-> IF closing[c] = "joining" THEN "closed" ELSE closing[c]]
                  ELSE closing

BatchHasRoom == Len(spans) < BatchSize

\* Queue.get with an item to take: a waiting put gets the room first.
GetNowait ==
  /\ pc = "filling" /\ BatchHasRoom /\ queue # <<>>
  /\ got' = <<Head(queue)>>
  /\ pc' = "received"
  /\ \/ putters = <<>> /\ queue' = Tail(queue) /\ UNCHANGED <<putters, closing, unfinished, enqueued>>
     \/ /\ putters # <<>>
        /\ queue' = Append(Tail(queue), Stop)
        /\ putters' = Tail(putters)
        /\ closing' = [closing EXCEPT ![Head(putters)] = "put"]
        /\ unfinished' = unfinished + 1
        /\ enqueued' = Append(enqueued, Stop)
  /\ UNCHANGED <<ready, getter, stopped, process, spans, stopping, outcome, before, unnamed, handled>>

\* Mutant: the get never has a deadline.
Deadline_Never == "untimed"

Deadline == IF FlushInterval /\ spans # <<>> THEN "timed" ELSE "untimed"

\* Queue.get on an empty queue: the coroutine waits, with a deadline if it holds spans.
AwaitItem ==
  /\ pc = "filling" /\ BatchHasRoom /\ queue = <<>>
  /\ getter' = Deadline
  /\ pc' = "getting"
  /\ UNCHANGED <<ready, queue, got, unfinished, putters, stopped, process, spans, stopping, closing, outcome, historyVars>>

\* The future of Queue.get is done, with an item or with TimeoutError.
ItemReady ==
  /\ pc = "getting" /\ getter = "none"
  /\ pc' = "received"
  /\ UNCHANGED <<ready, queueVars, putters, stopped, process, spans, stopping, closing, outcome, historyVars>>

BatchFull ==
  /\ pc = "filling" /\ ~BatchHasRoom
  /\ pc' = "submitting"
  /\ UNCHANGED <<ready, queueVars, putters, stopped, process, spans, stopping, closing, outcome, historyVars>>

\* Mutant: no task_done for the sentinel.
StopTaken_NotDone == stopping' = TRUE /\ pc' = "submitting" /\ UNCHANGED <<unfinished, closing, spans>>

\* Mutant: the coroutine returns at the sentinel, without submitting the spans it holds.
StopTaken_Returns == stopping' = TRUE /\ TaskDone(1) /\ pc' = "exited" /\ UNCHANGED spans

StopTaken == stopping' = TRUE /\ TaskDone(1) /\ pc' = "submitting" /\ UNCHANGED spans

\* What the loop body does with what the get returned or raised.
Receive ==
  /\ pc = "received"
  /\ got' = <<>>
  /\ \/ got = <<>> /\ pc' = "submitting" /\ UNCHANGED <<unfinished, closing, spans, stopping>>
     \/ got # <<>> /\ Head(got) = Stop /\ StopTaken
     \/ /\ got # <<>> /\ Head(got) # Stop
        /\ spans' = Append(spans, Head(got)) /\ pc' = "filling" /\ UNCHANGED <<unfinished, closing, stopping>>
  /\ UNCHANGED <<ready, queue, getter, putters, stopped, process, outcome, historyVars>>

NextRound == pc' = IF stopping THEN "exited" ELSE "filling"

InBatch(s) == \E i \in DOMAIN spans : spans[i] = s

\* Mutant: the batch is submitted again in the next round.
ClearBatch_Not == UNCHANGED spans

ClearBatch == spans' = <<>>

\* Mutant: only spans that were sent are task_done.
Submitted_OnlySent(result) ==
  /\ outcome' = [s \in Span |-> IF InBatch(s) THEN result ELSE outcome[s]]
  /\ handled' = handled \o spans
  /\ ClearBatch
  /\ TaskDone(IF result = "err" THEN 0 ELSE Len(spans))
  /\ NextRound
  /\ UNCHANGED <<ready, queue, getter, got, putters, stopped, process, stopping, before, unnamed, enqueued>>

\* _submit has returned: the metric is counted and every span is task_done.
Submitted(result) ==
  /\ outcome' = [s \in Span |-> IF InBatch(s) THEN result ELSE outcome[s]]
  /\ handled' = handled \o spans
  /\ ClearBatch
  /\ TaskDone(Len(spans))
  /\ NextRound
  /\ UNCHANGED <<ready, queue, getter, got, putters, stopped, process, stopping, before, unnamed, enqueued>>

NothingToSubmit ==
  /\ pc = "submitting" /\ spans = <<>>
  /\ NextRound
  /\ UNCHANGED <<ready, queueVars, putters, stopped, process, spans, stopping, closing, outcome, historyVars>>

\* _submit when _send answers at once (the UDP sender), or there is no process to send for.
Submit ==
  /\ pc = "submitting" /\ spans # <<>>
  /\ \E result \in IF process THEN {"ok", "err"} ELSE {"lost"} : Submitted(result)

\* _submit waits for a pending _send; the send ends later, on the loop, either way.
SendPending ==
  /\ AsyncSend /\ process
  /\ pc = "submitting" /\ spans # <<>>
  /\ pc' = "sending"
  /\ UNCHANGED <<ready, queueVars, putters, stopped, process, spans, stopping, closing, outcome, historyVars>>

SendEnds ==
  /\ pc = "sending"
  /\ \E result \in {"ok", "err"} : Submitted(result)

-----------------------------------------------------------------------------
Consume == GetNowait \/ AwaitItem \/ ItemReady \/ BatchFull \/ Receive
             \/ NothingToSubmit \/ Submit \/ SendPending

RunCallback == (\E s \in Span : RunReport(s)) \/ (\E c \in Closer : RunFlush(c) \/ RunJoin(c))

Next ==
  \/ SetProcess \/ (\E s \in Span : ReportSpan(s)) \/ (\E c \in Closer : Close(c))
  \/ RunCallback \/ TimerFires \/ Consume \/ SendEnds

\* The loop thread keeps running callbacks and coroutines, timers expire, sends end.
\* Nothing is assumed of the application.
Fairness == WF_vars(Consume) /\ WF_vars(RunCallback) /\ WF_vars(TimerFires) /\ WF_vars(SendEnds)

Spec == Init /\ [][Next]_vars
FairSpec == Spec /\ Fairness
-----------------------------------------------------------------------------
(* Properties. *)

Item  == Span \cup {Stop}
Stage == {"open", "called", "putting", "put", "joining", "closed"}
Fate  == {"new", "pending", "ok", "err", "lost", "refused", "overflow"}

ApplicationType ==
  /\ ready \in Seq(Span \cup Closer) /\ closing \in [Closer -> Stage]
  /\ outcome \in [Span -> Fate] /\ before \in [Closer -> SUBSET Span] /\ unnamed \in SUBSET Span
QueueType ==
  /\ queue \in Seq(Item) /\ (got = <<>> \/ \E item \in Item : got = <<item>>)
  /\ getter \in {"none", "untimed", "timed"}
  /\ putters \in Seq(Closer) /\ unfinished \in Nat
  /\ QueueCapacity # 0 => Len(queue) <= QueueCapacity
ConsumerType ==
  /\ pc \in {"filling", "getting", "received", "submitting", "sending", "exited"}
  /\ spans \in Seq(Span) /\ Len(spans) <= BatchSize
FlagType == stopped \in BOOLEAN /\ process \in BOOLEAN /\ stopping \in BOOLEAN
HistoryType == enqueued \in Seq(Item) /\ handled \in Seq(Span)

\* Type invariant: the queue and the batch keep within their bounds, one item is in hand.
TypeOK == ApplicationType /\ QueueType /\ ConsumerType /\ FlagType /\ HistoryType

\* What the consumer has taken, in order: its batch, then the sentinel if it met it.
Taken == spans \o (IF stopping THEN <<Stop>> ELSE <<>>)

\* Whatever the timers, waiting puts and hand-offs do, the items put in the queue are
\* submitted, held in the batch, in hand or queued: none is lost, doubled or overtaken.
Pipeline == enqueued = handled \o Taken \o got \o queue

\* "stopping here ensures we don't lose spans": no span is ever put in the queue behind a
\* sentinel, at which _consume_queue ends, even while the put of the sentinel waits for room.
NoSpanBehindStop ==
  \A i \in 1 .. Len(enqueued) : enqueued[i] = Stop => \A j \in i .. Len(enqueued) : enqueued[j] = Stop

\* Every item is task_done once, and only when it was submitted: Queue._unfinished_tasks,
\* on which close() waits, counts the items that are queued, in hand or in the batch.
UnfinishedExact == unfinished = Len(spans) + Len(got) + Len(queue)

\* No lost wakeup: while _consume_queue waits for an item there is none, and no put waits.
NoLostWakeup == getter # "none" => pc = "getting" /\ queue = <<>> /\ putters = <<>> /\ got = <<>>

\* Reporter.close: "Ensure that all spans from the queue are submitted".  When its future
\* completes, every span reported before the call, the ones whose callbacks were pending
\* included, was submitted or dropped by a full queue; it was lost silently only if it was
\* reported before set_process, and refused only if another close() was called before it.
CloseFlushes ==
  \A c \in Closer : closing[c] = "closed" =>
    \A s \in before[c] :
      \/ outcome[s] \in {"ok", "err", "overflow"}
      \/ outcome[s] = "lost" /\ s \in unnamed
      \/ outcome[s] = "refused" /\ \E d \in Closer : closing[d] # "open" /\ s \notin before[d]

\* Reporter.close: "Returns Future that will be completed once the queue is empty".
CloseCompletes == \A c \in Closer : closing[c] = "called" ~> closing[c] = "closed"

Alone(c) == \A d \in Closer \ {c} : closing[d] = "open"

\* What holds of it: a close() completes, whatever is queued, in hand or being sent and even if
\* its sentinel must wait for room, unless another close() is called before or meanwhile.
LoneCloseCompletes ==
  \A c \in Closer : closing[c] = "called" ~> closing[c] = "closed" \/ ~Alone(c)

\* A span never waits in memory for ever: without a close() the flush interval bounds the
\* time an incomplete batch is held.
SpansSettle == FlushInterval => \A s \in Span : outcome[s] = "pending" ~> outcome[s] # "pending"

\* The loop has nothing left to do: no callback waits, no timer runs, no send is pending, and
\* _consume_queue waits for an item that has not come, or has ended.
AtRest ==
  /\ ~Busy /\ pc # "sending" /\ (pc = "getting" => getter = "untimed")
  /\ ready = <<>> /\ \A c \in Closer : closing[c] # "put"

\* No deadlock: the loop never comes to rest with a call of close() incomplete, unless another
\* one was made, nor, with a flush interval, with a span in memory.
NothingStuck ==
  AtRest =>
    /\ \A c \in Closer : Alone(c) => closing[c] \in {"open", "closed"}
    /\ FlushInterval => \A s \in Span : outcome[s] # "pending"

\* What a user of the reporter sees of it, as the variables of SpanBuffer: the batch, and what
\* is in hand and in the queue up to the first sentinel.
InFront(items) == {i \in DOMAIN items : \A j \in 1 .. i : items[j] # Stop}
Front(items)   == [i \in InFront(items) |-> items[i]]
Held == spans \o Front(got \o queue)
Buffer == INSTANCE SpanBuffer WITH
  Capacity <- QueueCapacity, Batch <- BatchSize,
  held <- Held, delivered <- handled, closed <- stopped,
  dropped <- {s \in Span : outcome[s] \in {"refused", "overflow"}}

\* The reporter implements the bounded FIFO buffer its users rely on: each step drops a span
\* only when closed or full, keeps the order and submits at most a batch at a time, and what
\* the buffer holds when it is closed is submitted.
ImplementsBuffer == Buffer!Spec
=============================================================================
