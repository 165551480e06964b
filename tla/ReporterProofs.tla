--------------------------- MODULE ReporterProofs ---------------------------
(***************************************************************************)
(* Proofs about Reporter for any sets of spans and closers, any queue      *)
(* capacity and any batch size.                                            *)
(***************************************************************************)
EXTENDS Reporter, FiniteSetTheorems, TLAPS

(***************************************************************************)
(* The inductive invariant, in named parts.                                *)
(***************************************************************************)

\* The control of _consume_queue: an item is only in hand between a get and the look at it,
\* there is room in the batch while it gets one, and it ends with an empty batch.
Control ==
  /\ got # <<>> => pc \in {"getting", "received"}
  /\ pc \in {"getting", "received"} => Len(spans) < BatchSize
  /\ stopping => pc \in {"submitting", "sending", "exited"}
  /\ pc = "exited" => stopping /\ spans = <<>>

\* Puts wait only while the queue has no room.
PuttersWait == putters # <<>> => QueueCapacity # 0 /\ Len(queue) >= QueueCapacity

TypeInv == TypeOK /\ Control /\ UnfinishedExact /\ PuttersWait /\ NoLostWakeup

-----------------------------------------------------------------------------
LEMMA InitType == Init => TypeInv
<1> SUFFICES ASSUME Init PROVE TypeInv
  OBVIOUS
<1> USE ReporterAssumption DEF Init
<1>1. ApplicationType
  BY DEF ApplicationType, Stage, Fate
<1>2. QueueType
  BY DEF QueueType
<1>3. ConsumerType
  BY DEF ConsumerType
<1>4. FlagType
  BY DEF FlagType
<1>5. HistoryType
  BY DEF HistoryType
<1>6. Control /\ UnfinishedExact /\ PuttersWait /\ NoLostWakeup
  BY DEF Control, UnfinishedExact, PuttersWait, NoLostWakeup
<1> QED
  BY <1>1, <1>2, <1>3, <1>4, <1>5, <1>6 DEF TypeInv, TypeOK

LEMMA PutNowaitQueue ==
  ASSUME QueueType, UnfinishedExact, NoLostWakeup, spans \in Seq(Span), spans' = spans,
         NEW item \in Item, PutNowait(item)
  PROVE  /\ queue' \in Seq(Item) /\ (QueueCapacity # 0 => Len(queue') <= QueueCapacity)
         /\ (got' = <<>> \/ \E x \in Item : got' = <<x>>) /\ getter' \in {"none", "untimed", "timed"}
         /\ unfinished' \in Nat /\ UnfinishedExact'
<1>1. CASE getter = "none"
  <2>1. queue' = Append(queue, item) /\ got' = got /\ getter' = getter /\ unfinished' = unfinished + 1
    BY <1>1 DEF PutNowait
  <2>2. QueueCapacity # 0 => Len(queue) < QueueCapacity
    BY <1>1, ReporterAssumption DEF PutNowait, QueueFull, QueueType
  <2> QED
    BY <2>1, <2>2, ReporterAssumption DEF QueueType, UnfinishedExact
<1>2. CASE getter # "none"
  <2>1. queue' = queue /\ got' = <<item>> /\ got = <<>> /\ getter' = "none" /\ unfinished' = unfinished + 1
    BY <1>2 DEF PutNowait, NoLostWakeup
  <2> QED
    BY <2>1 DEF QueueType, UnfinishedExact
<1> QED
  BY <1>1, <1>2

LEMMA GetNowaitQueue ==
  ASSUME QueueType, UnfinishedExact, spans \in Seq(Span), got = <<>>, GetNowait
  PROVE  /\ queue' \in Seq(Item) /\ (QueueCapacity # 0 => Len(queue') <= QueueCapacity)
         /\ (got' = <<>> \/ \E x \in Item : got' = <<x>>)
         /\ unfinished' \in Nat /\ UnfinishedExact' /\ putters' \in Seq(Closer)
<1>1. /\ got' = <<Head(queue)>> /\ Head(queue) \in Item /\ spans' = spans
      /\ Tail(queue) \in Seq(Item) /\ Len(Tail(queue)) = Len(queue) - 1
  BY DEF GetNowait, QueueType
<1>2. CASE putters = <<>>
  <2>1. queue' = Tail(queue) /\ putters' = putters /\ unfinished' = unfinished
    BY <1>2 DEF GetNowait
  <2> QED
    BY <1>1, <2>1, ReporterAssumption DEF QueueType, UnfinishedExact
<1>3. CASE putters # <<>>
  <2>1. queue' = Append(Tail(queue), Stop) /\ putters' = Tail(putters) /\ unfinished' = unfinished + 1
    BY <1>3 DEF GetNowait
  <2>2. Stop \in Item /\ Tail(putters) \in Seq(Closer)
    BY <1>3 DEF Item, QueueType
  <2> QED
    BY <1>1, <2>1, <2>2, ReporterAssumption DEF QueueType, UnfinishedExact
<1> QED
  BY <1>2, <1>3

LEMMA StepType == TypeInv /\ [Next]_vars => TypeInv'
<1> SUFFICES ASSUME TypeInv, [Next]_vars PROVE TypeInv'
  OBVIOUS
<1> USE ReporterAssumption DEF TypeInv, TypeOK
<1>1. CASE SetProcess
  <2>1. ApplicationType' /\ HistoryType'
    BY <1>1 DEF SetProcess, historyVars, ApplicationType, HistoryType
  <2>2. ConsumerType'
    BY <1>1 DEF SetProcess, consumerVars, ConsumerType
  <2>3. FlagType'
    BY <1>1 DEF SetProcess, consumerVars, FlagType
  <2>4. QueueType'
    BY <1>1 DEF SetProcess, queueVars, QueueType
  <2>5. Control'
    BY <1>1 DEF SetProcess, queueVars, consumerVars, Control
  <2>6. UnfinishedExact'
    BY <1>1 DEF SetProcess, queueVars, consumerVars, UnfinishedExact
  <2>7. PuttersWait' /\ NoLostWakeup'
    BY <1>1 DEF SetProcess, queueVars, consumerVars, PuttersWait, NoLostWakeup
  <2> QED
    BY <2>1, <2>2, <2>3, <2>4, <2>5, <2>6, <2>7
<1>2. ASSUME NEW s \in Span, ReportSpan(s) PROVE TypeInv'
  <2>1. ApplicationType' /\ HistoryType'
    BY <1>2 DEF ReportSpan, ApplicationType, HistoryType, Fate
  <2>2. ConsumerType'
    BY <1>2 DEF ReportSpan, consumerVars, ConsumerType
  <2>3. FlagType'
    BY <1>2 DEF ReportSpan, consumerVars, FlagType
  <2>4. QueueType'
    BY <1>2 DEF ReportSpan, queueVars, QueueType
  <2>5. Control'
    BY <1>2 DEF ReportSpan, queueVars, consumerVars, Control
  <2>6. UnfinishedExact'
    BY <1>2 DEF ReportSpan, queueVars, consumerVars, UnfinishedExact
  <2>7. PuttersWait' /\ NoLostWakeup'
    BY <1>2 DEF ReportSpan, queueVars, consumerVars, PuttersWait, NoLostWakeup
  <2> QED
    BY <2>1, <2>2, <2>3, <2>4, <2>5, <2>6, <2>7
<1>3. ASSUME NEW c \in Closer, Close(c) PROVE TypeInv'
  <2>1. ApplicationType' /\ HistoryType'
    BY <1>3 DEF Close, ApplicationType, HistoryType, Stage
  <2>2. ConsumerType'
    BY <1>3 DEF Close, consumerVars, ConsumerType
  <2>3. FlagType'
    BY <1>3 DEF Close, consumerVars, FlagType
  <2>4. QueueType'
    BY <1>3 DEF Close, queueVars, QueueType
  <2>5. Control'
    BY <1>3 DEF Close, queueVars, consumerVars, Control
  <2>6. UnfinishedExact'
    BY <1>3 DEF Close, queueVars, consumerVars, UnfinishedExact
  <2>7. PuttersWait' /\ NoLostWakeup'
    BY <1>3 DEF Close, queueVars, consumerVars, PuttersWait, NoLostWakeup
  <2> QED
    BY <2>1, <2>2, <2>3, <2>4, <2>5, <2>6, <2>7
<1>4. ASSUME NEW s \in Span, RunReport(s) PROVE TypeInv'
  <2>1. ApplicationType' /\ HistoryType'
    <3>1. ready' \in Seq(Span \cup Closer)
      BY <1>4 DEF RunReport, Runs, ApplicationType
    <3>2. outcome' \in [Span -> Fate]
      BY <1>4 DEF RunReport, Drop, ApplicationType, Fate
    <3>3. enqueued' \in Seq(Item)
      BY <1>4 DEF RunReport, Drop, PutNowait, HistoryType, Item
    <3> QED
      BY <3>1, <3>2, <3>3, <1>4 DEF RunReport, ApplicationType, HistoryType
  <2>2. ConsumerType'
    BY <1>4 DEF RunReport, consumerVars, ConsumerType
  <2>3. FlagType'
    BY <1>4 DEF RunReport, consumerVars, FlagType
  <2>4. QueueType'
    <3>1. CASE UNCHANGED queueVars
      BY <3>1, <1>4 DEF RunReport, QueueType, queueVars
    <3>2. CASE PutNowait(s)
      BY <3>2, <1>4, PutNowaitQueue DEF RunReport, QueueType, ConsumerType, consumerVars, Item
    <3> QED
      BY <3>1, <3>2, <1>4 DEF RunReport, Drop
  <2>5. Control'
    BY <1>4 DEF RunReport, Drop, PutNowait, queueVars, consumerVars, Control, NoLostWakeup
  <2>6. UnfinishedExact'
    <3>1. CASE UNCHANGED queueVars
      BY <3>1, <1>4 DEF RunReport, UnfinishedExact, queueVars, consumerVars
    <3>2. CASE PutNowait(s)
      BY <3>2, <1>4, PutNowaitQueue DEF RunReport, ConsumerType, consumerVars, Item
    <3> QED
      BY <3>1, <3>2, <1>4 DEF RunReport, Drop
  <2>7. PuttersWait' /\ NoLostWakeup'
    BY <1>4 DEF RunReport, Drop, PutNowait, queueVars, consumerVars, PuttersWait, NoLostWakeup
  <2> QED
    BY <2>1, <2>2, <2>3, <2>4, <2>5, <2>6, <2>7
<1>5. ASSUME NEW c \in Closer, RunFlush(c) PROVE TypeInv'
  <2>1. ApplicationType' /\ HistoryType'
    <3>1. ready' \in Seq(Span \cup Closer)
      BY <1>5 DEF RunFlush, Runs, ApplicationType
    <3>2. closing' \in [Closer -> Stage]
      BY <1>5 DEF RunFlush, ApplicationType, Stage
    <3>3. enqueued' \in Seq(Item)
      BY <1>5 DEF RunFlush, PutNowait, HistoryType, Item
    <3> QED
      BY <3>1, <3>2, <3>3, <1>5 DEF RunFlush, ApplicationType, HistoryType
  <2>2. ConsumerType'
    BY <1>5 DEF RunFlush, consumerVars, ConsumerType
  <2>3. FlagType'
    BY <1>5 DEF RunFlush, MarkStopped, consumerVars, FlagType
  <2>4. QueueType'
    <3>1. CASE UNCHANGED queueVars /\ putters' = Append(putters, c)
      BY <3>1, <1>5 DEF QueueType, queueVars
    <3>2. CASE PutNowait(Stop) /\ UNCHANGED putters
      BY <3>2, <1>5, PutNowaitQueue DEF RunFlush, QueueType, ConsumerType, consumerVars, Item
    <3> QED
      BY <3>1, <3>2, <1>5 DEF RunFlush
  <2>5. Control'
    BY <1>5 DEF RunFlush, PutNowait, queueVars, consumerVars, Control, NoLostWakeup
  <2>6. UnfinishedExact'
    <3>1. CASE UNCHANGED queueVars /\ putters' = Append(putters, c)
      BY <3>1, <1>5 DEF RunFlush, UnfinishedExact, queueVars, consumerVars
    <3>2. CASE PutNowait(Stop) /\ UNCHANGED putters
      BY <3>2, <1>5, PutNowaitQueue DEF RunFlush, ConsumerType, consumerVars, Item
    <3> QED
      BY <3>1, <3>2, <1>5 DEF RunFlush
  <2>7. PuttersWait' /\ NoLostWakeup'
    BY <1>5 DEF RunFlush, PutNowait, QueueFull, queueVars, PuttersWait, NoLostWakeup
  <2> QED
    BY <2>1, <2>2, <2>3, <2>4, <2>5, <2>6, <2>7
<1>6. ASSUME NEW c \in Closer, RunJoin(c) PROVE TypeInv'
  <2>1. ApplicationType' /\ HistoryType'
    BY <1>6 DEF RunJoin, historyVars, ApplicationType, HistoryType, Stage
  <2>2. ConsumerType'
    BY <1>6 DEF RunJoin, consumerVars, ConsumerType
  <2>3. FlagType'
    BY <1>6 DEF RunJoin, consumerVars, FlagType
  <2>4. QueueType'
    BY <1>6 DEF RunJoin, queueVars, QueueType
  <2>5. Control'
    BY <1>6 DEF RunJoin, queueVars, consumerVars, Control
  <2>6. UnfinishedExact'
    BY <1>6 DEF RunJoin, queueVars, consumerVars, UnfinishedExact
  <2>7. PuttersWait' /\ NoLostWakeup'
    BY <1>6 DEF RunJoin, queueVars, consumerVars, PuttersWait, NoLostWakeup
  <2> QED
    BY <2>1, <2>2, <2>3, <2>4, <2>5, <2>6, <2>7
<1>7. CASE TimerFires
  <2>1. ApplicationType' /\ HistoryType'
    BY <1>7 DEF TimerFires, historyVars, ApplicationType, HistoryType
  <2>2. ConsumerType'
    BY <1>7 DEF TimerFires, consumerVars, ConsumerType
  <2>3. FlagType'
    BY <1>7 DEF TimerFires, consumerVars, FlagType
  <2>4. QueueType'
    BY <1>7 DEF TimerFires, QueueType
  <2>5. Control'
    BY <1>7 DEF TimerFires, consumerVars, Control
  <2>6. UnfinishedExact'
    BY <1>7 DEF TimerFires, consumerVars, UnfinishedExact
  <2>7. PuttersWait' /\ NoLostWakeup'
    BY <1>7 DEF TimerFires, PuttersWait, NoLostWakeup
  <2> QED
    BY <2>1, <2>2, <2>3, <2>4, <2>5, <2>6, <2>7
<1>8. CASE GetNowait
  <2>1. ApplicationType' /\ HistoryType'
    <3>1. closing' \in [Closer -> Stage]
      BY <1>8 DEF GetNowait, ApplicationType, Stage
    <3>2. enqueued' = enqueued \/ enqueued' = Append(enqueued, Stop)
      BY <1>8 DEF GetNowait
    <3>3. enqueued' \in Seq(Item)
      BY <3>2 DEF HistoryType, Item
    <3> QED
      BY <3>1, <3>3, <1>8 DEF GetNowait, ApplicationType, HistoryType
  <2>2. ConsumerType'
    BY <1>8 DEF GetNowait, ConsumerType
  <2>3. FlagType'
    BY <1>8 DEF GetNowait, FlagType
  <2>4. QueueType'
    <3>1. got = <<>>
      BY <1>8 DEF GetNowait, Control
    <3> QED
      BY <3>1, <1>8, GetNowaitQueue DEF GetNowait, QueueType, ConsumerType
  <2>5. Control'
    BY <1>8 DEF GetNowait, BatchHasRoom, Control
  <2>6. UnfinishedExact'
    <3>1. got = <<>>
      BY <1>8 DEF GetNowait, Control
    <3> QED
      BY <3>1, <1>8, GetNowaitQueue DEF ConsumerType
  <2>7. PuttersWait' /\ NoLostWakeup'
    BY <1>8 DEF GetNowait, PuttersWait, NoLostWakeup
  <2> QED
    BY <2>1, <2>2, <2>3, <2>4, <2>5, <2>6, <2>7
<1>9. CASE AwaitItem
  <2>1. ApplicationType' /\ HistoryType'
    BY <1>9 DEF AwaitItem, historyVars, ApplicationType, HistoryType
  <2>2. ConsumerType'
    BY <1>9 DEF AwaitItem, ConsumerType
  <2>3. FlagType'
    BY <1>9 DEF AwaitItem, FlagType
  <2>4. QueueType'
    BY <1>9 DEF AwaitItem, Deadline, QueueType
  <2>5. Control'
    BY <1>9 DEF AwaitItem, BatchHasRoom, Control
  <2>6. UnfinishedExact'
    BY <1>9 DEF AwaitItem, UnfinishedExact
  <2>7. PuttersWait' /\ NoLostWakeup'
    BY <1>9 DEF AwaitItem, PuttersWait, NoLostWakeup, Control
  <2> QED
    BY <2>1, <2>2, <2>3, <2>4, <2>5, <2>6, <2>7
<1>10. CASE ItemReady
  <2>1. ApplicationType' /\ HistoryType'
    BY <1>10 DEF ItemReady, historyVars, ApplicationType, HistoryType
  <2>2. ConsumerType'
    BY <1>10 DEF ItemReady, ConsumerType
  <2>3. FlagType'
    BY <1>10 DEF ItemReady, FlagType
  <2>4. QueueType'
    BY <1>10 DEF ItemReady, queueVars, QueueType
  <2>5. Control'
    BY <1>10 DEF ItemReady, Control
  <2>6. UnfinishedExact'
    BY <1>10 DEF ItemReady, queueVars, UnfinishedExact
  <2>7. PuttersWait' /\ NoLostWakeup'
    BY <1>10 DEF ItemReady, queueVars, PuttersWait, NoLostWakeup
  <2> QED
    BY <2>1, <2>2, <2>3, <2>4, <2>5, <2>6, <2>7
<1>11. CASE BatchFull
  <2>1. ApplicationType' /\ HistoryType'
    BY <1>11 DEF BatchFull, historyVars, ApplicationType, HistoryType
  <2>2. ConsumerType'
    BY <1>11 DEF BatchFull, ConsumerType
  <2>3. FlagType'
    BY <1>11 DEF BatchFull, FlagType
  <2>4. QueueType'
    BY <1>11 DEF BatchFull, queueVars, QueueType
  <2>5. Control'
    BY <1>11 DEF BatchFull, queueVars, Control
  <2>6. UnfinishedExact'
    BY <1>11 DEF BatchFull, queueVars, UnfinishedExact
  <2>7. PuttersWait' /\ NoLostWakeup'
    BY <1>11 DEF BatchFull, queueVars, PuttersWait, NoLostWakeup
  <2> QED
    BY <2>1, <2>2, <2>3, <2>4, <2>5, <2>6, <2>7
<1>12. CASE Receive
  <2>1. ApplicationType' /\ HistoryType'
    BY <1>12 DEF Receive, StopTaken, TaskDone, historyVars, ApplicationType, HistoryType, Stage
  <2>2. ConsumerType'
    <3>1. CASE got = <<>> \/ Head(got) = Stop
      BY <3>1, <1>12 DEF Receive, StopTaken, ConsumerType
    <3>2. CASE got # <<>> /\ Head(got) # Stop
      <4>1. Head(got) \in Span
        BY <3>2 DEF QueueType, Item
      <4>2. spans' = Append(spans, Head(got)) /\ pc' = "filling" /\ Len(spans) < BatchSize
        BY <3>2, <1>12 DEF Receive, Control
      <4> QED
        BY <4>1, <4>2 DEF ConsumerType
    <3> QED
      BY <3>1, <3>2
  <2>3. FlagType'
    BY <1>12 DEF Receive, StopTaken, FlagType
  <2>4. QueueType'
    BY <1>12 DEF Receive, StopTaken, TaskDone, QueueType, UnfinishedExact
  <2>5. Control'
    BY <1>12 DEF Receive, StopTaken, Control
  <2>6. UnfinishedExact'
    <3>1. CASE got = <<>>
      BY <3>1, <1>12 DEF Receive, UnfinishedExact
    <3>2. CASE got # <<>>
      <4>1. PICK item \in Item : got = <<item>>
        BY <3>2 DEF QueueType
      <4>9. Len(got) = 1 /\ Head(got) = item
        BY <4>1
      <4> got' = <<>> /\ queue' = queue
        BY <1>12 DEF Receive
      <4>2. CASE Head(got) = Stop
        <5>1. unfinished' = unfinished - 1 /\ spans' = spans
          BY <4>2, <3>2, <1>12 DEF Receive, StopTaken, TaskDone
        <5> QED
          BY <5>1, <4>9 DEF UnfinishedExact
      <4>3. CASE Head(got) # Stop
        <5>1. unfinished' = unfinished /\ spans' = Append(spans, Head(got))
          BY <4>3, <3>2, <1>12 DEF Receive
        <5>2. Len(spans') = Len(spans) + 1
          BY <5>1, <4>9, <4>3 DEF ConsumerType, Item
        <5> QED
          BY <5>1, <5>2, <4>9 DEF UnfinishedExact
      <4> QED
        BY <4>2, <4>3
    <3> QED
      BY <3>1, <3>2
  <2>7. PuttersWait' /\ NoLostWakeup'
    BY <1>12 DEF Receive, PuttersWait, NoLostWakeup
  <2> QED
    BY <2>1, <2>2, <2>3, <2>4, <2>5, <2>6, <2>7
<1>13. CASE NothingToSubmit
  <2>1. ApplicationType' /\ HistoryType'
    BY <1>13 DEF NothingToSubmit, historyVars, ApplicationType, HistoryType
  <2>2. ConsumerType'
    BY <1>13 DEF NothingToSubmit, NextRound, ConsumerType
  <2>3. FlagType'
    BY <1>13 DEF NothingToSubmit, FlagType
  <2>4. QueueType'
    BY <1>13 DEF NothingToSubmit, queueVars, QueueType
  <2>5. Control'
    BY <1>13 DEF NothingToSubmit, NextRound, queueVars, Control
  <2>6. UnfinishedExact'
    BY <1>13 DEF NothingToSubmit, queueVars, UnfinishedExact
  <2>7. PuttersWait' /\ NoLostWakeup'
    BY <1>13 DEF NothingToSubmit, queueVars, PuttersWait, NoLostWakeup
  <2> QED
    BY <2>1, <2>2, <2>3, <2>4, <2>5, <2>6, <2>7
<1>14. ASSUME NEW result \in {"ok", "err", "lost"}, Submitted(result), pc \in {"submitting", "sending"}
       PROVE  TypeInv'
  <2>1. ApplicationType' /\ HistoryType'
    <3>1. closing' \in [Closer -> Stage]
      BY <1>14 DEF Submitted, TaskDone, ApplicationType, Stage
    <3>2. outcome' \in [Span -> Fate]
      BY <1>14 DEF Submitted, ApplicationType, Fate
    <3>3. handled' \in Seq(Span)
      BY <1>14 DEF Submitted, HistoryType, ConsumerType
    <3> QED
      BY <3>1, <3>2, <3>3, <1>14 DEF Submitted, ApplicationType, HistoryType
  <2>2. ConsumerType'
    BY <1>14 DEF Submitted, ClearBatch, NextRound, ConsumerType
  <2>3. FlagType'
    BY <1>14 DEF Submitted, FlagType
  <2>4. QueueType'
    <3>1. unfinished' = unfinished - Len(spans) /\ unfinished - Len(spans) \in Nat
      BY <1>14 DEF Submitted, TaskDone, UnfinishedExact
    <3> QED
      BY <3>1, <1>14 DEF Submitted, QueueType
  <2>5. Control'
    BY <1>14 DEF Submitted, ClearBatch, NextRound, Control
  <2>6. UnfinishedExact'
    BY <1>14 DEF Submitted, ClearBatch, TaskDone, UnfinishedExact
  <2>7. PuttersWait' /\ NoLostWakeup'
    BY <1>14 DEF Submitted, PuttersWait, NoLostWakeup
  <2> QED
    BY <2>1, <2>2, <2>3, <2>4, <2>5, <2>6, <2>7
<1>15. CASE SendPending
  <2>1. ApplicationType' /\ HistoryType'
    BY <1>15 DEF SendPending, historyVars, ApplicationType, HistoryType
  <2>2. ConsumerType'
    BY <1>15 DEF SendPending, ConsumerType
  <2>3. FlagType'
    BY <1>15 DEF SendPending, FlagType
  <2>4. QueueType'
    BY <1>15 DEF SendPending, queueVars, QueueType
  <2>5. Control'
    BY <1>15 DEF SendPending, queueVars, Control
  <2>6. UnfinishedExact'
    BY <1>15 DEF SendPending, queueVars, UnfinishedExact
  <2>7. PuttersWait' /\ NoLostWakeup'
    BY <1>15 DEF SendPending, queueVars, PuttersWait, NoLostWakeup
  <2> QED
    BY <2>1, <2>2, <2>3, <2>4, <2>5, <2>6, <2>7
<1>16. CASE UNCHANGED vars
  <2>1. ApplicationType' /\ HistoryType'
    BY <1>16 DEF vars, historyVars, ApplicationType, HistoryType
  <2>2. ConsumerType'
    BY <1>16 DEF vars, consumerVars, ConsumerType
  <2>3. FlagType'
    BY <1>16 DEF vars, consumerVars, FlagType
  <2>4. QueueType'
    BY <1>16 DEF vars, queueVars, QueueType
  <2>5. Control'
    BY <1>16 DEF vars, queueVars, consumerVars, Control
  <2>6. UnfinishedExact'
    BY <1>16 DEF vars, queueVars, consumerVars, UnfinishedExact
  <2>7. PuttersWait' /\ NoLostWakeup'
    BY <1>16 DEF vars, queueVars, consumerVars, PuttersWait, NoLostWakeup
  <2> QED
    BY <2>1, <2>2, <2>3, <2>4, <2>5, <2>6, <2>7
<1> QED
  BY <1>1, <1>2, <1>3, <1>4, <1>5, <1>6, <1>7, <1>8, <1>9, <1>10, <1>11, <1>12, <1>13, <1>14, <1>15, <1>16
     DEF Next, RunCallback, Consume, Submit, SendEnds

\* Type correctness: the queue never holds more than its capacity, the batch never more
\* than its size, and Queue._unfinished_tasks never goes below zero (task_done would raise).
THEOREM TypeCorrect == Spec => []TypeOK
<1>1. Spec => []TypeInv
  BY InitType, StepType, PTL DEF Spec
<1> QED
  BY <1>1, PTL DEF TypeInv

-----------------------------------------------------------------------------
LEMMA ConcatAppend ==
  ASSUME NEW S, NEW seq \in Seq(S), NEW t \in Seq(S), NEW x \in S
  PROVE  seq \o Append(t, x) = Append(seq \o t, x)
OBVIOUS

LEMMA ConcatAssoc ==
  ASSUME NEW S, NEW a \in Seq(S), NEW b \in Seq(S), NEW c \in Seq(S)
  PROVE  (a \o b) \o c = a \o (b \o c)
OBVIOUS

LEMMA HeadTail ==
  ASSUME NEW S, NEW seq \in Seq(S), seq # <<>>
  PROVE  /\ Head(seq) \in S /\ Tail(seq) \in Seq(S)
         /\ <<Head(seq)>> \o Tail(seq) = seq
OBVIOUS

LEMMA TypesInItem ==
  ASSUME TypeOK
  PROVE  /\ handled \in Seq(Item) /\ Taken \in Seq(Item) /\ spans \in Seq(Item)
         /\ got \in Seq(Item) /\ queue \in Seq(Item) /\ enqueued \in Seq(Item)
         /\ handled \o Taken \in Seq(Item) /\ handled \o Taken \o got \in Seq(Item)
<1> USE DEF TypeOK
<1>1. handled \in Seq(Item) /\ spans \in Seq(Item)
  BY DEF HistoryType, ConsumerType, Item
<1>2. Taken \in Seq(Item)
  <2>1. Stop \in Item /\ <<Stop>> \in Seq(Item)
    BY DEF Item
  <2> QED
    BY <1>1, <2>1 DEF Taken
<1>3. got \in Seq(Item)
  <2>1. CASE got = <<>>
    BY <2>1
  <2>2. ASSUME NEW item \in Item, got = <<item>> PROVE got \in Seq(Item)
    BY <2>2
  <2> QED
    BY <2>1, <2>2 DEF QueueType
<1>4. queue \in Seq(Item) /\ enqueued \in Seq(Item)
  BY DEF QueueType, HistoryType
<1>5. handled \o Taken \in Seq(Item)
  BY <1>1, <1>2
<1> QED
  BY <1>1, <1>2, <1>3, <1>4, <1>5

LEMMA FlowPut ==
  ASSUME TypeInv, Pipeline, NEW item \in Item, PutNowait(item), UNCHANGED <<handled, spans, stopping>>
  PROVE  Pipeline'
<1> DEFINE past == handled \o Taken
<1>1. past \in Seq(Item) /\ got \in Seq(Item) /\ queue \in Seq(Item) /\ past \o got \in Seq(Item) /\ past' = past
  BY TypesInItem DEF TypeInv, Taken
<1>2. enqueued = past \o got \o queue /\ enqueued' = Append(enqueued, item)
  BY DEF Pipeline, PutNowait
<1> SUFFICES enqueued' = past \o got' \o queue'
  BY <1>1 DEF Pipeline
<1> HIDE DEF past
<1>3. CASE getter = "none"
  <2>1. got' = got /\ queue' = Append(queue, item)
    BY <1>3 DEF PutNowait
  <2> QED
    BY <1>1, <1>2, <2>1, ConcatAppend
<1>4. CASE getter # "none"
  <2>1. got = <<>> /\ queue = <<>> /\ got' = <<item>> /\ queue' = <<>>
    BY <1>4 DEF PutNowait, TypeInv, NoLostWakeup
  <2> QED
    BY <1>1, <1>2, <2>1
<1> QED
  BY <1>3, <1>4

\* Puts wait, and a sentinel is in the queue's history, only after the flag was set.
Sealed ==
  /\ putters # <<>> => stopped
  /\ \A i \in 1 .. Len(enqueued) : enqueued[i] = Stop => stopped

FlowInv == Pipeline /\ Sealed /\ NoSpanBehindStop

LEMMA FlowGet ==
  ASSUME TypeInv, Pipeline, GetNowait
  PROVE  Pipeline'
<1> DEFINE past == handled \o Taken
<1>1. past \in Seq(Item) /\ queue \in Seq(Item) /\ past' = past /\ got = <<>> /\ queue # <<>>
  BY TypesInItem DEF TypeInv, Taken, GetNowait, Control
<1>2. enqueued = past \o got \o queue /\ got' = <<Head(queue)>>
  BY DEF Pipeline, GetNowait
<1> SUFFICES enqueued' = past \o got' \o queue'
  BY <1>1 DEF Pipeline
<1> HIDE DEF past
<1>3. Head(queue) \in Item /\ Tail(queue) \in Seq(Item) /\ <<Head(queue)>> \o Tail(queue) = queue
  BY <1>1, HeadTail
<1>4. enqueued = past \o got' \o Tail(queue)
  <2>1. past \o <<>> = past
    BY <1>1
  <2>2. enqueued = past \o (<<Head(queue)>> \o Tail(queue))
    BY <1>1, <1>2, <1>3, <2>1
  <2>3. (past \o <<Head(queue)>>) \o Tail(queue) = past \o (<<Head(queue)>> \o Tail(queue))
    BY <1>1, <1>3, ConcatAssoc
  <2> QED
    BY <1>2, <2>2, <2>3
<1>5. CASE putters = <<>>
  BY <1>4, <1>5 DEF GetNowait
<1>6. CASE putters # <<>>
  <2>1. enqueued' = Append(enqueued, Stop) /\ queue' = Append(Tail(queue), Stop) /\ Stop \in Item
    BY <1>6 DEF GetNowait, Item
  <2>2. past \o got' \in Seq(Item)
    BY <1>1, <1>2, <1>3
  <2>3. (past \o got') \o Append(Tail(queue), Stop) = Append((past \o got') \o Tail(queue), Stop)
    BY <1>3, <2>1, <2>2, ConcatAppend
  <2> QED
    BY <1>4, <2>1, <2>3
<1> QED
  BY <1>5, <1>6

LEMMA FlowReceive ==
  ASSUME TypeInv, Pipeline, Receive
  PROVE  Pipeline'
<1>1. /\ handled \in Seq(Item) /\ spans \in Seq(Item) /\ queue \in Seq(Item)
      /\ got' = <<>> /\ UNCHANGED <<handled, queue, enqueued>>
  BY TypesInItem DEF TypeInv, Receive, historyVars
<1>2. ~stopping
  BY DEF TypeInv, Control, Receive
<1>3. enqueued = handled \o (spans \o <<>>) \o got \o queue
  BY <1>2 DEF Pipeline, Taken
<1>4. CASE got = <<>>
  <2>1. UNCHANGED <<spans, stopping, got>>
    BY <1>4 DEF Receive
  <2> QED
    BY <1>1, <2>1 DEF Pipeline, Taken
<1>5. CASE got # <<>>
  <2>1. PICK item \in Item : got = <<item>>
    BY <1>5 DEF TypeInv, TypeOK, QueueType
  <2>2. CASE item = Stop
    <3>1. stopping' = TRUE /\ spans' = spans
      BY <2>1, <2>2 DEF Receive, StopTaken
    <3>2. Taken' = spans \o <<Stop>>
      BY <3>1 DEF Taken
    <3>3. <<Stop>> \in Seq(Item) /\ got = <<Stop>>
      BY <2>1, <2>2
    <3>4. handled \o (spans \o <<>>) \o got = handled \o (spans \o <<Stop>>) \o <<>>
      BY <1>1, <3>3
    <3> QED
      BY <1>1, <1>3, <3>2, <3>4 DEF Pipeline
  <2>3. CASE item # Stop
    <3>1. stopping' = FALSE /\ spans' = Append(spans, item)
      BY <1>2, <2>1, <2>3 DEF Receive
    <3>2. Taken' = Append(spans, item) \o <<>>
      BY <3>1 DEF Taken
    <3>3. handled \o (spans \o <<>>) \o <<item>> = handled \o (Append(spans, item) \o <<>>) \o <<>>
      <4>1. spans \o <<>> = spans /\ Append(spans, item) \o <<>> = Append(spans, item)
        BY <1>1
      <4>2. handled \o Append(spans, item) = Append(handled \o spans, item)
        BY <1>1, ConcatAppend
      <4>3. handled \o spans \in Seq(Item) /\ Append(handled \o spans, item) \in Seq(Item)
        BY <1>1
      <4>4. (handled \o spans) \o <<item>> = Append(handled \o spans, item) \o <<>>
        BY <4>3
      <4> QED
        BY <4>1, <4>2, <4>4
    <3> QED
      BY <1>1, <1>3, <2>1, <3>2, <3>3 DEF Pipeline
  <2> QED
    BY <2>2, <2>3
<1> QED
  BY <1>4, <1>5

LEMMA FlowSubmitted ==
  ASSUME TypeInv, Pipeline, NEW result, Submitted(result)
  PROVE  Pipeline'
<1> DEFINE mark == IF stopping THEN <<Stop>> ELSE <<>>
<1>1. /\ handled' = handled \o spans /\ spans' = <<>> /\ mark' = mark
      /\ UNCHANGED <<got, queue, enqueued>>
  BY DEF Submitted, ClearBatch
<1>2. handled \in Seq(Item) /\ spans \in Seq(Item) /\ mark \in Seq(Item)
  <2>1. Stop \in Item /\ <<Stop>> \in Seq(Item)
    BY DEF Item
  <2> QED
    BY <2>1, TypesInItem DEF TypeInv
<1>3. Taken = spans \o mark /\ Taken' = <<>> \o mark
  BY <1>1 DEF Taken
<1> HIDE DEF mark
<1>4. handled \o (spans \o mark) = (handled \o spans) \o (<<>> \o mark)
  BY <1>2
<1> QED
  BY <1>1, <1>3, <1>4 DEF Pipeline

\* What an action may do to the history of the queue.
EnqueueStep ==
  \/ enqueued' = enqueued
  \/ enqueued' = Append(enqueued, Stop) /\ stopped'
  \/ \E s \in Span : enqueued' = Append(enqueued, s) /\ ~stopped

LEMMA SealedKept ==
  ASSUME TypeInv, Sealed, NoSpanBehindStop, stopped => stopped',
         putters' # <<>> => putters # <<>> \/ stopped', EnqueueStep
  PROVE  Sealed' /\ NoSpanBehindStop'
<1>0. enqueued \in Seq(Item)
  BY DEF TypeInv, TypeOK, HistoryType
<1>1. CASE enqueued' = enqueued
  BY <1>1 DEF Sealed, NoSpanBehindStop
<1>2. CASE enqueued' = Append(enqueued, Stop) /\ stopped'
  <2>1. Sealed'
    BY <1>2 DEF Sealed
  <2>2. NoSpanBehindStop'
    BY <1>0, <1>2 DEF NoSpanBehindStop, Item
  <2> QED
    BY <2>1, <2>2
<1>3. ASSUME NEW s \in Span, enqueued' = Append(enqueued, s), ~stopped
      PROVE  Sealed' /\ NoSpanBehindStop'
  <2>1. s \in Item /\ s # Stop
    BY ReporterAssumption DEF Item
  <2>2. \A i \in 1 .. Len(enqueued') : enqueued'[i] # Stop
    BY <1>0, <1>3, <2>1 DEF Sealed
  <2> QED
    BY <1>3, <2>2 DEF Sealed, NoSpanBehindStop
<1> QED
  BY <1>1, <1>2, <1>3 DEF EnqueueStep

LEMMA StepFlow == TypeInv /\ FlowInv /\ [Next]_vars => FlowInv'
<1> SUFFICES ASSUME TypeInv, FlowInv, [Next]_vars PROVE FlowInv'
  OBVIOUS
<1> USE DEF FlowInv
<1>a. CASE UNCHANGED <<handled, spans, stopping, got, queue, enqueued, putters, stopped>>
  BY <1>a DEF Pipeline, Taken, Sealed, NoSpanBehindStop
<1>b. ASSUME NEW item \in Item, PutNowait(item), UNCHANGED <<handled, spans, stopping, putters>>,
             (item = Stop /\ stopped') \/ (item \in Span /\ ~stopped), stopped => stopped'
      PROVE  FlowInv'
  <2>1. EnqueueStep
    BY <1>b DEF PutNowait, EnqueueStep
  <2> QED
    BY <1>b, <2>1, FlowPut, SealedKept
<1>1. ASSUME NEW s \in Span, RunReport(s) PROVE FlowInv'
  <2>1. CASE Drop(s, "refused") \/ Drop(s, "overflow")
    BY <1>a, <1>1, <2>1 DEF RunReport, Drop, queueVars, consumerVars
  <2>2. CASE ~stopped /\ PutNowait(s)
    BY <1>b, <1>1, <2>2 DEF RunReport, consumerVars, Item
  <2> QED
    BY <1>1, <2>1, <2>2 DEF RunReport
<1>2. ASSUME NEW c \in Closer, RunFlush(c) PROVE FlowInv'
  <2>1. CASE PutNowait(Stop) /\ UNCHANGED putters
    <3>1. Stop \in Item /\ stopped'
      BY <1>2 DEF RunFlush, MarkStopped, Item
    <3>2. UNCHANGED <<handled, spans, stopping, putters>>
      BY <1>2, <2>1 DEF RunFlush, consumerVars
    <3>3. EnqueueStep
      BY <2>1, <3>1 DEF PutNowait, EnqueueStep
    <3> QED
      BY <2>1, <3>1, <3>2, <3>3, FlowPut, SealedKept
  <2>2. CASE UNCHANGED <<queueVars, enqueued>>
    <3>1. Pipeline'
      BY <1>2, <2>2 DEF RunFlush, consumerVars, queueVars, Pipeline, Taken
    <3>2. EnqueueStep /\ stopped'
      BY <1>2, <2>2 DEF RunFlush, MarkStopped, EnqueueStep
    <3> QED
      BY <3>1, <3>2, SealedKept
  <2> QED
    BY <1>2, <2>1, <2>2 DEF RunFlush
<1>3. CASE GetNowait
  <2>1. stopped' = stopped /\ EnqueueStep
    BY <1>3 DEF GetNowait, EnqueueStep, Sealed
  <2>2. putters' # <<>> => putters # <<>>
    BY <1>3 DEF GetNowait
  <2> QED
    BY <1>3, <2>1, <2>2, FlowGet, SealedKept
<1>4. CASE Receive
  BY <1>4, FlowReceive DEF Receive, historyVars, Sealed, NoSpanBehindStop
<1>5. ASSUME NEW result, Submitted(result) PROVE FlowInv'
  BY <1>5, FlowSubmitted DEF Submitted, Sealed, NoSpanBehindStop
<1>6. CASE UNCHANGED vars
  BY <1>a, <1>6 DEF vars, queueVars, consumerVars, historyVars
<1>7. CASE SetProcess \/ (\E s \in Span : ReportSpan(s)) \/ (\E c \in Closer : Close(c) \/ RunJoin(c))
  BY <1>a, <1>7 DEF SetProcess, ReportSpan, Close, RunJoin, queueVars, consumerVars, historyVars
<1>8. CASE TimerFires \/ AwaitItem \/ ItemReady \/ BatchFull \/ NothingToSubmit \/ SendPending
  BY <1>a, <1>8 DEF TimerFires, AwaitItem, ItemReady, BatchFull, NothingToSubmit, SendPending,
                   queueVars, consumerVars, historyVars
<1> QED
  BY <1>1, <1>2, <1>3, <1>4, <1>5, <1>6, <1>7, <1>8
     DEF Next, RunCallback, Consume, Submit, SendEnds

-----------------------------------------------------------------------------
(***************************************************************************)
(* What close() guarantees.                                                *)
(***************************************************************************)

InReady(x) == \E i \in 1 .. Len(ready) : ready[i] = x
InQueue(x) == \E i \in 1 .. Len(queue) : queue[i] = x

\* The loop runs callbacks in the order they were added: the callbacks of the spans reported
\* before a close() are ahead of its _flush, and gone once it ran.
Order ==
  \A c \in Closer :
    /\ \A s \in before[c] : outcome[s] # "new"
    /\ \A i \in 1 .. Len(ready) : ready[i] = c =>
         closing[c] # "open" /\ \A j \in 1 .. Len(ready) : ready[j] \in before[c] => j < i
    /\ closing[c] \notin {"open", "called"} => \A s \in before[c] : ~InReady(s)

\* A pending span is somewhere, and only reported spans are.
InFlight(s) == InReady(s) \/ InBatch(s) \/ got = <<s>> \/ InQueue(s)
Placed   == \A s \in Span : outcome[s] = "pending" => InFlight(s)
Reported == \A s \in Span : InFlight(s) => outcome[s] # "new"

Settled == \A c \in Closer : closing[c] = "closed" => \A s \in before[c] : outcome[s] # "pending"

\* Silent losses and refusals have their reason.
LostReason ==
  /\ ~process => \A s \in Span : outcome[s] # "new" => s \in unnamed
  /\ \A s \in Span : outcome[s] = "lost" => s \in unnamed
RefusedReason ==
  /\ stopped => \E c \in Closer : closing[c] \notin {"open", "called"}
  /\ \A s \in Span : outcome[s] = "refused" => \E c \in Closer : closing[c] # "open" /\ s \notin before[c]

\* A closer whose put waits has run its _flush.
PuttersFlushing == \A i \in 1 .. Len(putters) : closing[putters[i]] \notin {"open", "called"}

CloseInv == Order /\ Reported /\ PuttersFlushing /\ Placed /\ Settled /\ LostReason /\ RefusedReason

LEMMA InitClose == Init => CloseInv
BY DEF Init, CloseInv, Order, Placed, InFlight, InBatch, InQueue, Settled, LostReason, RefusedReason, InReady, PuttersFlushing, Reported

LEMMA CloseInvFlushes == TypeOK /\ CloseInv => CloseFlushes
BY DEF TypeOK, ApplicationType, Fate, CloseInv, Order, Settled, LostReason, RefusedReason, CloseFlushes
\* How outcomes and calls of close() may move.
OutcomeStep ==
  \A s \in Span :
    /\ outcome[s] # "new" => outcome'[s] # "new"
    /\ outcome'[s] = "pending" => outcome[s] \in {"new", "pending"}
ClosingStep ==
  \A c \in Closer :
    \/ closing'[c] = closing[c]
    \/ {closing[c], closing'[c]} \cap {"open", "called"} = {}

LEMMA OrderKept ==
  ASSUME TypeInv, Order, OutcomeStep, ClosingStep, UNCHANGED <<ready, before>>
  PROVE  Order'
<1>1. ASSUME NEW c \in Closer, NEW s \in before[c] PROVE outcome'[s] # "new"
  <2>1. s \in Span /\ outcome[s] # "new"
    BY DEF TypeInv, TypeOK, ApplicationType, Order
  <2> QED
    BY <2>1 DEF OutcomeStep
<1>2. \A c \in Closer : closing[c] # "open" => closing'[c] # "open"
  BY DEF ClosingStep
<1>3. \A c \in Closer : closing'[c] \notin {"open", "called"} => closing[c] \notin {"open", "called"}
  BY DEF ClosingStep
<1> QED
  BY <1>1, <1>2, <1>3 DEF Order, InReady

LEMMA OrderTail ==
  ASSUME TypeInv, Order, OutcomeStep, ClosingStep, UNCHANGED before,
         ready # <<>>, ready' = Tail(ready)
  PROVE  Order'
<1>1. /\ ready \in Seq(Span \cup Closer)
      /\ Len(ready') = Len(ready) - 1 /\ Len(ready) \in Nat
      /\ \A i \in 1 .. Len(ready') : ready'[i] = ready[i + 1]
  BY DEF TypeInv, TypeOK, ApplicationType
<1> SUFFICES ASSUME NEW c \in Closer
             PROVE  /\ \A s \in before[c] : outcome'[s] # "new"
                    /\ \A i \in 1 .. Len(ready') : ready'[i] = c =>
                         closing'[c] # "open" /\ \A j \in 1 .. Len(ready') : ready'[j] \in before[c] => j < i
                    /\ closing'[c] \notin {"open", "called"} => \A s \in before[c] : ~InReady(s)'
  BY DEF Order
<1>2. before[c] \subseteq Span
  BY DEF TypeInv, TypeOK, ApplicationType
<1>3. \A s \in before[c] : outcome'[s] # "new"
  <2>1. \A s \in before[c] : outcome[s] # "new"
    BY DEF Order
  <2> QED
    BY <1>2, <2>1 DEF OutcomeStep
<1>4. ASSUME NEW i \in 1 .. Len(ready'), ready'[i] = c
      PROVE  closing'[c] # "open" /\ \A j \in 1 .. Len(ready') : ready'[j] \in before[c] => j < i
  <2>1. i + 1 \in 1 .. Len(ready) /\ ready[i + 1] = c
    BY <1>1, <1>4
  <2>2. closing'[c] # "open"
    BY <2>1 DEF Order, ClosingStep
  <2>3. ASSUME NEW j \in 1 .. Len(ready'), ready'[j] \in before[c] PROVE j < i
    <3>1. j + 1 \in 1 .. Len(ready) /\ ready[j + 1] \in before[c]
      BY <1>1, <2>3
    <3>2. j + 1 < i + 1
      BY <2>1, <3>1 DEF Order
    <3> QED
      BY <3>2, <1>1
  <2> QED
    BY <2>2, <2>3
<1>5. ASSUME closing'[c] \notin {"open", "called"}, NEW s \in before[c] PROVE ~InReady(s)'
  <2>1. closing[c] \notin {"open", "called"}
    BY <1>5 DEF ClosingStep
  <2>2. ~InReady(s)
    BY <2>1 DEF Order
  <2> QED
    BY <1>1, <2>2 DEF InReady
<1> QED
  BY <1>3, <1>4, <1>5

LEMMA ReportedKept ==
  ASSUME Reported, OutcomeStep, \A s \in Span : InFlight(s)' => InFlight(s)
  PROVE  Reported'
BY DEF Reported, OutcomeStep

LEMMA ReadyTail ==
  ASSUME TypeInv, ready # <<>>, ready' = Tail(ready)
  PROVE  /\ \A x : InReady(x)' => InReady(x)
         /\ \A x : InReady(x) => x = ready[1] \/ InReady(x)'
<1>1. /\ Len(ready) \in Nat \ {0} /\ Len(ready') = Len(ready) - 1
      /\ \A i \in 1 .. Len(ready') : i + 1 \in 1 .. Len(ready) /\ ready'[i] = ready[i + 1]
  BY DEF TypeInv, TypeOK, ApplicationType
<1>2. \A x : InReady(x)' => InReady(x)
  BY <1>1 DEF InReady
<1>3. ASSUME NEW x, NEW i \in 1 .. Len(ready), ready[i] = x, i # 1 PROVE InReady(x)'
  <2>1. i - 1 \in 1 .. Len(ready') /\ ready'[i - 1] = x
    BY <1>1, <1>3
  <2> QED
    BY <2>1 DEF InReady
<1> QED
  BY <1>2, <1>3 DEF InReady

LEMMA OrderFlush ==
  ASSUME TypeInv, Order, NEW c \in Closer, Runs(c), UNCHANGED <<before, outcome>>,
         NEW stage \in Stage \ {"open", "called"}, closing' = [closing EXCEPT ![c] = stage]
  PROVE  Order'
<1>1. /\ ready \in Seq(Span \cup Closer) /\ ready # <<>> /\ ready[1] = c /\ ready' = Tail(ready)
      /\ Len(ready') = Len(ready) - 1 /\ Len(ready) \in Nat \ {0}
      /\ \A i \in 1 .. Len(ready') : ready'[i] = ready[i + 1]
  BY DEF TypeInv, TypeOK, ApplicationType, Runs
<1>2. \A s \in before[c] : ~InReady(s)'
  <2>1. \A j \in 1 .. Len(ready) : ready[j] \notin before[c]
    BY <1>1 DEF Order
  <2> QED
    BY <1>1, <2>1 DEF InReady
<1>3. \A d \in Closer : closing'[d] = IF d = c THEN stage ELSE closing[d]
  BY DEF TypeInv, TypeOK, ApplicationType
<1>4. ASSUME NEW d \in Closer, NEW i \in 1 .. Len(ready'), ready'[i] = d
      PROVE  closing'[d] # "open" /\ \A j \in 1 .. Len(ready') : ready'[j] \in before[d] => j < i
  <2>1. i + 1 \in 1 .. Len(ready) /\ ready[i + 1] = d
    BY <1>1, <1>4
  <2>2. closing'[d] # "open"
    BY <1>3, <2>1 DEF Order
  <2>3. ASSUME NEW j \in 1 .. Len(ready'), ready'[j] \in before[d] PROVE j < i
    <3>1. j + 1 \in 1 .. Len(ready) /\ ready[j + 1] \in before[d]
      BY <1>1, <2>3
    <3>2. j + 1 < i + 1
      BY <2>1, <3>1 DEF Order
    <3> QED
      BY <3>2, <1>1
  <2> QED
    BY <2>2, <2>3
<1>5. ASSUME NEW d \in Closer, closing'[d] \notin {"open", "called"}, NEW s \in before[d] PROVE ~InReady(s)'
  <2>1. CASE d = c
    BY <1>2, <1>5, <2>1
  <2>2. CASE d # c
    <3>1. ~InReady(s)
      BY <1>3, <1>5, <2>2 DEF Order
    <3> QED
      BY <1>1, <3>1 DEF InReady
  <2> QED
    BY <2>1, <2>2
<1> QED
  BY <1>4, <1>5 DEF Order

LEMMA SettledStep ==
  ASSUME TypeInv, TypeInv', Order, Settled, Order', Placed', OutcomeStep, UNCHANGED before,
         \A c \in Closer : closing'[c] = "closed" => closing[c] = "closed" \/ unfinished' = 0
  PROVE  Settled'
<1> SUFFICES ASSUME NEW c \in Closer, closing'[c] = "closed", NEW s \in before[c]
             PROVE  outcome'[s] # "pending"
  BY DEF Settled
<1>1. s \in Span
  BY DEF TypeInv, TypeOK, ApplicationType
<1>2. CASE closing[c] = "closed"
  <2>1. outcome[s] # "new" /\ outcome[s] # "pending"
    BY <1>2 DEF Order, Settled
  <2> QED
    BY <1>1, <2>1 DEF OutcomeStep
<1>3. CASE unfinished' = 0
  <2>1. ~InReady(s)'
    BY DEF Order
  <2>2. Len(spans') = 0 /\ Len(queue') = 0 /\ got' # <<s>>
    <3>1. /\ unfinished' = Len(spans') + Len(got') + Len(queue')
          /\ Len(spans') \in Nat /\ Len(queue') \in Nat /\ Len(got') \in Nat
      BY DEF TypeInv, TypeOK, UnfinishedExact, QueueType, ConsumerType
    <3>2. Len(spans') = 0 /\ Len(queue') = 0 /\ Len(got') = 0
      BY <1>3, <3>1
    <3> QED
      BY <3>2
  <2>3. ~InQueue(s)' /\ ~InBatch(s)'
    <3>1. spans' \in Seq(Span) /\ DOMAIN (spans') = 1 .. Len(spans')
      BY DEF TypeInv, TypeOK, ConsumerType
    <3> QED
      BY <2>2, <3>1 DEF InQueue, InBatch
  <2> QED
    BY <1>1, <2>1, <2>2, <2>3 DEF Placed, InFlight
<1> QED
  BY <1>2, <1>3

LEMMA CloseRunReport ==
  ASSUME TypeInv, TypeInv', CloseInv, NEW s \in Span, RunReport(s)
  PROVE  CloseInv'
<1> USE DEF CloseInv
<1>1. /\ ready \in Seq(Span \cup Closer) /\ ready # <<>> /\ ready[1] = s /\ ready' = Tail(ready)
      /\ Len(ready) \in Nat \ {0} /\ Len(ready') = Len(ready) - 1
      /\ \A i \in 1 .. Len(ready') : ready'[i] = ready[i + 1]
  BY DEF TypeInv, TypeOK, ApplicationType, RunReport, Runs
<1>2. UNCHANGED <<putters, closing, before, unnamed, process, stopped, spans>>
  BY DEF RunReport, consumerVars
<1>3. ClosingStep /\ PuttersFlushing'
  BY <1>2 DEF ClosingStep, PuttersFlushing
<1>4. \A r \in Span \ {s} : outcome'[r] = outcome[r]
  BY DEF RunReport, Drop, TypeInv, TypeOK, ApplicationType
<1>5. outcome'[s] = outcome[s] \/ (outcome'[s] \in {"refused", "overflow"} /\ UNCHANGED <<queue, got>>)
  BY DEF RunReport, Drop, queueVars, TypeInv, TypeOK, ApplicationType
<1>6. OutcomeStep
  BY <1>4, <1>5 DEF OutcomeStep
<1>7. Order'
  BY <1>1, <1>2, <1>3, <1>6, OrderTail
<1>8. \A r : (InReady(r)' => InReady(r)) /\ (InReady(r) => r = s \/ InReady(r)') /\ InBatch(r)' = InBatch(r)
  BY <1>1, <1>2, ReadyTail DEF InBatch
<1>a. /\ \A r \in Span : InFlight(r)' => InFlight(r)
      /\ \A r \in Span \ {s} : InFlight(r) => InFlight(r)'
      /\ outcome'[s] = "pending" => InFlight(s)'
  <2>0. InReady(s)
    BY <1>1 DEF InReady
  <2>1. CASE \E why \in {"refused", "overflow"} : Drop(s, why)
    <3>1. outcome'[s] # "pending" /\ UNCHANGED <<queue, got>>
      BY <2>1 DEF Drop, queueVars, TypeInv, TypeOK, ApplicationType
    <3> QED
      BY <1>8, <2>0, <3>1 DEF InFlight, InQueue
  <2>2. CASE PutNowait(s)
    <3>1. CASE getter = "none"
      <4>1. got' = got /\ queue' = Append(queue, s) /\ queue \in Seq(Item)
        BY <2>2, <3>1 DEF PutNowait, TypeInv, TypeOK, QueueType
      <4>2. \A r : InQueue(r)' <=> InQueue(r) \/ r = s
        BY <4>1 DEF InQueue
      <4> QED
        BY <1>8, <2>0, <4>1, <4>2 DEF InFlight
    <3>2. CASE getter # "none"
      <4>1. got = <<>> /\ got' = <<s>> /\ queue' = queue
        BY <2>2, <3>2 DEF PutNowait, TypeInv, NoLostWakeup
      <4>2. \A r : got' = <<r>> <=> r = s
        BY <4>1
      <4>3. \A r : (InQueue(r)' <=> InQueue(r)) /\ got # <<r>>
        BY <4>1 DEF InQueue
      <4> QED
        BY <1>8, <2>0, <4>2, <4>3 DEF InFlight
    <3> QED
      BY <3>1, <3>2
  <2> QED
    BY <2>1, <2>2 DEF RunReport
<1>b. Placed' /\ Reported'
  BY <1>4, <1>6, <1>a, ReportedKept DEF Placed
<1>9. Settled'
  BY <1>2, <1>6, <1>7, <1>b, SettledStep
<1>10. LostReason'
  <2>1. outcome[s] # "new"
    BY <1>1 DEF Reported, InFlight, InReady
  <2> QED
    BY <1>2, <1>4, <1>5, <2>1 DEF LostReason
<1>11. RefusedReason'
  <2>1. ASSUME stopped PROVE \E c \in Closer : closing[c] # "open" /\ s \notin before[c]
    <3>1. PICK c \in Closer : closing[c] \notin {"open", "called"}
      BY <2>1 DEF RefusedReason
    <3>2. s \notin before[c]
      BY <1>1, <3>1 DEF Order, InReady
    <3> QED
      BY <3>1, <3>2
  <2>2. outcome'[s] = "refused" /\ outcome[s] # "refused" => stopped
    BY DEF RunReport, Drop, TypeInv, TypeOK, ApplicationType
  <2> QED
    BY <1>2, <1>4, <2>1, <2>2 DEF RefusedReason
<1> QED
  BY <1>3, <1>7, <1>b, <1>9, <1>10, <1>11

LEMMA CloseRunFlush ==
  ASSUME TypeInv, TypeInv', CloseInv, NEW c \in Closer, RunFlush(c)
  PROVE  CloseInv'
<1> USE DEF CloseInv
<1>1. /\ ready \in Seq(Span \cup Closer) /\ ready # <<>> /\ ready[1] = c /\ ready' = Tail(ready) /\ c \notin Span
      /\ Len(ready) \in Nat \ {0} /\ Len(ready') = Len(ready) - 1
      /\ \A i \in 1 .. Len(ready') : ready'[i] = ready[i + 1]
  BY ReporterAssumption DEF TypeInv, TypeOK, ApplicationType, RunFlush, Runs
<1>2. UNCHANGED <<outcome, before, unnamed, process, spans>>
  BY DEF RunFlush, consumerVars
<1>3. OutcomeStep
  BY <1>2 DEF OutcomeStep
<1>4. PICK stage \in {"putting", "joining"} : closing' = [closing EXCEPT ![c] = stage]
  BY DEF RunFlush
<1>5. \A d \in Closer : closing'[d] = IF d = c THEN stage ELSE closing[d]
  BY <1>4 DEF TypeInv, TypeOK, ApplicationType
<1>6. Order'
  <2>1. stage \in Stage \ {"open", "called"} /\ Runs(c)
    BY DEF Stage, RunFlush
  <2> QED
    BY <1>2, <1>4, <2>1, OrderFlush
<1>8. PuttersFlushing'
  <2>1. putters \in Seq(Closer) /\ (putters' = putters \/ putters' = Append(putters, c))
    BY DEF RunFlush, TypeInv, TypeOK, QueueType
  <2>2. \A i \in 1 .. Len(putters') : putters'[i] = c \/ (i \in 1 .. Len(putters) /\ putters'[i] = putters[i])
    BY <2>1
  <2>3. \A i \in 1 .. Len(putters') : putters'[i] \in Closer
    BY DEF TypeInv, TypeOK, QueueType
  <2> QED
    BY <1>5, <2>2, <2>3 DEF PuttersFlushing
<1>9. \A s \in Span : InFlight(s)' <=> InFlight(s)
  <2>1. \A s \in Span : (InReady(s)' <=> InReady(s)) /\ (InBatch(s)' <=> InBatch(s))
    BY <1>1, <1>2, ReadyTail DEF InBatch
  <2>2. CASE UNCHANGED <<queue, got>>
    BY <2>1, <2>2 DEF InFlight, InQueue
  <2>3. CASE PutNowait(Stop)
    <3>1. \A s \in Span : InQueue(s)' <=> InQueue(s)
      <4>1. queue \in Seq(Item) /\ (queue' = queue \/ queue' = Append(queue, Stop))
        BY <2>3 DEF PutNowait, TypeInv, TypeOK, QueueType
      <4> QED
        BY <4>1, ReporterAssumption DEF InQueue
    <3>2. \A s \in Span : got' = <<s>> <=> got = <<s>>
      <4>1. got' = got \/ (got = <<>> /\ got' = <<Stop>>)
        BY <2>3 DEF PutNowait, TypeInv, NoLostWakeup
      <4> QED
        BY <4>1, ReporterAssumption
    <3> QED
      BY <2>1, <3>1, <3>2 DEF InFlight
  <2> QED
    BY <2>2, <2>3 DEF RunFlush, queueVars
<1>7. Placed' /\ Reported'
  BY <1>2, <1>9 DEF Placed, Reported
<1>10. Settled'
  BY <1>2, <1>3, <1>5, <1>6, <1>7, SettledStep
<1>11. LostReason'
  BY <1>2 DEF LostReason
<1>12. RefusedReason'
  <2>1. \E d \in Closer : closing'[d] \notin {"open", "called"}
    BY <1>5
  <2>2. \A d \in Closer : closing[d] # "open" => closing'[d] # "open"
    BY <1>5
  <2>3. \A s \in Span : outcome'[s] = "refused" => \E d \in Closer : closing'[d] # "open" /\ s \notin before'[d]
    BY <1>2, <2>2 DEF RefusedReason
  <2> QED
    BY <2>1, <2>3 DEF RefusedReason
<1> QED
  BY <1>6, <1>7, <1>8, <1>10, <1>11, <1>12

\* The actions that leave the callbacks alone: only the placement of the spans needs care.
LEMMA CloseKept ==
  ASSUME TypeInv, TypeInv', CloseInv, ClosingStep, UNCHANGED <<ready, before, unnamed, process, stopped>>,
         \A i \in 1 .. Len(putters') : \E j \in 1 .. Len(putters) : putters'[i] = putters[j],
         \A c \in Closer : closing'[c] = "closed" => closing[c] = "closed" \/ unfinished' = 0,
         \A s \in Span : outcome'[s] # outcome[s] =>
           outcome[s] # "new" /\ outcome'[s] \in {"ok", "err", "lost"} /\ (outcome'[s] = "lost" => ~process),
         \A s \in Span : InFlight(s)' => InFlight(s),
         \A s \in Span : InFlight(s) => InFlight(s)' \/ outcome'[s] # "pending"
  PROVE  CloseInv'
<1> USE DEF CloseInv
<1>1. OutcomeStep
  BY DEF OutcomeStep
<1>2. Order' /\ Reported'
  BY <1>1, OrderKept, ReportedKept
<1>7. Placed'
  BY DEF Placed
<1>3. Settled'
  BY <1>1, <1>2, <1>7, SettledStep
<1>4. PuttersFlushing'
  <2>1. \A i \in 1 .. Len(putters') : putters'[i] \in Closer
    BY DEF TypeInv, TypeOK, QueueType
  <2>2. ASSUME NEW i \in 1 .. Len(putters') PROVE closing'[putters'[i]] \notin {"open", "called"}
    <3>1. PICK j \in 1 .. Len(putters) : putters'[i] = putters[j]
      OBVIOUS
    <3>2. closing[putters[j]] \notin {"open", "called"} /\ putters[j] \in Closer
      BY <2>1, <3>1 DEF PuttersFlushing
    <3> QED
      BY <3>1, <3>2 DEF ClosingStep
  <2> QED
    BY <2>2 DEF PuttersFlushing
<1>5. LostReason'
  BY DEF LostReason
<1>6. RefusedReason'
  <2>1. \A c \in Closer :
          /\ closing[c] # "open" => closing'[c] # "open"
          /\ closing[c] \notin {"open", "called"} => closing'[c] \notin {"open", "called"}
    BY DEF ClosingStep
  <2>2. \A s \in Span : outcome'[s] = "refused" => outcome[s] = "refused"
    OBVIOUS
  <2>3. stopped' => \E c \in Closer : closing'[c] \notin {"open", "called"}
    BY <2>1 DEF RefusedReason
  <2>4. \A s \in Span : outcome[s] = "refused" => \E c \in Closer : closing'[c] # "open" /\ s \notin before'[c]
    BY <2>1 DEF RefusedReason
  <2> QED
    BY <2>2, <2>3, <2>4 DEF RefusedReason
<1> QED
  BY <1>2, <1>3, <1>4, <1>5, <1>6, <1>7

LEMMA CloseGetNowait ==
  ASSUME TypeInv, TypeInv', CloseInv, GetNowait
  PROVE  CloseInv'
<1>1. /\ queue \in Seq(Item) /\ queue # <<>> /\ Len(queue) \in Nat \ {0} /\ got = <<>> /\ got' = <<queue[1]>>
      /\ putters \in Seq(Closer)
  BY DEF TypeInv, TypeOK, QueueType, GetNowait, Control
<1>2. UNCHANGED <<ready, outcome, before, unnamed, process, stopped, spans>>
  BY DEF GetNowait
<1>3. \A s \in Span : InQueue(s) <=> InQueue(s)' \/ got' = <<s>>
  <2>1. queue' = Tail(queue) \/ queue' = Append(Tail(queue), Stop)
    BY DEF GetNowait
  <2>a. /\ Tail(queue) \in Seq(Item) /\ Len(Tail(queue)) = Len(queue) - 1
        /\ \A i \in 1 .. Len(queue) - 1 : Tail(queue)[i] = queue[i + 1]
    BY <1>1
  <2>b. \/ Len(queue') = Len(queue) - 1
        \/ Len(queue') = Len(queue) /\ queue'[Len(queue)] = Stop
    <3>1. CASE queue' = Tail(queue)
      BY <2>a, <3>1
    <3>2. CASE queue' = Append(Tail(queue), Stop)
      <4>1. Len(queue') = Len(Tail(queue)) + 1 /\ queue'[Len(Tail(queue)) + 1] = Stop
        BY <2>a, <3>2 DEF Item
      <4>2. Len(Tail(queue)) + 1 = Len(queue)
        BY <1>1, <2>a
      <4> QED
        BY <4>1, <4>2
    <3> QED
      BY <2>1, <3>1, <3>2
  <2>c. \A i \in 1 .. Len(queue) - 1 : queue'[i] = queue[i + 1]
    <3>1. CASE queue' = Tail(queue)
      BY <2>a, <3>1
    <3>2. CASE queue' = Append(Tail(queue), Stop)
      BY <1>1, <2>a, <3>2
    <3> QED
      BY <2>1, <3>1, <3>2
  <2>2. \A i \in 2 .. Len(queue) : i - 1 \in 1 .. Len(queue') /\ queue'[i - 1] = queue[i]
    BY <1>1, <2>b, <2>c
  <2>3. \A i \in 1 .. Len(queue') : queue'[i] = Stop \/ (i + 1 \in 1 .. Len(queue) /\ queue'[i] = queue[i + 1])
    BY <1>1, <2>b, <2>c
  <2>4. ASSUME NEW s \in Span, NEW i \in 1 .. Len(queue), queue[i] = s PROVE InQueue(s)' \/ got' = <<s>>
    <3>1. CASE i = 1
      BY <1>1, <2>4, <3>1
    <3>2. CASE i # 1
      BY <1>1, <2>2, <2>4, <3>2 DEF InQueue
    <3> QED
      BY <3>1, <3>2
  <2>5. ASSUME NEW s \in Span, InQueue(s)' PROVE InQueue(s)
    BY <2>3, <2>5, ReporterAssumption DEF InQueue
  <2>6. ASSUME NEW s \in Span, got' = <<s>> PROVE InQueue(s)
    BY <1>1, <2>6 DEF InQueue
  <2> QED
    BY <2>4, <2>5, <2>6 DEF InQueue
<1>4. \A s \in Span : InFlight(s)' <=> InFlight(s)
  BY <1>1, <1>2, <1>3 DEF InFlight, InReady, InBatch
<1>5. CASE putters = <<>>
  <2>1. putters' = putters /\ closing' = closing
    BY <1>5 DEF GetNowait
  <2> QED
    BY <1>2, <1>4, <2>1, CloseKept DEF ClosingStep
<1>6. CASE putters # <<>>
  <2>1. /\ putters' = Tail(putters) /\ closing' = [closing EXCEPT ![putters[1]] = "put"]
        /\ Len(putters) \in Nat \ {0} /\ putters[1] \in Closer
    BY <1>1, <1>6 DEF GetNowait
  <2>2. \A i \in 1 .. Len(putters') : i + 1 \in 1 .. Len(putters) /\ putters'[i] = putters[i + 1]
    BY <1>1, <2>1
  <2>3. closing[putters[1]] \notin {"open", "called"}
    BY <2>1 DEF CloseInv, PuttersFlushing
  <2>4. \A c \in Closer : closing'[c] = IF c = putters[1] THEN "put" ELSE closing[c]
    BY <2>1 DEF TypeInv, TypeOK, ApplicationType
  <2>5. ClosingStep
    BY <2>3, <2>4 DEF ClosingStep
  <2> QED
    BY <1>2, <1>4, <2>2, <2>4, <2>5, CloseKept
<1> QED
  BY <1>5, <1>6

\* TaskDone moves closers from "joining" to "closed", when nothing is unfinished.
LEMMA TaskDoneClosing ==
  ASSUME TypeInv, NEW n \in Nat, TaskDone(n)
  PROVE  /\ ClosingStep
         /\ \A c \in Closer : closing'[c] = "closed" => closing[c] = "closed" \/ unfinished' = 0
<1>1. unfinished' = unfinished - n /\ unfinished \in Nat
  BY DEF TaskDone, TypeInv, TypeOK, QueueType
<1>2. CASE n = unfinished
  BY <1>1, <1>2 DEF TaskDone, ClosingStep
<1>3. CASE n # unfinished
  BY <1>3 DEF TaskDone, ClosingStep
<1> QED
  BY <1>2, <1>3

LEMMA CloseReceive ==
  ASSUME TypeInv, TypeInv', CloseInv, Receive
  PROVE  CloseInv'
<1>1. UNCHANGED <<ready, outcome, before, unnamed, process, stopped, queue, putters>> /\ got' = <<>>
  BY DEF Receive, historyVars
<1>2. /\ ClosingStep
      /\ \A c \in Closer : closing'[c] = "closed" => closing[c] = "closed" \/ unfinished' = 0
  <2>1. CASE UNCHANGED closing
    BY <2>1 DEF ClosingStep
  <2>2. CASE TaskDone(1)
    BY <2>2, TaskDoneClosing
  <2> QED
    BY <2>1, <2>2 DEF Receive, StopTaken
<1>3. \A s \in Span : InBatch(s)' <=> InBatch(s) \/ got = <<s>>
  <2>1. CASE spans' = spans /\ (got = <<>> \/ Head(got) = Stop)
    BY <2>1, ReporterAssumption DEF InBatch
  <2>2. CASE got # <<>> /\ spans' = Append(spans, Head(got))
    <3>1. spans \in Seq(Span)
      BY DEF TypeInv, TypeOK, ConsumerType
    <3>2. PICK item \in Item : got = <<item>>
      BY <2>2 DEF TypeInv, TypeOK, QueueType
    <3>3. \A s : InBatch(s)' <=> InBatch(s) \/ s = item
      BY <2>2, <3>1, <3>2 DEF InBatch
    <3> QED
      BY <3>2, <3>3
  <2> QED
    BY <2>1, <2>2 DEF Receive, StopTaken
<1>4. \A s \in Span : InFlight(s)' <=> InFlight(s)
  BY <1>1, <1>3 DEF InFlight, InReady, InQueue
<1> QED
  BY <1>1, <1>2, <1>4, CloseKept

LEMMA CloseSubmitted ==
  ASSUME TypeInv, TypeInv', CloseInv, NEW result \in {"ok", "err", "lost"}, result = "lost" => ~process,
         Submitted(result)
  PROVE  CloseInv'
<1>1. UNCHANGED <<ready, before, unnamed, process, stopped, queue, got, putters>>
  BY DEF Submitted
<1>2. Len(spans) \in Nat /\ TaskDone(Len(spans))
  BY DEF Submitted, TypeInv, TypeOK, ConsumerType
<1>3. \A s \in Span : outcome'[s] = IF InBatch(s) THEN result ELSE outcome[s]
  BY DEF Submitted
<1>4. \A s \in Span : InBatch(s) => outcome[s] # "new"
  BY DEF CloseInv, Reported, InFlight
<1>5. \A s : ~InBatch(s)'
  BY DEF Submitted, ClearBatch, InBatch
<1>6. /\ \A s \in Span : InFlight(s)' => InFlight(s)
      /\ \A s \in Span : InFlight(s) => InFlight(s)' \/ outcome'[s] # "pending"
  BY <1>1, <1>3, <1>5 DEF InFlight, InReady, InQueue
<1>7. \A s \in Span : outcome'[s] # outcome[s] =>
        outcome[s] # "new" /\ outcome'[s] \in {"ok", "err", "lost"} /\ (outcome'[s] = "lost" => ~process)
  BY <1>3, <1>4
<1> QED
  BY <1>1, <1>2, <1>6, <1>7, TaskDoneClosing, CloseKept

LEMMA CloseReportSpan ==
  ASSUME TypeInv, TypeInv', CloseInv, NEW s \in Span, ReportSpan(s)
  PROVE  CloseInv'
<1> USE DEF CloseInv
<1>1. /\ ready \in Seq(Span \cup Closer) /\ Len(ready) \in Nat /\ Len(ready') = Len(ready) + 1
      /\ ready'[Len(ready) + 1] = s /\ \A i \in 1 .. Len(ready) : ready'[i] = ready[i]
  BY DEF TypeInv, TypeOK, ApplicationType, ReportSpan
<1>2. UNCHANGED <<queue, got, putters, spans, closing, before, process, stopped>>
  BY DEF ReportSpan, queueVars, consumerVars
<1>3. outcome[s] = "new" /\ \A r \in Span : outcome'[r] = IF r = s THEN "pending" ELSE outcome[r]
  BY DEF ReportSpan, TypeInv, TypeOK, ApplicationType
<1>4. unnamed \subseteq unnamed' /\ (process \/ s \in unnamed')
  BY DEF ReportSpan
<1>5. OutcomeStep
  BY <1>3 DEF OutcomeStep
<1>6. \A r \in Span : InFlight(r)' <=> r = s \/ InFlight(r)
  <2>1. \A r : InReady(r)' <=> r = s \/ InReady(r)
    BY <1>1 DEF InReady
  <2> QED
    BY <1>2, <2>1 DEF InFlight, InBatch, InQueue
<1>7. Placed' /\ Reported'
  BY <1>3, <1>6 DEF Placed, Reported
<1>8. Order'
  <2>1. \A c \in Closer : s \notin before[c] /\ s # c
    BY <1>3, ReporterAssumption DEF Order
  <2>2. \A c \in Closer : \A r \in before[c] : outcome'[r] # "new"
    <3>1. \A c \in Closer : \A r \in before[c] : r \in Span /\ outcome[r] # "new"
      BY DEF Order, TypeInv, TypeOK, ApplicationType
    <3> QED
      BY <1>3, <3>1
  <2>3. ASSUME NEW c \in Closer, NEW i \in 1 .. Len(ready'), ready'[i] = c
        PROVE  closing[c] # "open" /\ \A j \in 1 .. Len(ready') : ready'[j] \in before[c] => j < i
    <3>1. i \in 1 .. Len(ready) /\ ready[i] = c
      BY <1>1, <2>1, <2>3
    <3>2. \A j \in 1 .. Len(ready') : ready'[j] \in before[c] => j \in 1 .. Len(ready) /\ ready[j] \in before[c]
      BY <1>1, <2>1
    <3> QED
      BY <3>1, <3>2 DEF Order
  <2>4. ASSUME NEW c \in Closer, closing[c] \notin {"open", "called"}, NEW r \in before[c] PROVE ~InReady(r)'
    <3>1. r # s /\ ~InReady(r)
      BY <2>1, <2>4 DEF Order
    <3> QED
      BY <1>1, <3>1 DEF InReady
  <2> QED
    BY <1>2, <2>2, <2>3, <2>4 DEF Order
<1>9. Settled' /\ PuttersFlushing'
  BY <1>2, <1>5, <1>7, <1>8, SettledStep DEF PuttersFlushing
<1>10. LostReason'
  BY <1>2, <1>3, <1>4 DEF LostReason
<1>11. RefusedReason'
  <2>1. \A r \in Span : outcome'[r] = "refused" => outcome[r] = "refused"
    BY <1>3
  <2> QED
    BY <1>2, <2>1 DEF RefusedReason
<1> QED
  BY <1>7, <1>8, <1>9, <1>10, <1>11

LEMMA CloseClose ==
  ASSUME TypeInv, TypeInv', CloseInv, NEW c \in Closer, Close(c)
  PROVE  CloseInv'
<1> USE DEF CloseInv
<1>1. /\ ready \in Seq(Span \cup Closer) /\ Len(ready) \in Nat /\ Len(ready') = Len(ready) + 1
      /\ ready'[Len(ready) + 1] = c /\ \A i \in 1 .. Len(ready) : ready'[i] = ready[i]
  BY DEF TypeInv, TypeOK, ApplicationType, Close
<1>2. UNCHANGED <<queue, got, putters, spans, outcome, unnamed, process, stopped>>
  BY DEF Close, queueVars, consumerVars
<1>3. closing[c] = "open" /\ \A d \in Closer : closing'[d] = IF d = c THEN "called" ELSE closing[d]
  BY DEF Close, TypeInv, TypeOK, ApplicationType
<1>4. /\ before'[c] = {s \in Span : outcome[s] # "new"}
      /\ \A d \in Closer \ {c} : before'[d] = before[d]
  BY DEF Close, TypeInv, TypeOK, ApplicationType
<1>5. \A s \in Span : InFlight(s)' <=> InFlight(s)
  <2>1. \A s \in Span : InReady(s)' <=> InReady(s)
    BY <1>1, ReporterAssumption DEF InReady
  <2> QED
    BY <1>2, <2>1 DEF InFlight, InBatch, InQueue
<1>6. Placed' /\ Reported' /\ LostReason'
  BY <1>2, <1>5 DEF Placed, Reported, LostReason
<1>7. Order'
  <2>1. \A d \in Closer : \A s \in before'[d] : outcome'[s] # "new"
    BY <1>2, <1>4 DEF Order
  <2>2. ASSUME NEW d \in Closer, NEW i \in 1 .. Len(ready'), ready'[i] = d
        PROVE  closing'[d] # "open" /\ \A j \in 1 .. Len(ready') : ready'[j] \in before'[d] => j < i
    <3>1. \A j \in 1 .. Len(ready') : ready'[j] \in before'[d] => j \in 1 .. Len(ready)
      BY <1>1, ReporterAssumption DEF TypeInv, TypeOK, ApplicationType
    <3>2. CASE i = Len(ready) + 1
      <4>1. d = c
        BY <1>1, <2>2, <3>2
      <4> QED
        BY <1>1, <1>3, <3>1, <3>2, <4>1
    <3>3. CASE i # Len(ready) + 1
      <4>1. i \in 1 .. Len(ready) /\ ready[i] = d
        BY <1>1, <2>2, <3>3
      <4>2. closing[d] # "open" /\ d # c
        BY <1>3, <4>1 DEF Order
      <4>3. \A j \in 1 .. Len(ready) : ready[j] \in before[d] => j < i
        BY <4>1 DEF Order
      <4> QED
        BY <1>1, <1>3, <1>4, <3>1, <4>2, <4>3
    <3> QED
      BY <3>2, <3>3
  <2>3. ASSUME NEW d \in Closer, closing'[d] \notin {"open", "called"}, NEW s \in before'[d] PROVE ~InReady(s)'
    <3>1. d # c /\ s \in before[d] /\ closing[d] \notin {"open", "called"}
      BY <1>3, <1>4, <2>3
    <3>2. ~InReady(s) /\ s \in Span
      BY <3>1 DEF Order, TypeInv, TypeOK, ApplicationType
    <3> QED
      BY <1>1, <3>2, ReporterAssumption DEF InReady
  <2> QED
    BY <2>1, <2>2, <2>3 DEF Order
<1>8. PuttersFlushing'
  <2>1. \A i \in 1 .. Len(putters) : putters[i] \in Closer
    BY DEF TypeInv, TypeOK, QueueType
  <2> QED
    BY <1>2, <1>3, <2>1 DEF PuttersFlushing
<1>9. Settled'
  BY <1>2, <1>3, <1>4 DEF Settled
<1>10. RefusedReason'
  <2>1. stopped' => \E d \in Closer : closing'[d] \notin {"open", "called"}
    BY <1>2, <1>3 DEF RefusedReason
  <2>2. ASSUME NEW s \in Span, outcome'[s] = "refused"
        PROVE  \E d \in Closer : closing'[d] # "open" /\ s \notin before'[d]
    <3>1. PICK d \in Closer : closing[d] # "open" /\ s \notin before[d]
      BY <1>2, <2>2 DEF RefusedReason
    <3> QED
      BY <1>3, <1>4, <3>1
  <2> QED
    BY <2>1, <2>2 DEF RefusedReason
<1> QED
  BY <1>6, <1>7, <1>8, <1>9, <1>10

LEMMA StepClose == TypeInv /\ TypeInv' /\ CloseInv /\ [Next]_vars => CloseInv'
<1> SUFFICES ASSUME TypeInv, TypeInv', CloseInv, [Next]_vars PROVE CloseInv'
  OBVIOUS
<1>1. ASSUME process => process',
             UNCHANGED <<ready, queue, got, putters, stopped, spans, closing, outcome, before, unnamed>>
      PROVE  CloseInv'
  <2>1. Order' /\ PuttersFlushing' /\ Settled'
    BY <1>1 DEF CloseInv, Order, InReady, PuttersFlushing, Settled
  <2>2. Placed' /\ Reported'
    BY <1>1 DEF CloseInv, Placed, Reported, InFlight, InReady, InBatch, InQueue
  <2>3. LostReason' /\ RefusedReason'
    BY <1>1 DEF CloseInv, LostReason, RefusedReason
  <2> QED
    BY <2>1, <2>2, <2>3 DEF CloseInv
<1>2. ASSUME NEW c \in Closer, RunJoin(c) PROVE CloseInv'
  <2>1. UNCHANGED <<ready, queue, got, unfinished, putters, stopped, process, spans, outcome, before, unnamed>>
    BY <1>2 DEF RunJoin, queueVars, consumerVars, historyVars
  <2>2. /\ closing[c] = "put"
        /\ \A d \in Closer : closing'[d] = IF d # c THEN closing[d] ELSE IF unfinished = 0 THEN "closed" ELSE "joining"
    BY <1>2 DEF RunJoin, TypeInv, TypeOK, ApplicationType
  <2>3. ClosingStep
    BY <2>2 DEF ClosingStep
  <2>4. \A s \in Span : InFlight(s)' <=> InFlight(s)
    BY <2>1 DEF InFlight, InReady, InBatch, InQueue
  <2> QED
    BY <2>1, <2>2, <2>3, <2>4, CloseKept
<1>3. CASE SetProcess \/ TimerFires \/ AwaitItem \/ ItemReady \/ BatchFull \/ NothingToSubmit \/ SendPending
           \/ UNCHANGED vars
  BY <1>1, <1>3 DEF SetProcess, TimerFires, AwaitItem, ItemReady, BatchFull, NothingToSubmit, SendPending, vars,
                   queueVars, consumerVars, historyVars
<1>4. CASE Submit \/ SendEnds
  <2>1. ASSUME NEW result \in {"ok", "err"}, Submitted(result) PROVE CloseInv'
    BY <2>1, CloseSubmitted
  <2>2. CASE ~process /\ Submitted("lost")
    BY <2>2, CloseSubmitted
  <2> QED
    BY <1>4, <2>1, <2>2 DEF Submit, SendEnds
<1> QED
  BY <1>2, <1>3, <1>4, CloseReportSpan, CloseClose, CloseRunReport, CloseRunFlush, CloseGetNowait, CloseReceive
     DEF Next, RunCallback, Consume

-----------------------------------------------------------------------------
LEMMA Invariance == Spec => [](TypeInv /\ FlowInv /\ CloseInv)
<1>1. Init => FlowInv
  BY DEF Init, FlowInv, Pipeline, Taken, Sealed, NoSpanBehindStop
<1> QED
  BY <1>1, InitType, InitClose, StepType, StepFlow, StepClose, PTL DEF Spec

\* For any number of spans and calls of close(): the queue, the item in hand and the batch
\* hold the items put and not yet submitted, in order.
THEOREM NothingLostInTheQueue == Spec => []Pipeline
BY Invariance, PTL DEF FlowInv

\* However report_span and close() interleave, no span follows a sentinel into the queue, where
\* the consumer would leave it behind.
THEOREM NothingBehindStop == Spec => []NoSpanBehindStop
BY Invariance, PTL DEF FlowInv

\* The count on which Queue.join waits is the number of items that were not submitted.
THEOREM UnfinishedCounts == Spec => []UnfinishedExact
BY Invariance, PTL DEF TypeInv

\* _consume_queue never waits for an item while there is one to take.
THEOREM WakeupsKept == Spec => []NoLostWakeup
BY Invariance, PTL DEF TypeInv

\* When the future of a close() completes, the spans reported before it are accounted for.
THEOREM CloseFlushesAll == Spec => []CloseFlushes
BY Invariance, CloseInvFlushes, PTL DEF TypeInv

-----------------------------------------------------------------------------
(***************************************************************************)
(* The reporter implements SpanBuffer, its liveness left aside.            *)
(***************************************************************************)

In(seq, x) == \E i \in 1 .. Len(seq) : seq[i] = x

LEMMA InConcat ==
  ASSUME NEW S, NEW a \in Seq(S), NEW b \in Seq(S), NEW x
  PROVE  In(a \o b, x) <=> In(a, x) \/ In(b, x)
<1>1. ASSUME In(a, x) PROVE In(a \o b, x)
  BY <1>1 DEF In
<1>2. ASSUME NEW i \in 1 .. Len(b), b[i] = x PROVE In(a \o b, x)
  <2>1. Len(a) + i \in 1 .. Len(a \o b) /\ (a \o b)[Len(a) + i] = x
    BY <1>2
  <2> QED
    BY <2>1 DEF In
<1>3. ASSUME NEW i \in 1 .. Len(a \o b), (a \o b)[i] = x PROVE In(a, x) \/ In(b, x)
  <2>1. CASE i <= Len(a)
    BY <1>3, <2>1 DEF In
  <2>2. CASE i > Len(a)
    <3>1. i - Len(a) \in 1 .. Len(b) /\ b[i - Len(a)] = x
      BY <1>3, <2>2
    <3> QED
      BY <3>1 DEF In
  <2> QED
    BY <2>1, <2>2
<1> QED
  BY <1>1, <1>2, <1>3 DEF In

LEMMA SameSeq ==
  ASSUME NEW S, NEW a \in Seq(S), NEW b \in Seq(S), Len(a) = Len(b), \A i \in 1 .. Len(a) : a[i] = b[i]
  PROVE  a = b
OBVIOUS

\* The items up to the first sentinel are a sequence of n spans.
Fronts(items, n) == n \in Nat /\ n <= Len(items) /\ InFront(items) = 1 .. n

LEMMA FrontType ==
  ASSUME NEW items \in Seq(Item), NEW n, Fronts(items, n)
  PROVE  Front(items) \in Seq(Span) /\ Len(Front(items)) = n /\ \A x : In(Front(items), x) => In(items, x)
<1>1. \A i \in 1 .. n : i \in 1 .. Len(items) /\ items[i] \in Span
  BY DEF Fronts, InFront, Item
<1>2. Front(items) = [i \in 1 .. n |-> items[i]]
  BY DEF Front, Fronts
<1>3. Front(items) \in Seq(Span) /\ Len(Front(items)) = n
  BY <1>1, <1>2 DEF Fronts
<1> QED
  BY <1>1, <1>2, <1>3 DEF In, Fronts

LEMMA FrontAppendStop ==
  ASSUME NEW items \in Seq(Item), NEW n, Fronts(items, n)
  PROVE  Fronts(Append(items, Stop), n) /\ Front(Append(items, Stop)) = Front(items)
<1> DEFINE more == Append(items, Stop)
<1>1. Len(more) = Len(items) + 1 /\ more[Len(items) + 1] = Stop /\ \A i \in 1 .. Len(items) : more[i] = items[i]
  OBVIOUS
<1>2. DOMAIN more = 1 .. Len(items) + 1 /\ DOMAIN items = 1 .. Len(items)
  OBVIOUS
<1>3. InFront(more) = InFront(items)
  BY <1>1, <1>2 DEF InFront
<1>4. \A i \in InFront(items) : more[i] = items[i]
  BY <1>1, <1>2 DEF InFront
<1> QED
  BY <1>1, <1>3, <1>4 DEF Fronts, Front

LEMMA FrontAppend ==
  ASSUME NEW items \in Seq(Item), \A i \in 1 .. Len(items) : items[i] # Stop, NEW s \in Span
  PROVE  /\ Fronts(items, Len(items)) /\ Fronts(Append(items, s), Len(items) + 1)
         /\ Front(Append(items, s)) = Append(Front(items), s)
<1> DEFINE more == Append(items, s)
<1>1. s # Stop /\ s \in Item
  BY ReporterAssumption DEF Item
<1>2. /\ Len(more) = Len(items) + 1 /\ more[Len(items) + 1] = s /\ \A i \in 1 .. Len(items) : more[i] = items[i]
      /\ DOMAIN more = 1 .. Len(items) + 1 /\ DOMAIN items = 1 .. Len(items) /\ Len(items) \in Nat
  BY <1>1
<1>3. InFront(items) = 1 .. Len(items)
  BY <1>2 DEF InFront
<1>4. InFront(more) = 1 .. Len(items) + 1
  BY <1>1, <1>2 DEF InFront
<1>5. Front(items) = items
  BY <1>2, <1>3 DEF Front
<1>6. Front(more) = more
  <2>1. more \in Seq(Item)
    BY <1>1
  <2> HIDE DEF more
  <2>2. Front(more) = [i \in 1 .. Len(more) |-> more[i]]
    BY <1>2, <1>4 DEF Front
  <2> QED
    BY <2>1, <2>2
<1> QED
  BY <1>2, <1>3, <1>4, <1>5, <1>6 DEF Fronts

LEMMA FrontHead ==
  ASSUME NEW x \in Span, NEW rest \in Seq(Item), NEW n, Fronts(<<x>> \o rest, n)
  PROVE  n # 0 /\ Fronts(rest, n - 1) /\ Front(<<x>> \o rest) = <<x>> \o Front(rest)
<1> DEFINE all == <<x>> \o rest
<1>1. x # Stop /\ x \in Item
  BY ReporterAssumption DEF Item
<1>2. /\ Len(all) = Len(rest) + 1 /\ all[1] = x /\ \A i \in 1 .. Len(rest) : all[i + 1] = rest[i]
      /\ DOMAIN all = 1 .. Len(rest) + 1 /\ DOMAIN rest = 1 .. Len(rest) /\ Len(rest) \in Nat
  BY <1>1
<1>3. n \in Nat /\ n <= Len(rest) + 1 /\ InFront(all) = 1 .. n
  BY <1>2 DEF Fronts
<1>4. n # 0
  <2>1. 1 \in InFront(all)
    BY <1>1, <1>2 DEF InFront
  <2> QED
    BY <1>3, <2>1
<1>5. ASSUME NEW i \in 1 .. Len(rest) PROVE i \in InFront(rest) <=> i + 1 \in InFront(all)
  <2>1. ASSUME \A j \in 1 .. i : rest[j] # Stop, NEW k \in 1 .. i + 1 PROVE all[k] # Stop
    <3>1. CASE k = 1
      BY <1>1, <1>2, <3>1
    <3>2. CASE k # 1
      <4>1. k - 1 \in 1 .. i /\ k - 1 \in 1 .. Len(rest) /\ (k - 1) + 1 = k
        BY <3>2
      <4> QED
        BY <1>2, <2>1, <4>1
    <3> QED
      BY <3>1, <3>2
  <2>2. ASSUME \A k \in 1 .. i + 1 : all[k] # Stop, NEW j \in 1 .. i PROVE rest[j] # Stop
    <3>1. j + 1 \in 1 .. i + 1 /\ all[j + 1] = rest[j]
      BY <1>2
    <3> QED
      BY <2>2, <3>1
  <2>3. i + 1 \in DOMAIN all /\ i \in DOMAIN rest
    BY <1>2
  <2> QED
    BY <2>1, <2>2, <2>3 DEF InFront
<1>6. InFront(rest) = 1 .. n - 1
  <2>1. \A i \in InFront(rest) : i \in 1 .. Len(rest)
    BY <1>2 DEF InFront
  <2> HIDE DEF all
  <2>2. ASSUME NEW i \in 1 .. n - 1 PROVE i \in InFront(rest)
    <3>1. i \in 1 .. Len(rest) /\ i + 1 \in 1 .. n
      BY <1>2, <1>3
    <3> QED
      BY <1>3, <1>5, <3>1
  <2>3. ASSUME NEW i \in InFront(rest) PROVE i \in 1 .. n - 1
    <3>1. i \in 1 .. Len(rest) /\ i + 1 \in 1 .. n
      BY <1>3, <1>5, <2>1
    <3> QED
      BY <1>3, <3>1
  <2> QED
    BY <2>2, <2>3
<1>7. Front(all) = [i \in 1 .. n |-> all[i]] /\ Front(rest) = [i \in 1 .. n - 1 |-> rest[i]]
  BY <1>3, <1>6 DEF Front
<1>8. Fronts(rest, n - 1)
  BY <1>2, <1>3, <1>4, <1>6 DEF Fronts
<1>9. Front(rest) \in Seq(Span) /\ Len(Front(rest)) = n - 1
  BY <1>8, FrontType
<1>10. Front(all) = <<x>> \o Front(rest)
  <2>1. <<x>> \o Front(rest) \in Seq(Item) /\ Len(<<x>> \o Front(rest)) = n
    BY <1>3, <1>9 DEF Item
  <2>2. Front(all) \in Seq(Item) /\ Len(Front(all)) = n
    <3>1. all \in Seq(Item)
      BY <1>1
    <3>2. Fronts(all, n)
      OBVIOUS
    <3> HIDE DEF all
    <3>3. Front(all) \in Seq(Span) /\ Len(Front(all)) = n
      BY <3>1, <3>2, FrontType
    <3> QED
      BY <3>3 DEF Item
  <2>3. ASSUME NEW i \in 1 .. n PROVE Front(all)[i] = (<<x>> \o Front(rest))[i]
    <3>1. CASE i = 1
      BY <1>2, <1>3, <1>7, <1>9, <3>1
    <3>2. CASE i # 1
      <4>1. i - 1 \in 1 .. n - 1 /\ i - 1 \in 1 .. Len(rest) /\ (i - 1) + 1 = i
        BY <1>3, <3>2
      <4>2. (<<x>> \o Front(rest))[i] = Front(rest)[i - 1]
        BY <1>3, <1>9, <4>1
      <4> QED
        BY <1>2, <1>7, <4>1, <4>2
    <3> QED
      BY <3>1, <3>2
  <2> QED
    BY <2>1, <2>2, <2>3, SameSeq
<1> QED
  BY <1>4, <1>8, <1>10

LEMMA FrontStop ==
  ASSUME NEW items \in Seq(Item), \A i \in 1 .. Len(items) : items[i] = Stop
  PROVE  Fronts(items, 0) /\ Front(items) = <<>>
<1>1. InFront(items) = {}
  BY DEF InFront
<1>2. Fronts(items, 0)
  BY <1>1 DEF Fronts
<1>3. Front(items) \in Seq(Span) /\ Len(Front(items)) = 0
  BY <1>2, FrontType
<1> QED
  BY <1>2, <1>3

Enqueued(s) == In(enqueued, s)

\* The callback of a span is added once; until it runs the span is nowhere else.
Once    == \A i, j \in 1 .. Len(ready) : ready[i] = ready[j] /\ ready[i] \in Span => i = j
Waiting == \A s \in Span : InReady(s) => outcome[s] = "pending" /\ ~Enqueued(s)

\* What is in the queue was not dropped.
Kept == \A s \in Span : Enqueued(s) => outcome[s] \notin {"new", "refused", "overflow"}

\* When _consume_queue waits for anything but an item, it has a span: so a full queue is not
\* all there is.
HasSpans ==
  /\ getter = "timed" \/ pc = "sending" => spans # <<>>
  /\ pc = "getting" /\ getter = "none" => spans # <<>> \/ got # <<>>

\* The sentinels are behind the spans.
StopsLast == \E n \in Nat : Fronts(got \o queue, n)

BufferInv == Once /\ Waiting /\ Kept /\ HasSpans /\ StopsLast

LEMMA InitBuffer == Init => BufferInv
<1> SUFFICES ASSUME Init PROVE BufferInv
  OBVIOUS
<1>1. Once /\ Waiting /\ Kept /\ HasSpans
  BY DEF Init, Once, Waiting, InReady, Kept, Enqueued, In, HasSpans
<1>2. Fronts(<<>>, 0)
  <2>1. <<>> \in Seq(Item) /\ \A i \in 1 .. Len(<<>>) : <<>>[i] = Stop
    OBVIOUS
  <2> QED
    BY <2>1, FrontStop
<1>3. got \o queue = <<>>
  BY DEF Init
<1> QED
  BY <1>1, <1>2, <1>3 DEF BufferInv, StopsLast

\* What is held, or was delivered, is in the queue's history.
LEMMA HeldEnqueued ==
  ASSUME TypeInv, Pipeline, NEW x
  PROVE  In(handled, x) \/ In(spans, x) \/ In(got \o queue, x) => Enqueued(x)
<1>1. /\ handled \in Seq(Item) /\ Taken \in Seq(Item) /\ spans \in Seq(Item)
      /\ got \in Seq(Item) /\ queue \in Seq(Item) /\ handled \o Taken \in Seq(Item)
      /\ handled \o Taken \o got \in Seq(Item)
  BY TypesInItem DEF TypeInv
<1>2. Enqueued(x) <=> In(handled, x) \/ In(Taken, x) \/ In(got, x) \/ In(queue, x)
  <2>1. Enqueued(x) <=> In(handled \o Taken \o got, x) \/ In(queue, x)
    <3> DEFINE past == handled \o Taken \o got
    <3>1. past \in Seq(Item) /\ enqueued = past \o queue
      BY <1>1 DEF Pipeline
    <3> HIDE DEF past
    <3>2. In(past \o queue, x) <=> In(past, x) \/ In(queue, x)
      BY <1>1, <3>1, InConcat
    <3> QED
      BY <3>1, <3>2 DEF Enqueued, past
  <2>2. In(handled \o Taken \o got, x) <=> In(handled \o Taken, x) \/ In(got, x)
    BY <1>1, InConcat
  <2>3. In(handled \o Taken, x) <=> In(handled, x) \/ In(Taken, x)
    BY <1>1, InConcat
  <2> QED
    BY <2>1, <2>2, <2>3
<1>3. In(got \o queue, x) <=> In(got, x) \/ In(queue, x)
  BY <1>1, InConcat
<1>4. In(spans, x) => In(Taken, x)
  <2> DEFINE mark == IF stopping THEN <<Stop>> ELSE <<>>
  <2>1. mark \in Seq(Item) /\ Taken = spans \o mark
    <3>1. Stop \in Item /\ <<Stop>> \in Seq(Item) /\ <<>> \in Seq(Item)
      BY DEF Item
    <3>2. CASE stopping
      BY <3>1, <3>2 DEF Taken
    <3>3. CASE ~stopping
      BY <3>1, <3>3 DEF Taken
    <3> QED
      BY <3>2, <3>3
  <2> HIDE DEF mark
  <2> QED
    BY <1>1, <2>1, InConcat
<1> QED
  BY <1>2, <1>3, <1>4

LEMMA ItemsType ==
  ASSUME TypeInv
  PROVE  got \in Seq(Item) /\ queue \in Seq(Item) /\ got \o queue \in Seq(Item)
BY TypesInItem DEF TypeInv

LEMMA ItemsPut ==
  ASSUME TypeInv, NEW item \in Item, PutNowait(item)
  PROVE  got' \o queue' = Append(got \o queue, item)
<1>1. CASE getter = "none"
  <2>1. got' = got /\ queue' = Append(queue, item)
    BY <1>1 DEF PutNowait
  <2> QED
    BY <2>1, ItemsType, ConcatAppend
<1>2. CASE getter # "none"
  <2>1. got = <<>> /\ queue = <<>> /\ got' = <<item>> /\ queue' = <<>>
    BY <1>2 DEF PutNowait, TypeInv, NoLostWakeup
  <2> QED
    BY <2>1
<1> QED
  BY <1>1, <1>2

LEMMA PutStop ==
  ASSUME TypeInv, StopsLast, PutNowait(Stop)
  PROVE  StopsLast' /\ Front(got' \o queue') = Front(got \o queue)
<1>1. PICK n \in Nat : Fronts(got \o queue, n)
  BY DEF StopsLast
<1>2. Stop \in Item
  BY DEF Item
<1>3. got' \o queue' = Append(got \o queue, Stop)
  BY <1>2, ItemsPut
<1>4. Fronts(Append(got \o queue, Stop), n) /\ Front(Append(got \o queue, Stop)) = Front(got \o queue)
  BY <1>1, ItemsType, FrontAppendStop
<1> QED
  BY <1>3, <1>4 DEF StopsLast

\* While the reporter is not closed no sentinel is in hand or in the queue.
LEMMA NoStopYet ==
  ASSUME TypeInv, FlowInv, ~stopped
  PROVE  \A i \in 1 .. Len(got \o queue) : (got \o queue)[i] # Stop
<1>1. ~Enqueued(Stop)
  BY DEF FlowInv, Sealed, Enqueued, In
<1>2. ~In(got \o queue, Stop)
  BY <1>1, HeldEnqueued DEF FlowInv
<1> QED
  BY <1>2 DEF In

LEMMA PutSpan ==
  ASSUME TypeInv, FlowInv, ~stopped, NEW s \in Span, PutNowait(s)
  PROVE  StopsLast' /\ Front(got' \o queue') = Append(Front(got \o queue), s)
<1> DEFINE items == got \o queue
<1>1. items \in Seq(Item) /\ \A i \in 1 .. Len(items) : items[i] # Stop
  BY NoStopYet, ItemsType
<1>2. got' \o queue' = Append(items, s)
  BY ItemsPut DEF Item
<1> HIDE DEF items
<1>3. Fronts(Append(items, s), Len(items) + 1) /\ Front(Append(items, s)) = Append(Front(items), s)
  BY <1>1, FrontAppend
<1>4. Len(items) + 1 \in Nat
  BY <1>1
<1> QED
  BY <1>2, <1>3, <1>4 DEF StopsLast, items

LEMMA GetItem ==
  ASSUME TypeInv, StopsLast, GetNowait
  PROVE  StopsLast' /\ Front(got' \o queue') = Front(got \o queue)
<1>1. PICK n \in Nat : Fronts(got \o queue, n)
  BY DEF StopsLast
<1>2. got = <<>> /\ got' = <<Head(queue)>> /\ queue # <<>> /\ queue \in Seq(Item)
  BY ItemsType DEF TypeInv, GetNowait, Control
<1>3. /\ Head(queue) \in Item /\ Tail(queue) \in Seq(Item) /\ got' \in Seq(Item) /\ Stop \in Item
      /\ <<Head(queue)>> \o Tail(queue) = queue
  BY <1>2, HeadTail DEF Item
<1>4. got \o queue = queue /\ got' \o Tail(queue) = queue
  BY <1>2, <1>3
<1>5. CASE putters = <<>>
  <2>1. got' \o queue' = got \o queue
    BY <1>4, <1>5 DEF GetNowait
  <2> QED
    BY <1>1, <2>1 DEF StopsLast
<1>6. CASE putters # <<>>
  <2>1. queue' = Append(Tail(queue), Stop)
    BY <1>6 DEF GetNowait
  <2>2. got' \o queue' = Append(got' \o Tail(queue), Stop)
    BY <1>3, <2>1, ConcatAppend
  <2>3. got' \o queue' = Append(got \o queue, Stop)
    BY <1>4, <2>2
  <2>4. Fronts(Append(got \o queue, Stop), n) /\ Front(Append(got \o queue, Stop)) = Front(got \o queue)
    BY <1>1, ItemsType, FrontAppendStop
  <2> QED
    BY <2>3, <2>4 DEF StopsLast
<1> QED
  BY <1>5, <1>6

\* Behind a sentinel in hand there are only sentinels.
LEMMA StopsBehind ==
  ASSUME TypeInv, FlowInv, got = <<Stop>>
  PROVE  \A i \in 1 .. Len(queue) : queue[i] = Stop
<1> DEFINE past == handled \o Taken
<1>1. past \in Seq(Item) /\ queue \in Seq(Item) /\ <<Stop>> \in Seq(Item)
  BY TypesInItem DEF TypeInv
<1>2. enqueued = past \o <<Stop>> \o queue
  BY DEF FlowInv, Pipeline
<1> HIDE DEF past
<1>3. /\ Len(enqueued) = Len(past) + 1 + Len(queue) /\ enqueued[Len(past) + 1] = Stop
      /\ \A i \in 1 .. Len(queue) : enqueued[Len(past) + 1 + i] = queue[i]
      /\ Len(past) \in Nat /\ Len(queue) \in Nat
  BY <1>1, <1>2
<1>4. ASSUME NEW i \in 1 .. Len(queue) PROVE enqueued[Len(past) + 1 + i] = Stop
  <2>1. Len(past) + 1 \in 1 .. Len(enqueued) /\ Len(past) + 1 + i \in Len(past) + 1 .. Len(enqueued)
    BY <1>3
  <2> QED
    BY <1>3, <2>1 DEF FlowInv, NoSpanBehindStop
<1> QED
  BY <1>3, <1>4

LEMMA ReceiveItem ==
  ASSUME TypeInv, FlowInv, StopsLast, Receive
  PROVE  StopsLast' /\ Held' = Held
<1>1. PICK n \in Nat : Fronts(got \o queue, n)
  BY DEF StopsLast
<1>2. spans \in Seq(Span) /\ queue \in Seq(Item) /\ got' = <<>> /\ queue' = queue
  BY ItemsType DEF TypeInv, TypeOK, ConsumerType, Receive
<1>3. got' \o queue' = queue
  BY <1>2
<1>4. Held' = spans' \o Front(queue)
  BY <1>3 DEF Held
<1>5. CASE got = <<>>
  <2>1. got \o queue = queue /\ spans' = spans
    BY <1>2, <1>5 DEF Receive
  <2> QED
    BY <1>1, <1>3, <1>4, <2>1 DEF Held, StopsLast
<1>6. CASE got = <<Stop>>
  <2>1. spans' = spans
    BY <1>6 DEF Receive, StopTaken
  <2>2. Fronts(queue, 0) /\ Front(queue) = <<>>
    BY <1>2, <1>6, StopsBehind, FrontStop
  <2>3. Front(got \o queue) = <<>>
    <3> DEFINE items == got \o queue
    <3>1. items \in Seq(Item)
      BY ItemsType
    <3>2. \A i \in 1 .. Len(items) : items[i] = Stop
      BY <1>2, <1>6, StopsBehind
    <3> HIDE DEF items
    <3>3. Front(items) = <<>>
      BY <3>1, <3>2, FrontStop
    <3> QED
      BY <3>3 DEF items
  <2>4. StopsLast'
    BY <1>3, <2>2 DEF StopsLast
  <2> QED
    BY <1>4, <2>1, <2>2, <2>3, <2>4 DEF Held
<1>7. ASSUME NEW s \in Span, got = <<s>> PROVE StopsLast' /\ Held' = Held
  <2>1. spans' = Append(spans, s)
    BY <1>7, ReporterAssumption DEF Receive
  <2>2. n # 0 /\ Fronts(queue, n - 1) /\ Front(got \o queue) = <<s>> \o Front(queue)
    BY <1>1, <1>2, <1>7, FrontHead
  <2>3. n - 1 \in Nat /\ Front(queue) \in Seq(Span)
    BY <1>2, <2>2, FrontType
  <2>4. Append(spans, s) \o Front(queue) = spans \o (<<s>> \o Front(queue))
    BY <1>2, <2>3
  <2>5. StopsLast'
    BY <1>3, <2>2, <2>3 DEF StopsLast
  <2> QED
    BY <1>4, <2>1, <2>2, <2>4, <2>5 DEF Held
<1>8. got = <<>> \/ got = <<Stop>> \/ \E s \in Span : got = <<s>>
  BY DEF TypeInv, TypeOK, QueueType, Item
<1> QED
  BY <1>5, <1>6, <1>7, <1>8

-----------------------------------------------------------------------------
(* The invariant BufferInv is kept. *)

\* Nothing is added to the queue's history but sentinels.
NoneEnqueued == \A s \in Span : Enqueued(s)' => Enqueued(s)

LEMMA NoneEnqueuedStep ==
  ASSUME TypeInv, enqueued' = enqueued \/ enqueued' = Append(enqueued, Stop)
  PROVE  NoneEnqueued
<1>1. enqueued \in Seq(Item)
  BY TypesInItem DEF TypeInv
<1>2. ASSUME enqueued' = Append(enqueued, Stop), NEW s \in Span, Enqueued(s)' PROVE Enqueued(s)
  <2>1. s # Stop
    BY ReporterAssumption
  <2>2. PICK i \in 1 .. Len(Append(enqueued, Stop)) : Append(enqueued, Stop)[i] = s
    BY <1>2 DEF Enqueued, In
  <2>3. i \in 1 .. Len(enqueued) /\ enqueued[i] = s
    BY <1>1, <2>1, <2>2 DEF Item
  <2> QED
    BY <2>3 DEF Enqueued, In
<1> QED
  BY <1>2 DEF NoneEnqueued, Enqueued, In

LEMMA CallbacksKept ==
  ASSUME Once, Waiting, Kept, UNCHANGED <<ready, outcome>>, NoneEnqueued
  PROVE  Once' /\ Waiting' /\ Kept'
BY DEF Once, Waiting, Kept, NoneEnqueued, InReady

\* The callback at the head of the loop runs: it is gone.
LEMMA OnceTail ==
  ASSUME TypeInv, Once, NEW x, Runs(x)
  PROVE  Once' /\ (x \in Span => ~InReady(x)') /\ InReady(x) /\ \A y : InReady(y)' => InReady(y)
<1>1. ready # <<>> /\ ready[1] = x /\ ready' = Tail(ready) /\ ready \in Seq(Span \cup Closer)
  BY DEF Runs, TypeInv, TypeOK, ApplicationType
<1>2. /\ Len(ready') = Len(ready) - 1 /\ Len(ready) \in Nat \ {0}
      /\ \A i \in 1 .. Len(ready') : i + 1 \in 1 .. Len(ready) /\ ready'[i] = ready[i + 1]
  BY <1>1
<1>3. \A y : InReady(y)' => InReady(y)
  BY <1>1, ReadyTail
<1>4. InReady(x)
  BY <1>1, <1>2 DEF InReady
<1>5. Once'
  <2> SUFFICES ASSUME NEW i \in 1 .. Len(ready'), NEW j \in 1 .. Len(ready'), ready'[i] = ready'[j], ready'[i] \in Span
               PROVE  i = j
    BY DEF Once
  <2>1. i + 1 = j + 1
    BY <1>2 DEF Once
  <2> QED
    BY <2>1
<1>6. ASSUME x \in Span, NEW i \in 1 .. Len(ready'), ready'[i] = x PROVE FALSE
  <2>1. 1 \in 1 .. Len(ready) /\ i + 1 \in 1 .. Len(ready) /\ ready[i + 1] = x
    BY <1>2, <1>6
  <2>2. i + 1 = 1
    BY <1>1, <1>6, <2>1 DEF Once
  <2> QED
    BY <2>2
<1> QED
  BY <1>3, <1>4, <1>5, <1>6 DEF InReady

LEMMA CallbackAdded ==
  ASSUME TypeInv, Once, NEW x \in Span \cup Closer, ready' = Append(ready, x), x \in Span => ~InReady(x)
  PROVE  Once' /\ \A y : InReady(y)' => InReady(y) \/ y = x
<1>1. /\ Len(ready') = Len(ready) + 1 /\ Len(ready) \in Nat /\ ready'[Len(ready) + 1] = x
      /\ \A i \in 1 .. Len(ready) : ready'[i] = ready[i]
  BY DEF TypeInv, TypeOK, ApplicationType
<1> QED
  BY <1>1 DEF Once, InReady

LEMMA StepCallbacks ==
  ASSUME TypeInv, FlowInv, BufferInv, [Next]_vars
  PROVE  Once' /\ Waiting' /\ Kept'
<1> USE DEF BufferInv
<1>1. CASE UNCHANGED <<ready, outcome>> /\ (enqueued' = enqueued \/ enqueued' = Append(enqueued, Stop))
  BY <1>1, NoneEnqueuedStep, CallbacksKept
<1>2. ASSUME NEW s \in Span, ReportSpan(s) PROVE Once' /\ Waiting' /\ Kept'
  <2>1. ready' = Append(ready, s) /\ outcome[s] = "new" /\ enqueued' = enqueued
    BY <1>2 DEF ReportSpan
  <2>2. \A t \in Span : outcome'[t] = IF t = s THEN "pending" ELSE outcome[t]
    BY <1>2 DEF ReportSpan, TypeInv, TypeOK, ApplicationType
  <2>3. ~InReady(s) /\ ~Enqueued(s)
    BY <2>1 DEF Waiting, Kept
  <2>4. Once' /\ \A y : InReady(y)' => InReady(y) \/ y = s
    BY <2>1, <2>3, CallbackAdded
  <2>5. \A t : Enqueued(t)' <=> Enqueued(t)
    BY <2>1 DEF Enqueued, In
  <2> QED
    BY <2>2, <2>3, <2>4, <2>5 DEF Waiting, Kept
<1>3. ASSUME NEW c \in Closer, Close(c) PROVE Once' /\ Waiting' /\ Kept'
  <2>1. ready' = Append(ready, c) /\ c \notin Span /\ UNCHANGED <<enqueued, outcome>>
    BY <1>3, ReporterAssumption DEF Close
  <2>2. Once' /\ \A y : InReady(y)' => InReady(y) \/ y = c
    BY <2>1, CallbackAdded
  <2>3. \A t : Enqueued(t)' <=> Enqueued(t)
    BY <2>1 DEF Enqueued, In
  <2> QED
    BY <2>1, <2>2, <2>3 DEF Waiting, Kept
<1>4. ASSUME NEW s \in Span, RunReport(s) PROVE Once' /\ Waiting' /\ Kept'
  <2>1. Once' /\ ~InReady(s)' /\ InReady(s) /\ \A y : InReady(y)' => InReady(y)
    BY <1>4, OnceTail DEF RunReport
  <2>2. outcome[s] = "pending" /\ ~Enqueued(s)
    BY <2>1 DEF Waiting
  <2>3. ASSUME NEW why, Drop(s, why) PROVE Waiting' /\ Kept'
    <3>1. \A t \in Span : outcome'[t] = IF t = s THEN why ELSE outcome[t]
      BY <2>3 DEF Drop, TypeInv, TypeOK, ApplicationType
    <3>2. \A t : Enqueued(t)' <=> Enqueued(t)
      BY <2>3 DEF Drop, Enqueued, In
    <3> QED
      BY <2>1, <2>2, <3>1, <3>2 DEF Waiting, Kept
  <2>4. ASSUME PutNowait(s), UNCHANGED outcome PROVE Waiting' /\ Kept'
    <3>1. enqueued' = Append(enqueued, s) /\ enqueued \in Seq(Item)
      BY <2>4, TypesInItem DEF PutNowait, TypeInv
    <3>2. \A t : Enqueued(t)' => Enqueued(t) \/ t = s
      BY <3>1 DEF Enqueued, In, Item
    <3> QED
      BY <2>1, <2>2, <2>4, <3>2 DEF Waiting, Kept
  <2> QED
    BY <1>4, <2>1, <2>3, <2>4 DEF RunReport
<1>5. ASSUME NEW c \in Closer, RunFlush(c) PROVE Once' /\ Waiting' /\ Kept'
  <2>1. Once' /\ \A y : InReady(y)' => InReady(y)
    BY <1>5, OnceTail DEF RunFlush
  <2>2. NoneEnqueued
    BY <1>5, NoneEnqueuedStep DEF RunFlush, PutNowait
  <2> QED
    BY <1>5, <2>1, <2>2 DEF RunFlush, Waiting, Kept, NoneEnqueued
<1>6. ASSUME NEW result \in {"ok", "err", "lost"}, Submitted(result) PROVE Once' /\ Waiting' /\ Kept'
  <2>1. /\ UNCHANGED <<ready, enqueued>>
        /\ \A t \in Span : outcome'[t] = IF InBatch(t) THEN result ELSE outcome[t]
    BY <1>6 DEF Submitted
  <2>2. ASSUME NEW t \in Span, InBatch(t) PROVE Enqueued(t)
    <3>1. In(spans, t)
      BY <2>2 DEF InBatch, In, TypeInv, TypeOK, ConsumerType
    <3> QED
      BY <3>1, HeldEnqueued DEF FlowInv
  <2>3. \A t : (Enqueued(t)' <=> Enqueued(t)) /\ (InReady(t)' <=> InReady(t))
    BY <2>1 DEF Enqueued, In, InReady
  <2>4. Once'
    BY <2>1 DEF Once
  <2>5. Waiting'
    BY <2>1, <2>2, <2>3 DEF Waiting
  <2>6. Kept'
    BY <2>1, <2>3 DEF Kept
  <2> QED
    BY <2>4, <2>5, <2>6
<1>7. CASE SetProcess \/ TimerFires \/ (\E c \in Closer : RunJoin(c))
  BY <1>1, <1>7 DEF SetProcess, TimerFires, RunJoin, historyVars
<1>8. CASE GetNowait \/ AwaitItem \/ ItemReady \/ BatchFull \/ Receive \/ NothingToSubmit \/ SendPending
  BY <1>1, <1>8 DEF GetNowait, AwaitItem, ItemReady, BatchFull, Receive, NothingToSubmit, SendPending, historyVars
<1>9. CASE UNCHANGED vars
  BY <1>1, <1>9 DEF vars, historyVars
<1> QED
  BY <1>2, <1>3, <1>4, <1>5, <1>6, <1>7, <1>8, <1>9 DEF Next, RunCallback, Consume, Submit, SendEnds

LEMMA StepHasSpans ==
  ASSUME TypeInv, HasSpans, [Next]_vars
  PROVE  HasSpans'
<1> USE DEF HasSpans
<1>1. CASE UNCHANGED <<getter, pc, spans, got>>
  BY <1>1
<1>2. ASSUME NEW item, PutNowait(item), UNCHANGED <<pc, spans>> PROVE HasSpans'
  <2>1. CASE getter = "none"
    <3>1. got' = got /\ getter' = getter
      BY <1>2, <2>1 DEF PutNowait
    <3> QED
      BY <1>2, <3>1
  <2>2. CASE getter # "none"
    <3>1. getter' = "none" /\ got' # <<>> /\ pc' = "getting"
      BY <1>2, <2>2 DEF PutNowait, TypeInv, NoLostWakeup
    <3> QED
      BY <3>1
  <2> QED
    BY <2>1, <2>2
<1>3. CASE TimerFires
  BY <1>3 DEF TimerFires, consumerVars, TypeInv, NoLostWakeup
<1>4. CASE AwaitItem
  BY <1>4 DEF AwaitItem, Deadline
<1>5. CASE GetNowait \/ ItemReady \/ BatchFull \/ NothingToSubmit
  BY <1>5 DEF GetNowait, ItemReady, BatchFull, NothingToSubmit, NextRound, queueVars, TypeInv, NoLostWakeup
<1>6. CASE Receive
  BY <1>6 DEF Receive, StopTaken, TypeInv, NoLostWakeup
<1>7. CASE SendPending
  BY <1>7 DEF SendPending, queueVars, TypeInv, NoLostWakeup
<1>8. ASSUME NEW result, Submitted(result), pc \in {"submitting", "sending"} PROVE HasSpans'
  BY <1>8 DEF Submitted, NextRound, TypeInv, NoLostWakeup
<1>9. CASE \E s \in Span : RunReport(s)
  BY <1>1, <1>2, <1>9 DEF RunReport, Drop, queueVars, consumerVars
<1>10. CASE \E c \in Closer : RunFlush(c)
  BY <1>1, <1>2, <1>10 DEF RunFlush, queueVars, consumerVars
<1>11. CASE SetProcess \/ (\E s \in Span : ReportSpan(s)) \/ (\E c \in Closer : Close(c) \/ RunJoin(c)) \/ UNCHANGED vars
  BY <1>1, <1>11 DEF SetProcess, ReportSpan, Close, RunJoin, vars, queueVars, consumerVars
<1> QED
  BY <1>3, <1>4, <1>5, <1>6, <1>7, <1>8, <1>9, <1>10, <1>11 DEF Next, RunCallback, Consume, Submit, SendEnds

LEMMA StepBuffer ==
  ASSUME TypeInv, FlowInv, BufferInv, [Next]_vars
  PROVE  BufferInv'
<1>1. Once' /\ Waiting' /\ Kept'
  BY StepCallbacks
<1>2. HasSpans'
  BY StepHasSpans DEF BufferInv
<1>3. StopsLast'
  <2> USE DEF BufferInv
  <2>1. CASE UNCHANGED <<got, queue>>
    BY <2>1 DEF StopsLast
  <2>2. ASSUME NEW s \in Span, RunReport(s) PROVE StopsLast'
    BY <2>1, <2>2, PutSpan DEF RunReport, Drop, queueVars
  <2>3. ASSUME NEW c \in Closer, RunFlush(c) PROVE StopsLast'
    BY <2>1, <2>3, PutStop DEF RunFlush, queueVars
  <2>4. CASE GetNowait
    BY <2>4, GetItem
  <2>5. CASE Receive
    BY <2>5, ReceiveItem
  <2>6. CASE SetProcess \/ (\E s \in Span : ReportSpan(s)) \/ (\E c \in Closer : Close(c) \/ RunJoin(c)) \/ UNCHANGED vars
    BY <2>1, <2>6 DEF SetProcess, ReportSpan, Close, RunJoin, vars, queueVars
  <2>7. CASE TimerFires \/ AwaitItem \/ ItemReady \/ BatchFull \/ NothingToSubmit \/ SendPending
    BY <2>1, <2>7 DEF TimerFires, AwaitItem, ItemReady, BatchFull, NothingToSubmit, SendPending, queueVars
  <2>8. CASE Submit \/ SendEnds
    BY <2>1, <2>8 DEF Submit, SendEnds, Submitted
  <2> QED
    BY <2>2, <2>3, <2>4, <2>5, <2>6, <2>7, <2>8 DEF Next, RunCallback, Consume
<1> QED
  BY <1>1, <1>2, <1>3 DEF BufferInv

-----------------------------------------------------------------------------
(***************************************************************************)
(* A batch size of zero, which config.py accepts.                          *)
(***************************************************************************)

\* _consume_queue holds the loop, and nothing that was asked of the reporter is done.
NothingRuns ==
  /\ Busy /\ enqueued = <<>> /\ handled = <<>>
  /\ \A s \in Span : outcome[s] \in {"new", "pending"}
  /\ \A c \in Closer : closing[c] \in {"open", "called"}

ZeroInv ==
  /\ pc \in {"filling", "submitting"} /\ spans = <<>> /\ ~stopping /\ getter = "none"
  /\ NothingRuns

LEMMA StepZero ==
  ASSUME BatchSize = 0, TypeOK, ZeroInv, [Next]_vars
  PROVE  ZeroInv'
<1> USE DEF ZeroInv, NothingRuns, Busy
<1>a. outcome \in [Span -> Fate] /\ closing \in [Closer -> Stage]
  BY DEF TypeOK, ApplicationType
<1>1. CASE SetProcess \/ UNCHANGED vars
  BY <1>1 DEF SetProcess, vars, queueVars, consumerVars, historyVars
<1>2. CASE \E s \in Span : ReportSpan(s)
  BY <1>2, <1>a DEF ReportSpan, queueVars, consumerVars
<1>3. CASE \E c \in Closer : Close(c)
  BY <1>3, <1>a DEF Close, queueVars, consumerVars
<1>4. CASE BatchFull
  BY <1>4 DEF BatchFull, queueVars, historyVars
<1>5. CASE NothingToSubmit
  BY <1>5 DEF NothingToSubmit, NextRound, queueVars, historyVars
<1>6. ~RunCallback /\ ~TimerFires /\ ~SendEnds
  BY DEF RunCallback, RunReport, RunFlush, RunJoin, Runs, TimerFires, SendEnds
<1>7. ~(GetNowait \/ AwaitItem \/ ItemReady \/ Receive \/ Submit \/ SendPending)
  BY DEF GetNowait, AwaitItem, BatchHasRoom, ItemReady, Receive, Submit, SendPending
<1> QED
  BY <1>1, <1>2, <1>3, <1>4, <1>5, <1>6, <1>7 DEF Next, Consume

\* With batch_size 0 the inner loop of _consume_queue never runs and the outer one never yields: the
\* loop is never given up, no span gets as far as the queue and no close() begins.
THEOREM ZeroBatchHangs == ASSUME BatchSize = 0 PROVE Spec => []NothingRuns
<1>1. Init => ZeroInv
  BY DEF Init, ZeroInv, NothingRuns, Busy
<1>2. TypeOK /\ ZeroInv /\ [Next]_vars => ZeroInv'
  BY StepZero
<1> QED
  BY <1>1, <1>2, TypeCorrect, PTL DEF Spec, ZeroInv

-----------------------------------------------------------------------------
(* Each step of the reporter as a step of SpanBuffer. *)

Dropped == {s \in Span : outcome[s] \in {"refused", "overflow"}}

LEMMA ConcatLen ==
  ASSUME NEW S, NEW a \in Seq(S), NEW b \in Seq(S)
  PROVE  a \o b \in Seq(S) /\ Len(a \o b) = Len(a) + Len(b) /\ Len(a) \in Nat /\ Len(b) \in Nat
OBVIOUS

LEMMA HeldType ==
  ASSUME TypeInv, StopsLast
  PROVE  /\ Held \in Seq(Span) /\ Len(Held) >= Len(spans)
         /\ Len(Held) <= Len(spans) + Len(got) + Len(queue)
         /\ \A x : In(Held, x) => In(spans, x) \/ In(got \o queue, x)
<1> DEFINE items == got \o queue
<1>1. PICK n \in Nat : Fronts(items, n)
  BY DEF StopsLast
<1>2. items \in Seq(Item) /\ Len(items) = Len(got) + Len(queue)
  BY ItemsType
<1>3. Len(got) \in Nat /\ Len(queue) \in Nat /\ spans \in Seq(Span) /\ Held = spans \o Front(items)
  BY ItemsType DEF TypeInv, TypeOK, ConsumerType, Held
<1> HIDE DEF items
<1>4. Front(items) \in Seq(Span) /\ Len(Front(items)) = n /\ n <= Len(items) /\ \A x : In(Front(items), x) => In(items, x)
  BY <1>1, <1>2, FrontType DEF Fronts
<1>5. \A x : In(Held, x) => In(spans, x) \/ In(items, x)
  <2> SUFFICES ASSUME NEW x, In(Held, x) PROVE In(spans, x) \/ In(items, x)
    OBVIOUS
  <2>1. In(spans, x) \/ In(Front(items), x)
    BY <1>3, <1>4, InConcat
  <2> QED
    BY <1>4, <2>1
<1>6. Held \in Seq(Span) /\ Len(Held) = Len(spans) + n /\ Len(spans) \in Nat
  BY <1>3, <1>4, ConcatLen
<1> QED
  BY <1>2, <1>3, <1>4, <1>5, <1>6 DEF items

\* A span whose callback runs was neither dropped nor accepted before.
LEMMA ReadyFresh ==
  ASSUME TypeInv, FlowInv, BufferInv, NEW s \in Span, InReady(s)
  PROVE  Buffer!Fresh(s)
<1>1. outcome[s] = "pending" /\ ~Enqueued(s)
  BY DEF BufferInv, Waiting
<1>2. ~In(handled, s) /\ ~In(Held, s)
  BY <1>1, HeldEnqueued, HeldType DEF FlowInv, BufferInv
<1> QED
  BY <1>1, <1>2 DEF Buffer!Fresh, Buffer!Has, In

\* Behind a running callback _consume_queue waits, or has ended: then the reporter is closed.
LEMMA Waits ==
  ASSUME TypeInv, FlowInv, ~Busy, ~stopped
  PROVE  pc \in {"getting", "sending"}
<1>1. pc \in {"getting", "sending", "exited"}
  BY DEF Busy, TypeInv, TypeOK, ConsumerType
<1>2. ASSUME stopping PROVE FALSE
  <2>1. Taken = spans \o <<Stop>> /\ spans \in Seq(Item) /\ Stop \in Item
    BY <1>2, TypesInItem DEF Taken, TypeInv, Item
  <2>2. In(Taken, Stop)
    <3>1. Len(spans) + 1 \in 1 .. Len(Taken) /\ Taken[Len(spans) + 1] = Stop
      BY <2>1
    <3> QED
      BY <3>1 DEF In
  <2>3. enqueued = handled \o Taken \o got \o queue
    BY DEF FlowInv, Pipeline
  <2>4. /\ handled \in Seq(Item) /\ Taken \in Seq(Item) /\ got \in Seq(Item) /\ queue \in Seq(Item)
        /\ handled \o Taken \in Seq(Item)
    BY TypesInItem DEF TypeInv
  <2>5. In(handled \o Taken, Stop)
    BY <2>2, <2>4, InConcat
  <2> DEFINE past == handled \o Taken
  <2> HIDE DEF past
  <2>6. past \in Seq(Item) /\ enqueued = (past \o got) \o queue /\ past \o got \in Seq(Item) /\ In(past, Stop)
    BY <2>3, <2>4, <2>5 DEF past
  <2>7. In(past \o got, Stop)
    BY <2>4, <2>6, InConcat
  <2> DEFINE more == past \o got
  <2> HIDE DEF more
  <2>8. more \in Seq(Item) /\ enqueued = more \o queue /\ In(more, Stop)
    BY <2>6, <2>7 DEF more
  <2>9. In(enqueued, Stop)
    BY <2>4, <2>8, InConcat
  <2> QED
    BY <2>9 DEF In, FlowInv, Sealed
<1> QED
  BY <1>1, <1>2 DEF TypeInv, Control

LEMMA AcceptStep ==
  ASSUME TypeInv, FlowInv, BufferInv, QueueCapacity # 0, NEW s \in Span, RunReport(s),
         ~stopped, PutNowait(s), UNCHANGED outcome
  PROVE  Buffer!Accept(s)
<1>1. Buffer!Fresh(s)
  BY OnceTail, ReadyFresh DEF RunReport, BufferInv
<1>2. spans \in Seq(Span) /\ spans' = spans /\ handled' = handled /\ stopped' = stopped
  BY DEF RunReport, consumerVars, TypeInv, TypeOK, ConsumerType
<1>3. Held' = Append(Held, s)
  <2>1. PICK n \in Nat : Fronts(got \o queue, n)
    BY DEF BufferInv, StopsLast
  <2>2. Front(got \o queue) \in Seq(Span)
    BY <2>1, ItemsType, FrontType
  <2>3. Held' = spans \o Append(Front(got \o queue), s)
    BY <1>2, PutSpan DEF Held
  <2>4. spans \o Append(Front(got \o queue), s) = Append(spans \o Front(got \o queue), s)
    BY <1>2, <2>2, ConcatAppend
  <2> QED
    BY <2>3, <2>4 DEF Held
<1>4. Len(Held) < QueueCapacity + BatchSize
  <2>1. Len(Held) <= Len(spans) + Len(got) + Len(queue)
    BY HeldType DEF BufferInv
  <2>2. /\ QueueCapacity \in Nat /\ BatchSize \in Nat /\ Len(queue) \in Nat /\ Len(spans) \in Nat
        /\ Len(spans) <= BatchSize /\ Len(got) \in {0, 1} /\ Len(Held) \in Nat
    BY ReporterAssumption, HeldType DEF TypeInv, TypeOK, ConsumerType, QueueType, BufferInv
  <2>3. CASE getter # "none"
    <3>1. Len(got) = 0 /\ Len(queue) = 0
      BY <2>3 DEF TypeInv, NoLostWakeup
    <3> QED
      BY <2>1, <2>2, <3>1
  <2>4. CASE getter = "none"
    <3>1. Len(queue) < QueueCapacity
      BY <2>2, <2>4 DEF PutNowait, QueueFull
    <3>2. Len(spans) + Len(got) <= BatchSize
      <4>1. CASE got = <<>>
        BY <2>2, <4>1
      <4>2. CASE got # <<>>
        <5>1. Len(spans) < BatchSize /\ Len(spans) \in Nat /\ BatchSize \in Nat
          BY <2>2, <4>2 DEF TypeInv, Control
        <5>2. Len(got) \in 0 .. 1
          BY <2>2
        <5>3. \A a, b \in Nat, n \in 0 .. 1 : a < b => a + n <= b
          OBVIOUS
        <5> QED
          BY <5>1, <5>2, <5>3
      <4> QED
        BY <4>1, <4>2
    <3> QED
      BY <2>1, <2>2, <3>1, <3>2
  <2> QED
    BY <2>3, <2>4
<1> QED
  BY <1>1, <1>2, <1>3, <1>4 DEF Buffer!Accept

LEMMA DropStep ==
  ASSUME TypeInv, FlowInv, BufferInv, NEW s \in Span, RunReport(s), NEW why \in {"refused", "overflow"},
         Drop(s, why), stopped \/ QueueFull
  PROVE  Buffer!Drop(s)
<1>1. Buffer!Fresh(s)
  BY OnceTail, ReadyFresh DEF RunReport, BufferInv
<1>2. UNCHANGED <<Held, handled, stopped>>
  BY DEF RunReport, Drop, queueVars, consumerVars, Held
<1>3. Dropped' = Dropped \cup {s}
  BY DEF Drop, Dropped, TypeInv, TypeOK, ApplicationType
<1>4. ASSUME ~stopped PROVE Len(Held) > QueueCapacity
  <2>1. QueueFull
    BY <1>4
  <2>2. pc \in {"getting", "sending"} /\ getter = "none"
    BY <1>4, <2>1, Waits DEF RunReport, Runs, QueueFull
  <2>3. spans # <<>> \/ got # <<>>
    BY <2>2 DEF BufferInv, HasSpans
  <2> DEFINE items == got \o queue
  <2>4. items \in Seq(Item) /\ Len(items) = Len(got) + Len(queue) /\ \A i \in 1 .. Len(items) : items[i] # Stop
    BY <1>4, ItemsType, NoStopYet
  <2> HIDE DEF items
  <2>5. Fronts(items, Len(items))
    <3>1. InFront(items) = 1 .. Len(items)
      BY <2>4 DEF InFront
    <3> QED
      BY <2>4, <3>1 DEF Fronts
  <2>6. Front(items) \in Seq(Span) /\ Len(Front(items)) = Len(items)
    BY <2>4, <2>5, FrontType
  <2>7. Held = spans \o Front(items) /\ spans \in Seq(Span) /\ got \in Seq(Item) /\ queue \in Seq(Item)
    BY ItemsType DEF Held, items, TypeInv, TypeOK, ConsumerType
  <2>8. Len(Held) = Len(spans) + Len(got) + Len(queue) /\ Len(queue) >= QueueCapacity
    <3>1. Len(Held) = Len(spans) + Len(items)
      <4> DEFINE front == Front(items)
      <4>1. front \in Seq(Span) /\ Len(front) = Len(items) /\ Held = spans \o front
        BY <2>6, <2>7
      <4> HIDE DEF front
      <4>2. Len(spans \o front) = Len(spans) + Len(front)
        BY <2>7, <4>1, ConcatLen
      <4> QED
        BY <4>1, <4>2
    <3>2. Len(spans) \in Nat /\ Len(got) \in Nat /\ Len(queue) \in Nat
      BY <2>7
    <3> QED
      BY <2>1, <2>4, <3>1, <3>2, ReporterAssumption DEF QueueFull
  <2>9. Len(spans) + Len(got) > 0 /\ Len(spans) \in Nat /\ Len(got) \in Nat /\ Len(queue) \in Nat /\ QueueCapacity \in Nat
    BY <2>3, <2>7, ReporterAssumption
  <2> QED
    BY <2>8, <2>9
<1> QED
  BY <1>1, <1>2, <1>3, <1>4 DEF Buffer!Drop, Dropped

LEMMA DeliverStep ==
  ASSUME TypeInv, FlowInv, BufferInv, NEW result \in {"ok", "err", "lost"}, Submitted(result), spans # <<>>
  PROVE  Buffer!Deliver
<1>1. PICK n \in Nat : Fronts(got \o queue, n)
  BY DEF BufferInv, StopsLast
<1> DEFINE front == Front(got \o queue)
<1>2. front \in Seq(Span) /\ spans \in Seq(Span) /\ Held = spans \o front
  BY <1>1, ItemsType, FrontType DEF Held, TypeInv, TypeOK, ConsumerType
<1>3. /\ Held' = <<>> \o front /\ handled' = handled \o spans /\ stopped' = stopped
  BY DEF Submitted, ClearBatch, Held
<1> HIDE DEF front
<1>4. /\ Len(spans) \in 1 .. BatchSize /\ Len(spans) <= Len(Held)
      /\ SubSeq(Held, 1, Len(spans)) = spans
      /\ SubSeq(Held, Len(spans) + 1, Len(Held)) = front /\ <<>> \o front = front
  <2>1. Len(spans) \in 1 .. BatchSize
    BY <1>2, ReporterAssumption DEF TypeInv, TypeOK, ConsumerType
  <2>2. Len(Held) = Len(spans) + Len(front) /\ Len(front) \in Nat
    BY <1>2
  <2>3. SubSeq(Held, 1, Len(spans)) = spans
    <3>1. SubSeq(Held, 1, Len(spans)) \in Seq(Span) /\ Len(SubSeq(Held, 1, Len(spans))) = Len(spans)
      BY <1>2, <2>1, <2>2
    <3>2. \A i \in 1 .. Len(spans) : SubSeq(Held, 1, Len(spans))[i] = spans[i]
      BY <1>2, <2>1, <2>2
    <3> QED
      BY <1>2, <3>1, <3>2, SameSeq
  <2>4. SubSeq(Held, Len(spans) + 1, Len(Held)) = front
    <3>1. /\ SubSeq(Held, Len(spans) + 1, Len(Held)) \in Seq(Span)
          /\ Len(SubSeq(Held, Len(spans) + 1, Len(Held))) = Len(front)
      BY <1>2, <2>1, <2>2
    <3>2. \A i \in 1 .. Len(front) : SubSeq(Held, Len(spans) + 1, Len(Held))[i] = front[i]
      BY <1>2, <2>1, <2>2
    <3> QED
      BY <1>2, <3>1, <3>2, SameSeq
  <2> QED
    BY <1>2, <2>1, <2>2, <2>3, <2>4
<1>5. Dropped' = Dropped
  <2>1. \A t \in Span : outcome'[t] = IF InBatch(t) THEN result ELSE outcome[t]
    BY DEF Submitted
  <2>2. ASSUME NEW t \in Span, InBatch(t) PROVE outcome[t] \notin {"refused", "overflow"}
    <3>1. In(spans, t)
      BY <2>2 DEF InBatch, In, TypeInv, TypeOK, ConsumerType
    <3> QED
      BY <3>1, HeldEnqueued DEF FlowInv, BufferInv, Kept
  <2> QED
    BY <2>1, <2>2 DEF Dropped
<1> QED
  BY <1>3, <1>4, <1>5 DEF Buffer!Deliver, Dropped

\* Most steps are not seen by a user of the buffer.
LEMMA Unseen ==
  ASSUME Held' = Held, UNCHANGED <<handled, stopped>>, Dropped' = Dropped
  PROVE  UNCHANGED Buffer!vars
BY DEF Buffer!vars, Dropped

LEMMA StepImplements ==
  ASSUME TypeInv, FlowInv, BufferInv, QueueCapacity = 0 => Busy, [Next]_vars
  PROVE  [Buffer!Next]_(Buffer!vars)
<1>1. CASE UNCHANGED <<got, queue, spans, handled, stopped, outcome>>
  BY <1>1, Unseen DEF Held, Dropped
<1>2. ASSUME NEW s \in Span, ReportSpan(s) PROVE UNCHANGED Buffer!vars
  <2>1. UNCHANGED <<got, queue, spans, handled, stopped>>
    BY <1>2 DEF ReportSpan, queueVars, consumerVars
  <2>2. Dropped' = Dropped
    BY <1>2 DEF ReportSpan, Dropped, TypeInv, TypeOK, ApplicationType
  <2> QED
    BY <2>1, <2>2, Unseen DEF Held
<1>3. ASSUME NEW s \in Span, RunReport(s) PROVE Buffer!Accept(s) \/ Buffer!Drop(s)
  <2>1. QueueCapacity # 0
    BY <1>3 DEF RunReport, Runs
  <2> QED
    BY <1>3, <2>1, AcceptStep, DropStep DEF RunReport
<1>4. ASSUME NEW c \in Closer, RunFlush(c) PROVE Buffer!Shut
  <2>1. Dropped' = Dropped
    BY <1>4 DEF RunFlush, Dropped
  <2>2. UNCHANGED <<spans, handled>> /\ stopped' = TRUE
    BY <1>4 DEF RunFlush, MarkStopped, consumerVars
  <2>3. Held' = Held
    BY <1>4, <2>2, PutStop DEF RunFlush, queueVars, Held, BufferInv
  <2> QED
    BY <2>1, <2>2, <2>3 DEF Buffer!Shut, Dropped
<1>5. CASE GetNowait
  <2>1. Held' = Held
    BY <1>5, GetItem DEF GetNowait, Held, BufferInv
  <2>2. UNCHANGED <<handled, stopped>> /\ Dropped' = Dropped
    BY <1>5 DEF GetNowait, Dropped
  <2> QED
    BY <2>1, <2>2, Unseen
<1>6. CASE Receive
  <2>1. Held' = Held
    BY <1>6, ReceiveItem DEF BufferInv
  <2>2. UNCHANGED <<handled, stopped>> /\ Dropped' = Dropped
    BY <1>6 DEF Receive, historyVars, Dropped
  <2> QED
    BY <2>1, <2>2, Unseen
<1>7. ASSUME Submit \/ SendEnds PROVE Buffer!Deliver
  <2>1. PICK result \in {"ok", "err", "lost"} : Submitted(result)
    <3>1. CASE Submit
      <4>1. PICK result \in (IF process THEN {"ok", "err"} ELSE {"lost"}) : Submitted(result)
        BY <3>1 DEF Submit
      <4>2. result \in {"ok", "err", "lost"}
        OBVIOUS
      <4> QED
        BY <4>1, <4>2
    <3>2. CASE SendEnds
      BY <3>2 DEF SendEnds
    <3> QED
      BY <1>7, <3>1, <3>2
  <2>2. spans # <<>>
    BY <1>7 DEF Submit, SendEnds, BufferInv, HasSpans
  <2> QED
    BY <2>1, <2>2, DeliverStep
<1>8. CASE SetProcess \/ (\E c \in Closer : Close(c) \/ RunJoin(c)) \/ UNCHANGED vars
  BY <1>1, <1>8 DEF SetProcess, Close, RunJoin, vars, queueVars, consumerVars, historyVars
<1>9. CASE TimerFires \/ AwaitItem \/ ItemReady \/ BatchFull \/ NothingToSubmit \/ SendPending
  BY <1>1, <1>9 DEF TimerFires, AwaitItem, ItemReady, BatchFull, NothingToSubmit, SendPending, queueVars, consumerVars, historyVars
<1> QED
  BY <1>2, <1>3, <1>4, <1>5, <1>6, <1>7, <1>8, <1>9
     DEF Next, RunCallback, Consume, Buffer!Next

\* Any reporter, whatever its capacity and its batch size: every step it takes is a step of the
\* FIFO buffer SpanBuffer, or one the buffer's user does not see.
BufferSteps == Buffer!Init /\ [][Buffer!Next]_(Buffer!vars)

\* A span is dropped only by a closed reporter or with more than QueueCapacity spans in memory,
\* no order of callbacks and timers reorders the spans, and no batch holds more than BatchSize.
\* (A queue without a bound would be one without a batch, which never takes a span.)
THEOREM RefinesBuffer == Spec => BufferSteps
<1>1. Init => Buffer!Init
  <2> SUFFICES ASSUME Init PROVE Buffer!Init
    OBVIOUS
  <2>1. <<>> \in Seq(Item) /\ \A i \in 1 .. Len(<<>>) : <<>>[i] = Stop
    OBVIOUS
  <2>2. Front(<<>>) = <<>>
    BY <2>1, FrontStop
  <2>3. Held = <<>> /\ handled = <<>> /\ stopped = FALSE
    BY <2>2 DEF Init, Held
  <2>4. Dropped = {}
    BY DEF Init, Dropped
  <2> QED
    BY <2>3, <2>4 DEF Buffer!Init, Dropped
<1>2. Spec => [](TypeInv /\ FlowInv)
  BY Invariance, PTL
<1>3. TypeInv /\ FlowInv /\ BufferInv /\ [Next]_vars => BufferInv'
  BY StepBuffer
<1>4. Spec => [](QueueCapacity = 0 => Busy)
  <2>1. CASE QueueCapacity = 0
    <3>1. BatchSize = 0
      BY <2>1, ReporterAssumption
    <3>2. NothingRuns => (QueueCapacity = 0 => Busy)
      BY DEF NothingRuns
    <3> QED
      BY <3>1, <3>2, ZeroBatchHangs, PTL
  <2>2. CASE QueueCapacity # 0
    <3>1. QueueCapacity = 0 => Busy
      BY <2>2
    <3> QED
      BY <3>1, PTL
  <2> QED
    BY <2>1, <2>2
<1>5. TypeInv /\ FlowInv /\ BufferInv /\ (QueueCapacity = 0 => Busy) /\ [Next]_vars => [Buffer!Next]_(Buffer!vars)
  BY StepImplements
<1> QED
  BY <1>1, <1>2, <1>3, <1>4, <1>5, InitBuffer, PTL DEF Spec, BufferSteps
-----------------------------------------------------------------------------
(***************************************************************************)
(* The loop does not come to rest before its work is done.                 *)
(***************************************************************************)

OnceIn(seq, x) == \A i, j \in 1 .. Len(seq) : seq[i] = x /\ seq[j] = x => i = j

LEMMA InTail ==
  ASSUME NEW S, NEW seq \in Seq(S), seq # <<>>, NEW x, OnceIn(seq, x)
  PROVE  OnceIn(Tail(seq), x) /\ (In(Tail(seq), x) <=> In(seq, x) /\ x # Head(seq))
<1>1. /\ Len(seq) \in Nat \ {0} /\ Len(Tail(seq)) = Len(seq) - 1 /\ Head(seq) = seq[1]
      /\ \A i \in 1 .. Len(Tail(seq)) : i + 1 \in 2 .. Len(seq) /\ Tail(seq)[i] = seq[i + 1]
      /\ \A i \in 2 .. Len(seq) : i - 1 \in 1 .. Len(Tail(seq)) /\ Tail(seq)[i - 1] = seq[i]
  OBVIOUS
<1>2. OnceIn(Tail(seq), x)
  <2> SUFFICES ASSUME NEW i \in 1 .. Len(Tail(seq)), NEW j \in 1 .. Len(Tail(seq)), Tail(seq)[i] = x, Tail(seq)[j] = x
               PROVE  i = j
    BY DEF OnceIn
  <2>1. i + 1 = j + 1
    BY <1>1 DEF OnceIn
  <2> QED
    BY <2>1
<1>3. ASSUME NEW i \in 1 .. Len(Tail(seq)), Tail(seq)[i] = x PROVE In(seq, x) /\ x # Head(seq)
  <2>1. i + 1 \in 1 .. Len(seq) /\ seq[i + 1] = x /\ 1 \in 1 .. Len(seq) /\ i + 1 # 1
    BY <1>1, <1>3
  <2> QED
    BY <1>1, <2>1 DEF In, OnceIn
<1>4. ASSUME NEW i \in 1 .. Len(seq), seq[i] = x, x # Head(seq) PROVE In(Tail(seq), x)
  <2>1. i \in 2 .. Len(seq)
    BY <1>1, <1>4
  <2> QED
    BY <1>1, <1>4, <2>1 DEF In
<1> QED
  BY <1>2, <1>3, <1>4 DEF In

LEMMA InAppend ==
  ASSUME NEW S, NEW seq \in Seq(S), NEW y \in S, NEW x
  PROVE  /\ In(Append(seq, y), x) <=> In(seq, x) \/ x = y
         /\ OnceIn(seq, x) /\ (x = y => ~In(seq, x)) => OnceIn(Append(seq, y), x)
<1>1. /\ Len(Append(seq, y)) = Len(seq) + 1 /\ Len(seq) \in Nat /\ Append(seq, y)[Len(seq) + 1] = y
      /\ \A i \in 1 .. Len(seq) : Append(seq, y)[i] = seq[i]
  OBVIOUS
<1> QED
  BY <1>1 DEF In, OnceIn

\* A call of close() is "called" while its callback waits, and "putting" while its put does.
Calls == \A c \in Closer : OnceIn(ready, c) /\ (closing[c] = "called" <=> In(ready, c))
Puts  == \A c \in Closer : OnceIn(putters, c) /\ (closing[c] = "putting" <=> In(putters, c))

\* A call that has put its sentinel waits for something.
Joins ==
  \A c \in Closer :
    /\ closing[c] \in {"put", "joining"} => In(enqueued, Stop)
    /\ closing[c] = "joining" => unfinished # 0

\* A call that stays alone puts the only sentinel.
OneStop ==
  \A c \in Closer : Alone(c) =>
    /\ OnceIn(enqueued, Stop)
    /\ closing[c] \in {"open", "called", "putting"} => ~In(enqueued, Stop)

\* _consume_queue submits spans or ends, and waits without a deadline only if it holds none.
HoldsSpans ==
  /\ FlushInterval /\ getter = "untimed" => spans = <<>>
  /\ BatchSize # 0 /\ pc = "received" => spans # <<>> \/ got # <<>>
  /\ BatchSize # 0 /\ pc = "submitting" => spans # <<>> \/ stopping

RestInv == Calls /\ Puts /\ Joins /\ OneStop /\ HoldsSpans

LEMMA InitRest == Init => RestInv
BY DEF Init, RestInv, Calls, Puts, Joins, OneStop, HoldsSpans, OnceIn, In

\* The steps of the consumer complete joins, and wake the put at the head.
LEMMA TaskDoneStages ==
  ASSUME TypeInv, NEW n \in Nat, TaskDone(n), NEW c \in Closer
  PROVE  closing'[c] = closing[c] \/ (closing[c] = "joining" /\ closing'[c] = "closed")
BY DEF TaskDone, TypeInv, TypeOK, ApplicationType

LEMMA WokenStage ==
  ASSUME TypeInv, Puts, GetNowait, putters # <<>>
  PROVE  /\ Head(putters) \in Closer /\ closing[Head(putters)] = "putting"
         /\ \A c \in Closer : closing'[c] = IF c = Head(putters) THEN "put" ELSE closing[c]
<1>1. Len(putters) \in Nat \ {0} /\ putters[1] = Head(putters) /\ Head(putters) \in Closer
  BY DEF TypeInv, TypeOK, QueueType
<1>2. In(putters, Head(putters))
  BY <1>1 DEF In
<1> QED
  BY <1>1, <1>2 DEF Puts, GetNowait, TypeInv, TypeOK, ApplicationType

\* All other steps of the consumer leave the stages alone, or are task_done.
LEMMA ConsumerStages ==
  ASSUME TypeInv, NEW c \in Closer,
         AwaitItem \/ ItemReady \/ BatchFull \/ Receive \/ NothingToSubmit \/ SendPending \/ TimerFires
           \/ Submit \/ SendEnds
  PROVE  closing'[c] = closing[c] \/ (closing[c] = "joining" /\ closing'[c] = "closed")
<1>1. CASE AwaitItem \/ ItemReady \/ BatchFull \/ NothingToSubmit \/ SendPending \/ TimerFires
  BY <1>1 DEF AwaitItem, ItemReady, BatchFull, NothingToSubmit, SendPending, TimerFires
<1>2. CASE Receive
  BY <1>2, TaskDoneStages DEF Receive, StopTaken
<1>3. CASE Submit \/ SendEnds
  <2>1. TaskDone(Len(spans)) /\ Len(spans) \in Nat
    BY <1>3 DEF Submit, SendEnds, Submitted, TypeInv, TypeOK, ConsumerType
  <2> QED
    BY <2>1, TaskDoneStages
<1> QED
  BY <1>1, <1>2, <1>3

\* The _flush that runs is of a call that was "called".
LEMMA CalledRuns ==
  ASSUME TypeInv, Calls, NEW c \in Closer, Runs(c)
  PROVE  closing[c] = "called"
<1>1. ready # <<>> /\ ready[1] = c /\ 1 \in 1 .. Len(ready)
  BY DEF Runs, TypeInv, TypeOK, ApplicationType
<1> QED
  BY <1>1 DEF In, Calls

LEMMA StepCalls == TypeInv /\ Calls /\ Puts /\ [Next]_vars => Calls'
<1> SUFFICES ASSUME TypeInv, Calls, Puts, [Next]_vars PROVE Calls'
  OBVIOUS
<1>a. ready \in Seq(Span \cup Closer) /\ closing \in [Closer -> Stage]
  BY DEF TypeInv, TypeOK, ApplicationType
<1>b. \A c \in Closer, s \in Span : c # s
  BY ReporterAssumption
<1>1. CASE UNCHANGED ready /\ \A c \in Closer : closing'[c] = "called" <=> closing[c] = "called"
  BY <1>1 DEF Calls, OnceIn, In
<1>2. ASSUME NEW s \in Span, ready' = Append(ready, s), UNCHANGED closing PROVE Calls'
  <2> SUFFICES ASSUME NEW c \in Closer PROVE (OnceIn(ready, c) /\ (closing[c] = "called" <=> In(ready, c)))'
    BY DEF Calls
  <2> QED
    BY <1>2, <1>a, <1>b, InAppend DEF Calls
<1>3. ASSUME NEW c \in Closer, Close(c) PROVE Calls'
  <2>1. /\ closing[c] = "open" /\ ready' = Append(ready, c)
        /\ \A d \in Closer : closing'[d] = IF d = c THEN "called" ELSE closing[d]
    BY <1>3, <1>a DEF Close
  <2> SUFFICES ASSUME NEW d \in Closer PROVE (OnceIn(ready, d) /\ (closing[d] = "called" <=> In(ready, d)))'
    BY DEF Calls
  <2> QED
    BY <2>1, <1>a, InAppend DEF Calls
<1>4. ASSUME NEW s \in Span, RunReport(s) PROVE Calls'
  <2>1. ready # <<>> /\ Head(ready) = s /\ ready' = Tail(ready) /\ closing' = closing
    BY <1>4 DEF RunReport, Runs
  <2> SUFFICES ASSUME NEW c \in Closer PROVE (OnceIn(ready, c) /\ (closing[c] = "called" <=> In(ready, c)))'
    BY DEF Calls
  <2> QED
    BY <2>1, <1>a, <1>b, InTail DEF Calls
<1>5. ASSUME NEW c \in Closer, RunFlush(c) PROVE Calls'
  <2>1. /\ ready # <<>> /\ Head(ready) = c /\ ready' = Tail(ready)
        /\ closing'[c] \in {"putting", "joining"} /\ \A d \in Closer \ {c} : closing'[d] = closing[d]
    BY <1>5, <1>a DEF RunFlush, Runs
  <2> SUFFICES ASSUME NEW d \in Closer PROVE (OnceIn(ready, d) /\ (closing[d] = "called" <=> In(ready, d)))'
    BY DEF Calls
  <2> QED
    BY <2>1, <1>a, InTail DEF Calls
<1>6. CASE \E c \in Closer : RunJoin(c)
  BY <1>1, <1>6, <1>a DEF RunJoin
<1>7. CASE GetNowait
  <2>1. \A c \in Closer : closing'[c] = "called" <=> closing[c] = "called"
    BY <1>7, WokenStage DEF GetNowait
  <2> QED
    BY <1>1, <1>7, <2>1 DEF GetNowait
<1>8. CASE AwaitItem \/ ItemReady \/ BatchFull \/ Receive \/ NothingToSubmit \/ SendPending \/ TimerFires \/ Submit \/ SendEnds
  <2>1. ready' = ready
    BY <1>8 DEF AwaitItem, ItemReady, BatchFull, Receive, NothingToSubmit, SendPending, TimerFires, Submit, SendEnds, Submitted
  <2>2. \A c \in Closer : closing'[c] = "called" <=> closing[c] = "called"
    BY <1>8, ConsumerStages
  <2> QED
    BY <1>1, <2>1, <2>2
<1>9. CASE SetProcess \/ UNCHANGED vars
  BY <1>1, <1>9 DEF SetProcess, vars
<1>10. CASE \E s \in Span : ReportSpan(s)
  BY <1>2, <1>10 DEF ReportSpan
<1> QED
  BY <1>3, <1>4, <1>5, <1>6, <1>7, <1>8, <1>9, <1>10 DEF Next, RunCallback, Consume

LEMMA StepPuts == TypeInv /\ Calls /\ Puts /\ [Next]_vars => Puts'
<1> SUFFICES ASSUME TypeInv, Calls, Puts, [Next]_vars PROVE Puts'
  OBVIOUS
<1>a. putters \in Seq(Closer) /\ closing \in [Closer -> Stage]
  BY DEF TypeInv, TypeOK, ApplicationType, QueueType
<1>1. CASE UNCHANGED putters /\ \A c \in Closer : closing'[c] = "putting" <=> closing[c] = "putting"
  BY <1>1 DEF Puts, OnceIn, In
<1>2. ASSUME NEW c \in Closer, RunFlush(c) PROVE Puts'
  <2>1. closing[c] = "called"
    BY <1>2, CalledRuns DEF RunFlush
  <2>2. CASE UNCHANGED putters /\ closing' = [closing EXCEPT ![c] = "joining"]
    BY <1>1, <1>a, <2>1, <2>2
  <2>3. CASE putters' = Append(putters, c) /\ closing' = [closing EXCEPT ![c] = "putting"]
    <3>1. \A d \in Closer : closing'[d] = IF d = c THEN "putting" ELSE closing[d]
      BY <1>a, <2>3
    <3> SUFFICES ASSUME NEW d \in Closer PROVE (OnceIn(putters, d) /\ (closing[d] = "putting" <=> In(putters, d)))'
      BY DEF Puts
    <3> QED
      BY <2>1, <2>3, <3>1, <1>a, InAppend DEF Puts
  <2> QED
    BY <1>2, <2>2, <2>3 DEF RunFlush
<1>3. CASE GetNowait
  <2>1. CASE putters = <<>>
    BY <1>1, <1>3, <2>1 DEF GetNowait
  <2>2. CASE putters # <<>>
    <3>1. putters' = Tail(putters)
      BY <1>3, <2>2 DEF GetNowait
    <3> SUFFICES ASSUME NEW d \in Closer PROVE (OnceIn(putters, d) /\ (closing[d] = "putting" <=> In(putters, d)))'
      BY DEF Puts
    <3> QED
      BY <1>3, <2>2, <3>1, <1>a, WokenStage, InTail DEF Puts
  <2> QED
    BY <2>1, <2>2
<1>4. CASE AwaitItem \/ ItemReady \/ BatchFull \/ Receive \/ NothingToSubmit \/ SendPending \/ TimerFires \/ Submit \/ SendEnds
  <2>1. putters' = putters
    BY <1>4 DEF AwaitItem, ItemReady, BatchFull, Receive, NothingToSubmit, SendPending, TimerFires, Submit, SendEnds, Submitted
  <2>2. \A c \in Closer : closing'[c] = "putting" <=> closing[c] = "putting"
    BY <1>4, ConsumerStages
  <2> QED
    BY <1>1, <2>1, <2>2
<1>5. CASE SetProcess \/ UNCHANGED vars \/ (\E s \in Span : ReportSpan(s) \/ RunReport(s))
  BY <1>1, <1>5 DEF SetProcess, vars, ReportSpan, RunReport
<1>6. CASE \E c \in Closer : Close(c) \/ RunJoin(c)
  BY <1>1, <1>6, <1>a DEF Close, RunJoin
<1> QED
  BY <1>2, <1>3, <1>4, <1>5, <1>6 DEF Next, RunCallback, Consume

\* Steps put items in the queue one at a time.
LEMMA Enqueues ==
  ASSUME [Next]_vars
  PROVE  enqueued' = enqueued \/ \E item \in Item : enqueued' = Append(enqueued, item)
<1>1. Stop \in Item /\ Span \subseteq Item
  BY DEF Item
<1>2. CASE (\E s \in Span : RunReport(s)) \/ (\E c \in Closer : RunFlush(c)) \/ GetNowait
  BY <1>1, <1>2 DEF RunReport, Drop, RunFlush, PutNowait, GetNowait
<1>3. CASE SetProcess \/ UNCHANGED vars \/ (\E s \in Span : ReportSpan(s)) \/ (\E c \in Closer : Close(c) \/ RunJoin(c))
  BY <1>3 DEF SetProcess, vars, ReportSpan, Close, RunJoin, historyVars
<1>4. CASE AwaitItem \/ ItemReady \/ BatchFull \/ Receive \/ NothingToSubmit \/ SendPending \/ TimerFires \/ Submit \/ SendEnds
  BY <1>4 DEF AwaitItem, ItemReady, BatchFull, Receive, NothingToSubmit, SendPending, TimerFires, Submit, SendEnds, Submitted, historyVars
<1> QED
  BY <1>2, <1>3, <1>4 DEF Next, RunCallback, Consume

LEMMA StepJoins == TypeInv /\ Puts /\ Joins /\ [Next]_vars => Joins'
<1> SUFFICES ASSUME TypeInv, Puts, Joins, [Next]_vars PROVE Joins'
  OBVIOUS
<1>a. enqueued \in Seq(Item) /\ closing \in [Closer -> Stage] /\ unfinished \in Nat /\ Stop \in Item
  BY DEF TypeInv, TypeOK, ApplicationType, QueueType, HistoryType, Item
<1>b. In(enqueued, Stop) => In(enqueued, Stop)'
  <2>1. CASE enqueued' = enqueued
    BY <2>1 DEF In
  <2>2. ASSUME NEW item \in Item, enqueued' = Append(enqueued, item) PROVE In(enqueued, Stop) => In(enqueued, Stop)'
    BY <2>2, <1>a, InAppend
  <2> QED
    BY <2>1, <2>2, Enqueues
<1>1. CASE closing' = closing /\ (unfinished' = unfinished \/ unfinished' = unfinished + 1)
  BY <1>1, <1>a, <1>b DEF Joins
<1>2. ASSUME NEW c \in Closer, RunFlush(c) PROVE Joins'
  <2>1. CASE closing' = [closing EXCEPT ![c] = "putting"] /\ unfinished' = unfinished
    BY <2>1, <1>a, <1>b DEF Joins
  <2>2. CASE PutNowait(Stop) /\ closing' = [closing EXCEPT ![c] = "joining"]
    <3>1. unfinished' = unfinished + 1 /\ enqueued' = Append(enqueued, Stop)
      BY <2>2 DEF PutNowait
    <3>2. In(enqueued, Stop)' /\ unfinished' # 0
      BY <3>1, <1>a, InAppend
    <3> QED
      BY <3>2 DEF Joins
  <2> QED
    BY <1>2, <2>1, <2>2 DEF RunFlush, queueVars
<1>3. CASE GetNowait
  <2>1. CASE putters = <<>>
    BY <1>1, <1>3, <2>1 DEF GetNowait
  <2>2. CASE putters # <<>>
    <3>1. unfinished' = unfinished + 1 /\ enqueued' = Append(enqueued, Stop)
      BY <1>3, <2>2 DEF GetNowait
    <3>2. In(enqueued, Stop)' /\ unfinished' # 0
      BY <3>1, <1>a, InAppend
    <3> QED
      BY <3>2 DEF Joins
  <2> QED
    BY <2>1, <2>2
<1>4. ASSUME NEW c \in Closer, RunJoin(c) PROVE Joins'
  <2>1. \A d \in Closer : closing'[d] = IF d = c THEN (IF unfinished = 0 THEN "closed" ELSE "joining") ELSE closing[d]
    BY <1>4, <1>a DEF RunJoin
  <2> QED
    BY <1>4, <1>b, <2>1 DEF RunJoin, Joins, queueVars
<1>5. ASSUME NEW n \in Nat, TaskDone(n) PROVE Joins'
  <2> SUFFICES ASSUME NEW c \in Closer
               PROVE  (closing[c] \in {"put", "joining"} => In(enqueued, Stop))' /\ (closing[c] = "joining" => unfinished # 0)'
    BY DEF Joins
  <2>1. closing'[c] = closing[c] \/ (closing[c] = "joining" /\ closing'[c] = "closed")
    BY <1>5, TaskDoneStages
  <2>2. closing'[c] = "joining" => n # unfinished /\ unfinished' = unfinished - n
    BY <1>5, <1>a DEF TaskDone
  <2> QED
    BY <1>a, <1>b, <1>5, <2>1, <2>2 DEF Joins
<1>6. CASE Receive
  BY <1>1, <1>5, <1>6 DEF Receive, StopTaken
<1>7. CASE Submit \/ SendEnds
  <2>1. TaskDone(Len(spans)) /\ Len(spans) \in Nat
    BY <1>7 DEF Submit, SendEnds, Submitted, TypeInv, TypeOK, ConsumerType
  <2> QED
    BY <1>5, <2>1
<1>8. CASE AwaitItem \/ ItemReady \/ BatchFull \/ NothingToSubmit \/ SendPending \/ TimerFires
  BY <1>1, <1>8 DEF AwaitItem, ItemReady, BatchFull, NothingToSubmit, SendPending, TimerFires, queueVars
<1>9. CASE SetProcess \/ UNCHANGED vars \/ (\E s \in Span : ReportSpan(s))
  BY <1>1, <1>9 DEF SetProcess, vars, ReportSpan, queueVars
<1>10. ASSUME NEW s \in Span, RunReport(s) PROVE Joins'
  BY <1>1, <1>10 DEF RunReport, Drop, PutNowait, queueVars
<1>11. ASSUME NEW c \in Closer, Close(c) PROVE Joins'
  <2>1. \A d \in Closer : closing'[d] = IF d = c THEN "called" ELSE closing[d]
    BY <1>11, <1>a DEF Close
  <2> QED
    BY <1>11, <1>b, <2>1 DEF Close, Joins, queueVars
<1> QED
  BY <1>2, <1>3, <1>4, <1>6, <1>7, <1>8, <1>9, <1>10, <1>11 DEF Next, RunCallback, Consume
LEMMA StepOneStop == TypeInv /\ Calls /\ Puts /\ OneStop /\ [Next]_vars => OneStop'
<1> SUFFICES ASSUME TypeInv, Calls, Puts, OneStop, [Next]_vars PROVE OneStop'
  OBVIOUS
<1>a. enqueued \in Seq(Item) /\ closing \in [Closer -> Stage] /\ Stop \in Item /\ \A s \in Span : s \in Item /\ s # Stop
  BY ReporterAssumption DEF TypeInv, TypeOK, ApplicationType, HistoryType, Item
<1>1. ASSUME \A c \in Closer : closing[c] # "open" => closing'[c] # "open",
             \A c \in Closer : closing'[c] \in {"open", "called", "putting"} => closing[c] \in {"open", "called", "putting"},
             enqueued' = enqueued \/ \E s \in Span : enqueued' = Append(enqueued, s)
      PROVE  OneStop'
  <2> SUFFICES ASSUME NEW c \in Closer, Alone(c)'
               PROVE  (OnceIn(enqueued, Stop) /\ (closing[c] \in {"open", "called", "putting"} => ~In(enqueued, Stop)))'
    BY DEF OneStop
  <2>1. Alone(c)
    BY <1>1 DEF Alone
  <2>2. OnceIn(enqueued, Stop)' /\ (In(enqueued, Stop)' <=> In(enqueued, Stop))
    <3>1. CASE enqueued' = enqueued
      BY <2>1, <3>1 DEF OneStop, OnceIn, In
    <3>2. ASSUME NEW s \in Span, enqueued' = Append(enqueued, s) PROVE OnceIn(enqueued, Stop)' /\ (In(enqueued, Stop)' <=> In(enqueued, Stop))
      BY <1>a, <2>1, <3>2, InAppend DEF OneStop
    <3> QED
      BY <1>1, <3>1, <3>2
  <2> QED
    BY <1>1, <2>1, <2>2 DEF OneStop
<1>2. ASSUME NEW d \in Closer, closing[d] \in {"called", "putting"}, NEW stage \in {"put", "joining"},
             closing' = [closing EXCEPT ![d] = stage], enqueued' = Append(enqueued, Stop)
      PROVE  OneStop'
  <2> SUFFICES ASSUME NEW c \in Closer, Alone(c)'
               PROVE  (OnceIn(enqueued, Stop) /\ (closing[c] \in {"open", "called", "putting"} => ~In(enqueued, Stop)))'
    BY DEF OneStop
  <2>1. c = d /\ Alone(c) /\ closing'[c] = stage
    BY <1>2, <1>a DEF Alone
  <2>2. OnceIn(enqueued, Stop) /\ ~In(enqueued, Stop)
    BY <1>2, <2>1 DEF OneStop
  <2> QED
    BY <1>2, <1>a, <2>1, <2>2, InAppend
<1>3. ASSUME NEW c \in Closer, RunFlush(c) PROVE OneStop'
  <2>1. closing[c] = "called"
    BY <1>3, CalledRuns DEF RunFlush
  <2>2. CASE closing' = [closing EXCEPT ![c] = "putting"] /\ UNCHANGED enqueued
    BY <1>1, <1>a, <2>1, <2>2
  <2>3. CASE PutNowait(Stop) /\ closing' = [closing EXCEPT ![c] = "joining"]
    BY <1>2, <2>1, <2>3 DEF PutNowait
  <2> QED
    BY <1>3, <2>2, <2>3 DEF RunFlush
<1>4. CASE GetNowait
  <2>1. CASE putters = <<>>
    BY <1>1, <1>4, <2>1 DEF GetNowait
  <2>2. CASE putters # <<>>
    BY <1>2, <1>4, <2>2, WokenStage DEF GetNowait
  <2> QED
    BY <2>1, <2>2
<1>5. CASE AwaitItem \/ ItemReady \/ BatchFull \/ Receive \/ NothingToSubmit \/ SendPending \/ TimerFires \/ Submit \/ SendEnds
  <2>1. enqueued' = enqueued
    BY <1>5 DEF AwaitItem, ItemReady, BatchFull, Receive, NothingToSubmit, SendPending, TimerFires, Submit, SendEnds, Submitted, historyVars
  <2>2. \A c \in Closer : closing'[c] = closing[c] \/ (closing[c] = "joining" /\ closing'[c] = "closed")
    BY <1>5, ConsumerStages
  <2> QED
    BY <1>1, <2>1, <2>2
<1>6. CASE SetProcess \/ UNCHANGED vars \/ (\E s \in Span : ReportSpan(s))
  BY <1>1, <1>6 DEF SetProcess, vars, ReportSpan, historyVars
<1>7. CASE \E s \in Span : RunReport(s)
  BY <1>1, <1>7 DEF RunReport, Drop, PutNowait
<1>8. CASE \E c \in Closer : Close(c) \/ RunJoin(c)
  BY <1>1, <1>8, <1>a DEF Close, RunJoin, historyVars
<1> QED
  BY <1>3, <1>4, <1>5, <1>6, <1>7, <1>8 DEF Next, RunCallback, Consume

LEMMA StepHoldsSpans == TypeInv /\ HasSpans /\ HoldsSpans /\ [Next]_vars => HoldsSpans'
<1> SUFFICES ASSUME TypeInv, HasSpans, HoldsSpans, [Next]_vars PROVE HoldsSpans'
  OBVIOUS
<1> USE DEF HoldsSpans
<1>a. spans \in Seq(Span) /\ getter \in {"none", "untimed", "timed"} /\ BatchSize \in Nat
  BY ReporterAssumption DEF TypeInv, TypeOK, QueueType, ConsumerType
<1>1. CASE UNCHANGED <<getter, pc, spans, stopping>> /\ (got # <<>> => got' # <<>>)
  BY <1>1
<1>2. ASSUME NEW item, PutNowait(item), UNCHANGED <<pc, spans, stopping>> PROVE HoldsSpans'
  <2>1. got' # <<>> \/ got' = got
    BY <1>2 DEF PutNowait
  <2>2. getter' = "none" \/ getter' = getter
    BY <1>2 DEF PutNowait
  <2> QED
    BY <1>2, <2>1, <2>2
<1>3. CASE TimerFires
  BY <1>3 DEF TimerFires, consumerVars, TypeInv, NoLostWakeup
<1>4. CASE AwaitItem
  BY <1>4 DEF AwaitItem, Deadline
<1>5. CASE GetNowait
  BY <1>5 DEF GetNowait
<1>6. CASE ItemReady
  BY <1>6 DEF ItemReady, HasSpans, queueVars
<1>7. CASE BatchFull
  <2>1. BatchSize # 0 => spans # <<>>
    BY <1>7, <1>a DEF BatchFull, BatchHasRoom
  <2> QED
    BY <1>7, <2>1 DEF BatchFull, queueVars
<1>8. CASE Receive
  <2>1. CASE got = <<>>
    BY <1>8, <2>1 DEF Receive
  <2>2. CASE got # <<>> /\ Head(got) = Stop
    BY <1>8, <2>2 DEF Receive, StopTaken
  <2>3. CASE got # <<>> /\ Head(got) # Stop
    <3>1. pc' = "filling" /\ getter' = getter /\ pc = "received"
      BY <1>8, <2>3 DEF Receive
    <3> QED
      BY <3>1 DEF TypeInv, NoLostWakeup
  <2> QED
    BY <2>1, <2>2, <2>3
<1>9. CASE NothingToSubmit \/ SendPending
  BY <1>9 DEF NothingToSubmit, SendPending, NextRound, queueVars
<1>10. ASSUME NEW result, Submitted(result) PROVE HoldsSpans'
  BY <1>10 DEF Submitted, NextRound, ClearBatch
<1>11. CASE \E s \in Span : RunReport(s)
  BY <1>1, <1>2, <1>11 DEF RunReport, Drop, queueVars, consumerVars
<1>12. CASE \E c \in Closer : RunFlush(c)
  BY <1>1, <1>2, <1>12 DEF RunFlush, queueVars, consumerVars
<1>13. CASE SetProcess \/ (\E s \in Span : ReportSpan(s)) \/ (\E c \in Closer : Close(c) \/ RunJoin(c)) \/ UNCHANGED vars
  BY <1>1, <1>13 DEF SetProcess, ReportSpan, Close, RunJoin, vars, queueVars, consumerVars
<1> QED
  BY <1>3, <1>4, <1>5, <1>6, <1>7, <1>8, <1>9, <1>10, <1>11, <1>12, <1>13 DEF Next, RunCallback, Consume, Submit, SendEnds

\* A sentinel that was put and not taken is in hand or in the queue.
LEMMA StopAhead ==
  ASSUME TypeInv, Pipeline, ~stopping, In(enqueued, Stop)
  PROVE  got # <<>> \/ queue # <<>>
<1>1. Taken = spans /\ spans \in Seq(Span) /\ handled \in Seq(Span)
  BY DEF Taken, TypeInv, TypeOK, ConsumerType, HistoryType
<1>2. SUFFICES ASSUME got = <<>>, queue = <<>> PROVE FALSE
  OBVIOUS
<1>3. enqueued = handled \o spans
  BY <1>1, <1>2 DEF Pipeline
<1>4. In(handled, Stop) \/ In(spans, Stop)
  BY <1>1, <1>3, InConcat
<1>5. \A i \in 1 .. Len(handled) : handled[i] # Stop
  BY <1>1, ReporterAssumption
<1>6. \A i \in 1 .. Len(spans) : spans[i] # Stop
  BY <1>1, ReporterAssumption
<1> QED
  BY <1>4, <1>5, <1>6 DEF In

\* Behind a sentinel that was taken there are only sentinels.
LEMMA StopTakenLast ==
  ASSUME TypeInv, FlowInv, stopping
  PROVE  /\ In(enqueued, Stop) /\ \A i \in 1 .. Len(queue) : queue[i] = Stop
         /\ OnceIn(enqueued, Stop) => queue = <<>>
<1> DEFINE past == handled \o Taken
<1>1. spans \in Seq(Item) /\ past \in Seq(Item) /\ queue \in Seq(Item)
  BY TypesInItem DEF TypeInv
<1>0. got = <<>>
  BY DEF TypeInv, Control
<1>a. Stop \in Item
  BY DEF Item
<1>2. Taken = Append(spans, Stop)
  BY <1>1, <1>a DEF Taken
<1>3. Len(past) \in Nat \ {0} /\ past[Len(past)] = Stop
  <2>1. /\ Taken \in Seq(Item) /\ handled \in Seq(Item) /\ Len(Taken) = Len(spans) + 1 /\ Len(spans) \in Nat
        /\ Taken[Len(Taken)] = Stop
    BY <1>1, <1>2, TypesInItem DEF TypeInv
  <2>2. Len(past) = Len(handled) + Len(Taken) /\ Len(handled) \in Nat /\ past[Len(handled) + Len(Taken)] = Taken[Len(Taken)]
    BY <2>1
  <2> QED
    BY <2>1, <2>2
<1>4. enqueued = past \o queue
  BY <1>0, <1>1 DEF FlowInv, Pipeline
<1> HIDE DEF past
<1>5. /\ Len(enqueued) = Len(past) + Len(queue) /\ Len(queue) \in Nat /\ enqueued[Len(past)] = Stop
      /\ \A i \in 1 .. Len(queue) : enqueued[Len(past) + i] = queue[i]
  BY <1>1, <1>3, <1>4
<1>6. Len(past) \in 1 .. Len(enqueued)
  BY <1>3, <1>5
<1>7. \A i \in 1 .. Len(queue) : queue[i] = Stop
  <2> TAKE i \in 1 .. Len(queue)
  <2>1. Len(past) + i \in Len(past) .. Len(enqueued)
    BY <1>3, <1>5
  <2> QED
    BY <1>5, <1>6, <2>1 DEF FlowInv, NoSpanBehindStop
<1>8. ASSUME OnceIn(enqueued, Stop), queue # <<>> PROVE FALSE
  <2>1. 1 \in 1 .. Len(queue)
    BY <1>1, <1>8
  <2>2. Len(past) + 1 \in 1 .. Len(enqueued) /\ enqueued[Len(past) + 1] = Stop
    BY <1>3, <1>5, <1>7, <2>1
  <2> QED
    BY <1>3, <1>5, <1>6, <1>8, <2>2 DEF OnceIn
<1> QED
  BY <1>5, <1>6, <1>7, <1>8 DEF In

LEMMA RestIsDone == TypeInv /\ FlowInv /\ CloseInv /\ RestInv => NothingStuck
<1> SUFFICES ASSUME TypeInv, FlowInv, CloseInv, RestInv, AtRest PROVE NothingStuck
  BY DEF NothingStuck
<1> USE DEF RestInv
<1>1. \/ pc = "getting" /\ getter = "untimed" /\ got = <<>> /\ queue = <<>> /\ putters = <<>> /\ ~stopping
      \/ pc = "exited" /\ stopping /\ got = <<>> /\ spans = <<>>
  BY DEF AtRest, Busy, TypeInv, TypeOK, ConsumerType, Control, NoLostWakeup
<1>2. ASSUME NEW c \in Closer, Alone(c) PROVE closing[c] \in {"open", "closed"}
  <2>1. closing[c] \in {"open", "called", "putting", "joining", "closed"}
    BY DEF AtRest, TypeInv, TypeOK, ApplicationType, Stage
  <2>2. closing[c] # "called"
    BY DEF Calls, In, AtRest
  <2>3. CASE pc = "getting"
    <3>1. closing[c] # "putting"
      BY <1>1, <2>3 DEF Puts, In
    <3>2. closing[c] # "joining"
      BY <1>1, <2>3, StopAhead DEF Joins, FlowInv
    <3> QED
      BY <2>1, <2>2, <3>1, <3>2
  <2>4. CASE pc = "exited"
    <3>1. In(enqueued, Stop) /\ queue = <<>>
      BY <1>1, <1>2, <2>4, StopTakenLast DEF OneStop
    <3>2. closing[c] # "putting"
      BY <1>2, <3>1 DEF OneStop
    <3>3. unfinished = 0
      BY <1>1, <2>4, <3>1 DEF TypeInv, UnfinishedExact
    <3>4. closing[c] # "joining"
      BY <3>3 DEF Joins
    <3> QED
      BY <2>1, <2>2, <3>2, <3>4
  <2> QED
    BY <1>1, <2>3, <2>4
<1>3. ASSUME FlushInterval, NEW s \in Span, outcome[s] = "pending" PROVE FALSE
  <2>1. InBatch(s) \/ got = <<s>> \/ InQueue(s)
    BY <1>3 DEF CloseInv, Placed, InFlight, InReady, AtRest
  <2>2. spans = <<>> /\ got = <<>>
    BY <1>1, <1>3 DEF HoldsSpans
  <2>3. queue = <<>> \/ \A i \in 1 .. Len(queue) : queue[i] = Stop
    BY <1>1, StopTakenLast
  <2> QED
    BY <2>1, <2>2, <2>3, ReporterAssumption DEF InBatch, InQueue
<1> QED
  BY <1>2, <1>3 DEF NothingStuck

LEMMA RestInvariance == Spec => [](TypeInv /\ FlowInv /\ CloseInv /\ BufferInv /\ RestInv)
<1>1. Spec => [](TypeInv /\ FlowInv /\ CloseInv)
  BY Invariance
<1>2. TypeInv /\ FlowInv /\ BufferInv /\ [Next]_vars => BufferInv'
  BY StepBuffer
<1>3. TypeInv /\ BufferInv /\ RestInv /\ [Next]_vars => RestInv'
  BY StepCalls, StepPuts, StepJoins, StepOneStop, StepHoldsSpans DEF RestInv, BufferInv
<1> QED
  BY <1>1, <1>2, <1>3, InitBuffer, InitRest, PTL DEF Spec

\* Whatever the order of callbacks, timers, sends and of the steps of _consume_queue: when the
\* loop has nothing left to do, the close() that was alone has completed, and with a flush
\* interval no span is left in memory.
THEOREM NeverStuck == Spec => []NothingStuck
BY RestInvariance, RestIsDone, PTL

(***************************************************************************)
(* The loop does come to rest: its steps use up the work there is.         *)
(***************************************************************************)

LoopStep == RunCallback \/ TimerFires \/ Consume \/ SendEnds

\* The closers whose waiting put was accepted.
Woken == {c \in Closer : closing[c] = "put"}

\* What is left to do in a round of _consume_queue.
Rank ==
  CASE pc = "filling" -> 6
    [] pc = "getting" -> IF getter = "none" THEN 4 ELSE 5
    [] pc = "received" -> 3
    [] pc = "submitting" -> 2
    [] pc = "sending" -> 1
    [] pc = "exited" -> 0

\* What waits for the loop, and what the queue and the consumer have: an item costs less the
\* further it has come.
Outside == 13 * Len(ready) + 12 * Len(putters) + Cardinality(Woken)
Inside  == 10 * (Len(queue) + Len(got)) + 6 * Len(spans) + Rank
Work    == Outside + Inside

\* As long as the application leaves it alone, every step of the loop brings it nearer to its rest.
WorkUsedUp == [][LoopStep => Work' < Work]_vars

WokenFinite == IsFiniteSet(Woken)
WorkIsNat == Work \in Nat

LEMMA WokenStep ==
  ASSUME TypeInv, Calls, Puts, WokenFinite, [Next]_vars
  PROVE  /\ WokenFinite'
         /\ Woken' = Woken \/ (\E c \in Closer : RunJoin(c)) \/ (GetNowait /\ putters # <<>>)
         /\ \A c \in Closer : RunJoin(c) => Cardinality(Woken') = Cardinality(Woken) - 1
         /\ GetNowait /\ putters # <<>> => Cardinality(Woken') = Cardinality(Woken) + 1
         /\ Cardinality(Woken) \in Nat
<1>a. closing \in [Closer -> Stage] /\ Cardinality(Woken) \in Nat
  BY FS_CardinalityType DEF TypeInv, TypeOK, ApplicationType, WokenFinite
<1>1. ASSUME NEW c \in Closer, RunJoin(c) PROVE Woken' = Woken \ {c} /\ c \in Woken
  BY <1>1, <1>a DEF RunJoin, Woken
<1>2. ASSUME GetNowait, putters # <<>> PROVE Woken' = Woken \cup {Head(putters)} /\ Head(putters) \notin Woken
  BY <1>2, WokenStage DEF Woken
<1>3. ASSUME NEW c \in Closer, RunJoin(c) PROVE WokenFinite' /\ Cardinality(Woken') = Cardinality(Woken) - 1
  BY <1>1, <1>3, FS_RemoveElement DEF WokenFinite
<1>4. ASSUME GetNowait, putters # <<>> PROVE WokenFinite' /\ Cardinality(Woken') = Cardinality(Woken) + 1
  BY <1>2, <1>4, FS_AddElement DEF WokenFinite
<1>5. ASSUME \A c \in Closer : closing'[c] = "put" <=> closing[c] = "put" PROVE Woken' = Woken
  BY <1>5 DEF Woken
<1>6. \/ Woken' = Woken \/ (\E c \in Closer : RunJoin(c)) \/ (GetNowait /\ putters # <<>>)
  <2>1. CASE SetProcess \/ UNCHANGED vars \/ (\E s \in Span : ReportSpan(s) \/ RunReport(s))
    BY <1>5, <2>1 DEF SetProcess, vars, ReportSpan, RunReport
  <2>2. CASE \E c \in Closer : Close(c)
    BY <1>5, <1>a, <2>2 DEF Close
  <2>3. ASSUME NEW c \in Closer, RunFlush(c) PROVE Woken' = Woken
    <3>1. closing[c] = "called"
      BY <2>3, CalledRuns DEF RunFlush
    <3> QED
      BY <1>5, <1>a, <2>3, <3>1 DEF RunFlush
  <2>4. CASE GetNowait /\ putters = <<>>
    BY <1>5, <2>4 DEF GetNowait
  <2>5. CASE AwaitItem \/ ItemReady \/ BatchFull \/ Receive \/ NothingToSubmit \/ SendPending \/ TimerFires \/ Submit \/ SendEnds
    BY <1>5, <2>5, ConsumerStages
  <2> QED
    BY <2>1, <2>2, <2>3, <2>4, <2>5 DEF Next, RunCallback, Consume
<1> QED
  BY <1>3, <1>4, <1>6, <1>a DEF WokenFinite

LEMMA WorkType ==
  ASSUME TypeInv, WokenFinite
  PROVE  Outside \in Nat /\ Inside \in Nat /\ Rank \in 0 .. 6
<1>1. Cardinality(Woken) \in Nat
  BY FS_CardinalityType DEF WokenFinite
<1>2. Rank \in 0 .. 6
  BY DEF Rank, TypeInv, TypeOK, ConsumerType
<1>3. Len(ready) \in Nat /\ Len(putters) \in Nat /\ Len(queue) \in Nat /\ Len(got) \in Nat /\ Len(spans) \in Nat
  BY TypesInItem DEF TypeInv, TypeOK, ApplicationType, QueueType, ConsumerType
<1> QED
  BY <1>1, <1>2, <1>3 DEF Outside, Inside

LEMMA WorkTypeNext ==
  ASSUME TypeInv', WokenFinite'
  PROVE  Outside' \in Nat /\ Inside' \in Nat /\ Rank' \in 0 .. 6
<1>1. Cardinality(Woken)' \in Nat
  BY FS_CardinalityType DEF WokenFinite
<1>2. Rank' \in 0 .. 6
  BY DEF Rank, TypeInv, TypeOK, ConsumerType
<1>3. Len(ready') \in Nat /\ Len(putters') \in Nat /\ Len(queue') \in Nat /\ Len(got') \in Nat /\ Len(spans') \in Nat
  <2>1. got' = <<>> \/ \E item \in Item : got' = <<item>>
    BY DEF TypeInv, TypeOK, QueueType
  <2>2. Len(got') \in Nat
    BY <2>1
  <2> QED
    BY <2>2 DEF TypeInv, TypeOK, ApplicationType, QueueType, ConsumerType
<1> QED
  BY <1>1, <1>2, <1>3 DEF Outside, Inside

\* An item that is put gets as far as the queue, or into the hand of the waiting consumer.
LEMMA PutWork ==
  ASSUME TypeInv, NEW item, PutNowait(item), UNCHANGED <<pc, spans>>
  PROVE  Inside' <= Inside + 10
<1>a. queue \in Seq(Item) /\ got \in Seq(Item) /\ Len(spans) \in Nat /\ Rank \in 0 .. 6
  BY TypesInItem DEF TypeInv, TypeOK, ConsumerType, Rank
<1>1. CASE getter = "none"
  <2>1. got' = got /\ getter' = getter /\ Len(queue') = Len(queue) + 1 /\ Len(queue) \in Nat /\ Len(got) \in Nat
    BY <1>1, <1>a DEF PutNowait
  <2>2. Rank' = Rank
    BY <2>1 DEF Rank
  <2> QED
    BY <1>a, <2>1, <2>2 DEF Inside
<1>2. CASE getter # "none"
  <2>1. Len(got') = 1 /\ Len(got) = 0 /\ getter' = "none" /\ queue' = queue /\ Len(queue) \in Nat /\ pc = "getting"
    BY <1>2, <1>a DEF PutNowait, TypeInv, NoLostWakeup
  <2>2. Rank' = 4 /\ Rank = 5
    BY <1>2, <2>1 DEF Rank
  <2> QED
    BY <1>a, <2>1, <2>2 DEF Inside
<1> QED
  BY <1>1, <1>2

LEMMA StepWork ==
  ASSUME TypeInv, HasSpans, RestInv, WokenFinite, BatchSize # 0, [Next]_vars, LoopStep
  PROVE  Work' < Work
<1> USE DEF RestInv
<1>a. /\ ready \in Seq(Span \cup Closer) /\ putters \in Seq(Closer) /\ queue \in Seq(Item) /\ got \in Seq(Item)
      /\ spans \in Seq(Span) /\ closing \in [Closer -> Stage]
  BY TypesInItem DEF TypeInv, TypeOK, ApplicationType, QueueType, ConsumerType
<1>b. /\ Len(ready) \in Nat /\ Len(putters) \in Nat /\ Len(queue) \in Nat /\ Len(got) \in Nat /\ Len(spans) \in Nat
      /\ Cardinality(Woken) \in Nat /\ Rank \in 0 .. 6 /\ Outside \in Nat /\ Inside \in Nat
  BY <1>a, WokenStep, WorkType
<1>c. Outside' \in Nat /\ Inside' \in Nat /\ Rank' \in 0 .. 6
  <2>1. TypeInv' /\ WokenFinite'
    BY StepType, WokenStep
  <2> QED
    BY <2>1, WorkTypeNext
<1>d. \A a, b \in Nat : Outside' = Outside - a /\ Inside' <= Inside + b /\ a > b => Work' < Work
  <2>1. Outside \in Nat /\ Inside \in Nat /\ Outside' \in Nat /\ Inside' \in Nat
    BY <1>b, <1>c
  <2>2. \A x, y, v, w, a, b \in Nat : v = x - a /\ w <= y + b /\ a > b => v + w < x + y
    OBVIOUS
  <2>3. Work' = Outside' + Inside' /\ Work = Outside + Inside
    BY DEF Work
  <2> QED
    BY ONLY <2>1, <2>2, <2>3
<1>1. ASSUME UNCHANGED <<ready, putters>>, Woken' = Woken, Inside' < Inside PROVE Work' < Work
  <2>1. Outside' = Outside
    BY <1>1 DEF Outside
  <2>2. Outside \in Nat /\ Inside \in Nat /\ Outside' \in Nat /\ Inside' \in Nat
    BY <1>b, <1>c
  <2>3. Inside' < Inside
    BY <1>1
  <2>4. \A x, y, w \in Nat : w < y => x + w < x + y
    OBVIOUS
  <2>5. Work' = Outside' + Inside' /\ Work = Outside + Inside
    BY DEF Work
  <2> QED
    BY ONLY <2>1, <2>2, <2>3, <2>4, <2>5
<1>2. ASSUME ready' = Tail(ready), ready # <<>>, UNCHANGED putters, Woken' = Woken, Inside' <= Inside + 10 PROVE Work' < Work
  <2>1. Outside' = Outside - 13
    BY <1>2, <1>a, <1>b DEF Outside
  <2>2. Inside' <= Inside + 10
    BY <1>2
  <2> QED
    BY <1>d, <2>1, <2>2
<1>3. ASSUME NEW s \in Span, RunReport(s) PROVE Work' < Work
  <2>1. ready # <<>> /\ ready' = Tail(ready) /\ UNCHANGED <<putters, pc, spans, closing>>
    BY <1>3 DEF RunReport, Runs, consumerVars
  <2>2. Inside' <= Inside + 10
    <3>1. CASE UNCHANGED queueVars
      <4>1. Inside' = Inside
        BY <2>1, <3>1 DEF Inside, Rank, queueVars
      <4> QED
        BY <1>b, <4>1
    <3>2. CASE PutNowait(s)
      BY <2>1, <3>2, PutWork
    <3> QED
      BY <1>3, <3>1, <3>2 DEF RunReport, Drop
  <2> QED
    BY <1>2, <2>1, <2>2 DEF Woken
<1>4. ASSUME NEW c \in Closer, RunFlush(c) PROVE Work' < Work
  <2>1. ready # <<>> /\ ready' = Tail(ready) /\ UNCHANGED <<pc, spans>>
    BY <1>4 DEF RunFlush, Runs, consumerVars
  <2>2. Woken' = Woken
    <3>1. closing[c] = "called" /\ closing'[c] \in {"putting", "joining"} /\ \A d \in Closer \ {c} : closing'[d] = closing[d]
      BY <1>4, <1>a, CalledRuns DEF RunFlush
    <3> QED
      BY <3>1 DEF Woken
  <2>3. CASE UNCHANGED queueVars /\ putters' = Append(putters, c)
    <3>1. Inside' = Inside
      BY <2>1, <2>3 DEF Inside, Rank, queueVars
    <3>2. Len(ready') = Len(ready) - 1 /\ Len(putters') = Len(putters) + 1
      BY <1>a, <2>1, <2>3
    <3>3. Outside' = Outside - 1
      BY <1>b, <2>2, <3>2 DEF Outside
    <3> QED
      BY <1>b, <3>1, <3>3 DEF Work
  <2>4. CASE PutNowait(Stop) /\ UNCHANGED putters
    BY <1>2, <2>1, <2>2, <2>4, PutWork
  <2> QED
    BY <1>4, <2>3, <2>4 DEF RunFlush
<1>5. ASSUME NEW c \in Closer, RunJoin(c) PROVE Work' < Work
  <2>1. UNCHANGED <<ready, putters>> /\ Inside' = Inside
    BY <1>5 DEF RunJoin, queueVars, consumerVars, Rank, Inside
  <2>2. Cardinality(Woken') = Cardinality(Woken) - 1
    BY <1>5, WokenStep
  <2>3. Outside' = Outside - 1
    BY <1>b, <2>1, <2>2 DEF Outside
  <2> QED
    BY <1>b, <2>1, <2>3 DEF Work
<1>6. CASE TimerFires
  <2>1. UNCHANGED <<ready, putters, queue, got, spans, closing>>
    BY <1>6 DEF TimerFires, consumerVars
  <2>2. Rank = 5 /\ Rank' = 4
    BY <1>6 DEF TimerFires, consumerVars, Rank, TypeInv, NoLostWakeup
  <2>3. Inside' < Inside
    BY <1>b, <2>1, <2>2 DEF Inside
  <2> QED
    BY <1>1, <2>1, <2>3 DEF Woken
<1>7. CASE GetNowait
  <2>1. UNCHANGED <<ready, spans>> /\ Len(got) = 0 /\ Len(got') = 1 /\ queue # <<>>
    BY <1>7 DEF GetNowait, TypeInv, Control
  <2>2. Rank = 6 /\ Rank' = 3
    BY <1>7 DEF GetNowait, Rank
  <2>3. CASE putters = <<>>
    <3>1. queue' = Tail(queue) /\ UNCHANGED <<putters, closing>>
      BY <1>7, <2>3 DEF GetNowait
    <3>2. Len(queue') = Len(queue) - 1
      BY <1>a, <2>1, <3>1
    <3>3. Inside' = Inside - 3
      BY <1>b, <2>1, <2>2, <3>2 DEF Inside
    <3> QED
      BY <1>1, <1>b, <2>1, <3>1, <3>3 DEF Woken
  <2>4. CASE putters # <<>>
    <3>1. queue' = Append(Tail(queue), Stop) /\ putters' = Tail(putters)
      BY <1>7, <2>4 DEF GetNowait
    <3>2. Len(queue') = Len(queue) /\ Len(putters') = Len(putters) - 1
      BY <1>a, <2>1, <2>4, <3>1 DEF Item
    <3>3. Cardinality(Woken') = Cardinality(Woken) + 1
      BY <1>7, <2>4, WokenStep
    <3>4. Inside' = Inside + 7
      BY <1>b, <2>1, <2>2, <3>2 DEF Inside
    <3>5. Outside' = Outside - 11
      BY <1>b, <2>1, <3>2, <3>3 DEF Outside
    <3> QED
      BY <1>b, <3>4, <3>5 DEF Work
  <2> QED
    BY <2>3, <2>4
<1>8. CASE AwaitItem \/ ItemReady \/ BatchFull \/ SendPending \/ NothingToSubmit
  <2>1. UNCHANGED <<ready, putters, queue, got, spans, closing>>
    BY <1>8 DEF AwaitItem, ItemReady, BatchFull, SendPending, NothingToSubmit, queueVars
  <2>2. Rank' < Rank
    <3>1. CASE AwaitItem
      BY <3>1 DEF AwaitItem, Deadline, Rank
    <3>2. CASE ItemReady \/ BatchFull \/ SendPending
      BY <3>2 DEF ItemReady, BatchFull, SendPending, Rank
    <3>3. CASE NothingToSubmit
      BY <3>3 DEF NothingToSubmit, NextRound, HoldsSpans, Rank
    <3> QED
      BY <1>8, <3>1, <3>2, <3>3
  <2>3. Inside' < Inside
    BY <1>b, <1>c, <2>1, <2>2 DEF Inside
  <2> QED
    BY <1>1, <2>1, <2>3 DEF Woken
<1>9. CASE Receive
  <2>1. UNCHANGED <<ready, putters, queue>> /\ Len(got') = 0 /\ Rank = 3
    BY <1>9 DEF Receive, Rank
  <2>2. Woken' = Woken
    BY <1>9, ConsumerStages DEF Woken
  <2>3. \/ Len(got) \in {0, 1} /\ Len(spans') = Len(spans) /\ Rank' = 2
        \/ Len(got) = 1 /\ Len(spans') = Len(spans) + 1 /\ Rank' = 6
    <3>1. CASE got = <<>>
      BY <1>9, <3>1 DEF Receive, Rank
    <3>2. ASSUME NEW item \in Item, got = <<item>>, item = Stop PROVE Len(got) = 1 /\ spans' = spans /\ Rank' = 2
      BY <1>9, <3>2 DEF Receive, StopTaken, Rank
    <3>3. ASSUME NEW item \in Item, got = <<item>>, item # Stop PROVE Len(got) = 1 /\ Len(spans') = Len(spans) + 1 /\ Rank' = 6
      <4>1. item \in Span /\ spans' = Append(spans, item) /\ pc' = "filling"
        BY <1>9, <3>3 DEF Receive, Item
      <4> QED
        BY <1>a, <3>3, <4>1 DEF Rank
    <3> QED
      BY <3>1, <3>2, <3>3 DEF TypeInv, TypeOK, QueueType
  <2>4. Inside' < Inside
    <3>1. Len(queue') = Len(queue)
      BY <2>1
    <3>2. CASE Len(got) \in {0, 1} /\ Len(spans') = Len(spans) /\ Rank' = 2
      BY <1>b, <2>1, <3>1, <3>2 DEF Inside
    <3>3. CASE Len(got) = 1 /\ Len(spans') = Len(spans) + 1 /\ Rank' = 6
      BY <1>b, <2>1, <3>1, <3>3 DEF Inside
    <3> QED
      BY <2>3, <3>2, <3>3
  <2> QED
    BY <1>1, <2>1, <2>2, <2>4
<1>10. CASE Submit \/ SendEnds
  <2>1. UNCHANGED <<ready, putters, queue, got>> /\ Len(spans') = 0 /\ Rank' \in {0, 6}
    BY <1>10 DEF Submit, SendEnds, Submitted, ClearBatch, NextRound, Rank
  <2>2. Woken' = Woken
    BY <1>10, ConsumerStages DEF Woken
  <2>3. Len(spans) > 0 /\ Rank > 0
    BY <1>10, <1>a DEF Submit, SendEnds, HasSpans, Rank
  <2>4. Inside' < Inside
    BY <1>b, <2>1, <2>3 DEF Inside
  <2> QED
    BY <1>1, <2>1, <2>2, <2>4
<1> QED
  BY <1>3, <1>4, <1>5, <1>6, <1>7, <1>8, <1>9, <1>10 DEF LoopStep, RunCallback, Consume

\* With a batch size, the loop cannot go on for ever while the application leaves it alone, say
\* with timers that expire and batches that are empty: Work, a natural number, gets smaller
\* with each of its steps.
THEOREM LoopRunsDown == ASSUME BatchSize # 0 PROVE Spec => []WorkIsNat /\ WorkUsedUp
<1>1. TypeInv /\ RestInv /\ WokenFinite /\ [Next]_vars => WokenFinite'
  BY WokenStep DEF RestInv
<1>2. Init => WokenFinite
  BY FS_EmptySet DEF Init, WokenFinite, Woken
<1>3. TypeInv /\ WokenFinite => WorkIsNat
  BY WorkType DEF WorkIsNat, Work
<1>4. TypeInv /\ BufferInv /\ RestInv /\ WokenFinite /\ [Next]_vars => [LoopStep => Work' < Work]_vars
  BY StepWork DEF BufferInv
<1> QED
  BY <1>1, <1>2, <1>3, <1>4, RestInvariance, PTL DEF Spec, WorkUsedUp
=============================================================================
