----------------------------- MODULE SpanProofs -----------------------------
(***************************************************************************)
(* Theorems about Span: its types, the single report, the updates of the   *)
(* context that are kept, and the way of a finished span to the wire, for  *)
(* any number of threads and calls.                                        *)
(***************************************************************************)
EXTENDS Span, TLAPS

(* Types.  The Booleans stand apart from the numbers and the records. *)

ContextType ==
  /\ context \in Context /\ wanted \in Context /\ draft \in [Thread -> Context]
CountType ==
  /\ length \in [List -> Nat] /\ announced \in [List -> Nat] /\ written \in [List -> Nat]
  /\ calls \in 0 .. MaxCalls /\ reported \in Nat
ControlType ==
  /\ pc \in [Thread -> {"idle", "logging", "drafted", "installed", "finishing", "reporting"}]
  /\ stage \in {"none", "batched", "tags", "tagged", "logs", "sent"}
FlagType == finished \in BOOLEAN /\ overlapped \in BOOLEAN

LEMMA TypeParts == TypeOK <=> ContextType /\ CountType /\ ControlType /\ FlagType
BY DEF TypeOK, ContextType, CountType, ControlType, FlagType

LEMMA InitType == Init => TypeOK
<1> SUFFICES ASSUME Init PROVE ContextType /\ CountType /\ ControlType /\ FlagType
  BY TypeParts
<1>1. context \in Context
  BY DEF Init, Context
<1>2. ContextType
  BY <1>1 DEF Init, ContextType
<1>3. CountType
  BY SpanAssumption DEF Init, CountType
<1>4. ControlType
  BY DEF Init, ControlType
<1>5. FlagType
  BY DEF Init, FlagType
<1> QED
  BY <1>2, <1>3, <1>4, <1>5

LEMMA ContextUpdates ==
  ASSUME NEW ctx \in Context, NEW key \in Key, NEW present \in BOOLEAN
  PROVE  /\ WithBaggageItem(ctx, key, present) \in Context
         /\ [ctx EXCEPT !.baggage = IF present THEN @ \cup {key} ELSE @ \ {key}] \in Context
<1>1. ctx.flags \in SUBSET Flag /\ ctx.baggage \in SUBSET Key
  BY DEF Context
<1> QED
  BY <1>1 DEF Context, WithBaggageItem

LEMMA StepContext ==
  ASSUME TypeOK, [Next]_vars
  PROVE  ContextType'
<1> USE DEF ContextType
<1>1. ContextType
  BY TypeParts
<1>2. ASSUME NEW t \in Thread, NEW flags \in SUBSET Flag, SetFlags(t, flags), UNCHANGED draft
      PROVE  ContextType'
  <2>1. [context EXCEPT !.flags = flags] \in Context /\ [wanted EXCEPT !.flags = flags] \in Context
    BY <1>1 DEF Context
  <2> QED
    BY <1>1, <1>2, <2>1 DEF SetFlags
<1>3. ASSUME NEW t \in Thread, Unsample(t) \/ MakeDebug(t) PROVE ContextType'
  <2>1. context.flags \ Flag \in SUBSET Flag /\ context.flags \cup Flag \in SUBSET Flag
    BY <1>1 DEF Context
  <2> QED
    BY <1>2, <1>3, <2>1 DEF Unsample, MakeDebug
<1>4. ASSUME NEW t \in Thread, NEW key \in Key, NEW present \in BOOLEAN, SetBaggageItem(t, key, present)
      PROVE  ContextType'
  BY <1>1, <1>4, ContextUpdates DEF SetBaggageItem
<1>5. ASSUME NEW t \in Thread, InstallContext(t) PROVE ContextType'
  BY <1>1, <1>5 DEF InstallContext, historyVars
<1>6. ASSUME NEW t \in Thread,
             \/ SetTag(t) \/ LogKv(t) \/ Finish(t) \/ AppendLog(t)
             \/ LogBaggage(t) \/ FinishOnce(t) \/ Report(t)
      PROVE  ContextType'
  BY <1>1, <1>6 DEF SetTag, LogKv, Finish, AppendLog, LogBaggage, FinishOnce, Report, historyVars
<1>7. CASE Send \/ UNCHANGED vars
  BY <1>1, <1>7 DEF Send, MakeBatch, WriteLength, WriteElements, vars, historyVars
<1> QED
  BY <1>3, <1>4, <1>5, <1>6, <1>7 DEF Next, Start, Continue

LEMMA StepCounts ==
  ASSUME TypeOK, [Next]_vars
  PROVE  CountType'
<1> USE DEF CountType, List
<1>1. CountType
  BY TypeParts
<1>2. ASSUME NEW t \in Thread, Call(t) PROVE calls' \in 0 .. MaxCalls
  BY <1>1, <1>2, SpanAssumption DEF Call
<1>3. ASSUME NEW l \in List, Extend(l) PROVE length' \in [List -> Nat]
  BY <1>1, <1>3 DEF Extend
<1>4. ASSUME NEW t \in Thread, SetTag(t) \/ MakeDebug(t) PROVE CountType'
  BY <1>1, <1>2, <1>3, <1>4 DEF SetTag, MakeDebug, wireVars
<1>5. ASSUME NEW t \in Thread, LogKv(t) \/ Finish(t) \/ Unsample(t) PROVE CountType'
  BY <1>1, <1>2, <1>5 DEF LogKv, Finish, Unsample, wireVars
<1>6. ASSUME NEW t \in Thread, NEW key \in Key, NEW present \in BOOLEAN, SetBaggageItem(t, key, present)
      PROVE  CountType'
  BY <1>1, <1>2, <1>6 DEF SetBaggageItem, wireVars
<1>7. ASSUME NEW t \in Thread, AppendLog(t) PROVE CountType'
  BY <1>1, <1>3, <1>7 DEF AppendLog, wireVars
<1>8. ASSUME NEW t \in Thread, InstallContext(t) \/ LogBaggage(t) \/ FinishOnce(t) \/ Report(t)
      PROVE  CountType'
  BY <1>1, <1>8 DEF InstallContext, LogBaggage, FinishOnce, Report, ReportSpan, wireVars
<1>9. ASSUME NEW l \in List, NEW from, NEW to, WriteLength(l, from, to) \/ WriteElements(l, from, to)
      PROVE  CountType'
  BY <1>1, <1>9 DEF WriteLength, WriteElements
<1>10. CASE MakeBatch \/ UNCHANGED vars
  BY <1>1, <1>10 DEF MakeBatch, vars, wireVars
<1>11. CASE Send
  BY <1>9, <1>10, <1>11 DEF Send
<1> QED
  BY <1>4, <1>5, <1>6, <1>7, <1>8, <1>10, <1>11 DEF Next, Start, Continue

LEMMA StepControl ==
  ASSUME TypeOK, [Next]_vars
  PROVE  ControlType'
<1> USE DEF ControlType
<1>1. ControlType
  BY TypeParts
<1>2. ASSUME NEW t \in Thread, SetTag(t) \/ Unsample(t) \/ MakeDebug(t) PROVE ControlType'
  BY <1>1, <1>2 DEF SetTag, Unsample, MakeDebug, wireVars
<1>3. ASSUME NEW t \in Thread, LogKv(t) \/ Finish(t) \/ AppendLog(t) \/ InstallContext(t) PROVE ControlType'
  BY <1>1, <1>3 DEF LogKv, Finish, AppendLog, InstallContext, Goto, wireVars
<1>4. ASSUME NEW t \in Thread, LogBaggage(t) \/ FinishOnce(t) \/ Report(t) PROVE ControlType'
  BY <1>1, <1>4 DEF LogBaggage, FinishOnce, Report, Goto, wireVars
<1>5. ASSUME NEW t \in Thread, NEW key \in Key, NEW present \in BOOLEAN, SetBaggageItem(t, key, present)
      PROVE  ControlType'
  BY <1>1, <1>5 DEF SetBaggageItem, Goto, wireVars
<1>6. CASE Send \/ UNCHANGED vars
  BY <1>1, <1>6 DEF Send, MakeBatch, WriteLength, WriteElements, vars, wireVars
<1> QED
  BY <1>2, <1>3, <1>4, <1>5, <1>6 DEF Next, Start, Continue

LEMMA StepFlags ==
  ASSUME TypeOK, [Next]_vars
  PROVE  FlagType'
<1> USE DEF FlagType
<1>1. FlagType
  BY TypeParts
<1>2. ASSUME NEW t \in Thread PROVE Drafting(t) \in BOOLEAN
  BY DEF Drafting
<1>3. ASSUME NEW t \in Thread, Unsample(t) \/ MakeDebug(t) PROVE FlagType'
  BY <1>1, <1>2, <1>3 DEF Unsample, MakeDebug, SetFlags
<1>4. ASSUME NEW t \in Thread, NEW key \in Key, NEW present \in BOOLEAN, SetBaggageItem(t, key, present)
      PROVE  FlagType'
  BY <1>1, <1>2, <1>4 DEF SetBaggageItem
<1>5. ASSUME NEW t \in Thread, FinishOnce(t) PROVE FlagType'
  BY <1>1, <1>5 DEF FinishOnce, MarkFinished, historyVars
<1>6. ASSUME NEW t \in Thread,
             \/ SetTag(t) \/ LogKv(t) \/ Finish(t) \/ AppendLog(t)
             \/ InstallContext(t) \/ LogBaggage(t) \/ Report(t)
      PROVE  FlagType'
  BY <1>1, <1>6 DEF SetTag, LogKv, Finish, AppendLog, InstallContext, LogBaggage, Report, historyVars
<1>7. CASE Send \/ UNCHANGED vars
  BY <1>1, <1>7 DEF Send, MakeBatch, WriteLength, WriteElements, vars, historyVars
<1> QED
  BY <1>3, <1>4, <1>5, <1>6, <1>7 DEF Next, Start, Continue

\* Type correctness.
THEOREM TypeCorrect == Spec => []TypeOK
<1>1. TypeOK /\ [Next]_vars => TypeOK'
  BY StepContext, StepCounts, StepControl, StepFlags
     DEF TypeOK, ContextType, CountType, ControlType, FlagType
<1> QED
  BY InitType, <1>1, PTL DEF Spec

-----------------------------------------------------------------------------
(* The single report. *)

\* The thread that set the finished flag is the only one that reports, and does so once.
ReportInv ==
  /\ ~finished => reported = 0 /\ \A t \in Thread : pc[t] # "reporting"
  /\ reported = 0 \/ (reported = 1 /\ \A t \in Thread : pc[t] # "reporting")
  /\ \A t, u \in Thread : pc[t] = "reporting" /\ pc[u] = "reporting" => t = u

LEMMA StepReport ==
  ASSUME TypeOK, ReportInv, [Next]_vars
  PROVE  ReportInv'
<1> USE DEF ReportInv
<1>1. ControlType
  BY TypeParts
<1>2. ASSUME NEW t \in Thread, FinishOnce(t) PROVE ReportInv'
  <2>1. CASE finished
    BY <1>1, <1>2, <2>1 DEF FinishOnce, Goto, ControlType
  <2>2. CASE ~finished
    BY <1>1, <1>2, <2>2 DEF FinishOnce, MarkFinished, Goto, ControlType
  <2> QED
    BY <2>1, <2>2
<1>3. ASSUME NEW t \in Thread, Report(t) PROVE ReportInv'
  <2>1. reported = 0 /\ finished
    BY <1>3 DEF Report
  <2>2. reported' = 1 /\ finished' = finished
    BY <1>3, <2>1 DEF Report, ReportSpan
  <2>3. \A u \in Thread : pc'[u] # "reporting"
    BY <1>1, <1>3 DEF Report, Goto, ControlType
  <2> QED
    BY <2>1, <2>2, <2>3
<1>4. ASSUME NEW t \in Thread, LogKv(t) \/ Finish(t) \/ AppendLog(t) \/ InstallContext(t) \/ LogBaggage(t)
      PROVE  ReportInv'
  BY <1>1, <1>4 DEF LogKv, Finish, AppendLog, InstallContext, LogBaggage, Goto, ControlType
<1>5. ASSUME NEW t \in Thread, NEW key \in Key, NEW present \in BOOLEAN, SetBaggageItem(t, key, present)
      PROVE  ReportInv'
  BY <1>1, <1>5 DEF SetBaggageItem, Goto, ControlType
<1>6. ASSUME NEW t \in Thread, SetTag(t) \/ Unsample(t) \/ MakeDebug(t) PROVE ReportInv'
  BY <1>6 DEF SetTag, Unsample, MakeDebug
<1>7. CASE Send \/ UNCHANGED vars
  BY <1>7 DEF Send, MakeBatch, WriteLength, WriteElements, vars
<1> QED
  BY <1>2, <1>3, <1>4, <1>5, <1>6, <1>7 DEF Next, Start, Continue

\* However many threads finish the span, and whatever they do to its flags, it is reported once.
THEOREM ReportsOnce == Spec => []ReportedOnce
<1>1. Init => ReportInv
  BY DEF Init, ReportInv
<1>2. Spec => []ReportInv
  BY <1>1, TypeCorrect, StepReport, PTL DEF Spec
<1>3. ReportInv => ReportedOnce
  BY DEF ReportInv, ReportedOnce
<1> QED
  BY <1>2, <1>3, PTL

-----------------------------------------------------------------------------
(* The updates of the context. *)

\* As long as updates have not overlapped, at most one context waits to be installed and it
\* carries every update; when none does, the installed one carries them.
UpdateInv ==
  ~overlapped =>
    /\ \A t, u \in Thread : pc[t] = "drafted" /\ pc[u] = "drafted" => t = u
    /\ \A t \in Thread : pc[t] = "drafted" => draft[t] = wanted
    /\ (\A t \in Thread : pc[t] # "drafted") => context = wanted

\* Steps that leave the contexts alone, and every thread outside of set_baggage_item's gap.
LEMMA OtherUpdates ==
  ASSUME UpdateInv, UNCHANGED <<context, draft, wanted, overlapped>>,
         \A t \in Thread : pc[t] = "drafted" <=> pc'[t] = "drafted"
  PROVE  UpdateInv'
BY DEF UpdateInv

LEMMA StepUpdate ==
  ASSUME TypeOK, UpdateInv, [Next]_vars
  PROVE  UpdateInv'
<1>1. ContextType /\ ControlType
  BY TypeParts
<1>2. ASSUME NEW t \in Thread, NEW flags \in SUBSET Flag, Call(t), SetFlags(t, flags), UNCHANGED <<pc, draft>>
      PROVE  UpdateInv'
  <2> SUFFICES ASSUME ~overlapped' PROVE UpdateInv'
    BY DEF UpdateInv
  <2>1. ~overlapped /\ \A u \in Thread : pc[u] # "drafted"
    BY <1>2 DEF SetFlags, Drafting, Call
  <2>2. context = wanted
    BY <2>1 DEF UpdateInv
  <2>3. context' = wanted'
    BY <1>2, <2>2 DEF SetFlags
  <2> QED
    BY <1>2, <2>1, <2>3 DEF UpdateInv
<1>3. ASSUME NEW t \in Thread, Unsample(t) \/ MakeDebug(t) PROVE UpdateInv'
  <2>1. context.flags \ Flag \in SUBSET Flag /\ context.flags \cup Flag \in SUBSET Flag
    BY <1>1 DEF ContextType, Context
  <2> QED
    BY <1>2, <1>3, <2>1 DEF Unsample, MakeDebug
<1>4. ASSUME NEW t \in Thread, NEW key \in Key, NEW present \in BOOLEAN, SetBaggageItem(t, key, present)
      PROVE  UpdateInv'
  <2> SUFFICES ASSUME ~overlapped' PROVE UpdateInv'
    BY DEF UpdateInv
  <2>1. ~overlapped /\ \A u \in Thread : pc[u] # "drafted"
    BY <1>4 DEF SetBaggageItem, Drafting, Call
  <2>2. context = wanted /\ context \in Context
    BY <1>1, <2>1 DEF UpdateInv, ContextType
  <2>3. draft'[t] = WithBaggageItem(wanted, key, present)
    BY <1>1, <1>4, <2>2 DEF SetBaggageItem, ContextType
  <2>4. wanted' = WithBaggageItem(wanted, key, present)
    BY <1>4, <2>2 DEF SetBaggageItem, WithBaggageItem, Context
  <2>5. \A u \in Thread : pc'[u] = "drafted" <=> u = t
    BY <1>1, <1>4, <2>1 DEF SetBaggageItem, Goto, ControlType
  <2> QED
    BY <2>3, <2>4, <2>5 DEF UpdateInv
<1>5. ASSUME NEW t \in Thread, InstallContext(t) PROVE UpdateInv'
  <2> SUFFICES ASSUME ~overlapped' PROVE UpdateInv'
    BY DEF UpdateInv
  <2>1. ~overlapped /\ pc[t] = "drafted" /\ wanted' = wanted /\ context' = draft[t]
    BY <1>5 DEF InstallContext, historyVars
  <2>2. context' = wanted'
    BY <2>1 DEF UpdateInv
  <2>3. \A u \in Thread : pc'[u] # "drafted"
    BY <1>1, <1>5, <2>1 DEF UpdateInv, InstallContext, Goto, ControlType
  <2> QED
    BY <2>2, <2>3 DEF UpdateInv
<1>6. ASSUME NEW t \in Thread,
             \/ LogKv(t) \/ Finish(t) \/ AppendLog(t)
             \/ LogBaggage(t) \/ FinishOnce(t) \/ Report(t)
      PROVE  UpdateInv'
  <2>1. UNCHANGED <<context, draft, wanted, overlapped>>
    BY <1>6 DEF LogKv, Finish, AppendLog, LogBaggage, FinishOnce, Report, historyVars
  <2>2. \A u \in Thread : pc[u] = "drafted" <=> pc'[u] = "drafted"
    BY <1>1, <1>6 DEF LogKv, Finish, AppendLog, LogBaggage, FinishOnce, Report, Call, Goto, ControlType
  <2> QED
    BY <2>1, <2>2, OtherUpdates
<1>7. ASSUME \/ \E t \in Thread : SetTag(t)
             \/ Send
             \/ UNCHANGED vars
      PROVE  UpdateInv'
  <2>1. UNCHANGED <<context, draft, wanted, overlapped, pc>>
    BY <1>7 DEF SetTag, Send, MakeBatch, WriteLength, WriteElements, vars, historyVars
  <2> QED
    BY <2>1, OtherUpdates
<1> QED
  BY <1>3, <1>4, <1>5, <1>6, <1>7 DEF Next, Start, Continue

\* Updates of the context that do not overlap are all kept.
THEOREM QuietUpdates == Spec => []QuietUpdatesKept
<1>1. Init => UpdateInv
  BY DEF Init, UpdateInv
<1>2. Spec => []UpdateInv
  BY <1>1, TypeCorrect, StepUpdate, PTL DEF Spec
<1>3. UpdateInv => QuietUpdatesKept
  BY DEF UpdateInv, QuietUpdatesKept
<1> QED
  BY <1>2, <1>3, PTL

-----------------------------------------------------------------------------
(* The way from finish() to the wire. *)

\* No call goes on, and the loop thread has nothing to serialize.
AtRest ==
  /\ \A t \in Thread : pc[t] = "idle"
  /\ stage = "sent" \/ (stage = "none" /\ reported = 0)

\* A finished span is sent by then.
FinishedIsSent == finished /\ AtRest => stage = "sent"

\* A call of finish() that is about to take the lock leaves the span finished.
FinishMarks == [][\A t \in Thread : pc[t] = "finishing" => pc'[t] = "finishing" \/ finished']_vars

\* How many steps a call has still to go, at most; none takes it back.
StepsLeft(where) ==
  CASE where = "idle" -> 0
    [] where \in {"logging", "reporting"} -> 1
    [] where \in {"installed", "finishing"} -> 2
    [] where = "drafted" -> 3
CallsEnd ==
  [][\A t \in Thread : pc'[t] = pc[t] \/ pc[t] = "idle" \/ StepsLeft(pc'[t]) < StepsLeft(pc[t])]_vars

\* The thread that set the finished flag has reported the span, or is about to.
FinishInv == finished => reported > 0 \/ \E t \in Thread : pc[t] = "reporting"

LEMMA StepFinish ==
  ASSUME TypeOK, FinishInv, [Next]_vars
  PROVE  FinishInv'
<1> USE DEF FinishInv
<1>1. ControlType /\ reported \in Nat
  BY TypeParts DEF CountType
<1>2. ASSUME NEW t \in Thread, FinishOnce(t) PROVE FinishInv'
  <2>1. CASE finished
    BY <1>1, <1>2, <2>1 DEF FinishOnce, Goto, ControlType
  <2>2. CASE ~finished
    BY <1>1, <1>2, <2>2 DEF FinishOnce, Goto, ControlType
  <2> QED
    BY <2>1, <2>2
<1>3. ASSUME NEW t \in Thread, Report(t) PROVE FinishInv'
  BY <1>1, <1>3 DEF Report, ReportSpan
<1>4. ASSUME NEW t \in Thread, LogKv(t) \/ Finish(t) \/ AppendLog(t) \/ InstallContext(t) \/ LogBaggage(t)
      PROVE  FinishInv'
  BY <1>1, <1>4 DEF LogKv, Finish, AppendLog, InstallContext, LogBaggage, Goto, ControlType, Call
<1>5. ASSUME NEW t \in Thread, NEW key \in Key, NEW present \in BOOLEAN, SetBaggageItem(t, key, present)
      PROVE  FinishInv'
  BY <1>1, <1>5 DEF SetBaggageItem, Goto, ControlType, Call
<1>6. ASSUME NEW t \in Thread, SetTag(t) \/ Unsample(t) \/ MakeDebug(t) PROVE FinishInv'
  BY <1>6 DEF SetTag, Unsample, MakeDebug
<1>7. CASE Send \/ UNCHANGED vars
  BY <1>7 DEF Send, MakeBatch, WriteLength, WriteElements, vars
<1> QED
  BY <1>2, <1>3, <1>4, <1>5, <1>6, <1>7 DEF Next, Start, Continue

\* Where a call's step leads.
LEMMA CallSteps ==
  ASSUME TypeOK, Next, NEW u \in Thread
  PROVE  /\ pc[u] = "finishing" => pc'[u] = "finishing" \/ finished'
         /\ pc'[u] = pc[u] \/ pc[u] = "idle" \/ StepsLeft(pc'[u]) < StepsLeft(pc[u])
<1>1. ControlType
  BY TypeParts
<1>2. ASSUME NEW t \in Thread, Start(t)
      PROVE  pc'[u] = pc[u] \/ pc[u] = "idle"
  BY <1>1, <1>2 DEF Start, Call, SetTag, LogKv, Unsample, MakeDebug, Finish, SetBaggageItem, Goto, ControlType
<1>3. ASSUME NEW t \in Thread, AppendLog(t) \/ InstallContext(t) \/ LogBaggage(t) \/ Report(t)
      PROVE  pc'[u] = pc[u] \/ (pc[u] # "finishing" /\ StepsLeft(pc'[u]) < StepsLeft(pc[u]))
  BY <1>1, <1>3 DEF AppendLog, InstallContext, LogBaggage, Report, Goto, ControlType, StepsLeft
<1>4. ASSUME NEW t \in Thread, FinishOnce(t)
      PROVE  pc'[u] = pc[u] \/ (finished' /\ StepsLeft(pc'[u]) < StepsLeft(pc[u]))
  BY <1>1, <1>4 DEF FinishOnce, MarkFinished, Goto, ControlType, StepsLeft
<1>5. CASE Send
  BY <1>5 DEF Send, MakeBatch, WriteLength, WriteElements
<1>6. PICK t \in Thread : Start(t) \/ Continue(t) \/ Send
  BY DEF Next
<1>7. CASE Start(t)
  BY <1>2, <1>7
<1>8. CASE Continue(t)
  BY <1>3, <1>4, <1>8 DEF Continue
<1> QED
  BY <1>5, <1>6, <1>7, <1>8

\* A finish() that found the span sampled leaves it finished, each call ends after at most three
\* steps of its own, and when all have ended and the loop thread has nothing left to do, a span
\* that is finished was sent, whatever became of its sampling priority meanwhile: what remains
\* of FinishSends is that threads run.
THEOREM FinishReachesTheWire == Spec => []FinishedIsSent /\ FinishMarks /\ CallsEnd
<1>1. Init => FinishInv
  BY DEF Init, FinishInv
<1>2. Spec => []FinishInv
  BY <1>1, TypeCorrect, StepFinish, PTL DEF Spec
<1>3. TypeOK /\ FinishInv => FinishedIsSent
  BY DEF TypeOK, FinishInv, FinishedIsSent, AtRest
<1>4. TypeOK /\ [Next]_vars =>
        /\ [\A t \in Thread : pc[t] = "finishing" => pc'[t] = "finishing" \/ finished']_vars
        /\ [\A t \in Thread : pc'[t] = pc[t] \/ pc[t] = "idle" \/ StepsLeft(pc'[t]) < StepsLeft(pc[t])]_vars
  BY CallSteps
<1> QED
  BY <1>2, <1>3, <1>4, TypeCorrect, PTL DEF Spec, FinishMarks, CallsEnd
-----------------------------------------------------------------------------
(* Tags that come in time. *)

\* "If any tags / logs need to be added to the span, it should be done before calling finish()".
AddsInTime == [][reported > 0 => length' = length]_length

\* What is written of a list that no longer grows.
WrittenInv ==
  /\ stage # "none" => reported > 0
  /\ stage \in {"tags", "tagged", "logs", "sent"} => announced["tags"] = length["tags"]
  /\ stage \in {"tagged", "logs", "sent"} => written["tags"] = length["tags"]
  /\ stage \in {"logs", "sent"} => announced["logs"] = length["logs"]
  /\ stage = "sent" => written["logs"] = length["logs"]

LEMMA StepWritten ==
  ASSUME TypeOK, WrittenInv, [Next]_vars, [reported > 0 => length' = length]_length
  PROVE  WrittenInv'
<1> USE DEF WrittenInv
<1>1. CountType /\ ControlType
  BY TypeParts
<1>2. ASSUME UNCHANGED wireVars, reported' \in {reported, reported + 1} PROVE WrittenInv'
  <2>1. CASE stage = "none"
    BY <1>2, <2>1 DEF wireVars
  <2>2. CASE stage # "none"
    <3>1. stage' = stage /\ announced' = announced /\ written' = written
      BY <1>2 DEF wireVars
    <3>2. reported > 0
      BY <2>2
    <3>3. length' = length
      BY <3>2
    <3>4. reported' > 0
      BY ONLY <1>1, <1>2, <3>2, CountType DEF CountType
    <3>5. WrittenInv
      OBVIOUS
    <3> QED
      BY ONLY <3>1, <3>3, <3>4, <3>5 DEF WrittenInv
  <2> QED
    BY <2>1, <2>2
<1>3. ASSUME NEW t \in Thread, Start(t) \/ Continue(t) PROVE UNCHANGED wireVars /\ reported' \in {reported, reported + 1}
  BY <1>1, <1>3 DEF Start, Continue, SetTag, LogKv, Unsample, MakeDebug, Finish, SetBaggageItem, AppendLog, InstallContext,
     LogBaggage, FinishOnce, Report, ReportSpan, wireVars, CountType
<1>4. CASE MakeBatch
  BY <1>4 DEF MakeBatch
<1>5. CASE WriteLength("tags", "batched", "tags") \/ WriteLength("logs", "tagged", "logs")
  BY <1>1, <1>5 DEF WriteLength, CountType, List
<1>6. CASE WriteElements("tags", "tags", "tagged") \/ WriteElements("logs", "logs", "sent")
  BY <1>1, <1>6 DEF WriteElements, CountType, List
<1>7. CASE UNCHANGED vars
  BY <1>1, <1>2, <1>7 DEF vars, CountType
<1> QED
  BY <1>2, <1>3, <1>4, <1>5, <1>6, <1>7 DEF Next, Send

\* What is sent is malformed over a late tag or log only: as long as the application adds none once
\* the span was reported, every list has the elements that were announced.
THEOREM EarlyTagsAreWellFormed == Spec /\ AddsInTime => []SentWellFormed
<1>1. Init => WrittenInv
  BY DEF Init, WrittenInv
<1>2. TypeOK /\ WrittenInv /\ [Next]_vars /\ [reported > 0 => length' = length]_length => WrittenInv'
  BY StepWritten
<1>3. TypeOK /\ WrittenInv => SentWellFormed
  BY DEF TypeOK, WrittenInv, SentWellFormed, List
<1> QED
  BY <1>1, <1>2, <1>3, TypeCorrect, PTL DEF Spec, AddsInTime
=============================================================================
