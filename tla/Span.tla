-------------------------------- MODULE Span --------------------------------
(***************************************************************************)
(* jaeger_client.span.Span: one span that several threads tag, log to,     *)
(* give baggage and finish, and that the reporter's loop thread then turns *)
(* into thrift (thrift.make_jaeger_batch) and serializes.                  *)
(*                                                                         *)
(* A section under self.update_lock is one action: what it changes is      *)
(* changed by one assignment.  What a method reads before the lock, or     *)
(* does after it, is an action of its own.  The batch holds the span's own *)
(* lists of tags and logs, so they are serialized as they are then: their  *)
(* length first, their elements after it.  (The reporter may also drop the *)
(* span; that is the subject of module Reporter.)                          *)
(***************************************************************************)
EXTENDS Integers

CONSTANTS
  Thread,
  Key,       \* baggage keys
  MaxCalls   \* bound: calls of the span's methods

ASSUME SpanAssumption == MaxCalls \in Nat

Flag == {"sampled", "debug"}
List == {"tags", "logs"}

VARIABLES
  context,    \* self._context: its flags, and the keys of its baggage
  length,     \* the lengths of self.tags and self.logs
  finished,   \* self.finished
  pc,         \* where the call of each thread is
  draft,      \* new_context in the set_baggage_item of each thread
  calls,      \* the number of calls so far
  reported,   \* how often the span was handed to the reporter
  stage,      \* how far its serialization is
  announced,  \* the list lengths written ahead of the elements
  written,    \* the elements written
  wanted,     \* history: the context, had every update seen the one before it
  overlapped  \* history: was there an update during a set_baggage_item of another thread?

historyVars == <<wanted, overlapped>>
wireVars    == <<stage, announced, written>>
vars == <<context, length, finished, pc, draft, calls, reported, wireVars, historyVars>>

Init ==
  /\ context \in [flags : SUBSET Flag, baggage : {{}}]
  /\ length = [l \in List |-> 0] /\ finished = FALSE
  /\ pc = [t \in Thread |-> "idle"] /\ draft = [t \in Thread |-> context]
  /\ calls = 0 /\ reported = 0
  /\ stage = "none" /\ announced = [l \in List |-> 0] /\ written = [l \in List |-> 0]
  /\ wanted = context /\ overlapped = FALSE

Sampled == "sampled" \in context.flags
Debug   == "debug" \in context.flags

Call(t) == pc[t] = "idle" /\ calls < MaxCalls /\ calls' = calls + 1
Goto(t, where) == pc' = [pc EXCEPT ![t] = where]

\* Another thread has derived a context that it has not installed.
Drafting(t) == \E u \in Thread \ {t} : pc[u] = "drafted"

-----------------------------------------------------------------------------
(* Tags and logs. *)

Extend(list) == length' = [length EXCEPT ![list] = @ + 1]

SetTag(t) ==
  /\ Call(t) /\ Sampled
  /\ Extend("tags")
  /\ UNCHANGED <<context, finished, pc, draft, reported, wireVars, historyVars>>

\* log_kv looks at the flags before it takes the lock.
LogKv(t) ==
  /\ Call(t) /\ Sampled
  /\ Goto(t, "logging")
  /\ UNCHANGED <<context, length, finished, draft, reported, wireVars, historyVars>>

AppendLog(t) ==
  /\ pc[t] = "logging"
  /\ Extend("logs")
  /\ Goto(t, "idle")
  /\ UNCHANGED <<context, finished, draft, calls, reported, wireVars, historyVars>>

-----------------------------------------------------------------------------
(* The sampling priority. *)

SetFlags(t, flags) ==
  /\ context' = [context EXCEPT !.flags = flags]
  /\ wanted' = [wanted EXCEPT !.flags = flags]
  /\ overlapped' = (overlapped \/ Drafting(t))

\* set_tag("sampling.priority", 0): no tag is added.
Unsample(t) ==
  /\ Call(t)
  /\ SetFlags(t, context.flags \ Flag)
  /\ UNCHANGED <<length, finished, pc, draft, reported, wireVars>>

\* set_tag("sampling.priority", n) with n # 0, when the throttler allows a debug span; otherwise,
\* and when the span is one already, the call does nothing.
MakeDebug(t) ==
  /\ Call(t) /\ ~Debug
  /\ SetFlags(t, context.flags \cup Flag)
  /\ Extend("tags")
  /\ UNCHANGED <<finished, pc, draft, reported, wireVars>>

-----------------------------------------------------------------------------
(* Baggage. *)

\* Mutant: the new context starts with no flags.
WithBaggageItem_NoFlags(ctx, key, present) ==
  [flags |-> {}, baggage |-> IF present THEN ctx.baggage \cup {key} ELSE ctx.baggage \ {key}]

WithBaggageItem(ctx, key, present) ==
  [flags |-> ctx.flags, baggage |-> IF present THEN ctx.baggage \cup {key} ELSE ctx.baggage \ {key}]

\* set_baggage_item up to the lock; a value of None removes the item.
SetBaggageItem(t, key, present) ==
  /\ Call(t)
  /\ draft' = [draft EXCEPT ![t] = WithBaggageItem(context, key, present)]
  /\ wanted' = [wanted EXCEPT !.baggage = IF present THEN @ \cup {key} ELSE @ \ {key}]
  /\ overlapped' = (overlapped \/ Drafting(t))
  /\ Goto(t, "drafted")
  /\ UNCHANGED <<context, length, finished, reported, wireVars>>

InstallContext(t) ==
  /\ pc[t] = "drafted"
  /\ context' = draft[t]
  /\ Goto(t, "installed")
  /\ UNCHANGED <<length, finished, draft, calls, reported, wireVars, historyVars>>

\* The rest of set_baggage_item: a log, if the span is still sampled.
LogBaggage(t) ==
  /\ pc[t] = "installed"
  /\ \/ Sampled /\ Goto(t, "logging")
     \/ ~Sampled /\ Goto(t, "idle")
  /\ UNCHANGED <<context, length, finished, draft, calls, reported, wireVars, historyVars>>

-----------------------------------------------------------------------------
(* finish *)

\* The span is not sampled: the call does nothing.  Else the lock comes next.
Finish(t) ==
  /\ Call(t) /\ Sampled
  /\ Goto(t, "finishing")
  /\ UNCHANGED <<context, length, finished, draft, reported, wireVars, historyVars>>

\* Mutant: the flag is set when the span was reported, outside the lock.
MarkFinished_Late == UNCHANGED finished

MarkFinished == finished' = TRUE

\* Under the lock: the first call goes on to report the span, the others return.
FinishOnce(t) ==
  /\ pc[t] = "finishing"
  /\ \/ finished /\ Goto(t, "idle") /\ UNCHANGED finished
     \/ ~finished /\ Goto(t, "reporting") /\ MarkFinished
  /\ UNCHANGED <<context, length, draft, calls, reported, wireVars, historyVars>>

\* Mutant: a span whose sampling was switched off meanwhile is not reported.
ReportSpan_IfSampled == reported' = IF Sampled THEN reported + 1 ELSE reported

ReportSpan == reported' = reported + 1

Report(t) ==
  /\ pc[t] = "reporting"
  /\ ReportSpan
  /\ Goto(t, "idle")
  /\ UNCHANGED <<context, length, finished, draft, calls, wireVars, historyVars>>

-----------------------------------------------------------------------------
(* The loop thread serializes the span. *)

WriteLength(list, from, to) ==
  /\ stage = from /\ stage' = to
  /\ announced' = [announced EXCEPT ![list] = length[list]]
  /\ UNCHANGED <<context, length, finished, pc, draft, calls, reported, written, historyVars>>

\* The iteration ends at the end the list has then.
WriteElements(list, from, to) ==
  /\ stage = from /\ stage' = to
  /\ written' = [written EXCEPT ![list] = length[list]]
  /\ UNCHANGED <<context, length, finished, pc, draft, calls, reported, announced, historyVars>>

\* make_jaeger_batch: the batch shares the lists with the span.
MakeBatch ==
  /\ stage = "none" /\ reported > 0
  /\ stage' = "batched"
  /\ UNCHANGED <<context, length, finished, pc, draft, calls, reported, announced, written, historyVars>>

Send ==
  \/ MakeBatch
  \/ WriteLength("tags", "batched", "tags") \/ WriteElements("tags", "tags", "tagged")
  \/ WriteLength("logs", "tagged", "logs")  \/ WriteElements("logs", "logs", "sent")

-----------------------------------------------------------------------------
Start(t) ==
  \/ SetTag(t) \/ LogKv(t) \/ Unsample(t) \/ MakeDebug(t) \/ Finish(t)
  \/ \E key \in Key, present \in BOOLEAN : SetBaggageItem(t, key, present)

Continue(t) == AppendLog(t) \/ InstallContext(t) \/ LogBaggage(t) \/ FinishOnce(t) \/ Report(t)

Next == (\E t \in Thread : Start(t) \/ Continue(t)) \/ Send

\* A thread that called a method runs it to its end, and the loop thread runs.
Fairness == (\A t \in Thread : WF_vars(Continue(t))) /\ WF_vars(Send)

Spec == Init /\ [][Next]_vars
FairSpec == Spec /\ Fairness
-----------------------------------------------------------------------------
(* Properties. *)

Context == [flags : SUBSET Flag, baggage : SUBSET Key]

\* Type invariant.
TypeOK ==
  /\ context \in Context /\ wanted \in Context /\ draft \in [Thread -> Context]
  /\ length \in [List -> Nat] /\ announced \in [List -> Nat] /\ written \in [List -> Nat]
  /\ finished \in BOOLEAN /\ overlapped \in BOOLEAN
  /\ pc \in [Thread -> {"idle", "logging", "drafted", "installed", "finishing", "reporting"}]
  /\ calls \in 0 .. MaxCalls /\ reported \in Nat
  /\ stage \in {"none", "batched", "tags", "tagged", "logs", "sent"}

\* "Span has already been finished; will not be reported again": not even when threads call
\* finish() at the same time, or while another one changes the sampling priority.
ReportedOnce == reported <= 1

\* A finish() that found the span sampled gets it reported and sent, by its own thread or by
\* the one that was first, whatever becomes of the sampling priority afterwards.
FinishSends == \A t \in Thread : pc[t] = "finishing" ~> stage = "sent"

\* set_baggage_item replaces the context by one it derived before the lock.  As long as no other
\* update falls in between, the context carries every update: baggage keeps the flags, and
\* the sampling priority keeps the baggage.
QuietUpdatesKept == ~overlapped /\ (\A t \in Thread : pc[t] # "drafted") => context = wanted

\* finish: "If any tags / logs need to be added to the span, it should be done before calling
\* finish(), otherwise they may be ignored": what is sent is well formed all the same, the
\* elements of a list as many as announced.
SentWellFormed == stage = "sent" => written = announced
=============================================================================
