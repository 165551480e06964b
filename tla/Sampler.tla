------------------------------ MODULE Sampler ------------------------------
(***************************************************************************)
(* jaeger_client.sampler.RemoteControlledSampler and the AdaptiveSampler,  *)
(* ProbabilisticSampler or RateLimitingSampler inside of it.  Application  *)
(* threads ask is_sampled for every root span; the loop thread polls the   *)
(* agent for a strategy, as the throttler does for credits, and applies    *)
(* the answers, whole or as far as they are valid.                         *)
(*                                                                         *)
(* All of that is done under self.lock.  An answer with strategies for     *)
(* operations is applied one strategy at a time, and an invalid one ends   *)
(* that with an exception: a job is an answer in the middle of it.  What   *)
(* a sampler decides of a trace is left out; RateLimiter models the lower  *)
(* bound that every operation has.                                         *)
(***************************************************************************)
EXTENDS Naturals, FiniteSets, Sequences

CONSTANTS
  Operation,
  NoSampler,       \* there is none for the operation
  MaxOperations,   \* self.max_operations
  Rate,            \* sampling rates, those that are no probabilities included
  ValidRate,       \* those in 0.0 .. 1.0
  InitRate,        \* DEFAULT_SAMPLING_PROBABILITY, or that of init_sampler
  Bound,           \* lower bounds and rate limits, negative ones included
  ValidBound,      \* those that are not
  Answer,          \* the answers with strategies for operations
  NoAnswer,
  MaxInFlight      \* bound: requests out at a time (a request ends after DEFAULT_TIMEOUT)

Strategy == [operation : Operation, rate : Rate]

ASSUME SamplerAssumption ==
  /\ MaxOperations \in Nat \ {0} /\ MaxInFlight \in Nat \ {0} /\ IsFiniteSet(Operation)
  /\ ValidRate \subseteq Rate /\ ValidBound \subseteq Bound /\ InitRate \in ValidRate
  /\ Answer \subseteq [strategies : Seq(Strategy), rate : Rate, lower : Bound]
  /\ NoAnswer \notin Answer /\ NoSampler \notin [rate : Rate, decides : Rate, tag : Rate, lower : Bound, limit : Bound]

VARIABLES
  kind,         \* the class of self.sampler
  rate,         \* its rate; of an AdaptiveSampler, default_sampling_probability
  defaultRate,  \* the rate of an AdaptiveSampler's default_sampler
  lower,        \* the lower_bound of an AdaptiveSampler, the limit of a RateLimitingSampler
  samplers,     \* the samplers of an AdaptiveSampler
  job,          \* the answer that is being applied
  applied,      \* how many of its strategies are
  creates,      \* is it applied to a new AdaptiveSampler?
  created,      \* the samplers of that one
  running,      \* self.running
  poll,         \* how far the first poll is: _init_polling, then _delayed_polling
  periodic,     \* self.periodic: "none", "started" or "stopped"
  tick,         \* has a tick of the periodic begun?
  inFlight,     \* the number of unanswered requests
  named,        \* history: the operations that answers named to this AdaptiveSampler
  force,        \* history: the last answer, if it was applied whole
  late          \* history: the number of requests sent after close()

adaptiveVars == <<defaultRate, lower, samplers>>
samplerVars  == <<kind, rate, adaptiveVars>>
jobVars      == <<job, applied, creates, created>>
pollVars     == <<running, poll, periodic, tick, inFlight, late>>
vars == <<samplerVars, jobVars, pollVars, named, force>>

Empty == [op \in Operation |-> NoSampler]

Init ==
  /\ kind = "probabilistic" /\ rate = InitRate /\ defaultRate = InitRate
  /\ lower \in ValidBound /\ samplers = Empty
  /\ job = NoAnswer /\ applied = 0 /\ creates = FALSE /\ created = Empty
  /\ running = TRUE /\ poll = "init" /\ periodic = "none" /\ tick = FALSE /\ inFlight = 0
  /\ named = {} /\ force = NoAnswer /\ late = 0

Unlocked == job = NoAnswer

-----------------------------------------------------------------------------
(* Application threads. *)

\* GuaranteedThroughputProbabilisticSampler(op, l, r), which asserts that both are valid.
Valid(r, l) == r \in ValidRate /\ l \in ValidBound
NewSampler(r, l) == [rate |-> r, decides |-> r, tag |-> r, lower |-> l, limit |-> l]

Known(s) == {op \in Operation : s[op] # NoSampler}

\* Mutant: one operation too many.
HasRoom_OffByOne == Cardinality(Known(samplers)) <= MaxOperations

HasRoom == Cardinality(Known(samplers)) < MaxOperations

\* is_sampled for an operation that is seen for the first time.
IsSampled(op) ==
  /\ Unlocked /\ kind = "adaptive" /\ samplers[op] = NoSampler /\ HasRoom
  /\ Valid(rate, lower)
  /\ samplers' = [samplers EXCEPT ![op] = NewSampler(rate, lower)]
  /\ UNCHANGED <<kind, rate, defaultRate, lower, jobVars, pollVars, named, force>>

Close ==
  /\ Unlocked
  /\ running' = FALSE
  /\ periodic' = IF periodic = "started" THEN "stopped" ELSE periodic
  /\ UNCHANGED <<samplerVars, jobVars, poll, tick, inFlight, named, force, late>>

-----------------------------------------------------------------------------
(* The loop thread: the polling. *)

\* No callback is in the middle of its work.
LoopFree == poll # "starting" /\ ~tick /\ Unlocked

InitPolling ==
  /\ LoopFree /\ poll = "init"
  /\ poll' = IF running THEN "delayed" ELSE "none"
  /\ UNCHANGED <<samplerVars, jobVars, running, periodic, tick, inFlight, named, force, late>>

\* _poll_sampling_manager, which does not look whether close() was called.
SendRequest ==
  /\ inFlight' = inFlight + 1
  /\ late' = IF running THEN late ELSE late + 1

DelayedPolling ==
  /\ LoopFree /\ poll = "delayed"
  /\ poll' = "starting"
  /\ SendRequest
  /\ UNCHANGED <<samplerVars, jobVars, running, periodic, tick, named, force>>

\* Mutant: the periodic is started without a look at self.running.
StartPeriodic_Always == periodic' = "started"

StartPeriodic == periodic' = IF running THEN "started" ELSE periodic

\* _delayed_polling after its request.
PollingStarts ==
  /\ poll = "starting" /\ Unlocked
  /\ poll' = "none"
  /\ StartPeriodic
  /\ UNCHANGED <<samplerVars, jobVars, running, tick, inFlight, named, force, late>>

\* Mutant: a timer that fires once.
TickBegins_Once ==
  /\ LoopFree /\ periodic = "started" /\ inFlight < MaxInFlight
  /\ tick' = TRUE /\ periodic' = "stopped"
  /\ UNCHANGED <<samplerVars, jobVars, running, poll, inFlight, named, force, late>>

\* A tick of the periodic; close() stops those that have not begun.
TickBegins ==
  /\ LoopFree /\ periodic = "started" /\ inFlight < MaxInFlight
  /\ tick' = TRUE
  /\ UNCHANGED <<samplerVars, jobVars, running, poll, periodic, inFlight, named, force, late>>

Tick ==
  /\ tick /\ tick' = FALSE
  /\ SendRequest
  /\ UNCHANGED <<samplerVars, jobVars, running, poll, periodic, named, force>>

RequestEnds ==
  /\ LoopFree /\ inFlight > 0
  /\ inFlight' = inFlight - 1
  /\ UNCHANGED <<running, poll, periodic, tick, late>>

\* An error, no JSON, an unsupported strategy, a rate or limit that is not valid: the
\* sampler stays as it is.
NoStrategy ==
  /\ RequestEnds
  /\ force' = NoAnswer
  /\ UNCHANGED <<samplerVars, jobVars, named>>

-----------------------------------------------------------------------------
(* The loop thread: one strategy for the whole service. *)

\* A sampler that is not adaptive replaces the current one or is updated; a
\* RateLimitingSampler has no rate, a ProbabilisticSampler no limit.
Install(k, r, l) ==
  /\ kind' = k /\ rate' = r /\ lower' = l
  /\ defaultRate' = r /\ samplers' = Empty /\ named' = {} /\ force' = NoAnswer
  /\ UNCHANGED jobVars

ServiceProbability(r) == RequestEnds /\ r \in ValidRate /\ Install("probabilistic", r, lower)

ServiceLimit(l) == RequestEnds /\ l \in ValidBound /\ Install("ratelimiting", InitRate, l)

-----------------------------------------------------------------------------
(* The loop thread: strategies for operations. *)

UpdateStarts(a) ==
  /\ RequestEnds
  /\ job' = a /\ applied' = 0
  /\ creates' = (kind # "adaptive") /\ created' = Empty
  /\ force' = NoAnswer
  /\ UNCHANGED <<samplerVars, named>>

\* The strategy that is applied next.
Pending == job # NoAnswer /\ applied < Len(job.strategies)
Current == job.strategies[applied + 1]

Applied == applied' = applied + 1 /\ UNCHANGED <<job, creates, pollVars, force>>

\* The job is over; after an exception, the answer is not in force.
Done(answer) ==
  /\ job' = NoAnswer /\ applied' = 0 /\ creates' = FALSE /\ created' = Empty
  /\ force' = answer
  /\ UNCHANGED pollVars

\* AdaptiveSampler.__init__, one strategy.
CreateSampler ==
  /\ Pending /\ creates /\ Valid(Current.rate, job.lower)
  /\ created' = [created EXCEPT ![Current.operation] = NewSampler(Current.rate, job.lower)]
  /\ Applied
  /\ UNCHANGED <<samplerVars, named>>

\* An exception in it: the AdaptiveSampler is never installed.
CreateFails ==
  /\ creates
  /\ \/ Pending /\ ~Valid(Current.rate, job.lower)
     \/ ~Pending /\ job # NoAnswer /\ job.rate \notin ValidRate
  /\ Done(NoAnswer)
  /\ UNCHANGED <<samplerVars, named>>

CreateEnds ==
  /\ job # NoAnswer /\ creates /\ ~Pending /\ job.rate \in ValidRate
  /\ kind' = "adaptive" /\ rate' = job.rate /\ defaultRate' = job.rate /\ lower' = job.lower
  /\ samplers' = created /\ named' = Known(created)
  /\ Done(job)

\* GuaranteedThroughputProbabilisticSampler.update, its two halves.
WithRate(s, r) == IF s.rate = r THEN s ELSE [s EXCEPT !.rate = r, !.decides = r, !.tag = r]

\* Mutant: the limiter is not told.
WithLower_NoLimit(s, l) == IF s.lower = l THEN s ELSE [s EXCEPT !.lower = l]

WithLower(s, l) == IF s.lower = l THEN s ELSE [s EXCEPT !.lower = l, !.limit = l]

\* AdaptiveSampler.update, one strategy.
UpdateSampler ==
  /\ Pending /\ ~creates
  /\ LET op == Current.operation  r == Current.rate  s == samplers[op] IN
       \/ /\ s = NoSampler /\ Valid(r, job.lower)
          /\ samplers' = [samplers EXCEPT ![op] = NewSampler(r, job.lower)]
       \/ /\ s # NoSampler
          /\ s.rate = r \/ r \in ValidRate
          /\ s.lower = job.lower \/ job.lower \in ValidBound
          /\ samplers' = [samplers EXCEPT ![op] = WithLower(WithRate(s, r), job.lower)]
  /\ named' = named \cup {Current.operation}
  /\ Applied
  /\ UNCHANGED <<kind, rate, defaultRate, lower, created>>

\* An exception in it: what was applied before it stays, a new rate of this operation too.
UpdateFails ==
  /\ Pending /\ ~creates
  /\ LET op == Current.operation  r == Current.rate  s == samplers[op] IN
       \/ s = NoSampler /\ ~Valid(r, job.lower) /\ UNCHANGED samplers
       \/ s # NoSampler /\ s.rate # r /\ r \notin ValidRate /\ UNCHANGED samplers
       \/ /\ s # NoSampler
          /\ s.rate = r \/ r \in ValidRate
          /\ s.lower # job.lower /\ job.lower \notin ValidBound
          /\ samplers' = [samplers EXCEPT ![op] = WithRate(s, r)]
  /\ Done(NoAnswer)
  /\ UNCHANGED <<kind, rate, defaultRate, lower, named>>

\* Mutant: the sampler of the operations there is no room for keeps its rate.
SetDefault_RateOnly ==
  /\ rate' = job.rate
  /\ Done(job)
  /\ UNCHANGED defaultRate

\* Mutant: the new rate is not asserted to be a probability.
SetDefault_Unchecked == rate' = job.rate /\ defaultRate' = job.rate /\ Done(job)

\* The default rate is kept before it is given to a ProbabilisticSampler, which asserts
\* that it is valid; a rate that is kept already is not looked at again.
SetDefault ==
  /\ rate' = job.rate
  /\ \/ rate = job.rate /\ Done(job) /\ UNCHANGED defaultRate
     \/ rate # job.rate /\ job.rate \in ValidRate /\ Done(job) /\ defaultRate' = job.rate
     \/ rate # job.rate /\ job.rate \notin ValidRate /\ Done(NoAnswer) /\ UNCHANGED defaultRate

UpdateEnds ==
  /\ job # NoAnswer /\ ~creates /\ ~Pending
  /\ lower' = job.lower
  /\ SetDefault
  /\ UNCHANGED <<kind, samplers, named>>

Apply == CreateSampler \/ CreateFails \/ CreateEnds \/ UpdateSampler \/ UpdateFails \/ UpdateEnds

-----------------------------------------------------------------------------
AnswerArrives ==
  \/ NoStrategy
  \/ \E r \in ValidRate : ServiceProbability(r)
  \/ \E l \in ValidBound : ServiceLimit(l)
  \/ \E a \in Answer : UpdateStarts(a)

Next ==
  \/ (\E op \in Operation : IsSampled(op)) \/ Close
  \/ InitPolling \/ DelayedPolling \/ PollingStarts \/ TickBegins \/ Tick
  \/ AnswerArrives \/ Apply

\* The loop runs its callbacks and timers, the HTTP client ends every request.
Fairness ==
  /\ WF_vars(InitPolling) /\ WF_vars(DelayedPolling) /\ WF_vars(PollingStarts)
  /\ WF_vars(TickBegins) /\ WF_vars(Tick) /\ WF_pollVars(RequestEnds) /\ WF_vars(Apply)

Spec == Init /\ [][Next]_vars
FairSpec == Spec /\ Fairness
-----------------------------------------------------------------------------
(* Properties. *)

OpSampler == [rate : Rate, decides : Rate, tag : Rate, lower : Bound, limit : Bound]

SamplerType ==
  /\ kind \in {"probabilistic", "ratelimiting", "adaptive"}
  /\ rate \in Rate /\ defaultRate \in ValidRate /\ lower \in Bound
  /\ samplers \in [Operation -> OpSampler \cup {NoSampler}] /\ named \subseteq Operation
JobType ==
  /\ job \in Answer \cup {NoAnswer} /\ force \in Answer \cup {NoAnswer}
  /\ applied \in Nat
  /\ created \in [Operation -> OpSampler \cup {NoSampler}]
PollType ==
  /\ poll \in {"init", "delayed", "starting", "none"}
  /\ periodic \in {"none", "started", "stopped"}
  /\ inFlight \in Nat /\ late \in Nat
FlagType == running \in BOOLEAN /\ tick \in BOOLEAN /\ creates \in BOOLEAN

\* Type invariant; the sampler for the operations there is no room for has a probability.
TypeOK == SamplerType /\ JobType /\ PollType /\ FlagType

\* "GuaranteedThroughputProbabilisticSampler": the rate that decides is the rate the tags of
\* its spans tell, and the limiter has the operation's lower bound, after any row of
\* answers, also those that failed in the middle.
TagsTellTheRate ==
  \A op \in Known(samplers) :
    LET s == samplers[op] IN s.decides = s.rate /\ s.tag = s.rate /\ s.limit = s.lower

\* "Maximum number of unique operations the AdaptiveSampler will keep track of": beside those
\* that answers name, it is kept, however calls and answers are mixed.
OperationsBounded == Cardinality(Known(samplers) \ named) <= MaxOperations

\* The first n strategies of an answer are in the samplers; of several for one operation, the last.
InSamplers(a, n, s) ==
  \A i \in 1 .. n :
    (\A j \in i + 1 .. n : a.strategies[j].operation # a.strategies[i].operation) =>
      LET sampler == s[a.strategies[i].operation] IN
        sampler # NoSampler /\ sampler.decides = a.strategies[i].rate /\ sampler.limit = a.lower

\* An answer with a valid default that was applied without an exception is in force until the
\* next one, in all its parts: what the shortcuts of the update skip was up to date already,
\* also after answers that failed in the middle.
AnswerInForce ==
  force # NoAnswer /\ force.rate \in ValidRate =>
    /\ kind = "adaptive" /\ rate = force.rate /\ defaultRate = force.rate /\ lower = force.lower
    /\ InSamplers(force, Len(force.strategies), samplers)

\* close() ends the polling, wherever it meets it: one request at most, the first or that of
\* a tick that has begun, is still sent.
QuietAfterClose == late <= 1

\* "Periodically loads the sampling strategy from a remote server": whatever the answers are,
\* a sampler that is not closed goes on to ask.
KeepsPolling == []<>(inFlight > 0 \/ ~running)

\* "Sampling rate must be between 0.0 and 1.0", the assertion of ProbabilisticSampler, does not
\* fail in is_sampled for an operation that is seen for the first time.
NewSamplersValid == kind = "adaptive" /\ HasRoom /\ Unlocked => rate \in ValidRate
=============================================================================
