--------------------------- MODULE SamplerProofs ---------------------------
(***************************************************************************)
(* Theorems about Sampler: its types, the samplers that are consistent     *)
(* after any row of answers, the answer that is in force, the bound of the *)
(* operations, the quiet after close(), and the polling until then.        *)
(***************************************************************************)
EXTENDS Sampler, FiniteSetTheorems, TLAPS

LEMMA AnswerFields ==
  ASSUME NEW a \in Answer
  PROVE  a.strategies \in Seq(Strategy) /\ a.rate \in Rate /\ a.lower \in Bound
BY SamplerAssumption

LEMMA StrategyFields ==
  ASSUME NEW a \in Answer, NEW i \in 1 .. Len(a.strategies)
  PROVE  a.strategies[i].operation \in Operation /\ a.strategies[i].rate \in Rate
<1>1. a.strategies[i] \in Strategy
  BY AnswerFields
<1> QED
  BY <1>1 DEF Strategy

LEMMA CurrentFields ==
  ASSUME JobType, Pending
  PROVE  /\ job \in Answer /\ applied + 1 \in 1 .. Len(job.strategies)
         /\ Current.operation \in Operation /\ Current.rate \in Rate
<1>1. job \in Answer /\ applied \in Nat
  BY DEF JobType, Pending
<1>2. job.strategies \in Seq(Strategy)
  BY <1>1, AnswerFields
<1>3. applied + 1 \in 1 .. Len(job.strategies)
  BY <1>1, <1>2 DEF Pending
<1>4. Current \in Strategy
  BY <1>2, <1>3 DEF Current
<1> QED
  BY <1>1, <1>3, <1>4 DEF Strategy

LEMMA NewSamplerType ==
  ASSUME NEW r \in ValidRate, NEW l \in ValidBound
  PROVE  NewSampler(r, l) \in OpSampler
BY SamplerAssumption DEF NewSampler, OpSampler

LEMMA UpdatedType ==
  ASSUME NEW s \in OpSampler, NEW r \in Rate, NEW l \in Bound
  PROVE  WithRate(s, r) \in OpSampler /\ WithLower(WithRate(s, r), l) \in OpSampler
<1>1. \A x \in OpSampler : WithLower(x, l) \in OpSampler
  BY DEF WithLower, OpSampler
<1>2. WithRate(s, r) \in OpSampler
  BY DEF WithRate, OpSampler
<1> QED
  BY <1>1, <1>2

LEMMA NoSamplerType == NoSampler \notin OpSampler
BY SamplerAssumption DEF OpSampler

-----------------------------------------------------------------------------
(* Types. *)

LEMMA InitType == Init => TypeOK
<1> USE DEF Init
<1>1. Init => SamplerType
  <2>1. Empty \in [Operation -> OpSampler \cup {NoSampler}]
    BY DEF Empty
  <2>2. ASSUME Init PROVE rate \in Rate /\ defaultRate \in ValidRate /\ lower \in Bound
    BY <2>2, SamplerAssumption
  <2> HIDE DEF Empty
  <2> QED
    BY <2>1, <2>2 DEF SamplerType
<1>2. Init => JobType
  <2>1. Empty \in [Operation -> OpSampler \cup {NoSampler}]
    BY DEF Empty
  <2> QED
    BY <2>1 DEF JobType
<1>3. Init => PollType
  BY DEF PollType
<1>4. Init => FlagType
  BY DEF FlagType
<1> HIDE DEF Init
<1> QED
  BY <1>1, <1>2, <1>3, <1>4 DEF TypeOK

LEMMA StepSamplers ==
  ASSUME TypeOK, [Next]_vars
  PROVE  SamplerType'
<1> USE DEF TypeOK, SamplerType
<1>1. ASSUME NEW op \in Operation, IsSampled(op) PROVE SamplerType'
  BY <1>1, NewSamplerType DEF IsSampled, Valid
<1>2. ASSUME NEW r \in ValidRate, ServiceProbability(r) PROVE SamplerType'
  BY <1>2, SamplerAssumption DEF ServiceProbability, Install, Empty
<1>3. ASSUME NEW l \in ValidBound, ServiceLimit(l) PROVE SamplerType'
  BY <1>3, SamplerAssumption DEF ServiceLimit, Install, Empty
<1>4. CASE CreateEnds
  BY <1>4, AnswerFields DEF CreateEnds, JobType, Known
<1>5. CASE UpdateSampler
  <2> DEFINE op == Current.operation
             r  == Current.rate
  <2>1. op \in Operation /\ r \in Rate /\ job \in Answer
    BY <1>5, CurrentFields DEF UpdateSampler
  <2>2. job.lower \in Bound
    BY <2>1, AnswerFields
  <2>3. \/ Valid(r, job.lower) /\ samplers' = [samplers EXCEPT ![op] = NewSampler(r, job.lower)]
        \/ /\ samplers[op] # NoSampler
           /\ samplers' = [samplers EXCEPT ![op] = WithLower(WithRate(samplers[op], r), job.lower)]
    BY <1>5 DEF UpdateSampler
  <2> HIDE DEF op, r
  <2>4. samplers' \in [Operation -> OpSampler \cup {NoSampler}]
    BY <2>1, <2>2, <2>3, NewSamplerType, UpdatedType DEF Valid
  <2>5. named' \subseteq Operation /\ UNCHANGED <<kind, rate, defaultRate, lower>>
    BY <1>5, <2>1 DEF UpdateSampler, op
  <2> QED
    BY <2>4, <2>5
<1>6. CASE UpdateFails
  <2> DEFINE op == Current.operation
             r  == Current.rate
  <2>1. op \in Operation /\ r \in Rate /\ job \in Answer
    BY <1>6, CurrentFields DEF UpdateFails
  <2>2. job.lower \in Bound
    BY <2>1, AnswerFields
  <2>3. \/ samplers' = samplers
        \/ samplers[op] # NoSampler /\ samplers' = [samplers EXCEPT ![op] = WithRate(samplers[op], r)]
    BY <1>6 DEF UpdateFails
  <2> HIDE DEF op, r
  <2>4. samplers' \in [Operation -> OpSampler \cup {NoSampler}]
    BY <2>1, <2>2, <2>3, UpdatedType
  <2> QED
    BY <1>6, <2>4 DEF UpdateFails
<1>7. CASE UpdateEnds
  <2>1. job.rate \in Rate /\ job.lower \in Bound
    BY <1>7, AnswerFields DEF UpdateEnds, JobType
  <2> QED
    BY <1>7, <2>1 DEF UpdateEnds, SetDefault
<1>8. CASE (\E a \in Answer : UpdateStarts(a)) \/ NoStrategy \/ CreateSampler \/ CreateFails
  BY <1>8 DEF UpdateStarts, NoStrategy, CreateSampler, CreateFails, samplerVars, adaptiveVars
<1>9. CASE Close \/ InitPolling \/ DelayedPolling \/ PollingStarts \/ TickBegins \/ Tick \/ UNCHANGED vars
  BY <1>9 DEF Close, InitPolling, DelayedPolling, PollingStarts, TickBegins, Tick, vars, samplerVars, adaptiveVars
<1> QED
  BY <1>1, <1>2, <1>3, <1>4, <1>5, <1>6, <1>7, <1>8, <1>9 DEF Next, AnswerArrives, Apply

LEMMA StepJob ==
  ASSUME TypeOK, [Next]_vars
  PROVE  JobType'
<1> USE DEF TypeOK, JobType
<1>1. ASSUME NEW op \in Operation, IsSampled(op) PROVE JobType'
  BY <1>1 DEF IsSampled, jobVars
<1>2. CASE CreateSampler
  <2>1. Current.operation \in Operation
    BY <1>2, CurrentFields DEF CreateSampler
  <2>2. NewSampler(Current.rate, job.lower) \in OpSampler
    BY <1>2, NewSamplerType DEF CreateSampler, Valid
  <2>3. created' \in [Operation -> OpSampler \cup {NoSampler}]
    BY <1>2, <2>1, <2>2 DEF CreateSampler
  <2> QED
    BY <1>2, <2>3 DEF CreateSampler, Applied
<1>3. CASE UpdateSampler
  BY <1>3 DEF UpdateSampler, Applied
<1>4. ASSUME NEW a \in Answer \cup {NoAnswer}, Done(a) PROVE JobType'
  BY <1>4 DEF Done, Empty
<1>5. CASE CreateFails \/ CreateEnds \/ UpdateFails
  BY <1>4, <1>5 DEF CreateFails, CreateEnds, UpdateFails
<1>6. CASE UpdateEnds
  BY <1>4, <1>6 DEF UpdateEnds, SetDefault
<1>7. ASSUME NEW a \in Answer, UpdateStarts(a) PROVE JobType'
  BY <1>7 DEF UpdateStarts, Empty
<1>8. CASE NoStrategy \/ (\E r \in ValidRate : ServiceProbability(r)) \/ (\E l \in ValidBound : ServiceLimit(l))
  BY <1>8 DEF NoStrategy, ServiceProbability, ServiceLimit, Install, jobVars
<1>9. CASE Close \/ InitPolling \/ DelayedPolling \/ PollingStarts \/ TickBegins \/ Tick \/ UNCHANGED vars
  BY <1>9 DEF Close, InitPolling, DelayedPolling, PollingStarts, TickBegins, Tick, vars, jobVars
<1> QED
  BY <1>1, <1>2, <1>3, <1>5, <1>6, <1>7, <1>8, <1>9 DEF Next, AnswerArrives, Apply

\* What is not polling leaves the polling alone; an answer ends its request.
LEMMA OtherSteps ==
  ASSUME Next
  PROVE  \/ Close \/ InitPolling \/ DelayedPolling \/ PollingStarts \/ TickBegins \/ Tick
         \/ RequestEnds \/ UNCHANGED pollVars
BY DEF Next, IsSampled, AnswerArrives, NoStrategy, ServiceProbability, ServiceLimit, UpdateStarts, Apply,
   CreateSampler, CreateFails, CreateEnds, UpdateSampler, UpdateFails, UpdateEnds, SetDefault, Applied, Done

LEMMA StepPoll ==
  ASSUME PollType, [Next]_vars
  PROVE  PollType'
<1> USE DEF PollType
<1>1. CASE Close
  BY <1>1 DEF Close
<1>2. CASE InitPolling
  BY <1>2 DEF InitPolling
<1>3. CASE DelayedPolling
  BY <1>3 DEF DelayedPolling, SendRequest
<1>4. CASE PollingStarts
  BY <1>4 DEF PollingStarts, StartPeriodic
<1>5. CASE TickBegins
  BY <1>5 DEF TickBegins
<1>6. CASE Tick
  BY <1>6 DEF Tick, SendRequest
<1>7. CASE RequestEnds
  BY <1>7 DEF RequestEnds
<1>8. CASE UNCHANGED pollVars
  BY <1>8 DEF pollVars
<1>9. UNCHANGED vars => UNCHANGED pollVars
  BY DEF vars
<1> HIDE DEF PollType
<1> QED
  BY <1>1, <1>2, <1>3, <1>4, <1>5, <1>6, <1>7, <1>8, <1>9, OtherSteps

LEMMA StepFlags ==
  ASSUME FlagType, [Next]_vars
  PROVE  FlagType'
<1> USE DEF FlagType
<1>1. ASSUME NEW op \in Operation, IsSampled(op) PROVE FlagType'
  BY <1>1 DEF IsSampled, jobVars, pollVars
<1>2. CASE Close \/ InitPolling \/ DelayedPolling
  BY <1>2 DEF Close, InitPolling, DelayedPolling, jobVars
<1>3. CASE PollingStarts \/ TickBegins \/ Tick
  BY <1>3 DEF PollingStarts, TickBegins, Tick, jobVars
<1>4. CASE NoStrategy
  BY <1>4 DEF NoStrategy, RequestEnds, jobVars
<1>5. ASSUME NEW r \in ValidRate, ServiceProbability(r) PROVE FlagType'
  BY <1>5 DEF ServiceProbability, Install, RequestEnds, jobVars
<1>6. ASSUME NEW l \in ValidBound, ServiceLimit(l) PROVE FlagType'
  BY <1>6 DEF ServiceLimit, Install, RequestEnds, jobVars
<1>7. ASSUME NEW a \in Answer, UpdateStarts(a) PROVE FlagType'
  BY <1>7 DEF UpdateStarts, RequestEnds
<1>8. CASE CreateSampler \/ UpdateSampler
  BY <1>8 DEF CreateSampler, UpdateSampler, Applied, pollVars
<1>9. CASE CreateFails \/ CreateEnds \/ UpdateFails
  BY <1>9 DEF CreateFails, CreateEnds, UpdateFails, Done, pollVars
<1>10. CASE UpdateEnds
  BY <1>10 DEF UpdateEnds, SetDefault, Done, pollVars
<1>11. CASE UNCHANGED vars
  BY <1>11 DEF vars, jobVars, pollVars
<1> QED
  BY <1>1, <1>2, <1>3, <1>4, <1>5, <1>6, <1>7, <1>8, <1>9, <1>10, <1>11 DEF Next, AnswerArrives, Apply

\* Type correctness: also, whatever the answers are, the operations there is no room for are
\* sampled by a probability.
THEOREM TypeCorrect == Spec => []TypeOK
<1>1. TypeOK /\ [Next]_vars => TypeOK'
  BY StepSamplers, StepJob, StepPoll, StepFlags DEF TypeOK
<1> QED
  BY InitType, <1>1, PTL DEF Spec

-----------------------------------------------------------------------------
(* Consistent samplers. *)

Consistent(s) == s.decides = s.rate /\ s.tag = s.rate /\ s.limit = s.lower

\* An update of a consistent sampler makes it what the answer says.
LEMMA UpdateConsistent ==
  ASSUME NEW s \in OpSampler, Consistent(s), NEW r \in Rate, NEW l \in Bound
  PROVE  /\ Consistent(WithRate(s, r)) /\ Consistent(WithLower(WithRate(s, r), l))
         /\ WithLower(WithRate(s, r), l).decides = r /\ WithLower(WithRate(s, r), l).limit = l
<1>1. ASSUME NEW x \in OpSampler, Consistent(x)
      PROVE  /\ Consistent(WithLower(x, l)) /\ WithLower(x, l).decides = x.decides
             /\ WithLower(x, l).limit = l
  BY <1>1 DEF WithLower, Consistent, OpSampler
<1>2. WithRate(s, r) \in OpSampler /\ Consistent(WithRate(s, r)) /\ WithRate(s, r).decides = r
  BY DEF WithRate, Consistent, OpSampler
<1> QED
  BY <1>1, <1>2

\* All samplers of the AdaptiveSampler, and of one that is being created, are consistent.
AllConsistent ==
  \A op \in Operation :
    /\ samplers[op] # NoSampler => Consistent(samplers[op])
    /\ created[op] # NoSampler => Consistent(created[op])

LEMMA NewConsistent ==
  ASSUME NEW r, NEW l
  PROVE  /\ Consistent(NewSampler(r, l))
         /\ NewSampler(r, l).decides = r /\ NewSampler(r, l).limit = l
BY DEF NewSampler, Consistent

LEMMA StepConsistent ==
  ASSUME TypeOK, AllConsistent, [Next]_vars
  PROVE  AllConsistent'
<1> USE DEF AllConsistent, TypeOK, SamplerType, JobType
<1>1. ASSUME NEW op \in Operation, IsSampled(op) PROVE AllConsistent'
  BY <1>1, NewConsistent DEF IsSampled, jobVars
<1>2. CASE \/ \E r \in ValidRate : ServiceProbability(r)
           \/ \E l \in ValidBound : ServiceLimit(l)
  BY <1>2 DEF ServiceProbability, ServiceLimit, Install, Empty, jobVars
<1>3. CASE \E a \in Answer : UpdateStarts(a)
  BY <1>3 DEF UpdateStarts, Empty, samplerVars, adaptiveVars
<1>4. CASE CreateSampler
  BY <1>4, NewConsistent DEF CreateSampler, samplerVars, adaptiveVars
<1>5. CASE CreateFails
  BY <1>5 DEF CreateFails, Done, Empty, samplerVars, adaptiveVars
<1>6. CASE CreateEnds
  BY <1>6 DEF CreateEnds, Done, Empty
<1>7. CASE UpdateSampler \/ UpdateFails
  <2> DEFINE op == Current.operation
             r  == Current.rate
  <2>1. op \in Operation /\ r \in Rate /\ job \in Answer
    BY <1>7, CurrentFields DEF UpdateSampler, UpdateFails
  <2>2. job.lower \in Bound
    BY <2>1, AnswerFields
  <2>3. \/ samplers' = [samplers EXCEPT ![op] = NewSampler(r, job.lower)]
        \/ /\ samplers[op] # NoSampler
           /\ \/ samplers' = [samplers EXCEPT ![op] = WithLower(WithRate(samplers[op], r), job.lower)]
              \/ samplers' = [samplers EXCEPT ![op] = WithRate(samplers[op], r)]
        \/ samplers' = samplers
    BY <1>7 DEF UpdateSampler, UpdateFails
  <2>4. samplers[op] # NoSampler => samplers[op] \in OpSampler
    BY <2>1
  <2>5. created' = created \/ created' = Empty
    BY <1>7 DEF UpdateSampler, UpdateFails, Done
  <2> HIDE DEF op, r
  <2>6. ASSUME NEW o \in Operation, samplers'[o] # NoSampler
        PROVE  Consistent(samplers'[o])
    BY <2>1, <2>2, <2>3, <2>4, <2>6, NewConsistent, UpdateConsistent
  <2>7. ASSUME NEW o \in Operation, created'[o] # NoSampler
        PROVE  Consistent(created'[o])
    BY <2>5, <2>7 DEF Empty
  <2> QED
    BY <2>6, <2>7 DEF Consistent
<1>8. CASE UpdateEnds
  BY <1>8 DEF UpdateEnds, SetDefault, Done, Empty
<1>9. CASE \/ Close \/ InitPolling \/ DelayedPolling \/ PollingStarts \/ TickBegins \/ Tick
           \/ NoStrategy \/ UNCHANGED vars
  <2>1. UNCHANGED <<samplers, created>>
    BY <1>9 DEF Close, InitPolling, DelayedPolling, PollingStarts, TickBegins, Tick, NoStrategy, vars,
       samplerVars, adaptiveVars, jobVars
  <2> QED
    BY <2>1
<1> QED
  BY <1>1, <1>2, <1>3, <1>4, <1>5, <1>6, <1>7, <1>8, <1>9 DEF Next, AnswerArrives, Apply

LEMMA ConsistentAlways == Spec => []AllConsistent
<1>1. Init => AllConsistent
  BY DEF Init, AllConsistent, Empty
<1> QED
  BY <1>1, TypeCorrect, StepConsistent, PTL DEF Spec

\* The rate that decides is always the rate the tags tell, and the limiter has the lower bound,
\* for any answers and operations, after updates that failed in the middle too.
THEOREM TagsTrue == Spec => []TagsTellTheRate
<1>1. AllConsistent => TagsTellTheRate
  BY DEF AllConsistent, TagsTellTheRate, Known, Consistent
<1> QED
  BY <1>1, ConsistentAlways, PTL

-----------------------------------------------------------------------------
(* The answer in force. *)

\* The strategies of an answer that are applied are in its samplers; the two rates of an
\* AdaptiveSampler differ only where the first is no probability.
ForceInv ==
  /\ kind = "adaptive" /\ rate \in ValidRate => defaultRate = rate
  /\ job # NoAnswer =>
       /\ applied <= Len(job.strategies) /\ force = NoAnswer
       /\ creates => InSamplers(job, applied, created)
       /\ ~creates => kind = "adaptive" /\ InSamplers(job, applied, samplers)
  /\ AnswerInForce

\* A strategy more: those for other operations stay as they are, one before it for the same
\* operation is no longer the last.
LEMMA OneMore ==
  ASSUME NEW a \in Answer, NEW n \in Nat, n + 1 \in 1 .. Len(a.strategies),
         NEW s, NEW s2, InSamplers(a, n, s),
         \A op \in Operation : op # a.strategies[n + 1].operation => s2[op] = s[op],
         s2[a.strategies[n + 1].operation] # NoSampler,
         s2[a.strategies[n + 1].operation].decides = a.strategies[n + 1].rate,
         s2[a.strategies[n + 1].operation].limit = a.lower
  PROVE  InSamplers(a, n + 1, s2)
<1> DEFINE Op(i) == a.strategies[i].operation
<1> SUFFICES ASSUME NEW i \in 1 .. n + 1, \A j \in i + 1 .. n + 1 : Op(j) # Op(i)
             PROVE  /\ s2[Op(i)] # NoSampler /\ s2[Op(i)].decides = a.strategies[i].rate
                    /\ s2[Op(i)].limit = a.lower
  BY DEF InSamplers
<1>1. CASE i = n + 1
  BY <1>1
<1>2. CASE i # n + 1
  <2>1. i \in 1 .. n /\ n + 1 \in i + 1 .. n + 1 /\ i \in 1 .. Len(a.strategies)
    BY <1>2
  <2>2. Op(n + 1) # Op(i)
    BY <2>1
  <2>3. Op(i) \in Operation
    BY <2>1, StrategyFields
  <2>4. \A j \in i + 1 .. n : Op(j) # Op(i)
    BY <2>1
  <2>5. s[Op(i)] # NoSampler /\ s[Op(i)].decides = a.strategies[i].rate /\ s[Op(i)].limit = a.lower
    BY <2>1, <2>4 DEF InSamplers
  <2> QED
    BY <2>2, <2>3, <2>5
<1> QED
  BY <1>1, <1>2

\* What an answer's strategies say of an operation stays so when another is seen first.
LEMMA OthersKept ==
  ASSUME NEW a \in Answer, NEW n \in Nat, n <= Len(a.strategies), NEW s, NEW s2, InSamplers(a, n, s),
         \A op \in Operation : s[op] # NoSampler => s2[op] = s[op]
  PROVE  InSamplers(a, n, s2)
<1>1. \A i \in 1 .. n : a.strategies[i].operation \in Operation
  <2>1. Len(a.strategies) \in Nat
    BY AnswerFields
  <2> QED
    BY <2>1, StrategyFields
<1> QED
  BY <1>1 DEF InSamplers
LEMMA StepForce ==
  ASSUME TypeOK, AllConsistent, ForceInv, [Next]_vars
  PROVE  ForceInv'
<1> USE DEF TypeOK, SamplerType, JobType
<1>1. ASSUME NEW op \in Operation, IsSampled(op) PROVE ForceInv'
  <2>1. /\ job = NoAnswer /\ job' = NoAnswer /\ kind = "adaptive"
        /\ UNCHANGED <<kind, rate, defaultRate, lower, force>>
        /\ \A o \in Operation : samplers[o] # NoSampler => samplers'[o] = samplers[o]
    BY <1>1 DEF IsSampled, Unlocked, jobVars
  <2>2. AnswerInForce'
    <3> SUFFICES ASSUME force # NoAnswer, force.rate \in ValidRate
                 PROVE  InSamplers(force, Len(force.strategies), samplers')
      BY <2>1 DEF ForceInv, AnswerInForce
    <3>1. force \in Answer /\ Len(force.strategies) \in Nat
      BY AnswerFields
    <3>2. InSamplers(force, Len(force.strategies), samplers)
      BY DEF ForceInv, AnswerInForce
    <3> QED
      BY <2>1, <3>1, <3>2, OthersKept
  <2> QED
    BY <2>1, <2>2 DEF ForceInv
<1>2. CASE \/ \E r \in ValidRate : ServiceProbability(r)
           \/ \E l \in ValidBound : ServiceLimit(l)
  <2>1. job = NoAnswer /\ job' = NoAnswer /\ kind' # "adaptive" /\ force' = NoAnswer
    BY <1>2 DEF ServiceProbability, ServiceLimit, Install, RequestEnds, LoopFree, Unlocked, jobVars
  <2> QED
    BY <2>1 DEF ForceInv, AnswerInForce
<1>3. CASE NoStrategy
  <2>1. UNCHANGED <<samplerVars, jobVars>> /\ force' = NoAnswer
    BY <1>3 DEF NoStrategy
  <2> QED
    BY <2>1 DEF ForceInv, AnswerInForce, samplerVars, adaptiveVars, jobVars, InSamplers
<1>4. ASSUME NEW a \in Answer, UpdateStarts(a) PROVE ForceInv'
  <2>1. /\ job' = a /\ applied' = 0 /\ force' = NoAnswer /\ UNCHANGED samplerVars
        /\ creates' = (kind # "adaptive")
    BY <1>4 DEF UpdateStarts
  <2>2. Len(a.strategies) >= 0
    BY AnswerFields
  <2>3. \A s : InSamplers(a, 0, s)
    BY DEF InSamplers
  <2>4. creates' <=> kind' # "adaptive"
    BY <2>1 DEF samplerVars
  <2>5. InSamplers(job, applied, created)' /\ InSamplers(job, applied, samplers)'
    BY <2>1, <2>3
  <2>6. kind' = "adaptive" /\ rate' \in ValidRate => defaultRate' = rate'
    BY <2>1 DEF samplerVars, adaptiveVars, ForceInv
  <2> QED
    BY <2>1, <2>2, <2>4, <2>5, <2>6 DEF ForceInv, AnswerInForce
<1>5. CASE CreateSampler
  <2>1. /\ Pending /\ creates /\ applied' = applied + 1
        /\ UNCHANGED <<samplerVars, job, creates, force>>
        /\ created' = [created EXCEPT ![Current.operation] = NewSampler(Current.rate, job.lower)]
    BY <1>5 DEF CreateSampler, Applied
  <2>2. NewSampler(Current.rate, job.lower) # NoSampler
    BY <1>5, NewSamplerType, NoSamplerType DEF CreateSampler, Valid
  <2>3. job \in Answer /\ applied + 1 \in 1 .. Len(job.strategies) /\ Current.operation \in Operation
    BY <2>1, CurrentFields
  <2> DEFINE op == Current.operation
             r  == Current.rate
  <2>4. op = job.strategies[applied + 1].operation /\ r = job.strategies[applied + 1].rate
    BY DEF Current
  <2> HIDE DEF op, r
  <2>5. created'[op] # NoSampler /\ created'[op].decides = r /\ created'[op].limit = job.lower
    BY <2>1, <2>2, <2>3, NewConsistent DEF op, r
  <2>6. \A o \in Operation : o # op => created'[o] = created[o]
    BY <2>1 DEF op
  <2>7. InSamplers(job, applied + 1, created')
    BY <2>1, <2>3, <2>4, <2>5, <2>6, OneMore DEF ForceInv, Pending
  <2> QED
    BY <2>1, <2>3, <2>7 DEF ForceInv, AnswerInForce, samplerVars, adaptiveVars, Pending
<1>6. CASE CreateFails \/ UpdateFails
  <2>1. job' = NoAnswer /\ force' = NoAnswer /\ UNCHANGED <<kind, rate, defaultRate>>
    BY <1>6 DEF CreateFails, UpdateFails, Done, samplerVars, adaptiveVars
  <2> QED
    BY <2>1 DEF ForceInv, AnswerInForce
<1>7. CASE CreateEnds
  <2>1. /\ job # NoAnswer /\ ~Pending /\ creates /\ job' = NoAnswer /\ force' = job /\ kind' = "adaptive"
        /\ rate' = job.rate /\ defaultRate' = job.rate /\ lower' = job.lower /\ samplers' = created
    BY <1>7 DEF CreateEnds, Done
  <2>2. Len(job.strategies) \in Nat /\ applied \in Nat
    BY <2>1, AnswerFields
  <2>3. applied = Len(job.strategies) /\ InSamplers(job, applied, created)
    BY <2>1, <2>2 DEF ForceInv, Pending
  <2> QED
    BY <2>1, <2>3 DEF ForceInv, AnswerInForce
<1>8. CASE UpdateSampler
  <2> DEFINE op == Current.operation
             r  == Current.rate
  <2>1. /\ Pending /\ ~creates /\ applied' = applied + 1
        /\ UNCHANGED <<kind, rate, defaultRate, lower, job, creates, force>>
        /\ \/ Valid(r, job.lower) /\ samplers' = [samplers EXCEPT ![op] = NewSampler(r, job.lower)]
           \/ /\ samplers[op] # NoSampler
              /\ samplers' = [samplers EXCEPT ![op] = WithLower(WithRate(samplers[op], r), job.lower)]
    BY <1>8 DEF UpdateSampler, Applied
  <2>2. /\ job \in Answer /\ applied + 1 \in 1 .. Len(job.strategies)
        /\ op \in Operation /\ r \in Rate
    BY <2>1, CurrentFields
  <2>3. job.lower \in Bound
    BY <2>2, AnswerFields
  <2>4. op = job.strategies[applied + 1].operation /\ r = job.strategies[applied + 1].rate
    BY DEF Current
  <2> HIDE DEF op, r
  <2>5. samplers'[op] # NoSampler /\ samplers'[op].decides = r /\ samplers'[op].limit = job.lower
    BY <2>1, <2>2, <2>3, NewSamplerType, NewConsistent, UpdatedType, UpdateConsistent, NoSamplerType
    DEF AllConsistent, Valid
  <2>6. \A o \in Operation : o # op => samplers'[o] = samplers[o]
    BY <2>1
  <2>7. InSamplers(job, applied + 1, samplers')
    BY <2>1, <2>2, <2>4, <2>5, <2>6, OneMore DEF ForceInv, Pending
  <2> QED
    BY <2>1, <2>2, <2>7 DEF ForceInv, AnswerInForce, Pending
<1>9. CASE UpdateEnds
  <2>1. /\ job # NoAnswer /\ ~Pending /\ ~creates /\ job' = NoAnswer
        /\ rate' = job.rate /\ lower' = job.lower /\ UNCHANGED <<kind, samplers>>
    BY <1>9 DEF UpdateEnds, SetDefault, Done
  <2>2. \/ force' = NoAnswer /\ job.rate \notin ValidRate
        \/ force' = job /\ defaultRate' = job.rate
        \/ force' = job /\ rate = job.rate /\ defaultRate' = defaultRate
    BY <1>9 DEF UpdateEnds, SetDefault, Done
  <2>3. Len(job.strategies) \in Nat /\ applied \in Nat
    BY <2>1, AnswerFields
  <2>4. applied = Len(job.strategies) /\ InSamplers(job, applied, samplers) /\ kind = "adaptive"
    BY <2>1, <2>3 DEF ForceInv, Pending
  <2>5. rate' \in ValidRate => defaultRate' = rate'
    BY <2>1, <2>2, <2>4 DEF ForceInv
  <2> QED
    BY <2>1, <2>2, <2>4, <2>5 DEF ForceInv, AnswerInForce
<1>10. CASE \/ Close \/ InitPolling \/ DelayedPolling \/ PollingStarts \/ TickBegins \/ Tick
            \/ UNCHANGED vars
  <2>1. UNCHANGED <<samplerVars, jobVars, force>>
    BY <1>10 DEF Close, InitPolling, DelayedPolling, PollingStarts, TickBegins, Tick, vars
  <2> QED
    BY <2>1 DEF ForceInv, AnswerInForce, samplerVars, adaptiveVars, jobVars, InSamplers
<1> QED
  BY <1>1, <1>2, <1>3, <1>4, <1>5, <1>6, <1>7, <1>8, <1>9, <1>10 DEF Next, AnswerArrives, Apply

\* An answer applied without an exception is in force in all its parts, whatever came before it:
\* the comparisons that skip a part of the update skip only what was up to date.
THEOREM AnswersTakeEffect == Spec => []AnswerInForce
<1>1. Init => ForceInv
  BY DEF Init, ForceInv, AnswerInForce
<1>2. Spec => []ForceInv
  BY <1>1, TypeCorrect, ConsistentAlways, StepForce, PTL DEF Spec
<1> QED
  BY <1>2, PTL DEF ForceInv

-----------------------------------------------------------------------------
(* The bound of the operations. *)

Unnamed(s, n) == {op \in Operation : s[op] # NoSampler} \ n

LEMMA Fewer ==
  ASSUME NEW s, NEW n, NEW s2, NEW n2, Unnamed(s2, n2) \subseteq Unnamed(s, n)
  PROVE  Cardinality(Unnamed(s2, n2)) \in Nat /\ Cardinality(Unnamed(s2, n2)) <= Cardinality(Unnamed(s, n))
<1>1. IsFiniteSet(Unnamed(s, n))
  BY SamplerAssumption, FS_Subset DEF Unnamed
<1> QED
  BY <1>1, FS_Subset, FS_CardinalityType

LEMMA StepBound ==
  ASSUME TypeOK, OperationsBounded, [Next]_vars
  PROVE  OperationsBounded'
<1> USE DEF TypeOK, SamplerType, JobType
<1>0. MaxOperations \in Nat
  BY SamplerAssumption
<1>1. OperationsBounded <=> (Cardinality(Unnamed(samplers, named)) <= MaxOperations)
  BY DEF OperationsBounded, Unnamed, Known
<1>2. OperationsBounded' <=> (Cardinality(Unnamed(samplers', named')) <= MaxOperations)
  BY DEF OperationsBounded, Unnamed, Known
<1>3. ASSUME Unnamed(samplers', named') \subseteq Unnamed(samplers, named)
      PROVE  OperationsBounded'
  <2>1. Cardinality(Unnamed(samplers, named)) \in Nat
    BY Fewer
  <2> HIDE DEF TypeOK, SamplerType, JobType
  <2> QED
    BY <1>0, <1>1, <1>2, <1>3, <2>1, Fewer
<1>4. ASSUME NEW op \in Operation, IsSampled(op) PROVE OperationsBounded'
  <2>1. Cardinality(Unnamed(samplers, {})) < MaxOperations
    BY <1>4 DEF IsSampled, HasRoom, Known, Unnamed
  <2> DEFINE before == Unnamed(samplers, {})
             after  == Unnamed(samplers', named')
  <2>2. IsFiniteSet(before)
    BY SamplerAssumption, FS_Subset DEF Unnamed
  <2>3. after \subseteq before \cup {op}
    BY <1>4 DEF IsSampled, Unnamed
  <2> HIDE DEF before, after, TypeOK, SamplerType, JobType
  <2>4. Cardinality(before) \in Nat
    BY <2>2, FS_CardinalityType
  <2>5. /\ IsFiniteSet(before \cup {op}) /\ Cardinality(before \cup {op}) \in Nat
        /\ Cardinality(before \cup {op}) <= Cardinality(before) + 1
    BY <2>2, <2>4, FS_AddElement
  <2>6. Cardinality(after) \in Nat /\ Cardinality(after) <= Cardinality(before \cup {op})
    BY <2>3, <2>5, FS_Subset, FS_CardinalityType
  <2> QED
    BY <1>0, <1>2, <2>1, <2>4, <2>5, <2>6 DEF before, after
<1>5. CASE \/ \E r \in ValidRate : ServiceProbability(r)
           \/ \E l \in ValidBound : ServiceLimit(l)
  <2>1. samplers' = Empty
    BY <1>5 DEF ServiceProbability, ServiceLimit, Install
  <2> QED
    BY <1>3, <2>1 DEF Unnamed, Empty
<1>6. CASE CreateEnds
  BY <1>3, <1>6 DEF CreateEnds, Known, Unnamed
<1>7. CASE UpdateSampler
  BY <1>3, <1>7, CurrentFields DEF UpdateSampler, Unnamed
<1>8. CASE UpdateFails
  <2>1. Current.operation \in Operation
    BY <1>8, CurrentFields DEF UpdateFails
  <2>2. named' = named
    BY <1>8 DEF UpdateFails
  <2>3. \/ samplers' = samplers
        \/ /\ samplers[Current.operation] # NoSampler
           /\ samplers' = [samplers EXCEPT ![Current.operation] = WithRate(samplers[Current.operation], Current.rate)]
    BY <1>8 DEF UpdateFails
  <2> QED
    BY <1>3, <2>1, <2>2, <2>3 DEF Unnamed
<1>9. CASE \/ (\E a \in Answer : UpdateStarts(a)) \/ NoStrategy \/ CreateSampler \/ CreateFails \/ UpdateEnds
           \/ Close \/ InitPolling \/ DelayedPolling \/ PollingStarts \/ TickBegins \/ Tick \/ UNCHANGED vars
  <2>1. UNCHANGED <<samplers, named>>
    BY <1>9 DEF UpdateStarts, NoStrategy, CreateSampler, CreateFails, UpdateEnds, Close, InitPolling,
       DelayedPolling, PollingStarts, TickBegins, Tick, vars, samplerVars, adaptiveVars
  <2> QED
    BY <1>3, <2>1
<1> QED
  BY <1>4, <1>5, <1>6, <1>7, <1>8, <1>9 DEF Next, AnswerArrives, Apply

\* Calls of is_sampled alone never make an AdaptiveSampler track more than max_operations.
THEOREM OperationsAreBounded == Spec => []OperationsBounded
<1>1. Init => OperationsBounded
  <2> SUFFICES ASSUME Init PROVE OperationsBounded
    OBVIOUS
  <2>1. Known(samplers) \ named = {}
    BY DEF Init, Empty, Known
  <2>2. MaxOperations \in Nat
    BY SamplerAssumption
  <2> QED
    BY <2>1, <2>2, FS_EmptySet DEF OperationsBounded
<1> QED
  BY <1>1, TypeCorrect, StepBound, PTL DEF Spec

-----------------------------------------------------------------------------
(* The quiet after close(). *)

\* One request may still be sent after close(): by the first poll while it has not sent its
\* own, and then there is no periodic yet, or by the tick that has begun.
CloseInv ==
  /\ periodic # "none" => poll = "none"
  /\ tick => periodic # "none"
  /\ periodic = "started" => running
  /\ late = 0 \/ (late = 1 /\ ~running /\ poll \in {"starting", "none"} /\ ~tick)

LEMMA StepClose ==
  ASSUME PollType, FlagType, CloseInv, [Next]_vars
  PROVE  CloseInv'
<1> USE DEF PollType, FlagType
<1>1. CASE Close
  BY <1>1 DEF CloseInv, Close
<1>2. CASE InitPolling
  BY <1>2 DEF CloseInv, InitPolling, LoopFree
<1>3. CASE DelayedPolling
  BY <1>3 DEF CloseInv, DelayedPolling, SendRequest, LoopFree
<1>4. CASE PollingStarts
  BY <1>4 DEF CloseInv, PollingStarts, StartPeriodic
<1>5. CASE TickBegins
  BY <1>5 DEF CloseInv, TickBegins, LoopFree
<1>6. CASE Tick
  BY <1>6 DEF CloseInv, Tick, SendRequest
<1>7. CASE RequestEnds
  BY <1>7 DEF CloseInv, RequestEnds
<1>8. CASE UNCHANGED pollVars
  BY <1>8 DEF CloseInv, pollVars
<1>9. UNCHANGED vars => UNCHANGED pollVars
  BY DEF vars
<1> HIDE DEF PollType, FlagType
<1> QED
  BY <1>1, <1>2, <1>3, <1>4, <1>5, <1>6, <1>7, <1>8, <1>9, OtherSteps

LEMMA ClosesQuietly == Spec => []CloseInv
<1>1. Init => CloseInv
  BY DEF Init, CloseInv
<1>2. TypeOK => PollType /\ FlagType
  BY DEF TypeOK
<1> QED
  BY <1>1, <1>2, TypeCorrect, StepClose, PTL DEF Spec

\* close() ends the polling: at most one request is sent after it.
THEOREM QuietAfter == Spec => []QuietAfterClose
<1>1. CloseInv => QuietAfterClose
  BY DEF CloseInv, QuietAfterClose
<1> QED
  BY <1>1, ClosesQuietly, PTL

-----------------------------------------------------------------------------
(* The polling goes on. *)

\* The strategies of the answer in hand that are still to be applied, and the end of it.
ToApply == IF job = NoAnswer THEN 0 ELSE 1 + Len(job.strategies) - applied

\* The callbacks and ticks up to the next request.
ToRequest ==
  CASE poll = "starting" -> 3
    [] poll = "init"     -> 2
    [] poll = "delayed"  -> 1
    [] poll = "none"     -> IF tick THEN 1 ELSE 2

Distance == ToApply + ToRequest

\* What the loop thread can do by itself, when no request is out.
MayStep ==
  \/ LoopFree /\ (poll \in {"init", "delayed"} \/ periodic = "started")
  \/ Unlocked /\ poll = "starting"
  \/ tick
  \/ job # NoAnswer

\* The sampler always has the next request before it, and at some distance.
RequestAhead == running /\ inFlight = 0 => MayStep /\ Distance \in Nat

\* Every step that touches the polling or an answer brings it nearer.
ComesNearer ==
  [][running' /\ inFlight = 0 /\ inFlight' = 0 => Distance' < Distance \/ UNCHANGED <<jobVars, pollVars>>]_vars

\* The polling ends with close() only.
AheadInv ==
  /\ running => poll # "none" \/ periodic = "started"
  /\ job # NoAnswer => applied <= Len(job.strategies)

LEMMA AnswerLength ==
  ASSUME JobType, job # NoAnswer
  PROVE  job \in Answer /\ Len(job.strategies) \in Nat /\ applied \in Nat
<1>1. job \in Answer /\ applied \in Nat
  BY DEF JobType
<1> QED
  BY <1>1, AnswerFields

LEMMA StepPolls ==
  ASSUME TypeOK, running => poll # "none" \/ periodic = "started", [Next]_vars
  PROVE  (running => poll # "none" \/ periodic = "started")'
<1>1. CASE Close
  BY <1>1 DEF Close
<1>2. CASE InitPolling \/ DelayedPolling
  BY <1>2 DEF InitPolling, DelayedPolling
<1>3. CASE PollingStarts
  BY <1>3 DEF PollingStarts, StartPeriodic
<1>4. CASE TickBegins \/ Tick
  BY <1>4 DEF TickBegins, Tick
<1>5. CASE RequestEnds
  BY <1>5 DEF RequestEnds
<1>6. CASE UNCHANGED pollVars
  BY <1>6 DEF pollVars
<1>7. UNCHANGED vars => UNCHANGED pollVars
  BY DEF vars
<1> QED
  BY <1>1, <1>2, <1>3, <1>4, <1>5, <1>6, <1>7, OtherSteps

LEMMA StepApplied ==
  ASSUME TypeOK, job # NoAnswer => applied <= Len(job.strategies), [Next]_vars
  PROVE  (job # NoAnswer => applied <= Len(job.strategies))'
<1>1. ASSUME UNCHANGED jobVars PROVE (job # NoAnswer => applied <= Len(job.strategies))'
  BY <1>1 DEF jobVars
<1>2. ASSUME NEW answer, Done(answer) PROVE (job # NoAnswer => applied <= Len(job.strategies))'
  BY <1>2 DEF Done
<1>3. ASSUME NEW op \in Operation, IsSampled(op) PROVE UNCHANGED jobVars
  BY <1>3 DEF IsSampled
<1>4. CASE Close \/ InitPolling \/ DelayedPolling \/ PollingStarts \/ TickBegins \/ Tick \/ NoStrategy
  BY <1>1, <1>4 DEF Close, InitPolling, DelayedPolling, PollingStarts, TickBegins, Tick, NoStrategy
<1>5. ASSUME NEW r \in ValidRate, ServiceProbability(r) PROVE UNCHANGED jobVars
  BY <1>5 DEF ServiceProbability, Install
<1>6. ASSUME NEW l \in ValidBound, ServiceLimit(l) PROVE UNCHANGED jobVars
  BY <1>6 DEF ServiceLimit, Install
<1>7. ASSUME NEW a \in Answer, UpdateStarts(a) PROVE (job # NoAnswer => applied <= Len(job.strategies))'
  <2>1. job' = a /\ applied' = 0 /\ Len(a.strategies) \in Nat
    BY <1>7, AnswerFields DEF UpdateStarts
  <2> QED
    BY <2>1
<1>8. CASE CreateSampler \/ UpdateSampler
  <2>1. Pending /\ job' = job /\ applied' = applied + 1
    BY <1>8 DEF CreateSampler, UpdateSampler, Applied
  <2>2. Len(job.strategies) \in Nat /\ applied \in Nat
    BY <2>1, AnswerLength DEF Pending, TypeOK
  <2> QED
    BY <2>1, <2>2 DEF Pending
<1>9. CASE CreateFails \/ CreateEnds \/ UpdateFails
  BY <1>2, <1>9 DEF CreateFails, CreateEnds, UpdateFails
<1>10. CASE UpdateEnds
  BY <1>2, <1>10 DEF UpdateEnds, SetDefault
<1>11. CASE UNCHANGED vars
  BY <1>1, <1>11 DEF vars
<1> QED
  BY <1>1, <1>3, <1>4, <1>5, <1>6, <1>7, <1>8, <1>9, <1>10, <1>11 DEF Next, AnswerArrives, Apply

LEMMA DistanceType ==
  ASSUME TypeOK, AheadInv
  PROVE  ToApply \in Nat /\ ToRequest \in Nat /\ Distance \in Nat /\ (job # NoAnswer => ToApply > 0)
<1>1. CASE job = NoAnswer
  BY <1>1 DEF ToApply, ToRequest, Distance, TypeOK, PollType
<1>2. CASE job # NoAnswer
  <2>1. Len(job.strategies) \in Nat /\ applied \in Nat /\ applied <= Len(job.strategies)
    BY <1>2, AnswerLength DEF TypeOK, AheadInv
  <2>2. ToApply \in Nat /\ ToApply > 0
    BY <1>2, <2>1 DEF ToApply
  <2>3. ToRequest \in Nat
    BY DEF ToRequest, TypeOK, PollType
  <2> QED
    BY <2>2, <2>3 DEF Distance
<1> QED
  BY <1>1, <1>2

LEMMA StepNearer ==
  ASSUME TypeOK, AheadInv, CloseInv, [Next]_vars, running', inFlight = 0, inFlight' = 0
  PROVE  Distance' < Distance \/ UNCHANGED <<jobVars, pollVars>>
<1>a. ToApply \in Nat /\ ToRequest \in Nat /\ (job # NoAnswer => ToApply > 0)
  BY DistanceType
<1>b. ToApply' = ToApply /\ ToRequest' \in Int /\ ToRequest' < ToRequest => Distance' < Distance
  <2>1. \A a, r \in Nat : \A r2 \in Int : r2 < r => a + r2 < a + r
    OBVIOUS
  <2> QED
    BY <1>a, <2>1 DEF Distance
<1>c. ToRequest' = ToRequest /\ ToApply' \in Int /\ ToApply' < ToApply => Distance' < Distance
  <2>1. \A a, r \in Nat : \A a2 \in Int : a2 < a => a2 + r < a + r
    OBVIOUS
  <2> QED
    BY <1>a, <2>1 DEF Distance
<1>p. UNCHANGED pollVars => ToRequest' = ToRequest
  BY DEF ToRequest, pollVars
<1>j. UNCHANGED jobVars => ToApply' = ToApply
  BY DEF ToApply, jobVars
<1>d. ASSUME NEW answer, Done(answer), job # NoAnswer PROVE Distance' < Distance
  <2>1. UNCHANGED pollVars /\ ToApply' = 0
    BY <1>d DEF Done, ToApply
  <2>2. ToApply' \in Int /\ ToApply' < ToApply
    BY <1>a, <1>d, <2>1
  <2> QED
    BY <1>c, <1>p, <2>1, <2>2
<1>1. ASSUME NEW op \in Operation, IsSampled(op) PROVE UNCHANGED <<jobVars, pollVars>>
  BY <1>1 DEF IsSampled
<1>2. CASE Close
  BY <1>2 DEF Close
<1>3. CASE InitPolling
  <2>1. poll = "init" /\ poll' = "delayed" /\ UNCHANGED jobVars
    BY <1>3 DEF InitPolling
  <2> QED
    BY <1>b, <1>j, <2>1 DEF ToRequest
<1>4. CASE DelayedPolling \/ Tick
  BY <1>4 DEF DelayedPolling, Tick, SendRequest
<1>5. CASE PollingStarts
  <2>1. poll = "starting" /\ poll' = "none" /\ UNCHANGED jobVars
    BY <1>5 DEF PollingStarts
  <2> QED
    BY <1>b, <1>j, <2>1 DEF ToRequest
<1>6. CASE TickBegins
  <2>1. poll = "none" /\ poll' = "none" /\ ~tick /\ tick' /\ UNCHANGED jobVars
    BY <1>6 DEF TickBegins, LoopFree, CloseInv
  <2> QED
    BY <1>b, <1>j, <2>1 DEF ToRequest
<1>7. CASE AnswerArrives
  BY <1>7 DEF AnswerArrives, NoStrategy, ServiceProbability, ServiceLimit, UpdateStarts, RequestEnds
<1>8. CASE CreateSampler \/ UpdateSampler
  <2>1. Pending /\ job' = job /\ applied' = applied + 1 /\ UNCHANGED pollVars
    BY <1>8 DEF CreateSampler, UpdateSampler, Applied
  <2>2. Len(job.strategies) \in Nat /\ applied \in Nat
    BY <2>1, AnswerLength DEF Pending, TypeOK
  <2>3. ToApply' = 1 + Len(job.strategies) - (applied + 1) /\ ToApply = 1 + Len(job.strategies) - applied
    BY <2>1 DEF ToApply, Pending
  <2>4. ToApply' \in Int /\ ToApply' < ToApply
    BY <2>2, <2>3
  <2> QED
    BY <1>c, <1>p, <2>1, <2>4
<1>9. CASE CreateFails \/ CreateEnds \/ UpdateFails
  <2>1. job # NoAnswer /\ \E answer : Done(answer)
    BY <1>9 DEF CreateFails, CreateEnds, UpdateFails, Pending
  <2> QED
    BY <1>d, <2>1
<1>10. CASE UpdateEnds
  <2>1. job # NoAnswer /\ \E answer : Done(answer)
    BY <1>10 DEF UpdateEnds, SetDefault
  <2> QED
    BY <1>d, <2>1
<1>11. CASE UNCHANGED vars
  BY <1>11 DEF vars
<1> QED
  BY <1>1, <1>2, <1>3, <1>4, <1>5, <1>6, <1>7, <1>8, <1>9, <1>10, <1>11 DEF Next, Apply

\* An answer that cannot be applied does not end the polling: while the sampler is not closed and
\* no request is out, the loop thread has a step to take, and each one it takes, of the polling or
\* of an answer, valid or not, brings the next request nearer; what the application does meanwhile
\* delays it by nothing.
THEOREM PollingGoesOn == Spec => []RequestAhead /\ ComesNearer
<1>1. Init => AheadInv
  BY DEF Init, AheadInv
<1>2. TypeOK /\ AheadInv /\ [Next]_vars => AheadInv'
  BY StepPolls, StepApplied DEF AheadInv
<1>3. Spec => []AheadInv
  BY <1>1, <1>2, TypeCorrect, PTL DEF Spec
<1>4. TypeOK /\ AheadInv => RequestAhead
  <2>1. TypeOK /\ AheadInv => Distance \in Nat
    BY DistanceType
  <2>2. TypeOK /\ AheadInv /\ running => MayStep
    BY DEF TypeOK, AheadInv, MayStep, LoopFree, Unlocked, PollType
  <2> QED
    BY <2>1, <2>2 DEF RequestAhead
<1>5. TypeOK /\ AheadInv /\ CloseInv /\ [Next]_vars =>
        [running' /\ inFlight = 0 /\ inFlight' = 0 => Distance' < Distance \/ UNCHANGED <<jobVars, pollVars>>]_vars
  BY StepNearer
<1> QED
  BY <1>3, <1>4, <1>5, TypeCorrect, ClosesQuietly, PTL DEF Spec, ComesNearer
-----------------------------------------------------------------------------
(* New samplers. *)

ValidRates ==
  /\ kind = "adaptive" => rate \in ValidRate
  /\ job # NoAnswer => job \in Answer

LEMMA StepRates ==
  ASSUME \A a \in Answer : a.rate \in ValidRate, TypeOK, ValidRates, [Next]_vars
  PROVE  ValidRates'
<1> USE DEF ValidRates
<1>0. JobType' /\ NoAnswer \notin Answer
  BY StepJob, SamplerAssumption DEF TypeOK, SamplerType
<1>1. job' # NoAnswer => job' \in Answer
  BY <1>0 DEF JobType
<1>2. ASSUME UNCHANGED <<kind, rate>> PROVE ValidRates'
  BY <1>1, <1>2
<1>3. ASSUME NEW op \in Operation, IsSampled(op) PROVE UNCHANGED <<kind, rate>>
  BY <1>3 DEF IsSampled
<1>4. CASE Close \/ InitPolling \/ DelayedPolling \/ PollingStarts \/ TickBegins \/ Tick \/ NoStrategy
  BY <1>2, <1>4 DEF Close, InitPolling, DelayedPolling, PollingStarts, TickBegins, Tick, NoStrategy, samplerVars
<1>5. ASSUME NEW r \in ValidRate, ServiceProbability(r) PROVE ValidRates'
  BY <1>1, <1>5 DEF ServiceProbability, Install
<1>6. ASSUME NEW l \in ValidBound, ServiceLimit(l) PROVE ValidRates'
  BY <1>1, <1>6, SamplerAssumption DEF ServiceLimit, Install
<1>7. ASSUME NEW a \in Answer, UpdateStarts(a) PROVE UNCHANGED <<kind, rate>>
  BY <1>7 DEF UpdateStarts, samplerVars
<1>8. CASE CreateSampler \/ UpdateSampler \/ CreateFails \/ UpdateFails
  BY <1>2, <1>8 DEF CreateSampler, UpdateSampler, CreateFails, UpdateFails, samplerVars
<1>9. CASE CreateEnds
  BY <1>1, <1>9 DEF CreateEnds
<1>10. CASE UpdateEnds
  <2>1. rate' = job.rate /\ job # NoAnswer
    BY <1>10 DEF UpdateEnds, SetDefault
  <2> QED
    BY <1>1, <2>1
<1>11. CASE UNCHANGED vars
  BY <1>2, <1>11 DEF vars, samplerVars
<1> QED
  BY <1>2, <1>3, <1>4, <1>5, <1>6, <1>7, <1>8, <1>9, <1>10, <1>11 DEF Next, AnswerArrives, Apply

\* The assertion of ProbabilisticSampler fails in is_sampled over an answer's default rate only: as
\* long as those are probabilities, it does not, whatever else is wrong with the answers, and
\* wherever they fail.
THEOREM ValidDefaultsSuffice ==
  ASSUME \A a \in Answer : a.rate \in ValidRate
  PROVE  Spec => []NewSamplersValid
<1>1. Init => ValidRates
  BY SamplerAssumption DEF Init, ValidRates
<1>2. TypeOK /\ ValidRates /\ [Next]_vars => ValidRates'
  BY StepRates
<1>3. ValidRates => NewSamplersValid
  BY DEF ValidRates, NewSamplersValid
<1> QED
  BY <1>1, <1>2, <1>3, TypeCorrect, PTL DEF Spec
=============================================================================
