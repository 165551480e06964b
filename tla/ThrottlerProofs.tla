--------------------------- MODULE ThrottlerProofs ---------------------------
(***************************************************************************)
(* Theorems about Throttler: its types, the credits that are accounted     *)
(* for, the one client id of its requests, the quiet after close(), and    *)
(* the ticks until then.                                                   *)
(***************************************************************************)
EXTENDS Throttler, FiniteSetTheorems, TLAPS

LEMMA RemoveAtElements ==
  ASSUME NEW S, NEW seq \in Seq(S), NEW i \in 1 .. Len(seq)
  PROVE  /\ RemoveAt(seq, i) \in Seq(S) /\ Len(RemoveAt(seq, i)) = Len(seq) - 1
         /\ \A j \in 1 .. Len(RemoveAt(seq, i)) : \E k \in 1 .. Len(seq) : RemoveAt(seq, i)[j] = seq[k]
<1> DEFINE front == SubSeq(seq, 1, i - 1)
           back  == SubSeq(seq, i + 1, Len(seq))
<1>1. RemoveAt(seq, i) = front \o back
  BY DEF RemoveAt
<1>2. front \in Seq(S) /\ Len(front) = i - 1 /\ \A j \in 1 .. i - 1 : front[j] = seq[j]
  OBVIOUS
<1>3. back \in Seq(S) /\ Len(back) = Len(seq) - i /\ \A j \in 1 .. Len(seq) - i : back[j] = seq[i + j]
  OBVIOUS
<1> HIDE DEF front, back
<1>4. front \o back \in Seq(S) /\ Len(front \o back) = Len(seq) - 1
  BY <1>2, <1>3
<1>5. ASSUME NEW j \in 1 .. Len(seq) - 1
      PROVE  \E k \in 1 .. Len(seq) : (front \o back)[j] = seq[k]
  <2>1. CASE j <= i - 1
    <3>1. (front \o back)[j] = seq[j]
      BY <1>2, <1>3, <2>1
    <3> QED
      BY <3>1
  <2>2. CASE j > i - 1
    <3>1. j - (i - 1) \in 1 .. Len(seq) - i
      BY <2>2
    <3>2. (front \o back)[j] = back[j - (i - 1)]
      BY <1>2, <1>3, <2>2
    <3>3. (front \o back)[j] = seq[j + 1]
      BY <1>3, <3>1, <3>2
    <3> QED
      BY <3>3
  <2>3. j \in Int /\ i \in Int
    OBVIOUS
  <2>4. j <= i - 1 \/ j > i - 1
    BY <2>3
  <2> QED
    BY <2>1, <2>2, <2>4
<1> DEFINE rest == front \o back
<1>6. rest \in Seq(S) /\ Len(rest) = Len(seq) - 1 /\ \A j \in 1 .. Len(rest) : \E k \in 1 .. Len(seq) : rest[j] = seq[k]
  BY <1>4, <1>5
<1>7. RemoveAt(seq, i) = rest
  BY <1>1
<1> HIDE DEF rest
<1> QED
  BY <1>6, <1>7

-----------------------------------------------------------------------------
(* Types. *)

LEMMA InitType == Init => TypeOK
<1>1. Init => CreditType
  BY DEF Init, CreditType
<1>2. Init => RequestType
  BY DEF Init, RequestType
<1>3. Init => PollType
  BY DEF Init, PollType
<1>4. Init => FlagType
  BY DEF Init, FlagType
<1> QED
  BY <1>1, <1>2, <1>3, <1>4 DEF TypeOK

LEMMA StepCredits ==
  ASSUME TypeOK, [Next]_vars
  PROVE  CreditType'
<1> USE DEF TypeOK, CreditType
<1>1. ASSUME NEW t \in Tracer, NewTracer(t) PROVE CreditType'
  BY <1>1 DEF NewTracer, creditVars, historyVars
<1>2. ASSUME NEW op \in Operation, IsAllowed(op) PROVE CreditType'
  <2>1. CASE Spend(op)
    <3>1. credits[op] - Unit \in Nat /\ spent[op] + 1 \in Nat
      BY <2>1, ThrottlerAssumption DEF Spend
    <3> QED
      BY <1>2, <2>1, <3>1 DEF IsAllowed, Spend
  <2>2. CASE Deny(op)
    BY <1>2, <2>2 DEF IsAllowed, Deny
  <2> QED
    BY <1>2, <2>1, <2>2 DEF IsAllowed
<1>3. CASE WalkEnds
  BY <1>3 DEF WalkEnds, creditVars
<1>4. CASE RequestEnds
  <2>1. PICK operations \in SUBSET Operation : \E answer \in [operations -> Balance] :
          /\ UpdateCredits(answer)
          /\ granted' = [op \in Operation |-> granted[op] + (IF op \in operations THEN answer[op] ELSE 0)]
    BY <1>4 DEF RequestEnds
  <2>2. PICK answer \in [operations -> Balance] :
          /\ UpdateCredits(answer)
          /\ granted' = [op \in Operation |-> granted[op] + (IF op \in operations THEN answer[op] ELSE 0)]
    BY <2>1
  <2>3. \A op \in operations : answer[op] \in Nat
    BY ThrottlerAssumption
  <2>4. DOMAIN answer = operations /\ known' \subseteq Operation
    BY <2>2 DEF UpdateCredits
  <2>5. credits' \in [Operation -> Nat]
    BY <2>2, <2>3, <2>4 DEF UpdateCredits
  <2>6. \A op \in Operation : granted[op] + (IF op \in operations THEN answer[op] ELSE 0) \in Nat
    BY <2>3
  <2>7. granted' \in [Operation -> Nat]
    BY <2>2, <2>6
  <2> QED
    BY <1>4, <2>4, <2>5, <2>7 DEF RequestEnds
<1>5. CASE Close \/ InitPolling \/ DelayedPolling \/ PollingStarts \/ Tick \/ WalkFails \/ UNCHANGED vars
  BY <1>5 DEF Close, InitPolling, DelayedPolling, PollingStarts, Tick, WalkFails, vars, creditVars, historyVars
<1> QED
  BY <1>1, <1>2, <1>3, <1>4, <1>5 DEF Next, Walk

LEMMA StepRequests ==
  ASSUME TypeOK, [Next]_vars
  PROVE  RequestType'
<1> USE DEF TypeOK, RequestType
<1>1. ASSUME NEW t \in Tracer, NewTracer(t) PROVE RequestType'
  BY <1>1 DEF NewTracer, SetClientId
<1>2. ASSUME NEW op \in Operation, IsAllowed(op) PROVE RequestType'
  BY <1>2 DEF IsAllowed, clientVars
<1>3. CASE WalkEnds
  <2>1. [client |-> clientId, operations |-> known] \in Request
    BY DEF Request, CreditType
  <2> QED
    BY <1>3, <2>1 DEF WalkEnds, clientVars
<1>4. CASE RequestEnds
  BY <1>4, RemoveAtElements DEF RequestEnds, clientVars
<1>5. CASE Close \/ InitPolling \/ DelayedPolling \/ PollingStarts \/ Tick \/ WalkFails \/ UNCHANGED vars
  BY <1>5 DEF Close, InitPolling, DelayedPolling, PollingStarts, Tick, WalkFails, vars, clientVars
<1> QED
  BY <1>1, <1>2, <1>3, <1>4, <1>5 DEF Next, Walk

LEMMA StepPoll ==
  ASSUME TypeOK, [Next]_vars
  PROVE  PollType'
<1> USE DEF TypeOK, PollType
<1>1. ASSUME NEW t \in Tracer, NewTracer(t) PROVE PollType'
  BY <1>1 DEF NewTracer, pollVars, historyVars
<1>2. ASSUME NEW op \in Operation, IsAllowed(op) PROVE PollType'
  BY <1>2 DEF IsAllowed, pollVars
<1>3. CASE DelayedPolling \/ Tick
  BY <1>3 DEF DelayedPolling, Tick, CreditType, historyVars
<1>4. CASE WalkEnds \/ WalkFails
  BY <1>4 DEF WalkEnds, WalkFails, LeaveWalk, historyVars
<1>5. CASE Close \/ InitPolling \/ PollingStarts \/ RequestEnds \/ UNCHANGED vars
  BY <1>5 DEF Close, InitPolling, PollingStarts, StartPeriodic, RequestEnds, vars, pollVars, historyVars
<1> QED
  BY <1>1, <1>2, <1>3, <1>4, <1>5 DEF Next, Walk

LEMMA StepFlags ==
  ASSUME FlagType, [Next]_vars
  PROVE  FlagType'
<1> USE DEF FlagType
<1>1. ASSUME NEW t \in Tracer, NewTracer(t) PROVE FlagType'
  BY <1>1 DEF NewTracer, pollVars
<1>2. ASSUME NEW op \in Operation, IsAllowed(op) PROVE FlagType'
  BY <1>2 DEF IsAllowed, pollVars
<1>3. CASE WalkEnds \/ WalkFails
  BY <1>3 DEF WalkEnds, WalkFails, LeaveWalk
<1>4. CASE Close \/ InitPolling \/ DelayedPolling \/ PollingStarts \/ Tick
  BY <1>4 DEF Close, InitPolling, DelayedPolling, PollingStarts, Tick
<1>5. CASE RequestEnds \/ UNCHANGED vars
  BY <1>5 DEF RequestEnds, vars, pollVars
<1> QED
  BY <1>1, <1>2, <1>3, <1>4, <1>5 DEF Next, Walk

\* Type correctness: also, is_allowed never leaves an operation with less than no credit.
THEOREM TypeCorrect == Spec => []TypeOK
<1>1. TypeOK /\ [Next]_vars => TypeOK'
  BY StepCredits, StepRequests, StepPoll, StepFlags DEF TypeOK
<1> QED
  BY InitType, <1>1, PTL DEF Spec

-----------------------------------------------------------------------------
(* Credits. *)

LEMMA StepAccounts ==
  ASSUME TypeOK, CreditsAccounted, [Next]_vars
  PROVE  CreditsAccounted'
<1> USE DEF TypeOK, CreditType
<1> SUFFICES ASSUME NEW o \in Operation
             PROVE  credits'[o] + Unit * spent'[o] = granted'[o]
  BY DEF CreditsAccounted
<1>1. credits[o] + Unit * spent[o] = granted[o]
  BY DEF CreditsAccounted
<1>2. ASSUME NEW op \in Operation, IsAllowed(op)
      PROVE  credits'[o] + Unit * spent'[o] = granted'[o]
  <2>1. granted' = granted
    BY <1>2 DEF IsAllowed
  <2>2. CASE Spend(op) /\ o = op
    <3>1. credits'[o] = credits[o] - Unit /\ spent'[o] = spent[o] + 1
      BY <2>2 DEF Spend
    <3>2. Unit \in Nat /\ spent[o] \in Nat /\ credits[o] \in Nat
      BY ThrottlerAssumption
    <3>3. Unit * (spent[o] + 1) = Unit * spent[o] + Unit
      BY <3>2
    <3>4. Unit * spent[o] \in Nat
      BY <3>2
    <3> QED
      BY <1>1, <2>1, <3>1, <3>2, <3>3, <3>4
  <2>3. CASE Spend(op) /\ o # op
    BY <1>1, <2>1, <2>3 DEF Spend
  <2>4. CASE Deny(op)
    BY <1>1, <2>1, <2>4 DEF Deny
  <2> QED
    BY <1>2, <2>2, <2>3, <2>4 DEF IsAllowed
<1>3. CASE RequestEnds
  <2>1. PICK operations \in SUBSET Operation : \E answer \in [operations -> Balance] :
          /\ UpdateCredits(answer)
          /\ granted' = [op \in Operation |-> granted[op] + (IF op \in operations THEN answer[op] ELSE 0)]
    BY <1>3 DEF RequestEnds
  <2>2. PICK answer \in [operations -> Balance] :
          /\ UpdateCredits(answer)
          /\ granted' = [op \in Operation |-> granted[op] + (IF op \in operations THEN answer[op] ELSE 0)]
    BY <2>1
  <2>3. spent' = spent
    BY <1>3 DEF RequestEnds
  <2>4. CASE o \in operations
    <3>1. credits'[o] = credits[o] + answer[o] /\ granted'[o] = granted[o] + answer[o]
      BY <2>2, <2>4 DEF UpdateCredits
    <3>2. answer[o] \in Nat /\ spent[o] \in Nat /\ credits[o] \in Nat /\ Unit \in Nat
      BY <2>4, ThrottlerAssumption
    <3>3. Unit * spent[o] \in Nat
      BY <3>2
    <3> QED
      BY <1>1, <2>3, <3>1, <3>2, <3>3
  <2>5. CASE o \notin operations
    <3>1. credits'[o] = credits[o] /\ granted'[o] = granted[o]
      BY <2>2, <2>5 DEF UpdateCredits
    <3> QED
      BY <1>1, <2>3, <3>1
  <2> QED
    BY <2>4, <2>5
<1>4. ASSUME NEW t \in Tracer, NewTracer(t)
      PROVE  credits'[o] + Unit * spent'[o] = granted'[o]
  BY <1>1, <1>4 DEF NewTracer, creditVars, historyVars
<1>5. CASE Close \/ InitPolling \/ DelayedPolling \/ PollingStarts \/ Tick \/ Walk \/ UNCHANGED vars
  <2>1. UNCHANGED <<credits, spent, granted>>
    BY <1>5 DEF Close, InitPolling, DelayedPolling, PollingStarts, Tick, Walk, WalkEnds, WalkFails, vars, creditVars, historyVars
  <2> QED
    BY <1>1, <2>1
<1> QED
  BY <1>2, <1>3, <1>4, <1>5 DEF Next

\* Credits are neither created nor destroyed, for any number of threads, answers and operations:
\* with TypeCorrect, the debug spans allowed never exceed the credits that were granted.
THEOREM CreditsKept == Spec => []CreditsAccounted
<1>1. Init => CreditsAccounted
  BY ThrottlerAssumption DEF Init, CreditsAccounted
<1> QED
  BY <1>1, InitType, TypeCorrect, StepAccounts, PTL DEF Spec

-----------------------------------------------------------------------------
(* One client. *)

\* The client id is that of an existing tracer as soon as an operation is known, and a walk
\* is in progress only if one is.
ClientInv ==
  /\ clientId # NoClient => clientId \in tracers
  /\ clientId = NoClient => tracers = {} /\ known = {}
  /\ inFlight # <<>> => clientId # NoClient
  /\ poll = "walking" \/ tick => known # {}
  /\ OneClient

LEMMA StepClient ==
  ASSUME TypeOK, ClientInv, [Next]_vars
  PROVE  ClientInv'
<1> USE DEF TypeOK, RequestType, CreditType
<1>1. ASSUME NEW t \in Tracer, NewTracer(t) PROVE ClientInv'
  <2>1. CASE clientId = NoClient
    BY <1>1, <2>1, ThrottlerAssumption DEF ClientInv, OneClient, NewTracer, SetClientId, creditVars, pollVars
  <2>2. CASE clientId # NoClient
    BY <1>1, <2>2 DEF ClientInv, OneClient, NewTracer, SetClientId, creditVars, pollVars
  <2> QED
    BY <2>1, <2>2
<1>2. ASSUME NEW op \in Operation, IsAllowed(op) PROVE ClientInv'
  BY <1>2 DEF ClientInv, OneClient, IsAllowed, Spend, Deny, clientVars, pollVars
<1>3. CASE WalkEnds
  <2>1. clientId # NoClient /\ UNCHANGED <<clientVars, creditVars>>
    BY <1>3 DEF WalkEnds, LeaveWalk, ClientInv
  <2>2. inFlight' = Append(inFlight, [client |-> clientId, operations |-> known])
    BY <1>3 DEF WalkEnds
  <2>3. OneClient'
    <3> SUFFICES ASSUME NEW i \in 1 .. Len(inFlight')
                 PROVE  inFlight'[i].client \in tracers /\ inFlight'[i].client = clientId
      BY <2>1 DEF OneClient, clientVars
    <3>1. CASE i \in 1 .. Len(inFlight)
      BY <2>2, <3>1 DEF ClientInv, OneClient
    <3>2. CASE i = Len(inFlight) + 1
      BY <2>1, <2>2, <3>2 DEF ClientInv
    <3> QED
      BY <2>2, <3>1, <3>2
  <2> QED
    BY <1>3, <2>1, <2>3 DEF ClientInv, WalkEnds, LeaveWalk, clientVars, creditVars
<1>4. CASE WalkFails
  BY <1>4 DEF ClientInv, OneClient, WalkFails, LeaveWalk, clientVars, creditVars
<1>5. CASE RequestEnds
  <2>1. UNCHANGED <<clientVars, pollVars>> /\ known \subseteq known'
    BY <1>5 DEF RequestEnds, UpdateCredits
  <2>2. PICK i \in 1 .. Len(inFlight) : inFlight' = RemoveAt(inFlight, i)
    BY <1>5 DEF RequestEnds
  <2>3. inFlight # <<>>
    BY <2>2
  <2>4. OneClient'
    BY <2>1, <2>2, RemoveAtElements DEF ClientInv, OneClient, clientVars
  <2> QED
    BY <2>1, <2>3, <2>4 DEF ClientInv, clientVars, pollVars
<1>6. CASE InitPolling \/ DelayedPolling \/ PollingStarts \/ Tick
  BY <1>6 DEF ClientInv, OneClient, InitPolling, DelayedPolling, PollingStarts, Tick, clientVars, creditVars
<1>7. CASE Close \/ UNCHANGED vars
  BY <1>7 DEF ClientInv, OneClient, Close, vars, clientVars, creditVars, pollVars
<1> QED
  BY <1>1, <1>2, <1>3, <1>4, <1>5, <1>6, <1>7 DEF Next, Walk

\* All requests name the same client, whenever tracers are created and requests end.
THEOREM ClientKept == Spec => []OneClient
<1>1. Init => ClientInv
  BY DEF Init, ClientInv, OneClient
<1>2. Spec => []ClientInv
  BY <1>1, TypeCorrect, StepClient, PTL DEF Spec
<1> QED
  BY <1>2, PTL DEF ClientInv

-----------------------------------------------------------------------------
(* The quiet after close(). *)

\* One request may still be sent after close(): by the first poll while it has not sent its
\* own, and then there is no periodic yet, or by the tick that has begun.
CloseInv ==
  /\ periodic # "none" => poll = "none"
  /\ tick => periodic # "none"
  /\ periodic = "started" => running
  /\ late = 0 \/ (late = 1 /\ ~running /\ poll \in {"starting", "none"} /\ ~tick)

LEMMA StepClose ==
  ASSUME TypeOK, CloseInv, [Next]_vars
  PROVE  CloseInv'
<1> USE DEF TypeOK, PollType, FlagType
<1>1. ASSUME NEW t \in Tracer, NewTracer(t) PROVE CloseInv'
  BY <1>1 DEF CloseInv, NewTracer, pollVars, historyVars
<1>2. ASSUME NEW op \in Operation, IsAllowed(op) PROVE CloseInv'
  BY <1>2 DEF CloseInv, IsAllowed, pollVars
<1>3. CASE WalkEnds
  BY <1>3 DEF CloseInv, WalkEnds, LeaveWalk
<1>4. CASE WalkFails
  BY <1>4 DEF CloseInv, WalkFails, LeaveWalk, historyVars
<1>5. CASE InitPolling
  BY <1>5 DEF CloseInv, InitPolling, LoopFree, historyVars
<1>6. CASE DelayedPolling
  BY <1>6 DEF CloseInv, DelayedPolling, LoopFree, historyVars
<1>7. CASE PollingStarts
  BY <1>7 DEF CloseInv, PollingStarts, StartPeriodic, historyVars
<1>8. CASE Tick
  BY <1>8 DEF CloseInv, Tick, LoopFree, historyVars
<1>9. CASE Close
  BY <1>9 DEF CloseInv, Close, historyVars
<1>10. CASE RequestEnds \/ UNCHANGED vars
  BY <1>10 DEF CloseInv, RequestEnds, vars, pollVars, historyVars
<1> QED
  BY <1>1, <1>2, <1>3, <1>4, <1>5, <1>6, <1>7, <1>8, <1>9, <1>10 DEF Next, Walk

LEMMA ClosesQuietly == Spec => []CloseInv
<1>1. Init => CloseInv
  BY DEF Init, CloseInv
<1> QED
  BY <1>1, TypeCorrect, StepClose, PTL DEF Spec

\* close() ends the polling: at most one request is sent after it, wherever it meets the
\* first poll or a tick.
THEOREM QuietAfter == Spec => []QuietAfterClose
<1>1. CloseInv => QuietAfterClose
  BY DEF CloseInv, QuietAfterClose
<1> QED
  BY <1>1, ClosesQuietly, PTL

-----------------------------------------------------------------------------
(* The ticks ask for all. *)

\* The throttler polls, and some operation was denied that no request has named yet.
Owed == running /\ periodic # "none" /\ ~(known \subseteq asked)

\* What the loop thread can do then: end a walk, tick, or end a request.
MayStep == tick \/ (LoopFree /\ periodic = "started" /\ known # {} /\ (Len(inFlight) < MaxInFlight \/ inFlight # <<>>))

\* How far the tick is that will ask.  A walk fails only if an operation was inserted since it
\* started, so that the operations that are not known yet bound the walks that fail.
TickEffort == IF tick THEN IF walked = known THEN 1 ELSE 3 ELSE 2
Effort == 4 * Cardinality(Operation \ known) + TickEffort + Len(inFlight)

\* An operation that is owed a request has one before it, at some distance.
AskAhead == Owed => MayStep /\ Effort \in Nat

\* Every step that touches the keys or the polling brings it nearer.
ComesNearer == [][Owed' => Effort' < Effort \/ ~Owed \/ UNCHANGED <<known, pollVars, inFlight>>]_vars

\* The periodic ends with close() only.
TickInv == running => periodic # "stopped"

LEMMA StepTicks ==
  ASSUME TypeOK, TickInv, [Next]_vars
  PROVE  TickInv'
<1> USE DEF TickInv
<1>1. ASSUME NEW t \in Tracer, NewTracer(t) PROVE TickInv'
  BY <1>1 DEF NewTracer, pollVars
<1>2. ASSUME NEW op \in Operation, IsAllowed(op) PROVE TickInv'
  BY <1>2 DEF IsAllowed, pollVars
<1>3. CASE WalkEnds \/ WalkFails
  BY <1>3 DEF WalkEnds, WalkFails
<1>4. CASE Close \/ InitPolling \/ DelayedPolling \/ PollingStarts \/ Tick
  BY <1>4 DEF Close, InitPolling, DelayedPolling, PollingStarts, StartPeriodic, Tick
<1>5. CASE RequestEnds \/ UNCHANGED vars
  BY <1>5 DEF RequestEnds, vars, pollVars
<1> QED
  BY <1>1, <1>2, <1>3, <1>4, <1>5 DEF Next, Walk

\* More operations are known: fewer are not.
LEMMA FewerUnknown ==
  ASSUME IsFiniteSet(Operation), NEW K, NEW K2, K \subseteq K2
  PROVE  /\ Cardinality(Operation \ K) \in Nat /\ Cardinality(Operation \ K2) \in Nat
         /\ Cardinality(Operation \ K2) <= Cardinality(Operation \ K)
         /\ K2 \subseteq Operation /\ K2 # K => Cardinality(Operation \ K2) < Cardinality(Operation \ K)
<1>1. IsFiniteSet(Operation \ K)
  BY FS_Subset
<1>2. Operation \ K2 \in SUBSET (Operation \ K)
  OBVIOUS
<1>3. IsFiniteSet(Operation \ K2)
  BY <1>1, <1>2, FS_Subset
<1>4. Cardinality(Operation \ K) \in Nat /\ Cardinality(Operation \ K2) \in Nat
  BY <1>1, <1>3, FS_CardinalityType
<1>5. /\ Cardinality(Operation \ K2) <= Cardinality(Operation \ K)
      /\ Cardinality(Operation \ K) = Cardinality(Operation \ K2) => Operation \ K = Operation \ K2
  BY <1>1, <1>2, FS_Subset
<1>6. K2 \subseteq Operation /\ K2 # K => Operation \ K # Operation \ K2
  OBVIOUS
<1> QED
  BY <1>4, <1>5, <1>6

LEMMA StepNearer ==
  ASSUME IsFiniteSet(Operation), TypeOK, CloseInv, [Next]_vars, Owed, Owed'
  PROVE  Effort' < Effort \/ UNCHANGED <<known, pollVars, inFlight>>
<1> DEFINE Unknown == Cardinality(Operation \ known)
<1>a. poll = "none" /\ inFlight \in Seq(Request) /\ known \subseteq Operation /\ Len(inFlight) \in Nat
  BY DEF Owed, CloseInv, TypeOK, CreditType, RequestType
<1>b. Unknown \in Nat
  BY FewerUnknown
<1>c. TickEffort \in 1 .. 3 /\ TickEffort' \in 1 .. 3
  BY DEF TickEffort
<1>d. \A u, u2, n, n2 \in Nat : \A t, t2 \in 1 .. 3 :
        \/ u2 < u /\ n2 = n
        \/ u2 <= u /\ n2 < n /\ t2 = t
        \/ u2 = u /\ n2 = n /\ t2 < t
        => 4 * u2 + t2 + n2 < 4 * u + t + n
  OBVIOUS
<1>e. ASSUME Unknown' \in Nat, Len(inFlight') \in Nat,
             \/ Unknown' < Unknown /\ Len(inFlight') = Len(inFlight)
             \/ Unknown' <= Unknown /\ Len(inFlight') < Len(inFlight) /\ TickEffort' = TickEffort
             \/ Unknown' = Unknown /\ Len(inFlight') = Len(inFlight) /\ TickEffort' < TickEffort
      PROVE  Effort' < Effort
  <2>1. Effort' = 4 * Unknown' + TickEffort' + Len(inFlight')
    BY DEF Effort
  <2>2. Effort = 4 * Unknown + TickEffort + Len(inFlight)
    BY DEF Effort
  <2> HIDE DEF Unknown
  <2> QED
    BY <1>a, <1>b, <1>c, <1>d, <1>e, <2>1, <2>2
<1>1. ASSUME NEW t \in Tracer, NewTracer(t) PROVE UNCHANGED <<known, pollVars, inFlight>>
  BY <1>1 DEF NewTracer, creditVars
<1>2. ASSUME NEW op \in Operation, IsAllowed(op) PROVE Effort' < Effort \/ UNCHANGED <<known, pollVars, inFlight>>
  <2>1. UNCHANGED <<pollVars, inFlight>> /\ (known' = known \/ known' = known \cup {op})
    BY <1>2 DEF IsAllowed, Spend, Deny
  <2>2. CASE known' = known
    BY <2>1, <2>2
  <2>3. CASE known' # known
    <3>1. Unknown' \in Nat /\ Unknown' < Unknown
      BY <1>a, <2>1, <2>3, FewerUnknown
    <3> QED
      BY <1>a, <1>e, <2>1, <3>1
  <2> QED
    BY <2>2, <2>3
<1>3. CASE Close
  BY <1>3 DEF Close, Owed
<1>4. CASE InitPolling \/ DelayedPolling \/ PollingStarts
  BY <1>a, <1>4 DEF InitPolling, DelayedPolling, PollingStarts
<1>5. CASE Tick
  <2>1. ~tick /\ tick' /\ walked' = known' /\ known' = known /\ inFlight' = inFlight
    BY <1>5 DEF Tick, LoopFree, creditVars
  <2>2. TickEffort' = 1 /\ TickEffort = 2
    BY <2>1 DEF TickEffort
  <2> QED
    BY <1>a, <1>b, <1>e, <2>1, <2>2
<1>6. CASE WalkEnds
  <2>1. known' \subseteq asked'
    BY <1>6 DEF WalkEnds, creditVars
  <2> QED
    BY <2>1 DEF Owed
<1>7. CASE WalkFails
  <2>1. tick /\ ~tick' /\ walked # known /\ known' = known /\ inFlight' = inFlight
    BY <1>a, <1>7 DEF WalkFails, LeaveWalk, creditVars
  <2>2. TickEffort' = 2 /\ TickEffort = 3
    BY <2>1 DEF TickEffort
  <2> QED
    BY <1>a, <1>b, <1>e, <2>1, <2>2
<1>8. CASE RequestEnds
  <2>1. PICK i \in 1 .. Len(inFlight) : inFlight' = RemoveAt(inFlight, i)
    BY <1>8 DEF RequestEnds
  <2>2. ~tick /\ ~tick' /\ known \subseteq known'
    BY <1>8 DEF RequestEnds, LoopFree, pollVars, UpdateCredits
  <2>3. TickEffort' = TickEffort
    BY <2>2 DEF TickEffort
  <2>4. Unknown' \in Nat /\ Unknown' <= Unknown
    BY <2>2, FewerUnknown
  <2>5. Len(inFlight') = Len(inFlight) - 1
    BY <1>a, <2>1, RemoveAtElements
  <2>6. Len(inFlight') \in Nat /\ Len(inFlight') < Len(inFlight)
    BY <1>a, <2>1, <2>5
  <2> QED
    BY <1>e, <2>3, <2>4, <2>6
<1>9. CASE UNCHANGED vars
  BY <1>9 DEF vars, creditVars
<1> QED
  BY <1>1, <1>2, <1>3, <1>4, <1>5, <1>6, <1>7, <1>8, <1>9 DEF Next, Walk

\* Once the periodic was started, a walk that fails does not end the polling, and with finitely
\* many operations only so many walks can fail: as long as a denied operation was in no request
\* and the throttler is not closed, the loop thread has a step to take, and each step brings the
\* request that names it nearer.
THEOREM TicksGoOn == ASSUME IsFiniteSet(Operation) PROVE Spec => []AskAhead /\ ComesNearer
<1>1. Init => TickInv
  BY DEF Init, TickInv
<1>2. Spec => []TickInv
  BY <1>1, TypeCorrect, StepTicks, PTL DEF Spec
<1>3. TypeOK /\ CloseInv /\ TickInv => AskAhead
  <2> SUFFICES ASSUME TypeOK, CloseInv, TickInv, Owed
               PROVE  MayStep /\ Effort \in Nat
    BY DEF AskAhead
  <2>1. Len(inFlight) \in Nat /\ known # {} /\ poll = "none" /\ periodic = "started"
    BY DEF TypeOK, RequestType, PollType, CloseInv, TickInv, Owed
  <2>2. MayStep
    BY <2>1, ThrottlerAssumption DEF MayStep, LoopFree, TypeOK, RequestType
  <2>3. Cardinality(Operation \ known) \in Nat /\ TickEffort \in Nat
    BY FewerUnknown DEF TickEffort
  <2> QED
    BY <2>1, <2>2, <2>3 DEF Effort
<1>4. TypeOK /\ CloseInv /\ [Next]_vars =>
        [Owed' => Effort' < Effort \/ ~Owed \/ UNCHANGED <<known, pollVars, inFlight>>]_vars
  BY StepNearer
<1> QED
  BY <1>2, <1>3, <1>4, TypeCorrect, ClosesQuietly, PTL DEF Spec, ComesNearer
-----------------------------------------------------------------------------
(* The first poll. *)

\* No operation is seen for the first time while the first fetch walks the keys.
QuietFirstWalk == [][poll = "walking" => known' = known]_known

Polls == running => poll # "none" \/ periodic = "started"

WalkInv == poll = "walking" => walked = known

LEMMA StepPolls ==
  ASSUME TypeOK, CloseInv, WalkInv, Polls, [Next]_vars, [poll = "walking" => known' = known]_known
  PROVE  WalkInv' /\ Polls'
<1> USE DEF WalkInv, Polls
<1>1. ASSUME UNCHANGED pollVars PROVE WalkInv' /\ Polls'
  BY <1>1 DEF pollVars
<1>2. ASSUME NEW t \in Tracer, NewTracer(t) PROVE UNCHANGED pollVars
  BY <1>2 DEF NewTracer
<1>3. ASSUME NEW op \in Operation, IsAllowed(op) PROVE UNCHANGED pollVars
  BY <1>3 DEF IsAllowed
<1>4. CASE RequestEnds \/ UNCHANGED vars
  BY <1>1, <1>4 DEF RequestEnds, vars
<1>5. CASE Close
  BY <1>5 DEF Close, creditVars
<1>6. CASE InitPolling \/ DelayedPolling
  BY <1>6 DEF InitPolling, DelayedPolling, creditVars
<1>7. CASE PollingStarts
  BY <1>7 DEF PollingStarts, StartPeriodic
<1>8. CASE Tick
  BY <1>8 DEF Tick, creditVars, LoopFree
<1>9. CASE WalkEnds
  BY <1>9 DEF WalkEnds, LeaveWalk, creditVars
<1>10. CASE WalkFails
  <2>1. poll # "walking"
    BY <1>10 DEF WalkFails
  <2> QED
    BY <1>10, <2>1 DEF WalkFails, LeaveWalk, creditVars
<1> QED
  BY <1>1, <1>2, <1>3, <1>4, <1>5, <1>6, <1>7, <1>8, <1>9, <1>10 DEF Next, Walk

\* The throttler fails to start polling over an operation that is inserted during the first walk only:
\* without one, the polling goes from the first poll to the periodic and ends with close() alone.
THEOREM QuietWalkStartsPolling == Spec /\ QuietFirstWalk => []Polls
<1>1. Init => WalkInv /\ Polls
  BY DEF Init, WalkInv, Polls
<1>2. TypeOK /\ CloseInv /\ WalkInv /\ Polls /\ [Next]_vars /\ [poll = "walking" => known' = known]_known
        => WalkInv' /\ Polls'
  BY StepPolls
<1> QED
  BY <1>1, <1>2, TypeCorrect, ClosesQuietly, PTL DEF Spec, QuietFirstWalk
==============================================================================
