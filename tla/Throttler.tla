----------------------------- MODULE Throttler -----------------------------
(***************************************************************************)
(* jaeger_client.throttler.RemoteThrottler: application threads spend      *)
(* credits to start debug spans (is_allowed, under self.lock); the loop    *)
(* thread asks the agent for more, once after a random delay and then at   *)
(* every tick of a PeriodicCallback, and adds what the answers grant.      *)
(*                                                                         *)
(* A method that holds self.lock to its end is one action.  A fetch holds  *)
(* it nowhere: _operations returns the live keys view of the dict, which   *)
(* local_agent_net.py walks while threads may insert operations.  So a     *)
(* fetch is a step that starts the walk and a step that ends it.           *)
(* Credits are counted in fractions: Unit of them are MINIMUM_CREDITS.     *)
(***************************************************************************)
EXTENDS Integers, SequencesExt

CONSTANTS
  Operation,
  Tracer,       \* the tracers that share the throttler, named by their client ids
  NoClient,     \* client_id = None
  Unit,         \* MINIMUM_CREDITS
  Balance,      \* the balances an answer may carry
  GrantLimit,   \* bound: the credits the service grants to one operation
  MaxInFlight   \* bound: requests out at a time (a request ends after DEFAULT_TIMEOUT)

ASSUME ThrottlerAssumption ==
  /\ Unit \in Nat \ {0} /\ Balance \subseteq Nat /\ GrantLimit \in Nat
  /\ MaxInFlight \in Nat \ {0} /\ NoClient \notin Tracer

VARIABLES
  known,      \* the keys of self.credits
  credits,    \* self.credits; 0 where there is no key
  clientId,   \* self.client_id
  tracers,    \* the tracers that exist
  running,    \* self.running
  poll,       \* how far the first poll is: _init_polling, then _delayed_polling
  periodic,   \* self.periodic: "none", "started" or "stopped"
  tick,       \* is a tick of the periodic in the middle of its fetch?
  walked,     \* the keys there were when the walk in progress started
  inFlight,   \* the unanswered requests
  spent,      \* history: debug spans allowed, by operation
  granted,    \* history: credits granted by answers, by operation
  asked,      \* history: the operations some request named
  late        \* history: the number of requests sent after close()

creditVars  == <<known, credits>>
clientVars  == <<clientId, tracers>>
pollVars    == <<running, poll, periodic, tick, walked>>
historyVars == <<spent, granted, asked, late>>
vars == <<creditVars, clientVars, pollVars, inFlight, historyVars>>

Init ==
  /\ known = {} /\ credits = [op \in Operation |-> 0]
  /\ clientId = NoClient /\ tracers = {}
  /\ running = TRUE /\ poll = "init" /\ periodic = "none" /\ tick = FALSE /\ walked = {}
  /\ inFlight = <<>>
  /\ spent = [op \in Operation |-> 0] /\ granted = [op \in Operation |-> 0]
  /\ asked = {} /\ late = 0

-----------------------------------------------------------------------------
(* The application's threads. *)

\* Mutant: the last tracer sets the client id.
SetClientId_Last(t) == clientId' = t

SetClientId(t) == clientId' = IF clientId = NoClient THEN t ELSE clientId

\* Tracer.__init__ makes itself known to its throttler before it starts any span.
NewTracer(t) ==
  /\ t \notin tracers
  /\ tracers' = tracers \cup {t}
  /\ SetClientId(t)
  /\ UNCHANGED <<creditVars, pollVars, inFlight, historyVars>>

\* Mutant: the balance is not compared with the minimum.
Spend_NoCheck(op) ==
  /\ op \in known
  /\ credits' = [credits EXCEPT ![op] = @ - Unit]
  /\ spent' = [spent EXCEPT ![op] = @ + 1]
  /\ UNCHANGED known

\* is_allowed, true: the span is paid for.
Spend(op) ==
  /\ op \in known /\ credits[op] >= Unit
  /\ credits' = [credits EXCEPT ![op] = @ - Unit]
  /\ spent' = [spent EXCEPT ![op] = @ + 1]
  /\ UNCHANGED known

\* is_allowed, false: the first call for an operation only makes it known.
Deny(op) ==
  /\ op \notin known \/ credits[op] < Unit
  /\ known' = known \cup {op}
  /\ UNCHANGED <<credits, spent>>

IsAllowed(op) ==
  /\ tracers # {}
  /\ Spend(op) \/ Deny(op)
  /\ UNCHANGED <<clientVars, pollVars, inFlight, granted, asked, late>>

Close ==
  /\ running' = FALSE
  /\ periodic' = IF periodic = "started" THEN "stopped" ELSE periodic
  /\ UNCHANGED <<creditVars, clientVars, poll, tick, walked, inFlight, historyVars>>

-----------------------------------------------------------------------------
(* The loop thread: the polling. *)

\* No callback is in the middle of its work.
LoopFree == poll \notin {"walking", "starting"} /\ ~tick

InitPolling ==
  /\ LoopFree /\ poll = "init"
  /\ poll' = IF running THEN "delayed" ELSE "none"
  /\ UNCHANGED <<creditVars, clientVars, running, periodic, tick, walked, inFlight, historyVars>>

\* The first fetch, whether or not close() was called; without operations there is none.
DelayedPolling ==
  /\ LoopFree /\ poll = "delayed"
  /\ poll' = IF known = {} THEN "starting" ELSE "walking"
  /\ walked' = known
  /\ UNCHANGED <<creditVars, clientVars, running, periodic, tick, inFlight, historyVars>>

\* Mutant: the periodic is started without a look at self.running.
StartPeriodic_Always == periodic' = "started"

StartPeriodic == periodic' = IF running THEN "started" ELSE periodic

\* _delayed_polling after its fetch.
PollingStarts ==
  /\ poll = "starting"
  /\ poll' = "none"
  /\ StartPeriodic
  /\ UNCHANGED <<creditVars, clientVars, running, tick, walked, inFlight, historyVars>>

\* Mutant: a timer that fires once.
Tick_Once ==
  /\ LoopFree /\ periodic = "started" /\ known # {}
  /\ Len(inFlight) < MaxInFlight
  /\ tick' = TRUE
  /\ walked' = known
  /\ periodic' = "stopped"
  /\ UNCHANGED <<creditVars, clientVars, running, poll, inFlight, historyVars>>

\* A tick of the periodic; close() stops the ticks that have not begun.
Tick ==
  /\ LoopFree /\ periodic = "started" /\ known # {}
  /\ Len(inFlight) < MaxInFlight
  /\ tick' = TRUE
  /\ walked' = known
  /\ UNCHANGED <<creditVars, clientVars, running, poll, periodic, inFlight, historyVars>>

\* Where a walk leaves the callback it is part of: _delayed_polling goes on only after
\* a good one, a PeriodicCallback logs the exception and ticks again.
LeaveWalk(next) ==
  \/ poll = "walking" /\ poll' = next /\ UNCHANGED tick
  \/ tick /\ tick' = FALSE /\ UNCHANGED poll

\* No key was inserted since the walk started (none is ever removed): the request is sent.
WalkEnds ==
  /\ walked = known
  /\ LeaveWalk("starting")
  /\ inFlight' = Append(inFlight, [client |-> clientId, operations |-> known])
  /\ asked' = asked \cup known
  /\ late' = IF running THEN late ELSE late + 1
  /\ UNCHANGED <<creditVars, clientVars, running, periodic, walked, spent, granted>>

\* "dictionary changed size during iteration": the callback ends with a RuntimeError.
WalkFails ==
  /\ walked # known
  /\ LeaveWalk("none")
  /\ UNCHANGED <<creditVars, clientVars, running, periodic, walked, inFlight, historyVars>>

Walk == WalkEnds \/ WalkFails

-----------------------------------------------------------------------------
(* The loop thread: the answers. *)

\* Mutant: the balance of the answer replaces the one in hand.
UpdateCredits_Replaces(answer) ==
  /\ known' = known \cup DOMAIN answer
  /\ credits' = [op \in Operation |-> IF op \in DOMAIN answer THEN answer[op] ELSE credits[op]]

UpdateCredits(answer) ==
  /\ known' = known \cup DOMAIN answer
  /\ credits' = [op \in Operation |-> IF op \in DOMAIN answer THEN credits[op] + answer[op] ELSE credits[op]]

\* A request ends, in any order.  Its answer grants credits to some operations; an error
\* grants none, a body malformed in the middle grants what comes before that.
RequestEnds ==
  /\ LoopFree
  /\ \E i \in 1 .. Len(inFlight) : inFlight' = RemoveAt(inFlight, i)
  /\ \E operations \in SUBSET Operation : \E answer \in [operations -> Balance] :
       /\ \A op \in operations : granted[op] + answer[op] <= GrantLimit
       /\ UpdateCredits(answer)
       /\ granted' = [op \in Operation |-> granted[op] + (IF op \in operations THEN answer[op] ELSE 0)]
  /\ UNCHANGED <<clientVars, pollVars, spent, asked, late>>

-----------------------------------------------------------------------------
Next ==
  \/ (\E t \in Tracer : NewTracer(t)) \/ (\E op \in Operation : IsAllowed(op)) \/ Close
  \/ InitPolling \/ DelayedPolling \/ PollingStarts \/ Tick \/ Walk \/ RequestEnds

\* The loop runs its callbacks and timers, the HTTP client ends every request.
Fairness ==
  /\ WF_vars(InitPolling) /\ WF_vars(DelayedPolling) /\ WF_vars(PollingStarts)
  /\ WF_vars(Tick) /\ WF_vars(Walk) /\ WF_vars(RequestEnds)

Spec == Init /\ [][Next]_vars
FairSpec == Spec /\ Fairness
-----------------------------------------------------------------------------
(* Properties. *)

Request == [client : Tracer \cup {NoClient}, operations : SUBSET Operation]

CreditType ==
  /\ known \subseteq Operation /\ asked \subseteq Operation
  /\ credits \in [Operation -> Nat] /\ spent \in [Operation -> Nat] /\ granted \in [Operation -> Nat]
RequestType ==
  /\ clientId \in Tracer \cup {NoClient} /\ tracers \subseteq Tracer
  /\ inFlight \in Seq(Request)
PollType ==
  /\ poll \in {"init", "delayed", "walking", "starting", "none"}
  /\ periodic \in {"none", "started", "stopped"}
  /\ walked \subseteq Operation /\ late \in Nat
FlagType == running \in BOOLEAN /\ tick \in BOOLEAN

\* Type invariant; no operation ever has less than no credit.
TypeOK == CreditType /\ RequestType /\ PollType /\ FlagType

\* "These credits determine the amount of debug spans a client may emit": in whatever order
\* overlapping answers come and threads spend, what an operation has left and what it has
\* spent are together what it was granted.
CreditsAccounted == \A op \in Operation : credits[op] + Unit * spent[op] = granted[op]

\* Every request names the one client whose credits are kept here, also when tracers are
\* created while requests are out, and none is sent before there is one.
OneClient == \A i \in 1 .. Len(inFlight) : inFlight[i].client \in tracers /\ inFlight[i].client = clientId

\* close() ends the polling, wherever it meets it: one fetch at most, the first or that of
\* a tick that has begun, still sends its request.
QuietAfterClose == late <= 1

\* "RemoteThrottler requests credits from the throttling service periodically": every
\* operation that was denied once is asked for, unless the throttler is closed.
AsksForAll == \A op \in Operation : op \in known ~> op \in asked \/ ~running

\* The same of a throttler whose periodic was started: a tick that fails does not end it.
TicksAskForAll ==
  \A op \in Operation : op \in known /\ periodic = "started" ~> op \in asked \/ ~running
=============================================================================
