----------------------------- MODULE Lifecycle -----------------------------
(***************************************************************************)
(* The life of tracers: Config.__init__, initialize_tracer and new_tracer, *)
(* called by several threads, Tracer.__init__, and Tracer.close with       *)
(* CompositeReporter.close.                                                *)
(*                                                                         *)
(* Building a tracer starts tasks that run in the background from then on: *)
(* the loop of its channel, the polling of its sampler and its throttler,  *)
(* and the consumer of its reporter.  A constructor gets its metrics and   *)
(* does the rest in one action; any may raise, and nothing that was        *)
(* started is stopped then.                                                *)
(***************************************************************************)
EXTENDS Metrics

\* Each of the threads of the application builds at most one tracer, named as itself.
CONSTANTS
  Setting,  \* the configurations
  Shared,   \* a Prometheus factory that several of them use; others have their own
  NoTracer

NotAnInt == -1
Raw == {"absent", "true", "1", "false", "0", "none", "other"}

ASSUME LifecycleAssumption ==
  /\ NoTracer \notin Thread /\ Factory = Thread \cup {Shared}
  /\ \A s \in Setting :
       /\ {s.validate, s.unexpected, s.named, s.goodParam, s.throttler, s.tagsParse} \subseteq BOOLEAN
       /\ s.sampler \in {"none", "instance", "const", "probabilistic", "ratelimiting", "rate_limiting", "other"}
       /\ s.logging \in Raw /\ s.metrics \in {"none", "own", "shared"}
       /\ s.queueSize \in Nat \cup {NotAnInt} /\ s.batchSize \in Nat \cup {NotAnInt}

\* The polling of a sampler is at first a callback and a timer on the loop, later a PeriodicCallback.
Task  == {"loop", "first", "periodic", "consumer", "throttler"}
Child == {"remote", "logging"}

VARIABLES
  initialized,   \* Config._initialized
  globalTracer,  \* opentracing.tracer
  stage,         \* how far the call of each thread is
  setting,       \* its configuration
  forGlobal,     \* did it call initialize_tracer?
  running,       \* the tasks of its tracer that run in the background
  clientId,      \* has its throttler a client id?
  named,         \* the reporters of its tracer that have a process
  caller,        \* what becomes of the callbacks of the thread that calls Tracer.close; "none" before
  closed,        \* how many of these reporters Tracer.close has closed; -1 before it closes any
  child,         \* how far the close of each of them is
  count,         \* count[0] of CompositeReporter.close
  finished       \* the tracers whose close() is done, by the future it returned

buildVars == <<stage, setting, forGlobal, running, clientId, named>>
closeVars == <<caller, closed, child, count, finished>>
vars == <<initialized, globalTracer, buildVars, closeVars, metricsVars>>

Init ==
  /\ initialized = FALSE /\ globalTracer = NoTracer
  /\ stage = [t \in Thread |-> "start"]
  /\ setting \in [Thread -> Setting]
  /\ forGlobal = [t \in Thread |-> FALSE]
  /\ running = [t \in Thread |-> {}]
  /\ clientId = [t \in Thread |-> FALSE]
  /\ named = [t \in Thread |-> {}]
  /\ caller = [t \in Thread |-> "none"]
  /\ closed = [t \in Thread |-> -1]
  /\ child = [t \in Thread |-> [c \in Child |-> "open"]]
  /\ count = [t \in Thread |-> 0]
  /\ finished = {}
  /\ MetricsInit

-----------------------------------------------------------------------------
(* The options. *)

GetBoolean(raw, default) ==
  CASE raw \in {"false", "0", "none"} -> FALSE
    [] raw \in {"true", "1"}          -> TRUE
    [] raw \in {"absent", "other"}    -> default

\* _validate_config, and the service name that must be there.
ConfigRaises(s) == (s.validate /\ s.unexpected) \/ ~s.named

\* The property Config.sampler: a type it does not know, a rate that is none.
SamplerRaises(s) ==
  \/ s.sampler = "other"
  \/ s.sampler \in {"probabilistic", "ratelimiting", "rate_limiting"} /\ ~s.goodParam

OptionsRaise(s) == s.queueSize = NotAnInt \/ s.batchSize = NotAnInt

ReporterRaises(s) == s.queueSize < s.batchSize

\* An option "throttler" makes one, with defaults for a port or an interval that does not parse.
HasThrottler(s) == s.throttler

\* The metrics that a constructor gets before it does anything else.  Without a sampler in the
\* configuration it is that of RemoteControlledSampler.
MetricsOf(s, at) ==
  CASE s.metrics = "none"                            -> <<>>
    [] s.metrics # "none" /\ at = "sampler"      -> IF s.sampler = "none" THEN ForSampler ELSE <<>>
    [] s.metrics # "none" /\ at = "reporter"     -> ForReporter
    [] s.metrics # "none" /\ at = "throttler"    -> IF HasThrottler(s) THEN ForThrottler ELSE <<>>
    [] s.metrics # "none" /\ at = "client"       -> ForTracer
    [] OTHER                                         -> <<>>

\* The reporters behind the tracer: with logging a CompositeReporter of two.
Composite(t) == GetBoolean(setting[t].logging, FALSE)
Children(t)  == IF Composite(t) THEN <<"remote", "logging">> ELSE <<"remote">>

-----------------------------------------------------------------------------
(* Building a tracer. *)

At(t, here) == stage[t] = here /\ todo[t] = <<>> /\ UNCHANGED <<setting, closeVars, cache, creator, missed>>
To(t, next) ==
  stage' = [stage EXCEPT ![t] = next] /\ todo' = [todo EXCEPT ![t] = MetricsOf(setting[t], next)]

\* The step from one stage to the next, which raises if Raises: then what runs keeps running.
Builds(t, here, raises, next, task) ==
  /\ At(t, here)
  /\ \/ raises /\ To(t, "raised") /\ UNCHANGED running
     \/ ~raises /\ To(t, next) /\ running' = [running EXCEPT ![t] = @ \cup task]
  /\ UNCHANGED <<initialized, globalTracer, forGlobal, clientId, named>>

ConfigInit(t) == Builds(t, "start", ConfigRaises(setting[t]), "configured", {})

\* Mutant: the block that reads the flag does not set it.
InitializeTracer_NotSet(t) ==
  /\ At(t, "configured")
  /\ \/ initialized /\ To(t, "skipped") /\ UNCHANGED forGlobal
     \/ ~initialized /\ To(t, "channel") /\ forGlobal' = [forGlobal EXCEPT ![t] = TRUE]
  /\ UNCHANGED <<initialized, globalTracer, running, clientId, named>>

\* Mutant: the flag is set before it is read.
InitializeTracer_SetFirst(t) ==
  /\ At(t, "configured")
  /\ initialized' = TRUE
  /\ To(t, "skipped") /\ UNCHANGED forGlobal
  /\ UNCHANGED <<globalTracer, running, clientId, named>>

\* The block under _initialized_lock: only the first call goes on.
InitializeTracer(t) ==
  /\ At(t, "configured")
  /\ \/ initialized /\ To(t, "skipped") /\ UNCHANGED <<initialized, forGlobal>>
     \/ /\ ~initialized /\ To(t, "channel")
        /\ initialized' = TRUE /\ forGlobal' = [forGlobal EXCEPT ![t] = TRUE]
  /\ UNCHANGED <<globalTracer, running, clientId, named>>

\* new_tracer, called by the application.
NewTracer(t) == Builds(t, "configured", FALSE, "channel", {})

CreateChannel(t) == Builds(t, "channel", FALSE, "sampler", {"loop"})

FactoryOf(t) == IF setting[t].metrics = "shared" THEN Shared ELSE t

\* A constructor gets the next of its metrics, or raises.
GetMetric(t) ==
  /\ \/ (LookUp(t, FactoryOf(t)) \/ Register(t, FactoryOf(t))) /\ UNCHANGED stage
     \/ Duplicated(t) /\ stage' = [stage EXCEPT ![t] = "raised"]
  /\ UNCHANGED <<initialized, globalTracer, setting, forGlobal, running, clientId, named, closeVars>>

\* Without a sampler in the configuration: a RemoteControlledSampler, which gives the loop its first poll.
CreateSampler(t) ==
  Builds(t, "sampler", SamplerRaises(setting[t]), "options",
         IF setting[t].sampler = "none" THEN {"first"} ELSE {})

ReadOptions(t) == Builds(t, "options", OptionsRaise(setting[t]), "reporter", {})

CreateReporter(t) == Builds(t, "reporter", ReporterRaises(setting[t]), "throttler", {"consumer"})

CreateThrottler(t) == Builds(t, "throttler", FALSE, "tracer", IF HasThrottler(setting[t]) THEN {"throttler"} ELSE {})

\* Config.tags: those of JAEGER_TAGS may not parse.
TagsRaise(s) == ~s.tagsParse

\* The arguments of Tracer(...) come first.
CreateTracer(t) == Builds(t, "tracer", TagsRaise(setting[t]), "client", {})

\* Tracer.__init__ draws a client id for its throttler.
SetClientId(t) ==
  /\ At(t, "client") /\ To(t, "process")
  /\ clientId' = [clientId EXCEPT ![t] = HasThrottler(setting[t])]
  /\ UNCHANGED <<initialized, globalTracer, forGlobal, running, named>>

\* Mutant: CompositeReporter.set_process reaches its last reporter only.
SetProcess_Last(t) ==
  /\ At(t, "process") /\ To(t, "built")
  /\ named' = [named EXCEPT ![t] = {Children(t)[Len(Children(t))]}]
  /\ UNCHANGED <<initialized, globalTracer, forGlobal, running, clientId>>

\* ... and then names the process to its reporter, a composite one to each of its reporters.
SetProcess(t) ==
  /\ At(t, "process") /\ To(t, "built")
  /\ named' = [named EXCEPT ![t] = {Children(t)[i] : i \in DOMAIN Children(t)}]
  /\ UNCHANGED <<initialized, globalTracer, forGlobal, running, clientId>>

\* _initialize_global_tracer, when the tracer was built for that.
Install(t) ==
  /\ At(t, "built") /\ To(t, "ready")
  /\ globalTracer' = IF forGlobal[t] THEN t ELSE globalTracer
  /\ UNCHANGED <<initialized, forGlobal, running, clientId, named>>

Build(t) ==
  \/ GetMetric(t)
  \/ CreateChannel(t) \/ CreateSampler(t) \/ ReadOptions(t) \/ CreateReporter(t) \/ CreateThrottler(t)
  \/ CreateTracer(t) \/ SetClientId(t) \/ SetProcess(t) \/ Install(t)

-----------------------------------------------------------------------------
(* Its first poll, and closing it. *)

Keep == UNCHANGED <<initialized, globalTracer, stage, setting, forGlobal, clientId, named, metricsVars>>

SamplerClosed(t) == caller[t] # "none"

\* Mutant: the polling goes on whether the sampler was closed meanwhile or not.
FirstPoll_Unchecked(t) ==
  /\ "first" \in running[t]
  /\ running' = [running EXCEPT ![t] = (@ \ {"first"}) \cup {"periodic"}]
  /\ UNCHANGED closeVars /\ Keep

\* _init_polling and, behind a timer that nothing cancels, _delayed_polling: it polls, and starts
\* to do so periodically unless the sampler was closed meanwhile.
FirstPoll(t) ==
  /\ "first" \in running[t]
  /\ running' = [running EXCEPT ![t] = (@ \ {"first"}) \cup (IF SamplerClosed(t) THEN {} ELSE {"periodic"})]
  /\ UNCHANGED closeVars /\ Keep

\* Tracer.close begins with its sampler, which stops what polls periodically.  Callbacks of
\* futures run in whatever thread completes them with Tornado 4.  From Tornado 5 on a future is
\* one of asyncio, which schedules its callbacks on the event loop of the thread that made it,
\* here that of the caller: if nothing runs that loop they wait ("idle"), and if there is none
\* Future() raises before any reporter is closed ("loopless").
Close(t) ==
  /\ stage[t] = "ready" /\ ~SamplerClosed(t)
  /\ \E c \in {"runs", "idle", "loopless"} :
       /\ caller' = [caller EXCEPT ![t] = c]
       /\ closed' = IF c = "loopless" THEN closed ELSE [closed EXCEPT ![t] = 0]
  /\ running' = [running EXCEPT ![t] = @ \ {"periodic"}]
  /\ UNCHANGED <<child, count, finished>> /\ Keep

\* BaseReporter.close, which a LoggingReporter inherits, is done at once; Reporter.close
\* schedules its _flush on the loop.
Begun(c) == IF c = "logging" THEN "done" ELSE "flushing"

\* CompositeReporter.close closes its reporters in turn.
CloseChild(t) ==
  /\ closed[t] \in 0 .. Len(Children(t)) - 1
  /\ closed' = [closed EXCEPT ![t] = @ + 1]
  /\ LET c == Children(t)[closed[t] + 1] IN
       child' = [child EXCEPT ![t][c] = Begun(c)]
  /\ UNCHANGED <<caller, count, finished, running>> /\ Keep

\* The loop has run _flush, the consumer has exited, and ioloop_util.submit sets the future,
\* which is that of Tracer.close when there is no composite.
Flush(t) ==
  /\ child[t]["remote"] = "flushing"
  /\ child' = [child EXCEPT ![t]["remote"] = "done"]
  /\ running' = [running EXCEPT ![t] = @ \ {"consumer"}]
  /\ finished' = IF Composite(t) THEN finished ELSE finished \cup {t}
  /\ UNCHANGED <<caller, closed, count>> /\ Keep

\* Mutant: the first reporter that has closed completes the future.
LastClosed_First(t, n) == n = 1

\* Mutant: the count is compared before it is raised.
LastClosed_Before(t, n) == n - 1 = Len(Children(t))

LastClosed(t, n) == n = Len(Children(t))

\* on_close, under the lock, once a reporter has closed and callbacks of the caller run.
OnClose(t, c) ==
  /\ Composite(t) /\ child[t][c] = "done" /\ caller[t] # "idle"
  /\ child' = [child EXCEPT ![t][c] = "counted"]
  /\ count' = [count EXCEPT ![t] = @ + 1]
  /\ finished' = IF LastClosed(t, count[t] + 1) THEN finished \cup {t} ELSE finished
  /\ UNCHANGED <<caller, closed, running>> /\ Keep

Closing(t) == CloseChild(t) \/ Flush(t) \/ \E c \in Child : OnClose(t, c)

-----------------------------------------------------------------------------
Next ==
  \E t \in Thread :
    ConfigInit(t) \/ InitializeTracer(t) \/ NewTracer(t) \/ Build(t) \/ FirstPoll(t) \/ Close(t) \/ Closing(t)

\* A call that was begun goes on, and the loop of the reporter runs what it was given.  Nothing
\* is assumed of what the application calls, nor of the event loop of the thread that closes:
\* where callbacks wait for it (caller "idle"), OnClose is not enabled.
Fairness == \A t \in Thread : WF_vars(Build(t)) /\ WF_vars(Closing(t))

Spec == Init /\ [][Next]_vars
FairSpec == Spec /\ Fairness
-----------------------------------------------------------------------------
(* Properties. *)

Stage == {"start", "configured", "channel", "sampler", "options", "reporter", "throttler", "tracer", "client", "process",
          "built", "ready", "raised", "skipped"}

\* Type invariant.
TypeOK ==
  /\ MetricsTypeOK
  /\ initialized \in BOOLEAN /\ globalTracer \in Thread \cup {NoTracer}
  /\ stage \in [Thread -> Stage] /\ setting \in [Thread -> Setting] /\ forGlobal \in [Thread -> BOOLEAN]
  /\ running \in [Thread -> SUBSET Task] /\ clientId \in [Thread -> BOOLEAN] /\ named \in [Thread -> SUBSET Child]
  /\ caller \in [Thread -> {"none", "runs", "idle", "loopless"}]
  /\ closed \in [Thread -> -1 .. 2]
  /\ child \in [Thread -> [Child -> {"open", "flushing", "done", "counted"}]]
  /\ count \in [Thread -> 0 .. 2] /\ finished \subseteq Thread

\* "Only the first call to this method has any effect": however the calls of threads fall,
\* a global tracer is never replaced by another.
OneGlobalTracer == [][globalTracer # NoTracer => globalTracer' = globalTracer]_vars

\* The global tracer is complete when the application can see it: each reporter knows its
\* process, without which it drops its spans silently (reporter.py:205), and the throttler its
\* client.
GlobalIsComplete ==
  \A t \in Thread : globalTracer = t =>
    /\ \A i \in DOMAIN Children(t) : Children(t)[i] \in named[t]
    /\ HasThrottler(setting[t]) => clientId[t]

\* Tracer.close: "a future that indicates if the flush has been completed".  When it is done
\* every reporter is closed, the consumer has exited, and the sampler does not poll periodically
\* and never will: of its requests at most the first may still be sent, by a timer that was
\* pending (sampler.py:409).  (The throttler goes on polling: nothing closes it.)
CloseMeansAll ==
  \A t \in finished :
    /\ \A i \in DOMAIN Children(t) : child[t][Children(t)[i]] \in {"done", "counted"}
    /\ running[t] \subseteq {"loop", "throttler", "first"}

\* The future of Tracer.close hangs on callbacks only if it is that of a CompositeReporter.
CallbacksRun(t) == Composite(t) => caller[t] # "idle"

\* The future of Tracer.close is completed, in whatever order its reporters close: that of one
\* reporter always, that of several if the callbacks of the thread that closes do run (with
\* Tornado 5 or later: if something runs the event loop of that thread).
CloseCompletes == \A t \in Thread : closed[t] = 0 /\ CallbacksRun(t) ~> t \in finished

\* A thread that initialize_tracer has sent away finds a global tracer sooner or later,
\* unless the call that went before it has raised.
SkippedFindsTracer ==
  \A t \in Thread : stage[t] = "skipped" ~>
    globalTracer # NoTracer \/ \E u \in Thread : forGlobal[u] /\ stage[u] = "raised"
=============================================================================
