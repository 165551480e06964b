------------------------------ MODULE Metrics ------------------------------
(***************************************************************************)
(* PrometheusMetricsFactory._get_metric, which the constructors of the     *)
(* sampler, the reporter, the throttler and the tracer call for each       *)
(* counter and gauge they use.                                             *)
(*                                                                         *)
(* A factory keeps the metrics it has made in a cache, without a lock.     *)
(* Prometheus registers each metric under its name for the whole process,  *)
(* and raises for a name that is taken.  Labels are left out: the          *)
(* constructors use each name with one list of labels.  What Metrics,      *)
(* LegacyMetricsFactory and the counting itself do has no state here.      *)
(***************************************************************************)
EXTENDS Integers, Sequences

CONSTANTS
  Thread,   \* the threads that construct something
  Factory,  \* the factories with the same namespace
  NoThread,
  NoMetric

VARIABLES
  cache,    \* _cache of each factory: names
  creator,  \* the registry of Prometheus: who has registered a name
  todo,     \* the metrics that the constructor in each thread has still to get
  missed    \* the one it did not find in the cache and is about to register

metricsVars == <<cache, creator, todo, missed>>

ForSampler   == <<"sampler_queries", "sampler_queries", "sampler_updates", "sampler_updates">>
ForReporter  == <<"reporter_spans", "reporter_spans", "reporter_spans", "reporter_queue_length">>
ForThrottler == <<"throttled_debug_spans", "throttler_update", "throttler_update">>
ForTracer    == <<"traces", "traces", "traces", "traces", "started_spans", "started_spans", "finished_spans">>

Name == {"sampler_queries", "sampler_updates", "reporter_spans", "reporter_queue_length", "throttled_debug_spans",
         "throttler_update", "traces", "started_spans", "finished_spans"}

ASSUME MetricsAssumption == NoMetric \notin Name /\ NoThread \notin Thread

MetricsInit ==
  /\ cache = [f \in Factory |-> {}] /\ creator = [n \in Name |-> NoThread]
  /\ todo = [t \in Thread |-> <<>>] /\ missed = [t \in Thread |-> NoMetric]

\* _cache.get, of one metric after the other until one is missing: those that are there stay there.
LookUp(t, f) ==
  /\ todo[t] # <<>> /\ missed[t] = NoMetric
  /\ \E k \in 0 .. Len(todo[t]) :
       /\ \A i \in 1 .. k : todo[t][i] \in cache[f]
       /\ todo' = [todo EXCEPT ![t] = SubSeq(@, k + 1, Len(@))]
       /\ \/ k = Len(todo[t]) /\ UNCHANGED missed
          \/ /\ k < Len(todo[t]) /\ todo[t][k + 1] \notin cache[f]
             /\ missed' = [missed EXCEPT ![t] = todo[t][k + 1]]
  /\ UNCHANGED <<cache, creator>>

\* Mutant: the new metric is not put in the cache.
Register_NotCached(t, f) ==
  /\ missed[t] # NoMetric /\ creator[missed[t]] = NoThread
  /\ creator' = [creator EXCEPT ![missed[t]] = t]
  /\ todo' = [todo EXCEPT ![t] = Tail(@)] /\ missed' = [missed EXCEPT ![t] = NoMetric]
  /\ UNCHANGED cache

\* metricType(...), and the entry in the cache: who looks there in between finds no more than
\* who looked before.
Register(t, f) ==
  /\ missed[t] # NoMetric /\ creator[missed[t]] = NoThread
  /\ creator' = [creator EXCEPT ![missed[t]] = t]
  /\ cache' = [cache EXCEPT ![f] = @ \cup {missed[t]}]
  /\ todo' = [todo EXCEPT ![t] = Tail(@)] /\ missed' = [missed EXCEPT ![t] = NoMetric]

\* "Duplicated timeseries": the constructor raises.
Duplicated(t) ==
  /\ missed[t] # NoMetric /\ creator[missed[t]] # NoThread
  /\ todo' = [todo EXCEPT ![t] = <<>>] /\ missed' = [missed EXCEPT ![t] = NoMetric]
  /\ UNCHANGED <<cache, creator>>
-----------------------------------------------------------------------------
(* Properties. *)

MetricsTypeOK ==
  /\ cache \in [Factory -> SUBSET Name] /\ creator \in [Name -> Thread \cup {NoThread}]
  /\ todo \in [Thread -> Seq(Name)] /\ missed \in [Thread -> Name \cup {NoMetric}]

\* A thread never fails over a metric that it has registered itself, however often its
\* constructors ask for it: a tracer that is built while no other one is, with a factory of
\* its own that is the only one, cannot fail over metrics.  Of a name that another thread or
\* another factory has registered (prometheus.py:48) it says nothing: building may fail over it.
NoSelfCollision == \A t \in Thread : missed[t] # NoMetric => creator[missed[t]] # t
=============================================================================
