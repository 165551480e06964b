-------------------------- MODULE LifecycleProofs --------------------------
(* Proofs about Lifecycle, for any threads and configurations. *)
EXTENDS Lifecycle, SequenceTheorems, TLAPS

-----------------------------------------------------------------------------
(* The inductive invariant. *)

\* The flag and the call that set it.
OneInitializer ==
  /\ \A t \in Thread : forGlobal[t] => initialized /\ stage[t] \notin {"start", "configured", "skipped"}
  /\ \A t, u \in Thread : forGlobal[t] /\ forGlobal[u] => t = u
  /\ globalTracer # NoTracer => forGlobal[globalTracer] /\ stage[globalTracer] = "ready"

\* What Tracer.__init__ has told its throttler and its reporters.
AllChildren(t) == {Children(t)[i] : i \in DOMAIN Children(t)}
ToldBy(t) ==
  /\ stage[t] \in {"process", "built", "ready"} /\ HasThrottler(setting[t]) => clientId[t]
  /\ stage[t] \in {"built", "ready"} => named[t] = AllChildren(t)
Told == \A t \in Thread : ToldBy(t)

\* A tracer is closed when it is ready, its sampler first and its reporters in their order.
ClosesInOrder(t) ==
  /\ caller[t] # "none" => stage[t] = "ready" /\ "periodic" \notin running[t]
  /\ closed[t] # -1 => caller[t] \in {"runs", "idle"}
  /\ child[t]["remote"] # "open" => closed[t] >= 1
  /\ child[t]["remote"] \in {"done", "counted"} => "consumer" \notin running[t]
  /\ child[t]["logging"] # "open" => closed[t] >= 2 /\ Composite(t)
  /\ child[t]["logging"] # "flushing"
  /\ closed[t] >= 1 => child[t]["remote"] # "open"
  /\ closed[t] >= 2 => child[t]["logging"] # "open"
Closes == \A t \in Thread : ClosesInOrder(t)

\* on_close counts each reporter once.
One(t, c) == IF child[t][c] = "counted" THEN 1 ELSE 0
CountsOnce(t) ==
  /\ count[t] = One(t, "remote") + One(t, "logging")
  /\ t \in finished =>
       IF Composite(t) THEN child[t]["remote"] = "counted" /\ child[t]["logging"] = "counted"
       ELSE child[t]["remote"] = "done"
  /\ \A c \in Child : child[t][c] = "counted" => CallbacksRun(t) /\ Composite(t)
Counts == \A t \in Thread : CountsOnce(t)

\* What a thread has registered is in the cache of its factory.
Cached ==
  /\ \A t \in Thread : \A n \in Name : creator[n] = t => n \in cache[FactoryOf(t)]
  /\ NoSelfCollision

\* Metrics are only got at the stages whose constructors begin with them.
Asks(t) ==
  /\ missed[t] # NoMetric => todo[t] # <<>>
  /\ todo[t] # <<>> => stage[t] \in {"sampler", "reporter", "throttler", "client"}
Asked == \A t \in Thread : Asks(t)

IInv == TypeOK /\ OneInitializer /\ Told /\ Closes /\ Counts /\ Cached /\ Asked

-----------------------------------------------------------------------------
(* The reporters of a tracer. *)

\* Children has the remote reporter, and with logging the other one behind it.
LEMMA ChildrenAre ==
  ASSUME NEW t \in Thread
  PROVE  /\ Composite(t) => /\ Children(t) = <<"remote", "logging">> /\ Len(Children(t)) = 2
                            /\ Children(t)[1] = "remote" /\ Children(t)[2] = "logging"
                            /\ DOMAIN Children(t) = {1, 2}
         /\ ~Composite(t) => /\ Children(t) = <<"remote">> /\ Len(Children(t)) = 1
                             /\ Children(t)[1] = "remote" /\ DOMAIN Children(t) = {1}
BY DEF Children

\* The lists of metrics name known metrics.
LEMMA MetricsOfType ==
  ASSUME NEW s, NEW at
  PROVE  /\ MetricsOf(s, at) \in Seq(Name)
         /\ MetricsOf(s, at) # <<>> => at \in {"sampler", "reporter", "throttler", "client"}
<1>1. ForSampler \in Seq(Name) BY DEF ForSampler, Name
<1>2. ForReporter \in Seq(Name) BY DEF ForReporter, Name
<1>3. ForThrottler \in Seq(Name) BY DEF ForThrottler, Name
<1>4. ForTracer \in Seq(Name) BY DEF ForTracer, Name
<1>5. <<>> \in Seq(Name) OBVIOUS
<1>6. QED BY <1>1, <1>2, <1>3, <1>4, <1>5, Zenon DEF MetricsOf

\* Init establishes the invariant.
LEMMA InitInv == Init => IInv
<1> SUFFICES ASSUME Init PROVE IInv OBVIOUS
<1> USE DEF Init, MetricsInit
<1>1. TypeOK
  <2>1. MetricsTypeOK BY DEF MetricsTypeOK
  <2>2. /\ initialized \in BOOLEAN /\ globalTracer \in Thread \cup {NoTracer}
        /\ stage \in [Thread -> Stage] /\ setting \in [Thread -> Setting] /\ forGlobal \in [Thread -> BOOLEAN]
    BY DEF Stage
  <2>3. running \in [Thread -> SUBSET Task] /\ clientId \in [Thread -> BOOLEAN] /\ named \in [Thread -> SUBSET Child]
    OBVIOUS
  <2>4. closed \in [Thread -> -1 .. 2] /\ caller \in [Thread -> {"none", "runs", "idle", "loopless"}] OBVIOUS
  <2>5. child \in [Thread -> [Child -> {"open", "flushing", "done", "counted"}]] OBVIOUS
  <2>6. count \in [Thread -> 0 .. 2] /\ finished \subseteq Thread OBVIOUS
  <2>7. QED BY <2>1, <2>2, <2>3, <2>4, <2>5, <2>6 DEF TypeOK
<1>a. \A t \in Thread : child[t]["remote"] = "open" /\ child[t]["logging"] = "open" BY DEF Child
<1>b. \A t \in Thread : closed[t] = -1 /\ count[t] = 0 /\ caller[t] = "none" OBVIOUS
<1>2. OneInitializer BY DEF OneInitializer
<1>3. Told BY DEF Told, ToldBy
<1>4. Closes
  <2> SUFFICES ASSUME NEW t \in Thread
               PROVE  ClosesInOrder(t)
    BY DEF Closes
  <2> HIDE DEF Init
  <2>1. closed[t] = -1 /\ caller[t] = "none" /\ child[t]["remote"] = "open" /\ child[t]["logging"] = "open"
    BY <1>a, <1>b
  <2>2. ~(closed[t] >= 1) /\ ~(closed[t] >= 2) BY <2>1
  <2>3. QED BY <2>1, <2>2 DEF ClosesInOrder
<1>5. Counts
  <2> SUFFICES ASSUME NEW t \in Thread
               PROVE  CountsOnce(t)
    BY DEF Counts
  <2>1. t \notin finished OBVIOUS
  <2> HIDE DEF Init
  <2>2. One(t, "remote") = 0 /\ One(t, "logging") = 0 BY <1>a DEF One
  <2>3. count[t] = 0 BY <1>b
  <2>4. \A c \in Child : child[t][c] # "counted" BY <1>a DEF Child
  <2>5. QED BY <2>1, <2>2, <2>3, <2>4 DEF CountsOnce
<1>6. Cached BY MetricsAssumption DEF Cached, NoSelfCollision
<1>7. Asked BY DEF Asked, Asks
<1>8. QED BY <1>1, <1>2, <1>3, <1>4, <1>5, <1>6, <1>7 DEF IInv

-----------------------------------------------------------------------------
(* The steps. *)

\* A step that leaves the closing alone and changes what a tracer is told, or what runs, only
\* for one that is not ready, keeps what is known of the closing.
LEMMA BuildKeepsClosing ==
  ASSUME IInv, NEW t \in Thread, stage[t] # "ready", UNCHANGED <<setting, closeVars>>,
         \A u \in Thread \ {t} : stage'[u] = stage[u] /\ running'[u] = running[u]
  PROVE  Closes' /\ Counts'
<1>1. /\ setting' = setting /\ caller' = caller /\ closed' = closed
      /\ child' = child /\ count' = count /\ finished' = finished
  BY DEF closeVars
<1>2. ASSUME NEW u \in Thread PROVE ClosesInOrder(u)'
  <2>1. ClosesInOrder(u) /\ ClosesInOrder(t) BY DEF IInv, Closes
  <2>2. CASE u = t
    <3>1. /\ caller[t] = "none" /\ closed[t] = -1
          /\ child[t]["remote"] = "open" /\ child[t]["logging"] = "open"
      BY <2>1 DEF ClosesInOrder, IInv, TypeOK
    <3>2. /\ caller'[u] = "none" /\ closed'[u] = -1
          /\ child'[u]["remote"] = "open" /\ child'[u]["logging"] = "open"
      BY <1>1, <2>2, <3>1
    <3>3. QED BY <1>1, <2>1, <2>2, <3>2 DEF ClosesInOrder, Composite
  <2>3. CASE u # t
    <3>1. stage'[u] = stage[u] /\ running'[u] = running[u] BY <2>3
    <3>2. QED BY <1>1, <2>1, <3>1 DEF ClosesInOrder, Composite
  <2>4. QED BY <2>2, <2>3
<1>3. ASSUME NEW u \in Thread PROVE CountsOnce(u)'
  <2>1. CountsOnce(u) BY DEF IInv, Counts
  <2>2. QED BY <1>1, <2>1 DEF CountsOnce, One, Composite, CallbacksRun
<1>4. QED BY <1>2, <1>3 DEF Closes, Counts

\* What a step towards a later stage before Tracer.__init__ tells anybody keeps.
LEMMA StageKeeps ==
  ASSUME IInv, NEW t \in Thread, NEW next, stage[t] # "ready",
         next \notin {"start", "skipped", "process", "built", "ready"},
         next = "configured" => stage[t] = "start",
         stage' = [stage EXCEPT ![t] = next],
         \A u \in Thread \ {t} : running'[u] = running[u],
         UNCHANGED <<initialized, globalTracer, setting, forGlobal, clientId, named, closeVars>>
  PROVE  OneInitializer' /\ Told' /\ Closes' /\ Counts'
<1>1. stage'[t] = next /\ \A u \in Thread \ {t} : stage'[u] = stage[u] BY DEF IInv, TypeOK
<1>2. OneInitializer'
  <2>1. OneInitializer BY DEF IInv
  <2>2. globalTracer # t BY <2>1, LifecycleAssumption DEF OneInitializer, IInv, TypeOK
  <2>3. \A u \in Thread : forGlobal'[u] => initialized' /\ stage'[u] \notin {"start", "configured", "skipped"}
    <3>1. ASSUME NEW u \in Thread, forGlobal'[u] PROVE initialized' /\ stage'[u] \notin {"start", "configured", "skipped"}
      BY <1>1, <2>1, <3>1 DEF OneInitializer
    <3>2. QED BY <3>1
  <2>4. \A u, v \in Thread : forGlobal'[u] /\ forGlobal'[v] => u = v BY <2>1 DEF OneInitializer
  <2>5. globalTracer' # NoTracer => forGlobal'[globalTracer'] /\ stage'[globalTracer'] = "ready"
    BY <1>1, <2>1, <2>2 DEF OneInitializer, IInv, TypeOK
  <2>6. QED BY <2>3, <2>4, <2>5 DEF OneInitializer
<1>3. Told'
  <2>1. ASSUME NEW u \in Thread PROVE ToldBy(u)'
    <3>1. CASE u = t BY <1>1, <3>1 DEF ToldBy
    <3>2. CASE u # t
      <4>1. ToldBy(u) /\ stage'[u] = stage[u] BY <1>1, <3>2 DEF IInv, Told
      <4>2. AllChildren(u)' = AllChildren(u) BY DEF AllChildren, Children, Composite
      <4>3. QED BY <4>1, <4>2 DEF ToldBy
    <3>3. QED BY <3>1, <3>2
  <2>2. QED BY <2>1 DEF Told
<1>4. Closes' /\ Counts' BY <1>1, BuildKeepsClosing
<1>5. QED BY <1>2, <1>3, <1>4

\* A step that gets no metrics keeps what is in the caches.
LEMMA CachedKept ==
  ASSUME Cached, UNCHANGED <<setting, cache, creator, missed>>
  PROVE  Cached'
BY DEF Cached, NoSelfCollision, FactoryOf

LEMMA AskedKept ==
  ASSUME IInv, NEW t \in Thread, NEW next, todo[t] = <<>>, To(t, next), UNCHANGED missed
  PROVE  Asked'
<1>1. stage' = [stage EXCEPT ![t] = next] /\ todo' = [todo EXCEPT ![t] = MetricsOf(setting[t], next)] BY DEF To
<1>2. ASSUME NEW u \in Thread PROVE Asks(u)'
  <2>1. Asks(u) BY DEF IInv, Asked
  <2>2. CASE u = t
    <3>1. missed'[u] = NoMetric BY <2>1, <2>2 DEF Asks
    <3>2. stage'[u] = next /\ todo'[u] = MetricsOf(setting[t], next) BY <1>1, <2>2 DEF IInv, TypeOK, MetricsTypeOK
    <3>3. QED BY <3>1, <3>2, MetricsOfType DEF Asks
  <2>3. CASE u # t
    <3>1. stage'[u] = stage[u] /\ todo'[u] = todo[u] BY <1>1, <2>3 DEF IInv, TypeOK, MetricsTypeOK
    <3>2. QED BY <2>1, <3>1 DEF Asks
  <2>4. QED BY <2>2, <2>3
<1>3. QED BY <1>2 DEF Asked

\* A constructor, or another step, that raises or takes the call to the next stage.
LEMMA BuildsKeeps ==
  ASSUME IInv, NEW t \in Thread, NEW here, NEW STATE raises, NEW next \in Stage, NEW STATE task,
         task \subseteq Task, Builds(t, here, raises, next, task), here # "ready",
         next \notin {"start", "skipped", "process", "built", "ready"},
         next = "configured" => here = "start"
  PROVE  IInv'
<1>1. stage[t] = here /\ todo[t] = <<>> /\ UNCHANGED <<setting, closeVars, cache, creator, missed>> BY DEF Builds, At
<1>2. UNCHANGED <<initialized, globalTracer, forGlobal, clientId, named>> BY DEF Builds
<1>3. running' \in [Thread -> SUBSET Task] /\ \A u \in Thread \ {t} : running'[u] = running[u]
  BY DEF Builds, IInv, TypeOK
<1>4. PICK n \in {next, "raised"} : To(t, n) BY DEF Builds
<1>5. n \in Stage BY DEF Stage
<1>6. stage' = [stage EXCEPT ![t] = n] /\ todo' = [todo EXCEPT ![t] = MetricsOf(setting[t], n)] BY <1>4 DEF To
<1>7. OneInitializer' /\ Told' /\ Closes' /\ Counts' BY <1>1, <1>2, <1>3, <1>6, StageKeeps
<1>8. Cached' BY <1>1, CachedKept DEF IInv
<1>9. TypeOK'
  <2>1. MetricsTypeOK' BY <1>1, <1>6, MetricsOfType DEF MetricsTypeOK, IInv, TypeOK
  <2>2. stage' \in [Thread -> Stage] BY <1>5, <1>6 DEF IInv, TypeOK
  <2>3. QED BY <1>1, <1>2, <1>3, <2>1, <2>2 DEF IInv, TypeOK, closeVars
<1>10. Asked' BY <1>1, <1>4, AskedKept
<1>11. QED BY <1>7, <1>8, <1>9, <1>10 DEF IInv

LEMMA ConfigInitKeeps == ASSUME IInv, NEW t \in Thread, ConfigInit(t) PROVE IInv'
<1>1. Builds(t, "start", ConfigRaises(setting[t]), "configured", {}) BY DEF ConfigInit
<1>2. QED BY <1>1, BuildsKeeps DEF Stage

LEMMA NewTracerKeeps == ASSUME IInv, NEW t \in Thread, NewTracer(t) PROVE IInv'
<1>1. Builds(t, "configured", FALSE, "channel", {})
  BY DEF NewTracer
<1>2. QED BY <1>1, BuildsKeeps DEF Stage, Task

LEMMA CreateChannelKeeps == ASSUME IInv, NEW t \in Thread, CreateChannel(t) PROVE IInv'
<1>1. Builds(t, "channel", FALSE, "sampler", {"loop"})
  BY DEF CreateChannel
<1>2. QED BY <1>1, BuildsKeeps DEF Stage, Task

LEMMA CreateSamplerKeeps == ASSUME IInv, NEW t \in Thread, CreateSampler(t) PROVE IInv'
<1>1. Builds(t, "sampler", SamplerRaises(setting[t]), "options", IF setting[t].sampler = "none" THEN {"first"} ELSE {})
  BY DEF CreateSampler
<1>2. QED BY <1>1, BuildsKeeps DEF Stage, Task

LEMMA ReadOptionsKeeps == ASSUME IInv, NEW t \in Thread, ReadOptions(t) PROVE IInv'
<1>1. Builds(t, "options", OptionsRaise(setting[t]), "reporter", {})
  BY DEF ReadOptions
<1>2. QED BY <1>1, BuildsKeeps DEF Stage, Task

LEMMA CreateReporterKeeps == ASSUME IInv, NEW t \in Thread, CreateReporter(t) PROVE IInv'
<1>1. Builds(t, "reporter", ReporterRaises(setting[t]), "throttler", {"consumer"})
  BY DEF CreateReporter
<1>2. QED BY <1>1, BuildsKeeps DEF Stage, Task

LEMMA CreateThrottlerKeeps == ASSUME IInv, NEW t \in Thread, CreateThrottler(t) PROVE IInv'
<1>1. Builds(t, "throttler", FALSE, "tracer", IF HasThrottler(setting[t]) THEN {"throttler"} ELSE {})
  BY DEF CreateThrottler
<1>2. QED BY <1>1, BuildsKeeps DEF Stage, Task

LEMMA CreateTracerKeeps == ASSUME IInv, NEW t \in Thread, CreateTracer(t) PROVE IInv'
<1>1. Builds(t, "tracer", TagsRaise(setting[t]), "client", {})
  BY DEF CreateTracer
<1>2. QED BY <1>1, BuildsKeeps DEF Stage, Task


\* A step of the call that gets no metrics and starts nothing keeps the types of what it changes.
LEMMA ToTyped ==
  ASSUME IInv, NEW t \in Thread, NEW next \in Stage, To(t, next)
  PROVE  /\ stage' \in [Thread -> Stage] /\ todo' \in [Thread -> Seq(Name)]
         /\ stage'[t] = next /\ \A u \in Thread \ {t} : stage'[u] = stage[u]
<1>1. stage' = [stage EXCEPT ![t] = next] /\ todo' = [todo EXCEPT ![t] = MetricsOf(setting[t], next)] BY DEF To
<1>2. QED BY <1>1, MetricsOfType DEF IInv, TypeOK, MetricsTypeOK

LEMMA InitializeTracerKeeps == ASSUME IInv, NEW t \in Thread, InitializeTracer(t) PROVE IInv'
<1>1. /\ stage[t] = "configured" /\ todo[t] = <<>>
      /\ UNCHANGED <<setting, closeVars, cache, creator, missed, globalTracer, running, clientId, named>>
  BY DEF InitializeTracer, At
<1>2. OneInitializer /\ Told /\ Cached BY DEF IInv
<1>3. \E next \in {"skipped", "channel"} : To(t, next) BY DEF InitializeTracer
<1>4. PICK next \in {"skipped", "channel"} : To(t, next) BY <1>3
<1>5. next \in Stage BY DEF Stage
<1>6. /\ stage' \in [Thread -> Stage] /\ todo' \in [Thread -> Seq(Name)]
      /\ stage'[t] = next /\ \A u \in Thread \ {t} : stage'[u] = stage[u]
  BY <1>4, <1>5, ToTyped
<1>7. TypeOK'
  <2>1. initialized' \in BOOLEAN /\ forGlobal' \in [Thread -> BOOLEAN] BY DEF InitializeTracer, IInv, TypeOK
  <2>2. QED BY <1>1, <1>6, <2>1 DEF IInv, TypeOK, MetricsTypeOK, closeVars
<1>8. Closes' /\ Counts' BY <1>1, <1>6, BuildKeepsClosing
<1>9. Cached' BY <1>1, <1>2, CachedKept
<1>10. Told'
  <2>1. ASSUME NEW u \in Thread PROVE ToldBy(u)'
    <3>1. ToldBy(u) BY <1>2 DEF Told
    <3>2. AllChildren(u)' = AllChildren(u) BY <1>1 DEF AllChildren, Children, Composite
    <3>3. QED BY <1>1, <1>4, <1>6, <3>1, <3>2 DEF ToldBy
  <2>2. QED BY <2>1 DEF Told
<1>11. OneInitializer'
  <2>0. globalTracer # t BY <1>1, <1>2, LifecycleAssumption DEF OneInitializer, IInv, TypeOK
  <2>1. CASE initialized /\ To(t, "skipped") /\ UNCHANGED <<initialized, forGlobal>>
    <3>1. stage'[t] = "skipped" /\ ~forGlobal[t] BY <1>1, <1>2, <2>1 DEF OneInitializer, To, IInv, TypeOK
    <3>2. QED BY <1>1, <1>2, <1>6, <2>0, <2>1, <3>1, LifecycleAssumption DEF OneInitializer, IInv, TypeOK
  <2>2. CASE ~initialized /\ To(t, "channel") /\ initialized' = TRUE /\ forGlobal' = [forGlobal EXCEPT ![t] = TRUE]
    <3>1. \A u \in Thread : ~forGlobal[u] BY <1>2, <2>2 DEF OneInitializer
    <3>2. stage'[t] = "channel" BY <2>2 DEF To, IInv, TypeOK
    <3>3. forGlobal'[t] /\ \A u \in Thread \ {t} : ~forGlobal'[u] BY <2>2, <3>1 DEF IInv, TypeOK
    <3>4. globalTracer' = NoTracer BY <1>1, <1>2, <3>1 DEF OneInitializer, IInv, TypeOK
    <3>5. QED BY <2>2, <3>2, <3>3, <3>4 DEF OneInitializer
  <2>3. QED BY <2>1, <2>2 DEF InitializeTracer
<1>12. Asked' BY <1>1, <1>4, AskedKept
<1>13. QED BY <1>7, <1>8, <1>9, <1>10, <1>11, <1>12 DEF IInv

LEMMA SetClientIdKeeps == ASSUME IInv, NEW t \in Thread, SetClientId(t) PROVE IInv'
<1>1. /\ stage[t] = "client" /\ todo[t] = <<>> /\ To(t, "process")
      /\ UNCHANGED <<setting, closeVars, cache, creator, missed, initialized, globalTracer, forGlobal, running, named>>
      /\ clientId' = [clientId EXCEPT ![t] = HasThrottler(setting[t])]
  BY DEF SetClientId, At
<1>2. OneInitializer /\ Told /\ Cached BY DEF IInv
<1>3. /\ stage' \in [Thread -> Stage] /\ todo' \in [Thread -> Seq(Name)]
      /\ stage'[t] = "process" /\ \A u \in Thread \ {t} : stage'[u] = stage[u]
  BY <1>1, ToTyped DEF Stage
<1>4. HasThrottler(setting[t]) \in BOOLEAN BY LifecycleAssumption DEF IInv, TypeOK, HasThrottler
<1>5. clientId' \in [Thread -> BOOLEAN] BY <1>1, <1>4 DEF IInv, TypeOK
<1>6. TypeOK' BY <1>1, <1>3, <1>5 DEF IInv, TypeOK, MetricsTypeOK, closeVars
<1>7. Closes' /\ Counts' BY <1>1, <1>3, BuildKeepsClosing
<1>8. Cached' BY <1>1, <1>2, CachedKept
<1>9. OneInitializer'
  <2>1. globalTracer # t BY <1>1, <1>2, LifecycleAssumption DEF OneInitializer, IInv, TypeOK
  <2>2. QED BY <1>1, <1>2, <1>3, <2>1, LifecycleAssumption DEF OneInitializer, IInv, TypeOK
<1>10. Told'
  <2>1. ASSUME NEW u \in Thread PROVE ToldBy(u)'
    <3>1. CASE u = t
      <4>1. clientId'[t] = HasThrottler(setting[t]) BY <1>1 DEF IInv, TypeOK
      <4>2. QED BY <1>1, <1>3, <3>1, <4>1 DEF ToldBy
    <3>2. CASE u # t
      <4>1. ToldBy(u) BY <1>2 DEF Told
      <4>2. AllChildren(u)' = AllChildren(u) BY <1>1 DEF AllChildren, Children, Composite
      <4>3. clientId'[u] = clientId[u] BY <1>1, <3>2 DEF IInv, TypeOK
      <4>4. QED BY <1>1, <1>3, <3>2, <4>1, <4>2, <4>3 DEF ToldBy
    <3>3. QED BY <3>1, <3>2
  <2>2. QED BY <2>1 DEF Told
<1>11. Asked' BY <1>1, AskedKept
<1>12. QED BY <1>6, <1>7, <1>8, <1>9, <1>10, <1>11 DEF IInv

LEMMA SetProcessKeeps == ASSUME IInv, NEW t \in Thread, SetProcess(t) PROVE IInv'
<1>1. /\ stage[t] = "process" /\ todo[t] = <<>> /\ To(t, "built")
      /\ UNCHANGED <<setting, closeVars, cache, creator, missed, initialized, globalTracer, forGlobal, running, clientId>>
      /\ named' = [named EXCEPT ![t] = AllChildren(t)]
  BY DEF SetProcess, At, AllChildren
<1>2. OneInitializer /\ Told /\ Cached BY DEF IInv
<1>3. /\ stage' \in [Thread -> Stage] /\ todo' \in [Thread -> Seq(Name)]
      /\ stage'[t] = "built" /\ \A u \in Thread \ {t} : stage'[u] = stage[u]
  BY <1>1, ToTyped DEF Stage
<1>4. AllChildren(t) \subseteq Child BY ChildrenAre DEF AllChildren, Child
<1>5. named' \in [Thread -> SUBSET Child] BY <1>1, <1>4 DEF IInv, TypeOK
<1>6. TypeOK' BY <1>1, <1>3, <1>5 DEF IInv, TypeOK, MetricsTypeOK, closeVars
<1>7. Closes' /\ Counts' BY <1>1, <1>3, BuildKeepsClosing
<1>8. Cached' BY <1>1, <1>2, CachedKept
<1>9. OneInitializer'
  <2>1. globalTracer # t BY <1>1, <1>2, LifecycleAssumption DEF OneInitializer, IInv, TypeOK
  <2>2. QED BY <1>1, <1>2, <1>3, <2>1, LifecycleAssumption DEF OneInitializer, IInv, TypeOK
<1>10. Told'
  <2>1. ASSUME NEW u \in Thread PROVE ToldBy(u)'
    <3>0. ToldBy(u) BY <1>2 DEF Told
    <3>1. AllChildren(u)' = AllChildren(u) BY <1>1 DEF AllChildren, Children, Composite
    <3>2. CASE u = t
      <4>1. named'[t] = AllChildren(t) BY <1>1 DEF IInv, TypeOK
      <4>2. QED BY <1>1, <1>3, <3>0, <3>1, <3>2, <4>1 DEF ToldBy
    <3>3. CASE u # t
      <4>1. named'[u] = named[u] BY <1>1, <3>3 DEF IInv, TypeOK
      <4>2. QED BY <1>1, <1>3, <3>0, <3>1, <3>3, <4>1 DEF ToldBy
    <3>4. QED BY <3>2, <3>3
  <2>2. QED BY <2>1 DEF Told
<1>11. Asked' BY <1>1, AskedKept
<1>12. QED BY <1>6, <1>7, <1>8, <1>9, <1>10, <1>11 DEF IInv

LEMMA InstallKeeps == ASSUME IInv, NEW t \in Thread, Install(t) PROVE IInv'
<1>1. /\ stage[t] = "built" /\ todo[t] = <<>> /\ To(t, "ready")
      /\ UNCHANGED <<setting, closeVars, cache, creator, missed, initialized, forGlobal, running, clientId, named>>
      /\ globalTracer' = IF forGlobal[t] THEN t ELSE globalTracer
  BY DEF Install, At
<1>2. OneInitializer /\ Told /\ Cached BY DEF IInv
<1>3. /\ stage' \in [Thread -> Stage] /\ todo' \in [Thread -> Seq(Name)]
      /\ stage'[t] = "ready" /\ \A u \in Thread \ {t} : stage'[u] = stage[u]
  BY <1>1, ToTyped DEF Stage
<1>4. TypeOK' BY <1>1, <1>3 DEF IInv, TypeOK, MetricsTypeOK, closeVars
<1>5. Closes' /\ Counts' BY <1>1, <1>3, BuildKeepsClosing
<1>6. Cached' BY <1>1, <1>2, CachedKept
<1>7. OneInitializer'
  <2>1. \A u \in Thread : forGlobal'[u] => initialized' /\ stage'[u] \notin {"start", "configured", "skipped"}
    BY <1>1, <1>2, <1>3 DEF OneInitializer
  <2>2. \A u, v \in Thread : forGlobal'[u] /\ forGlobal'[v] => u = v BY <1>1, <1>2 DEF OneInitializer
  <2>3. globalTracer' # NoTracer => forGlobal'[globalTracer'] /\ stage'[globalTracer'] = "ready"
    BY <1>1, <1>2, <1>3 DEF OneInitializer, IInv, TypeOK
  <2>4. QED BY <2>1, <2>2, <2>3 DEF OneInitializer
<1>8. Told'
  <2>1. ASSUME NEW u \in Thread PROVE ToldBy(u)'
    <3>1. ToldBy(u) BY <1>2 DEF Told
    <3>2. AllChildren(u)' = AllChildren(u) BY <1>1 DEF AllChildren, Children, Composite
    <3>3. stage'[u] \in {"process", "built", "ready"} => stage[u] \in {"process", "built", "ready"} BY <1>1, <1>3
    <3>4. stage'[u] \in {"built", "ready"} => stage[u] \in {"built", "ready"} BY <1>1, <1>3
    <3>5. QED BY <1>1, <3>1, <3>2, <3>3, <3>4 DEF ToldBy
  <2>2. QED BY <2>1 DEF Told
<1>9. Asked' BY <1>1, AskedKept
<1>10. QED BY <1>4, <1>5, <1>6, <1>7, <1>8, <1>9 DEF IInv

\* Metrics are only got while a tracer is built.
LEMMA MetricsStep ==
  ASSUME IInv, NEW t \in Thread, UNCHANGED setting,
         LookUp(t, FactoryOf(t)) \/ Register(t, FactoryOf(t)) \/ Duplicated(t)
  PROVE  /\ MetricsTypeOK' /\ Cached'
         /\ \A u \in Thread : (missed'[u] # NoMetric => todo'[u] # <<>>) /\ (todo'[u] # <<>> => todo[u] # <<>>)
<1> DEFINE f == FactoryOf(t)
<1>1. MetricsTypeOK /\ Cached /\ f \in Factory
  BY LifecycleAssumption DEF IInv, TypeOK, FactoryOf
<1>a. \A u \in Thread : missed[u] # NoMetric => todo[u] # <<>> BY DEF IInv, Asked, Asks
<1>2. \A u \in Thread : FactoryOf(u)' = FactoryOf(u) BY DEF FactoryOf
<1>3. CASE LookUp(t, f)
  <2>1. UNCHANGED <<cache, creator>> BY <1>3 DEF LookUp
  <2>2. PICK k \in 0 .. Len(todo[t]) :
          /\ todo' = [todo EXCEPT ![t] = SubSeq(@, k + 1, Len(@))]
          /\ \/ k = Len(todo[t]) /\ UNCHANGED missed
             \/ /\ k < Len(todo[t]) /\ todo[t][k + 1] \notin cache[f]
                /\ missed' = [missed EXCEPT ![t] = todo[t][k + 1]]
    BY <1>3 DEF LookUp
  <2>3. todo[t] \in Seq(Name) BY <1>1 DEF MetricsTypeOK
  <2>4. SubSeq(todo[t], k + 1, Len(todo[t])) \in Seq(Name) BY <2>3, SubSeqProperties
  <2>5. todo' \in [Thread -> Seq(Name)] BY <1>1, <2>2, <2>4 DEF MetricsTypeOK
  <2>a. todo[t] # <<>> /\ missed[t] = NoMetric BY <1>3 DEF LookUp
  <2>b. \A u \in Thread : todo'[u] # <<>> => todo[u] # <<>> BY <1>1, <2>2, <2>a DEF MetricsTypeOK
  <2>6. CASE UNCHANGED missed
    <3>1. \A u \in Thread : missed'[u] # NoMetric => todo'[u] # <<>> BY <1>1, <1>a, <2>2, <2>6, <2>a DEF MetricsTypeOK
    <3>2. QED BY <1>1, <1>2, <2>1, <2>5, <2>6, <2>b, <3>1 DEF MetricsTypeOK, Cached, NoSelfCollision
  <2>7. CASE k < Len(todo[t]) /\ todo[t][k + 1] \notin cache[f] /\ missed' = [missed EXCEPT ![t] = todo[t][k + 1]]
    <3>1. todo[t][k + 1] \in Name BY <2>3, <2>7
    <3>2. missed' \in [Thread -> Name \cup {NoMetric}] /\ missed'[t] = todo[t][k + 1]
      BY <1>1, <2>7, <3>1 DEF MetricsTypeOK
    <3>3. creator[todo[t][k + 1]] # t BY <1>1, <2>7, <3>1 DEF Cached
    <3>4. \A u \in Thread : missed'[u] # NoMetric => creator'[missed'[u]] # u
      BY <1>1, <2>1, <2>7, <3>2, <3>3 DEF MetricsTypeOK, Cached, NoSelfCollision
    <3>5. todo'[t] # <<>>
      <4>1. Len(SubSeq(todo[t], k + 1, Len(todo[t]))) # 0 BY <2>3, <2>7, SubSeqProperties
      <4>2. todo'[t] = SubSeq(todo[t], k + 1, Len(todo[t])) BY <1>1, <2>2 DEF MetricsTypeOK
      <4>3. Len(<<>>) = 0 OBVIOUS
      <4>4. QED BY <4>1, <4>2, <4>3, Zenon
    <3>6. \A u \in Thread : missed'[u] # NoMetric => todo'[u] # <<>> BY <1>1, <1>a, <2>2, <2>7, <3>5 DEF MetricsTypeOK
    <3>7. QED BY <1>1, <1>2, <2>1, <2>5, <2>b, <3>2, <3>4, <3>6 DEF MetricsTypeOK, Cached, NoSelfCollision
  <2>8. QED BY <2>2, <2>6, <2>7
<1>4. CASE Register(t, f)
  <2>1. /\ missed[t] # NoMetric /\ creator[missed[t]] = NoThread
        /\ creator' = [creator EXCEPT ![missed[t]] = t]
        /\ cache' = [cache EXCEPT ![f] = @ \cup {missed[t]}]
        /\ todo' = [todo EXCEPT ![t] = Tail(@)] /\ missed' = [missed EXCEPT ![t] = NoMetric]
    BY <1>4 DEF Register
  <2>2. missed[t] \in Name BY <1>1, <2>1 DEF MetricsTypeOK
  <2>3. cache' \in [Factory -> SUBSET Name] /\ creator' \in [Name -> Thread \cup {NoThread}]
        /\ missed' \in [Thread -> Name \cup {NoMetric}]
    BY <1>1, <2>1, <2>2 DEF MetricsTypeOK
  <2>4. todo' \in [Thread -> Seq(Name)]
    <3>1. todo[t] \in Seq(Name) /\ todo[t] # <<>> BY <1>1, <1>a, <2>1 DEF MetricsTypeOK
    <3>2. Tail(todo[t]) \in Seq(Name) BY <3>1, HeadTailProperties
    <3>3. QED BY <1>1, <2>1, <3>2 DEF MetricsTypeOK
  <2>a. \A u \in Thread : todo'[u] # <<>> => todo[u] # <<>> BY <1>1, <1>a, <2>1 DEF MetricsTypeOK
  <2>b. \A u \in Thread : missed'[u] # NoMetric => todo'[u] # <<>> BY <1>1, <1>a, <2>1 DEF MetricsTypeOK
  <2>5. \A u \in Thread : \A n \in Name : creator'[n] = u => n \in cache'[FactoryOf(u)]
    <3>1. ASSUME NEW u \in Thread, NEW n \in Name, creator'[n] = u PROVE n \in cache'[FactoryOf(u)]
      <4>1. FactoryOf(u) \in Factory BY LifecycleAssumption DEF FactoryOf
      <4>2. CASE n = missed[t]
        <5>1. u = t BY <1>1, <2>1, <2>2, <3>1, <4>2 DEF MetricsTypeOK
        <5>2. QED BY <1>1, <2>1, <4>2, <5>1 DEF MetricsTypeOK
      <4>3. CASE n # missed[t]
        <5>1. creator[n] = u BY <1>1, <2>1, <2>2, <3>1, <4>3 DEF MetricsTypeOK
        <5>2. n \in cache[FactoryOf(u)] BY <1>1, <5>1 DEF Cached
        <5>3. QED BY <1>1, <2>1, <4>1, <5>2 DEF MetricsTypeOK
      <4>4. QED BY <4>2, <4>3
    <3>2. QED BY <3>1
  <2>6. \A u \in Thread : missed'[u] # NoMetric => creator'[missed'[u]] # u
    <3>1. ASSUME NEW u \in Thread, missed'[u] # NoMetric PROVE creator'[missed'[u]] # u
      <4>1. u # t /\ missed'[u] = missed[u] BY <1>1, <2>1, <3>1 DEF MetricsTypeOK
      <4>2. missed[u] \in Name /\ creator[missed[u]] # u BY <1>1, <3>1, <4>1 DEF MetricsTypeOK, Cached, NoSelfCollision
      <4>3. QED BY <1>1, <2>1, <2>2, <4>1, <4>2 DEF MetricsTypeOK
    <3>2. QED BY <3>1
  <2>7. QED BY <1>2, <2>3, <2>4, <2>5, <2>6, <2>a, <2>b DEF MetricsTypeOK, Cached, NoSelfCollision
<1>5. CASE Duplicated(t)
  <2>1. /\ UNCHANGED <<cache, creator>>
        /\ todo' = [todo EXCEPT ![t] = <<>>] /\ missed' = [missed EXCEPT ![t] = NoMetric]
    BY <1>5 DEF Duplicated
  <2>2. MetricsTypeOK' BY <1>1, <2>1 DEF MetricsTypeOK
  <2>3. \A u \in Thread : missed'[u] # NoMetric => missed'[u] = missed[u] BY <1>1, <2>1 DEF MetricsTypeOK
  <2>4. \A u \in Thread : (missed'[u] # NoMetric => todo'[u] # <<>>) /\ (todo'[u] # <<>> => todo[u] # <<>>)
    BY <1>1, <1>a, <2>1 DEF MetricsTypeOK
  <2>5. QED BY <1>1, <1>2, <2>1, <2>2, <2>3, <2>4 DEF Cached, NoSelfCollision
<1>6. QED BY <1>3, <1>4, <1>5

LEMMA GetMetricKeeps == ASSUME IInv, NEW t \in Thread, GetMetric(t) PROVE IInv'
<1>1. UNCHANGED <<initialized, globalTracer, setting, forGlobal, running, clientId, named, closeVars>> BY DEF GetMetric
<1>2. /\ MetricsTypeOK' /\ Cached'
      /\ \A u \in Thread : (missed'[u] # NoMetric => todo'[u] # <<>>) /\ (todo'[u] # <<>> => todo[u] # <<>>)
  BY <1>1, MetricsStep DEF GetMetric
<1>a. \A u \in Thread : Asks(u) BY DEF IInv, Asked
<1>3. CASE UNCHANGED stage
  <2>1. TypeOK' BY <1>1, <1>2, <1>3 DEF IInv, TypeOK, closeVars
  <2>2. OneInitializer' BY <1>1, <1>3 DEF IInv, OneInitializer
  <2>3. Told' BY <1>1, <1>3 DEF IInv, Told, ToldBy, AllChildren, Children, Composite
  <2>4. Closes' BY <1>1, <1>3 DEF IInv, Closes, ClosesInOrder, Composite, closeVars
  <2>5. Counts' BY <1>1, <1>3 DEF IInv, Counts, CountsOnce, One, Composite, CallbacksRun, closeVars
  <2>6. Asked' BY <1>2, <1>3, <1>a DEF Asked, Asks
  <2>7. QED BY <1>2, <2>1, <2>2, <2>3, <2>4, <2>5, <2>6 DEF IInv
<1>4. CASE Duplicated(t) /\ stage' = [stage EXCEPT ![t] = "raised"]
  <2>1. stage[t] # "ready" BY <1>4, <1>a DEF Asks, Duplicated
  <2>2. OneInitializer' /\ Told' /\ Closes' /\ Counts' BY <1>1, <1>4, <2>1, StageKeeps
  <2>3. TypeOK' BY <1>1, <1>2, <1>4 DEF IInv, TypeOK, closeVars, Stage
  <2>4. todo'[t] = <<>> BY <1>4 DEF Duplicated, IInv, TypeOK, MetricsTypeOK
  <2>5. \A u \in Thread \ {t} : stage'[u] = stage[u] BY <1>4 DEF IInv, TypeOK
  <2>6. Asked' BY <1>2, <1>a, <2>4, <2>5 DEF Asked, Asks
  <2>7. QED BY <1>2, <2>2, <2>3, <2>6 DEF IInv
<1>5. QED BY <1>3, <1>4 DEF GetMetric

\* A step that leaves the building alone keeps what is known of it.
LEMMA BuildKept ==
  ASSUME IInv, Keep
  PROVE  OneInitializer' /\ Told' /\ Cached' /\ Asked'
<1> USE DEF Keep, metricsVars
<1>1. OneInitializer' BY DEF IInv, OneInitializer
<1>2. Told' BY DEF IInv, Told, ToldBy, AllChildren, Children, Composite
<1>3. Cached' BY CachedKept DEF IInv
<1>4. Asked' BY DEF IInv, Asked, Asks
<1>5. QED BY <1>1, <1>2, <1>3, <1>4

\* ... and the invariant when it also keeps the types of what it does change, and what is known
\* of the closing of each tracer.
LEMMA ClosingKeeps ==
  ASSUME IInv, Keep,
         running' \in [Thread -> SUBSET Task], closed' \in [Thread -> -1 .. 2],
         caller' \in [Thread -> {"none", "runs", "idle", "loopless"}],
         child' \in [Thread -> [Child -> {"open", "flushing", "done", "counted"}]],
         count' \in [Thread -> 0 .. 2], finished' \subseteq Thread,
         \A u \in Thread : ClosesInOrder(u)' /\ CountsOnce(u)'
  PROVE  IInv'
<1>1. TypeOK' BY DEF IInv, TypeOK, Keep, metricsVars, MetricsTypeOK
<1>2. Closes' /\ Counts' BY DEF Closes, Counts
<1>3. QED BY <1>1, <1>2, BuildKept DEF IInv

\* The tracers that a step leaves as they are.
LEMMA OthersKept ==
  ASSUME IInv, Keep, NEW u \in Thread, running'[u] = running[u], caller'[u] = caller[u], closed'[u] = closed[u],
         child'[u] = child[u], count'[u] = count[u], u \in finished' <=> u \in finished
  PROVE  ClosesInOrder(u)' /\ CountsOnce(u)'
<1>1. ClosesInOrder(u) /\ CountsOnce(u) BY DEF IInv, Closes, Counts
<1>2. stage' = stage /\ setting' = setting BY DEF Keep
<1>3. ClosesInOrder(u)' BY <1>1, <1>2 DEF ClosesInOrder, Composite
<1>4. CountsOnce(u)' BY <1>1, <1>2 DEF CountsOnce, One, Composite, CallbacksRun
<1>5. QED BY <1>3, <1>4

LEMMA FirstPollKeeps == ASSUME IInv, NEW t \in Thread, FirstPoll(t) PROVE IInv'
<1>1. /\ Keep /\ caller' = caller /\ closed' = closed /\ child' = child /\ count' = count /\ finished' = finished
      /\ running' = [running EXCEPT ![t] = (@ \ {"first"}) \cup (IF SamplerClosed(t) THEN {} ELSE {"periodic"})]
  BY DEF FirstPoll, closeVars
<1>2. running' \in [Thread -> SUBSET Task] BY <1>1 DEF IInv, TypeOK, Task
<1>3. ASSUME NEW u \in Thread PROVE ClosesInOrder(u)' /\ CountsOnce(u)'
  <2>1. CASE u = t
    <3>1. ClosesInOrder(t) /\ CountsOnce(t) BY DEF IInv, Closes, Counts
    <3>2. stage' = stage /\ setting' = setting BY <1>1 DEF Keep
    <3>3. /\ caller[t] # "none" => running'[t] = running[t] \ {"first"}
          /\ "consumer" \in running'[t] => "consumer" \in running[t]
      BY <1>1 DEF IInv, TypeOK, SamplerClosed
    <3>4. ClosesInOrder(t)' BY <1>1, <3>1, <3>2, <3>3 DEF ClosesInOrder, Composite
    <3>5. CountsOnce(t)' BY <1>1, <3>1, <3>2 DEF CountsOnce, One, Composite, CallbacksRun
    <3>6. QED BY <2>1, <3>4, <3>5
  <2>2. CASE u # t
    <3>1. running'[u] = running[u] BY <1>1, <2>2 DEF IInv, TypeOK
    <3>2. QED BY <1>1, <3>1, OthersKept
  <2>3. QED BY <2>1, <2>2
<1>4. QED BY <1>1, <1>2, <1>3, ClosingKeeps DEF IInv, TypeOK

LEMMA CloseKeeps == ASSUME IInv, NEW t \in Thread, Close(t) PROVE IInv'
<1>1. PICK c \in {"runs", "idle", "loopless"} :
        /\ caller' = [caller EXCEPT ![t] = c]
        /\ closed' = IF c = "loopless" THEN closed ELSE [closed EXCEPT ![t] = 0]
  BY DEF Close
<1>2. /\ stage[t] = "ready" /\ caller[t] = "none" /\ Keep
      /\ running' = [running EXCEPT ![t] = @ \ {"periodic"}]
      /\ child' = child /\ count' = count /\ finished' = finished
  BY DEF Close, SamplerClosed
<1>3. /\ running' \in [Thread -> SUBSET Task] /\ closed' \in [Thread -> -1 .. 2]
      /\ caller' \in [Thread -> {"none", "runs", "idle", "loopless"}]
  BY <1>1, <1>2 DEF IInv, TypeOK
<1>4. ASSUME NEW u \in Thread PROVE ClosesInOrder(u)' /\ CountsOnce(u)'
  <2>1. CASE u = t
    <3>1. ClosesInOrder(t) /\ CountsOnce(t) BY DEF IInv, Closes, Counts
    <3>2. stage' = stage /\ setting' = setting BY <1>2 DEF Keep
    <3>3. closed[t] = -1 BY <1>2, <3>1 DEF ClosesInOrder
    <3>4. /\ caller'[t] = c /\ running'[t] = running[t] \ {"periodic"}
          /\ closed'[t] = IF c = "loopless" THEN -1 ELSE 0
      BY <1>1, <1>2, <3>3 DEF IInv, TypeOK
    <3>5. child'[t]["remote"] = "open" /\ child'[t]["logging"] = "open" BY <1>2, <3>1, <3>3 DEF ClosesInOrder, IInv, TypeOK
    <3>6. ClosesInOrder(t)' BY <1>2, <3>2, <3>4, <3>5 DEF ClosesInOrder
    <3>7. \A d \in Child : child'[t][d] # "counted" BY <3>5 DEF Child
    <3>8. CountsOnce(t)' BY <1>2, <3>1, <3>2, <3>7 DEF CountsOnce, One, Composite
    <3>9. QED BY <2>1, <3>6, <3>8
  <2>2. CASE u # t
    <3>1. caller'[u] = caller[u] /\ closed'[u] = closed[u] /\ running'[u] = running[u]
      BY <1>1, <1>2, <2>2 DEF IInv, TypeOK
    <3>2. QED BY <1>2, <3>1, OthersKept
  <2>3. QED BY <2>1, <2>2
<1>5. QED BY <1>2, <1>3, <1>4, ClosingKeeps DEF IInv, TypeOK

LEMMA CloseChildKeeps == ASSUME IInv, NEW t \in Thread, CloseChild(t) PROVE IInv'
<1> DEFINE c == Children(t)[closed[t] + 1]
           next == Begun(c)
<1>1. /\ closed[t] \in 0 .. Len(Children(t)) - 1 /\ Keep
      /\ closed' = [closed EXCEPT ![t] = @ + 1] /\ child' = [child EXCEPT ![t][c] = next]
      /\ caller' = caller /\ running' = running /\ count' = count /\ finished' = finished
  BY DEF CloseChild
<1>2. \/ closed[t] = 0 /\ c = "remote"
      \/ closed[t] = 1 /\ c = "logging" /\ Composite(t)
  <2>1. CASE Composite(t)
    <3>1. Children(t)[1] = "remote" /\ Children(t)[2] = "logging" /\ Len(Children(t)) = 2 BY <2>1, ChildrenAre
    <3>2. closed[t] = 0 \/ closed[t] = 1 BY <1>1, <3>1
    <3>3. QED BY <2>1, <3>1, <3>2
  <2>2. CASE ~Composite(t)
    <3>1. Children(t)[1] = "remote" /\ Len(Children(t)) = 1 BY <2>2, ChildrenAre
    <3>2. closed[t] = 0 BY <1>1, <3>1
    <3>3. QED BY <3>1, <3>2
  <2>3. QED BY <2>1, <2>2
<1>3. c \in Child /\ next \in {"flushing", "done"} BY <1>2 DEF Child, Begun
<1> HIDE DEF next, c
<1>4. closed' \in [Thread -> -1 .. 2] BY <1>1, <1>2 DEF IInv, TypeOK
<1>5. child' \in [Thread -> [Child -> {"open", "flushing", "done", "counted"}]] BY <1>1, <1>3 DEF IInv, TypeOK
<1>6. ASSUME NEW u \in Thread PROVE ClosesInOrder(u)' /\ CountsOnce(u)'
  <2>1. CASE u = t
    <3>1. ClosesInOrder(t) /\ CountsOnce(t) BY DEF IInv, Closes, Counts
    <3>2. stage' = stage /\ setting' = setting BY <1>1 DEF Keep
    <3>3. closed'[t] = closed[t] + 1 BY <1>1 DEF IInv, TypeOK
    <3>4. child'[t] = [child[t] EXCEPT ![c] = next] /\ child[t] \in [Child -> {"open", "flushing", "done", "counted"}]
      BY <1>1 DEF IInv, TypeOK
    <3>5. CASE closed[t] = 0 /\ c = "remote"
      <4>1. child'[t]["remote"] = "flushing" /\ child'[t]["logging"] = child[t]["logging"] BY <3>4, <3>5 DEF Child, next, Begun
      <4>3. child[t]["remote"] = "open" /\ child[t]["logging"] = "open" BY <3>1, <3>5 DEF ClosesInOrder
      <4>4. ClosesInOrder(t)' BY <1>1, <3>1, <3>2, <3>3, <3>5, <4>1, <4>3 DEF ClosesInOrder
      <4>a. \A d \in Child : child'[t][d] # "counted" BY <4>1, <4>3 DEF Child
      <4>5. CountsOnce(t)' BY <1>1, <3>1, <3>2, <4>1, <4>3, <4>a DEF CountsOnce, One, Composite
      <4>6. QED BY <2>1, <4>4, <4>5
    <3>6. CASE closed[t] = 1 /\ c = "logging" /\ Composite(t)
      <4>1. child'[t]["logging"] = "done" /\ child'[t]["remote"] = child[t]["remote"] BY <3>4, <3>6 DEF Child, next, Begun
      <4>2. child[t]["logging"] = "open" /\ child[t]["remote"] # "open" BY <3>1, <3>6 DEF ClosesInOrder
      <4>3. Composite(t)' BY <3>2, <3>6 DEF Composite
      <4>4. ClosesInOrder(t)' BY <1>1, <3>1, <3>2, <3>3, <3>6, <4>1, <4>2, <4>3 DEF ClosesInOrder
      <4>a. \A d \in Child : child'[t][d] = "counted" => child[t][d] = "counted" BY <4>1 DEF Child
      <4>b. CallbacksRun(t)' <=> CallbacksRun(t) BY <1>1, <3>2 DEF CallbacksRun, Composite
      <4>5. CountsOnce(t)' BY <1>1, <3>1, <3>2, <3>6, <4>1, <4>2, <4>3, <4>a, <4>b DEF CountsOnce, One, Composite
      <4>6. QED BY <2>1, <4>4, <4>5
    <3>7. QED BY <1>2, <3>5, <3>6
  <2>2. CASE u # t
    <3>1. closed'[u] = closed[u] /\ child'[u] = child[u] BY <1>1, <2>2 DEF IInv, TypeOK
    <3>2. QED BY <1>1, <3>1, OthersKept
  <2>3. QED BY <2>1, <2>2
<1>7. QED BY <1>1, <1>4, <1>5, <1>6, ClosingKeeps DEF IInv, TypeOK

LEMMA FlushKeeps == ASSUME IInv, NEW t \in Thread, Flush(t) PROVE IInv'
<1>1. /\ child[t]["remote"] = "flushing" /\ Keep
      /\ child' = [child EXCEPT ![t]["remote"] = "done"] /\ running' = [running EXCEPT ![t] = @ \ {"consumer"}]
      /\ finished' = IF Composite(t) THEN finished ELSE finished \cup {t}
      /\ caller' = caller /\ closed' = closed /\ count' = count
  BY DEF Flush
<1>2. /\ running' \in [Thread -> SUBSET Task] /\ finished' \subseteq Thread
      /\ child' \in [Thread -> [Child -> {"open", "flushing", "done", "counted"}]]
  BY <1>1 DEF IInv, TypeOK
<1>3. ASSUME NEW u \in Thread PROVE ClosesInOrder(u)' /\ CountsOnce(u)'
  <2>1. CASE u = t
    <3>1. ClosesInOrder(t) /\ CountsOnce(t) BY DEF IInv, Closes, Counts
    <3>2. stage' = stage /\ setting' = setting /\ (Composite(t)' <=> Composite(t)) BY <1>1 DEF Keep, Composite
    <3>3. /\ running'[t] = running[t] \ {"consumer"}
          /\ child'[t]["remote"] = "done" /\ child'[t]["logging"] = child[t]["logging"]
      BY <1>1 DEF IInv, TypeOK, Child
    <3>4. ClosesInOrder(t)' BY <1>1, <3>1, <3>2, <3>3 DEF ClosesInOrder
    <3>5. t \in finished' => ~Composite(t) BY <1>1, <3>1 DEF CountsOnce
    <3>6. count'[t] = One(t, "remote")' + One(t, "logging")' BY <1>1, <3>1, <3>3 DEF CountsOnce, One
    <3>a. \A d \in Child : child'[t][d] = "counted" => child[t][d] = "counted" BY <3>3 DEF Child
    <3>b. CallbacksRun(t)' <=> CallbacksRun(t) BY <1>1, <3>2 DEF CallbacksRun
    <3>7. CountsOnce(t)' BY <3>1, <3>2, <3>3, <3>5, <3>6, <3>a, <3>b DEF CountsOnce
    <3>8. QED BY <2>1, <3>4, <3>7
  <2>2. CASE u # t
    <3>1. running'[u] = running[u] /\ child'[u] = child[u] /\ (u \in finished' <=> u \in finished)
      BY <1>1, <2>2 DEF IInv, TypeOK
    <3>2. QED BY <1>1, <3>1, OthersKept
  <2>3. QED BY <2>1, <2>2
<1>4. QED BY <1>1, <1>2, <1>3, ClosingKeeps DEF IInv, TypeOK

LEMMA OnCloseKeeps == ASSUME IInv, NEW t \in Thread, NEW c \in Child, OnClose(t, c) PROVE IInv'
<1>1. /\ Composite(t) /\ child[t][c] = "done" /\ caller[t] # "idle" /\ Keep
      /\ child' = [child EXCEPT ![t][c] = "counted"] /\ count' = [count EXCEPT ![t] = @ + 1]
      /\ finished' = IF LastClosed(t, count[t] + 1) THEN finished \cup {t} ELSE finished
      /\ caller' = caller /\ closed' = closed /\ running' = running
  BY DEF OnClose
<1>2. ClosesInOrder(t) /\ CountsOnce(t) BY DEF IInv, Closes, Counts
<1>3. \A d \in Child : child'[t][d] = IF d = c THEN "counted" ELSE child[t][d] BY <1>1 DEF IInv, TypeOK
<1>4. c = "remote" \/ c = "logging" BY DEF Child
<1>5. count'[t] = count[t] + 1 /\ count[t] \in {0, 1}
  <2>1. count[t] = One(t, "remote") + One(t, "logging") BY <1>2 DEF CountsOnce
  <2>2. One(t, c) = 0 /\ One(t, "remote") \in {0, 1} /\ One(t, "logging") \in {0, 1} BY <1>1 DEF One
  <2>3. QED BY <1>1, <1>4, <2>1, <2>2 DEF IInv, TypeOK
<1>6. count'[t] = One(t, "remote")' + One(t, "logging")'
  <2>1. count[t] = One(t, "remote") + One(t, "logging") BY <1>2 DEF CountsOnce
  <2>2. CASE c = "remote"
    <3>a. child'[t]["remote"] = "counted" /\ child'[t]["logging"] = child[t]["logging"] BY <1>3, <2>2 DEF Child
    <3>b. child[t]["remote"] # "counted" BY <1>1, <2>2
    <3>1. One(t, "remote") = 0 /\ One(t, "remote")' = 1 /\ One(t, "logging")' = One(t, "logging") BY <3>a, <3>b, Zenon DEF One
    <3>2. One(t, "logging") \in {0, 1} BY DEF One
    <3>3. QED BY <1>5, <2>1, <3>1, <3>2
  <2>3. CASE c = "logging"
    <3>a. child'[t]["logging"] = "counted" /\ child'[t]["remote"] = child[t]["remote"] BY <1>3, <2>3 DEF Child
    <3>b. child[t]["logging"] # "counted" BY <1>1, <2>3
    <3>1. One(t, "logging") = 0 /\ One(t, "logging")' = 1 /\ One(t, "remote")' = One(t, "remote") BY <3>a, <3>b, Zenon DEF One
    <3>2. One(t, "remote") \in {0, 1} BY DEF One
    <3>3. QED BY <1>5, <2>1, <3>1, <3>2
  <2>4. QED BY <1>4, <2>2, <2>3
<1>7. t \in finished' => child'[t]["remote"] = "counted" /\ child'[t]["logging"] = "counted"
  <2>1. t \notin finished BY <1>1, <1>2, <1>4 DEF CountsOnce
  <2>2. t \in finished' => count'[t] = 2 BY <1>1, <1>5, <2>1, ChildrenAre DEF LastClosed
  <2>3. count'[t] = 2 => One(t, "remote")' = 1 /\ One(t, "logging")' = 1 BY <1>6 DEF One
  <2>4. QED BY <2>2, <2>3 DEF One
<1>8. /\ child' \in [Thread -> [Child -> {"open", "flushing", "done", "counted"}]]
      /\ count' \in [Thread -> 0 .. 2] /\ finished' \subseteq Thread
  BY <1>1, <1>5 DEF IInv, TypeOK
<1>9. ASSUME NEW u \in Thread PROVE ClosesInOrder(u)' /\ CountsOnce(u)'
  <2>1. CASE u = t
    <3>1. stage' = stage /\ setting' = setting /\ (Composite(t)' <=> Composite(t)) BY <1>1 DEF Keep, Composite
    <3>2. \A d \in Child : child'[t][d] = child[t][d] \/ (child[t][d] = "done" /\ child'[t][d] = "counted")
      BY <1>1, <1>3
    <3>3. "remote" \in Child /\ "logging" \in Child BY DEF Child
    <3>a. /\ child'[t]["remote"] # "open" <=> child[t]["remote"] # "open"
          /\ child'[t]["logging"] # "open" <=> child[t]["logging"] # "open"
          /\ child'[t]["remote"] \in {"done", "counted"} => child[t]["remote"] \in {"done", "counted"}
          /\ child'[t]["logging"] = "flushing" => child[t]["logging"] = "flushing"
      BY <3>2, <3>3
    <3>b. caller'[t] = caller[t] /\ closed'[t] = closed[t] /\ running'[t] = running[t] /\ stage'[t] = stage[t]
      BY <1>1, <3>1
    <3>4. ClosesInOrder(t)' BY <1>2, <3>1, <3>a, <3>b, Zenon DEF ClosesInOrder
    <3>c. CallbacksRun(t)' BY <1>1, <3>b DEF CallbacksRun
    <3>5. CountsOnce(t)' BY <1>1, <1>6, <1>7, <3>1, <3>c DEF CountsOnce
    <3>6. QED BY <2>1, <3>4, <3>5
  <2>2. CASE u # t
    <3>1. count'[u] = count[u] /\ child'[u] = child[u] /\ (u \in finished' <=> u \in finished)
      BY <1>1, <2>2 DEF IInv, TypeOK
    <3>2. QED BY <1>1, <3>1, OthersKept
  <2>3. QED BY <2>1, <2>2
<1>10. QED BY <1>1, <1>8, <1>9, ClosingKeeps DEF IInv, TypeOK

\* Every step keeps the invariant.
LEMMA StepInv == IInv /\ [Next]_vars => IInv'
<1> SUFFICES ASSUME IInv, [Next]_vars PROVE IInv' OBVIOUS
<1>1. CASE Next
  <2> SUFFICES ASSUME NEW t \in Thread,
                      \/ ConfigInit(t) \/ InitializeTracer(t) \/ NewTracer(t) \/ Build(t)
                      \/ FirstPoll(t) \/ Close(t) \/ Closing(t)
               PROVE  IInv'
    BY <1>1 DEF Next
  <2>1. CASE ConfigInit(t) BY <2>1, ConfigInitKeeps
  <2>2. CASE InitializeTracer(t) BY <2>2, InitializeTracerKeeps
  <2>3. CASE NewTracer(t) BY <2>3, NewTracerKeeps
  <2>4. CASE Build(t)
    BY <2>4, GetMetricKeeps, CreateChannelKeeps, CreateSamplerKeeps, ReadOptionsKeeps, CreateReporterKeeps,
       CreateThrottlerKeeps, CreateTracerKeeps, SetClientIdKeeps, SetProcessKeeps, InstallKeeps
       DEF Build
  <2>5. CASE Close(t) BY <2>5, CloseKeeps
  <2>6. CASE Closing(t) BY <2>6, CloseChildKeeps, FlushKeeps, OnCloseKeeps DEF Closing
  <2>7. CASE FirstPoll(t) BY <2>7, FirstPollKeeps
  <2>8. QED BY <2>1, <2>2, <2>3, <2>4, <2>5, <2>6, <2>7
<1>2. CASE UNCHANGED vars
  <2> USE <1>2 DEF vars, buildVars, closeVars, metricsVars
  <2>1. TypeOK' BY DEF IInv, TypeOK, MetricsTypeOK
  <2>2. Keep BY DEF Keep
  <2>3. \A u \in Thread : ClosesInOrder(u)' /\ CountsOnce(u)' BY <2>2, OthersKept
  <2>4. QED BY <2>1, <2>2, <2>3, BuildKept DEF IInv, Closes, Counts
<1>3. QED BY <1>1, <1>2

THEOREM Invariance == Spec => []IInv
BY InitInv, StepInv, PTL DEF Spec

-----------------------------------------------------------------------------
(* The properties. *)

\* Lifecycle keeps its types: running and named hold what a tracer has, and the closing counts
\* up to the reporters that there are.
THEOREM TypeCorrect == Spec => []TypeOK
BY Invariance, PTL DEF IInv

\* However many threads build tracers, the global one is complete when it can be seen.
THEOREM Complete == Spec => []GlobalIsComplete
<1>1. IInv => GlobalIsComplete
  <2> SUFFICES ASSUME IInv, NEW t \in Thread, globalTracer = t
               PROVE  /\ \A i \in DOMAIN Children(t) : Children(t)[i] \in named[t]
                      /\ HasThrottler(setting[t]) => clientId[t]
    BY DEF GlobalIsComplete
  <2>1. stage[t] = "ready" BY LifecycleAssumption DEF IInv, OneInitializer
  <2>2. ToldBy(t) BY DEF IInv, Told
  <2>3. QED BY <2>1, <2>2 DEF ToldBy, AllChildren
<1>2. QED BY <1>1, Invariance, PTL

\* When the future of Tracer.close is done its reporters are closed and the consumer has exited.  Nothing
\* polls periodically, and nothing will: a first poll that is still pending then finds the sampler closed.
THEOREM ClosesAll == Spec => []CloseMeansAll
<1>1. IInv => CloseMeansAll
  <2> SUFFICES ASSUME IInv, NEW t \in finished
               PROVE  /\ \A i \in DOMAIN Children(t) : child[t][Children(t)[i]] \in {"done", "counted"}
                      /\ running[t] \subseteq {"loop", "throttler", "first"}
    BY DEF CloseMeansAll
  <2>0. t \in Thread BY DEF IInv, TypeOK
  <2>1. ClosesInOrder(t) /\ CountsOnce(t) BY <2>0 DEF IInv, Closes, Counts
  <2>2. child[t]["remote"] \in {"done", "counted"} /\ (Composite(t) => child[t]["logging"] = "counted")
    BY <2>1 DEF CountsOnce
  <2>3. \A i \in DOMAIN Children(t) : child[t][Children(t)[i]] \in {"done", "counted"} BY <2>0, <2>2, ChildrenAre
  <2>4. caller[t] # "none" BY <2>0, <2>1, <2>2 DEF ClosesInOrder, IInv, TypeOK
  <2>5. "periodic" \notin running[t] /\ "consumer" \notin running[t] BY <2>1, <2>2, <2>4 DEF ClosesInOrder
  <2>6. running[t] \subseteq Task BY <2>0 DEF IInv, TypeOK
  <2>7. QED BY <2>3, <2>5, <2>6 DEF Task
<1>2. QED BY <1>1, Invariance, PTL

\* No thread fails over a metric of its own, however many share its factory.
THEOREM SelfCollision == Spec => []NoSelfCollision
BY Invariance, PTL DEF IInv, Cached

\* The global tracer is never replaced.
THEOREM OneTracer == Spec => OneGlobalTracer
<1>1. IInv /\ [Next]_vars => [globalTracer # NoTracer => globalTracer' = globalTracer]_vars
  <2> SUFFICES ASSUME IInv, Next, globalTracer # NoTracer PROVE globalTracer' = globalTracer
    BY DEF vars
  <2>1. OneInitializer BY DEF IInv
  <2>2. PICK t \in Thread : \/ ConfigInit(t) \/ InitializeTracer(t) \/ NewTracer(t) \/ Build(t)
                            \/ FirstPoll(t) \/ Close(t) \/ Closing(t)
    BY DEF Next
  <2>3. CASE Install(t)
    <3>1. stage[t] = "built" BY <2>3 DEF Install, At
    <3>2. forGlobal[t] => globalTracer = t BY <2>1 DEF OneInitializer, IInv, TypeOK
    <3>3. ~forGlobal[t] BY <2>1, <3>1, <3>2 DEF OneInitializer
    <3>4. QED BY <2>3, <3>3 DEF Install
  <2>4. CASE ~Install(t)
    BY <2>2, <2>4
       DEF ConfigInit, InitializeTracer, NewTracer, Build, GetMetric, CreateChannel, CreateSampler, ReadOptions,
           CreateReporter, CreateThrottler, CreateTracer, SetClientId, SetProcess, Builds, FirstPoll, Close, Closing,
           CloseChild, Flush, OnClose, Keep
  <2>5. QED BY <2>3, <2>4
<1>2. QED BY <1>1, Invariance, PTL DEF Spec, OneGlobalTracer

-----------------------------------------------------------------------------
(* What was begun comes to its end. *)

\* The stages in which a tracer is being built, with the number of those still to come.
Building == {"channel", "sampler", "options", "reporter", "throttler", "tracer", "client", "process", "built"}
Rank(where) ==
  CASE where = "channel" -> 9 [] where = "sampler"   -> 8 [] where = "options" -> 7
    [] where = "reporter" -> 6 [] where = "throttler" -> 5 [] where = "tracer" -> 4
    [] where = "client" -> 3   [] where = "process" -> 2   [] where = "built" -> 1

\* The guards of Build and of Closing.
MayGetMetric(t) ==
  /\ todo[t] # <<>>
  /\ missed[t] = NoMetric =>
       \E k \in 0 .. Len(todo[t]) :
         /\ \A i \in 1 .. k : todo[t][i] \in cache[FactoryOf(t)]
         /\ k < Len(todo[t]) => todo[t][k + 1] \notin cache[FactoryOf(t)]
MayBuild(t) == stage[t] \in Building /\ (todo[t] = <<>> \/ MayGetMetric(t))
MayClose(t) ==
  \/ closed[t] \in 0 .. Len(Children(t)) - 1
  \/ child[t]["remote"] = "flushing"
  \/ Composite(t) /\ caller[t] # "idle" /\ \E c \in Child : child[t][c] = "done"

\* How far a construction, and the closing of a tracer, have still to go, at most.
MaxMetrics == 7
BuildWork(t) ==
  IF stage[t] \in Building
    THEN 16 * Rank(stage[t]) + 2 * Len(todo[t]) + (IF missed[t] = NoMetric THEN 1 ELSE 0)
    ELSE 0
ChildWork(t, c) == CASE child[t][c] = "open" -> 3 [] child[t][c] = "flushing" -> 2
                     [] child[t][c] = "done" -> 1 [] child[t][c] = "counted" -> 0
CloseWork(t) == ChildWork(t, "remote") + ChildWork(t, "logging")

\* A close that was begun and has nothing left to do has closed all reporters, and it has completed its
\* future unless that hangs on callbacks that do not run: then the future is never completed.
CloseEnds ==
  \A t \in Thread : closed[t] # -1 /\ ~MayClose(t) =>
    /\ \A i \in DOMAIN Children(t) : child[t][Children(t)[i]] \in {"done", "counted"}
    /\ t \in finished <=> CallbacksRun(t)

\* A thread that was sent away has a tracer, or one that is being built, or the call has raised.
SkippedWaits ==
  \A t \in Thread : stage[t] = "skipped" =>
    \/ globalTracer # NoTracer
    \/ \E u \in Thread : forGlobal[u] /\ (stage[u] = "raised" \/ MayBuild(u))

WorkIsNat == \A t \in Thread : BuildWork(t) \in Nat /\ CloseWork(t) \in Nat

\* Each step of a construction, or of a close, uses up some of its work, and nobody adds to it.
WorkUsedUp ==
  [][\A t \in Thread :
       /\ Build(t) => BuildWork(t)' < BuildWork(t)
       /\ Closing(t) => CloseWork(t)' < CloseWork(t)
       /\ stage[t] \in Building /\ ~Build(t) => BuildWork(t)' = BuildWork(t)
       /\ ~Closing(t) => CloseWork(t)' = CloseWork(t)]_vars

\* The flag was set by a call that is still on its way to the global tracer, has got there or has raised...
Goals(t) ==
  /\ stage[t] = "skipped" => initialized
  /\ forGlobal[t] /\ stage[t] = "ready" => globalTracer # NoTracer
  /\ Len(todo[t]) <= MaxMetrics
FlagMeansCall == initialized => \E t \in Thread : forGlobal[t]

\* ... and the last reporter that closes completes the future.
Completes(t) ==
  /\ child[t]["remote"] = "done" /\ ~Composite(t) => t \in finished
  /\ count[t] = 2 => t \in finished

GoalInv == FlagMeansCall /\ \A t \in Thread : Goals(t) /\ Completes(t)

LEMMA MetricsLength ==
  ASSUME NEW s, NEW at
  PROVE  Len(MetricsOf(s, at)) <= MaxMetrics
<1>1. Len(ForSampler) <= 7 BY DEF ForSampler
<1>2. Len(ForReporter) <= 7 BY DEF ForReporter
<1>3. Len(ForThrottler) <= 7 BY DEF ForThrottler
<1>4. Len(ForTracer) <= 7 BY DEF ForTracer
<1>5. Len(<<>>) <= 7 OBVIOUS
<1>6. QED BY <1>1, <1>2, <1>3, <1>4, <1>5, Zenon DEF MetricsOf, MaxMetrics

\* A list has a first element outside of a set, or none.
LEMMA FirstMissing ==
  ASSUME NEW S, NEW q \in Seq(S), Len(q) <= MaxMetrics, NEW C
  PROVE  \E k \in 0 .. Len(q) : (\A i \in 1 .. k : q[i] \in C) /\ (k < Len(q) => q[k + 1] \notin C)
<1> DEFINE Up(k) == \A i \in 1 .. k : q[i] \in C
           Ends(k) == k \in 0 .. Len(q) /\ Up(k) /\ (k < Len(q) => q[k + 1] \notin C)
<1>0. Len(q) \in Nat OBVIOUS
<1>1. Len(q) \in 0 .. 7
  <2>1. \A n \in Nat : n <= 7 => n \in 0 .. 7 OBVIOUS
  <2>2. Len(q) <= 7 BY DEF MaxMetrics
  <2>3. QED BY ONLY <1>0, <2>1, <2>2
<1>2. ASSUME NEW k \in 0 .. 6, Up(k), k < Len(q), ~Ends(k) PROVE Up(k + 1)
  <2>1. q[k + 1] \in C BY <1>1, <1>2
  <2>2. \A i \in 1 .. k + 1 : i \in 1 .. k \/ i = k + 1 OBVIOUS
  <2>3. QED BY <1>2, <2>1, <2>2
<1>3. ASSUME NEW k \in 0 .. 7, Up(k), k = Len(q) PROVE Ends(k) BY <1>1, <1>3
<1>4. Up(0) OBVIOUS
<1> HIDE DEF Up, Ends
<1>5. \E k \in 0 .. 7 : Ends(k)
  <2> SUFFICES ASSUME \A k \in 0 .. 7 : ~Ends(k) PROVE FALSE OBVIOUS
  <2>1. ASSUME NEW k \in 0 .. 6, NEW m \in 0 .. 7, m = k + 1, Up(k) /\ k <= Len(q) PROVE Up(m) /\ m <= Len(q)
    <3>1. k \in 0 .. 7 /\ ~Ends(k) OBVIOUS
    <3>2. k # Len(q) BY <1>3, <2>1, <3>1
    <3>3. k < Len(q) /\ k + 1 <= Len(q) BY <1>0, <2>1, <3>2
    <3>4. QED BY <1>2, <2>1, <3>1, <3>3
  <2>2. Up(0) /\ 0 <= Len(q) BY <1>1, <1>4
  <2>3. Up(1) /\ 1 <= Len(q) BY <2>1, <2>2
  <2>4. Up(2) /\ 2 <= Len(q) BY <2>1, <2>3
  <2>5. Up(3) /\ 3 <= Len(q) BY <2>1, <2>4
  <2>6. Up(4) /\ 4 <= Len(q) BY <2>1, <2>5
  <2>7. Up(5) /\ 5 <= Len(q) BY <2>1, <2>6
  <2>8. Up(6) /\ 6 <= Len(q) BY <2>1, <2>7
  <2>9. Up(7) /\ 7 <= Len(q) BY <2>1, <2>8
  <2>10. 7 = Len(q)
    <3>1. \A n \in 0 .. 7 : 7 <= n => 7 = n OBVIOUS
    <3>2. QED BY ONLY <1>1, <2>9, <3>1
  <2>11. QED BY <1>1, <1>3, <2>9, <2>10
<1>6. QED BY <1>5 DEF Ends, Up

LEMMA InitGoals == Init => GoalInv
<1> SUFFICES ASSUME Init PROVE GoalInv OBVIOUS
<1>1. FlagMeansCall BY DEF Init, FlagMeansCall
<1>2. ASSUME NEW t \in Thread PROVE Goals(t)
  BY DEF Init, MetricsInit, Goals, MaxMetrics
<1>3. ASSUME NEW t \in Thread PROVE Completes(t)
  BY DEF Init, Child, Completes
<1>4. QED BY <1>1, <1>2, <1>3 DEF GoalInv

\* What a step that takes a call to another stage keeps.
LEMMA ToGoals ==
  ASSUME IInv, GoalInv, NEW t \in Thread, NEW n, To(t, n), UNCHANGED <<setting, closeVars>>,
         initialized => initialized', n = "skipped" => initialized', FlagMeansCall',
         \A u \in Thread \ {t} : forGlobal'[u] = forGlobal[u],
         forGlobal'[t] /\ n = "ready" => globalTracer' # NoTracer,
         globalTracer # NoTracer => globalTracer' # NoTracer
  PROVE  GoalInv'
<1>1. stage'[t] = n /\ todo'[t] = MetricsOf(setting[t], n) BY DEF To, IInv, TypeOK, MetricsTypeOK
<1>2. \A u \in Thread \ {t} : stage'[u] = stage[u] /\ todo'[u] = todo[u] BY DEF To, IInv, TypeOK, MetricsTypeOK
<1>3. ASSUME NEW u \in Thread PROVE Goals(u)'
  <2>1. Goals(u) BY DEF GoalInv
  <2>2. CASE u = t BY <1>1, <2>2, MetricsLength DEF Goals
  <2>3. CASE u # t
    <3>1. stage'[u] = stage[u] /\ todo'[u] = todo[u] /\ forGlobal'[u] = forGlobal[u] BY <1>2, <2>3
    <3>2. Len(todo'[u]) <= MaxMetrics BY <2>1, <3>1 DEF Goals
    <3>3. QED BY <2>1, <3>1, <3>2, Zenon DEF Goals, MaxMetrics
  <2>4. QED BY <2>2, <2>3
<1>4. ASSUME NEW u \in Thread PROVE Completes(u)' BY DEF GoalInv, Completes, Composite, closeVars
<1>5. QED BY <1>3, <1>4 DEF GoalInv

LEMMA BuildGoals ==
  ASSUME IInv, GoalInv, NEW t \in Thread, ConfigInit(t) \/ NewTracer(t) \/ Build(t)
  PROVE  GoalInv'
<1>0. t # NoTracer BY LifecycleAssumption
<1>1. CASE \/ ConfigInit(t) \/ NewTracer(t) \/ CreateChannel(t) \/ CreateSampler(t) \/ ReadOptions(t)
           \/ CreateReporter(t) \/ CreateThrottler(t) \/ CreateTracer(t)
  <2>1. UNCHANGED <<setting, closeVars, initialized, globalTracer, forGlobal>>
    BY <1>1 DEF ConfigInit, NewTracer, CreateChannel, CreateSampler, ReadOptions, CreateReporter, CreateThrottler,
       CreateTracer, Builds, At
  <2>2. \E n \in Stage \ {"skipped", "ready"} : To(t, n)
    BY <1>1 DEF ConfigInit, NewTracer, CreateChannel, CreateSampler, ReadOptions, CreateReporter, CreateThrottler,
       CreateTracer, Builds, Stage
  <2>3. FlagMeansCall' BY <2>1 DEF GoalInv, FlagMeansCall
  <2>4. QED BY <2>1, <2>2, <2>3, ToGoals
<1>2. CASE SetClientId(t) \/ SetProcess(t)
  <2>1. UNCHANGED <<setting, closeVars, initialized, globalTracer, forGlobal>> /\ \E n \in {"process", "built"} : To(t, n)
    BY <1>2 DEF SetClientId, SetProcess, At
  <2>2. FlagMeansCall' BY <2>1 DEF GoalInv, FlagMeansCall
  <2>3. QED BY <2>1, <2>2, ToGoals
<1>10. CASE Install(t)
  <2>1. UNCHANGED <<setting, closeVars, initialized, forGlobal>> /\ To(t, "ready") BY <1>10 DEF Install, At
  <2>2. globalTracer' = IF forGlobal[t] THEN t ELSE globalTracer BY <1>10 DEF Install
  <2>3. FlagMeansCall' BY <2>1 DEF GoalInv, FlagMeansCall
  <2>4. forGlobal'[t] => globalTracer' # NoTracer BY <1>0, <2>1, <2>2
  <2>5. globalTracer # NoTracer => globalTracer' # NoTracer BY <1>0, <2>2
  <2>6. QED BY <2>1, <2>3, <2>4, <2>5, ToGoals
<1>11. CASE GetMetric(t)
  <2>1. UNCHANGED <<initialized, globalTracer, setting, forGlobal, closeVars>> BY <1>11 DEF GetMetric
  <2>2. FlagMeansCall' BY <2>1 DEF GoalInv, FlagMeansCall
  <2>3. \A u \in Thread : stage'[u] = stage[u] \/ stage'[u] = "raised" BY <1>11 DEF GetMetric, IInv, TypeOK
  <2>4. todo \in [Thread -> Seq(Name)] /\ missed[t] # NoMetric => todo[t] # <<>>
    BY DEF IInv, TypeOK, MetricsTypeOK, Asked, Asks
  <2>5. \A u \in Thread : Len(todo'[u]) <= Len(todo[u])
    <3>1. CASE LookUp(t, FactoryOf(t))
      <4>1. PICK k \in 0 .. Len(todo[t]) : todo' = [todo EXCEPT ![t] = SubSeq(@, k + 1, Len(@))] BY <3>1 DEF LookUp
      <4>2. Len(SubSeq(todo[t], k + 1, Len(todo[t]))) <= Len(todo[t]) BY <2>4
      <4>3. QED BY <2>4, <4>1, <4>2
    <3>2. CASE Register(t, FactoryOf(t))
      <4>1. missed[t] # NoMetric /\ todo' = [todo EXCEPT ![t] = Tail(@)] BY <3>2 DEF Register
      <4>2. Len(Tail(todo[t])) <= Len(todo[t]) BY <2>4, <4>1
      <4>3. QED BY <2>4, <4>1, <4>2
    <3>3. CASE Duplicated(t)
      <4>1. todo' = [todo EXCEPT ![t] = <<>>] BY <3>3 DEF Duplicated
      <4>2. QED BY <2>4, <4>1
    <3>4. QED BY <1>11, <3>1, <3>2, <3>3 DEF GetMetric
  <2>6. ASSUME NEW u \in Thread PROVE Goals(u)' /\ Completes(u)'
    <3>1. Goals(u) /\ Completes(u) BY DEF GoalInv
    <3>2. Completes(u)' BY <2>1, <3>1 DEF Completes, Composite, closeVars
    <3>3. Len(todo'[u]) <= MaxMetrics
      <4>1. Len(todo'[u]) \in Int /\ Len(todo[u]) \in Int
        <5>1. todo' \in [Thread -> Seq(Name)]
          <6>1. IInv' BY <1>11, GetMetricKeeps
          <6>2. QED BY <6>1 DEF IInv, TypeOK, MetricsTypeOK
        <5>2. QED BY <2>4, <5>1
      <4>2. Len(todo[u]) <= MaxMetrics BY <3>1 DEF Goals
      <4>3. QED BY <2>5, <4>1, <4>2 DEF MaxMetrics
    <3>4. QED BY <2>1, <2>3, <3>1, <3>2, <3>3 DEF Goals
  <2>7. QED BY <2>2, <2>6 DEF GoalInv
<1>12. QED
  BY <1>1, <1>2, <1>10, <1>11 DEF Build

LEMMA InitializeGoals ==
  ASSUME IInv, GoalInv, NEW t \in Thread, InitializeTracer(t)
  PROVE  GoalInv'
<1>1. UNCHANGED <<setting, closeVars, globalTracer>> BY DEF InitializeTracer, At
<1>2. CASE initialized /\ To(t, "skipped") /\ UNCHANGED <<initialized, forGlobal>>
  <2>1. FlagMeansCall' BY <1>2 DEF GoalInv, FlagMeansCall
  <2>2. QED BY <1>1, <1>2, <2>1, ToGoals
<1>3. CASE /\ ~initialized /\ To(t, "channel")
           /\ initialized' = TRUE /\ forGlobal' = [forGlobal EXCEPT ![t] = TRUE]
  <2>1. forGlobal'[t] = TRUE /\ \A u \in Thread \ {t} : forGlobal'[u] = forGlobal[u] BY <1>3 DEF IInv, TypeOK
  <2>2. FlagMeansCall' BY <2>1 DEF FlagMeansCall
  <2>3. QED BY <1>1, <1>3, <2>1, <2>2, ToGoals
<1>4. QED BY <1>2, <1>3 DEF InitializeTracer

LEMMA CloseGoals ==
  ASSUME IInv, GoalInv, NEW t \in Thread, FirstPoll(t) \/ Close(t) \/ Closing(t)
  PROVE  GoalInv'
<1>1. Keep BY DEF FirstPoll, Close, Closing, CloseChild, Flush, OnClose
<1>2. FlagMeansCall' BY <1>1 DEF GoalInv, FlagMeansCall, Keep
<1>3. ASSUME NEW u \in Thread PROVE Goals(u)' BY <1>1 DEF GoalInv, Goals, Keep, metricsVars, MaxMetrics
<1>4. \A u \in Thread : Completes(u) /\ (Composite(u)' <=> Composite(u)) BY <1>1 DEF GoalInv, Composite, Keep
<1>5. finished \subseteq finished' BY DEF FirstPoll, closeVars, Close, Closing, CloseChild, Flush, OnClose
<1>6. ASSUME NEW u \in Thread, child'[u]["remote"] = child[u]["remote"] \/ child'[u]["remote"] # "done",
             count'[u] = count[u]
      PROVE  Completes(u)'
  BY <1>4, <1>5, <1>6 DEF Completes
<1>7. child \in [Thread -> [Child -> {"open", "flushing", "done", "counted"}]] /\ count \in [Thread -> 0 .. 2]
  BY DEF IInv, TypeOK
<1>8. ASSUME NEW u \in Thread PROVE Completes(u)'
  <2>1. CASE FirstPoll(t) \/ Close(t) BY <1>6, <2>1 DEF FirstPoll, closeVars, Close
  <2>2. CASE CloseChild(t)
    <3>1. count' = count BY <2>2 DEF CloseChild
    <3>2. PICK c : child' = [child EXCEPT ![t][c] = IF c = "logging" THEN "done" ELSE "flushing"]
      BY <2>2 DEF CloseChild, Begun
    <3>3. child'[u]["remote"] = child[u]["remote"] \/ child'[u]["remote"] # "done" BY <1>7, <3>2 DEF Child
    <3>4. QED BY <1>6, <3>1, <3>3
  <2>3. CASE Flush(t)
    <3>1. count' = count /\ child' = [child EXCEPT ![t]["remote"] = "done"] BY <2>3 DEF Flush
    <3>2. CASE u # t BY <1>6, <1>7, <3>1, <3>2
    <3>3. CASE u = t
      <4>1. ~Composite(t) => t \in finished' BY <2>3 DEF Flush
      <4>2. count'[t] = 2 => t \in finished' BY <1>4, <1>5, <3>1 DEF Completes
      <4>3. QED BY <1>4, <3>3, <4>1, <4>2 DEF Completes
    <3>4. QED BY <3>2, <3>3
  <2>4. ASSUME NEW c \in Child, OnClose(t, c) PROVE Completes(u)'
    <3>1. /\ Composite(t) /\ child' = [child EXCEPT ![t][c] = "counted"] /\ count' = [count EXCEPT ![t] = @ + 1]
          /\ finished' = IF LastClosed(t, count[t] + 1) THEN finished \cup {t} ELSE finished
      BY <2>4 DEF OnClose
    <3>2. CASE u # t
      <4>1. child'[u] = child[u] /\ count'[u] = count[u] BY <1>7, <3>1, <3>2
      <4>2. QED BY <1>6, <4>1
    <3>3. CASE u = t
      <4>1. count'[t] = count[t] + 1 BY <1>7, <3>1
      <4>2. Len(Children(t)) = 2 BY <3>1, ChildrenAre
      <4>3. count'[t] = 2 => t \in finished' BY <3>1, <4>1, <4>2 DEF LastClosed
      <4>4. QED BY <1>4, <3>1, <3>3, <4>3 DEF Completes
    <3>4. QED BY <3>2, <3>3
  <2>5. QED BY <2>1, <2>2, <2>3, <2>4 DEF Closing
<1>9. QED BY <1>2, <1>3, <1>8 DEF GoalInv

LEMMA WorkType ==
  ASSUME IInv, GoalInv, NEW t \in Thread
  PROVE  BuildWork(t) \in Nat /\ CloseWork(t) \in Nat
<1>1. stage[t] \in Building => Rank(stage[t]) \in 1 .. 9 BY DEF Building, Rank
<1>2. Len(todo[t]) \in Nat BY DEF IInv, TypeOK, MetricsTypeOK
<1>3. BuildWork(t) \in Nat
  <2>1. CASE stage[t] \in Building
    <3>1. \A r \in 1 .. 9, n \in Nat, m \in {0, 1} : 16 * r + 2 * n + m \in Nat OBVIOUS
    <3>2. BuildWork(t) = 16 * Rank(stage[t]) + 2 * Len(todo[t]) + (IF missed[t] = NoMetric THEN 1 ELSE 0)
      BY <2>1 DEF BuildWork
    <3>3. QED BY <1>1, <1>2, <2>1, <3>1, <3>2
  <2>2. CASE stage[t] \notin Building BY <2>2 DEF BuildWork
  <2>3. QED BY <2>1, <2>2
<1>4. \A c \in Child : child[t][c] \in {"open", "flushing", "done", "counted"} BY DEF IInv, TypeOK
<1>5. \A c \in Child : ChildWork(t, c) \in Nat BY <1>4 DEF ChildWork
<1>6. QED BY <1>3, <1>5 DEF CloseWork, Child

\* A step of a construction that gets no metric takes it to the next stage, to the end or to an exception.
LEMMA NextStage ==
  ASSUME IInv, NEW t \in Thread, Build(t), ~GetMetric(t)
  PROVE  /\ todo[t] = <<>> /\ missed[t] = NoMetric /\ missed' = missed /\ UNCHANGED closeVars
         /\ stage[t] \in Building
         /\ \E n : To(t, n) /\ (n \notin Building \/ Rank(n) = Rank(stage[t]) - 1)
<1>1. todo[t] = <<>> /\ missed' = missed /\ UNCHANGED closeVars
  BY DEF Build, CreateChannel, CreateSampler, ReadOptions, CreateReporter, CreateThrottler, CreateTracer, SetClientId,
     SetProcess, Install, Builds, At
<1>2. missed[t] = NoMetric BY <1>1 DEF IInv, Asked, Asks
<1>3. PICK here \in Building, n \in {"sampler", "options", "reporter", "throttler", "tracer", "client", "process", "built", "ready", "raised"} :
        /\ stage[t] = here /\ To(t, n)
        /\ \/ n \in {"raised", "ready"}
           \/ <<here, n>> \in {<<"channel", "sampler">>, <<"sampler", "options">>, <<"options", "reporter">>,
                <<"reporter", "throttler">>, <<"throttler", "tracer">>, <<"tracer", "client">>,
                <<"client", "process">>, <<"process", "built">>}
  BY DEF Build, CreateChannel, CreateSampler, ReadOptions, CreateReporter, CreateThrottler, CreateTracer, SetClientId,
     SetProcess, Install, Builds, At, Building
<1>4. n \notin Building \/ Rank(n) = Rank(here) - 1
  BY <1>3 DEF Building, Rank
<1>5. QED BY <1>1, <1>2, <1>3, <1>4

LEMMA BuildDown ==
  ASSUME IInv, GoalInv, NEW t \in Thread, Build(t)
  PROVE  BuildWork(t)' < BuildWork(t) /\ UNCHANGED closeVars
<1>a. todo \in [Thread -> Seq(Name)] /\ missed \in [Thread -> Name \cup {NoMetric}] /\ stage \in [Thread -> Stage]
  BY DEF IInv, TypeOK, MetricsTypeOK
<1>b. stage[t] \in Building => Rank(stage[t]) \in 1 .. 9 BY DEF Building, Rank
<1>1. CASE ~GetMetric(t)
  <2>1. /\ todo[t] = <<>> /\ missed[t] = NoMetric /\ missed' = missed /\ UNCHANGED closeVars /\ stage[t] \in Building
    BY <1>1, NextStage
  <2>2. PICK n : To(t, n) /\ (n \notin Building \/ Rank(n) = Rank(stage[t]) - 1) BY <1>1, NextStage
  <2>3. stage'[t] = n /\ todo'[t] = MetricsOf(setting[t], n) BY <1>a, <2>2 DEF To
  <2>4. BuildWork(t) = 16 * Rank(stage[t]) + 1
    <3>1. Len(<<>>) = 0 OBVIOUS
    <3>2. BuildWork(t) = 16 * Rank(stage[t]) + 2 * Len(todo[t]) + 1 BY <2>1 DEF BuildWork
    <3>3. QED BY <1>b, <2>1, <3>1, <3>2
  <2>5. CASE n \notin Building
    <3>1. BuildWork(t)' = 0 BY <2>3, <2>5 DEF BuildWork
    <3>2. QED BY <1>b, <2>1, <2>4, <3>1
  <2>6. CASE n \in Building
    <3>1. BuildWork(t)' = 16 * Rank(n) + 2 * Len(MetricsOf(setting[t], n)) + 1 BY <2>1, <2>3, <2>6 DEF BuildWork
    <3>2. Len(MetricsOf(setting[t], n)) \in 0 .. 7
      <4>1. Len(MetricsOf(setting[t], n)) \in Nat BY MetricsOfType
      <4>2. Len(MetricsOf(setting[t], n)) <= 7 BY MetricsLength DEF MaxMetrics
      <4>3. \A m \in Nat : m <= 7 => m \in 0 .. 7 OBVIOUS
      <4>4. QED BY ONLY <4>1, <4>2, <4>3
    <3>3. Rank(n) = Rank(stage[t]) - 1 /\ Rank(stage[t]) \in 1 .. 9 BY <1>b, <2>1, <2>2, <2>6
    <3>4. \A r \in 1 .. 9, m \in 0 .. 7 : 16 * (r - 1) + 2 * m + 1 < 16 * r + 1 OBVIOUS
    <3>5. 16 * (Rank(stage[t]) - 1) + 2 * Len(MetricsOf(setting[t], n)) + 1 < 16 * Rank(stage[t]) + 1
      BY <3>2, <3>3, <3>4
    <3>6. QED BY <2>1, <2>4, <3>1, <3>3, <3>5
  <2>7. QED BY <2>5, <2>6
<1>2. CASE GetMetric(t)
  <2>0. UNCHANGED closeVars BY <1>2 DEF GetMetric
  <2>1. Asks(t) BY DEF IInv, Asked
  <2>2. todo[t] # <<>> /\ todo[t] \in Seq(Name)
    BY <1>2, <1>a, <2>1 DEF GetMetric, LookUp, Register, Duplicated, Asks
  <2>3. stage[t] \in Building BY <2>1, <2>2 DEF Asks, Building
  <2>4. Len(todo[t]) \in Nat /\ Len(todo[t]) >= 1 BY <2>2
  <2>5. BuildWork(t) = 16 * Rank(stage[t]) + 2 * Len(todo[t]) + (IF missed[t] = NoMetric THEN 1 ELSE 0)
    BY <2>3 DEF BuildWork
  <2>6. ASSUME stage' = stage
        PROVE  BuildWork(t)' = 16 * Rank(stage[t]) + 2 * Len(todo'[t]) + (IF missed'[t] = NoMetric THEN 1 ELSE 0)
    BY <2>3, <2>6 DEF BuildWork
  <2>7. CASE LookUp(t, FactoryOf(t)) /\ stage' = stage
    <3>1. PICK k \in 0 .. Len(todo[t]) :
            /\ todo' = [todo EXCEPT ![t] = SubSeq(@, k + 1, Len(@))]
            /\ \/ k = Len(todo[t]) /\ UNCHANGED missed
               \/ /\ k < Len(todo[t]) /\ todo[t][k + 1] \notin cache[FactoryOf(t)]
                  /\ missed' = [missed EXCEPT ![t] = todo[t][k + 1]]
      BY <2>7 DEF LookUp
    <3>2. missed[t] = NoMetric BY <2>7 DEF LookUp
    <3>3. Len(todo'[t]) = Len(todo[t]) - k
      <4>1. todo'[t] = SubSeq(todo[t], k + 1, Len(todo[t])) BY <1>a, <3>1
      <4>2. QED BY <2>2, <4>1
    <3>4. CASE k = Len(todo[t]) /\ UNCHANGED missed
      <4>1. BuildWork(t)' = 16 * Rank(stage[t]) + 2 * (Len(todo[t]) - k) + 1 BY <2>6, <2>7, <3>2, <3>3, <3>4
      <4>2. BuildWork(t) = 16 * Rank(stage[t]) + 2 * Len(todo[t]) + 1 BY <2>5, <3>2
      <4>3. \A r \in 1 .. 9 : \A n \in Nat : n >= 1 => 16 * r + 2 * (n - n) + 1 < 16 * r + 2 * n + 1 OBVIOUS
      <4>4. 16 * Rank(stage[t]) + 2 * (Len(todo[t]) - k) + 1 < 16 * Rank(stage[t]) + 2 * Len(todo[t]) + 1
        BY <1>b, <2>3, <2>4, <3>4, <4>3
      <4>5. QED BY <2>0, <4>1, <4>2, <4>4
    <3>5. CASE k < Len(todo[t]) /\ missed' = [missed EXCEPT ![t] = todo[t][k + 1]]
      <4>1. missed'[t] = todo[t][k + 1] /\ todo[t][k + 1] \in Name BY <1>a, <2>2, <3>5
      <4>2. missed'[t] # NoMetric BY <4>1, MetricsAssumption
      <4>3. BuildWork(t)' = 16 * Rank(stage[t]) + 2 * (Len(todo[t]) - k) + 0 BY <2>6, <2>7, <3>3, <4>2
      <4>4. BuildWork(t) = 16 * Rank(stage[t]) + 2 * Len(todo[t]) + 1 BY <2>5, <3>2
      <4>5. \A r \in 1 .. 9 : \A n \in Nat : \A j \in 0 .. n : 16 * r + 2 * (n - j) + 0 < 16 * r + 2 * n + 1 OBVIOUS
      <4>6. 16 * Rank(stage[t]) + 2 * (Len(todo[t]) - k) + 0 < 16 * Rank(stage[t]) + 2 * Len(todo[t]) + 1
        BY <1>b, <2>3, <2>4, <4>5
      <4>7. QED BY <2>0, <4>3, <4>4, <4>6
    <3>6. QED BY <3>1, <3>4, <3>5
  <2>8. CASE Register(t, FactoryOf(t)) /\ stage' = stage
    <3>1. missed[t] # NoMetric /\ todo' = [todo EXCEPT ![t] = Tail(@)] /\ missed' = [missed EXCEPT ![t] = NoMetric]
      BY <2>8 DEF Register
    <3>2. todo'[t] = Tail(todo[t]) /\ missed'[t] = NoMetric BY <1>a, <3>1
    <3>3. Len(todo'[t]) = Len(todo[t]) - 1 BY <2>2, <3>2
    <3>4. BuildWork(t)' = 16 * Rank(stage[t]) + 2 * (Len(todo[t]) - 1) + 1 BY <2>6, <2>8, <3>2, <3>3
    <3>5. BuildWork(t) = 16 * Rank(stage[t]) + 2 * Len(todo[t]) + 0 BY <2>5, <3>1
    <3>6. \A r \in 1 .. 9 : \A n \in Nat : 16 * r + 2 * (n - 1) + 1 < 16 * r + 2 * n + 0 OBVIOUS
    <3>7. 16 * Rank(stage[t]) + 2 * (Len(todo[t]) - 1) + 1 < 16 * Rank(stage[t]) + 2 * Len(todo[t]) + 0
      BY <1>b, <2>3, <2>4, <3>6
    <3>8. QED BY <2>0, <3>4, <3>5, <3>7
  <2>9. CASE Duplicated(t) /\ stage' = [stage EXCEPT ![t] = "raised"]
    <3>1. stage'[t] = "raised" BY <1>a, <2>9
    <3>2. BuildWork(t)' = 0 BY <3>1 DEF BuildWork, Building
    <3>3. BuildWork(t) > 0
      <4>1. \A r \in 1 .. 9 : \A n \in Nat : \A m \in {0, 1} : 16 * r + 2 * n + m > 0 OBVIOUS
      <4>2. QED BY <1>b, <2>3, <2>4, <2>5, <4>1
    <3>4. QED BY <2>0, <3>2, <3>3
  <2>10. QED BY <1>2, <2>7, <2>8, <2>9 DEF GetMetric
<1>3. QED BY <1>1, <1>2

\* A step of a close takes one of its reporters further.
LEMMA NextChild ==
  ASSUME IInv, NEW t \in Thread, Closing(t)
  PROVE  \E c \in Child, to \in {"flushing", "done", "counted"} :
           /\ child' = [child EXCEPT ![t][c] = to]
           /\ <<child[t][c], to>> \in {<<"open", "flushing">>, <<"open", "done">>, <<"flushing", "done">>, <<"done", "counted">>}
<1>1. ClosesInOrder(t) /\ closed[t] \in -1 .. 2 BY DEF IInv, Closes, TypeOK
<1>2. CASE CloseChild(t)
  <2> DEFINE c == Children(t)[closed[t] + 1]
  <2>1. closed[t] \in 0 .. Len(Children(t)) - 1 /\ child' = [child EXCEPT ![t][c] = IF c = "logging" THEN "done" ELSE "flushing"]
    BY <1>2 DEF CloseChild, Begun
  <2>2. (closed[t] = 0 /\ c = "remote") \/ (closed[t] = 1 /\ c = "logging")
    <3>1. CASE Composite(t)
      <4>1. Children(t)[1] = "remote" /\ Children(t)[2] = "logging" /\ Len(Children(t)) = 2 BY <3>1, ChildrenAre
      <4>2. closed[t] = 0 \/ closed[t] = 1 BY <2>1, <4>1
      <4>3. QED BY <4>1, <4>2
    <3>2. CASE ~Composite(t)
      <4>1. Children(t)[1] = "remote" /\ Len(Children(t)) = 1 BY <3>2, ChildrenAre
      <4>2. closed[t] = 0 BY <2>1, <4>1
      <4>3. QED BY <4>1, <4>2
    <3>3. QED BY <3>1, <3>2
  <2>3. child[t][c] = "open"
    <3>1. CASE closed[t] = 0 /\ c = "remote" BY <1>1, <3>1 DEF ClosesInOrder
    <3>2. CASE closed[t] = 1 /\ c = "logging" BY <1>1, <3>2 DEF ClosesInOrder
    <3>3. QED BY <2>2, <3>1, <3>2
  <2> HIDE DEF c
  <2>4. c \in Child BY <2>2 DEF Child
  <2>5. CASE c = "logging" BY <2>1, <2>3, <2>4, <2>5
  <2>6. CASE c # "logging" BY <2>1, <2>3, <2>4, <2>6
  <2>7. QED BY <2>5, <2>6
<1>3. CASE Flush(t) BY <1>3 DEF Flush, Child
<1>4. ASSUME NEW c \in Child, OnClose(t, c)
      PROVE  child' = [child EXCEPT ![t][c] = "counted"] /\ child[t][c] = "done"
  BY <1>4 DEF OnClose
<1>5. QED BY <1>2, <1>3, <1>4 DEF Closing

LEMMA CloseDown ==
  ASSUME IInv, NEW t \in Thread, Closing(t)
  PROVE  CloseWork(t)' < CloseWork(t) /\ \A u \in Thread \ {t} : child'[u] = child[u]
<1>1. PICK c \in Child, to \in {"flushing", "done", "counted"} :
        /\ child' = [child EXCEPT ![t][c] = to]
        /\ <<child[t][c], to>> \in {<<"open", "flushing">>, <<"open", "done">>, <<"flushing", "done">>, <<"done", "counted">>}
  BY NextChild
<1>2. child \in [Thread -> [Child -> {"open", "flushing", "done", "counted"}]] BY DEF IInv, TypeOK
<1>3. \A d \in Child : child'[t][d] = IF d = c THEN to ELSE child[t][d] BY <1>1, <1>2
<1>4. ChildWork(t, c)' < ChildWork(t, c) /\ ChildWork(t, c)' \in 0 .. 3
  <2>1. child'[t][c] = to BY <1>3
  <2>2. QED BY <1>1, <2>1 DEF ChildWork
<1>5. \A d \in Child \ {c} : ChildWork(t, d)' = ChildWork(t, d) BY <1>3 DEF ChildWork
<1>6. \A d \in Child : ChildWork(t, d) \in 0 .. 3 BY <1>2 DEF ChildWork
<1>7. CloseWork(t)' < CloseWork(t)
  <2>1. CloseWork(t)' = ChildWork(t, "remote")' + ChildWork(t, "logging")' BY DEF CloseWork
  <2>2. CloseWork(t) = ChildWork(t, "remote") + ChildWork(t, "logging") BY DEF CloseWork
  <2>3. CASE c = "remote"
    <3>1. ChildWork(t, "logging")' = ChildWork(t, "logging") /\ ChildWork(t, "logging") \in 0 .. 3
      BY <1>5, <1>6, <2>3 DEF Child
    <3>2. ChildWork(t, "remote") \in 0 .. 3 BY <1>6 DEF Child
    <3>3. QED BY <1>4, <2>1, <2>2, <2>3, <3>1, <3>2
  <2>4. CASE c = "logging"
    <3>1. ChildWork(t, "remote")' = ChildWork(t, "remote") /\ ChildWork(t, "remote") \in 0 .. 3
      BY <1>5, <1>6, <2>4 DEF Child
    <3>2. ChildWork(t, "logging") \in 0 .. 3 BY <1>6 DEF Child
    <3>3. QED BY <1>4, <2>1, <2>2, <2>4, <3>1, <3>2
  <2>5. QED BY <2>3, <2>4 DEF Child
<1>8. QED BY <1>2, <1>1, <1>7

\* A step of one thread's tracer leaves those of others alone.
LEMMA OthersWait ==
  ASSUME IInv, NEW t \in Thread, NEW u \in Thread \ {t},
         ConfigInit(t) \/ InitializeTracer(t) \/ NewTracer(t) \/ Build(t)
  PROVE  BuildWork(u)' = BuildWork(u)
<1>1. stage \in [Thread -> Stage] /\ todo \in [Thread -> Seq(Name)] /\ missed \in [Thread -> Name \cup {NoMetric}]
  BY DEF IInv, TypeOK, MetricsTypeOK
<1>2. ASSUME NEW n, To(t, n), missed' = missed
      PROVE  stage'[u] = stage[u] /\ todo'[u] = todo[u] /\ missed'[u] = missed[u]
  BY <1>1, <1>2 DEF To
<1>3. CASE GetMetric(t)
  <2>1. stage'[u] = stage[u] BY <1>1, <1>3 DEF GetMetric
  <2>2. todo'[u] = todo[u] /\ missed'[u] = missed[u] BY <1>1, <1>3 DEF GetMetric, LookUp, Register, Duplicated
  <2>3. QED BY <2>1, <2>2 DEF BuildWork
<1>4. CASE ~GetMetric(t) /\ Build(t)
  <2>1. missed' = missed /\ \E n : To(t, n) BY <1>4, NextStage
  <2>2. stage'[u] = stage[u] /\ todo'[u] = todo[u] /\ missed'[u] = missed[u] BY <1>2, <2>1
  <2>3. QED BY <2>2 DEF BuildWork
<1>5. CASE ConfigInit(t) \/ InitializeTracer(t) \/ NewTracer(t)
  <2>1. missed' = missed /\ \E n : To(t, n) BY <1>5 DEF ConfigInit, InitializeTracer, NewTracer, Builds, At
  <2>2. stage'[u] = stage[u] /\ todo'[u] = todo[u] /\ missed'[u] = missed[u] BY <1>2, <2>1
  <2>3. QED BY <2>2 DEF BuildWork
<1>6. QED BY <1>3, <1>4, <1>5

LEMMA StepWork ==
  ASSUME IInv, GoalInv, Next, NEW u \in Thread
  PROVE  /\ Build(u) => BuildWork(u)' < BuildWork(u)
         /\ Closing(u) => CloseWork(u)' < CloseWork(u)
         /\ stage[u] \in Building /\ ~Build(u) => BuildWork(u)' = BuildWork(u)
         /\ ~Closing(u) => CloseWork(u)' = CloseWork(u)
<1>1. PICK t \in Thread : \/ ConfigInit(t) \/ InitializeTracer(t) \/ NewTracer(t) \/ Build(t)
                          \/ FirstPoll(t) \/ Close(t) \/ Closing(t)
  BY DEF Next
<1>2. Build(u) => BuildWork(u)' < BuildWork(u) BY BuildDown
<1>3. Closing(u) => CloseWork(u)' < CloseWork(u) BY CloseDown
<1>4. ASSUME stage[u] \in Building, ~Build(u) PROVE BuildWork(u)' = BuildWork(u)
  <2>1. CASE FirstPoll(t) \/ Close(t) \/ Closing(t)
    <3>1. Keep BY <2>1 DEF FirstPoll, Close, Closing, CloseChild, Flush, OnClose
    <3>2. QED BY <3>1 DEF Keep, BuildWork, metricsVars
  <2>2. CASE (ConfigInit(t) \/ InitializeTracer(t) \/ NewTracer(t)) /\ t = u
    <3>1. stage[u] \in {"start", "configured"} BY <2>2 DEF ConfigInit, InitializeTracer, NewTracer, Builds, At
    <3>2. QED BY <1>4, <3>1 DEF Building
  <2>3. CASE (ConfigInit(t) \/ InitializeTracer(t) \/ NewTracer(t) \/ Build(t)) /\ t # u BY <2>3, OthersWait
  <2>4. QED BY <1>1, <1>4, <2>1, <2>2, <2>3
<1>5. ASSUME ~Closing(u) PROVE CloseWork(u)' = CloseWork(u)
  <2>1. child'[u] = child[u]
    <3>1. CASE Closing(t)
      <4>1. t # u BY <1>5, <3>1
      <4>2. QED BY <3>1, <4>1, CloseDown
    <3>2. CASE FirstPoll(t) \/ Close(t) BY <3>2 DEF FirstPoll, closeVars, Close
    <3>3. CASE Build(t) BY <3>3, BuildDown DEF closeVars
    <3>4. CASE ConfigInit(t) \/ InitializeTracer(t) \/ NewTracer(t)
      BY <3>4 DEF ConfigInit, InitializeTracer, NewTracer, Builds, At, closeVars
    <3>5. QED BY <1>1, <3>1, <3>2, <3>3, <3>4
  <2>2. QED BY <2>1 DEF CloseWork, ChildWork
<1>6. QED BY <1>2, <1>3, <1>4, <1>5

LEMMA StepGoals == IInv /\ GoalInv /\ [Next]_vars => GoalInv'
<1> SUFFICES ASSUME IInv, GoalInv, [Next]_vars PROVE GoalInv' OBVIOUS
<1>1. ASSUME NEW t \in Thread,
             \/ ConfigInit(t) \/ InitializeTracer(t) \/ NewTracer(t) \/ Build(t)
             \/ FirstPoll(t) \/ Close(t) \/ Closing(t)
      PROVE  GoalInv'
  BY <1>1, BuildGoals, InitializeGoals, CloseGoals
<1>2. CASE UNCHANGED vars
  <2> USE <1>2 DEF vars, buildVars, closeVars, metricsVars
  <2>1. FlagMeansCall' BY DEF GoalInv, FlagMeansCall
  <2>2. \A t \in Thread : Goals(t)' BY DEF GoalInv, Goals, MaxMetrics
  <2>3. \A t \in Thread : Completes(t)' BY DEF GoalInv, Completes, Composite
  <2>4. QED BY <2>1, <2>2, <2>3 DEF GoalInv
<1>3. QED BY <1>1, <1>2 DEF Next

LEMMA GoalsAlways == Spec => []GoalInv
BY InitGoals, StepGoals, Invariance, PTL DEF Spec

\* A construction can always go on.
LEMMA BuildingGoesOn ==
  ASSUME IInv, GoalInv, NEW t \in Thread, stage[t] \in Building
  PROVE  MayBuild(t)
<1>1. todo[t] \in Seq(Name) /\ Len(todo[t]) <= MaxMetrics
  BY DEF IInv, TypeOK, MetricsTypeOK, GoalInv, Goals
<1>2. \E k \in 0 .. Len(todo[t]) :
        /\ \A i \in 1 .. k : todo[t][i] \in cache[FactoryOf(t)]
        /\ k < Len(todo[t]) => todo[t][k + 1] \notin cache[FactoryOf(t)]
  BY <1>1, FirstMissing
<1>3. QED BY <1>2 DEF MayBuild, MayGetMetric

\* Wherever the closing of a tracer comes to its end its reporters are closed, in whatever order; its future
\* is completed then exactly if it is that of one reporter or callbacks of the thread that closes run.  With
\* Tornado 5, logging and no event loop that runs there, Tracer.close returns a future that never says that
\* the flush has been completed.  A thread that initialize_tracer has sent away has a global tracer unless the
\* call before it has raised or may go on; constructions and closings come to an end, since each of their
\* steps uses up some of a finite amount of work.  What remains of CloseCompletes and of
\* SkippedFindsTracer is that threads run.
THEOREM EndsWell == Spec => [](CloseEnds /\ SkippedWaits /\ WorkIsNat) /\ WorkUsedUp
<1>1. IInv /\ GoalInv => WorkIsNat BY WorkType DEF WorkIsNat
<1>2. IInv /\ GoalInv => CloseEnds
  <2> SUFFICES ASSUME IInv, GoalInv, NEW t \in Thread, closed[t] # -1, ~MayClose(t)
               PROVE  /\ \A i \in DOMAIN Children(t) : child[t][Children(t)[i]] \in {"done", "counted"}
                      /\ t \in finished <=> CallbacksRun(t)
    BY DEF CloseEnds
  <2>1. ClosesInOrder(t) /\ CountsOnce(t) /\ Completes(t) BY DEF IInv, Closes, Counts, GoalInv
  <2>2. /\ closed[t] \in 0 .. 2
        /\ child[t] \in [Child -> {"open", "flushing", "done", "counted"}]
    BY DEF IInv, TypeOK
  <2>3. CASE Composite(t)
    <3>1. closed[t] = 2
      <4>1. Len(Children(t)) = 2 BY <2>3, ChildrenAre
      <4>2. QED BY <2>2, <4>1 DEF MayClose
    <3>2. child[t]["remote"] # "open" /\ child[t]["logging"] # "open" BY <2>1, <3>1 DEF ClosesInOrder
    <3>3. child[t]["remote"] \in {"done", "counted"} /\ child[t]["logging"] \in {"done", "counted"}
      BY <2>1, <2>2, <3>2 DEF MayClose, ClosesInOrder, Child
    <3>4. \A i \in DOMAIN Children(t) : child[t][Children(t)[i]] \in {"done", "counted"} BY <2>3, <3>3, ChildrenAre
    <3>5. CASE caller[t] # "idle"
      <4>1. child[t]["remote"] = "counted" /\ child[t]["logging"] = "counted"
        BY <2>3, <3>3, <3>5 DEF MayClose, Child
      <4>2. count[t] = 2 BY <2>1, <4>1 DEF CountsOnce, One
      <4>3. QED BY <2>1, <3>4, <3>5, <4>2 DEF Completes, CallbacksRun
    <3>6. CASE caller[t] = "idle"
      <4>1. ~CallbacksRun(t) BY <2>3, <3>6 DEF CallbacksRun
      <4>2. child[t]["remote"] # "counted" BY <2>1, <4>1 DEF CountsOnce, Child
      <4>3. t \notin finished BY <2>1, <2>3, <4>2 DEF CountsOnce
      <4>4. QED BY <3>4, <4>1, <4>3
    <3>7. QED BY <3>5, <3>6
  <2>4. CASE ~Composite(t)
    <3>1. closed[t] >= 1
      <4>1. Len(Children(t)) = 1 BY <2>4, ChildrenAre
      <4>2. QED BY <2>2, <4>1 DEF MayClose
    <3>2. child[t]["remote"] # "open" BY <2>1, <3>1 DEF ClosesInOrder
    <3>3. child[t]["remote"] = "done" BY <2>1, <2>2, <2>4, <3>2 DEF MayClose, CountsOnce, Child
    <3>4. \A i \in DOMAIN Children(t) : child[t][Children(t)[i]] \in {"done", "counted"} BY <2>4, <3>3, ChildrenAre
    <3>5. t \in finished /\ CallbacksRun(t) BY <2>1, <2>4, <3>3 DEF Completes, CallbacksRun
    <3>6. QED BY <3>4, <3>5
  <2>5. QED BY <2>3, <2>4
<1>3. IInv /\ GoalInv => SkippedWaits
  <2> SUFFICES ASSUME IInv, GoalInv, NEW t \in Thread, stage[t] = "skipped", globalTracer = NoTracer
               PROVE  \E u \in Thread : forGlobal[u] /\ (stage[u] = "raised" \/ MayBuild(u))
    BY DEF SkippedWaits
  <2>1. PICK u \in Thread : forGlobal[u] BY DEF GoalInv, Goals, FlagMeansCall
  <2>2. stage[u] \notin {"start", "configured", "skipped", "ready"} BY <2>1 DEF IInv, OneInitializer, GoalInv, Goals
  <2>3. stage[u] \in Building \/ stage[u] = "raised" BY <2>2 DEF IInv, TypeOK, Stage, Building
  <2>4. QED BY <2>1, <2>3, BuildingGoesOn
<1>4. IInv /\ GoalInv /\ [Next]_vars =>
        [\A t \in Thread :
           /\ Build(t) => BuildWork(t)' < BuildWork(t)
           /\ Closing(t) => CloseWork(t)' < CloseWork(t)
           /\ stage[t] \in Building /\ ~Build(t) => BuildWork(t)' = BuildWork(t)
           /\ ~Closing(t) => CloseWork(t)' = CloseWork(t)]_vars
  BY StepWork
<1>5. QED BY <1>1, <1>2, <1>3, <1>4, Invariance, GoalsAlways, PTL DEF Spec, WorkUsedUp
=============================================================================
