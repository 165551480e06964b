---------------------------- MODULE Propagation ----------------------------
(***************************************************************************)
(* How a trace goes from process to process: Tracer.start_span, inject and *)
(* extract with the codecs of jaeger_client.codecs, SpanContext, and the   *)
(* requests that carry a context.  Requests may be lost, repeated, or come *)
(* in any order; some come from outside, with baggage or a debug id only.  *)
(*                                                                         *)
(* Ids are drawn at random from 64 bits or more; they are taken not to     *)
(* collide and not to be 0, so that span s draws the id s for itself and,  *)
(* if it begins one, for its trace.  What a codec makes of a context is    *)
(* its carrier: the part of the context that it can tell.  The wire forms  *)
(* of ids, values and keys are left out, but for the case of keys.         *)
(***************************************************************************)
EXTENDS Naturals, FiniteSets

CONSTANTS
  Span,        \* the spans that may be started; also the ids they draw
  NoId,
  Codec,       \* "text", for both text formats, "binary", "zipkin" and "b3"
  Key,
  LowerCase,   \* LowerCase[k]: key k in lower case
  Value,
  NoValue,     \* the item is not there
  NoContext,   \* None
  Unknown,     \* the baggage behind a codec that dropped some
  MaxWire,     \* bound: requests on the way
  MaxChange    \* bound: changes of baggage and priority, requests from outside

Flag == {"sampled", "debug"}
Baggage == [Key -> Value \cup {NoValue}]
Empty == [k \in Key |-> NoValue]
Context == [trace : Span \cup {NoId}, id : Span \cup {NoId}, parent : Span \cup {NoId},
            flags : SUBSET Flag, baggage : Baggage, debugId : BOOLEAN]

ASSUME PropagationAssumption ==
  /\ NoId \notin Span /\ NoValue \notin Value /\ NoContext \notin Context /\ Unknown \notin Baggage
  /\ Codec \subseteq {"text", "binary", "zipkin", "b3"}
  /\ LowerCase \in [Key -> Key] /\ \A k \in Key : LowerCase[LowerCase[k]] = LowerCase[k]
  /\ MaxWire \in Nat /\ MaxChange \in Nat

VARIABLES
  context,  \* context[s]: the context of span s, NoContext before it is started
  wire,     \* the requests on the way: a codec, its carrier, and the history of that
  meant,    \* history: meant[s]: the baggage of s, were contexts handed on as they are
  raised,   \* history: the traces in which the application set a sampling priority
  changes   \* how many changes there were

vars == <<context, wire, meant, raised, changes>>

\* What TextCodec extracts: its own form, and baggage from the header "jaeger-baggage".
Headers == {"text", "header"}

Request == [codec : Codec \cup Headers, carrier : Context, meant : Baggage \cup {Unknown}]

Started == {s \in Span : context[s] # NoContext}

Init ==
  /\ context = [s \in Span |-> NoContext] /\ wire = {}
  /\ meant = [s \in Span |-> Empty]
  /\ raised = {} /\ changes = 0

-----------------------------------------------------------------------------
(* The codecs. *)

\* ZipkinCodec tells of no baggage.
InjectZipkin(c) == [c EXCEPT !.baggage = Empty]

\* Mutant: sampled without debug is not told.
CarriedFlags_DebugOnly(flags) == flags \cap {"debug"}

\* B3Codec tells of a debug trace that it is one, and no more; it tells of no baggage either.
CarriedFlags(flags) == IF "debug" \in flags THEN {"debug"} ELSE flags

InjectB3(c) == [c EXCEPT !.flags = CarriedFlags(c.flags), !.baggage = Empty]

\* TextCodec and BinaryCodec tell all.
Inject(codec, c) ==
  CASE codec = "zipkin" -> InjectZipkin(c)
    [] codec = "b3"     -> InjectB3(c)
    [] OTHER            -> c

CarriesBaggage(codec) == codec \in Headers \cup {"binary"}

\* TextCodec.extract takes its own keys in lower case; of two that are the same then, the last one wins.
Spelled(b, k) == {j \in Key : LowerCase[j] = k /\ b[j] # NoValue}
Lowered(b) ==
  {l \in Baggage : \A k \in Key :
     IF Spelled(b, k) = {} THEN l[k] = NoValue ELSE \E j \in Spelled(b, k) : l[k] = b[j]}

IsLower(b) == \A k \in Key : b[k] # NoValue => LowerCase[k] = k

\* The contexts that TextCodec.extract may return: none, if there is nothing in the headers.
ExtractHeaders(form, carrier) ==
  IF carrier.trace = NoId /\ ~carrier.debugId /\ carrier.baggage = Empty THEN {NoContext}
  ELSE IF form = "text" THEN {[carrier EXCEPT !.baggage = b] : b \in Lowered(carrier.baggage)}
  ELSE {carrier}

\* ZipkinCodec: none without a trace, and B3Codec: none without a trace and a span.
ExtractZipkin(carrier) == IF carrier.trace = NoId THEN {NoContext} ELSE {carrier}
ExtractB3(carrier) == IF carrier.trace = NoId \/ carrier.id = NoId THEN {NoContext} ELSE {carrier}

Extract(codec, carrier) ==
  CASE codec \in Headers -> ExtractHeaders(codec, carrier)
    [] codec = "binary"  -> {carrier}
    [] codec = "zipkin"  -> ExtractZipkin(carrier)
    [] codec = "b3"      -> ExtractB3(carrier)

\* The baggage meant behind a codec: m, if it keeps all of the baggage b.
Handed(codec, b, m) ==
  IF b = Empty \/ (CarriesBaggage(codec) /\ (codec = "text" => IsLower(b))) THEN m ELSE Unknown

-----------------------------------------------------------------------------
(* start_span. *)

HasTrace(c) == c.trace # NoId /\ c.id # NoId

\* An explicit parent is preferred to the active span, one with a trace to a reference.
Parent(childOf, active, reference) ==
  LET parent == IF childOf = NoContext THEN active ELSE childOf IN
    IF reference # NoContext /\ (parent = NoContext \/ ~HasTrace(parent)) THEN reference ELSE parent

\* Mutant: baggage that came without a trace is dropped.
Drawn_NoBaggage(s, flags, baggage) ==
  [trace |-> s, id |-> s, parent |-> NoId, flags |-> flags, baggage |-> Empty, debugId |-> FALSE]

Drawn(s, flags, baggage) ==
  [trace |-> s, id |-> s, parent |-> NoId, flags |-> flags, baggage |-> baggage, debugId |-> FALSE]

\* Mutant: a span that shares its id with the client's has that one for its parent.
Joined_OwnParent(s, p, shared) ==
  [p EXCEPT !.id = IF shared THEN p.id ELSE s, !.parent = p.id, !.debugId = FALSE]

\* Mutant: a debug id beside a trace is handed on.
Joined_KeepsDebugId(s, p, shared) ==
  [p EXCEPT !.id = IF shared THEN p.id ELSE s, !.parent = IF shared THEN p.parent ELSE p.id]

\* With one_span_per_rpc, a server's span has the ids of the client's.
Joined(s, p, shared) ==
  [p EXCEPT !.id = IF shared THEN p.id ELSE s, !.parent = IF shared THEN p.parent ELSE p.id,
            !.debugId = FALSE]

\* Without a parent the sampler decides; with a parent that has no trace, only a debug id counts.
StartSpan(s, p) ==
  /\ s \notin Started
  /\ \/ /\ p = NoContext
        /\ \E flags \in {{}, {"sampled"}} : context' = [context EXCEPT ![s] = Drawn(s, flags, Empty)]
     \/ /\ p # NoContext /\ ~HasTrace(p)
        /\ \E allowed \in BOOLEAN :
             LET flags == IF p.debugId /\ allowed THEN Flag ELSE {} IN
               context' = [context EXCEPT ![s] = Drawn(s, flags, p.baggage)]
     \/ /\ p # NoContext /\ HasTrace(p)
        /\ \E shared \in BOOLEAN : context' = [context EXCEPT ![s] = Joined(s, p, shared)]

Remember(s, m) == meant' = [meant EXCEPT ![s] = m]

StartRoot(s) ==
  /\ StartSpan(s, NoContext) /\ Remember(s, Empty)
  /\ UNCHANGED <<wire, raised, changes>>

StartChild(s, t) ==
  /\ StartSpan(s, context[t]) /\ Remember(s, meant[t])
  /\ UNCHANGED <<wire, raised, changes>>

\* A server's span for a request; span t is active in the thread, or is referred to, unless t is s.
Serve(s, m, t, refers) ==
  /\ \E c \in Extract(m.codec, m.carrier) :
       LET other  == context[t]
           parent == IF refers THEN Parent(c, NoContext, other) ELSE Parent(c, other, NoContext) IN
         /\ StartSpan(s, parent)
         /\ \/ parent = c /\ Remember(s, m.meant)
            \/ parent # c /\ Remember(s, meant[t])
  /\ UNCHANGED <<wire, raised, changes>>
-----------------------------------------------------------------------------
(* Requests, and what the application and the world outside do. *)

Put(m) == Cardinality(wire) < MaxWire /\ wire' = wire \cup {m}

Send(s, codec) ==
  /\ s \in Started
  /\ Put([codec |-> codec, carrier |-> Inject(codec, context[s]),
          meant |-> Handed(codec, context[s].baggage, meant[s])])
  /\ UNCHANGED <<context, meant, raised, changes>>

Lose(m) == wire' = wire \ {m} /\ UNCHANGED <<context, meant, raised, changes>>

Change == changes < MaxChange /\ changes' = changes + 1

\* A client without a tracer gives baggage, a debug id, or both.
ComeFromOutside(form, b, debugId) ==
  /\ Change /\ "text" \in Codec
  /\ Put([codec |-> form, meant |-> Handed(form, b, b),
          carrier |-> [trace |-> NoId, id |-> NoId, parent |-> NoId, flags |-> {},
                       baggage |-> b, debugId |-> debugId]])
  /\ UNCHANGED <<context, meant, raised>>

\* A proxy adds a debug id to the headers.
AddDebugId(m) ==
  /\ Change /\ m.codec \in Headers
  /\ wire' = (wire \ {m}) \cup {[m EXCEPT !.carrier.debugId = TRUE]}
  /\ UNCHANGED <<context, meant, raised>>

\* In one step; Span has its interleavings.
SetBaggageItem(s, k, v) ==
  /\ Change /\ s \in Started
  /\ context' = [context EXCEPT ![s].baggage = [@ EXCEPT ![k] = v]]
  /\ meant' = IF meant[s] = Unknown THEN meant ELSE [meant EXCEPT ![s] = [@ EXCEPT ![k] = v]]
  /\ UNCHANGED <<wire, raised>>

\* The tag "sampling.priority", 0 or not; a debug span ignores the latter.  The throttler may, too.
SetPriority(s, flags) ==
  /\ Change /\ s \in Started /\ (flags = {} \/ "debug" \notin context[s].flags)
  /\ context' = [context EXCEPT ![s].flags = flags]
  /\ raised' = raised \cup {context[s].trace}
  /\ UNCHANGED <<wire, meant>>

StartOrSend ==
  \E s \in Span :
    \/ StartRoot(s)
    \/ \E t \in Started : StartChild(s, t)
    \/ \E m \in wire, t \in Started \cup {s}, refers \in BOOLEAN : Serve(s, m, t, refers)
    \/ \E codec \in Codec : Send(s, codec)

Tag ==
  \E s \in Started :
    \/ \E k \in Key, v \in Value \cup {NoValue} : SetBaggageItem(s, k, v)
    \/ \E flags \in {{}, Flag} : SetPriority(s, flags)

Next ==
  \/ StartOrSend \/ Tag
  \/ \E form \in Headers, b \in Baggage, debugId \in BOOLEAN : ComeFromOutside(form, b, debugId)
  \/ \E m \in wire : Lose(m) \/ AddDebugId(m)

Spec == Init /\ [][Next]_vars
-----------------------------------------------------------------------------
(* Properties. *)

\* Type invariant; a span's context, unlike one that was extracted, never has a debug id.
TypeOK ==
  /\ context \in [Span -> Context \cup {NoContext}]
  /\ \A s \in Started : context[s].debugId = FALSE /\ HasTrace(context[s])
  /\ wire \subseteq Request
  /\ meant \in [Span -> Baggage \cup {Unknown}]
  /\ raised \subseteq Span /\ changes \in Nat

\* Is this the trace and the id of a span that was started?
IsSpan(trace, id) == \E s \in Started : context[s].trace = trace /\ context[s].id = id

\* The spans of a trace are a tree wherever they were started, by whatever codecs: one root, and
\* every other span has another span of the same trace for its parent, which was started.
TraceIsTree ==
  \A s \in Started : LET c == context[s] IN
    IF c.parent = NoId THEN c.id = c.trace
    ELSE c.parent # c.id /\ c.id # c.trace /\ IsSpan(c.trace, c.parent)

\* What spans of one trace decide alike: to be debugged, or else to be sampled or not.
SameFlags(f, g) == ("debug" \in f <=> "debug" \in g) /\ ("debug" \notin f => f = g)

\* All spans of a trace follow the sampling decision of its root, through any codecs, until the
\* application sets another priority; of a debug trace, all know that it is one.
FlagsAgree ==
  \A s, t \in Started :
    context[s].trace = context[t].trace /\ context[s].trace \notin raised =>
      SameFlags(context[s].flags, context[t].flags)

\* Baggage is handed on whole by the text and the binary codec: a span has the items that were
\* set where it comes from, and no others, unless a key on the way was not in lower case.
BaggageKept == \A s \in Started : meant[s] # Unknown => context[s].baggage = meant[s]
=============================================================================
