------------------------- MODULE PropagationProofs -------------------------
(***************************************************************************)
(* For any number of spans, requests, keys and codecs: Propagation is type *)
(* correct, the spans of a trace are a tree, they agree on the sampling    *)
(* decision, and the codecs that carry baggage keep it.  Each property is  *)
(* extended from the spans to the requests on the way.                     *)
(***************************************************************************)
EXTENDS Propagation, TLAPS

\* Where a new span's parent p comes from, and the baggage m that is meant to come with it.
Source(p, m) ==
  \/ p = NoContext /\ m = Empty
  \/ \E t \in Started : p = context[t] /\ m = meant[t]
  \/ \E r \in wire : p \in Extract(r.codec, r.carrier) /\ m = r.meant

\* The steps that start a span.
Starts == \E s \in Span, p \in Context \cup {NoContext}, m \in Baggage \cup {Unknown} :
  /\ StartSpan(s, p) /\ Source(p, m) /\ Remember(s, m)
  /\ UNCHANGED <<wire, raised, changes>>

\* The context new of span s, started with parent p.
Fresh(new, s, p) ==
  /\ new.trace = s /\ new.id = s /\ new.parent = NoId
  /\ p = NoContext => new.baggage = Empty
  /\ p # NoContext => ~HasTrace(p) /\ new.baggage = p.baggage

Follows(new, s, p) ==
  /\ p # NoContext /\ HasTrace(p)
  /\ new.trace = p.trace /\ new.flags = p.flags /\ new.baggage = p.baggage
  /\ \/ new.id = s /\ new.parent = p.id
     \/ new.id = p.id /\ new.parent = p.parent

-----------------------------------------------------------------------------
(* Lemmas on the operators. *)

\* What is extracted is the carrier, but for the baggage of a text carrier.
LEMMA ExtractType ==
  ASSUME NEW codec \in Codec \cup Headers, NEW c \in Context, NEW p \in Extract(codec, c)
  PROVE  /\ p \in Context \cup {NoContext}
         /\ p # NoContext => /\ p.trace = c.trace /\ p.id = c.id /\ p.parent = c.parent
                             /\ p.flags = c.flags
                             /\ codec # "text" => p.baggage = c.baggage
                             /\ codec = "text" => p.baggage \in Lowered(c.baggage)
         /\ p = NoContext => ~HasTrace(c) /\ (codec \in Headers => c.baggage = Empty)
<1>1. c \in Context /\ c # NoContext /\ codec \in Headers \cup {"binary", "zipkin", "b3"}
  BY PropagationAssumption DEF Headers
<1>2. CASE codec = "text" /\ p # NoContext
  <2>1. PICK b \in Lowered(c.baggage) : p = [c EXCEPT !.baggage = b]
    BY <1>2 DEF Extract, ExtractHeaders, Headers
  <2>2. b \in Baggage
    BY <2>1 DEF Lowered
  <2>3. p \in Context
    BY <2>1, <2>2 DEF Context
  <2> QED
    BY <1>2, <2>1, <2>3 DEF Context
<1>3. CASE codec # "text" /\ p # NoContext
  <2>1. p = c
    BY <1>1, <1>3 DEF Extract, ExtractHeaders, ExtractZipkin, ExtractB3, Headers
  <2> QED
    BY <1>3, <2>1
<1>4. CASE p = NoContext
  <2>1. \A b \in Lowered(c.baggage) : [c EXCEPT !.baggage = b] # NoContext
    <3>1. \A b \in Baggage : [c EXCEPT !.baggage = b] \in Context
      BY DEF Context
    <3> QED
      BY <3>1, PropagationAssumption DEF Lowered
  <2> QED
    BY <1>1, <1>4, <2>1 DEF Extract, ExtractHeaders, ExtractZipkin, ExtractB3, Headers, HasTrace
<1> QED
  BY <1>2, <1>3, <1>4

\* Baggage whose keys are in lower case is extracted as it was injected.
LEMMA LoweredSame ==
  ASSUME NEW b \in Baggage, IsLower(b), NEW l \in Lowered(b)
  PROVE  l = b
<1>1. l \in Baggage
  BY DEF Lowered
<1>2. ASSUME NEW k \in Key PROVE l[k] = b[k]
  <2>1. \A j \in Spelled(b, k) : j = k
    BY DEF Spelled, IsLower
  <2>2. CASE Spelled(b, k) = {}
    <3>1. b[k] = NoValue
      BY <2>2 DEF Spelled, IsLower
    <3> QED
      BY <2>2, <3>1 DEF Lowered
  <2>3. CASE Spelled(b, k) # {}
    <3>1. \E j \in Spelled(b, k) : l[k] = b[j]
      BY <2>3 DEF Lowered
    <3> QED
      BY <2>1, <3>1
  <2> QED
    BY <2>2, <2>3
<1> QED
  BY <1>1, <1>2 DEF Baggage

LEMMA InjectType ==
  ASSUME NEW codec \in Codec, NEW c \in Context
  PROVE  /\ Inject(codec, c) \in Context
         /\ Inject(codec, c).trace = c.trace /\ Inject(codec, c).id = c.id
         /\ Inject(codec, c).parent = c.parent
         /\ SameFlags(Inject(codec, c).flags, c.flags)
         /\ Inject(codec, c).baggage = IF CarriesBaggage(codec) THEN c.baggage ELSE Empty
<1>1. Empty \in Baggage
  BY DEF Empty, Baggage
<1>2. CarriedFlags(c.flags) \in SUBSET Flag
  BY DEF CarriedFlags, Context, Flag
<1>3. SameFlags(CarriedFlags(c.flags), c.flags) /\ SameFlags(c.flags, c.flags)
  BY DEF CarriedFlags, SameFlags
<1>4. CASE codec = "zipkin"
  <2>1. Inject(codec, c) = [c EXCEPT !.baggage = Empty] /\ ~CarriesBaggage(codec)
    BY <1>4 DEF Inject, InjectZipkin, CarriesBaggage, Headers
  <2> QED
    BY <1>1, <1>3, <2>1 DEF Context
<1>5. CASE codec = "b3"
  <2>1. Inject(codec, c) = [c EXCEPT !.flags = CarriedFlags(c.flags), !.baggage = Empty] /\ ~CarriesBaggage(codec)
    BY <1>5 DEF Inject, InjectB3, CarriesBaggage, Headers
  <2> QED
    BY <1>1, <1>2, <1>3, <2>1 DEF Context
<1>6. CASE codec \in {"text", "binary"}
  <2>1. Inject(codec, c) = c /\ CarriesBaggage(codec)
    BY <1>6 DEF Inject, CarriesBaggage, Headers
  <2> QED
    BY <1>3, <2>1
<1> QED
  BY <1>4, <1>5, <1>6, PropagationAssumption

\* Either decision is one, and all that agree with it agree.
LEMMA SameFlagsEquivalence ==
  ASSUME NEW f, NEW g, NEW h
  PROVE  /\ SameFlags(f, f)
         /\ SameFlags(f, g) => SameFlags(g, f)
         /\ SameFlags(f, g) /\ SameFlags(g, h) => SameFlags(f, h)
BY DEF SameFlags

-----------------------------------------------------------------------------
(* Starting a span. *)

\* What start_span makes of a parent.
LEMMA StartSpanMakes ==
  ASSUME TypeOK, NEW s \in Span, NEW p \in Context \cup {NoContext}, StartSpan(s, p)
  PROVE  /\ s \notin Started
         /\ \E new \in Context : /\ context' = [context EXCEPT ![s] = new]
                                 /\ new.debugId = FALSE /\ HasTrace(new)
                                 /\ Fresh(new, s, p) \/ Follows(new, s, p)
<1>1. s \notin Started
  BY DEF StartSpan
<1>2. ASSUME NEW flags \in SUBSET Flag, NEW b \in Baggage
      PROVE  /\ Drawn(s, flags, b) \in Context /\ Drawn(s, flags, b).debugId = FALSE
             /\ HasTrace(Drawn(s, flags, b)) /\ Drawn(s, flags, b).baggage = b
             /\ Drawn(s, flags, b).trace = s /\ Drawn(s, flags, b).id = s
             /\ Drawn(s, flags, b).parent = NoId
  BY PropagationAssumption DEF Drawn, Context, HasTrace
<1>3. CASE p = NoContext
  <2>1. PICK flags \in {{}, {"sampled"}} : context' = [context EXCEPT ![s] = Drawn(s, flags, Empty)]
    BY <1>3 DEF StartSpan
  <2>2. flags \in SUBSET Flag /\ Empty \in Baggage
    BY DEF Flag, Empty, Baggage
  <2> QED
    BY <1>1, <1>2, <1>3, <2>1, <2>2 DEF Fresh
<1>4. CASE p # NoContext /\ ~HasTrace(p)
  <2>1. PICK flags \in SUBSET Flag : context' = [context EXCEPT ![s] = Drawn(s, flags, p.baggage)]
    BY <1>4 DEF StartSpan
  <2>2. p.baggage \in Baggage
    BY <1>4 DEF Context
  <2> QED
    BY <1>1, <1>2, <1>4, <2>1, <2>2 DEF Fresh
<1>5. CASE p # NoContext /\ HasTrace(p)
  <2>1. PICK shared \in BOOLEAN : context' = [context EXCEPT ![s] = Joined(s, p, shared)]
    BY <1>5 DEF StartSpan
  <2>2. p \in Context
    BY <1>5
  <2>3. Joined(s, p, shared) \in Context /\ Joined(s, p, shared).debugId = FALSE
    BY <2>2 DEF Joined, Context
  <2>4. Follows(Joined(s, p, shared), s, p)
    BY <1>5, <2>2 DEF Joined, Context, Follows
  <2>5. HasTrace(Joined(s, p, shared))
    BY <1>5, <2>2, PropagationAssumption DEF Joined, Context, HasTrace
  <2> QED
    BY <1>1, <2>1, <2>3, <2>4, <2>5
<1> QED
  BY <1>3, <1>4, <1>5

LEMMA SourceType ==
  ASSUME TypeOK, NEW p, NEW m, Source(p, m)
  PROVE  p \in Context \cup {NoContext} /\ m \in Baggage \cup {Unknown}
<1>1. CASE p = NoContext /\ m = Empty
  BY <1>1 DEF Empty, Baggage
<1>2. ASSUME NEW t \in Started, p = context[t], m = meant[t] PROVE p \in Context /\ m \in Baggage \cup {Unknown}
  BY <1>2 DEF TypeOK, Started
<1>3. ASSUME NEW r \in wire, p \in Extract(r.codec, r.carrier), m = r.meant
      PROVE  p \in Context \cup {NoContext} /\ m \in Baggage \cup {Unknown}
  <2>1. r.codec \in Codec \cup Headers /\ r.carrier \in Context /\ r.meant \in Baggage \cup {Unknown}
    BY DEF TypeOK, Request
  <2> QED
    BY <1>3, <2>1, ExtractType
<1> QED
  BY <1>1, <1>2, <1>3 DEF Source

\* StartRoot, StartChild and Serve start a span with a parent from one of the three sources.
LEMMA StartOrSendSteps ==
  ASSUME TypeOK, StartOrSend
  PROVE  Starts \/ \E s \in Span, codec \in Codec : Send(s, codec)
<1>1. ASSUME NEW s \in Span, StartRoot(s) PROVE Starts
  <2>1. Source(NoContext, Empty) /\ Empty \in Baggage
    BY DEF Source, Empty, Baggage
  <2> QED
    BY <1>1, <2>1 DEF StartRoot, Starts
<1>2. ASSUME NEW s \in Span, NEW t \in Started, StartChild(s, t) PROVE Starts
  <2>1. Source(context[t], meant[t])
    BY DEF Source
  <2> QED
    BY <1>2, <2>1, SourceType DEF StartChild, Starts
<1>3. ASSUME NEW s \in Span, NEW m \in wire, NEW t \in Started \cup {s}, NEW refers \in BOOLEAN,
             Serve(s, m, t, refers)
      PROVE  Starts
  <2> DEFINE Wanted(c) == IF refers THEN Parent(c, NoContext, context[t])
                                    ELSE Parent(c, context[t], NoContext)
  <2>1. PICK c \in Extract(m.codec, m.carrier) :
           /\ StartSpan(s, Wanted(c))
           /\ \/ Wanted(c) = c /\ Remember(s, m.meant)
              \/ Wanted(c) # c /\ Remember(s, meant[t])
    BY <1>3 DEF Serve
  <2>2. UNCHANGED <<wire, raised, changes>>
    BY <1>3 DEF Serve
  <2>3. Wanted(c) # c => Wanted(c) = context[t] /\ context[t] # NoContext
    BY DEF Parent
  <2> HIDE DEF Wanted
  <2>4. CASE Wanted(c) = c /\ Remember(s, m.meant)
    <3>1. Source(c, m.meant)
      BY DEF Source
    <3> QED
      BY <2>1, <2>2, <2>4, <3>1, SourceType DEF Starts
  <2>5. CASE Wanted(c) # c /\ Remember(s, meant[t])
    <3>1. t \in Started
      BY <2>3, <2>5 DEF Started
    <3>2. Source(context[t], meant[t])
      BY <3>1 DEF Source
    <3> QED
      BY <2>1, <2>2, <2>3, <2>5, <3>2, SourceType DEF Starts
  <2> QED
    BY <2>1, <2>4, <2>5
<1> QED
  BY <1>1, <1>2, <1>3 DEF StartOrSend

-----------------------------------------------------------------------------
(* Types. *)

LEMMA InitType == Init => TypeOK
<1> SUFFICES ASSUME Init PROVE TypeOK
  OBVIOUS
<1>1. Started = {}
  BY DEF Init, Started
<1>2. meant \in [Span -> Baggage]
  BY DEF Init, Empty, Baggage
<1> QED
  BY <1>1, <1>2 DEF Init, TypeOK

LEMMA HandedType ==
  ASSUME NEW codec, NEW b, NEW m \in Baggage \cup {Unknown}
  PROVE  Handed(codec, b, m) \in Baggage \cup {Unknown}
BY DEF Handed

LEMMA StepType ==
  ASSUME TypeOK, [Next]_vars
  PROVE  TypeOK'
<1> USE DEF TypeOK
<1>1. CASE Starts
  <2>1. PICK s \in Span, p \in Context \cup {NoContext}, m \in Baggage \cup {Unknown} :
           /\ StartSpan(s, p) /\ Remember(s, m) /\ UNCHANGED <<wire, raised, changes>>
    BY <1>1 DEF Starts
  <2>2. PICK new \in Context : /\ context' = [context EXCEPT ![s] = new]
                               /\ new.debugId = FALSE /\ HasTrace(new)
    BY <2>1, StartSpanMakes
  <2>3. context' \in [Span -> Context \cup {NoContext}] /\ meant' \in [Span -> Baggage \cup {Unknown}]
    BY <2>1, <2>2 DEF Remember
  <2>4. \A t \in Started' : context'[t].debugId = FALSE /\ HasTrace(context'[t])
    BY <2>2 DEF Started
  <2> QED
    BY <2>1, <2>3, <2>4
<1>2. ASSUME NEW s \in Span, NEW codec \in Codec, Send(s, codec) PROVE TypeOK'
  <2>1. context[s] \in Context
    BY <1>2 DEF Send, Started
  <2>2. [codec |-> codec, carrier |-> Inject(codec, context[s]),
         meant |-> Handed(codec, context[s].baggage, meant[s])] \in Request
    BY <2>1, InjectType, HandedType DEF Request
  <2> QED
    BY <1>2, <2>2 DEF Send, Put, Started
<1>3. ASSUME NEW form \in Headers, NEW b \in Baggage, NEW debugId \in BOOLEAN,
             ComeFromOutside(form, b, debugId)
      PROVE  TypeOK'
  <2>1. [codec |-> form, meant |-> Handed(form, b, b),
         carrier |-> [trace |-> NoId, id |-> NoId, parent |-> NoId, flags |-> {},
                      baggage |-> b, debugId |-> debugId]] \in Request
    BY <1>3, HandedType DEF ComeFromOutside, Request, Context
  <2>2. changes' \in Nat
    BY <1>3 DEF ComeFromOutside, Change
  <2> QED
    BY <1>3, <2>1, <2>2 DEF ComeFromOutside, Put, Started
<1>4. ASSUME NEW m \in wire, Lose(m) PROVE TypeOK'
  BY <1>4 DEF Lose, Started
<1>5. ASSUME NEW m \in wire, AddDebugId(m) PROVE TypeOK'
  <2>1. [m EXCEPT !.carrier.debugId = TRUE] \in Request
    BY DEF Request, Context
  <2>2. changes' \in Nat
    BY <1>5 DEF AddDebugId, Change
  <2> QED
    BY <1>5, <2>1, <2>2 DEF AddDebugId, Started
<1>6. ASSUME NEW s \in Started, NEW k \in Key, NEW v \in Value \cup {NoValue}, SetBaggageItem(s, k, v)
      PROVE  TypeOK'
  <2> DEFINE new == [context[s] EXCEPT !.baggage = [@ EXCEPT ![k] = v]]
  <2>1. s \in Span /\ context[s] \in Context
    BY DEF Started
  <2>2. new \in Context /\ new.debugId = context[s].debugId
        /\ new.trace = context[s].trace /\ new.id = context[s].id
    BY <2>1 DEF Context, Baggage
  <2>3. context' = [context EXCEPT ![s] = new]
    BY <1>6 DEF SetBaggageItem
  <2> HIDE DEF new
  <2>4. \A t \in Started' : context'[t].debugId = FALSE /\ HasTrace(context'[t])
    BY <2>1, <2>2, <2>3 DEF Started, HasTrace
  <2>5. meant' \in [Span -> Baggage \cup {Unknown}]
    <3>1. CASE meant[s] = Unknown
      BY <1>6, <3>1 DEF SetBaggageItem
    <3>2. CASE meant[s] # Unknown
      <4>1. [meant[s] EXCEPT ![k] = v] \in Baggage
        BY <2>1, <3>2 DEF Baggage
      <4>2. meant' = [meant EXCEPT ![s] = [meant[s] EXCEPT ![k] = v]]
        BY <1>6, <3>2 DEF SetBaggageItem
      <4> QED
        BY <4>1, <4>2
    <3> QED
      BY <3>1, <3>2
  <2>6. changes' \in Nat /\ UNCHANGED <<wire, raised>>
    BY <1>6 DEF SetBaggageItem, Change
  <2>7. context' \in [Span -> Context \cup {NoContext}]
    BY <2>2, <2>3
  <2> QED
    BY <2>4, <2>5, <2>6, <2>7
<1>7. ASSUME NEW s \in Started, NEW flags \in SUBSET Flag, SetPriority(s, flags) PROVE TypeOK'
  <2> DEFINE new == [context[s] EXCEPT !.flags = flags]
  <2>1. s \in Span /\ context[s] \in Context /\ context[s].trace \in Span
    BY DEF Started, Context, HasTrace
  <2>2. new \in Context /\ new.debugId = context[s].debugId
        /\ new.trace = context[s].trace /\ new.id = context[s].id
    BY <2>1 DEF Context
  <2>3. context' = [context EXCEPT ![s] = new]
    BY <1>7 DEF SetPriority
  <2> HIDE DEF new
  <2>4. \A t \in Started' : context'[t].debugId = FALSE /\ HasTrace(context'[t])
    BY <2>1, <2>2, <2>3 DEF Started, HasTrace
  <2>5. changes' \in Nat /\ UNCHANGED <<wire, meant>> /\ raised' \subseteq Span
    BY <1>7, <2>1 DEF SetPriority, Change
  <2>6. context' \in [Span -> Context \cup {NoContext}]
    BY <2>2, <2>3
  <2> QED
    BY <2>4, <2>5, <2>6
<1>8. CASE UNCHANGED vars
  BY <1>8 DEF vars, Started
<1>9. CASE Tag
  <2>1. PICK s \in Started : \/ \E k \in Key, v \in Value \cup {NoValue} : SetBaggageItem(s, k, v)
                             \/ \E flags \in {{}, Flag} : SetPriority(s, flags)
    BY <1>9 DEF Tag
  <2> QED
    BY <1>6, <1>7, <2>1
<1> QED
  BY <1>1, <1>2, <1>3, <1>4, <1>5, <1>8, <1>9, StartOrSendSteps DEF Next

\* Every state is well typed, and a started span has a trace and no debug id, for any number of
\* spans and requests: start_span never makes a context that its children do not follow.
THEOREM TypeCorrect == Spec => []TypeOK
BY InitType, StepType, PTL DEF Spec

-----------------------------------------------------------------------------
(* The tree.  A request that has a trace carries the place of a span in it. *)

Node(c) == IF c.parent = NoId THEN c.id = c.trace ELSE c.parent # c.id /\ c.id # c.trace

Placed(c) == Node(c) /\ IsSpan(c.trace, c.id) /\ (c.parent # NoId => IsSpan(c.trace, c.parent))

TreeInv ==
  /\ \A s \in Started : Placed(context[s]) /\ context[s].id \in Started /\ context[s].trace \in Started
  /\ \A m \in wire : Placed(m.carrier) \/ (m.carrier.trace = NoId /\ m.codec \in Headers)

\* A span keeps its place, so what is placed remains so.
Stays == \A s \in Started : s \in Started' /\ /\ context'[s].trace = context[s].trace
                                              /\ context'[s].id = context[s].id
                                              /\ context'[s].parent = context[s].parent

LEMMA PlacedStays ==
  ASSUME Stays, NEW c, Placed(c)
  PROVE  Placed(c)'
<1>1. ASSUME NEW trace, NEW id, IsSpan(trace, id) PROVE IsSpan(trace, id)'
  BY <1>1 DEF IsSpan, Stays
<1> QED
  BY <1>1 DEF Placed, Node

\* The parent of a new span has a place in its trace, if it has a trace.
LEMMA SourcePlaced ==
  ASSUME TypeOK, TreeInv, NEW p, NEW m, Source(p, m), p # NoContext, HasTrace(p)
  PROVE  Placed(p) /\ p.id \in Started /\ p.trace \in Started
<1>1. ASSUME Placed(p) PROVE p.id \in Started /\ p.trace \in Started
  BY <1>1 DEF Placed, IsSpan, TreeInv
<1>2. ASSUME NEW t \in Started, p = context[t] PROVE Placed(p)
  BY <1>2 DEF TreeInv
<1>3. ASSUME NEW r \in wire, p \in Extract(r.codec, r.carrier) PROVE Placed(p)
  <2>1. r.codec \in Codec \cup Headers /\ r.carrier \in Context
    BY DEF TypeOK, Request
  <2>2. p.trace = r.carrier.trace /\ p.id = r.carrier.id /\ p.parent = r.carrier.parent
    BY <1>3, <2>1, ExtractType
  <2>3. Placed(r.carrier)
    BY <2>2 DEF TreeInv, HasTrace
  <2> QED
    BY <2>2, <2>3 DEF Placed, Node
<1> QED
  BY <1>1, <1>2, <1>3 DEF Source

LEMMA InitTree == Init => TreeInv
BY DEF Init, Started, TreeInv

LEMMA StartTree ==
  ASSUME TypeOK, TreeInv, Starts
  PROVE  TreeInv'
<1>1. PICK s \in Span, p \in Context \cup {NoContext}, m \in Baggage \cup {Unknown} :
         /\ StartSpan(s, p) /\ Source(p, m) /\ UNCHANGED wire
  BY DEF Starts
<1>2. PICK new \in Context : /\ context' = [context EXCEPT ![s] = new]
                             /\ Fresh(new, s, p) \/ Follows(new, s, p)
  BY <1>1, StartSpanMakes
<1>3. s \notin Started
  BY <1>1 DEF StartSpan
<1>4. /\ context'[s] = new /\ s \in Started' /\ Started' = Started \cup {s}
      /\ \A t \in Started : context'[t] = context[t]
  BY <1>2, <1>3, PropagationAssumption DEF TypeOK, Started
<1>5. Stays
  BY <1>4 DEF Stays
<1>6. IsSpan(new.trace, new.id)'
  BY <1>4 DEF IsSpan
<1>7. Placed(new)' /\ new.id \in Started' /\ new.trace \in Started'
  <2>1. CASE Fresh(new, s, p)
    BY <1>4, <1>6, <2>1 DEF Fresh, Placed, Node
  <2>2. CASE Follows(new, s, p)
    <3>1. Placed(p) /\ p.id \in Started /\ p.trace \in Started
      BY <1>1, <2>2, SourcePlaced DEF Follows
    <3>2. Placed(p)'
      BY <1>5, <3>1, PlacedStays
    <3>3. CASE new.id = s /\ new.parent = p.id
      <4>1. new.parent # NoId /\ new.parent # new.id /\ new.id # new.trace
        BY <1>3, <2>2, <3>1, <3>3, PropagationAssumption DEF Follows, Started
      <4>2. IsSpan(new.trace, new.parent)'
        BY <2>2, <3>2, <3>3 DEF Follows, Placed
      <4> QED
        BY <1>4, <1>6, <2>2, <3>1, <3>3, <4>1, <4>2 DEF Follows, Placed, Node
    <3>4. CASE new.id = p.id /\ new.parent = p.parent
      BY <1>4, <2>2, <3>1, <3>2, <3>4 DEF Follows, Placed, Node
    <3> QED
      BY <2>2, <3>3, <3>4 DEF Follows
  <2> QED
    BY <1>2, <2>1, <2>2
<1>8. \A t \in Started : Placed(context[t])'
  BY <1>4, <1>5, PlacedStays DEF TreeInv
<1>9. \A r \in wire : Placed(r.carrier)' \/ (r.carrier.trace = NoId /\ r.codec \in Headers)
  BY <1>5, PlacedStays DEF TreeInv
<1>10. \A t \in Started' : Placed(context[t])' /\ context'[t].id \in Started' /\ context'[t].trace \in Started'
  BY <1>4, <1>7, <1>8 DEF TreeInv, Placed, Node, IsSpan
<1> QED
  BY <1>1, <1>9, <1>10 DEF TreeInv, Placed, Node, IsSpan

\* The other steps start no span and keep the place of each.
LEMMA OthersStay ==
  ASSUME TypeOK, [Next]_vars, ~Starts
  PROVE  Started' = Started /\ Stays
<1>1. ASSUME UNCHANGED context PROVE Started' = Started /\ Stays
  BY <1>1 DEF Started, Stays
<1>2. ASSUME NEW s \in Started, NEW new \in Context, context' = [context EXCEPT ![s] = new],
             new.trace = context[s].trace, new.id = context[s].id, new.parent = context[s].parent
      PROVE  Started' = Started /\ Stays
  BY <1>2, PropagationAssumption DEF TypeOK, Started, Stays
<1>3. ASSUME NEW s \in Started, NEW k \in Key, NEW v \in Value \cup {NoValue}, SetBaggageItem(s, k, v)
      PROVE  Started' = Started /\ Stays
  <2> DEFINE new == [context[s] EXCEPT !.baggage = [@ EXCEPT ![k] = v]]
  <2>1. context[s] \in Context
    BY DEF TypeOK, Started
  <2>2. new \in Context /\ new.trace = context[s].trace /\ new.id = context[s].id
        /\ new.parent = context[s].parent
    BY <2>1 DEF Context, Baggage
  <2>3. context' = [context EXCEPT ![s] = new]
    BY <1>3 DEF SetBaggageItem
  <2> QED
    BY <1>2, <2>2, <2>3
<1>4. ASSUME NEW s \in Started, NEW flags \in {{}, Flag}, SetPriority(s, flags)
      PROVE  Started' = Started /\ Stays
  <2> DEFINE new == [context[s] EXCEPT !.flags = flags]
  <2>1. context[s] \in Context
    BY DEF TypeOK, Started
  <2>2. new \in Context /\ new.trace = context[s].trace /\ new.id = context[s].id
        /\ new.parent = context[s].parent
    BY <2>1 DEF Context
  <2>3. context' = [context EXCEPT ![s] = new]
    BY <1>4 DEF SetPriority
  <2> QED
    BY <1>2, <2>2, <2>3
<1>5. CASE Tag
  BY <1>3, <1>4, <1>5 DEF Tag
<1> QED
  BY <1>1, <1>5, StartOrSendSteps DEF Next, vars, Send, ComeFromOutside, Lose, AddDebugId

LEMMA StepTree ==
  ASSUME TypeOK, TreeInv, [Next]_vars
  PROVE  TreeInv'
<1>1. CASE Starts
  BY <1>1, StartTree
<1>2. CASE ~Starts
  <2>1. Started' = Started /\ Stays
    BY <1>2, OthersStay
  <2>2. ASSUME NEW s \in Started
        PROVE  Placed(context[s])' /\ context'[s].id \in Started' /\ context'[s].trace \in Started'
    <3>1. Placed(context[s]) /\ context[s].id \in Started /\ context[s].trace \in Started
      BY DEF TreeInv
    <3> QED
      BY <2>1, <3>1, PlacedStays DEF Stays, Placed, Node, IsSpan
  <2> DEFINE Kept(m) == Placed(m.carrier)' \/ (m.carrier.trace = NoId /\ m.codec \in Headers)
  <2>3. \A m \in wire : Kept(m)
    BY <2>1, PlacedStays DEF TreeInv
  <2>4. ASSUME NEW m, wire' \subseteq wire \cup {m}, Kept(m) PROVE TreeInv'
    BY <2>1, <2>2, <2>3, <2>4 DEF TreeInv, Placed, Node, IsSpan
  <2>5. ASSUME wire' \subseteq wire PROVE TreeInv'
    BY <2>1, <2>2, <2>3, <2>5 DEF TreeInv, Placed, Node, IsSpan
  <2>6. ASSUME NEW s \in Span, NEW codec \in Codec, Send(s, codec) PROVE TreeInv'
    <3>1. s \in Started /\ context[s] \in Context
      BY <2>6 DEF Send, TypeOK, Started
    <3>2. PICK c : c = Inject(codec, context[s])
      OBVIOUS
    <3>3. PICK m : m = [codec |-> codec, carrier |-> c,
                        meant |-> Handed(codec, context[s].baggage, meant[s])]
      OBVIOUS
    <3>4. c.trace = context[s].trace /\ c.id = context[s].id /\ c.parent = context[s].parent
      BY <3>1, <3>2, InjectType
    <3>5. Placed(context[s])
      BY <3>1 DEF TreeInv
    <3>6. Placed(c)
      BY <3>4, <3>5 DEF Placed, Node
    <3>7. Placed(c)'
      BY <2>1, <3>6, PlacedStays
    <3>8. m.carrier = c /\ wire' = wire \cup {m}
      BY <2>6, <3>2, <3>3 DEF Send, Put
    <3>9. Kept(m)
      BY <3>7, <3>8
    <3> QED
      BY <2>4, <3>8, <3>9
  <2>7. ASSUME NEW form \in Headers, NEW b \in Baggage, NEW debugId \in BOOLEAN,
             ComeFromOutside(form, b, debugId)
      PROVE  TreeInv'
    <3> DEFINE m == [codec |-> form, meant |-> Handed(form, b, b),
                     carrier |-> [trace |-> NoId, id |-> NoId, parent |-> NoId, flags |-> {},
                                  baggage |-> b, debugId |-> debugId]]
    <3>1. wire' = wire \cup {m} /\ m.carrier.trace = NoId /\ m.codec \in Headers
      BY <2>7 DEF ComeFromOutside, Put
    <3> QED
      BY <2>4, <3>1
  <2>8. ASSUME NEW r \in wire, AddDebugId(r) PROVE TreeInv'
    <3> DEFINE m == [r EXCEPT !.carrier.debugId = TRUE]
    <3>1. r \in Request
      BY DEF TypeOK
    <3>2. /\ m.carrier.trace = r.carrier.trace /\ m.carrier.id = r.carrier.id
          /\ m.carrier.parent = r.carrier.parent /\ m.codec = r.codec
      BY <3>1 DEF Request, Context
    <3>3. Kept(r)
      BY <2>3
    <3>4. wire' = (wire \ {r}) \cup {m}
      BY <2>8 DEF AddDebugId
    <3>5. Kept(m)
      BY <3>2, <3>3 DEF Placed, Node, IsSpan
    <3> HIDE DEF m, Kept
    <3> QED
      BY <2>4, <3>4, <3>5
  <2>9. CASE UNCHANGED wire
    BY <2>5, <2>9
  <2>10. CASE \E m \in wire : Lose(m)
    BY <2>5, <2>10 DEF Lose
  <2> QED
    BY <1>2, <2>6, <2>7, <2>8, <2>9, <2>10, StartOrSendSteps
       DEF Next, vars, Tag, SetBaggageItem, SetPriority
<1> QED
  BY <1>1, <1>2

\* Every context on its way has a place in its trace.
LEMMA AlwaysPlaced == Spec => []TreeInv
BY InitTree, StepTree, TypeCorrect, PTL DEF Spec

\* The spans of a trace are a tree, for any number of spans, requests and codecs: a parent was
\* started before its children, in the same trace, though requests are lost, repeated and
\* reordered, and though with one span per RPC two spans share an id.
THEOREM TraceIsAlwaysTree == Spec => []TraceIsTree
<1>1. TypeOK /\ TreeInv => TraceIsTree
  BY DEF TreeInv, Placed, Node, TraceIsTree
<1> QED
  BY <1>1, AlwaysPlaced, TypeCorrect, PTL

-----------------------------------------------------------------------------
(* The sampling decision. *)

\* The context c agrees with the spans of its trace.
Agrees(c) == \A t \in Started : context[t].trace = c.trace /\ c.trace \notin raised =>
                                  SameFlags(c.flags, context[t].flags)

FlagsInv == (\A s \in Started : Agrees(context[s])) /\ (\A m \in wire : Agrees(m.carrier))

LEMMA SourceAgrees ==
  ASSUME TypeOK, FlagsInv, NEW p, NEW m, Source(p, m), p # NoContext, HasTrace(p)
  PROVE  Agrees(p)
<1>1. ASSUME NEW t \in Started, p = context[t] PROVE Agrees(p)
  BY <1>1 DEF FlagsInv
<1>2. ASSUME NEW r \in wire, p \in Extract(r.codec, r.carrier) PROVE Agrees(p)
  <2>1. r.codec \in Codec \cup Headers /\ r.carrier \in Context
    BY DEF TypeOK, Request
  <2>2. p.trace = r.carrier.trace /\ p.flags = r.carrier.flags
    BY <1>2, <2>1, ExtractType
  <2> QED
    BY <2>2 DEF FlagsInv, Agrees
<1> QED
  BY <1>1, <1>2 DEF Source

LEMMA StartFlags ==
  ASSUME TypeOK, TreeInv, FlagsInv, Starts
  PROVE  FlagsInv'
<1>1. PICK s \in Span, p \in Context \cup {NoContext}, m \in Baggage \cup {Unknown} :
         /\ StartSpan(s, p) /\ Source(p, m) /\ UNCHANGED <<wire, raised>>
  BY DEF Starts
<1>2. PICK new \in Context : /\ context' = [context EXCEPT ![s] = new]
                             /\ Fresh(new, s, p) \/ Follows(new, s, p)
  BY <1>1, StartSpanMakes
<1>3. s \notin Started
  BY <1>1 DEF StartSpan
<1>4. /\ context'[s] = new /\ Started' = Started \cup {s}
      /\ \A t \in Started : context'[t] = context[t]
  BY <1>2, <1>3, PropagationAssumption DEF TypeOK, Started
<1>5. ASSUME NEW c, Agrees(c), new.trace = c.trace, c.trace \notin raised,
             c.trace = NoId \/ c.trace \in Started
      PROVE  SameFlags(c.flags, new.flags)
  <2>1. new.trace # s /\ new.trace # NoId
    BY <1>1, <1>2, <1>3, <1>5, PropagationAssumption DEF Fresh, Follows, HasTrace
  <2>2. Follows(new, s, p)
    BY <1>2, <2>1 DEF Fresh
  <2>3. Agrees(p) /\ IsSpan(p.trace, p.id)
    BY <1>1, <2>2, SourceAgrees, SourcePlaced DEF Follows, Placed
  <2>4. PICK t \in Started : context[t].trace = p.trace
    BY <2>3 DEF IsSpan
  <2>5. SameFlags(c.flags, context[t].flags) /\ SameFlags(p.flags, context[t].flags)
    BY <1>5, <2>2, <2>3, <2>4 DEF Agrees, Follows
  <2> QED
    BY <2>2, <2>5, SameFlagsEquivalence DEF Follows
<1>6. ASSUME NEW t \in Started PROVE Agrees(context[t])'
  <2>1. Agrees(context[t]) /\ context[t].trace \in Started
    BY DEF FlagsInv, TreeInv
  <2>2. new.trace = context[t].trace /\ context[t].trace \notin raised =>
          SameFlags(context[t].flags, new.flags)
    BY <1>5, <2>1
  <2> QED
    BY <1>1, <1>4, <2>1, <2>2 DEF Agrees
<1>7. ASSUME NEW r \in wire PROVE Agrees(r.carrier)'
  <2>1. Agrees(r.carrier) /\ (r.carrier.trace = NoId \/ r.carrier.trace \in Started)
    BY DEF FlagsInv, TreeInv, Placed, IsSpan
  <2>2. new.trace = r.carrier.trace /\ r.carrier.trace \notin raised =>
          SameFlags(r.carrier.flags, new.flags)
    BY <1>5, <2>1
  <2> QED
    BY <1>1, <1>4, <2>1, <2>2 DEF Agrees
<1>8. Agrees(new)'
  <2>1. ASSUME NEW t \in Started, context[t].trace = new.trace, new.trace \notin raised
        PROVE  SameFlags(new.flags, context[t].flags)
    <3>1. Agrees(context[t]) /\ context[t].trace \in Started
      BY DEF FlagsInv, TreeInv
    <3>2. SameFlags(context[t].flags, new.flags)
      BY <1>5, <2>1, <3>1
    <3> QED
      BY <3>2, SameFlagsEquivalence
  <2> QED
    BY <1>1, <1>4, <2>1, SameFlagsEquivalence DEF Agrees
<1>9. \A t \in Started' : Agrees(context[t])'
  BY <1>4, <1>6, <1>8 DEF Agrees
<1> QED
  BY <1>1, <1>7, <1>9 DEF FlagsInv, Agrees

LEMMA StepFlags ==
  ASSUME TypeOK, TreeInv, FlagsInv, [Next]_vars
  PROVE  FlagsInv'
<1>1. CASE Starts
  BY <1>1, StartFlags
<1>2. CASE ~Starts
  <2>1. Started' = Started /\ Stays
    BY <1>2, OthersStay
  <2> DEFINE SpansAlike == \A t \in Started : context'[t].flags = context[t].flags
  <2>2. ASSUME SpansAlike, UNCHANGED raised
        PROVE  /\ \A s \in Started : Agrees(context[s])'
               /\ \A c : Agrees(c) => Agrees(c)'
    BY <2>1, <2>2 DEF Stays, FlagsInv, Agrees
  <2>3. ASSUME NEW m, wire' \subseteq wire \cup {m}, SpansAlike, UNCHANGED raised, Agrees(m.carrier)
        PROVE  FlagsInv'
    BY <2>1, <2>2, <2>3 DEF FlagsInv, Agrees
  <2>4. ASSUME wire' \subseteq wire, SpansAlike, UNCHANGED raised PROVE FlagsInv'
    BY <2>1, <2>2, <2>4 DEF FlagsInv, Agrees
  <2>5. ASSUME NEW s \in Span, NEW codec \in Codec, Send(s, codec) PROVE FlagsInv'
    <3>1. s \in Started /\ context[s] \in Context
      BY <2>5 DEF Send, TypeOK, Started
    <3>2. PICK c : c = Inject(codec, context[s])
      OBVIOUS
    <3>3. PICK m : m = [codec |-> codec, carrier |-> c,
                        meant |-> Handed(codec, context[s].baggage, meant[s])]
      OBVIOUS
    <3>4. c.trace = context[s].trace /\ SameFlags(c.flags, context[s].flags)
      BY <3>1, <3>2, InjectType
    <3>5. Agrees(context[s])
      BY <3>1 DEF FlagsInv
    <3>6. Agrees(c)
      BY <3>4, <3>5, SameFlagsEquivalence DEF Agrees
    <3>7. m.carrier = c /\ wire' = wire \cup {m}
      BY <2>5, <3>2, <3>3 DEF Send, Put
    <3> QED
      BY <2>3, <2>5, <3>6, <3>7 DEF Send
  <2>6. ASSUME NEW form \in Headers, NEW b \in Baggage, NEW debugId \in BOOLEAN,
             ComeFromOutside(form, b, debugId)
      PROVE  FlagsInv'
    <3>1. PICK m : m = [codec |-> form, meant |-> Handed(form, b, b),
                        carrier |-> [trace |-> NoId, id |-> NoId, parent |-> NoId, flags |-> {},
                                     baggage |-> b, debugId |-> debugId]]
      OBVIOUS
    <3>2. wire' = wire \cup {m} /\ m.carrier.trace = NoId
      BY <2>6, <3>1 DEF ComeFromOutside, Put
    <3>3. \A t \in Started : context[t].trace # NoId
      BY DEF TypeOK, HasTrace
    <3> QED
      BY <2>3, <2>6, <3>2, <3>3 DEF ComeFromOutside, Agrees
  <2>7. ASSUME NEW r \in wire, AddDebugId(r) PROVE FlagsInv'
    <3>1. PICK m : m = [r EXCEPT !.carrier.debugId = TRUE]
      OBVIOUS
    <3>2. r \in Request
      BY DEF TypeOK
    <3>3. m.carrier.trace = r.carrier.trace /\ m.carrier.flags = r.carrier.flags
      BY <3>1, <3>2 DEF Request, Context
    <3>4. wire' \subseteq wire \cup {m}
      BY <2>7, <3>1 DEF AddDebugId
    <3> QED
      BY <2>3, <2>7, <3>3, <3>4 DEF AddDebugId, FlagsInv, Agrees
  <2>8. ASSUME NEW s \in Started, NEW k \in Key, NEW v \in Value \cup {NoValue}, SetBaggageItem(s, k, v)
        PROVE  FlagsInv'
    <3>1. SpansAlike
      BY <2>8 DEF SetBaggageItem, TypeOK, Started, Context
    <3> QED
      BY <2>4, <2>8, <3>1 DEF SetBaggageItem
  <2>9. ASSUME NEW s \in Started, NEW flags, SetPriority(s, flags)
        PROVE  FlagsInv'
    <3>1. \A t \in Started : context[t].trace # context[s].trace => context'[t].flags = context[t].flags
      BY <2>9 DEF SetPriority, TypeOK, Started
    <3>2. raised' = raised \cup {context[s].trace} /\ wire' = wire
      BY <2>9 DEF SetPriority
    <3>3. ASSUME NEW c, Agrees(c) PROVE Agrees(c)'
      BY <2>1, <3>1, <3>2, <3>3 DEF Agrees, Stays
    <3>4. ASSUME NEW t \in Started PROVE Agrees(context[t])'
      <4>1. Agrees(context[t])
        BY DEF FlagsInv
      <4> QED
        BY <2>1, <3>1, <3>2, <4>1 DEF Agrees, Stays
    <3> QED
      BY <2>1, <3>2, <3>3, <3>4 DEF FlagsInv, Agrees
  <2>10. CASE \E m \in wire : Lose(m)
    BY <2>4, <2>10 DEF Lose
  <2>11. CASE UNCHANGED vars
    BY <2>4, <2>11 DEF vars
  <2> QED
    BY <1>2, <2>5, <2>6, <2>7, <2>8, <2>9, <2>10, <2>11, StartOrSendSteps DEF Next, Tag
<1> QED
  BY <1>1, <1>2

\* All spans of a trace follow the decision of its root, for any number of spans and any codecs,
\* until the application sets another priority; all spans of a debug trace know that it is one.
THEOREM FlagsAlwaysAgree == Spec => []FlagsAgree
<1>1. Init => FlagsInv
  BY DEF Init, Started, FlagsInv
<1>2. FlagsInv => FlagsAgree
  BY DEF FlagsInv, Agrees, FlagsAgree
<1> QED
  BY <1>1, <1>2, AlwaysPlaced, StepFlags, TypeCorrect, PTL DEF Spec

-----------------------------------------------------------------------------
(* Baggage. *)

\* A request whose baggage is known carries it; a text codec's, in lower case.
Carries(r) == r.meant # Unknown => /\ r.carrier.baggage = r.meant
                                   /\ r.codec = "text" => IsLower(r.carrier.baggage)

BaggageInv == BaggageKept /\ \A r \in wire : Carries(r)

\* A parent brings the baggage that it is meant to bring.
LEMMA SourceBaggage ==
  ASSUME TypeOK, TreeInv, BaggageInv, NEW p, NEW m, Source(p, m), m # Unknown
  PROVE  m = IF p = NoContext THEN Empty ELSE p.baggage
<1>1. ASSUME NEW t \in Started, p = context[t], m = meant[t]
      PROVE  m = IF p = NoContext THEN Empty ELSE p.baggage
  BY <1>1 DEF BaggageInv, BaggageKept, Started
<1>2. ASSUME NEW r \in wire, p \in Extract(r.codec, r.carrier), m = r.meant
      PROVE  m = IF p = NoContext THEN Empty ELSE p.baggage
  <2>1. r.codec \in Codec \cup Headers /\ r.carrier \in Context /\ r.carrier.baggage \in Baggage
    BY DEF TypeOK, Request, Context
  <2>2. m = r.carrier.baggage /\ (r.codec = "text" => IsLower(r.carrier.baggage))
    BY <1>2 DEF BaggageInv, Carries
  <2>3. CASE p = NoContext
    <3>1. ~HasTrace(r.carrier) /\ (r.codec \in Headers => r.carrier.baggage = Empty)
      BY <1>2, <2>1, <2>3, ExtractType
    <3>2. r.codec \in Headers
      <4>1. CASE Placed(r.carrier)
        BY <3>1, <4>1 DEF Placed, IsSpan, TypeOK, HasTrace
      <4>2. CASE ~Placed(r.carrier)
        BY <4>2 DEF TreeInv
      <4> QED
        BY <4>1, <4>2
    <3> QED
      BY <2>2, <2>3, <3>1, <3>2
  <2>4. CASE p # NoContext /\ r.codec = "text"
    <3>1. p.baggage \in Lowered(r.carrier.baggage)
      BY <1>2, <2>1, <2>4, ExtractType
    <3> QED
      BY <2>1, <2>2, <2>4, <3>1, LoweredSame
  <2>5. CASE p # NoContext /\ r.codec # "text"
    BY <1>2, <2>1, <2>2, <2>5, ExtractType
  <2> QED
    BY <2>3, <2>4, <2>5
<1> QED
  BY <1>1, <1>2 DEF Source

LEMMA StepBaggage ==
  ASSUME TypeOK, TreeInv, BaggageInv, [Next]_vars
  PROVE  BaggageInv'
<1>1. CASE Starts
  <2>1. PICK s \in Span, p \in Context \cup {NoContext}, m \in Baggage \cup {Unknown} :
           /\ StartSpan(s, p) /\ Source(p, m) /\ Remember(s, m) /\ UNCHANGED wire
    BY <1>1 DEF Starts
  <2>2. PICK new \in Context : /\ context' = [context EXCEPT ![s] = new]
                               /\ Fresh(new, s, p) \/ Follows(new, s, p)
    BY <2>1, StartSpanMakes
  <2>3. m # Unknown => new.baggage = m
    BY <2>1, <2>2, SourceBaggage DEF Fresh, Follows
  <2>4. BaggageKept'
    BY <2>1, <2>2, <2>3 DEF BaggageInv, BaggageKept, Started, TypeOK, Remember
  <2> QED
    BY <2>1, <2>4 DEF BaggageInv, Carries
<1>2. ASSUME NEW r, wire' \subseteq wire \cup {r}, Carries(r), UNCHANGED <<context, meant>>
      PROVE  BaggageInv'
  BY <1>2 DEF BaggageInv, BaggageKept, Carries, Started
<1>3. ASSUME wire' \subseteq wire, UNCHANGED <<context, meant>> PROVE BaggageInv'
  BY <1>3 DEF BaggageInv, BaggageKept, Carries, Started
<1>4. IsLower(Empty)
  BY DEF IsLower, Empty
<1>5. ASSUME NEW s \in Span, NEW codec \in Codec, Send(s, codec) PROVE BaggageInv'
  <2>1. s \in Started /\ context[s] \in Context
    BY <1>5 DEF Send, TypeOK, Started
  <2>2. PICK r : r = [codec |-> codec, carrier |-> Inject(codec, context[s]),
                      meant |-> Handed(codec, context[s].baggage, meant[s])]
    OBVIOUS
  <2>3. wire' = wire \cup {r}
    BY <1>5, <2>2 DEF Send, Put
  <2>4. ASSUME r.meant # Unknown
        PROVE  r.carrier.baggage = r.meant /\ (r.codec = "text" => IsLower(r.carrier.baggage))
    <3>1. /\ r.meant = meant[s] /\ meant[s] # Unknown
          /\ \/ context[s].baggage = Empty
             \/ CarriesBaggage(codec) /\ (codec = "text" => IsLower(context[s].baggage))
      BY <2>2, <2>4 DEF Handed
    <3>2. context[s].baggage = meant[s]
      BY <2>1, <3>1 DEF BaggageInv, BaggageKept
    <3>3. r.carrier.baggage = IF CarriesBaggage(codec) THEN context[s].baggage ELSE Empty
      BY <2>1, <2>2, InjectType
    <3> QED
      BY <1>4, <2>2, <3>1, <3>2, <3>3
  <2> QED
    BY <1>2, <1>5, <2>3, <2>4 DEF Send, Carries
<1>6. ASSUME NEW form \in Headers, NEW b \in Baggage, NEW debugId \in BOOLEAN,
             ComeFromOutside(form, b, debugId)
      PROVE  BaggageInv'
  <2>1. PICK r : r = [codec |-> form, meant |-> Handed(form, b, b),
                      carrier |-> [trace |-> NoId, id |-> NoId, parent |-> NoId, flags |-> {},
                                   baggage |-> b, debugId |-> debugId]]
    OBVIOUS
  <2>2. wire' = wire \cup {r} /\ r.carrier.baggage = b
    BY <1>6, <2>1 DEF ComeFromOutside, Put
  <2>3. Carries(r)
    BY <1>4, <2>1, <2>2 DEF Carries, Handed
  <2> QED
    BY <1>2, <1>6, <2>2, <2>3 DEF ComeFromOutside
<1>7. ASSUME NEW m \in wire, AddDebugId(m) PROVE BaggageInv'
  <2>1. PICK r : r = [m EXCEPT !.carrier.debugId = TRUE]
    OBVIOUS
  <2>2. m \in Request
    BY DEF TypeOK
  <2>3. r.carrier.baggage = m.carrier.baggage /\ r.meant = m.meant /\ r.codec = m.codec
    BY <2>1, <2>2 DEF Request, Context
  <2>4. Carries(r)
    BY <2>3 DEF BaggageInv, Carries
  <2>5. wire' \subseteq wire \cup {r}
    BY <1>7, <2>1 DEF AddDebugId
  <2> QED
    BY <1>2, <1>7, <2>4, <2>5 DEF AddDebugId
<1>8. ASSUME NEW s \in Started, NEW k \in Key, NEW v \in Value \cup {NoValue}, SetBaggageItem(s, k, v)
      PROVE  BaggageInv'
  <2> DEFINE new == [context[s] EXCEPT !.baggage = [@ EXCEPT ![k] = v]]
  <2>1. s \in Span /\ context[s] \in Context
    BY DEF TypeOK, Started
  <2>2. new # NoContext /\ new.baggage = [context[s].baggage EXCEPT ![k] = v]
    BY <2>1, PropagationAssumption DEF Context, Baggage
  <2>3. context' = [context EXCEPT ![s] = new] /\ wire' = wire
    BY <1>8 DEF SetBaggageItem
  <2> HIDE DEF new
  <2>4. ASSUME NEW t \in Started', meant'[t] # Unknown PROVE context'[t].baggage = meant'[t]
    <3>1. CASE t = s
      <4>1. meant[s] # Unknown
        BY <1>8, <2>4, <3>1 DEF SetBaggageItem
      <4>2. meant'[s] = [meant[s] EXCEPT ![k] = v]
        BY <1>8, <2>1, <4>1 DEF SetBaggageItem, TypeOK
      <4>3. context[s].baggage = meant[s]
        BY <4>1 DEF BaggageInv, BaggageKept
      <4> QED
        BY <2>1, <2>2, <2>3, <3>1, <4>2, <4>3 DEF TypeOK
    <3>2. CASE t # s
      <4>1. context'[t] = context[t] /\ t \in Started
        BY <2>3, <2>4, <3>2 DEF Started, TypeOK
      <4>2. meant'[t] = meant[t]
        BY <1>8, <3>2, <4>1 DEF SetBaggageItem, TypeOK, Started
      <4> QED
        BY <2>4, <4>1, <4>2 DEF BaggageInv, BaggageKept
    <3> QED
      BY <3>1, <3>2
  <2> QED
    BY <2>3, <2>4 DEF BaggageInv, BaggageKept, Carries
<1>9. ASSUME NEW s \in Started, NEW flags, SetPriority(s, flags) PROVE BaggageInv'
  <2>1. \A t \in Started' : t \in Started /\ context'[t].baggage = context[t].baggage
    BY <1>9 DEF SetPriority, TypeOK, Started, Context
  <2> QED
    BY <1>9, <2>1 DEF SetPriority, BaggageInv, BaggageKept, Carries
<1>10. CASE \E m \in wire : Lose(m)
  BY <1>3, <1>10 DEF Lose
<1>11. CASE UNCHANGED vars
  BY <1>3, <1>11 DEF vars
<1> QED
  BY <1>1, <1>5, <1>6, <1>7, <1>8, <1>9, <1>10, <1>11, StartOrSendSteps DEF Next, Tag

\* Baggage is handed on whole by the codecs that carry it, for any number of spans, keys and
\* requests: a span has what was set where it comes from, unless some key was not in lower case.
THEOREM BaggageAlwaysKept == Spec => []BaggageKept
<1>1. Init => BaggageInv
  BY DEF Init, Started, BaggageInv, BaggageKept
<1>2. BaggageInv => BaggageKept
  BY DEF BaggageInv
<1> QED
  BY <1>1, <1>2, AlwaysPlaced, StepBaggage, TypeCorrect, PTL DEF Spec
=============================================================================
