------------------------------ MODULE Delivery ------------------------------
(***************************************************************************)
(* How a batch of spans gets to the agent: Reporter._submit makes a thrift *)
(* batch, Agent.Client.emitBatch writes it into LocalAgentSender, a        *)
(* TBufferedTransport, and flushes that into one UDP datagram.  The agent  *)
(* reads a datagram with Agent.Processor.                                  *)
(*                                                                         *)
(* Everything up to sendto happens in one callback of the loop, so that a  *)
(* submission is one action.  It may raise at three places: when the batch *)
(* is made, when it is written, and in sendto; each is counted as a        *)
(* failure.  Datagrams may be lost, repeated and overtaken.                *)
(***************************************************************************)
EXTENDS Thrift

CONSTANTS
  Batch,            \* the sequences of spans that _consume_queue may submit, as the application recorded them
  ServiceName,
  ProcessTags,
  MaxTagLength,
  MaxTracebackLength,
  MaxSubmissions    \* bound: submissions

\* What make_tag tells apart, the fields of a span and the references there are.
TagsGiven(tags) == \A i \in DOMAIN tags : tags[i].value.type \in {"bool", "int", "float", "traceback", "other"}
SpanGiven(span) ==
  /\ {"traceId", "spanId", "parentId", "timed", "operationName", "references", "flags", "startTime", "endTime", "tags", "logs"}
       \subseteq DOMAIN span
  /\ TagsGiven(span.tags) /\ \A i \in DOMAIN span.logs : TagsGiven(span.logs[i].fields)
  /\ \A i \in DOMAIN span.references : span.references[i].type \in {"CHILD_OF", "FOLLOWS_FROM"}

ASSUME DeliveryAssumption ==
  /\ MaxTagLength \in Nat /\ MaxTracebackLength \in Nat /\ MaxSubmissions \in Nat
  /\ TagsGiven(ProcessTags) /\ \A batch \in Batch : \A i \in DOMAIN batch : SpanGiven(batch[i])

VARIABLES
  process,   \* is Reporter._process set?
  buffer,    \* LocalAgentSender: the messages written and not flushed, each whole or cut short
  network,   \* the datagrams on the way, each a sequence of messages
  received,  \* what the agent made of the datagrams it got, under the number of their last message
  submitted  \* history: the spans of each submission, and how it ended

vars == <<process, buffer, network, received, submitted>>

\* A span as it is reported: Span.set_tag and Span.log_kv have made its tags and logs.
Finished(span) ==
  [span EXCEPT !.tags = MakeTags(span.tags, MaxTagLength, MaxTracebackLength),
               !.logs = [i \in DOMAIN span.logs |-> MakeLog(span.logs[i], MaxTagLength, MaxTracebackLength)]]

Spans(batch) == [i \in DOMAIN batch |-> Finished(batch[i])]

TracerProcess == MakeProcess(ServiceName, ProcessTags, MaxTagLength, MaxTracebackLength)

\* The arguments that emitBatch writes behind the header of the message.
Wire(batch) == WriteArgs([batch |-> Some(MakeJaegerBatch(Spans(batch), TracerProcess))])

\* A message of submission n; _seqid, which nobody reads, is left out.
Whole(n, batch) == [number |-> n, whole |-> TRUE, args |-> Wire(batch)]
Cut(n)          == [number |-> n, whole |-> FALSE, args |-> <<>>]

Init ==
  /\ process = FALSE /\ buffer = <<>>
  /\ network = {} /\ received = {} /\ submitted = <<>>

-----------------------------------------------------------------------------
(* The client. *)

\* Tracer.__init__ sets the process of its reporter.
SetProcess ==
  /\ ~process
  /\ process' = TRUE
  /\ UNCHANGED <<buffer, network, received, submitted>>

This == Len(submitted) + 1

Ends(batch, result) == submitted' = Append(submitted, [spans |-> batch, result |-> result])

\* _submit without a process: the spans are gone and nothing is counted.
Unnamed(batch) ==
  /\ ~process
  /\ Ends(batch, "lost")
  /\ UNCHANGED <<buffer, network>>

\* make_jaeger_batch raises: nothing is written.
NotMade(batch) ==
  /\ process /\ ~CanMake(Spans(batch))
  /\ Ends(batch, "unmade")
  /\ UNCHANGED <<buffer, network>>

\* The protocol raises in the middle of the message: flush is not called, and what was
\* written stays in the buffer.
WriteFails(batch) ==
  /\ process /\ CanMake(Spans(batch)) /\ ~Writable(Wire(batch))
  /\ Ends(batch, "cut")
  /\ buffer' = Append(buffer, Cut(This))
  /\ UNCHANGED network

\* Mutant: flush empties the buffer only when sendto has returned.
SendtoFails_Keeps(batch) ==
  /\ process /\ CanMake(Spans(batch)) /\ Writable(Wire(batch))
  /\ Ends(batch, "unsent")
  /\ buffer' = Append(buffer, Whole(This, batch))
  /\ UNCHANGED network

\* flush takes what is in the buffer out of it and then calls sendto, which raises, say
\* because the datagram is too long or the socket has no room.
SendtoFails(batch) ==
  /\ process /\ CanMake(Spans(batch)) /\ Writable(Wire(batch))
  /\ Ends(batch, "unsent")
  /\ buffer' = <<>>
  /\ UNCHANGED network

\* Mutant: flush does not empty the buffer.
Sent_Keeps(batch) ==
  /\ process /\ CanMake(Spans(batch)) /\ Writable(Wire(batch))
  /\ Ends(batch, "ok")
  /\ buffer' = Append(buffer, Whole(This, batch))
  /\ network' = network \cup {Append(buffer, Whole(This, batch))}

\* The datagram holds what was in the buffer, and the message.
Sent(batch) ==
  /\ process /\ CanMake(Spans(batch)) /\ Writable(Wire(batch))
  /\ Ends(batch, "ok")
  /\ buffer' = <<>>
  /\ network' = network \cup {Append(buffer, Whole(This, batch))}

Submit(batch) ==
  /\ Len(submitted) < MaxSubmissions
  /\ Unnamed(batch) \/ NotMade(batch) \/ WriteFails(batch) \/ SendtoFails(batch) \/ Sent(batch)
  /\ UNCHANGED <<process, received>>

-----------------------------------------------------------------------------
(* The network and the agent. *)

\* The agent reads one message from a datagram.  Behind a message that was cut short it
\* takes the bytes of the next one for the rest of the first: that may give anything.
Process(datagram) ==
  [number   |-> datagram[Len(datagram)].number,
   readable |-> Len(datagram) = 1,
   batch    |-> IF Len(datagram) = 1 THEN ReadArgs(datagram[1].args).batch ELSE None]

\* A datagram that has arrived may arrive again.
Deliver(datagram) ==
  /\ received' = received \cup {Process(datagram)}
  /\ UNCHANGED <<process, buffer, network, submitted>>

Lose(datagram) ==
  /\ network' = network \ {datagram}
  /\ UNCHANGED <<process, buffer, received, submitted>>

-----------------------------------------------------------------------------
Next ==
  \/ SetProcess
  \/ \E batch \in Batch : Submit(batch)
  \/ \E datagram \in network : Deliver(datagram) \/ Lose(datagram)

Spec == Init /\ [][Next]_vars

-----------------------------------------------------------------------------
(* Properties. *)

SubmissionType == [spans : Batch, result : {"lost", "unmade", "cut", "unsent", "ok"}]
Sendable == {batch \in Batch : CanMake(Spans(batch)) /\ Writable(Wire(batch))}
Message ==
  {Cut(n) : n \in 1 .. MaxSubmissions} \cup {Whole(n, batch) : n \in 1 .. MaxSubmissions, batch \in Sendable}

\* Type invariant.
TypeOK ==
  /\ process \in BOOLEAN
  /\ buffer \in Seq(Message) /\ network \subseteq Seq(Message) \ {<<>>}
  /\ \A r \in received : r.number \in 1 .. Len(submitted)
  /\ submitted \in Seq(SubmissionType) /\ Len(submitted) <= MaxSubmissions

\* A submission that was counted as failed, or not at all, has no whole message on the wire:
\* its spans are not reported after all, with the spans of a later submission.
FailedNeverSent ==
  \A datagram \in network : \A i \in DOMAIN datagram :
    datagram[i].whole => submitted[datagram[i].number].result = "ok"

\* A batch that was counted as sent is unreadable only if the message before it was cut
\* short.  (The comment of LocalAgentSender says that flush gets called at the end of each
\* batch; after a message that cannot be written it is not.)
GarbledOnlyBehindCut ==
  \A r \in received : ~r.readable =>
    \E n \in 1 .. r.number - 1 :
      submitted[n].result = "cut" /\ \A m \in n + 1 .. r.number - 1 : submitted[m].result = "unmade"

-----------------------------------------------------------------------------
(* What the application recorded, and what an agent understands by what it decodes. *)

Content(tag) ==
  <<tag.key,
    CASE tag.value.type = "bool"      -> <<TagType.BOOL, tag.value.is>>
      [] tag.value.type = "int"       -> <<TagType.LONG, tag.value.is>>
      [] tag.value.type = "float"     -> <<TagType.DOUBLE, tag.value.is>>
      [] tag.value.type = "traceback" -> <<TagType.STRING, Truncate(tag.value.is, MaxTracebackLength)>>
      [] tag.value.type = "other"     -> <<TagType.STRING, Truncate(tag.value.is, MaxTagLength)>> >>

Contents(tags) == [i \in DOMAIN tags |-> Content(tags[i])]

Recorded(span) ==
  [trace      |-> span.traceId,
   id         |-> span.spanId,
   parent     |-> IF span.parentId = None THEN 0 ELSE The(span.parentId),
   references |-> [i \in DOMAIN span.references |->
                    <<span.references[i].traceId, span.references[i].spanId, span.references[i].type>>],
   tags       |-> Contents(span.tags),
   logs       |-> [i \in DOMAIN span.logs |-> Contents(span.logs[i].fields)],
   about      |-> <<span.operationName, span.flags>>]

Unsigned(id) == id % MaxUnsignedId
TraceId(of) == Unsigned(The(of.traceIdHigh)) * MaxUnsignedId + Unsigned(The(of.traceIdLow))

ContentRead(tag) ==
  <<The(tag.key),
    CASE The(tag.vType) = TagType.BOOL   -> <<TagType.BOOL, The(tag.vBool)>>
      [] The(tag.vType) = TagType.LONG   -> <<TagType.LONG, The(tag.vLong)>>
      [] The(tag.vType) = TagType.DOUBLE -> <<TagType.DOUBLE, The(tag.vDouble)>>
      [] The(tag.vType) = TagType.STRING -> <<TagType.STRING, The(tag.vStr)>> >>

ContentsRead(tags) == [i \in DOMAIN The(tags) |-> ContentRead(The(tags)[i])]

ReferenceRead(ref) ==
  <<TraceId(ref), Unsigned(The(ref.spanId)),
    IF The(ref.refType) = SpanRefType.FOLLOWS_FROM THEN "FOLLOWS_FROM" ELSE "CHILD_OF">>

Understood(span) ==
  [trace      |-> TraceId(span),
   id         |-> Unsigned(The(span.spanId)),
   parent     |-> Unsigned(The(span.parentSpanId)),
   references |-> IF span.references = None THEN <<>>
                  ELSE [i \in DOMAIN The(span.references) |-> ReferenceRead(The(span.references)[i])],
   tags       |-> ContentsRead(span.tags),
   logs       |-> [i \in DOMAIN The(span.logs) |-> ContentsRead(The(span.logs)[i].fields)],
   about      |-> <<The(span.operationName), The(span.flags)>>]

\* A carrier may bring ids of more bits than there are fields for; of those nothing is promised.
Id    == 0 .. MaxUnsignedId - 1
Trace == 0 .. MaxUnsignedId * MaxUnsignedId - 1
InRange(span) ==
  /\ span.traceId \in Trace /\ span.spanId \in Id
  /\ span.parentId # None => The(span.parentId) \in Id
  /\ \A i \in DOMAIN span.references :
       span.references[i].traceId \in Trace /\ span.references[i].spanId \in Id

\* Whatever agent reads one message reads what the application recorded: ids of 64 and 128
\* bits, no parent, tags with their types, references and logs, through the signed fields, the
\* fields that are left out, the buffer and the network; all the spans, in order, and the process.
DecodedAsRecorded ==
  \A r \in received : r.readable =>
    LET spans == submitted[r.number].spans
        read  == The(The(r.batch).spans)
    IN  /\ ContentsRead(The(The(r.batch).process).tags) = Contents(ProcessTags)
        /\ DOMAIN read = DOMAIN spans
        /\ \A i \in DOMAIN spans : InRange(spans[i]) => Understood(read[i]) = Recorded(spans[i])

\* Only numbers that no field can hold keep a batch from being written: every id in range, at
\* its edges too, can be.
I64 == -Half .. Half - 1
TagsFit(tags) == \A i \in DOMAIN tags : tags[i].value.type = "int" => tags[i].value.is \in I64
TimesFit(span) == TimestampMicros(span.startTime) \in I64 /\ TimestampMicros(span.endTime - span.startTime) \in I64
CutOnlyOutOfRange ==
  \A n \in DOMAIN submitted : submitted[n].result = "cut" => ~TagsFit(ProcessTags) \/
    \E i \in DOMAIN submitted[n].spans : LET span == submitted[n].spans[i] IN
      \/ ~InRange(span) \/ ~TagsFit(span.tags) \/ ~TimesFit(span) \/ span.flags \notin 0 .. HalfI32 - 1
      \/ \E j \in DOMAIN span.logs : ~TagsFit(span.logs[j].fields) \/ TimestampMicros(span.logs[j].time) \notin I64
=============================================================================
