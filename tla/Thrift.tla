------------------------------- MODULE Thrift -------------------------------
(***************************************************************************)
(* jaeger_client.thrift, which makes thrift structures of spans, and the   *)
(* structures generated from jaeger.thrift and agent.thrift, which write   *)
(* themselves and read themselves back.                                    *)
(*                                                                         *)
(* A structure is a record whose fields are None or Some(value).  Written  *)
(* it is a function from the ids of the fields that are set to their types *)
(* and values: a field that is None is not written, and the reader skips a *)
(* field that it does not know or that has another type.  Text is a        *)
(* sequence of characters; how a protocol lays out a value is left out,    *)
(* but not the width of integers: the compact protocol refuses to write an *)
(* integer that the type of its field cannot hold.                         *)
(***************************************************************************)
EXTENDS Integers, Sequences

CONSTANTS
  Half,     \* 2^63: i64 holds -Half .. Half - 1
  HalfI32,  \* 2^31
  Tick      \* the fractions of a microsecond that a float time tells apart

ASSUME ThriftAssumption ==
  /\ Half \in Nat /\ HalfI32 \in Nat /\ 4 <= HalfI32 /\ HalfI32 <= Half
  /\ Tick \in Nat \ {0}

None == <<>>
Some(value) == <<value>>
The(option) == option[1]

-----------------------------------------------------------------------------
(* Ids. *)

MaxUnsignedId == 2 * Half

IdToLow(id)  == id % MaxUnsignedId

\* Mutant: the id is masked without the shift.
IdToHigh_NotShifted(id) == id % MaxUnsignedId

IdToHigh(id) == (id \div MaxUnsignedId) % MaxUnsignedId

\* Mutant: 2^63 itself is taken for a number that an i64 holds.
IdToInt_OffByOne(id) == IF id > Half THEN id - MaxUnsignedId ELSE id

\* An i64 is signed: large ids become negative.
IdToInt(id) == IF id > Half - 1 THEN id - MaxUnsignedId ELSE id

-----------------------------------------------------------------------------
(* Tags, logs, references: what make_tag and its like return. *)

TagType == [STRING |-> 0, DOUBLE |-> 1, BOOL |-> 2, LONG |-> 3, BINARY |-> 4]
SpanRefType == [CHILD_OF |-> 0, FOLLOWS_FROM |-> 1]

Truncate(text, length) == IF Len(text) > length THEN SubSeq(text, 1, length) ELSE text

\* ttypes.Tag(key, vType), to which each make function adds one value.
NewTag(key, type) ==
  [key |-> Some(key), vType |-> Some(type), vStr |-> None, vDouble |-> None, vBool |-> None, vLong |-> None, vBinary |-> None]

MakeTracebackTag(key, value, length) == [NewTag(key, TagType.STRING) EXCEPT !.vStr = Some(Truncate(value, length))]
MakeStringTag(key, value, length)    == [NewTag(key, TagType.STRING) EXCEPT !.vStr = Some(Truncate(value, length))]
MakeLongTag(key, value)              == [NewTag(key, TagType.LONG) EXCEPT !.vLong = Some(value)]
MakeDoubleTag(key, value)            == [NewTag(key, TagType.DOUBLE) EXCEPT !.vDouble = Some(value)]
MakeBoolTag(key, value)              == [NewTag(key, TagType.BOOL) EXCEPT !.vBool = Some(value)]

\* A value the application gives a tag: its Python type, and for a "traceback" and any
\* "other" object what str or format_tb makes of it.
IsInt(value) == value.type \in {"int", "bool"}  \* a bool is an instance of int

MakeTag(key, value, length, tracebackLength) ==
  CASE value.type = "bool"                       -> MakeBoolTag(key, value.is)
    [] value.type # "bool" /\ IsInt(value)       -> MakeLongTag(key, value.is)
    [] value.type = "float"                      -> MakeDoubleTag(key, value.is)
    [] value.type = "traceback"                  -> MakeTracebackTag(key, value.is, tracebackLength)
    [] value.type = "other"                      -> MakeStringTag(key, value.is, length)

MakeTags(tags, length, tracebackLength) ==
  [i \in DOMAIN tags |-> MakeTag(tags[i].key, tags[i].value, length, tracebackLength)]

\* int(ts * 1000000): towards zero, also for the duration of a clock set back.
TimestampMicros(ts) == IF ts >= 0 THEN ts \div Tick ELSE -((-ts) \div Tick)

MakeLog(log, length, tracebackLength) ==
  [timestamp |-> Some(TimestampMicros(log.time)),
   fields    |-> Some(MakeTags(log.fields, length, tracebackLength))]

MakeProcess(serviceName, tags, length, tracebackLength) ==
  [serviceName |-> Some(serviceName), tags |-> Some(MakeTags(tags, length, tracebackLength))]

MakeRefType(type) == IF type = "FOLLOWS_FROM" THEN SpanRefType.FOLLOWS_FROM ELSE SpanRefType.CHILD_OF

MakeReference(ref) ==
  [refType     |-> Some(MakeRefType(ref.type)),
   traceIdLow  |-> Some(IdToInt(IdToLow(ref.traceId))),
   traceIdHigh |-> Some(IdToInt(IdToHigh(ref.traceId))),
   spanId      |-> Some(IdToInt(ref.spanId))]

MakeReferences(references) ==
  IF references = <<>> THEN None ELSE Some([i \in DOMAIN references |-> MakeReference(references[i])])

-----------------------------------------------------------------------------
(* make_jaeger_batch. *)

\* id_to_int(span.parent_id) or 0
ParentSpanId(span) == IF span.parentId = None THEN 0 ELSE IdToInt(The(span.parentId))

\* The tags and logs of a span are made when they are set, not here.
MakeJaegerSpan(span) ==
  [traceIdLow    |-> Some(IdToInt(IdToLow(span.traceId))),
   traceIdHigh   |-> Some(IdToInt(IdToHigh(span.traceId))),
   spanId        |-> Some(IdToInt(span.spanId)),
   parentSpanId  |-> Some(ParentSpanId(span)),
   operationName |-> Some(span.operationName),
   references    |-> MakeReferences(span.references),
   flags         |-> Some(span.flags),
   startTime     |-> Some(TimestampMicros(span.startTime)),
   duration      |-> Some(TimestampMicros(span.endTime - span.startTime)),
   tags          |-> Some(span.tags),
   logs          |-> Some(span.logs)]

\* It raises when a time that the application gave is not a number.
CanMake(spans) == \A i \in DOMAIN spans : spans[i].timed

MakeJaegerBatch(spans, process) ==
  [process |-> Some(process), spans |-> Some([i \in DOMAIN spans |-> MakeJaegerSpan(spans[i])])]

-----------------------------------------------------------------------------
(* Writing and reading. *)

Field(type, value) == [type |-> type, is |-> value]

Struct(fields) == [i \in {j \in DOMAIN fields : fields[j].is # None} |-> fields[i]]

Get(wire, id, type) == IF id \in DOMAIN wire /\ wire[id].type = type THEN wire[id].is ELSE None

OneOf(Op(_), struct) == IF struct = None THEN None ELSE Some(Op(The(struct)))
ListOf(Op(_), list)  == IF list = None THEN None ELSE Some([i \in DOMAIN The(list) |-> Op(The(list)[i])])

WriteTag(tag) == Struct(
  <<Field("STRING", tag.key), Field("I32", tag.vType), Field("STRING", tag.vStr), Field("DOUBLE", tag.vDouble),
    Field("BOOL", tag.vBool), Field("I64", tag.vLong), Field("STRING", tag.vBinary)>>)

ReadTag(wire) ==
  [key |-> Get(wire, 1, "STRING"), vType |-> Get(wire, 2, "I32"), vStr |-> Get(wire, 3, "STRING"),
   vDouble |-> Get(wire, 4, "DOUBLE"), vBool |-> Get(wire, 5, "BOOL"), vLong |-> Get(wire, 6, "I64"),
   vBinary |-> Get(wire, 7, "STRING")]

WriteLog(log) == Struct(<<Field("I64", log.timestamp), Field("LIST", ListOf(WriteTag, log.fields))>>)

ReadLog(wire) == [timestamp |-> Get(wire, 1, "I64"), fields |-> ListOf(ReadTag, Get(wire, 2, "LIST"))]

WriteSpanRef(ref) == Struct(
  <<Field("I32", ref.refType), Field("I64", ref.traceIdLow), Field("I64", ref.traceIdHigh), Field("I64", ref.spanId)>>)

ReadSpanRef(wire) ==
  [refType |-> Get(wire, 1, "I32"), traceIdLow |-> Get(wire, 2, "I64"), traceIdHigh |-> Get(wire, 3, "I64"),
   spanId |-> Get(wire, 4, "I64")]

WriteSpan(span) == Struct(
  <<Field("I64", span.traceIdLow), Field("I64", span.traceIdHigh), Field("I64", span.spanId),
    Field("I64", span.parentSpanId), Field("STRING", span.operationName),
    Field("LIST", ListOf(WriteSpanRef, span.references)), Field("I32", span.flags), Field("I64", span.startTime),
    Field("I64", span.duration), Field("LIST", ListOf(WriteTag, span.tags)), Field("LIST", ListOf(WriteLog, span.logs))>>)

ReadSpan(wire) ==
  [traceIdLow |-> Get(wire, 1, "I64"), traceIdHigh |-> Get(wire, 2, "I64"), spanId |-> Get(wire, 3, "I64"),
   parentSpanId |-> Get(wire, 4, "I64"), operationName |-> Get(wire, 5, "STRING"),
   references |-> ListOf(ReadSpanRef, Get(wire, 6, "LIST")), flags |-> Get(wire, 7, "I32"),
   startTime |-> Get(wire, 8, "I64"), duration |-> Get(wire, 9, "I64"),
   tags |-> ListOf(ReadTag, Get(wire, 10, "LIST")), logs |-> ListOf(ReadLog, Get(wire, 11, "LIST"))]

WriteProcess(process) == Struct(<<Field("STRING", process.serviceName), Field("LIST", ListOf(WriteTag, process.tags))>>)

ReadProcess(wire) == [serviceName |-> Get(wire, 1, "STRING"), tags |-> ListOf(ReadTag, Get(wire, 2, "LIST"))]

WriteBatch(batch) == Struct(<<Field("STRUCT", OneOf(WriteProcess, batch.process)), Field("LIST", ListOf(WriteSpan, batch.spans))>>)

ReadBatch(wire) ==
  [process |-> OneOf(ReadProcess, Get(wire, 1, "STRUCT")), spans |-> ListOf(ReadSpan, Get(wire, 2, "LIST"))]

\* The arguments of the call emitBatch.
WriteArgs(args) == Struct(<<Field("STRUCT", OneOf(WriteBatch, args.batch))>>)
ReadArgs(wire)  == [batch |-> OneOf(ReadBatch, Get(wire, 1, "STRUCT"))]

-----------------------------------------------------------------------------
(* What the compact protocol can write: it raises at the first integer out of range. *)

IntegersFit(wire) ==
  \A id \in DOMAIN wire :
    /\ wire[id].type = "I64" => The(wire[id].is) \in -Half .. Half - 1
    /\ wire[id].type = "I32" => The(wire[id].is) \in -HalfI32 .. HalfI32 - 1

ListFits(Fits(_), list) == list # None => \A i \in DOMAIN The(list) : Fits(The(list)[i])

LogFits(wire) == IntegersFit(wire) /\ ListFits(IntegersFit, Get(wire, 2, "LIST"))

SpanFits(wire) ==
  /\ IntegersFit(wire)
  /\ ListFits(IntegersFit, Get(wire, 6, "LIST"))
  /\ ListFits(IntegersFit, Get(wire, 10, "LIST"))
  /\ ListFits(LogFits, Get(wire, 11, "LIST"))

BatchFits(wire) ==
  /\ ListFits(IntegersFit, Get(The(Get(wire, 1, "STRUCT")), 2, "LIST"))
  /\ ListFits(SpanFits, Get(wire, 2, "LIST"))

\* Can the arguments of emitBatch be written to their end?
Writable(wire) == BatchFits(The(Get(wire, 1, "STRUCT")))
=============================================================================
