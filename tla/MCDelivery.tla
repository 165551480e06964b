----------------------------- MODULE MCDelivery -----------------------------
(* Delivery on a small instance: ids of 3 and 6 bits stand for 64 and 128. *)
EXTENDS Delivery

CONSTANTS a, b, x

Value(type, is) == [type |-> type, is |-> is]
Tagged(type, is) == [key |-> <<a>>, value |-> Value(type, is)]

MCProcessTags == <<Tagged("other", <<a, b>>), Tagged("int", Half - 1)>>

\* A root span with 128-bit trace id and a tag of every type, on each side of every length.
Root ==
  [traceId |-> 61, spanId |-> 7, parentId |-> None, timed |-> TRUE, operationName |-> <<a>>, references |-> <<>>, flags |-> 3,
   startTime |-> 25, endTime |-> 38,
   tags |-> <<Tagged("bool", FALSE), Tagged("int", 0), Tagged("int", -Half), Tagged("float", x),
              Tagged("other", <<a, b, a>>), Tagged("traceback", <<b, b, b, b>>)>>,
   logs |-> <<[time |-> 31, fields |-> <<Tagged("bool", TRUE), Tagged("other", <<>>)>>], [time |-> 32, fields |-> <<>>]>>]

\* A child at the edge of what is signed, whose clock was set back.
Child ==
  [Root EXCEPT !.traceId = 5, !.spanId = Half, !.parentId = Some(Half - 1), !.flags = 1, !.endTime = 12, !.tags = <<>>, !.logs = <<>>,
     !.references = <<[type |-> "FOLLOWS_FROM", traceId |-> 40, spanId |-> 4], [type |-> "CHILD_OF", traceId |-> 5, spanId |-> 3]>>]

\* The parent came in a carrier with an id of more than 64 bits.
Wide    == [Child EXCEPT !.parentId = Some(3 * Half)]  \* that cannot be written
Aliased == [Child EXCEPT !.parentId = Some(2 * Half)]  \* that can

BigTag  == [Child EXCEPT !.tags = <<Tagged("int", Half)>>]
BadTime == [Child EXCEPT !.timed = FALSE]

MCBatch == {<<Root, Child>>, <<Aliased>>, <<Child, Wide>>, <<BigTag>>, <<BadTime, Root>>}
=============================================================================
