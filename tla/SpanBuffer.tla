----------------------------- MODULE SpanBuffer -----------------------------
(***************************************************************************)
(* What jaeger_client.reporter.Reporter promises its users: a FIFO buffer  *)
(* of finished spans.  A span is accepted or dropped, once; it may be      *)
(* dropped only when the buffer is closed or more than Capacity spans are  *)
(* in memory ("how many spans we can hold in memory before starting to     *)
(* drop spans"); memory holds a batch beside the queue and nothing more;   *)
(* accepted spans leave in order, at most Batch of them in one submission; *)
(* and what the buffer holds when it is closed is submitted.               *)
(***************************************************************************)
EXTENDS Integers, Sequences

CONSTANTS Span, Capacity, Batch

VARIABLES
  held,       \* the accepted spans that are still in memory, in order
  delivered,  \* the submitted spans, in order
  dropped,
  closed

vars == <<held, delivered, dropped, closed>>

Has(seq, s) == \E i \in 1 .. Len(seq) : seq[i] = s

Init == held = <<>> /\ delivered = <<>> /\ dropped = {} /\ closed = FALSE

Fresh(s) == s \notin dropped /\ ~Has(held, s) /\ ~Has(delivered, s)

Accept(s) ==
  /\ Fresh(s) /\ ~closed
  /\ Len(held) < Capacity + Batch
  /\ held' = Append(held, s)
  /\ UNCHANGED <<delivered, dropped, closed>>

Drop(s) ==
  /\ Fresh(s)
  /\ closed \/ Len(held) > Capacity
  /\ dropped' = dropped \cup {s}
  /\ UNCHANGED <<held, delivered, closed>>

Deliver ==
  \E n \in 1 .. Batch :
    /\ n <= Len(held)
    /\ delivered' = delivered \o SubSeq(held, 1, n)
    /\ held' = SubSeq(held, n + 1, Len(held))
    /\ UNCHANGED <<dropped, closed>>

Shut == closed' = TRUE /\ UNCHANGED <<held, delivered, dropped>>

Next == (\E s \in Span : Accept(s) \/ Drop(s)) \/ Deliver \/ Shut

\* A closed buffer is emptied; an open one may wait for more spans.
Spec == Init /\ [][Next]_vars /\ WF_vars(closed /\ Deliver)
=============================================================================
