------------------------------- MODULE MCSpan -------------------------------
(* Span on small instances: threads and baggage keys are model values. *)
EXTENDS Span
=============================================================================
