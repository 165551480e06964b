----------------------------- MODULE MCReporter -----------------------------
(* Reporter on small instances: spans and closers are model values. *)
EXTENDS Reporter, TLC

CONSTANTS
  s1, s2, s3, s4,  \* the spans, in the order in which they are reported
  c1, c2           \* the calls of close(), in their order

\* Spans, and calls of close(), are interchangeable in every definition: it is enough to
\* check the behaviours in which they come in one order.  (A SYMMETRY set would do the same
\* for invariants, but is not sound for liveness.)
InOrder ==
  /\ \A i, j \in 1 .. 4 : i < j /\ outcome[<<s1, s2, s3, s4>>[j]] # "new" => outcome[<<s1, s2, s3, s4>>[i]] # "new"
  /\ closing[c2] # "open" => closing[c1] # "open"
=============================================================================
