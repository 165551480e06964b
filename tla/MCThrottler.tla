---------------------------- MODULE MCThrottler ----------------------------
(* Throttler on small instances: operations and tracers are model values. *)
EXTENDS Throttler

\* Half a credit, and one and a half.
Balances == {1, 3}
=============================================================================
