--------------------------- MODULE MCRateLimiter ---------------------------
(* RateLimiter on small instances: threads are model values. *)
EXTENDS RateLimiter, TLC

\* One trace in two seconds, two in two and three in two.
Rates == {1, 2, 3}

Symmetry == Permutations(Thread)
=============================================================================
