---------------------------- MODULE MCLifecycle ----------------------------
(* Lifecycle on a small instance. *)
EXTENDS Lifecycle

\* The example of the README: a const sampler and logging.
Plain ==
  [validate |-> TRUE, unexpected |-> FALSE, named |-> TRUE, sampler |-> "const", goodParam |-> TRUE,
   queueSize |-> 100, batchSize |-> 10, logging |-> "true", throttler |-> FALSE, tagsParse |-> TRUE,
   metrics |-> "shared"]

Remote ==
  [Plain EXCEPT !.validate = FALSE, !.unexpected = TRUE, !.sampler = "none", !.logging = "other", !.throttler = TRUE, !.metrics = "none"]

Bare == [Plain EXCEPT !.logging = "absent", !.metrics = "none"]

\* These, one with a factory of its own, and each way to raise.
MCSetting ==
  {Plain, Remote, [Remote EXCEPT !.logging = "1", !.metrics = "own"],
   [Bare EXCEPT !.unexpected = TRUE], [Bare EXCEPT !.named = FALSE], [Bare EXCEPT !.sampler = "other"],
   [Bare EXCEPT !.sampler = "ratelimiting", !.goodParam = FALSE],
   [Bare EXCEPT !.sampler = "none", !.queueSize = 5], [Bare EXCEPT !.batchSize = NotAnInt], [Bare EXCEPT !.tagsParse = FALSE]}
=============================================================================
