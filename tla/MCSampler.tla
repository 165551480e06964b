----------------------------- MODULE MCSampler -----------------------------
(* Sampler on small instances: operations and rates are model values. *)
EXTENDS Sampler, SequencesExt

\* Answers with one strategy at most and any defaults, or with two and the same defaults.
Answers ==
  [strategies : SeqOf(Strategy, 1), rate : Rate, lower : Bound]
    \cup [strategies : SeqOf(Strategy, 2), rate : {InitRate}, lower : {1}]

\* Answers with one strategy at most and any default rate.
BadDefaults ==
  [strategies : SeqOf([operation : Operation, rate : ValidRate], 1), rate : Rate, lower : ValidBound]
=============================================================================
