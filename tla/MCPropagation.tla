--------------------------- MODULE MCPropagation ---------------------------
(* Propagation on small instances: spans are model values. *)
EXTENDS Propagation, TLC

Symmetry == Permutations(Span)

\* Keys "a" and "A".
Lower == [k \in Key |-> "a"]
=============================================================================
