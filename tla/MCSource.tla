------------------------------ MODULE MCSource ------------------------------
(* Source with model values for sources, nodes and threads. *)
EXTENDS Source, TLC

\* Sources, nodes and the other threads are interchangeable; the loop is not.
Symmetry == Permutations(Sources) \cup Permutations(Nodes) \cup Permutations(Others)

=============================================================================
