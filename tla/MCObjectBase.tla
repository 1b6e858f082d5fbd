---------------------------- MODULE MCObjectBase ----------------------------
(* ObjectBase with model values for objects, wrappers and threads. *)
EXTENDS ObjectBase, TLC

\* Objects, wrappers and threads are interchangeable.
Symmetry ==
  Permutations(Objects) \cup Permutations(HeapWrappers) \cup Permutations(Variables)
    \cup Permutations(Threads)

=============================================================================
