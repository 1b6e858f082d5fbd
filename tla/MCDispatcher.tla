---------------------------- MODULE MCDispatcher ----------------------------
(* Small instances of Dispatcher for TLC. *)
EXTENDS Dispatcher, TLC

\* The senders, the Impls and the notifiers are interchangeable.
Symmetry == Permutations(Senders) \cup Permutations(Impls) \cup Permutations(Notifiers)
=============================================================================
