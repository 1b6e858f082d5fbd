--------------------------- MODULE MCSignalProxy ---------------------------
(* SignalProxy with model values for nodes and exception handlers. *)
EXTENDS SignalProxy

=============================================================================
