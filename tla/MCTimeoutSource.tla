--------------------------- MODULE MCTimeoutSource ---------------------------
(* TimeoutSource with two units to the millisecond and a small clock. *)
EXTENDS TimeoutSource

MCIntervals == 0..3

=============================================================================
