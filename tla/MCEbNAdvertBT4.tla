--------------------------- MODULE MCEbNAdvertBT4 ---------------------------
(* Instantiates EbNAdvertBT4 for TLC with scaled-down BT4 parameters.     *)
EXTENDS EbNAdvertBT4

\* the run stops after this many ticks (about three sender epochs)
MAX_TICKS == 14

TimeBound == now <= MAX_TICKS
=============================================================================
