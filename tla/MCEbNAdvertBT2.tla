--------------------------- MODULE MCEbNAdvertBT2 ---------------------------
(* EbNAdvertBT2 with scaled-down BT2 parameters: ADV_N 6 keeps the gap    *)
(* between the duplicate window (ADV_N - 3) and an epoch at what it is in *)
(* the code (3 ticks), and the current-epoch slack at 3.                  *)
EXTENDS EbNAdvertBT2

\* the run stops after this many ticks (three sender epochs)
MAX_TICKS == 18

TimeBound == now <= MAX_TICKS
=============================================================================
