------------------------- MODULE MC_DiceStreaming -------------------------
(* Instances of DiceStreaming for TLC.                                     *)
EXTENDS DiceStreaming

Serial == [streams |-> 2, overlap |-> FALSE, ticks |-> TRUE, delay |-> TRUE,
           faults |-> {"write", "enable"}, resets |-> FALSE]
Overlap == [Serial EXCEPT !.streams = 1, !.overlap = TRUE, !.faults = {}]
Refused == [Overlap EXCEPT !.ticks = FALSE, !.faults = {"enable"}]
OneStream == [Serial EXCEPT !.streams = 1, !.delay = FALSE, !.faults = {"write"},
                            !.resets = TRUE]

Uses == {Serial, Overlap, Refused, OneStream}
============================================================================
