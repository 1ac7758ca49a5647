-------------------------- MODULE MC_Line6Stream --------------------------
(* Instances of Line6Stream for TLC.                                       *)
EXTENDS Line6Stream

Plain == [toneport |-> FALSE, overlap |-> TRUE, takeover |-> TRUE, faults |-> TRUE]
TonePort == [toneport |-> TRUE, overlap |-> FALSE, takeover |-> FALSE, faults |-> FALSE]

Uses == {Plain, [Plain EXCEPT !.faults = FALSE], TonePort,
         [TonePort EXCEPT !.faults = TRUE]}
Takeover == {[TonePort EXCEPT !.takeover = TRUE]}
============================================================================
