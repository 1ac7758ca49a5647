------------------------- MODULE MC_Dg00xStreaming -------------------------
(* Instances of Dg00xStreaming for TLC.                                    *)
EXTENDS Dg00xStreaming

PlaybackOnly == {"pb"}
Duplex       == {"pb", "cap"}
NoFaults     == {}
FwFaults     == {"fw"}
OpenFaults   == {"nochan", "nomem"}
AllFaults    == FaultKinds
=============================================================================
