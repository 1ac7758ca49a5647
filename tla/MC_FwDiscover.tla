---------------------------- MODULE MC_FwDiscover ----------------------------
(* Instances of FwDiscover for TLC.                                        *)
EXTENDS FwDiscover

InitFails == {"init"}
=============================================================================
