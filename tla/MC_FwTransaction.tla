-------------------------- MODULE MC_FwTransaction --------------------------
(* Instances of FwTransaction for TLC.                                     *)
EXTENDS FwTransaction

Machines == {[smp |-> FALSE], [smp |-> TRUE]}
============================================================================
