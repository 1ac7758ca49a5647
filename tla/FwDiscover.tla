------------------------------ MODULE FwDiscover ------------------------------
(***************************************************************************)
(* How a FireWire driver finds its device: attach, post_busreset,          *)
(* post_explore, discover and detach of digi00x_bsd.c (dice_bsd.c has the  *)
(* same functions).  attach looks at the bus once.  After that discover is *)
(* run by the bus's probe thread (post_explore) and by softclock (a        *)
(* callout that discover re-arms until a card exists, and post_busreset    *)
(* re-arms from the interrupt).  sc->attached and sc->fwdev are read and   *)
(* written without a lock, sc->discovering is the re-entry guard.          *)
(***************************************************************************)
EXTENDS Integers

CONSTANTS
    Faults,     \* what the surroundings do wrong, see FaultKinds
    MaxCards    \* bound: no card is created beyond this number

(***************************************************************************)
(*   init   dg00x_init_card fails                                          *)
(*   stall  a thread is suspended for a whole second between two           *)
(*          statements of discover                                         *)
(***************************************************************************)
FaultKinds == {"init", "stall"}

ASSUME FaultsAssumption   == Faults \subseteq FaultKinds
ASSUME MaxCardsAssumption == MaxCards \in Nat \ {0}

Procs == {"probe", "callout"}

VARIABLES
    drv,          \* the newbus state: "new", "up", "drained", "gone", "failed"
    attached,     \* sc->attached
    fwdev,        \* sc->fwdev # NULL
    discovering,  \* sc->discovering
    co,           \* discover_callout: "off" or "armed"
    pc,           \* pc[p]: where thread p is in discover
    cards,        \* sound cards that exist
    mine,         \* sc->dg00x # NULL
    bus,          \* the device on the bus: "absent", "init", "attached"
    explore       \* the bus has yet to be explored after a reset

card == <<cards, mine>>
wire == <<bus, explore>>
vars == <<drv, attached, fwdev, discovering, co, pc, card, wire>>

Goto(p, label) == pc' = [pc EXCEPT ![p] = label]

-----------------------------------------------------------------------------
Init ==
    /\ drv = "new"
    /\ attached = FALSE /\ fwdev = FALSE /\ discovering = FALSE
    /\ co = "off"
    /\ pc = [p \in Procs |-> "idle"]
    /\ cards = 0 /\ mine = FALSE
    /\ bus \in {"absent", "init", "attached"}
    /\ explore = (bus = "init")

\* dg00x_init_card: what its exits leave behind.
CardCreated ==
    /\ cards < MaxCards
    /\ cards' = cards + 1
    /\ mine' = TRUE
    /\ attached' = TRUE

\* snd_card_new fails before sc->dg00x is touched; any later failure frees
\* the card and clears it.
CardFailed ==
    /\ "init" \in Faults
    /\ mine' \in {mine, FALSE}
    /\ UNCHANGED <<cards, attached>>

-----------------------------------------------------------------------------
(* newbus: attach and detach                                               *)

\* dg00x_attach: the bus calls back only once it has returned.  A device that
\* is not FWDEVATTACHED is left to the callout.
Attach ==
    /\ drv = "new"
    /\ IF bus = "attached"
       THEN /\ fwdev' = TRUE
            /\ UNCHANGED co
            /\ \/ CardCreated /\ drv' = "up"
               \/ CardFailed /\ drv' = "failed"
       ELSE /\ co' = "armed"
            /\ drv' = "up"
            /\ UNCHANGED <<attached, fwdev, card>>
    /\ UNCHANGED <<discovering, pc, wire>>

\* dg00x_detach: callout_drain waits for a running handler, nothing waits for
\* the probe thread.
DetachDrain ==
    /\ drv = "up"
    /\ pc["callout"] = "idle"
    /\ co' = "off"
    /\ drv' = "drained"
    /\ UNCHANGED <<attached, fwdev, discovering, pc, card, wire>>

\* ... then the card of sc->dg00x is freed.
DetachFree ==
    /\ drv = "drained"
    /\ cards' = IF mine THEN cards - 1 ELSE cards
    /\ mine' = FALSE
    /\ attached' = FALSE
    /\ drv' = "gone"
    /\ UNCHANGED <<fwdev, discovering, co, pc, wire>>

-----------------------------------------------------------------------------
(* The FireWire bus                                                        *)

\* The bus calls a child back until its detach method has returned.
CallsBack == drv \in {"up", "drained"}

\* A bus reset: the device comes, stays or goes, and dg00x_post_busreset.
BusReset ==
    /\ drv = "new" \/ CallsBack
    /\ bus' \in {"absent", "init"}
    /\ explore' = TRUE
    /\ co' = IF CallsBack /\ ~attached /\ ~fwdev THEN "armed" ELSE co
    /\ UNCHANGED <<drv, attached, fwdev, discovering, pc, card>>

\* The probe thread explores the bus, then dg00x_post_explore.
BusExplored ==
    /\ explore /\ pc["probe"] = "idle"
    /\ drv = "new" \/ CallsBack
    /\ explore' = FALSE
    /\ bus' = IF bus = "init" THEN "attached" ELSE bus
    /\ IF CallsBack THEN Goto("probe", "enter") ELSE UNCHANGED pc
    /\ UNCHANGED <<drv, attached, fwdev, discovering, co, card>>

\* The callout fires one second after it was armed: not before the thread
\* that armed it has taken its next step, unless that thread stalls.
CalloutFire ==
    /\ co = "armed" /\ pc["callout"] = "idle"
    /\ pc["probe"] # "armed" \/ "stall" \in Faults
    /\ co' = "off"
    /\ Goto("callout", "enter")
    /\ UNCHANGED <<drv, attached, fwdev, discovering, card, wire>>

-----------------------------------------------------------------------------
(* dg00x_discover                                                          *)

\* Is there a card, or a match, already?
Enter(p) ==
    /\ pc[p] = "enter"
    /\ Goto(p, IF attached \/ fwdev THEN "idle" ELSE "guard")
    /\ UNCHANGED <<drv, attached, fwdev, discovering, co, card, wire>>

\* Mutation: a test and a set in place of atomic_cmpset_int.
GuardUnset(p) ==
    /\ pc[p] = "guard"
    /\ Goto(p, IF discovering THEN "idle" ELSE "scan")
    /\ UNCHANGED <<drv, attached, fwdev, discovering, co, card, wire>>

\* atomic_cmpset_int(&sc->discovering, 0, 1)
Guard(p) ==
    /\ pc[p] = "guard"
    /\ Goto(p, IF discovering THEN "idle" ELSE "scan")
    /\ discovering' = TRUE
    /\ UNCHANGED <<drv, attached, fwdev, co, card, wire>>

\* Mutation: an absent device ends the retries.
ScanOnce(p) ==
    /\ pc[p] = "scan"
    /\ \/ bus # "absent" /\ Goto(p, "match")
       \/ bus # "attached" /\ Goto(p, IF bus = "absent" THEN "armed" ELSE "rearm")
    /\ UNCHANGED <<drv, attached, fwdev, discovering, co, card, wire>>

\* The device list is searched under FW_GLOCK.  FWDEVINIT will do if the ROM
\* read so far matches.
Scan(p) ==
    /\ pc[p] = "scan"
    /\ \/ bus # "absent" /\ Goto(p, "match")
       \/ bus # "attached" /\ Goto(p, "rearm")
    /\ UNCHANGED <<drv, attached, fwdev, discovering, co, card, wire>>

Match(p) ==
    /\ pc[p] = "match"
    /\ fwdev' = TRUE
    /\ Goto(p, "init")
    /\ UNCHANGED <<drv, attached, discovering, co, card, wire>>

InitCard(p) ==
    /\ pc[p] = "init"
    /\ \/ CardCreated /\ Goto(p, "done")
       \/ CardFailed /\ Goto(p, "drop")
    /\ UNCHANGED <<drv, fwdev, discovering, co, wire>>

\* Mutation: the failed match is kept.
KeepMatch(p) ==
    /\ pc[p] = "drop"
    /\ Goto(p, "rearm")
    /\ UNCHANGED <<drv, attached, fwdev, discovering, co, card, wire>>

\* The failed match is dropped ...
DropMatch(p) ==
    /\ pc[p] = "drop"
    /\ fwdev' = FALSE
    /\ Goto(p, "rearm")
    /\ UNCHANGED <<drv, attached, discovering, co, card, wire>>

\* ... and, as when there was none, discover is to run again in a second.
Rearm(p) ==
    /\ pc[p] = "rearm"
    /\ co' = "armed"
    /\ Goto(p, "armed")
    /\ UNCHANGED <<drv, attached, fwdev, discovering, card, wire>>

\* Mutation: the guard is only released after a failure.
LeaveGuarded(p) ==
    /\ pc[p] \in {"armed", "done"}
    /\ discovering' = (pc[p] = "armed")
    /\ Goto(p, "idle")
    /\ UNCHANGED <<drv, attached, fwdev, co, card, wire>>

\* atomic_store_int(&sc->discovering, 0)
Leave(p) ==
    /\ pc[p] \in {"armed", "done"}
    /\ discovering' = FALSE
    /\ Goto(p, "idle")
    /\ UNCHANGED <<drv, attached, fwdev, co, card, wire>>

Discover(p) ==
    \/ Enter(p) \/ Guard(p) \/ Scan(p) \/ Match(p) \/ InitCard(p)
    \/ DropMatch(p) \/ Rearm(p) \/ Leave(p)

Next ==
    \/ Attach \/ DetachDrain \/ DetachFree
    \/ BusReset \/ BusExplored \/ CalloutFire
    \/ \E p \in Procs : Discover(p)

Spec == Init /\ [][Next]_vars

\* Threads run, a reset is followed by an exploration, the callout fires, and
\* a device that is asked again and again does not refuse for ever.
Fairness ==
    /\ WF_vars(Attach)
    /\ WF_vars(BusExplored)
    /\ WF_vars(CalloutFire)
    /\ \A p \in Procs : WF_vars(Discover(p))
    /\ \A p \in Procs : SF_vars(InitCard(p) /\ attached')

FairSpec == Spec /\ Fairness

-----------------------------------------------------------------------------
Guarded == {"scan", "match", "init", "drop", "rearm", "armed", "done"}

\* Type invariant.
TypeOK ==
    /\ drv \in {"new", "up", "drained", "gone", "failed"}
    /\ attached \in BOOLEAN /\ fwdev \in BOOLEAN /\ discovering \in BOOLEAN
    /\ co \in {"off", "armed"}
    /\ pc \in [Procs -> {"idle", "enter", "guard"} \cup Guarded]
    /\ cards \in Nat
    /\ mine \in BOOLEAN
    /\ bus \in {"absent", "init", "attached"}
    /\ explore \in BOOLEAN

(***************************************************************************)
(* The re-entry guard is held exactly while one thread is between          *)
(* atomic_cmpset_int and the store that releases it, and never by two      *)
(* (digi00x_bsd.c:283-286, 316, 332).                                      *)
(***************************************************************************)
OneDiscoverer ==
    /\ discovering <=> \E p \in Procs : pc[p] \in Guarded
    /\ ~ \A p \in Procs : pc[p] \in Guarded

(***************************************************************************)
(* The search never dies: as long as there is no card, the callout is      *)
(* armed or a thread is on its way to find the device or to re-arm it,     *)
(* whatever a loser of the guard has consumed (digi00x_bsd.c:313-315).     *)
(***************************************************************************)
SearchGoesOn ==
    drv = "up" /\ ~attached =>
        \/ co = "armed"
        \/ \E p \in Procs : pc[p] \in Guarded
        \/ ~fwdev /\ \E p \in Procs : pc[p] \in {"enter", "guard"}

(***************************************************************************)
(* A match that produced no card is not remembered: sc->fwdev blocks       *)
(* discover, so it may only be set while a card exists or is being made    *)
(* (digi00x_bsd.c:280, 328).                                               *)
(***************************************************************************)
MatchHasCard ==
    drv = "up" /\ fwdev =>
        attached \/ \E p \in Procs : pc[p] \in {"init", "drop"}

(***************************************************************************)
(* A device that stays on the bus, once resets are over, gets its card     *)
(* however often its initialisation fails before (digi00x_bsd.c:313-314).  *)
(***************************************************************************)
DeviceFound ==
    <>[](drv = "up" /\ bus = "attached") => <>attached
=============================================================================
