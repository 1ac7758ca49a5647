--------------------------- MODULE FwDiscoverProofs ---------------------------
(***************************************************************************)
(* Theorems about FwDiscover, for every set of faults and every MaxCards:  *)
(* the re-entry guard excludes, a match is not remembered without a card,  *)
(* and, as long as no thread stalls, the search never dies.                *)
(***************************************************************************)
EXTENDS FwDiscover, TLAPS

\* No thread is suspended for a second between two statements.
Punctual == "stall" \notin Faults

\* A thread that has re-armed the callout still finds it armed, and one that
\* has made a card has set sc->attached.
Progress ==
    drv = "up" =>
        /\ \A p \in Procs : pc[p] = "armed" => co = "armed"
        /\ \A p \in Procs : pc[p] = "done" => attached

\* Nothing has happened yet: the bus does not call back before attach returns.
Untouched ==
    drv = "new" =>
        /\ ~attached /\ ~fwdev /\ co = "off"
        /\ \A p \in Procs : pc[p] = "idle"

MatchInv  == Untouched /\ MatchHasCard
SearchInv == Progress /\ SearchGoesOn

-----------------------------------------------------------------------------
(* Attach and DetachFree are the only steps that count cards down or up    *)
(* outside of discover; cards stays a natural number because a card that   *)
(* is freed had been created.                                              *)
CardCounted == mine => cards > 0

(***************************************************************************)
(* Every step keeps the variables in their types.                          *)
(***************************************************************************)
LEMMA TypeNext == TypeOK /\ CardCounted /\ [Next]_vars => TypeOK' /\ CardCounted'
<1> SUFFICES ASSUME TypeOK, CardCounted, [Next]_vars
             PROVE  TypeOK' /\ CardCounted'
  OBVIOUS
<1> USE DEF TypeOK, CardCounted, card, wire, Procs, Guarded, Goto
<1> DEFINE Kept == /\ cards' \in Nat /\ mine' \in BOOLEAN /\ attached' \in BOOLEAN
                   /\ mine' => cards' > 0
<1>a. ASSUME CardCreated PROVE Kept
  BY <1>a DEF CardCreated
<1>b. ASSUME CardFailed PROVE Kept
  <2>1. mine' = mine \/ mine' = FALSE
    BY <1>b DEF CardFailed
  <2>2. cards' = cards /\ attached' = attached
    BY <1>b DEF CardFailed
  <2>3. CASE mine' = mine
    BY <2>2, <2>3
  <2>4. CASE mine' = FALSE
    BY <2>2, <2>4
  <2> QED
    BY <2>1, <2>3, <2>4
<1>1. CASE Attach
  <2>1. Kept
    BY <1>1, <1>a, <1>b DEF Attach
  <2>2. drv' \in {"new", "up", "drained", "gone", "failed"} /\ co' \in {"off", "armed"}
    BY <1>1 DEF Attach
  <2>3. fwdev' \in BOOLEAN
    BY <1>1 DEF Attach
  <2> QED
    BY <1>1, <2>1, <2>2, <2>3 DEF Attach
<1>2. CASE DetachDrain
  BY <1>2 DEF DetachDrain
<1>3. CASE DetachFree
  <2>1. CASE mine
    <3>1. cards' = cards - 1
      BY <1>3, <2>1 DEF DetachFree
    <3>2. cards \in Nat /\ cards > 0
      BY <2>1
    <3>3. cards' \in Nat
      BY <3>1, <3>2
    <3>4. mine' = FALSE /\ attached' = FALSE /\ drv' = "gone"
      BY <1>3 DEF DetachFree
    <3> QED
      BY <1>3, <3>3, <3>4 DEF DetachFree
  <2>2. CASE ~mine
    BY <1>3, <2>2 DEF DetachFree
  <2> QED
    BY <2>1, <2>2
<1>4. CASE BusReset
  BY <1>4 DEF BusReset
<1>5. CASE BusExplored
  BY <1>5 DEF BusExplored
<1>6. CASE CalloutFire
  BY <1>6 DEF CalloutFire
<1>7. ASSUME NEW p \in Procs, Discover(p)
      PROVE  TypeOK' /\ CardCounted'
  <2>1. CASE Enter(p)
    BY <2>1 DEF Enter
  <2>2. CASE Guard(p)
    BY <2>2 DEF Guard
  <2>3. CASE Scan(p)
    BY <2>3 DEF Scan
  <2>4. CASE Match(p)
    BY <2>4 DEF Match
  <2>5. CASE InitCard(p)
    <3>1. Kept
      BY <2>5, <1>a, <1>b DEF InitCard
    <3>2. pc' \in [Procs -> {"idle", "enter", "guard"} \cup Guarded]
      BY <2>5 DEF InitCard
    <3> QED
      BY <2>5, <3>1, <3>2 DEF InitCard
  <2>6. CASE DropMatch(p)
    BY <2>6 DEF DropMatch
  <2>7. CASE Rearm(p)
    BY <2>7 DEF Rearm
  <2>8. CASE Leave(p)
    BY <2>8 DEF Leave
  <2> QED
    BY <1>7, <2>1, <2>2, <2>3, <2>4, <2>5, <2>6, <2>7, <2>8 DEF Discover
<1>8. CASE UNCHANGED vars
  BY <1>8 DEF vars
<1> QED
  BY <1>1, <1>2, <1>3, <1>4, <1>5, <1>6, <1>7, <1>8 DEF Next
-----------------------------------------------------------------------------
(***************************************************************************)
(* Every step keeps the guard held by exactly one thread.                  *)
(***************************************************************************)
LEMMA GuardNext == TypeOK /\ OneDiscoverer /\ [Next]_vars => OneDiscoverer'
<1> SUFFICES ASSUME TypeOK, OneDiscoverer, [Next]_vars
             PROVE  OneDiscoverer'
  OBVIOUS
<1> USE DEF TypeOK, OneDiscoverer, Procs, Guarded, Goto
<1>1. CASE UNCHANGED <<discovering, pc>>
  BY <1>1
<1>2. CASE BusExplored
  BY <1>2 DEF BusExplored
<1>3. CASE CalloutFire
  BY <1>3 DEF CalloutFire
<1>4. ASSUME NEW p \in Procs, Discover(p)
      PROVE  OneDiscoverer'
  <2>1. CASE Enter(p)
    BY <2>1 DEF Enter
  <2>2. CASE Guard(p)
    BY <2>2 DEF Guard
  <2>3. CASE Leave(p)
    BY <2>3 DEF Leave
  <2>4. CASE Scan(p) \/ Match(p) \/ InitCard(p) \/ DropMatch(p) \/ Rearm(p)
    <3>1. \E a, b \in Guarded : pc[p] = a /\ pc' = [pc EXCEPT ![p] = b]
      BY <2>4 DEF Scan, Match, InitCard, DropMatch, Rearm
    <3>2. discovering' = discovering
      BY <2>4 DEF Scan, Match, InitCard, DropMatch, Rearm
    <3> QED
      BY <3>1, <3>2
  <2> QED
    BY <1>4, <2>1, <2>2, <2>3, <2>4 DEF Discover
<1> QED
  BY <1>1, <1>2, <1>3, <1>4
     DEF Next, vars, card, wire, Attach, DetachDrain, DetachFree, BusReset

(***************************************************************************)
(* The type invariant of FwDiscover, and the exclusion its re-entry guard  *)
(* gives, for every fault.                                                 *)
(***************************************************************************)
THEOREM GuardExcludes == Spec => [](TypeOK /\ OneDiscoverer)
<1>1. Init => TypeOK /\ CardCounted /\ OneDiscoverer
  <2> SUFFICES ASSUME Init
               PROVE  TypeOK /\ CardCounted /\ OneDiscoverer
    OBVIOUS
  <2>1. explore \in BOOLEAN
    BY DEF Init
  <2>2. cards \in Nat /\ mine = FALSE
    BY DEF Init
  <2>3. TypeOK
    BY <2>1, <2>2 DEF Init, TypeOK
  <2>4. OneDiscoverer
    BY DEF Init, OneDiscoverer, Procs, Guarded
  <2> QED
    BY <2>2, <2>3, <2>4 DEF CardCounted
<1>2. TypeOK /\ CardCounted /\ OneDiscoverer /\ [Next]_vars
      => (TypeOK /\ CardCounted /\ OneDiscoverer)'
  BY TypeNext, GuardNext
<1> QED
  BY <1>1, <1>2, PTL DEF Spec

-----------------------------------------------------------------------------
(***************************************************************************)
(* Every step keeps a match tied to a card.                                *)
(***************************************************************************)
LEMMA MatchNext ==
    TypeOK /\ OneDiscoverer /\ MatchInv /\ [Next]_vars => MatchInv'
<1> SUFFICES ASSUME TypeOK, OneDiscoverer, MatchInv, [Next]_vars
             PROVE  MatchInv'
  OBVIOUS
<1> USE DEF TypeOK, OneDiscoverer, MatchInv, Untouched, MatchHasCard, Procs,
            Guarded, Goto
<1>a. CardCreated => attached'
  BY DEF CardCreated
<1>b. CardFailed => attached' = attached
  BY DEF CardFailed
<1>1. CASE Attach
  BY <1>1, <1>a, <1>b DEF Attach
<1>2. CASE DetachDrain
  BY <1>2 DEF DetachDrain
<1>3. CASE DetachFree
  BY <1>3 DEF DetachFree
<1>4. CASE BusReset
  BY <1>4 DEF BusReset, CallsBack
<1>5. CASE BusExplored
  BY <1>5 DEF BusExplored, CallsBack
<1>6. CASE CalloutFire
  BY <1>6 DEF CalloutFire
<1>7. ASSUME NEW p \in Procs, Discover(p)
      PROVE  MatchInv'
  <2>1. CASE Enter(p)
    BY <2>1 DEF Enter
  <2>2. CASE Guard(p)
    BY <2>2 DEF Guard
  <2>3. CASE Scan(p)
    BY <2>3 DEF Scan
  <2>4. CASE Match(p)
    BY <2>4 DEF Match
  <2>5. CASE InitCard(p)
    BY <2>5, <1>a, <1>b DEF InitCard
  <2>6. CASE DropMatch(p)
    BY <2>6 DEF DropMatch
  <2>7. CASE Rearm(p)
    BY <2>7 DEF Rearm
  <2>8. CASE Leave(p)
    BY <2>8 DEF Leave
  <2> QED
    BY <1>7, <2>1, <2>2, <2>3, <2>4, <2>5, <2>6, <2>7, <2>8 DEF Discover
<1>8. CASE UNCHANGED vars
  BY <1>8 DEF vars
<1> QED
  BY <1>1, <1>2, <1>3, <1>4, <1>5, <1>6, <1>7, <1>8 DEF Next

(***************************************************************************)
(* Every step of punctual threads keeps the search alive.                  *)
(***************************************************************************)
LEMMA SearchNext ==
    /\ Punctual /\ TypeOK /\ OneDiscoverer /\ MatchInv /\ SearchInv
    /\ [Next]_vars
    => SearchInv'
<1> SUFFICES ASSUME Punctual, TypeOK, OneDiscoverer, MatchInv, SearchInv,
                    [Next]_vars
             PROVE  SearchInv'
  OBVIOUS
<1> USE DEF Punctual, TypeOK, OneDiscoverer, MatchInv, Untouched, MatchHasCard,
            SearchInv, Progress, SearchGoesOn, Procs, Guarded, Goto
<1>a. CardCreated => attached'
  BY DEF CardCreated
<1>b. CardFailed => attached' = attached
  BY DEF CardFailed
<1>1. CASE Attach
  BY <1>1, <1>a, <1>b DEF Attach
<1>2. CASE DetachDrain
  BY <1>2 DEF DetachDrain
<1>3. CASE DetachFree
  BY <1>3 DEF DetachFree
<1>4. CASE BusReset
  BY <1>4 DEF BusReset, CallsBack
<1>5. CASE BusExplored
  BY <1>5 DEF BusExplored, CallsBack
<1>6. CASE CalloutFire
  BY <1>6 DEF CalloutFire
<1>7. ASSUME NEW p \in Procs, Discover(p)
      PROVE  SearchInv'
  <2>1. CASE Enter(p)
    BY <2>1 DEF Enter
  <2>2. CASE Guard(p)
    BY <2>2 DEF Guard
  <2>3. CASE Scan(p)
    BY <2>3 DEF Scan
  <2>4. CASE Match(p)
    BY <2>4 DEF Match
  <2>5. CASE InitCard(p)
    BY <2>5, <1>a, <1>b DEF InitCard
  <2>6. CASE DropMatch(p)
    BY <2>6 DEF DropMatch
  <2>7. CASE Rearm(p)
    BY <2>7 DEF Rearm
  <2>8. CASE Leave(p)
    BY <2>8 DEF Leave
  <2> QED
    BY <1>7, <2>1, <2>2, <2>3, <2>4, <2>5, <2>6, <2>7, <2>8 DEF Discover
<1>8. CASE UNCHANGED vars
  BY <1>8 DEF vars
<1> QED
  BY <1>1, <1>2, <1>3, <1>4, <1>5, <1>6, <1>7, <1>8 DEF Next

(***************************************************************************)
(* A match is only remembered with its card (digi00x_bsd.c:280, 328),      *)
(* whatever fails and whoever stalls.                                      *)
(***************************************************************************)
THEOREM MatchAlwaysHasCard == Spec => []MatchHasCard
<1>1. Init => MatchInv
  BY DEF Init, MatchInv, Untouched, MatchHasCard, Procs
<1>2. OneDiscoverer /\ TypeOK /\ MatchInv /\ [Next]_vars => MatchInv'
  BY MatchNext
<1>3. MatchInv => MatchHasCard
  BY DEF MatchInv
<1> QED
  BY <1>1, <1>2, <1>3, GuardExcludes, PTL DEF Spec

(***************************************************************************)
(* The search goes on until there is a card (digi00x_bsd.c:313-315), if no *)
(* thread stalls for a second between re-arming and leaving.               *)
(***************************************************************************)
THEOREM SearchAlwaysGoesOn == Punctual => (Spec => []SearchGoesOn)
<1> SUFFICES ASSUME Punctual
             PROVE  Spec => []SearchGoesOn
  OBVIOUS
<1>1. Init => MatchInv /\ SearchInv
  BY DEF Init, MatchInv, Untouched, MatchHasCard, SearchInv, Progress,
         SearchGoesOn, Procs
<1>2. /\ OneDiscoverer /\ TypeOK /\ MatchInv /\ SearchInv
      /\ [Next]_vars
      => MatchInv' /\ SearchInv'
  BY MatchNext, SearchNext
<1>3. SearchInv => SearchGoesOn
  BY DEF SearchInv
<1> QED
  BY <1>1, <1>2, <1>3, GuardExcludes, PTL DEF Spec
=============================================================================
