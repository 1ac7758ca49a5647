------------------------ MODULE Dg00xStreamingProofs ------------------------
(***************************************************************************)
(* Theorems about Dg00xStreaming, for every number of chunks, every set of *)
(* open directions and (where the statement does not restrict them) every  *)
(* set of faults.                                                          *)
(***************************************************************************)
EXTENDS Dg00xStreaming, TLAPS

-----------------------------------------------------------------------------
(* Isochronous contexts                                                    *)

\* A context whose queues hold all its chunks.
Whole(x) == x \in IsoContext /\ x.stfree + x.stvalid + x.stdma = x.size

\* Every operation on the queues keeps a context whole.
LEMMA QueueOperations ==
    ASSUME NEW x, Whole(x)
    PROVE  /\ Whole(Drained(x)) /\ Whole(Filled(x)) /\ Whole(ItxEnabled(x))
           /\ Whole(IrxEnabled(x)) /\ Whole(Disabled(x))
           /\ x.stdma > 0 => Whole(Completed(x))
BY NChunksAssumption
   DEF Whole, IsoContext, Context, Requeued, Drained, Filled, ItxEnabled,
       IrxEnabled, Disabled, Completed

\* The outcomes of iso_open and iso_close.
LEMMA OpenOutcomes == Whole(Fresh) /\ Whole(Closed) /\ Whole(HalfOpen)
BY NChunksAssumption DEF Whole, IsoContext, Context, Fresh, Closed, HalfOpen

WholeContexts == iso \in [Ctx -> IsoContext] /\ \A c \in Ctx : Whole(iso[c])

-----------------------------------------------------------------------------
(* Type correctness and conservation of chunks                             *)

\* The control state, which no queue operation touches.
ControlTypeOK ==
    /\ active \in [Streams -> BOOLEAN]
    /\ activeStreams \in Nat
    /\ useCount \in [Ctx -> Nat]
    /\ chans \in BOOLEAN
    /\ streaming \in BOOLEAN
    /\ lock \in {"none", "callout"} \cup Dirs
    /\ co \in {"off", "armed"}
    /\ cpc \in {"idle", "refill", "fill", "enable", "elapsed", "rearm"}
    /\ pc \in [Streams -> {"idle"} \cup StartLabels \cup StopLabels]
    /\ failing \in [Streams -> BOOLEAN]
    /\ wasIdle \in [Streams -> BOOLEAN]
    /\ saved \in [Streams -> Nat]
    /\ started \in [Streams -> BOOLEAN]

LEMMA TypeInit == Init => ControlTypeOK /\ WholeContexts
<1> SUFFICES ASSUME Init PROVE ControlTypeOK /\ WholeContexts
  OBVIOUS
<1>1. ControlTypeOK
  BY DEF Init, ControlTypeOK, Streams, Ctx
<1>2. iso = [c \in Ctx |-> Fresh] \/ iso = [c \in Ctx |-> Closed]
  BY DEF Init
<1>3. WholeContexts
  BY <1>2, OpenOutcomes DEF WholeContexts, Whole
<1>4. QED
  BY <1>1, <1>3

\* No step breaks a context.
LEMMA WholeNext == WholeContexts /\ [Next]_vars => WholeContexts'
<1> SUFFICES ASSUME WholeContexts, [Next]_vars PROVE WholeContexts'
  OBVIOUS
<1> USE DEF Ctx
<1>1. ASSUME NEW y, Whole(y), NEW c \in Ctx, iso' = [iso EXCEPT ![c] = y]
      PROVE  WholeContexts'
  BY <1>1 DEF WholeContexts, Whole
<1>2. ASSUME UNCHANGED iso PROVE WholeContexts'
  BY <1>2 DEF WholeContexts, Whole, IsoContext
<1>3. ASSUME NEW d \in Dirs, OpenTx(d) PROVE WholeContexts'
  BY <1>1, <1>3, OpenOutcomes DEF OpenTx
<1>4. ASSUME NEW d \in Dirs, OpenRx(d) PROVE WholeContexts'
  <2>1. iso' = [iso EXCEPT !["rx"] = Fresh]
        \/ iso' = [iso EXCEPT !["tx"] = Closed, !["rx"] = Closed]
        \/ iso' = [iso EXCEPT !["tx"] = Closed, !["rx"] = HalfOpen]
    BY <1>4 DEF OpenRx
  <2>2. QED
    BY <1>1, <2>1, OpenOutcomes DEF WholeContexts, Whole
<1>5. ASSUME NEW d \in Dirs, ArmRx(d) PROVE WholeContexts'
  BY <1>1, <1>5, QueueOperations DEF ArmRx, WholeContexts
<1>6. ASSUME NEW d \in Dirs, FillTx(d) PROVE WholeContexts'
  BY <1>1, <1>6, QueueOperations DEF FillTx, WholeContexts
<1>7. ASSUME NEW d \in Dirs, EnableTx(d) PROVE WholeContexts'
  BY <1>1, <1>2, <1>7, QueueOperations DEF EnableTx, WholeContexts
<1>8. ASSUME NEW d \in Dirs, DisableTx(d) \/ DrainTx(d) \/ DisableRx(d) \/ DrainRx(d)
      PROVE  WholeContexts'
  BY <1>1, <1>8, QueueOperations
     DEF DisableTx, DrainTx, DisableRx, DrainRx, WholeContexts
<1>9. ASSUME RefillFill \/ RefillEnable PROVE WholeContexts'
  BY <1>1, <1>2, <1>9, QueueOperations DEF RefillFill, RefillEnable, WholeContexts
<1>10. ASSUME TxDone PROVE WholeContexts'
  BY <1>1, <1>10, QueueOperations DEF TxDone, WholeContexts
<1>11. ASSUME RxDone PROVE WholeContexts'
  BY <1>1, <1>11, QueueOperations DEF RxDone, WholeContexts
<1>12. ASSUME NEW d \in Dirs,
              TriggerStart(d) \/ TriggerStop(d) \/ StreamStart(d) \/ StreamCount(d)
              \/ BeginChannels(d) \/ BeginStreaming(d) \/ StartRx(d)
              \/ StartRxFailed(d) \/ StartTx(d) \/ StartTxFailed(d)
              \/ StartCallout(d) \/ StreamStop(d) \/ StopTx(d) \/ StopRx(d)
              \/ CheckFinish(d) \/ FinishStreaming(d) \/ FinishChannels(d)
              \/ FinishPause(d)
       PROVE  WholeContexts'
  BY <1>2, <1>12
     DEF TriggerStart, TriggerStop, StreamStart, StreamCount, BeginChannels,
         BeginStreaming, StartRx, StartRxFailed, StartTx, StartTxFailed,
         StartCallout, StreamStop, StopTx, StopRx, CheckFinish, FinishStreaming,
         FinishChannels, FinishPause
<1>13. ASSUME CalloutFire \/ RefillEnter \/ CalloutCheck \/ CalloutRearm
       PROVE  WholeContexts'
  BY <1>2, <1>13 DEF CalloutFire, RefillEnter, CalloutCheck, CalloutRearm
<1>14. CASE UNCHANGED vars
  BY <1>2, <1>14 DEF vars
<1>15. QED
  BY <1>3, <1>4, <1>5, <1>6, <1>7, <1>8, <1>9, <1>10, <1>11, <1>12, <1>13, <1>14
     DEF Next, StartStep, StopStep, CalloutStep

\* No step breaks the types of the control state.
LEMMA ControlNext == ControlTypeOK /\ [Next]_vars => ControlTypeOK'
<1> SUFFICES ASSUME ControlTypeOK, [Next]_vars PROVE ControlTypeOK'
  OBVIOUS
<1> USE DirsAssumption DEF ControlTypeOK, Streams, Ctx, StartLabels, StopLabels,
        Goto, Return, devRegs, callout, locals, flow
<1>1. ASSUME NEW d \in Dirs, TriggerStart(d) PROVE ControlTypeOK'
  BY <1>1 DEF TriggerStart
<1>2. ASSUME NEW d \in Dirs, OpenTx(d) PROVE ControlTypeOK'
  <2>1. pc' \in [Streams -> {"idle"} \cup StartLabels \cup StopLabels]
    BY <1>2 DEF OpenTx
  <2>2. wasIdle' \in [Streams -> BOOLEAN]
    BY <1>2 DEF OpenTx
  <2>3. UNCHANGED <<active, activeStreams, useCount, devRegs, lock, callout, flow, saved>>
    BY <1>2 DEF OpenTx
  <2>4. QED
    BY <2>1, <2>2, <2>3
<1>3. ASSUME NEW d \in Dirs, OpenRx(d) PROVE ControlTypeOK'
  <2>1. pc' \in [Streams -> {"idle"} \cup StartLabels \cup StopLabels]
    BY <1>3 DEF OpenRx
  <2>2. wasIdle' \in [Streams -> BOOLEAN]
    BY <1>3 DEF OpenRx
  <2>3. UNCHANGED <<active, activeStreams, useCount, devRegs, lock, callout, flow, saved>>
    BY <1>3 DEF OpenRx
  <2>4. QED
    BY <2>1, <2>2, <2>3
<1>4. ASSUME NEW d \in Dirs, StreamStart(d) PROVE ControlTypeOK'
  <2>1. pc' \in [Streams -> {"idle"} \cup StartLabels \cup StopLabels]
    BY <1>4 DEF StreamStart, AfterStreamStart
  <2>2. active' \in [Streams -> BOOLEAN]
    <3>1. active' = active \/ active' = [active EXCEPT ![d] = TRUE]
      BY <1>4 DEF StreamStart, AfterStreamStart
    <3>2. QED
      BY <3>1
  <2>3. saved' \in [Streams -> Nat]
    BY <1>4 DEF StreamStart, AfterStreamStart
  <2>4. UNCHANGED <<activeStreams, useCount, devRegs, lock, callout, flow, wasIdle>>
    BY <1>4 DEF StreamStart, AfterStreamStart
  <2>5. QED
    BY <2>1, <2>2, <2>3, <2>4
<1>5. ASSUME NEW d \in Dirs, StreamCount(d) PROVE ControlTypeOK'
  BY <1>5 DEF StreamCount, AfterStreamStart
<1>6. ASSUME NEW d \in Dirs, BeginChannels(d) PROVE ControlTypeOK'
  <2>1. pc' \in [Streams -> {"idle"} \cup StartLabels \cup StopLabels]
    BY <1>6 DEF BeginChannels
  <2>2. chans' \in BOOLEAN
    BY <1>6 DEF BeginChannels
  <2>3. UNCHANGED <<active, activeStreams, useCount, streaming, lock, callout, flow, locals>>
    BY <1>6 DEF BeginChannels
  <2>4. QED
    BY <2>1, <2>2, <2>3
<1>7. ASSUME NEW d \in Dirs, BeginStreaming(d) PROVE ControlTypeOK'
  BY <1>7 DEF BeginStreaming
<1>8. ASSUME NEW d \in Dirs, StartRx(d) PROVE ControlTypeOK'
  <2>1. pc' \in [Streams -> {"idle"} \cup StartLabels \cup StopLabels]
    BY <1>8 DEF StartRx
  <2>2. failing' \in [Streams -> BOOLEAN]
    <3>1. failing' = failing \/ failing' = [failing EXCEPT ![d] = TRUE]
      BY <1>8 DEF StartRx
    <3>2. QED
      BY <3>1
  <2>3. useCount' \in [Ctx -> Nat]
    BY <1>8 DEF StartRx
  <2>4. UNCHANGED <<active, activeStreams, devRegs, lock, callout, started, locals>>
    BY <1>8 DEF StartRx
  <2>5. QED
    BY <2>1, <2>2, <2>3, <2>4
<1>9. ASSUME NEW d \in Dirs, ArmRx(d) PROVE ControlTypeOK'
  BY <1>9 DEF ArmRx
<1>10. ASSUME NEW d \in Dirs, StartRxFailed(d) PROVE ControlTypeOK'
  BY <1>10 DEF StartRxFailed
<1>11. ASSUME NEW d \in Dirs, StartTx(d) PROVE ControlTypeOK'
  BY <1>11 DEF StartTx
<1>12. ASSUME NEW d \in Dirs, FillTx(d) PROVE ControlTypeOK'
  BY <1>12 DEF FillTx
<1>13. ASSUME NEW d \in Dirs, EnableTx(d) PROVE ControlTypeOK'
  BY <1>13 DEF EnableTx
<1>14. ASSUME NEW d \in Dirs, StartTxFailed(d) PROVE ControlTypeOK'
  BY <1>14 DEF StartTxFailed
<1>15. ASSUME NEW d \in Dirs, StartCallout(d) PROVE ControlTypeOK'
  BY <1>15 DEF StartCallout
<1>16. ASSUME NEW d \in Dirs, TriggerStop(d) PROVE ControlTypeOK'
  BY <1>16 DEF TriggerStop
<1>17. ASSUME NEW d \in Dirs, StreamStop(d) PROVE ControlTypeOK'
  <2>1. pc' \in [Streams -> {"idle"} \cup StartLabels \cup StopLabels]
    BY <1>17 DEF StreamStop
  <2>2. failing' \in [Streams -> BOOLEAN]
    <3>1. failing' = failing \/ failing' = [failing EXCEPT ![d] = FALSE]
      BY <1>17 DEF StreamStop
    <3>2. QED
      BY <3>1
  <2>3. wasIdle' \in [Streams -> BOOLEAN]
    <3>1. wasIdle' = wasIdle \/ wasIdle' = [wasIdle EXCEPT ![d] = FALSE]
      BY <1>17 DEF StreamStop
    <3>2. QED
      BY <3>1
  <2>4. active' \in [Streams -> BOOLEAN]
    <3>1. active' = active \/ active' = [active EXCEPT ![d] = FALSE]
      BY <1>17 DEF StreamStop
    <3>2. QED
      BY <3>1
  <2>5. activeStreams' \in Nat /\ co' \in {"off", "armed"}
    BY <1>17 DEF StreamStop
  <2>6. UNCHANGED <<useCount, devRegs, lock, cpc, started, saved>>
    BY <1>17 DEF StreamStop
  <2>7. QED
    BY <2>1, <2>2, <2>3, <2>4, <2>5, <2>6
<1>18. ASSUME NEW d \in Dirs, StopTx(d) PROVE ControlTypeOK'
  BY <1>18 DEF StopTx
<1>19. ASSUME NEW d \in Dirs, DisableTx(d) PROVE ControlTypeOK'
  BY <1>19 DEF DisableTx
<1>20. ASSUME NEW d \in Dirs, DrainTx(d) PROVE ControlTypeOK'
  BY <1>20 DEF DrainTx
<1>21. ASSUME NEW d \in Dirs, StopRx(d) PROVE ControlTypeOK'
  BY <1>21 DEF StopRx
<1>22. ASSUME NEW d \in Dirs, DisableRx(d) PROVE ControlTypeOK'
  BY <1>22 DEF DisableRx
<1>23. ASSUME NEW d \in Dirs, DrainRx(d) PROVE ControlTypeOK'
  BY <1>23 DEF DrainRx
<1>24. ASSUME NEW d \in Dirs, CheckFinish(d) PROVE ControlTypeOK'
  <2>1. pc' \in [Streams -> {"idle"} \cup StartLabels \cup StopLabels]
    BY <1>24 DEF CheckFinish, Finished
  <2>2. wasIdle' \in [Streams -> BOOLEAN]
    BY <1>24 DEF CheckFinish, Finished
  <2>3. UNCHANGED <<active, activeStreams, useCount, devRegs, lock, callout, flow, saved>>
    BY <1>24 DEF CheckFinish, Finished
  <2>4. QED
    BY <2>1, <2>2, <2>3
<1>25. ASSUME NEW d \in Dirs, FinishStreaming(d) PROVE ControlTypeOK'
  BY <1>25 DEF FinishStreaming
<1>26. ASSUME NEW d \in Dirs, FinishChannels(d) PROVE ControlTypeOK'
  BY <1>26 DEF FinishChannels
<1>27. ASSUME NEW d \in Dirs, FinishPause(d) PROVE ControlTypeOK'
  <2>1. Finished(d)
    BY <1>27, Zenon DEF FinishPause
  <2>2. pc' \in [Streams -> {"idle"} \cup StartLabels \cup StopLabels]
    BY <2>1 DEF Finished
  <2>3. wasIdle' \in [Streams -> BOOLEAN]
    <3>1. CASE failing[d]
      BY <2>1, <3>1 DEF Finished
    <3>2. CASE ~failing[d]
      BY <2>1, <3>2 DEF Finished
    <3>3. QED
      BY <3>1, <3>2
  <2>4. UNCHANGED <<active, activeStreams, useCount, devRegs, lock, callout, flow, saved>>
    BY <1>27 DEF FinishPause, Finished
  <2>5. QED
    BY <2>2, <2>3, <2>4
<1>28. ASSUME CalloutFire PROVE ControlTypeOK'
  BY <1>28 DEF CalloutFire
<1>29. ASSUME RefillEnter PROVE ControlTypeOK'
  BY <1>29 DEF RefillEnter
<1>30. ASSUME RefillFill PROVE ControlTypeOK'
  BY <1>30 DEF RefillFill
<1>31. ASSUME RefillEnable PROVE ControlTypeOK'
  BY <1>31 DEF RefillEnable
<1>32. ASSUME CalloutCheck PROVE ControlTypeOK'
  BY <1>32 DEF CalloutCheck
<1>33. ASSUME CalloutRearm PROVE ControlTypeOK'
  BY <1>33 DEF CalloutRearm
<1>34. ASSUME TxDone \/ RxDone PROVE ControlTypeOK'
  BY <1>34 DEF TxDone, RxDone
<1>35. CASE UNCHANGED vars
  BY <1>35 DEF vars
<1>36. QED
  BY <1>1, <1>2, <1>3, <1>4, <1>5, <1>6, <1>7, <1>8, <1>9, <1>10, <1>11,
     <1>12, <1>13, <1>14, <1>15, <1>16, <1>17, <1>18, <1>19, <1>20, <1>21,
     <1>22, <1>23, <1>24, <1>25, <1>26, <1>27, <1>28, <1>29, <1>30, <1>31,
     <1>32, <1>33, <1>34, <1>35
     DEF Next, StartStep, StopStep, CalloutStep

(***************************************************************************)
(* The type invariant, and no chunk lost or duplicated, whatever fails and *)
(* however the triggers, the callout and the interrupt interleave.         *)
(***************************************************************************)
THEOREM TypeAndChunks == Spec => [](TypeOK /\ ChunksConserved)
<1>1. ControlTypeOK /\ WholeContexts => TypeOK /\ ChunksConserved
  BY DEF ControlTypeOK, WholeContexts, Whole, TypeOK, ChunksConserved
<1>2. QED
  BY <1>1, TypeInit, ControlNext, WholeNext, PTL DEF Spec

-----------------------------------------------------------------------------
(* Reference counts and the exclusion of stop_tx, for contexts that are    *)
(* open and can be enabled, and triggers that alternate                    *)

Reliable == Opened /\ "enable" \notin Faults

\* Where the triggers can be.
PathInv ==
    /\ iso["tx"].open /\ iso["rx"].open
    /\ \A d \in Streams :
         /\ pc[d] \notin {"s_opentx", "s_openrx", "s_rxerr", "s_txerr"}
         /\ ~failing[d]
         /\ started[d] => pc[d] = "idle"

\* Who holds dg00x->lock, and that the transmit context then has no user.
LockInv ==
    /\ \A d \in Dirs : lock = d <=> pc[d] \in {"t_txdisable", "t_txdrain"}
    /\ lock = "callout" <=> cpc \in {"fill", "enable"}
    /\ lock \in Dirs => useCount["tx"] = 0

RefInv == ControlTypeOK /\ WholeContexts /\ PathInv /\ LockInv /\ UseCountsMatch

LEMMA SizeAdd ==
    ASSUME NEW S, NEW d \in Streams, d \notin S
    PROVE  Size(S \cup {d}) = Size(S) + 1
BY DEF Size, Streams

LEMMA SizeRemove ==
    ASSUME NEW S, NEW d \in Streams, d \in S
    PROVE  Size(S \ {d}) = Size(S) - 1 /\ Size(S) > 0
BY DEF Size, Streams

LEMMA RefInit == Reliable /\ Init => RefInv
<1> SUFFICES ASSUME Reliable, Init PROVE RefInv
  OBVIOUS
<1>1. PathInv
  BY DEF Reliable, Init, PathInv, Fresh, Context, Ctx, Streams
<1>2. LockInv
  BY DirsAssumption DEF Init, LockInv, Streams
<1>3. TxUsers = {} /\ RxUsers = {}
  BY DEF Init, TxUsers, RxUsers
<1>4. UseCountsMatch
  BY <1>3 DEF Init, UseCountsMatch, Size, Ctx
<1>5. QED
  BY <1>1, <1>2, <1>4, TypeInit DEF RefInv

\* No step closes a context.
LEMMA OpenNext == Reliable /\ RefInv /\ [Next]_vars => (iso["tx"].open /\ iso["rx"].open)'
<1> SUFFICES ASSUME Reliable, RefInv, [Next]_vars
             PROVE  (iso["tx"].open /\ iso["rx"].open)'
  OBVIOUS
<1> USE DirsAssumption DEF RefInv, PathInv, Ctx, Streams
<1>1. ASSUME NEW c \in Ctx, NEW y, y.open, iso' = [iso EXCEPT ![c] = y]
      PROVE  (iso["tx"].open /\ iso["rx"].open)'
  BY <1>1 DEF WholeContexts
<1>2. ASSUME UNCHANGED iso PROVE (iso["tx"].open /\ iso["rx"].open)'
  BY <1>2
<1>3. \A c \in Ctx : LET x == iso[c] IN
         /\ Drained(x).open /\ Filled(x).open /\ ItxEnabled(x).open
         /\ IrxEnabled(x).open /\ IrxEnabled(Drained(x)).open
         /\ Filled(Drained(x)).open /\ Disabled(x).open /\ Completed(x).open
  BY DEF Drained, Filled, ItxEnabled, IrxEnabled, Disabled, Completed, Requeued, Context
<1>4. ASSUME NEW d \in Dirs, StartStep(d) PROVE (iso["tx"].open /\ iso["rx"].open)'
  <2>1. ~OpenTx(d) /\ ~OpenRx(d)
    BY DEF OpenTx, OpenRx
  <2>2. CASE ArmRx(d)
    BY <2>2, <1>1, <1>3 DEF ArmRx
  <2>3. CASE FillTx(d)
    BY <2>3, <1>1, <1>3 DEF FillTx
  <2>4. CASE EnableTx(d)
    BY <2>4, <1>1, <1>2, <1>3 DEF EnableTx
  <2>5. CASE UNCHANGED iso
    BY <2>5, <1>2
  <2>6. QED
    BY <1>4, <2>1, <2>2, <2>3, <2>4, <2>5
       DEF StartStep, StreamStart, StreamCount, BeginChannels, BeginStreaming,
           StartRx, StartRxFailed, StartTx, StartTxFailed, StartCallout
<1>5. ASSUME NEW d \in Dirs, StopStep(d) PROVE (iso["tx"].open /\ iso["rx"].open)'
  <2>1. CASE DisableTx(d) \/ DrainTx(d) \/ DisableRx(d) \/ DrainRx(d)
    BY <2>1, <1>1, <1>3 DEF DisableTx, DrainTx, DisableRx, DrainRx
  <2>2. CASE UNCHANGED iso
    BY <2>2, <1>2
  <2>3. QED
    BY <1>5, <2>1, <2>2
       DEF StopStep, StreamStop, StopTx, StopRx, CheckFinish, FinishStreaming,
           FinishChannels, FinishPause
<1>6. ASSUME NEW d \in Dirs, TriggerStart(d) \/ TriggerStop(d)
      PROVE  (iso["tx"].open /\ iso["rx"].open)'
  BY <1>6, <1>2 DEF TriggerStart, TriggerStop
<1>7. ASSUME CalloutStep PROVE (iso["tx"].open /\ iso["rx"].open)'
  <2>1. CASE RefillFill
    BY <2>1, <1>1, <1>3 DEF RefillFill
  <2>2. CASE RefillEnable
    BY <2>2, <1>1, <1>2, <1>3 DEF RefillEnable
  <2>3. QED
    BY <1>7, <2>1, <2>2, <1>2
       DEF CalloutStep, CalloutFire, RefillEnter, CalloutCheck, CalloutRearm
<1>8. ASSUME TxDone \/ RxDone PROVE (iso["tx"].open /\ iso["rx"].open)'
  BY <1>8, <1>1, <1>3 DEF TxDone, RxDone
<1>9. CASE UNCHANGED vars
  BY <1>9, <1>2 DEF vars
<1>10. QED
  BY <1>4, <1>5, <1>6, <1>7, <1>8, <1>9 DEF Next

\* Steps that change no use count and no lock leave the users as they are.
LEMMA QuietStep ==
    ASSUME Reliable, RefInv, NEW d \in Dirs,
           \/ TriggerStart(d) \/ StreamStart(d) \/ StreamCount(d)
           \/ BeginChannels(d) \/ BeginStreaming(d) \/ ArmRx(d) \/ FillTx(d)
           \/ EnableTx(d) \/ StartCallout(d) \/ TriggerStop(d) \/ StreamStop(d)
           \/ DisableTx(d) \/ DisableRx(d) \/ DrainRx(d) \/ CheckFinish(d)
           \/ FinishStreaming(d) \/ FinishChannels(d) \/ FinishPause(d)
    PROVE  /\ TxUsers' = TxUsers /\ RxUsers' = RxUsers
           /\ useCount' = useCount /\ lock' = lock /\ cpc' = cpc
           /\ \A e \in Dirs : pc'[e] \in {"t_txdisable", "t_txdrain"}
                              <=> pc[e] \in {"t_txdisable", "t_txdrain"}
           /\ \A e \in Streams :
                /\ pc'[e] \notin {"s_opentx", "s_openrx", "s_rxerr", "s_txerr"}
                /\ ~failing'[e]
                /\ started'[e] => pc'[e] = "idle"
<1> USE DirsAssumption DEF RefInv, ControlTypeOK, PathInv, Reliable, TxUsers, RxUsers,
        Goto, Return, callout, flow, locals, devRegs, Streams
<1>1. CASE TriggerStart(d)
  BY <1>1 DEF TriggerStart
<1>2. CASE StreamStart(d)
  BY <1>2 DEF StreamStart, AfterStreamStart
<1>3. CASE StreamCount(d)
  BY <1>3 DEF StreamCount, AfterStreamStart
<1>4. CASE BeginChannels(d)
  BY <1>4 DEF BeginChannels
<1>5. CASE BeginStreaming(d)
  BY <1>5 DEF BeginStreaming
<1>6. CASE ArmRx(d)
  BY <1>6 DEF ArmRx
<1>7. CASE FillTx(d)
  BY <1>7 DEF FillTx
<1>8. CASE EnableTx(d)
  BY <1>8 DEF EnableTx
<1>9. CASE StartCallout(d)
  BY <1>9 DEF StartCallout
<1>10. CASE TriggerStop(d)
  BY <1>10 DEF TriggerStop
<1>11. CASE StreamStop(d)
  BY <1>11 DEF StreamStop
<1>12. CASE DisableTx(d)
  BY <1>12 DEF DisableTx
<1>13. CASE DisableRx(d)
  BY <1>13 DEF DisableRx
<1>14. CASE DrainRx(d)
  BY <1>14 DEF DrainRx
<1>15. CASE CheckFinish(d)
  BY <1>15 DEF CheckFinish, Finished
<1>16. CASE FinishStreaming(d)
  BY <1>16 DEF FinishStreaming
<1>17. CASE FinishChannels(d)
  BY <1>17 DEF FinishChannels
<1>18. CASE FinishPause(d)
  BY <1>18 DEF FinishPause, Finished
<1>19. QED
  BY <1>1, <1>2, <1>3, <1>4, <1>5, <1>6, <1>7, <1>8, <1>9, <1>10, <1>11,
     <1>12, <1>13, <1>14, <1>15, <1>16, <1>17, <1>18

\* The strengthened invariant is inductive.
LEMMA RefNext == Reliable /\ RefInv /\ [Next]_vars => RefInv'
<1> SUFFICES ASSUME Reliable, RefInv, [Next]_vars PROVE RefInv'
  OBVIOUS
<1> DEFINE Step == PathInv' /\ LockInv' /\ UseCountsMatch'
<1>1. ControlTypeOK' /\ WholeContexts' /\ (iso["tx"].open /\ iso["rx"].open)'
  BY ControlNext, WholeNext, OpenNext DEF RefInv
<1> USE DirsAssumption DEF RefInv, LockInv, PathInv, UseCountsMatch
<1>2. ASSUME NEW d \in Dirs,
             \/ TriggerStart(d) \/ StreamStart(d) \/ StreamCount(d)
             \/ BeginChannels(d) \/ BeginStreaming(d) \/ ArmRx(d) \/ FillTx(d)
             \/ EnableTx(d) \/ StartCallout(d) \/ TriggerStop(d) \/ StreamStop(d)
             \/ DisableTx(d) \/ DisableRx(d) \/ DrainRx(d) \/ CheckFinish(d)
             \/ FinishStreaming(d) \/ FinishChannels(d) \/ FinishPause(d)
      PROVE  Step
  BY <1>1, <1>2, QuietStep
<1>3. ASSUME NEW d \in Dirs,
             OpenTx(d) \/ OpenRx(d) \/ StartRxFailed(d) \/ StartTxFailed(d)
      PROVE  Step
  BY <1>3 DEF OpenTx, OpenRx, StartRxFailed, StartTxFailed, Streams
<1>4. ASSUME NEW d \in Dirs, StartRx(d) PROVE Step
  <2>1. d \notin RxUsers /\ RxUsers' = RxUsers \cup {d} /\ TxUsers' = TxUsers
    BY <1>4 DEF StartRx, Goto, ControlTypeOK, RxUsers, TxUsers, Streams, flow
  <2>2. useCount' = [useCount EXCEPT !["rx"] = @ + 1]
    BY <1>4 DEF StartRx
  <2>3. UseCountsMatch'
    BY <2>1, <2>2, SizeAdd DEF ControlTypeOK, Ctx, Streams
  <2>4. LockInv'
    BY <1>4, <2>2 DEF StartRx, Goto, ControlTypeOK, Ctx, Streams, callout
  <2>5. PathInv'
    BY <1>1, <1>4 DEF StartRx, Goto, ControlTypeOK, Streams
  <2>6. QED
    BY <2>3, <2>4, <2>5
<1>5. ASSUME NEW d \in Dirs, StartTx(d) PROVE Step
  <2>1. d \notin TxUsers /\ TxUsers' = TxUsers \cup {d} /\ RxUsers' = RxUsers
    BY <1>5 DEF StartTx, Goto, ControlTypeOK, RxUsers, TxUsers, Streams, flow
  <2>2. useCount' = [useCount EXCEPT !["tx"] = @ + 1]
    BY <1>5 DEF StartTx
  <2>3. UseCountsMatch'
    BY <2>1, <2>2, SizeAdd DEF ControlTypeOK, Ctx, Streams
  <2>4. LockInv'
    BY <1>5, <2>2 DEF StartTx, Goto, ControlTypeOK, Ctx, Streams, callout
  <2>5. PathInv'
    BY <1>1, <1>5 DEF StartTx, Goto, ControlTypeOK, Streams, flow
  <2>6. QED
    BY <2>3, <2>4, <2>5
<1>6. ASSUME NEW d \in Dirs, StopTx(d) PROVE Step
  <2>1. d \in TxUsers /\ TxUsers' = TxUsers \ {d} /\ RxUsers' = RxUsers
    BY <1>6 DEF StopTx, Goto, ControlTypeOK, RxUsers, TxUsers, Streams, flow
  <2>2. Size(TxUsers \ {d}) = Size(TxUsers) - 1 /\ Size(TxUsers) > 0
    <3>1. d \in Streams
      BY DEF Streams
    <3>2. QED
      BY <2>1, <3>1, SizeRemove
  <2>3. useCount' = [useCount EXCEPT !["tx"] = @ - 1]
    BY <1>6, <2>2 DEF StopTx
  <2>4. UseCountsMatch'
    BY <2>1, <2>2, <2>3 DEF ControlTypeOK, Ctx
  <2>5. LockInv'
    <3>1. CASE useCount["tx"] > 1
      BY <1>6, <2>3, <3>1 DEF StopTx, Goto, ControlTypeOK, Ctx, Streams, callout
    <3>2. CASE useCount["tx"] = 1
      BY <1>6, <2>3, <3>2 DEF StopTx, Goto, ControlTypeOK, Ctx, Streams, callout
    <3>3. QED
      BY <2>2, <3>1, <3>2 DEF ControlTypeOK, Ctx
  <2>6. PathInv'
    BY <1>1, <1>6 DEF StopTx, Goto, ControlTypeOK, Streams, flow
  <2>7. QED
    BY <2>4, <2>5, <2>6
<1>7. ASSUME NEW d \in Dirs, DrainTx(d) PROVE Step
  <2>1. TxUsers' = TxUsers /\ RxUsers' = RxUsers /\ useCount' = useCount
    BY <1>7 DEF DrainTx, Goto, ControlTypeOK, RxUsers, TxUsers, Streams, flow
  <2>2. LockInv'
    BY <1>7, <2>1 DEF DrainTx, Goto, ControlTypeOK, Streams, callout
  <2>3. PathInv'
    BY <1>1, <1>7 DEF DrainTx, Goto, ControlTypeOK, Streams, flow
  <2>4. QED
    BY <2>1, <2>2, <2>3
<1>8. ASSUME NEW d \in Dirs, StopRx(d) PROVE Step
  <2>1. d \in RxUsers /\ RxUsers' = RxUsers \ {d} /\ TxUsers' = TxUsers
    BY <1>8 DEF StopRx, Goto, ControlTypeOK, RxUsers, TxUsers, Streams, flow
  <2>2. Size(RxUsers \ {d}) = Size(RxUsers) - 1 /\ Size(RxUsers) > 0
    <3>1. d \in Streams
      BY DEF Streams
    <3>2. QED
      BY <2>1, <3>1, SizeRemove
  <2>3. useCount' = [useCount EXCEPT !["rx"] = @ - 1]
    BY <1>8, <2>2 DEF StopRx
  <2>4. UseCountsMatch'
    BY <2>1, <2>2, <2>3 DEF ControlTypeOK, Ctx
  <2>5. LockInv'
    BY <1>8, <2>3 DEF StopRx, Goto, ControlTypeOK, Ctx, Streams, callout
  <2>6. PathInv'
    BY <1>1, <1>8 DEF StopRx, Goto, ControlTypeOK, Streams, flow
  <2>7. QED
    BY <2>4, <2>5, <2>6
<1>9. ASSUME CalloutStep PROVE Step
  <2>1. pc' = pc /\ started' = started /\ failing' = failing /\ useCount' = useCount
    BY <1>9 DEF CalloutStep, CalloutFire, RefillEnter, RefillFill, RefillEnable,
                CalloutCheck, CalloutRearm, flow
  <2>2. TxUsers' = TxUsers /\ RxUsers' = RxUsers
    BY <2>1 DEF TxUsers, RxUsers
  <2>3. LockInv'
    BY <1>9, <2>1 DEF CalloutStep, CalloutFire, RefillEnter, RefillFill,
                      RefillEnable, CalloutCheck, CalloutRearm, ControlTypeOK
  <2>4. QED
    BY <1>1, <2>1, <2>2, <2>3
<1>10. ASSUME (TxDone \/ RxDone) \/ UNCHANGED vars PROVE Step
  <2>1. /\ pc' = pc /\ started' = started /\ failing' = failing
        /\ useCount' = useCount /\ lock' = lock /\ cpc' = cpc
    BY <1>10 DEF TxDone, RxDone, vars, flow, callout
  <2>2. TxUsers' = TxUsers /\ RxUsers' = RxUsers
    BY <2>1 DEF TxUsers, RxUsers
  <2>3. QED
    BY <1>1, <2>1, <2>2
<1>11. Step
  BY <1>2, <1>3, <1>4, <1>5, <1>6, <1>7, <1>8, <1>9, <1>10
     DEF Next, StartStep, StopStep
<1>12. QED
  BY <1>1, <1>11

(***************************************************************************)
(* tx_use_count and rx_use_count are the numbers of directions between     *)
(* their START and their STOP, for every interleaving of the two triggers, *)
(* provided contexts can be enabled and triggers alternate: the two cases  *)
(* in which the code resets or double-counts a reference are excluded.     *)
(***************************************************************************)
THEOREM UseCountsAlwaysMatch == Reliable => (Spec => []UseCountsMatch)
<1>1. RefInv => UseCountsMatch
  BY DEF RefInv
<1> SUFFICES ASSUME Reliable PROVE Spec => []UseCountsMatch
  OBVIOUS
<1>2. Init => RefInv
  BY RefInit
<1>3. RefInv /\ [Next]_vars => RefInv'
  BY RefNext
<1>4. QED
  BY <1>1, <1>2, <1>3, PTL DEF Spec

\* While a direction is between itx_disable and the end of its drain, nobody
\* else has a step that enables or feeds the transmit context.
LEMMA NoEnableStep ==
    ASSUME Reliable, RefInv, [Next]_vars,
           NEW d \in Dirs, pc[d] \in {"t_txdisable", "t_txdrain"}
    PROVE  (iso'["tx"].run => iso["tx"].run) /\ iso'["tx"].stdma <= iso["tx"].stdma
<1> DEFINE Tame == /\ iso'["tx"].run => iso["tx"].run
                   /\ iso'["tx"].stdma <= iso["tx"].stdma
<1> USE DirsAssumption DEF RefInv, LockInv, UseCountsMatch
<1>1. lock = d /\ useCount["tx"] = 0
  OBVIOUS
<1>2. \A e \in Streams : e \notin TxUsers
  <2>1. SUFFICES ASSUME NEW e \in Streams, e \in TxUsers PROVE FALSE
    OBVIOUS
  <2>2. Size(TxUsers) > 0
    BY <2>1, SizeRemove
  <2>3. QED
    BY <1>1, <2>2
<1>3. \A c \in Ctx : iso[c] \in IsoContext
  BY DEF WholeContexts
<1>4. ASSUME iso'["tx"] = iso["tx"] PROVE Tame
  BY <1>3, <1>4 DEF IsoContext, Ctx
<1>5. ASSUME NEW e \in Dirs, StartStep(e) PROVE Tame
  <2>1. ~FillTx(e) /\ ~EnableTx(e)
    BY <1>2 DEF FillTx, EnableTx, TxUsers, Streams
  <2>2. ~OpenTx(e) /\ ~OpenRx(e)
    BY DEF OpenTx, OpenRx, PathInv, Streams
  <2>3. CASE ArmRx(e)
    BY <1>4, <2>3 DEF ArmRx, WholeContexts, Ctx
  <2>4. QED
    BY <1>4, <1>5, <2>1, <2>2, <2>3
       DEF StartStep, StreamStart, StreamCount, BeginChannels, BeginStreaming,
           StartRx, StartRxFailed, StartTx, StartTxFailed, StartCallout
<1>6. ASSUME NEW e \in Dirs, StopStep(e) PROVE Tame
  <2>1. CASE DisableTx(e)
    BY <1>3, <2>1
       DEF DisableTx, Disabled, Requeued, Context, IsoContext, WholeContexts, Ctx
  <2>2. CASE DrainTx(e)
    BY <1>3, <2>2
       DEF DrainTx, Drained, Requeued, Context, IsoContext, WholeContexts, Ctx
  <2>3. CASE DisableRx(e) \/ DrainRx(e)
    BY <1>4, <2>3 DEF DisableRx, DrainRx, WholeContexts, Ctx
  <2>4. QED
    BY <1>4, <1>6, <2>1, <2>2, <2>3
       DEF StopStep, StreamStop, StopTx, StopRx, CheckFinish, FinishStreaming,
           FinishChannels, FinishPause
<1>7. ASSUME CalloutStep PROVE Tame
  <2>1. ~RefillFill /\ ~RefillEnable
    BY <1>1 DEF RefillFill, RefillEnable
  <2>2. QED
    BY <1>4, <1>7, <2>1
       DEF CalloutStep, CalloutFire, RefillEnter, CalloutCheck, CalloutRearm
<1>8. ASSUME TxDone PROVE Tame
  BY <1>3, <1>8
     DEF TxDone, Completed, Requeued, Context, IsoContext, WholeContexts, Ctx
<1>9. ASSUME RxDone PROVE Tame
  BY <1>4, <1>9 DEF RxDone, WholeContexts, Ctx
<1>10. ASSUME NEW e \in Dirs, TriggerStart(e) \/ TriggerStop(e) PROVE Tame
  BY <1>4, <1>10 DEF TriggerStart, TriggerStop
<1>11. CASE UNCHANGED vars
  BY <1>4, <1>11 DEF vars
<1>12. QED
  BY <1>5, <1>6, <1>7, <1>8, <1>9, <1>10, <1>11 DEF Next

(***************************************************************************)
(* What the comments of stop_tx and refill_tx promise: between the         *)
(* decision of stop_tx and the end of its drain no other thread enables or *)
(* feeds the transmit context, with both directions and the callout        *)
(* running.  The callout is kept out by dg00x->lock, the other START by    *)
(* the count, which is zero and cannot rise while the lock is held.        *)
(***************************************************************************)
THEOREM StopAlwaysExcludesEnable == Reliable => (Spec => StopExcludesEnable)
<1> SUFFICES ASSUME Reliable PROVE Spec => StopExcludesEnable
  OBVIOUS
<1> DEFINE Excluded ==
      (\E d \in Dirs : pc[d] \in {"t_txdisable", "t_txdrain"})
      => (iso'["tx"].run => iso["tx"].run) /\ iso'["tx"].stdma <= iso["tx"].stdma
<1>1. Init => RefInv
  BY RefInit
<1>2. RefInv /\ [Next]_vars => RefInv'
  BY RefNext
<1>3. RefInv /\ [Next]_vars => [Excluded]_vars
  BY NoEnableStep
<1>4. QED
  BY <1>1, <1>2, <1>3, PTL DEF Spec, StopExcludesEnable

-----------------------------------------------------------------------------
(* One direction alone: both contexts follow its trigger                   *)

\* The other direction never runs, contexts can be enabled, the callout and
\* the receive task are on time.  Opening may fail, and so may the writes.
Solo ==
    /\ Dirs = {"pb"} \/ Dirs = {"cap"}
    /\ Faults \cap {"enable", "slowTick", "lateRx"} = {}

Others == \A e \in Streams \ Dirs : pc[e] = "idle" /\ ~active[e] /\ ~started[e]

\* Between a successful START and its STOP.
Running(d) == pc[d] = "idle" /\ started[d]

\* STOP, not the error exit of START, is at one of these labels.
Stopping(d, labels) == ~failing[d] /\ pc[d] \in labels

\* The path of the trigger, and the counters that follow it.
PathOf(d) ==
    /\ started[d] => pc[d] = "idle"
    /\ failing[d] => /\ ~iso["rx"].open
                     /\ pc[d] \in {"t_tx", "t_rx", "t_end", "t_session", "t_chans",
                                   "t_pause", "t_stream"}
    /\ pc[d] \notin {"s_rxerr", "s_txerr"}
    /\ pc[d] \in StartLabels \/ failing[d] => wasIdle[d]
    /\ active[d] <=> \/ Running(d) \/ failing[d] \/ pc[d] = "t_stream"
                     \/ pc[d] \in StartLabels \ {"s_opentx", "s_openrx", "s_active"}
    /\ activeStreams = IF active[d] /\ pc[d] # "s_count" THEN 1 ELSE 0
    /\ pc[d] = "s_count" => saved[d] = 0

\* The direction has its reference to the transmit context, and to the
\* receive context.
HoldsTx(d) ==
    \/ Running(d) \/ pc[d] \in {"s_txfill", "s_txenable", "s_callout"}
    \/ Stopping(d, {"t_stream", "t_tx"})
HoldsRx(d) ==
    \/ Running(d)
    \/ pc[d] \in {"s_rxarm", "s_tx", "s_txfill", "s_txenable", "s_callout"}
    \/ Stopping(d, {"t_stream", "t_tx", "t_txdisable", "t_txdrain", "t_rx"})

CountsOf(d) ==
    /\ pc[d] = "s_opentx" => ~iso["tx"].open
    /\ pc[d] \in {"s_opentx", "s_openrx"} => ~iso["rx"].open
    /\ HoldsRx(d) \/ pc[d] \in {"t_rxdisable", "t_rxdrain"} => iso["rx"].open
    /\ pc[d] \in {"s_txfill", "s_txenable", "t_txdisable", "t_txdrain"} => iso["tx"].open
    /\ useCount["rx"] = IF HoldsRx(d) THEN 1 ELSE 0
    /\ useCount["tx"] = IF HoldsTx(d) /\ iso["tx"].open THEN 1 ELSE 0

\* The transmit context has work, or the receive context does.
TxBusy(d) ==
    /\ iso["tx"].open
    /\ \/ HoldsTx(d) /\ pc[d] # "s_txfill"
       \/ pc[d] \in {"t_txdisable", "t_txdrain"}
RxBusy(d) ==
    \/ HoldsRx(d) /\ pc[d] # "s_rxarm"
    \/ pc[d] \in {"t_rxdisable", "t_rxdrain"}

Quiet(x) == ~x.run /\ x.stvalid = 0 /\ x.stdma = 0

QueuesOf(d) ==
    /\ ~TxBusy(d) => Quiet(iso["tx"])
    /\ pc[d] = "s_txenable" => ~iso["tx"].run /\ iso["tx"].stdma = 0
    /\ pc[d] = "t_txdrain" => ~iso["tx"].run
    /\ ~RxBusy(d) => Quiet(iso["rx"])
    /\ pc[d] = "t_rxdrain" => ~iso["rx"].run

\* The callout lives from the end of START to the end of STOP, and fills only
\* as long as stop_tx has not taken dg00x->lock.
CalloutOf(d) ==
    /\ lock = d <=> pc[d] \in {"t_txdisable", "t_txdrain"}
    /\ lock = "callout" <=> cpc \in {"fill", "enable"}
    /\ co = "armed" \/ cpc # "idle" => Running(d) \/ Stopping(d, StopLabels)
    /\ cpc \in {"fill", "enable"} =>
         iso["tx"].open /\ (Running(d) \/ Stopping(d, {"t_stream", "t_tx"}))

\* The device session spans every label at which a context can run.
InSession(d) ==
    \/ Running(d)
    \/ pc[d] \in {"s_rx", "s_rxarm", "s_tx", "s_txfill", "s_txenable", "s_callout"}
    \/ pc[d] \in StopLabels \ {"t_stream", "t_chans", "t_pause"}
    \/ Stopping(d, {"t_stream"})

SessionOf(d) ==
    "fw" \notin Faults =>
        /\ InSession(d) => streaming
        /\ InSession(d) \/ pc[d] \in {"s_session", "t_chans"} => chans

SoloOf(d) ==
    PathOf(d) /\ CountsOf(d) /\ QueuesOf(d) /\ CalloutOf(d) /\ SessionOf(d) /\ Others

SoloInv == ControlTypeOK /\ WholeContexts /\ \A d \in Dirs : SoloOf(d)

\* The steps, by the part of the code they are in.
Opening(d)    == TriggerStart(d) \/ TriggerStop(d) \/ OpenTx(d) \/ OpenRx(d)
Beginning(d)  == StreamStart(d) \/ StreamCount(d) \/ BeginChannels(d) \/ BeginStreaming(d)
StartingRx(d) == StartRx(d) \/ ArmRx(d) \/ StartRxFailed(d)
StartingTx(d) == StartTx(d) \/ FillTx(d) \/ EnableTx(d)
Switching(d)  == StartTxFailed(d) \/ StartCallout(d) \/ StreamStop(d)
StoppingTx(d) == StopTx(d) \/ DisableTx(d) \/ DrainTx(d)
StoppingRx(d) == StopRx(d) \/ DisableRx(d) \/ DrainRx(d)
Finishing(d)  == CheckFinish(d) \/ FinishStreaming(d) \/ FinishChannels(d) \/ FinishPause(d)

\* What the steps need to know of the types.
SoloTypes ==
    /\ active \in [Streams -> BOOLEAN] /\ started \in [Streams -> BOOLEAN]
    /\ pc \in [Streams -> {"idle"} \cup StartLabels \cup StopLabels]
    /\ failing \in [Streams -> BOOLEAN] /\ wasIdle \in [Streams -> BOOLEAN]
    /\ saved \in [Streams -> Nat] /\ useCount \in [Ctx -> Nat] /\ activeStreams \in Nat
    /\ DOMAIN iso = {"tx", "rx"}

\* A step of the one direction, or of somebody else.
SoloStep(d) ==
    /\ Solo /\ SoloTypes /\ Dirs = {d} /\ d \in {"pb", "cap"} /\ SoloOf(d)
    /\ \/ Opening(d) \/ Beginning(d) \/ StartingRx(d) \/ StartingTx(d) \/ Switching(d)
       \/ StoppingTx(d) \/ StoppingRx(d) \/ Finishing(d)
       \/ CalloutStep \/ (TxDone \/ RxDone) \/ UNCHANGED vars

\* Steps keep the path of the trigger and active_streams, where a START that fails half-way
\* and a callout that outlives STOP are the hard cases.
LEMMA PathKept == ASSUME NEW d \in Streams, SoloStep(d) PROVE PathOf(d)'
<1>a. Solo /\ SoloTypes /\ Dirs = {d} /\ d \in {"pb", "cap"} /\ Others
      /\ PathOf(d) /\ CountsOf(d) /\ CalloutOf(d)
  BY DEF SoloStep, SoloOf
<1> USE <1>a DEF PathOf, CountsOf, CalloutOf, SoloTypes, Solo, Running,
        Stopping, HoldsTx, HoldsRx, StartLabels, StopLabels, Streams, Ctx,
        Goto, Return, callout, locals, flow, Context, Requeued, Drained,
        Filled, ItxEnabled, IrxEnabled, Completed, Disabled
<1>1. CASE Opening(d)
  <2>1. CASE TriggerStart(d)
    <3>1. activeStreams = 0
      BY <2>1 DEF TriggerStart
    <3>2. wasIdle' = [wasIdle EXCEPT ![d] = TRUE]
      BY <2>1, <3>1, Zenon DEF TriggerStart
    <3>3. /\ pc' = [pc EXCEPT ![d] = "s_active"] \/ pc' = [pc EXCEPT ![d] = "s_opentx"]
          /\ pc[d] = "idle" /\ ~started[d]
          /\ UNCHANGED <<active, activeStreams, iso, failing, started, saved>>
      BY <2>1 DEF TriggerStart
    <3>4. QED
      BY <3>2, <3>3
  <2>2. CASE TriggerStop(d)
    BY <2>2, SMTT(30) DEF TriggerStop
  <2>3. CASE OpenTx(d)
    BY <2>3, SMTT(30) DEF OpenTx, Fresh, Closed, HalfOpen
  <2>4. CASE OpenRx(d)
    BY <2>4, SMTT(30) DEF OpenRx, Fresh, Closed, HalfOpen
  <2>5. QED
    BY <1>1, <2>1, <2>2, <2>3, <2>4 DEF Opening
<1>2. CASE Beginning(d)
  BY <1>2, SMTT(30)
     DEF Beginning, StreamStart, StreamCount, AfterStreamStart, BeginChannels,
         BeginStreaming
<1>3. CASE StartingRx(d)
  BY <1>3, SMTT(30)
     DEF StartingRx, StartRx, ArmRx, StartRxFailed
<1>4. CASE StartingTx(d)
  BY <1>4, SMTT(30)
     DEF StartingTx, StartTx, FillTx, EnableTx
<1>5. CASE Switching(d)
  BY <1>5, SMTT(30)
     DEF Switching, StartTxFailed, StartCallout, StreamStop
<1>6. CASE StoppingTx(d)
  BY <1>6, SMTT(30)
     DEF StoppingTx, StopTx, DisableTx, DrainTx
<1>7. CASE StoppingRx(d)
  BY <1>7, SMTT(30)
     DEF StoppingRx, StopRx, DisableRx, DrainRx
<1>8. CASE Finishing(d)
  BY <1>8, SMTT(30)
     DEF Finishing, CheckFinish, FinishStreaming, FinishChannels, FinishPause, Finished
<1>9. CASE CalloutStep
  BY <1>9, SMTT(30)
     DEF CalloutStep, CalloutFire, RefillEnter, RefillFill, RefillEnable, CalloutCheck,
         CalloutRearm
<1>10. CASE TxDone \/ RxDone
  BY <1>10, SMTT(30) DEF TxDone, RxDone
<1>11. CASE UNCHANGED vars
  BY <1>11, SMTT(30) DEF vars
<1>12. QED
  BY <1>1, <1>2, <1>3, <1>4, <1>5, <1>6, <1>7, <1>8, <1>9, <1>10, <1>11
     DEF SoloStep

\* Steps keep the use counts.
LEMMA CountsKept == ASSUME NEW d \in Streams, SoloStep(d) PROVE CountsOf(d)'
<1>a. Solo /\ SoloTypes /\ Dirs = {d} /\ d \in {"pb", "cap"} /\ Others
      /\ CountsOf(d) /\ PathOf(d) /\ CalloutOf(d)
  BY DEF SoloStep, SoloOf
<1> USE <1>a DEF CountsOf, PathOf, CalloutOf, SoloTypes, Solo, Running,
        Stopping, HoldsTx, HoldsRx, StartLabels, StopLabels, Streams, Ctx,
        Goto, Return, callout, locals, flow, Context, Requeued, Drained,
        Filled, ItxEnabled, IrxEnabled, Completed, Disabled
<1>1. CASE Opening(d)
  BY <1>1, SMTT(30)
     DEF Opening, TriggerStart, TriggerStop, OpenTx, OpenRx, Fresh, Closed, HalfOpen
<1>2. CASE Beginning(d)
  BY <1>2, SMTT(30)
     DEF Beginning, StreamStart, StreamCount, AfterStreamStart, BeginChannels,
         BeginStreaming
<1>3. CASE StartingRx(d)
  BY <1>3, SMTT(30)
     DEF StartingRx, StartRx, ArmRx, StartRxFailed
<1>4. CASE StartingTx(d)
  BY <1>4, SMTT(30)
     DEF StartingTx, StartTx, FillTx, EnableTx
<1>5. CASE Switching(d)
  BY <1>5, SMTT(30)
     DEF Switching, StartTxFailed, StartCallout, StreamStop
<1>6. CASE StoppingTx(d)
  BY <1>6, SMTT(30)
     DEF StoppingTx, StopTx, DisableTx, DrainTx
<1>7. CASE StoppingRx(d)
  BY <1>7, SMTT(30)
     DEF StoppingRx, StopRx, DisableRx, DrainRx
<1>8. CASE Finishing(d)
  BY <1>8, SMTT(30)
     DEF Finishing, CheckFinish, FinishStreaming, FinishChannels, FinishPause, Finished
<1>9. CASE CalloutStep
  BY <1>9, SMTT(30)
     DEF CalloutStep, CalloutFire, RefillEnter, RefillFill, RefillEnable, CalloutCheck,
         CalloutRearm
<1>10. CASE TxDone \/ RxDone
  BY <1>10, SMTT(30) DEF TxDone, RxDone
<1>11. CASE UNCHANGED vars
  BY <1>11, SMTT(30) DEF vars
<1>12. QED
  BY <1>1, <1>2, <1>3, <1>4, <1>5, <1>6, <1>7, <1>8, <1>9, <1>10, <1>11
     DEF SoloStep

\* Steps keep the queues: a context without work is off and has nothing to do.
LEMMA QueuesKept == ASSUME NEW d \in Streams, SoloStep(d) PROVE QueuesOf(d)'
<1>a. Solo /\ SoloTypes /\ Dirs = {d} /\ d \in {"pb", "cap"} /\ Others
      /\ QueuesOf(d) /\ PathOf(d) /\ CountsOf(d) /\ CalloutOf(d)
  BY DEF SoloStep, SoloOf
<1> USE <1>a DEF QueuesOf, PathOf, CountsOf, CalloutOf, SoloTypes, Solo,
        Running, Stopping, HoldsTx, HoldsRx, TxBusy, RxBusy, Quiet,
        StartLabels, StopLabels, Streams, Ctx, Goto, Return, callout, locals,
        flow, Context, Requeued, Drained, Filled, ItxEnabled, IrxEnabled,
        Completed, Disabled
<1>1. CASE Opening(d)
  BY <1>1, SMTT(30)
     DEF Opening, TriggerStart, TriggerStop, OpenTx, OpenRx, Fresh, Closed, HalfOpen
<1>2. CASE Beginning(d)
  BY <1>2, SMTT(30)
     DEF Beginning, StreamStart, StreamCount, AfterStreamStart, BeginChannels,
         BeginStreaming
<1>3. CASE StartingRx(d)
  BY <1>3, SMTT(30)
     DEF StartingRx, StartRx, ArmRx, StartRxFailed
<1>4. CASE StartingTx(d)
  BY <1>4, SMTT(30)
     DEF StartingTx, StartTx, FillTx, EnableTx
<1>5. CASE Switching(d)
  BY <1>5, SMTT(30)
     DEF Switching, StartTxFailed, StartCallout, StreamStop
<1>6. CASE StoppingTx(d)
  BY <1>6, SMTT(30)
     DEF StoppingTx, StopTx, DisableTx, DrainTx
<1>7. CASE StoppingRx(d)
  BY <1>7, SMTT(30)
     DEF StoppingRx, StopRx, DisableRx, DrainRx
<1>8. CASE Finishing(d)
  BY <1>8, SMTT(30)
     DEF Finishing, CheckFinish, FinishStreaming, FinishChannels, FinishPause, Finished
<1>9. CASE CalloutStep
  BY <1>9, SMTT(30)
     DEF CalloutStep, CalloutFire, RefillEnter, RefillFill, RefillEnable, CalloutCheck,
         CalloutRearm
<1>10. CASE TxDone \/ RxDone
  BY <1>10, SMTT(30) DEF TxDone, RxDone
<1>11. CASE UNCHANGED vars
  BY <1>11, SMTT(30) DEF vars
<1>12. QED
  BY <1>1, <1>2, <1>3, <1>4, <1>5, <1>6, <1>7, <1>8, <1>9, <1>10, <1>11
     DEF SoloStep

\* Steps keep the callout and dg00x->lock.
LEMMA CalloutKept == ASSUME NEW d \in Streams, SoloStep(d) PROVE CalloutOf(d)'
<1>a. Solo /\ SoloTypes /\ Dirs = {d} /\ d \in {"pb", "cap"} /\ Others
      /\ CalloutOf(d) /\ PathOf(d) /\ CountsOf(d)
  BY DEF SoloStep, SoloOf
<1> USE <1>a DEF CalloutOf, PathOf, CountsOf, SoloTypes, Solo, Running,
        Stopping, HoldsTx, HoldsRx, StartLabels, StopLabels, Streams, Ctx,
        Goto, Return, callout, locals, flow, Context, Requeued, Drained,
        Filled, ItxEnabled, IrxEnabled, Completed, Disabled
<1>1. CASE Opening(d)
  BY <1>1, SMTT(30)
     DEF Opening, TriggerStart, TriggerStop, OpenTx, OpenRx, Fresh, Closed, HalfOpen
<1>2. CASE Beginning(d)
  BY <1>2, SMTT(30)
     DEF Beginning, StreamStart, StreamCount, AfterStreamStart, BeginChannels,
         BeginStreaming
<1>3. CASE StartingRx(d)
  BY <1>3, SMTT(30)
     DEF StartingRx, StartRx, ArmRx, StartRxFailed
<1>4. CASE StartingTx(d)
  BY <1>4, SMTT(30)
     DEF StartingTx, StartTx, FillTx, EnableTx
<1>5. CASE Switching(d)
  BY <1>5, SMTT(30)
     DEF Switching, StartTxFailed, StartCallout, StreamStop
<1>6. CASE StoppingTx(d)
  BY <1>6, SMTT(30)
     DEF StoppingTx, StopTx, DisableTx, DrainTx
<1>7. CASE StoppingRx(d)
  BY <1>7, SMTT(30)
     DEF StoppingRx, StopRx, DisableRx, DrainRx
<1>8. CASE Finishing(d)
  <2>1. CASE CheckFinish(d)
    BY <2>1, SMTT(30) DEF CheckFinish, Finished
  <2>2. CASE FinishStreaming(d) \/ FinishChannels(d)
    BY <2>2, SMTT(30) DEF FinishStreaming, FinishChannels
  <2>3. CASE FinishPause(d)
    BY <2>3, SMTT(30) DEF FinishPause, Finished, Others
  <2>4. QED
    BY <1>8, <2>1, <2>2, <2>3 DEF Finishing
<1>9. CASE CalloutStep
  <2>1. CASE CalloutFire
    BY <2>1, SMTT(30) DEF CalloutFire
  <2>2. CASE RefillEnter
    BY <2>2, SMTT(30) DEF RefillEnter, Others
  <2>3. CASE RefillFill \/ RefillEnable
    BY <2>3, SMTT(30) DEF RefillFill, RefillEnable
  <2>4. CASE CalloutCheck \/ CalloutRearm
    BY <2>4, SMTT(30) DEF CalloutCheck, CalloutRearm
  <2>5. QED
    BY <1>9, <2>1, <2>2, <2>3, <2>4 DEF CalloutStep
<1>10. CASE TxDone \/ RxDone
  BY <1>10, SMTT(30) DEF TxDone, RxDone
<1>11. CASE UNCHANGED vars
  BY <1>11, SMTT(30) DEF vars
<1>12. QED
  BY <1>1, <1>2, <1>3, <1>4, <1>5, <1>6, <1>7, <1>8, <1>9, <1>10, <1>11
     DEF SoloStep

\* Steps keep the device session.
LEMMA SessionKept == ASSUME NEW d \in Streams, SoloStep(d) PROVE SessionOf(d)'
<1>a. Solo /\ SoloTypes /\ Dirs = {d} /\ d \in {"pb", "cap"} /\ Others
      /\ SessionOf(d) /\ PathOf(d) /\ CountsOf(d)
  BY DEF SoloStep, SoloOf
<1> USE <1>a DEF SessionOf, PathOf, CountsOf, SoloTypes, Solo, Running,
        Stopping, HoldsTx, HoldsRx, InSession, StartLabels, StopLabels,
        Streams, Ctx, Goto, Return, devRegs, callout, locals, flow, Context
<1>1. CASE Opening(d)
  BY <1>1, SMTT(30)
     DEF Opening, TriggerStart, TriggerStop, OpenTx, OpenRx, Fresh, Closed, HalfOpen
<1>2. CASE Beginning(d)
  BY <1>2, SMTT(30)
     DEF Beginning, StreamStart, StreamCount, AfterStreamStart, BeginChannels,
         BeginStreaming
<1>3. CASE StartingRx(d)
  BY <1>3, SMTT(30)
     DEF StartingRx, StartRx, ArmRx, StartRxFailed
<1>4. CASE StartingTx(d)
  BY <1>4, SMTT(30)
     DEF StartingTx, StartTx, FillTx, EnableTx
<1>5. CASE Switching(d)
  BY <1>5, SMTT(30)
     DEF Switching, StartTxFailed, StartCallout, StreamStop
<1>6. CASE StoppingTx(d)
  BY <1>6, SMTT(30)
     DEF StoppingTx, StopTx, DisableTx, DrainTx
<1>7. CASE StoppingRx(d)
  BY <1>7, SMTT(30)
     DEF StoppingRx, StopRx, DisableRx, DrainRx
<1>8. CASE Finishing(d)
  BY <1>8, SMTT(30)
     DEF Finishing, CheckFinish, FinishStreaming, FinishChannels, FinishPause, Finished
<1>9. CASE CalloutStep
  BY <1>9, SMTT(30)
     DEF CalloutStep, CalloutFire, RefillEnter, RefillFill, RefillEnable, CalloutCheck,
         CalloutRearm
<1>10. CASE TxDone \/ RxDone
  BY <1>10, SMTT(30) DEF TxDone, RxDone
<1>11. CASE UNCHANGED vars
  BY <1>11, SMTT(30) DEF vars
<1>12. QED
  BY <1>1, <1>2, <1>3, <1>4, <1>5, <1>6, <1>7, <1>8, <1>9, <1>10, <1>11
     DEF SoloStep

\* Steps keep the other direction, which stays idle.
LEMMA OthersKept == ASSUME NEW d \in Streams, SoloStep(d) PROVE Others'
<1>a. Solo /\ SoloTypes /\ Dirs = {d} /\ d \in {"pb", "cap"} /\ Others
      /\ CalloutOf(d)
  BY DEF SoloStep, SoloOf
<1> USE <1>a DEF Others, CalloutOf, SoloTypes, Streams, Ctx, Goto, Return,
        callout, locals, flow, Context
<1>1. CASE Opening(d)
  BY <1>1, SMTT(30)
     DEF Opening, TriggerStart, TriggerStop, OpenTx, OpenRx, Fresh, Closed, HalfOpen
<1>2. CASE Beginning(d)
  BY <1>2, SMTT(30)
     DEF Beginning, StreamStart, StreamCount, AfterStreamStart, BeginChannels,
         BeginStreaming
<1>3. CASE StartingRx(d)
  BY <1>3, SMTT(30)
     DEF StartingRx, StartRx, ArmRx, StartRxFailed
<1>4. CASE StartingTx(d)
  BY <1>4, SMTT(30)
     DEF StartingTx, StartTx, FillTx, EnableTx
<1>5. CASE Switching(d)
  BY <1>5, SMTT(30)
     DEF Switching, StartTxFailed, StartCallout, StreamStop
<1>6. CASE StoppingTx(d)
  BY <1>6, SMTT(30)
     DEF StoppingTx, StopTx, DisableTx, DrainTx
<1>7. CASE StoppingRx(d)
  BY <1>7, SMTT(30)
     DEF StoppingRx, StopRx, DisableRx, DrainRx
<1>8. CASE Finishing(d)
  BY <1>8, SMTT(30)
     DEF Finishing, CheckFinish, FinishStreaming, FinishChannels, FinishPause, Finished
<1>9. CASE CalloutStep
  BY <1>9, SMTT(30)
     DEF CalloutStep, CalloutFire, RefillEnter, RefillFill, RefillEnable, CalloutCheck,
         CalloutRearm
<1>10. CASE TxDone \/ RxDone
  BY <1>10, SMTT(30) DEF TxDone, RxDone
<1>11. CASE UNCHANGED vars
  BY <1>11, SMTT(30) DEF vars
<1>12. QED
  BY <1>1, <1>2, <1>3, <1>4, <1>5, <1>6, <1>7, <1>8, <1>9, <1>10, <1>11
     DEF SoloStep

LEMMA SoloInit == Solo /\ Init => SoloInv
<1> SUFFICES ASSUME Solo, Init PROVE SoloInv
  OBVIOUS
<1> SUFFICES ASSUME NEW d \in Dirs PROVE SoloOf(d)
  BY TypeInit DEF SoloInv
<1>1. /\ pc[d] = "idle" /\ ~started[d] /\ ~failing[d] /\ ~active[d]
      /\ activeStreams = 0 /\ useCount["tx"] = 0 /\ useCount["rx"] = 0
      /\ lock = "none" /\ co = "off" /\ cpc = "idle"
      /\ d \in {"pb", "cap"}
  BY DirsAssumption DEF Init, Streams, Ctx
<1>2. \A c \in Ctx : Quiet(iso[c])
  BY DEF Init, Quiet, Fresh, Closed, Context
<1>3. PathOf(d)
  BY <1>1 DEF PathOf, Running, StartLabels
<1>4. CountsOf(d)
  BY <1>1 DEF CountsOf, HoldsTx, HoldsRx, Running, Stopping
<1>5. QueuesOf(d)
  BY <1>1, <1>2 DEF QueuesOf, Ctx
<1>6. CalloutOf(d)
  BY <1>1 DEF CalloutOf
<1>7. SessionOf(d)
  BY <1>1 DEF SessionOf, InSession, Running, Stopping, StopLabels
<1>8. Others
  BY DEF Others, Init, Streams
<1>9. QED
  BY <1>3, <1>4, <1>5, <1>6, <1>7, <1>8 DEF SoloOf

LEMMA SoloNext == Solo /\ SoloInv /\ [Next]_vars => SoloInv'
<1> SUFFICES ASSUME Solo, SoloInv, [Next]_vars PROVE SoloInv'
  OBVIOUS
<1> SUFFICES ASSUME NEW d \in Dirs PROVE SoloOf(d)'
  BY ControlNext, WholeNext DEF SoloInv
<1>1. Dirs = {d} /\ d \in {"pb", "cap"} /\ d \in Streams
  BY DirsAssumption DEF Solo, Streams
<1>2. SoloTypes
  BY DEF SoloInv, ControlTypeOK, WholeContexts, SoloTypes, Ctx
<1>3. SoloOf(d)
  BY DEF SoloInv
<1>4. \/ Opening(d) \/ Beginning(d) \/ StartingRx(d) \/ StartingTx(d) \/ Switching(d)
      \/ StoppingTx(d) \/ StoppingRx(d) \/ Finishing(d)
      \/ CalloutStep \/ (TxDone \/ RxDone) \/ UNCHANGED vars
  <2>1. CASE \E e \in Dirs : TriggerStart(e) \/ TriggerStop(e) \/ StartStep(e) \/ StopStep(e)
    <3>1. TriggerStart(d) \/ TriggerStop(d) \/ StartStep(d) \/ StopStep(d)
      BY <1>1, <2>1, Zenon
    <3>2. QED
      BY <3>1, Zenon
         DEF StartStep, StopStep, Opening, Beginning, StartingRx, StartingTx, Switching,
             StoppingTx, StoppingRx, Finishing
  <2>2. QED
    BY <2>1, Zenon DEF Next
<1>5. SoloStep(d)
  BY <1>1, <1>2, <1>3, <1>4 DEF SoloStep
<1>6. QED
  BY <1>1, <1>5, PathKept, CountsKept, QueuesKept, CalloutKept, SessionKept, OthersKept
     DEF SoloOf

(***************************************************************************)
(* Once the only direction has been stopped, or has failed to start, both  *)
(* contexts are off and own all their chunks, whatever fails in between    *)
(* but an enable: the callout and the last interrupts cannot leave one     *)
(* running, nor a START that gives up half-way.                            *)
(***************************************************************************)
THEOREM SoloEnginesOff == Solo => (Spec => []EnginesOff)
<1> SUFFICES ASSUME Solo PROVE Spec => []EnginesOff
  OBVIOUS
<1>1. SoloInv => EnginesOff
  <2> SUFFICES ASSUME SoloInv, Quiescent, NEW c \in Ctx
               PROVE  ~iso[c].run /\ iso[c].stfree = iso[c].size
    BY DEF EnginesOff
  <2>1. PICK d \in Dirs : pc[d] = "idle" /\ ~started[d]
    BY DEF Solo, Quiescent, Streams
  <2>2. ~TxBusy(d) /\ ~RxBusy(d) /\ QueuesOf(d)
    BY <2>1 DEF SoloInv, SoloOf, TxBusy, RxBusy, HoldsTx, HoldsRx, Running, Stopping
  <2>3. Quiet(iso[c])
    BY <2>2 DEF QueuesOf, Ctx
  <2>4. Whole(iso[c])
    BY DEF SoloInv, WholeContexts
  <2>5. QED
    BY <2>3, <2>4 DEF Quiet, Whole, IsoContext
<1>2. Init => SoloInv
  BY SoloInit
<1>3. SoloInv /\ [Next]_vars => SoloInv'
  BY SoloNext
<1>4. QED
  BY <1>1, <1>2, <1>3, PTL DEF Spec

(***************************************************************************)
(* start_tx drains the transmit context while it is off and owns no chunk  *)
(* of a live descriptor program, as the comment at digi00x-pcm.c:603-610   *)
(* demands: no callout of an earlier session has enabled it before.        *)
(***************************************************************************)
THEOREM SoloStartDrainsIdle == Solo => (Spec => []StartDrainsIdleContext)
<1> SUFFICES ASSUME Solo PROVE Spec => []StartDrainsIdleContext
  OBVIOUS
<1>1. SoloInv => StartDrainsIdleContext
  <2> SUFFICES ASSUME SoloInv, NEW d \in Dirs, pc[d] = "s_txfill"
               PROVE  ~iso["tx"].run /\ iso["tx"].stdma = 0
    BY DEF StartDrainsIdleContext
  <2>1. ~TxBusy(d) /\ QueuesOf(d)
    BY DEF SoloInv, SoloOf, TxBusy
  <2>2. QED
    BY <2>1 DEF QueuesOf, Quiet
<1>2. Init => SoloInv
  BY SoloInit
<1>3. SoloInv /\ [Next]_vars => SoloInv'
  BY SoloNext
<1>4. QED
  BY <1>1, <1>2, <1>3, PTL DEF Spec

(***************************************************************************)
(* DMA runs only inside a device session (digi00x-pcm.c:533-539), provided *)
(* the writes to the device succeed: begin_session has set both registers  *)
(* before a context is enabled, and finish_session clears them after both  *)
(* are off.                                                                *)
(***************************************************************************)
THEOREM SoloDmaInSession ==
    Solo /\ "fw" \notin Faults => (Spec => []DmaOnlyInSession)
<1> SUFFICES ASSUME Solo, "fw" \notin Faults PROVE Spec => []DmaOnlyInSession
  OBVIOUS
<1>1. SoloInv => DmaOnlyInSession
  <2> SUFFICES ASSUME SoloInv, NEW c \in Ctx, iso[c].run PROVE chans /\ streaming
    BY DEF DmaOnlyInSession
  <2>1. PICK d \in Dirs : TRUE
    BY DEF Solo
  <2>2. TxBusy(d) \/ RxBusy(d)
    BY DEF SoloInv, SoloOf, QueuesOf, Quiet, Ctx
  <2>3. InSession(d)
    BY <2>2 DEF TxBusy, RxBusy, HoldsTx, HoldsRx, InSession, Running, Stopping, StopLabels
  <2>4. QED
    BY <2>3 DEF SoloInv, SoloOf, SessionOf
<1>2. Init => SoloInv
  BY SoloInit
<1>3. SoloInv /\ [Next]_vars => SoloInv'
  BY SoloNext
<1>4. QED
  BY <1>1, <1>2, <1>3, PTL DEF Spec

=============================================================================
