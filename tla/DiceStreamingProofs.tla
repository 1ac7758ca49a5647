------------------------- MODULE DiceStreamingProofs -------------------------
(***************************************************************************)
(* Theorems about DiceStreaming: the use counts of the shared contexts,    *)
(* the life of the callout, the watchdog and the end of a session, for     *)
(* every number of chunks, stall limit, and number of bus resets and of    *)
(* failing requests.                                                       *)
(***************************************************************************)
EXTENDS DiceStreaming, FiniteSetTheorems, TLAPS

Starting == {"s_test", "s_program", "s_active"}
Claiming == {"s_tx", "s_fill", "s_enable1", "s_enable2", "s_clear", "s_rx", "s_irx",
             "s_callout", "s_load", "s_store"}
Failing == {"e_tx", "e_rx", "e_inactive"}
Undoing == {"t_tx", "t_itx"}
Releasing == {"t_rx", "t_irx", "t_load", "t_store", "t_test", "t_disable"}

\* A direction is active from the middle of its START to the beginning of its
\* STOP, or of the undo of its START, and between the calls when it is started.
Flow ==
    /\ setting \in Settings
    /\ pc \in [Dirs -> Starting \cup Claiming \cup Failing \cup Undoing
                        \cup Releasing \cup {"idle", "return", "t_inactive"}]
    /\ todo \in [Dirs -> {"start", "stop", "fail"}]
    /\ chan \in [Dirs -> {"stopped", "started", "failed"}]
    /\ active \in [Dirs -> BOOLEAN]
    /\ saved \in [Dirs -> Int]
    /\ active_streams \in Int
    /\ \A d \in Dirs :
          /\ pc[d] \in Starting => ~active[d] /\ todo[d] = "start"
          /\ pc[d] \in Claiming => active[d] /\ todo[d] = "start"
          /\ pc[d] \in Failing => active[d] /\ todo[d] = "fail"
          /\ pc[d] = "t_inactive" => active[d] /\ todo[d] # "start"
          /\ pc[d] \in Undoing => ~active[d] /\ todo[d] # "start"
          /\ pc[d] \in Releasing => ~active[d] /\ todo[d] = "stop"
          /\ pc[d] = "return" => (active[d] <=> todo[d] = "start")
          /\ pc[d] = "idle" => (active[d] <=> chan[d] = "started")

\* One direction at a time.
Serial == ~setting.overlap => \E d \in Dirs : pc[Other(d)] = "idle"

Bit(b) == IF b THEN 1 ELSE 0

\* The use counts are exact but for the claims that a failing enable forgets.
Tallies ==
    /\ rx_use_count \in Nat /\ tx_use_count \in Nat
    /\ rx_use_count <= Bit(HoldsTx("play")) + Bit(HoldsTx("rec"))
    /\ "tx" \notin lost => rx_use_count = Bit(HoldsTx("play")) + Bit(HoldsTx("rec"))
    /\ tx_use_count <= Bit(HoldsRx("play")) + Bit(HoldsRx("rec"))
    /\ "rx" \notin lost => tx_use_count = Bit(HoldsRx("play")) + Bit(HoldsRx("rec"))

\* The direction is counted in active_streams.
Counted(d) ==
    \/ pc[d] \in {"t_inactive", "t_tx", "t_itx"} /\ todo[d] = "stop"
    \/ pc[d] \in {"t_rx", "t_irx", "t_load", "t_store"}
    \/ pc[d] \in {"idle", "return"} /\ active[d]

\* One direction at a time no update of active_streams is lost.
Exact ==
    ~setting.overlap =>
        /\ active_streams = Bit(Counted("play")) + Bit(Counted("rec"))
        /\ \A d \in Dirs :
              pc[d] \in {"s_store", "t_store"} => saved[d] = active_streams

\* One direction at a time the first user is alone until its contexts are
\* enabled, and the last one until they are disabled: nobody's claim is lost.
Alone ==
    ~setting.overlap =>
        /\ lost = {}
        /\ \A d \in Dirs :
              /\ pc[d] \in Enabling \cup {"s_clear"} => rx_use_count = 1
              /\ pc[d] \in {"s_irx", "e_rx"} => tx_use_count = 1
              /\ pc[d] = "t_itx" => rx_use_count = 0
              /\ pc[d] = "t_irx" => tx_use_count = 0
              /\ pc[d] = "t_disable" => active_streams = 0

\* The direction relies on the callout.
Relies(d) == active[d] /\ pc[d] \in {"s_load", "s_store", "return", "idle"}

Alive ==
    ~setting.overlap =>
        \A d \in Dirs : Relies(d) => co = "armed" \/ cpc # "idle"

-----------------------------------------------------------------------------
\* The contexts are enabled one by one.
LEMMA EnableTxStep ==
    ASSUME Flow, NEW d \in Dirs, EnableTx(d)
    PROVE  /\ pc[d] \in {"s_enable1", "s_enable2"}
           /\ \/ pc' = [pc EXCEPT ![d] = "s_enable2"] /\ UNCHANGED todo
              \/ pc' = [pc EXCEPT ![d] = "s_clear"] /\ UNCHANGED todo
              \/ /\ pc' = [pc EXCEPT ![d] = "e_tx"]
                 /\ todo' = [todo EXCEPT ![d] = "fail"]
           /\ UNCHANGED <<setting, chan, active, saved, active_streams, rx_use_count,
                          tx_use_count, plock, rxon, dev, tx_stall_ticks, tx_restart,
                          co, cpc, resets, stray, lost, missed>>
<1>1. PICK i \in Tx : EnableTx(d)!(i)
  BY DEF EnableTx
<1>2. i \in {1, 2}
  BY SettingsAssumption DEF Flow, Tx
<1>3. <<"s_enable1", "s_enable2">>[i] \in {"s_enable1", "s_enable2"}
  BY <1>2
<1>4. QED
  BY <1>1, <1>3 DEF Goto, counts, watch, callout, history

\* The callout and the bus leave the triggers' state alone.
LEMMA OtherSteps ==
    ASSUME CalloutStep \/ (\E i \in Tx : TxDone(i)) \/ BusReset \/ UNCHANGED vars
    PROVE  UNCHANGED <<setting, pc, todo, chan, active, saved, active_streams,
                       rx_use_count, tx_use_count, lost>>
<1> USE DEF threads, counts, history
<1>1. CASE CalloutStep
  BY <1>1 DEF CalloutStep, CalloutFire, Refill, RefillSkip, RefillEnable, RestartTest,
              RestartProgram, RestartDisable, RestartFill, RestartEnable, CheckActive,
              Rearm
<1>2. CASE \E i \in Tx : TxDone(i)
  BY <1>2 DEF TxDone
<1>3. CASE BusReset
  BY <1>3 DEF BusReset
<1>4. CASE UNCHANGED vars
  BY <1>4 DEF vars
<1>5. QED
  BY <1>1, <1>2, <1>3, <1>4

\* Each step of a trigger leads from one of its phases to the next.
LEMMA FlowNext ==
    ASSUME Flow, [Next]_vars
    PROVE  Flow'
<1> USE DEF Dirs, Other, threads, counts, host, watch, callout, faulty, history, Goto, Flow,
           Starting, Claiming, Failing, Undoing, Releasing
<1>1. ASSUME NEW d \in Dirs, BeginTrigger(d) PROVE Flow'
  BY <1>1 DEF BeginTrigger
<1>2. ASSUME NEW d \in Dirs, Return(d) PROVE Flow'
  BY <1>2 DEF Return
<1>3. ASSUME NEW d \in Dirs, TestIdle(d) PROVE Flow'
  BY <1>3 DEF TestIdle, Fail, Strays
<1>4. ASSUME NEW d \in Dirs, ProgramDevice(d) PROVE Flow'
  <2>1. CASE Fail(d)
    BY <1>4, <2>1 DEF ProgramDevice, Fail
  <2>2. CASE Goto(d, "s_active") /\ UNCHANGED todo
    BY <1>4, <2>2 DEF ProgramDevice
  <2>3. QED
    BY <1>4, <2>1, <2>2 DEF ProgramDevice
<1>5. ASSUME NEW d \in Dirs, Activate(d) PROVE Flow'
  BY <1>5 DEF Activate
<1>6. ASSUME NEW d \in Dirs, ClaimTx(d) PROVE Flow'
  BY <1>6 DEF ClaimTx
<1>7. ASSUME NEW d \in Dirs, FillTx(d) PROVE Flow'
  BY <1>7 DEF FillTx
<1>8. ASSUME NEW d \in Dirs, EnableTx(d) PROVE Flow'
  BY <1>8, EnableTxStep
<1>9. ASSUME NEW d \in Dirs, ForgetTx(d) PROVE Flow'
  BY <1>9 DEF ForgetTx, Strays
<1>10. ASSUME NEW d \in Dirs, ClearWatch(d) PROVE Flow'
  BY <1>10 DEF ClearWatch
<1>11. ASSUME NEW d \in Dirs, ClaimRx(d) PROVE Flow'
  BY <1>11 DEF ClaimRx
<1>12. ASSUME NEW d \in Dirs, EnableRx(d) PROVE Flow'
  BY <1>12 DEF EnableRx
<1>13. ASSUME NEW d \in Dirs, ForgetRx(d) PROVE Flow'
  BY <1>13 DEF ForgetRx, Strays
<1>14. ASSUME NEW d \in Dirs, ArmCallout(d) PROVE Flow'
  BY <1>14 DEF ArmCallout
<1>15. ASSUME NEW d \in Dirs, LoadCount(d) PROVE Flow'
  BY <1>15 DEF LoadCount
<1>16. ASSUME NEW d \in Dirs, CountStream(d) PROVE Flow'
  BY <1>16 DEF CountStream
<1>17. ASSUME NEW d \in Dirs, Deactivate(d) PROVE Flow'
  BY <1>17 DEF Deactivate
<1>18. ASSUME NEW d \in Dirs, ReleaseTx(d) PROVE Flow'
  BY <1>18 DEF ReleaseTx, AfterTx
<1>19. ASSUME NEW d \in Dirs, DisableTx(d) PROVE Flow'
  BY <1>19 DEF DisableTx, AfterTx
<1>20. ASSUME NEW d \in Dirs, ReleaseRx(d) PROVE Flow'
  BY <1>20 DEF ReleaseRx
<1>21. ASSUME NEW d \in Dirs, DisableRx(d) PROVE Flow'
  BY <1>21 DEF DisableRx
<1>22. ASSUME NEW d \in Dirs, UnloadCount(d) PROVE Flow'
  BY <1>22 DEF UnloadCount
<1>23. ASSUME NEW d \in Dirs, UncountStream(d) PROVE Flow'
  BY <1>23 DEF UncountStream
<1>24. ASSUME NEW d \in Dirs, TestLast(d) PROVE Flow'
  BY <1>24 DEF TestLast
<1>25. ASSUME NEW d \in Dirs, DisableDevice(d) PROVE Flow'
  BY <1>25 DEF DisableDevice, Strays
<1>26. ASSUME CalloutStep \/ (\E i \in Tx : TxDone(i)) \/ BusReset \/ UNCHANGED vars
      PROVE  Flow'
  BY <1>26, OtherSteps
<1>27. QED
  BY <1>1, <1>2, <1>3, <1>4, <1>5, <1>6, <1>7, <1>8, <1>9, <1>10, <1>11, <1>12,
     <1>13, <1>14, <1>15, <1>16, <1>17, <1>18, <1>19, <1>20, <1>21, <1>22, <1>23,
     <1>24, <1>25, <1>26
     DEF Next, TriggerStep, StartStep, StopStep

\* BeginTrigger waits for the other direction.
LEMMA SerialNext ==
    ASSUME Flow, Serial, [Next]_vars
    PROVE  Serial'
<1> USE DEF Dirs, Other, threads, counts, host, watch, callout, faulty, history, Goto, Flow,
           Starting, Claiming, Failing, Undoing, Releasing, Serial
<1>1. ASSUME NEW d \in Dirs, BeginTrigger(d) PROVE Serial'
  BY <1>1 DEF BeginTrigger
<1>2. ASSUME NEW d \in Dirs, Return(d) PROVE Serial'
  BY <1>2 DEF Return
<1>3. ASSUME NEW d \in Dirs, TestIdle(d) PROVE Serial'
  BY <1>3 DEF TestIdle, Fail, Strays
<1>4. ASSUME NEW d \in Dirs, ProgramDevice(d) PROVE Serial'
  BY <1>4 DEF ProgramDevice, Fail, Strays
<1>5. ASSUME NEW d \in Dirs, Activate(d) PROVE Serial'
  BY <1>5 DEF Activate
<1>6. ASSUME NEW d \in Dirs, ClaimTx(d) PROVE Serial'
  BY <1>6 DEF ClaimTx
<1>7. ASSUME NEW d \in Dirs, FillTx(d) PROVE Serial'
  BY <1>7 DEF FillTx
<1>8. ASSUME NEW d \in Dirs, EnableTx(d) PROVE Serial'
  BY <1>8, EnableTxStep
<1>9. ASSUME NEW d \in Dirs, ForgetTx(d) PROVE Serial'
  BY <1>9 DEF ForgetTx, Strays
<1>10. ASSUME NEW d \in Dirs, ClearWatch(d) PROVE Serial'
  BY <1>10 DEF ClearWatch
<1>11. ASSUME NEW d \in Dirs, ClaimRx(d) PROVE Serial'
  BY <1>11 DEF ClaimRx
<1>12. ASSUME NEW d \in Dirs, EnableRx(d) PROVE Serial'
  BY <1>12 DEF EnableRx
<1>13. ASSUME NEW d \in Dirs, ForgetRx(d) PROVE Serial'
  BY <1>13 DEF ForgetRx, Strays
<1>14. ASSUME NEW d \in Dirs, ArmCallout(d) PROVE Serial'
  BY <1>14 DEF ArmCallout
<1>15. ASSUME NEW d \in Dirs, LoadCount(d) PROVE Serial'
  BY <1>15 DEF LoadCount
<1>16. ASSUME NEW d \in Dirs, CountStream(d) PROVE Serial'
  BY <1>16 DEF CountStream
<1>17. ASSUME NEW d \in Dirs, Deactivate(d) PROVE Serial'
  BY <1>17 DEF Deactivate
<1>18. ASSUME NEW d \in Dirs, ReleaseTx(d) PROVE Serial'
  BY <1>18 DEF ReleaseTx, AfterTx
<1>19. ASSUME NEW d \in Dirs, DisableTx(d) PROVE Serial'
  BY <1>19 DEF DisableTx, AfterTx
<1>20. ASSUME NEW d \in Dirs, ReleaseRx(d) PROVE Serial'
  BY <1>20 DEF ReleaseRx
<1>21. ASSUME NEW d \in Dirs, DisableRx(d) PROVE Serial'
  BY <1>21 DEF DisableRx
<1>22. ASSUME NEW d \in Dirs, UnloadCount(d) PROVE Serial'
  BY <1>22 DEF UnloadCount
<1>23. ASSUME NEW d \in Dirs, UncountStream(d) PROVE Serial'
  BY <1>23 DEF UncountStream
<1>24. ASSUME NEW d \in Dirs, TestLast(d) PROVE Serial'
  BY <1>24 DEF TestLast
<1>25. ASSUME NEW d \in Dirs, DisableDevice(d) PROVE Serial'
  BY <1>25 DEF DisableDevice, Strays
<1>26. ASSUME CalloutStep \/ (\E i \in Tx : TxDone(i)) \/ BusReset \/ UNCHANGED vars
      PROVE  Serial'
  BY <1>26, OtherSteps
<1>27. QED
  BY <1>1, <1>2, <1>3, <1>4, <1>5, <1>6, <1>7, <1>8, <1>9, <1>10, <1>11, <1>12,
     <1>13, <1>14, <1>15, <1>16, <1>17, <1>18, <1>19, <1>20, <1>21, <1>22, <1>23,
     <1>24, <1>25, <1>26
     DEF Next, TriggerStep, StartStep, StopStep

\* A claim adds one, a release takes it back, a failing enable takes all.
LEMMA TalliesNext ==
    ASSUME Flow, Tallies, [Next]_vars
    PROVE  Tallies'
<1> USE DEF Dirs, Other, threads, counts, host, watch, callout, faulty, history, Goto, Flow,
           Starting, Claiming, Failing, Undoing, Releasing,
           Tallies, Bit, HoldsTx, HoldsRx, Enabling
<1>1. ASSUME NEW d \in Dirs, BeginTrigger(d) PROVE Tallies'
  BY <1>1 DEF BeginTrigger
<1>2. ASSUME NEW d \in Dirs, Return(d) PROVE Tallies'
  BY <1>2 DEF Return
<1>3. ASSUME NEW d \in Dirs, TestIdle(d) PROVE Tallies'
  BY <1>3 DEF TestIdle, Fail, Strays
<1>4. ASSUME NEW d \in Dirs, ProgramDevice(d) PROVE Tallies'
  <2>1. CASE Fail(d)
    BY <1>4, <2>1 DEF ProgramDevice, Fail
  <2>2. CASE Goto(d, "s_active") /\ UNCHANGED todo
    BY <1>4, <2>2 DEF ProgramDevice
  <2>3. QED
    BY <1>4, <2>1, <2>2 DEF ProgramDevice
<1>5. ASSUME NEW d \in Dirs, Activate(d) PROVE Tallies'
  BY <1>5 DEF Activate
<1>6. ASSUME NEW d \in Dirs, ClaimTx(d) PROVE Tallies'
  BY <1>6 DEF ClaimTx
<1>7. ASSUME NEW d \in Dirs, FillTx(d) PROVE Tallies'
  BY <1>7 DEF FillTx
<1>8. ASSUME NEW d \in Dirs, EnableTx(d) PROVE Tallies'
  BY <1>8, EnableTxStep
<1>9. ASSUME NEW d \in Dirs, ForgetTx(d) PROVE Tallies'
  BY <1>9 DEF ForgetTx, Strays
<1>10. ASSUME NEW d \in Dirs, ClearWatch(d) PROVE Tallies'
  BY <1>10 DEF ClearWatch
<1>11. ASSUME NEW d \in Dirs, ClaimRx(d) PROVE Tallies'
  BY <1>11 DEF ClaimRx
<1>12. ASSUME NEW d \in Dirs, EnableRx(d) PROVE Tallies'
  BY <1>12 DEF EnableRx
<1>13. ASSUME NEW d \in Dirs, ForgetRx(d) PROVE Tallies'
  BY <1>13 DEF ForgetRx, Strays
<1>14. ASSUME NEW d \in Dirs, ArmCallout(d) PROVE Tallies'
  BY <1>14 DEF ArmCallout
<1>15. ASSUME NEW d \in Dirs, LoadCount(d) PROVE Tallies'
  BY <1>15 DEF LoadCount
<1>16. ASSUME NEW d \in Dirs, CountStream(d) PROVE Tallies'
  BY <1>16 DEF CountStream
<1>17. ASSUME NEW d \in Dirs, Deactivate(d) PROVE Tallies'
  BY <1>17 DEF Deactivate
<1>18. ASSUME NEW d \in Dirs, ReleaseTx(d) PROVE Tallies'
  BY <1>18 DEF ReleaseTx, AfterTx
<1>19. ASSUME NEW d \in Dirs, DisableTx(d) PROVE Tallies'
  BY <1>19 DEF DisableTx, AfterTx
<1>20. ASSUME NEW d \in Dirs, ReleaseRx(d) PROVE Tallies'
  BY <1>20 DEF ReleaseRx
<1>21. ASSUME NEW d \in Dirs, DisableRx(d) PROVE Tallies'
  BY <1>21 DEF DisableRx
<1>22. ASSUME NEW d \in Dirs, UnloadCount(d) PROVE Tallies'
  BY <1>22 DEF UnloadCount
<1>23. ASSUME NEW d \in Dirs, UncountStream(d) PROVE Tallies'
  BY <1>23 DEF UncountStream
<1>24. ASSUME NEW d \in Dirs, TestLast(d) PROVE Tallies'
  BY <1>24 DEF TestLast
<1>25. ASSUME NEW d \in Dirs, DisableDevice(d) PROVE Tallies'
  BY <1>25 DEF DisableDevice, Strays
<1>26. ASSUME CalloutStep \/ (\E i \in Tx : TxDone(i)) \/ BusReset \/ UNCHANGED vars
      PROVE  Tallies'
  BY <1>26, OtherSteps
<1>27. QED
  BY <1>1, <1>2, <1>3, <1>4, <1>5, <1>6, <1>7, <1>8, <1>9, <1>10, <1>11, <1>12,
     <1>13, <1>14, <1>15, <1>16, <1>17, <1>18, <1>19, <1>20, <1>21, <1>22, <1>23,
     <1>24, <1>25, <1>26
     DEF Next, TriggerStep, StartStep, StopStep

\* active_streams is loaded and stored by one direction at a time.
LEMMA ExactNext ==
    ASSUME Flow, Serial, Exact, [Next]_vars
    PROVE  Exact'
<1> USE DEF Dirs, Other, threads, counts, host, watch, callout, faulty, history, Goto, Flow,
           Starting, Claiming, Failing, Undoing, Releasing,
           Serial, Exact, Bit, Counted
<1>1. ASSUME NEW d \in Dirs, BeginTrigger(d) PROVE Exact'
  BY <1>1 DEF BeginTrigger
<1>2. ASSUME NEW d \in Dirs, Return(d) PROVE Exact'
  BY <1>2 DEF Return
<1>3. ASSUME NEW d \in Dirs, TestIdle(d) PROVE Exact'
  BY <1>3 DEF TestIdle, Fail, Strays
<1>4. ASSUME NEW d \in Dirs, ProgramDevice(d) PROVE Exact'
  BY <1>4 DEF ProgramDevice, Fail, Strays
<1>5. ASSUME NEW d \in Dirs, Activate(d) PROVE Exact'
  BY <1>5 DEF Activate
<1>6. ASSUME NEW d \in Dirs, ClaimTx(d) PROVE Exact'
  BY <1>6 DEF ClaimTx
<1>7. ASSUME NEW d \in Dirs, FillTx(d) PROVE Exact'
  BY <1>7 DEF FillTx
<1>8. ASSUME NEW d \in Dirs, EnableTx(d) PROVE Exact'
  BY <1>8, EnableTxStep
<1>9. ASSUME NEW d \in Dirs, ForgetTx(d) PROVE Exact'
  BY <1>9 DEF ForgetTx, Strays
<1>10. ASSUME NEW d \in Dirs, ClearWatch(d) PROVE Exact'
  BY <1>10 DEF ClearWatch
<1>11. ASSUME NEW d \in Dirs, ClaimRx(d) PROVE Exact'
  BY <1>11 DEF ClaimRx
<1>12. ASSUME NEW d \in Dirs, EnableRx(d) PROVE Exact'
  BY <1>12 DEF EnableRx
<1>13. ASSUME NEW d \in Dirs, ForgetRx(d) PROVE Exact'
  BY <1>13 DEF ForgetRx, Strays
<1>14. ASSUME NEW d \in Dirs, ArmCallout(d) PROVE Exact'
  BY <1>14 DEF ArmCallout
<1>15. ASSUME NEW d \in Dirs, LoadCount(d) PROVE Exact'
  BY <1>15 DEF LoadCount
<1>16. ASSUME NEW d \in Dirs, CountStream(d) PROVE Exact'
  BY <1>16 DEF CountStream
<1>17. ASSUME NEW d \in Dirs, Deactivate(d) PROVE Exact'
  BY <1>17 DEF Deactivate
<1>18. ASSUME NEW d \in Dirs, ReleaseTx(d) PROVE Exact'
  BY <1>18 DEF ReleaseTx, AfterTx
<1>19. ASSUME NEW d \in Dirs, DisableTx(d) PROVE Exact'
  BY <1>19 DEF DisableTx, AfterTx
<1>20. ASSUME NEW d \in Dirs, ReleaseRx(d) PROVE Exact'
  BY <1>20 DEF ReleaseRx
<1>21. ASSUME NEW d \in Dirs, DisableRx(d) PROVE Exact'
  BY <1>21 DEF DisableRx
<1>22. ASSUME NEW d \in Dirs, UnloadCount(d) PROVE Exact'
  BY <1>22 DEF UnloadCount
<1>23. ASSUME NEW d \in Dirs, UncountStream(d) PROVE Exact'
  BY <1>23 DEF UncountStream
<1>24. ASSUME NEW d \in Dirs, TestLast(d) PROVE Exact'
  BY <1>24 DEF TestLast
<1>25. ASSUME NEW d \in Dirs, DisableDevice(d) PROVE Exact'
  BY <1>25 DEF DisableDevice, Strays
<1>26. ASSUME CalloutStep \/ (\E i \in Tx : TxDone(i)) \/ BusReset \/ UNCHANGED vars
      PROVE  Exact'
  BY <1>26, OtherSteps
<1>27. QED
  BY <1>1, <1>2, <1>3, <1>4, <1>5, <1>6, <1>7, <1>8, <1>9, <1>10, <1>11, <1>12,
     <1>13, <1>14, <1>15, <1>16, <1>17, <1>18, <1>19, <1>20, <1>21, <1>22, <1>23,
     <1>24, <1>25, <1>26
     DEF Next, TriggerStep, StartStep, StopStep

\* The steps that change who holds the shared contexts.
LEMMA AloneNext ==
    ASSUME Flow, Serial, Tallies, Alone, [Next]_vars
    PROVE  Alone'
<1> USE DEF Dirs, Other, threads, counts, host, watch, callout, faulty, history, Goto, Flow,
           Starting, Claiming, Failing, Undoing, Releasing,
           Serial, Alone, Enabling
<1>1. ASSUME NEW d \in Dirs, BeginTrigger(d) PROVE Alone'
  BY <1>1 DEF BeginTrigger
<1>2. ASSUME NEW d \in Dirs, Return(d) PROVE Alone'
  BY <1>2 DEF Return
<1>3. ASSUME NEW d \in Dirs, TestIdle(d) PROVE Alone'
  BY <1>3 DEF TestIdle, Fail, Strays
<1>4. ASSUME NEW d \in Dirs, ProgramDevice(d) PROVE Alone'
  <2>1. CASE Fail(d)
    BY <1>4, <2>1 DEF ProgramDevice, Fail
  <2>2. CASE Goto(d, "s_active") /\ UNCHANGED todo
    BY <1>4, <2>2 DEF ProgramDevice
  <2>3. QED
    BY <1>4, <2>1, <2>2 DEF ProgramDevice
<1>5. ASSUME NEW d \in Dirs, Activate(d) PROVE Alone'
  BY <1>5 DEF Activate
<1>6. ASSUME NEW d \in Dirs, ClaimTx(d) PROVE Alone'
  <2>1. rx_use_count \in Nat /\ tx_use_count \in Nat
    BY DEF Tallies
  <2>2. QED
    BY <1>6, <2>1 DEF ClaimTx
<1>7. ASSUME NEW d \in Dirs, FillTx(d) PROVE Alone'
  BY <1>7 DEF FillTx
<1>8. ASSUME NEW d \in Dirs, EnableTx(d) PROVE Alone'
  BY <1>8, EnableTxStep
<1>9. ASSUME NEW d \in Dirs, ForgetTx(d) PROVE Alone'
  BY <1>9 DEF ForgetTx, Strays
<1>10. ASSUME NEW d \in Dirs, ClearWatch(d) PROVE Alone'
  BY <1>10 DEF ClearWatch
<1>11. ASSUME NEW d \in Dirs, ClaimRx(d) PROVE Alone'
  <2>1. rx_use_count \in Nat /\ tx_use_count \in Nat
    BY DEF Tallies
  <2>2. QED
    BY <1>11, <2>1 DEF ClaimRx
<1>12. ASSUME NEW d \in Dirs, EnableRx(d) PROVE Alone'
  BY <1>12 DEF EnableRx
<1>13. ASSUME NEW d \in Dirs, ForgetRx(d) PROVE Alone'
  BY <1>13 DEF ForgetRx, Strays
<1>14. ASSUME NEW d \in Dirs, ArmCallout(d) PROVE Alone'
  BY <1>14 DEF ArmCallout
<1>15. ASSUME NEW d \in Dirs, LoadCount(d) PROVE Alone'
  BY <1>15 DEF LoadCount
<1>16. ASSUME NEW d \in Dirs, CountStream(d) PROVE Alone'
  BY <1>16 DEF CountStream
<1>17. ASSUME NEW d \in Dirs, Deactivate(d) PROVE Alone'
  BY <1>17 DEF Deactivate
<1>18. ASSUME NEW d \in Dirs, ReleaseTx(d) PROVE Alone'
  BY <1>18 DEF ReleaseTx, AfterTx
<1>19. ASSUME NEW d \in Dirs, DisableTx(d) PROVE Alone'
  BY <1>19 DEF DisableTx, AfterTx
<1>20. ASSUME NEW d \in Dirs, ReleaseRx(d) PROVE Alone'
  BY <1>20 DEF ReleaseRx
<1>21. ASSUME NEW d \in Dirs, DisableRx(d) PROVE Alone'
  BY <1>21 DEF DisableRx
<1>22. ASSUME NEW d \in Dirs, UnloadCount(d) PROVE Alone'
  BY <1>22 DEF UnloadCount
<1>23. ASSUME NEW d \in Dirs, UncountStream(d) PROVE Alone'
  BY <1>23 DEF UncountStream
<1>24. ASSUME NEW d \in Dirs, TestLast(d) PROVE Alone'
  BY <1>24 DEF TestLast
<1>25. ASSUME NEW d \in Dirs, DisableDevice(d) PROVE Alone'
  BY <1>25 DEF DisableDevice, Strays
<1>26. ASSUME CalloutStep \/ (\E i \in Tx : TxDone(i)) \/ BusReset \/ UNCHANGED vars
      PROVE  Alone'
  BY <1>26, OtherSteps
<1>27. QED
  BY <1>1, <1>2, <1>3, <1>4, <1>5, <1>6, <1>7, <1>8, <1>9, <1>10, <1>11, <1>12,
     <1>13, <1>14, <1>15, <1>16, <1>17, <1>18, <1>19, <1>20, <1>21, <1>22, <1>23,
     <1>24, <1>25, <1>26
     DEF Next, TriggerStep, StartStep, StopStep

\* The START that does not arm the callout finds it armed for the other
\* direction; a handler that ends has seen both directions inactive.
LEMMA AliveNext ==
    ASSUME Flow, Serial, Exact, Alive, [Next]_vars
    PROVE  Alive'
<1> USE DEF Dirs, Other, threads, counts, host, watch, callout, faulty, history, Goto, Flow,
           Starting, Claiming, Failing, Undoing, Releasing,
           Serial, Alive, Relies
<1>1. ASSUME NEW d \in Dirs, BeginTrigger(d) PROVE Alive'
  BY <1>1 DEF BeginTrigger
<1>2. ASSUME NEW d \in Dirs, Return(d) PROVE Alive'
  BY <1>2 DEF Return
<1>3. ASSUME NEW d \in Dirs, TestIdle(d) PROVE Alive'
  BY <1>3 DEF TestIdle, Fail, Strays
<1>4. ASSUME NEW d \in Dirs, ProgramDevice(d) PROVE Alive'
  <2>1. CASE Fail(d)
    BY <1>4, <2>1 DEF ProgramDevice, Fail
  <2>2. CASE Goto(d, "s_active") /\ UNCHANGED todo
    BY <1>4, <2>2 DEF ProgramDevice
  <2>3. QED
    BY <1>4, <2>1, <2>2 DEF ProgramDevice
<1>5. ASSUME NEW d \in Dirs, Activate(d) PROVE Alive'
  BY <1>5 DEF Activate
<1>6. ASSUME NEW d \in Dirs, ClaimTx(d) PROVE Alive'
  BY <1>6 DEF ClaimTx
<1>7. ASSUME NEW d \in Dirs, FillTx(d) PROVE Alive'
  BY <1>7 DEF FillTx
<1>8. ASSUME NEW d \in Dirs, EnableTx(d) PROVE Alive'
  BY <1>8, EnableTxStep
<1>9. ASSUME NEW d \in Dirs, ForgetTx(d) PROVE Alive'
  BY <1>9 DEF ForgetTx, Strays
<1>10. ASSUME NEW d \in Dirs, ClearWatch(d) PROVE Alive'
  BY <1>10 DEF ClearWatch
<1>11. ASSUME NEW d \in Dirs, ClaimRx(d) PROVE Alive'
  BY <1>11 DEF ClaimRx
<1>12. ASSUME NEW d \in Dirs, EnableRx(d) PROVE Alive'
  BY <1>12 DEF EnableRx
<1>13. ASSUME NEW d \in Dirs, ForgetRx(d) PROVE Alive'
  BY <1>13 DEF ForgetRx, Strays
<1>14. ASSUME NEW d \in Dirs, ArmCallout(d) PROVE Alive'
  BY <1>14 DEF ArmCallout, Exact, Bit, Counted
<1>15. ASSUME NEW d \in Dirs, LoadCount(d) PROVE Alive'
  BY <1>15 DEF LoadCount
<1>16. ASSUME NEW d \in Dirs, CountStream(d) PROVE Alive'
  BY <1>16 DEF CountStream
<1>17. ASSUME NEW d \in Dirs, Deactivate(d) PROVE Alive'
  BY <1>17 DEF Deactivate
<1>18. ASSUME NEW d \in Dirs, ReleaseTx(d) PROVE Alive'
  BY <1>18 DEF ReleaseTx, AfterTx
<1>19. ASSUME NEW d \in Dirs, DisableTx(d) PROVE Alive'
  BY <1>19 DEF DisableTx, AfterTx
<1>20. ASSUME NEW d \in Dirs, ReleaseRx(d) PROVE Alive'
  BY <1>20 DEF ReleaseRx
<1>21. ASSUME NEW d \in Dirs, DisableRx(d) PROVE Alive'
  BY <1>21 DEF DisableRx
<1>22. ASSUME NEW d \in Dirs, UnloadCount(d) PROVE Alive'
  BY <1>22 DEF UnloadCount
<1>23. ASSUME NEW d \in Dirs, UncountStream(d) PROVE Alive'
  BY <1>23 DEF UncountStream
<1>24. ASSUME NEW d \in Dirs, TestLast(d) PROVE Alive'
  BY <1>24 DEF TestLast
<1>25. ASSUME NEW d \in Dirs, DisableDevice(d) PROVE Alive'
  BY <1>25 DEF DisableDevice, Strays
<1>26. CASE CalloutFire
  BY <1>26 DEF CalloutFire
<1>27. CASE Refill
  BY <1>27 DEF Refill, RefillFill, RefillStall
<1>28. CASE RefillSkip
  BY <1>28 DEF RefillSkip
<1>29. CASE RefillEnable
  BY <1>29 DEF RefillEnable, EnableAll, Strays
<1>30. CASE RestartTest
  BY <1>30 DEF RestartTest
<1>31. CASE RestartProgram
  BY <1>31 DEF RestartProgram, Strays
<1>32. CASE RestartDisable
  BY <1>32 DEF RestartDisable
<1>33. CASE RestartFill
  BY <1>33 DEF RestartFill
<1>34. CASE RestartEnable
  BY <1>34 DEF RestartEnable, EnableAll, Strays
<1>35. CASE CheckActive
  BY <1>35 DEF CheckActive
<1>36. CASE Rearm
  BY <1>36 DEF Rearm
<1>37. CASE (\E i \in Tx : TxDone(i)) \/ BusReset \/ UNCHANGED vars
  BY <1>37 DEF TxDone, BusReset, vars
<1>38. QED
  BY <1>1, <1>2, <1>3, <1>4, <1>5, <1>6, <1>7, <1>8, <1>9, <1>10, <1>11, <1>12,
     <1>13, <1>14, <1>15, <1>16, <1>17, <1>18, <1>19, <1>20, <1>21, <1>22, <1>23,
     <1>24, <1>25, <1>26, <1>27, <1>28, <1>29, <1>30, <1>31, <1>32, <1>33, <1>34,
     <1>35, <1>36, <1>37
     DEF Next, TriggerStep, StartStep, StopStep, CalloutStep

-----------------------------------------------------------------------------
LEMMA DirsSize ==
    /\ Cardinality({}) = 0
    /\ Cardinality({"play"}) = 1 /\ Cardinality({"rec"}) = 1
    /\ Cardinality({"play"} \cup {"rec"}) = 2
<1>1. Cardinality({}) = 0 /\ Cardinality({"play"}) = 1 /\ Cardinality({"rec"}) = 1
  BY FS_EmptySet, FS_Singleton
<1>2. IsFiniteSet({"rec"}) /\ "play" \notin {"rec"}
  BY FS_Singleton
<1>3. Cardinality({"rec"} \cup {"play"}) = Cardinality({"rec"}) + 1
  BY <1>2, FS_AddElement
<1>4. {"play"} \cup {"rec"} = {"rec"} \cup {"play"}
  OBVIOUS
<1>5. QED
  BY <1>1, <1>3, <1>4

\* What the triggers keep to, whatever the callout and the bus do.
Shared == Flow /\ Serial /\ Tallies /\ Exact /\ Alone

LEMMA SharedInit == ASSUME Init PROVE Shared
<1>1. Flow /\ Tallies /\ Exact
  BY DEF Init, Flow, Tallies, Exact, Bit, HoldsTx, HoldsRx, Counted, Dirs, Starting,
         Claiming, Failing, Undoing, Releasing, Enabling
<1>2. Serial /\ Alone
  BY DEF Init, Serial, Alone, Other, Dirs, Enabling
<1>3. QED
  BY <1>1, <1>2 DEF Shared

LEMMA SharedNext == ASSUME Shared, [Next]_vars PROVE Shared'
BY FlowNext, SerialNext, TalliesNext, ExactNext, AloneNext DEF Shared

\* The use counts of the shared contexts are the directions that hold them, in
\* every interleaving of the two triggers and whichever request fails, up to the
\* claims that a failing enable forgets; those it never raises, and triggers one
\* after the other lose none (dice_ensure_host_tx, _rx and their releases).
THEOREM UseCountsAlwaysMatch == Spec => []UseCountsMatch
<1>1. Init => Shared
  BY SharedInit
<1>2. Shared /\ [Next]_vars => Shared'
  BY SharedNext
<1>3. Shared => UseCountsMatch
  <2> SUFFICES ASSUME Shared PROVE UseCountsMatch
    OBVIOUS
  <2> DEFINE T == {d \in Dirs : HoldsTx(d)}
             X == {d \in Dirs : HoldsRx(d)}
  <2>1. Cardinality(T) = Bit(HoldsTx("play")) + Bit(HoldsTx("rec"))
    <3>1. T = (IF HoldsTx("play") THEN {"play"} ELSE {})
                \cup (IF HoldsTx("rec") THEN {"rec"} ELSE {})
      BY DEF Dirs
    <3>2. QED
      BY <3>1, DirsSize DEF Bit
  <2>2. Cardinality(X) = Bit(HoldsRx("play")) + Bit(HoldsRx("rec"))
    <3>1. X = (IF HoldsRx("play") THEN {"play"} ELSE {})
                \cup (IF HoldsRx("rec") THEN {"rec"} ELSE {})
      BY DEF Dirs
    <3>2. QED
      BY <3>1, DirsSize DEF Bit
  <2>3. QED
    BY <2>1, <2>2 DEF UseCountsMatch, Shared, Tallies, Alone
<1>4. QED
  BY <1>1, <1>2, <1>3, PTL DEF Spec

\* When the directions are triggered one at a time, the callout lives as long as
\* a started direction needs it, although only the START that leaves idle arms
\* it and the handler ends by itself (dice_pcm_stream_cb), whichever request of
\* a START or of the callout fails.
THEOREM CalloutAlwaysAlive == Spec => []CalloutAlive
<1>1. Init => Shared /\ Alive
  BY SharedInit DEF Init, Alive, Relies
<1>2. Shared /\ Alive /\ [Next]_vars => Shared' /\ Alive'
  BY SharedNext, AliveNext DEF Shared
<1>3. Shared /\ Alive => CalloutAlive
  BY DEF Shared, Flow, Alive, Relies, CalloutAlive
<1>4. QED
  BY <1>1, <1>2, <1>3, PTL DEF Spec

-----------------------------------------------------------------------------
(* The end of a session                                                    *)

\* What a direction holds is counted.
LEMMA Holding ==
    ASSUME Flow, Tallies, Exact, NEW d \in Dirs
    PROVE  /\ HoldsTx(d) /\ "tx" \notin lost => rx_use_count > 0
           /\ HoldsRx(d) /\ "rx" \notin lost => tx_use_count > 0
           /\ ~setting.overlap /\ Counted(d) => active_streams > 0
           /\ ~setting.overlap => active_streams \in Nat
           /\ rx_use_count \in Nat /\ tx_use_count \in Nat
BY DEF Tallies, Exact, Bit, Dirs

\* Who has switched something on will switch it off: contexts without a user are
\* off, or their last user is about to disable them, or they are left on; the
\* same of the device when the directions are triggered one at a time.
TxOwned ==
    {"tx"} \cap (stray \cup lost) = {} /\ (\E i \in 1 .. 2 : on[i] # "off") =>
        rx_use_count > 0 \/ \E d \in Dirs : pc[d] = "t_itx"
RxOwned ==
    {"rx"} \cap (stray \cup lost) = {} /\ rxon # "off" =>
        tx_use_count > 0 \/ \E d \in Dirs : pc[d] = "t_irx"
Session == Claiming \cup {"s_active", "e_tx", "e_rx", "t_test", "t_disable"}
DevOwned ==
    ~setting.overlap /\ "dev" \notin stray /\ dev =>
        active_streams > 0 \/ \E d \in Dirs : pc[d] \in Session

\* The last user of the transmit contexts disables them.
LEMMA TxOwnedNext ==
    ASSUME Flow, Tallies, Exact, TxOwned, [Next]_vars
    PROVE  TxOwned'
<1> USE Holding DEF Dirs, Other, threads, counts, host, watch, callout, faulty, history, Goto, Flow,
           Starting, Claiming, Failing, Undoing, Releasing,
           TxOwned, HoldsTx, Enabling
<1>1. ASSUME NEW d \in Dirs, BeginTrigger(d) PROVE TxOwned'
  BY <1>1 DEF BeginTrigger
<1>2. ASSUME NEW d \in Dirs, Return(d) PROVE TxOwned'
  BY <1>2 DEF Return
<1>3. ASSUME NEW d \in Dirs, TestIdle(d) PROVE TxOwned'
  BY <1>3 DEF TestIdle, Fail, Strays
<1>4. ASSUME NEW d \in Dirs, ProgramDevice(d) PROVE TxOwned'
  <2>1. CASE Fail(d)
    BY <1>4, <2>1 DEF ProgramDevice, Fail, Strays
  <2>2. CASE Goto(d, "s_active") /\ UNCHANGED todo
    BY <1>4, <2>2 DEF ProgramDevice, Strays
  <2>3. QED
    BY <1>4, <2>1, <2>2 DEF ProgramDevice
<1>5. ASSUME NEW d \in Dirs, Activate(d) PROVE TxOwned'
  BY <1>5 DEF Activate
<1>6. ASSUME NEW d \in Dirs, ClaimTx(d) PROVE TxOwned'
  BY <1>6 DEF ClaimTx
<1>7. ASSUME NEW d \in Dirs, FillTx(d) PROVE TxOwned'
  BY <1>7 DEF FillTx
<1>8. ASSUME NEW d \in Dirs, EnableTx(d) PROVE TxOwned'
  BY <1>8, EnableTxStep
<1>9. ASSUME NEW d \in Dirs, ForgetTx(d) PROVE TxOwned'
  BY <1>9 DEF ForgetTx, Strays
<1>10. ASSUME NEW d \in Dirs, ClearWatch(d) PROVE TxOwned'
  BY <1>10 DEF ClearWatch
<1>11. ASSUME NEW d \in Dirs, ClaimRx(d) PROVE TxOwned'
  BY <1>11 DEF ClaimRx
<1>12. ASSUME NEW d \in Dirs, EnableRx(d) PROVE TxOwned'
  BY <1>12 DEF EnableRx
<1>13. ASSUME NEW d \in Dirs, ForgetRx(d) PROVE TxOwned'
  BY <1>13 DEF ForgetRx, Strays
<1>14. ASSUME NEW d \in Dirs, ArmCallout(d) PROVE TxOwned'
  BY <1>14 DEF ArmCallout
<1>15. ASSUME NEW d \in Dirs, LoadCount(d) PROVE TxOwned'
  BY <1>15 DEF LoadCount
<1>16. ASSUME NEW d \in Dirs, CountStream(d) PROVE TxOwned'
  BY <1>16 DEF CountStream
<1>17. ASSUME NEW d \in Dirs, Deactivate(d) PROVE TxOwned'
  BY <1>17 DEF Deactivate
<1>18. ASSUME NEW d \in Dirs, ReleaseTx(d) PROVE TxOwned'
  BY <1>18 DEF ReleaseTx, AfterTx
<1>19. ASSUME NEW d \in Dirs, DisableTx(d) PROVE TxOwned'
  BY <1>19 DEF DisableTx, AfterTx, AllOff
<1>20. ASSUME NEW d \in Dirs, ReleaseRx(d) PROVE TxOwned'
  BY <1>20 DEF ReleaseRx
<1>21. ASSUME NEW d \in Dirs, DisableRx(d) PROVE TxOwned'
  BY <1>21 DEF DisableRx
<1>22. ASSUME NEW d \in Dirs, UnloadCount(d) PROVE TxOwned'
  BY <1>22 DEF UnloadCount
<1>23. ASSUME NEW d \in Dirs, UncountStream(d) PROVE TxOwned'
  BY <1>23 DEF UncountStream
<1>24. ASSUME NEW d \in Dirs, TestLast(d) PROVE TxOwned'
  BY <1>24 DEF TestLast
<1>25. ASSUME NEW d \in Dirs, DisableDevice(d) PROVE TxOwned'
  BY <1>25 DEF DisableDevice, Strays
<1>26. CASE CalloutFire \/ Refill \/ RefillSkip
  BY <1>26 DEF CalloutFire, Refill, RefillFill, RefillStall, RefillSkip
<1>27. CASE RefillEnable
  BY <1>27 DEF RefillEnable, EnableAll, Strays
<1>28. CASE RestartTest
  BY <1>28 DEF RestartTest
<1>29. CASE RestartProgram
  BY <1>29 DEF RestartProgram, Strays
<1>30. CASE RestartDisable \/ RestartFill
  BY <1>30 DEF RestartDisable, RestartFill, AllOff
<1>31. CASE RestartEnable
  BY <1>31 DEF RestartEnable, EnableAll, Strays
<1>32. CASE CheckActive \/ Rearm
  BY <1>32 DEF CheckActive, Rearm
<1>33. CASE (\E i \in Tx : TxDone(i)) \/ BusReset \/ UNCHANGED vars
  BY <1>33 DEF TxDone, BusReset, vars
<1>34. QED
  BY <1>1, <1>2, <1>3, <1>4, <1>5, <1>6, <1>7, <1>8, <1>9, <1>10, <1>11, <1>12,
     <1>13, <1>14, <1>15, <1>16, <1>17, <1>18, <1>19, <1>20, <1>21, <1>22, <1>23,
     <1>24, <1>25, <1>26, <1>27, <1>28, <1>29, <1>30, <1>31, <1>32, <1>33
     DEF Next, TriggerStep, StartStep, StopStep, CalloutStep

\* The same of the receive contexts.
LEMMA RxOwnedNext ==
    ASSUME Flow, Tallies, Exact, RxOwned, [Next]_vars
    PROVE  RxOwned'
<1> USE Holding DEF Dirs, Other, threads, counts, host, watch, callout, faulty, history, Goto, Flow,
           Starting, Claiming, Failing, Undoing, Releasing,
           RxOwned, HoldsRx
<1>1. ASSUME NEW d \in Dirs, BeginTrigger(d) PROVE RxOwned'
  BY <1>1 DEF BeginTrigger
<1>2. ASSUME NEW d \in Dirs, Return(d) PROVE RxOwned'
  BY <1>2 DEF Return
<1>3. ASSUME NEW d \in Dirs, TestIdle(d) PROVE RxOwned'
  BY <1>3 DEF TestIdle, Fail, Strays
<1>4. ASSUME NEW d \in Dirs, ProgramDevice(d) PROVE RxOwned'
  <2>1. CASE Fail(d)
    BY <1>4, <2>1 DEF ProgramDevice, Fail, Strays
  <2>2. CASE Goto(d, "s_active") /\ UNCHANGED todo
    BY <1>4, <2>2 DEF ProgramDevice, Strays
  <2>3. QED
    BY <1>4, <2>1, <2>2 DEF ProgramDevice
<1>5. ASSUME NEW d \in Dirs, Activate(d) PROVE RxOwned'
  BY <1>5 DEF Activate
<1>6. ASSUME NEW d \in Dirs, ClaimTx(d) PROVE RxOwned'
  BY <1>6 DEF ClaimTx
<1>7. ASSUME NEW d \in Dirs, FillTx(d) PROVE RxOwned'
  BY <1>7 DEF FillTx
<1>8. ASSUME NEW d \in Dirs, EnableTx(d) PROVE RxOwned'
  BY <1>8, EnableTxStep
<1>9. ASSUME NEW d \in Dirs, ForgetTx(d) PROVE RxOwned'
  BY <1>9 DEF ForgetTx, Strays
<1>10. ASSUME NEW d \in Dirs, ClearWatch(d) PROVE RxOwned'
  BY <1>10 DEF ClearWatch
<1>11. ASSUME NEW d \in Dirs, ClaimRx(d) PROVE RxOwned'
  BY <1>11 DEF ClaimRx
<1>12. ASSUME NEW d \in Dirs, EnableRx(d) PROVE RxOwned'
  BY <1>12 DEF EnableRx
<1>13. ASSUME NEW d \in Dirs, ForgetRx(d) PROVE RxOwned'
  BY <1>13 DEF ForgetRx, Strays
<1>14. ASSUME NEW d \in Dirs, ArmCallout(d) PROVE RxOwned'
  BY <1>14 DEF ArmCallout
<1>15. ASSUME NEW d \in Dirs, LoadCount(d) PROVE RxOwned'
  BY <1>15 DEF LoadCount
<1>16. ASSUME NEW d \in Dirs, CountStream(d) PROVE RxOwned'
  BY <1>16 DEF CountStream
<1>17. ASSUME NEW d \in Dirs, Deactivate(d) PROVE RxOwned'
  BY <1>17 DEF Deactivate
<1>18. ASSUME NEW d \in Dirs, ReleaseTx(d) PROVE RxOwned'
  BY <1>18 DEF ReleaseTx, AfterTx
<1>19. ASSUME NEW d \in Dirs, DisableTx(d) PROVE RxOwned'
  BY <1>19 DEF DisableTx, AfterTx
<1>20. ASSUME NEW d \in Dirs, ReleaseRx(d) PROVE RxOwned'
  BY <1>20 DEF ReleaseRx
<1>21. ASSUME NEW d \in Dirs, DisableRx(d) PROVE RxOwned'
  BY <1>21 DEF DisableRx
<1>22. ASSUME NEW d \in Dirs, UnloadCount(d) PROVE RxOwned'
  BY <1>22 DEF UnloadCount
<1>23. ASSUME NEW d \in Dirs, UncountStream(d) PROVE RxOwned'
  BY <1>23 DEF UncountStream
<1>24. ASSUME NEW d \in Dirs, TestLast(d) PROVE RxOwned'
  BY <1>24 DEF TestLast
<1>25. ASSUME NEW d \in Dirs, DisableDevice(d) PROVE RxOwned'
  BY <1>25 DEF DisableDevice, Strays
<1>26. CASE CalloutFire \/ Refill \/ RefillSkip
  BY <1>26 DEF CalloutFire, Refill, RefillFill, RefillStall, RefillSkip
<1>27. CASE RefillEnable
  BY <1>27 DEF RefillEnable, EnableAll, Strays
<1>28. CASE RestartTest
  BY <1>28 DEF RestartTest
<1>29. CASE RestartProgram
  BY <1>29 DEF RestartProgram, Strays
<1>30. CASE RestartDisable \/ RestartFill
  BY <1>30 DEF RestartDisable, RestartFill, AllOff
<1>31. CASE RestartEnable
  BY <1>31 DEF RestartEnable, EnableAll, Strays
<1>32. CASE CheckActive \/ Rearm
  BY <1>32 DEF CheckActive, Rearm
<1>33. CASE (\E i \in Tx : TxDone(i)) \/ BusReset \/ UNCHANGED vars
  BY <1>33 DEF TxDone, BusReset, vars
<1>34. QED
  BY <1>1, <1>2, <1>3, <1>4, <1>5, <1>6, <1>7, <1>8, <1>9, <1>10, <1>11, <1>12,
     <1>13, <1>14, <1>15, <1>16, <1>17, <1>18, <1>19, <1>20, <1>21, <1>22, <1>23,
     <1>24, <1>25, <1>26, <1>27, <1>28, <1>29, <1>30, <1>31, <1>32, <1>33
     DEF Next, TriggerStep, StartStep, StopStep, CalloutStep

\* The direction that has left idle will find itself the last, or leaves a count
\* that is not 0.
LEMMA DevOwnedNext ==
    ASSUME Flow, Serial, Tallies, Exact, Alone, DevOwned, [Next]_vars
    PROVE  DevOwned'
<1> USE Holding DEF Dirs, Other, threads, counts, host, watch, callout, faulty, history, Goto, Flow,
           Starting, Claiming, Failing, Undoing, Releasing,
           DevOwned, Session, Counted, Exact, Alone, Serial, Enabling
<1>1. ASSUME NEW d \in Dirs, BeginTrigger(d) PROVE DevOwned'
  BY <1>1 DEF BeginTrigger
<1>2. ASSUME NEW d \in Dirs, Return(d) PROVE DevOwned'
  BY <1>2 DEF Return
<1>3. ASSUME NEW d \in Dirs, TestIdle(d) PROVE DevOwned'
  BY <1>3 DEF TestIdle, Fail, Strays
<1>4. ASSUME NEW d \in Dirs, ProgramDevice(d) PROVE DevOwned'
  <2>1. CASE Fail(d)
    BY <1>4, <2>1 DEF ProgramDevice, Fail, Strays
  <2>2. CASE Goto(d, "s_active") /\ UNCHANGED todo
    BY <1>4, <2>2 DEF ProgramDevice, Strays
  <2>3. QED
    BY <1>4, <2>1, <2>2 DEF ProgramDevice
<1>5. ASSUME NEW d \in Dirs, Activate(d) PROVE DevOwned'
  BY <1>5 DEF Activate
<1>6. ASSUME NEW d \in Dirs, ClaimTx(d) PROVE DevOwned'
  BY <1>6 DEF ClaimTx
<1>7. ASSUME NEW d \in Dirs, FillTx(d) PROVE DevOwned'
  BY <1>7 DEF FillTx
<1>8. ASSUME NEW d \in Dirs, EnableTx(d) PROVE DevOwned'
  BY <1>8, EnableTxStep
<1>9. ASSUME NEW d \in Dirs, ForgetTx(d) PROVE DevOwned'
  BY <1>9 DEF ForgetTx, Strays
<1>10. ASSUME NEW d \in Dirs, ClearWatch(d) PROVE DevOwned'
  BY <1>10 DEF ClearWatch
<1>11. ASSUME NEW d \in Dirs, ClaimRx(d) PROVE DevOwned'
  BY <1>11 DEF ClaimRx
<1>12. ASSUME NEW d \in Dirs, EnableRx(d) PROVE DevOwned'
  BY <1>12 DEF EnableRx
<1>13. ASSUME NEW d \in Dirs, ForgetRx(d) PROVE DevOwned'
  BY <1>13 DEF ForgetRx, Strays
<1>14. ASSUME NEW d \in Dirs, ArmCallout(d) PROVE DevOwned'
  BY <1>14 DEF ArmCallout
<1>15. ASSUME NEW d \in Dirs, LoadCount(d) PROVE DevOwned'
  BY <1>15 DEF LoadCount
<1>16. ASSUME NEW d \in Dirs, CountStream(d) PROVE DevOwned'
  <2> SUFFICES ASSUME ~setting.overlap PROVE DevOwned'
    BY <1>16 DEF CountStream
  <2>1. active_streams \in Nat /\ saved[d] = active_streams
    BY <1>16 DEF CountStream
  <2>2. active_streams' = saved[d] + 1
    BY <1>16 DEF CountStream
  <2>3. QED
    BY <2>1, <2>2
<1>17. ASSUME NEW d \in Dirs, Deactivate(d) PROVE DevOwned'
  BY <1>17 DEF Deactivate
<1>18. ASSUME NEW d \in Dirs, ReleaseTx(d) PROVE DevOwned'
  BY <1>18 DEF ReleaseTx, AfterTx
<1>19. ASSUME NEW d \in Dirs, DisableTx(d) PROVE DevOwned'
  BY <1>19 DEF DisableTx, AfterTx
<1>20. ASSUME NEW d \in Dirs, ReleaseRx(d) PROVE DevOwned'
  BY <1>20 DEF ReleaseRx
<1>21. ASSUME NEW d \in Dirs, DisableRx(d) PROVE DevOwned'
  BY <1>21 DEF DisableRx
<1>22. ASSUME NEW d \in Dirs, UnloadCount(d) PROVE DevOwned'
  BY <1>22 DEF UnloadCount
<1>23. ASSUME NEW d \in Dirs, UncountStream(d) PROVE DevOwned'
  BY <1>23 DEF UncountStream
<1>24. ASSUME NEW d \in Dirs, TestLast(d) PROVE DevOwned'
  <2> SUFFICES ASSUME ~setting.overlap PROVE DevOwned'
    BY <1>24 DEF TestLast
  <2>1. active_streams \in Nat /\ active_streams' = active_streams
    BY <1>24 DEF TestLast
  <2>2. CASE active_streams = 0
    <3>1. pc'[d] = "t_disable"
      BY <1>24, <2>2 DEF TestLast
    <3>2. QED
      BY <3>1
  <2>3. CASE active_streams > 0
    BY <2>1, <2>3
  <2>4. QED
    BY <2>1, <2>2, <2>3
<1>25. ASSUME NEW d \in Dirs, DisableDevice(d) PROVE DevOwned'
  BY <1>25 DEF DisableDevice, Strays
<1>26. CASE CalloutFire \/ Refill \/ RefillSkip
  BY <1>26 DEF CalloutFire, Refill, RefillFill, RefillStall, RefillSkip
<1>27. CASE RefillEnable
  BY <1>27 DEF RefillEnable, EnableAll, Strays
<1>28. CASE RestartTest
  BY <1>28 DEF RestartTest
<1>29. CASE RestartProgram
  <2> SUFFICES ASSUME ~setting.overlap PROVE DevOwned'
    BY <1>29 DEF RestartProgram
  <2>1. active_streams \in Nat /\ active_streams' = active_streams
    BY <1>29 DEF RestartProgram
  <2>2. active_streams = 0 => "dev" \in stray'
    BY <1>29 DEF RestartProgram, Strays
  <2>3. QED
    BY <2>1, <2>2
<1>30. CASE RestartDisable \/ RestartFill
  BY <1>30 DEF RestartDisable, RestartFill, AllOff
<1>31. CASE RestartEnable
  BY <1>31 DEF RestartEnable, EnableAll, Strays
<1>32. CASE CheckActive \/ Rearm
  BY <1>32 DEF CheckActive, Rearm
<1>33. CASE (\E i \in Tx : TxDone(i)) \/ BusReset \/ UNCHANGED vars
  BY <1>33 DEF TxDone, BusReset, vars
<1>34. QED
  BY <1>1, <1>2, <1>3, <1>4, <1>5, <1>6, <1>7, <1>8, <1>9, <1>10, <1>11, <1>12,
     <1>13, <1>14, <1>15, <1>16, <1>17, <1>18, <1>19, <1>20, <1>21, <1>22, <1>23,
     <1>24, <1>25, <1>26, <1>27, <1>28, <1>29, <1>30, <1>31, <1>32, <1>33
     DEF Next, TriggerStep, StartStep, StopStep, CalloutStep

\* When everything is stopped no context runs, and after triggers one after the
\* other the device is disabled, however the two triggers, the callout, failing
\* requests and bus resets were interleaved, but for what a failing START, or the
\* callout after the last user, has left on (the releases and
\* dice_streaming_stop).
THEOREM StopsAlwaysQuiet == Spec => []StopsQuiet
<1> DEFINE Inv == Shared /\ TxOwned /\ RxOwned /\ DevOwned
<1>1. Init => Inv
  BY SharedInit DEF Init, TxOwned, RxOwned, DevOwned, AllOff
<1>2. Inv /\ [Next]_vars => Inv'
  BY SharedNext, TxOwnedNext, RxOwnedNext, DevOwnedNext DEF Shared
<1>3. Inv => StopsQuiet
  <2> SUFFICES ASSUME Inv, Stopped PROVE StopsQuiet
    BY DEF StopsQuiet
  <2>1. \A d \in Dirs : pc[d] = "idle" /\ ~active[d]
    BY DEF Shared, Flow, Stopped
  <2>2. rx_use_count = 0 /\ tx_use_count = 0
    BY <2>1 DEF Shared, Tallies, Bit, HoldsTx, HoldsRx, Dirs, Enabling
  <2>3. ~setting.overlap => active_streams = 0
    BY <2>1 DEF Shared, Exact, Bit, Counted, Dirs
  <2>4. Tx \subseteq 1 .. 2
    BY SettingsAssumption DEF Shared, Flow, Tx
  <2>5. {"tx"} \cap (stray \cup lost) = {} => \A i \in Tx : on[i] = "off"
    BY <2>1, <2>2, <2>4 DEF TxOwned
  <2>6. {"rx"} \cap (stray \cup lost) = {} => rxon = "off"
    BY <2>1, <2>2 DEF RxOwned
  <2>7. ~setting.overlap /\ "dev" \notin stray => ~dev
    BY <2>1, <2>3 DEF DevOwned, Session, Claiming
  <2>8. QED
    BY <2>3, <2>5, <2>6, <2>7 DEF StopsQuiet
<1>4. QED
  BY <1>1, <1>2, <1>3, PTL DEF Spec

-----------------------------------------------------------------------------
(* The watchdog                                                            *)

Filling  == \E d \in Dirs : pc[d] \in Enabling
Clearing == \E d \in Dirs : pc[d] = "s_clear"
SomeFree == \E i \in Tx : q[i].free > 0

WatchTypes ==
    /\ resets \in Nat /\ tx_stall_ticks \in Nat
    /\ q \in [1 .. 2 -> [free: Int, valid: Int, dma: Int]]
    /\ on \in [1 .. 2 -> {"off", "on", "dead"}]

\* Without a bus reset the count of ticks without progress stays below the
\* limit.  Between sessions no handler raises it, unless it was called before.
\* A START resets it when it has enabled the contexts, in time.  After that at
\* most one handler sees empty queues, the one that was called before the START
\* filled them: every later one finds a free chunk.
Orderly ==
    /\ \A i \in 1 .. 2 : on[i] # "dead"
    /\ ~tx_restart
    /\ cpc \notin {"r_program", "r_disable", "r_fill", "r_enable"}
    /\ \A d \in Dirs : pc[d] = "s_enable2" => on[1] = "on"
    /\ rx_use_count = 0 \/ Filling =>
         tx_stall_ticks <= StallLimit - (IF cpc = "refill" THEN 2 ELSE 1)
    /\ Clearing =>
         /\ TxUp
         /\ tx_stall_ticks <= StallLimit - 1
         /\ cpc = "refill" => tx_stall_ticks <= StallLimit - 2 \/ SomeFree
    /\ rx_use_count > 0 /\ ~Filling /\ ~Clearing =>
         /\ TxUp
         /\ \/ tx_stall_ticks = 0
            \/ tx_stall_ticks = 1 /\ (cpc = "refill" => SomeFree)

Watched == ~setting.overlap /\ resets = 0 => Orderly

LEMMA LeastOf ==
    ASSUME NEW S, NEW a \in S, \A b \in S : a <= b, S \subseteq Int
    PROVE  Least(S) \in S
<1>1. \E n \in S : \A m \in S : n <= m
  OBVIOUS
<1>2. QED
  BY <1>1 DEF Least

LEMMA StreamsOf ==
    ASSUME Flow
    PROVE  setting.streams \in {1, 2} /\ 1 \in Tx /\ Tx \subseteq 1 .. 2
BY SettingsAssumption DEF Flow, Tx

LEMMA SlotsInt == ASSUME Flow, WatchTypes PROVE Slots \in Int
<1> DEFINE S == {q[i].free : i \in Tx}
<1>1. S \subseteq Int /\ q[1].free \in S
  BY StreamsOf DEF WatchTypes
<1>2. CASE setting.streams = 1
  <2>1. Tx = {1}
    BY <1>2 DEF Tx
  <2>2. Least(S) \in S
    BY <1>1, <2>1, LeastOf
  <2>3. QED
    BY <1>1, <2>2 DEF Slots
<1>3. CASE setting.streams = 2
  <2>1. Tx = {1, 2}
    BY <1>3 DEF Tx
  <2>2. q[2].free \in S
    BY <2>1
  <2>3. S = {q[1].free, q[2].free}
    BY <2>1
  <2>4. Least(S) \in S
    <3>1. CASE q[1].free <= q[2].free
      <4>1. \A b \in S : q[1].free <= b
        BY <1>1, <2>3, <3>1
      <4>2. QED
        BY <1>1, <4>1, LeastOf
    <3>2. CASE ~(q[1].free <= q[2].free)
      <4>1. \A b \in S : q[2].free <= b
        BY <1>1, <2>2, <2>3, <3>2
      <4>2. QED
        BY <1>1, <2>2, <4>1, LeastOf
    <3>3. QED
      BY <3>1, <3>2
  <2>5. QED
    BY <1>1, <2>4 DEF Slots
<1>4. QED
  BY <1>2, <1>3, StreamsOf

\* Chunks that move from one queue to another.
LEMMA QueueExcept ==
    ASSUME NEW r \in [free: Int, valid: Int, dma: Int], NEW n \in Int
    PROVE  /\ [r EXCEPT !.free = r.free - n, !.valid = r.valid + n]
                \in [free: Int, valid: Int, dma: Int]
           /\ [r EXCEPT !.dma = r.dma + r.valid, !.valid = 0]
                \in [free: Int, valid: Int, dma: Int]
<1> DEFINE R == [free: Int, valid: Int, dma: Int]
<1>1. ASSUME NEW a \in Int, NEW b \in Int
      PROVE  [r EXCEPT !.free = a, !.valid = b] \in R
  OBVIOUS
<1>2. ASSUME NEW a \in Int, NEW b \in Int
      PROVE  [r EXCEPT !.dma = a, !.valid = b] \in R
  OBVIOUS
<1>3. r.free - n \in Int /\ r.valid + n \in Int /\ r.dma + r.valid \in Int /\ 0 \in Int
  OBVIOUS
<1>4. [r EXCEPT !.free = r.free - n, !.valid = r.valid + n] \in R
  BY <1>1, <1>3, Zenon
<1>5. [r EXCEPT !.dma = r.dma + r.valid, !.valid = 0] \in R
  BY <1>2, <1>3, Zenon
<1>6. QED
  BY <1>4, <1>5

\* The operations on the queues and on the contexts.
LEMMA HostOperations ==
    ASSUME Flow, WatchTypes
    PROVE  LET Q == [1 .. 2 -> [free: Int, valid: Int, dma: Int]]
               C == [1 .. 2 -> {"off", "on", "dead"}]
           IN  /\ Filled(q, Slots) \in Q /\ Filled(Drained, NChunks) \in Q
               /\ AllOff \in C
               /\ \A I \in SUBSET Tx : Enabled(I) \in Q /\ Switched(I) \in C
<1>1. NChunks \in Int /\ Slots \in Int
  BY SlotsInt, ChunksAssumption
<1> HIDE DEF Slots
<1>2. Tx \subseteq 1 .. 2
  BY StreamsOf
<1> HIDE DEF Tx
<1>3. ASSUME NEW p \in [1 .. 2 -> [free: Int, valid: Int, dma: Int]], NEW n \in Int
      PROVE  Filled(p, n) \in [1 .. 2 -> [free: Int, valid: Int, dma: Int]]
  <2> DEFINE F(i) == IF i \in Tx
                     THEN [p[i] EXCEPT !.free = @ - n, !.valid = @ + n] ELSE p[i]
  <2>1. ASSUME NEW i \in 1 .. 2 PROVE F(i) \in [free: Int, valid: Int, dma: Int]
    <3>1. p[i] \in [free: Int, valid: Int, dma: Int]
      BY <1>3
    <3> DEFINE r == p[i]
    <3>2. r \in [free: Int, valid: Int, dma: Int]
      BY <3>1
    <3> HIDE DEF r
    <3>3. [r EXCEPT !.free = r.free - n, !.valid = r.valid + n]
            \in [free: Int, valid: Int, dma: Int]
      BY <1>3, <3>2, QueueExcept
    <3>4. QED
      BY <3>1, <3>3 DEF r
  <2>2. Filled(p, n) = [i \in 1 .. 2 |-> F(i)]
    BY DEF Filled
  <2> HIDE DEF F
  <2>3. QED
    BY <2>1, <2>2
<1>4. Drained \in [1 .. 2 -> [free: Int, valid: Int, dma: Int]]
  <2>1. Empty \in [free: Int, valid: Int, dma: Int]
    BY <1>1 DEF Empty
  <2>2. QED
    BY <2>1 DEF Drained
<1>5. ASSUME NEW I \in SUBSET Tx
      PROVE  Enabled(I) \in [1 .. 2 -> [free: Int, valid: Int, dma: Int]]
  <2>1. ASSUME NEW i \in 1 .. 2
        PROVE  [q[i] EXCEPT !.dma = q[i].dma + q[i].valid, !.valid = 0]
                 \in [free: Int, valid: Int, dma: Int]
    BY QueueExcept DEF WatchTypes
  <2>2. QED
    BY <2>1 DEF Enabled, WatchTypes
<1>6. q \in [1 .. 2 -> [free: Int, valid: Int, dma: Int]]
  BY DEF WatchTypes
<1>7. /\ AllOff \in [1 .. 2 -> {"off", "on", "dead"}]
      /\ \A I \in SUBSET Tx : Switched(I) \in [1 .. 2 -> {"off", "on", "dead"}]
  BY DEF AllOff, Switched, Revived, WatchTypes
<1>8. QED
  <2> HIDE DEF WatchTypes, Filled, Drained, Enabled, Switched, AllOff
  <2>1. QED
    BY <1>1, <1>3, <1>4, <1>5, <1>6, <1>7

\* Contexts that no bus reset has halted run when they are enabled.
LEMMA NoneDead ==
    ASSUME Flow, WatchTypes, \A i \in 1 .. 2 : on[i] # "dead", NEW I \in SUBSET Tx
    PROVE  /\ \A i \in 1 .. 2 : Switched(I)[i] # "dead"
           /\ \A i \in 1 .. 2 : on[i] = "on" => Switched(I)[i] = "on"
           /\ \A i \in I : Switched(I)[i] = "on"
BY StreamsOf DEF Switched, Revived, WatchTypes

\* Steps of a trigger that leave the transmit side alone.
Aside(d) ==
    \/ BeginTrigger(d) \/ Return(d) \/ TestIdle(d) \/ ProgramDevice(d) \/ Activate(d)
    \/ ClaimRx(d) \/ EnableRx(d) \/ ForgetRx(d)
    \/ ArmCallout(d) \/ LoadCount(d) \/ CountStream(d)
    \/ Deactivate(d) \/ ReleaseRx(d) \/ DisableRx(d)
    \/ UnloadCount(d) \/ UncountStream(d) \/ TestLast(d) \/ DisableDevice(d)

LEMMA AsideStep ==
    ASSUME Flow, NEW d \in Dirs, Aside(d)
    PROVE  /\ UNCHANGED <<setting, resets, rx_use_count, watch, q, on, cpc, plock>>
           /\ Filling' = Filling /\ Clearing' = Clearing
           /\ \A e \in Dirs : pc'[e] = "s_enable2" <=> pc[e] = "s_enable2"
<1> USE DEF Flow, Filling, Clearing, Goto, Dirs, Other, Starting, Claiming, Failing,
        Undoing, Releasing, Enabling, threads, counts, host, watch, callout, faulty
<1>1. CASE BeginTrigger(d) \/ Return(d) \/ TestIdle(d)
  BY <1>1 DEF BeginTrigger, Return, TestIdle, Fail
<1>2. CASE ProgramDevice(d)
  <2>1. UNCHANGED <<setting, resets, rx_use_count, watch, q, on, cpc, plock>>
    BY <1>2 DEF ProgramDevice
  <2>2. /\ pc[d] = "s_program"
        /\ \E l \in {"s_active", "return"} : pc' = [pc EXCEPT ![d] = l]
    BY <1>2 DEF ProgramDevice, Fail
  <2>3. QED
    BY <2>1, <2>2
<1>3. CASE Activate(d) \/ ClaimRx(d) \/ EnableRx(d) \/ ForgetRx(d)
  BY <1>3 DEF Activate, ClaimRx, EnableRx, ForgetRx
<1>4. CASE ArmCallout(d) \/ LoadCount(d) \/ CountStream(d)
  BY <1>4 DEF ArmCallout, LoadCount, CountStream
<1>5. CASE Deactivate(d) \/ ReleaseRx(d) \/ DisableRx(d)
  BY <1>5 DEF Deactivate, ReleaseRx, DisableRx
<1>6. CASE UnloadCount(d) \/ UncountStream(d) \/ TestLast(d) \/ DisableDevice(d)
  BY <1>6 DEF UnloadCount, UncountStream, TestLast, DisableDevice
<1>7. QED
  BY <1>1, <1>2, <1>3, <1>4, <1>5, <1>6 DEF Aside

LEMMA WatchTypesNext == ASSUME Flow, WatchTypes, [Next]_vars PROVE WatchTypes'
<1> DEFINE Q == [1 .. 2 -> [free: Int, valid: Int, dma: Int]]
           C == [1 .. 2 -> {"off", "on", "dead"}]
<1>1. /\ Filled(q, Slots) \in Q /\ Filled(Drained, NChunks) \in Q
      /\ \A I \in SUBSET Tx : Enabled(I) \in Q /\ Switched(I) \in C
      /\ AllOff \in C /\ q \in Q /\ on \in C
      /\ tx_stall_ticks \in Nat /\ (tx_stall_ticks + 1) % StallLimit \in Nat
      /\ resets \in Nat
  BY HostOperations, StallAssumption DEF WatchTypes
<1>2. SUFFICES resets' \in Nat /\ tx_stall_ticks' \in Nat /\ q' \in Q /\ on' \in C
  BY <1>1 DEF WatchTypes
<1> USE DEF threads, counts, host, watch, callout, faulty
<1>3. ASSUME NEW d \in Dirs, Aside(d) PROVE <1>2!1
  BY <1>1, <1>3, AsideStep
<1>4. ASSUME NEW d \in Dirs, EnableTx(d) PROVE <1>2!1
  <2>1. PICK i \in Tx : EnableTx(d)!(i)
    BY <1>4 DEF EnableTx
  <2>2. {i} \in SUBSET Tx
    OBVIOUS
  <2> HIDE DEF Q, C
  <2>3. q' \in Q /\ on' \in C
    BY <1>1, <2>1, <2>2
  <2>4. QED
    BY <1>1, <2>1, <2>3
<1>5. ASSUME NEW d \in Dirs,
             \/ ClaimTx(d) \/ FillTx(d) \/ ForgetTx(d) \/ ClearWatch(d)
             \/ ReleaseTx(d) \/ DisableTx(d)
      PROVE  <1>2!1
  <2> HIDE DEF Q, C
  <2>1. QED
    BY <1>1, <1>5 DEF ClaimTx, FillTx, ForgetTx, ClearWatch, ReleaseTx, DisableTx
<1>6. ASSUME CalloutFire \/ RefillSkip \/ RestartProgram \/ CheckActive \/ Rearm
      PROVE  <1>2!1
  BY <1>1, <1>6 DEF CalloutFire, RefillSkip, RestartProgram, CheckActive, Rearm
<1>7. ASSUME Refill \/ RestartTest PROVE <1>2!1
  <2> HIDE DEF Q, C
  <2>1. QED
    BY <1>1, <1>7 DEF Refill, RefillFill, RefillStall, RestartTest
<1>8. ASSUME RefillEnable \/ RestartEnable PROVE <1>2!1
  <2>1. EnableAll /\ UNCHANGED resets /\ tx_stall_ticks' \in {tx_stall_ticks, 0}
    BY <1>8 DEF RefillEnable, RestartEnable
  <2> HIDE DEF Q, C
  <2>2. q' \in Q /\ on' \in C
    BY <1>1, <2>1 DEF EnableAll
  <2>3. QED
    BY <1>1, <2>1, <2>2
<1>9. ASSUME RestartDisable \/ RestartFill PROVE <1>2!1
  <2> HIDE DEF Q, C
  <2>1. QED
    BY <1>1, <1>9 DEF RestartDisable, RestartFill
<1>10. ASSUME NEW i \in Tx, TxDone(i) PROVE <1>2!1
  BY <1>1, <1>10, StreamsOf DEF TxDone
<1>11. ASSUME BusReset PROVE <1>2!1
  BY <1>1, <1>11 DEF BusReset
<1>12. ASSUME UNCHANGED vars PROVE <1>2!1
  BY <1>1, <1>12 DEF vars
<1>13. QED
  BY <1>3, <1>4, <1>5, <1>6, <1>7, <1>8, <1>9, <1>10, <1>11, <1>12
     DEF Next, TriggerStep, StartStep, StopStep, CalloutStep, Aside

\* The circumstances do not change, and the bus is reset only by itself.
LEMMA SettingKept ==
    ASSUME Flow, [Next]_vars
    PROVE  setting' = setting /\ (BusReset \/ UNCHANGED resets)
<1> USE DEF threads, counts, host, watch, callout, faulty
<1>1. ASSUME NEW d \in Dirs, BeginTrigger(d) \/ TriggerStep(d)
      PROVE  UNCHANGED <<setting, resets>>
  <2>1. ASSUME Aside(d) PROVE UNCHANGED <<setting, resets>>
    BY <2>1, AsideStep
  <2>2. ASSUME ~Aside(d) PROVE UNCHANGED <<setting, resets>>
    BY <1>1, <2>2, EnableTxStep DEF TriggerStep, StartStep, StopStep, Aside, ClaimTx,
       FillTx, ForgetTx, ClearWatch, ReleaseTx, DisableTx
  <2>3. QED
    BY <2>1, <2>2
<1>2. ASSUME CalloutStep PROVE UNCHANGED <<setting, resets>>
  BY <1>2 DEF CalloutStep, CalloutFire, Refill, RefillSkip, RefillEnable, RestartTest,
              RestartProgram, RestartDisable, RestartFill, RestartEnable, CheckActive, Rearm
<1>3. QED
  BY <1>1, <1>2 DEF Next, TxDone, BusReset, vars

\* Without a bus reset the watchdog stays quiet, whatever the triggers do, one
\* after the other, and whichever request fails: the trigger's part.
LEMMA OrderlyTrigger ==
    ASSUME Flow, Serial, Tallies, WatchTypes, Alone, StallLimit > 1,
           ~setting.overlap, Orderly, NEW d \in Dirs, BeginTrigger(d) \/ TriggerStep(d)
    PROVE  Orderly'
<1>1. /\ StallLimit \in Nat /\ tx_stall_ticks \in Nat /\ rx_use_count \in Nat
      /\ 1 \in Tx /\ Tx \subseteq 1 .. 2
      /\ Tx' = Tx
  <2>1. setting' = setting
    BY SettingKept DEF Next
  <2>2. QED
    BY <2>1, StallAssumption, StreamsOf DEF WatchTypes, Tallies, Tx
<1> USE DEF threads, counts, host, watch, callout, faulty, Goto
<1>2. CASE Aside(d)
  <2>1. /\ UNCHANGED <<rx_use_count, tx_stall_ticks, tx_restart, q, on, cpc>>
        /\ Filling' = Filling /\ Clearing' = Clearing
        /\ \A e \in Dirs : pc'[e] = "s_enable2" <=> pc[e] = "s_enable2"
    BY <1>2, AsideStep
  <2>2. TxUp' = TxUp /\ SomeFree' = SomeFree
    BY <1>1, <2>1 DEF TxUp, SomeFree
  <2>3. QED
    BY <1>1, <2>1, <2>2 DEF Orderly
<1>3. CASE ~Aside(d)
  <2>1. pc[d] \in Enabling \cup {"s_tx", "s_clear", "t_tx", "t_itx"}
    BY <1>3, EnableTxStep DEF TriggerStep, StartStep, StopStep, Aside, ClaimTx, FillTx,
       ForgetTx, ClearWatch, ReleaseTx, DisableTx, Enabling
  <2>2. /\ Dirs = {d, Other(d)} /\ d # Other(d) /\ pc[Other(d)] = "idle"
        /\ pc = [e \in Dirs |-> pc[e]] /\ pc[d] # "idle"
    BY <2>1 DEF Serial, Dirs, Other, Flow, Enabling
  <2>3. /\ Filling <=> pc[d] \in Enabling
        /\ Clearing <=> pc[d] = "s_clear"
    BY <2>2 DEF Filling, Clearing, Enabling
  <2>4. pc'[Other(d)] = "idle" /\ pc' = [e \in Dirs |-> pc'[e]]
        /\ (pc[d] = "s_enable1" \/ pc[d] = "s_enable2" =>
              pc'[d] \in {"s_enable2", "s_clear", "e_tx"})
    <3>1. CASE EnableTx(d)
      BY <2>2, <3>1, EnableTxStep
    <3>2. CASE ~EnableTx(d)
      BY <1>3, <2>2, <3>2 DEF TriggerStep, StartStep, StopStep, Aside, ClaimTx, FillTx,
         ForgetTx, ClearWatch, ReleaseTx, DisableTx
    <3>3. QED
      BY <3>1, <3>2
  <2>5. /\ Filling' <=> pc'[d] \in Enabling
        /\ Clearing' <=> pc'[d] = "s_clear"
        /\ \A e \in Dirs : pc'[e] = "s_enable2" => pc'[d] = "s_enable2"
    BY <2>2, <2>4 DEF Filling, Clearing, Enabling
  <2>6. /\ pc[d] \in Enabling \cup {"s_clear"} => rx_use_count = 1
        /\ pc[d] = "t_itx" => rx_use_count = 0
    BY DEF Alone
  <2>7. CASE ClaimTx(d)
    <3>1. /\ UNCHANGED <<q, on, cpc, tx_stall_ticks, tx_restart>>
          /\ rx_use_count' = rx_use_count + 1
          /\ pc[d] = "s_tx"
          /\ pc'[d] = IF rx_use_count > 0 THEN "s_rx" ELSE "s_fill"
      BY <2>2, <2>7 DEF ClaimTx
    <3>2. TxUp' = TxUp /\ SomeFree' = SomeFree
      BY <1>1, <3>1 DEF TxUp, SomeFree
    <3>3. ~Filling /\ ~Clearing /\ ~Clearing' /\ (Filling' <=> rx_use_count = 0)
      BY <1>1, <2>3, <2>5, <3>1 DEF Enabling
    <3>4. \A e \in Dirs : pc'[e] # "s_enable2"
      BY <2>5, <3>1
    <3>5. QED
      BY <1>1, <3>1, <3>2, <3>3, <3>4 DEF Orderly
  <2>8. CASE FillTx(d)
    <3>1. /\ UNCHANGED <<on, cpc, tx_stall_ticks, tx_restart, rx_use_count>>
          /\ pc[d] = "s_fill" /\ pc'[d] = "s_enable1"
      BY <2>2, <2>8 DEF FillTx
    <3>2. Filling /\ Filling' /\ ~Clearing' /\ \A e \in Dirs : pc'[e] # "s_enable2"
      BY <2>3, <2>5, <3>1 DEF Enabling
    <3>3. QED
      BY <1>1, <3>1, <3>2 DEF Orderly
  <2>9. CASE EnableTx(d)
    <3>1. PICK i \in Tx : EnableTx(d)!(i)
      BY <2>9 DEF EnableTx
    <3>2. /\ UNCHANGED <<cpc, tx_stall_ticks, tx_restart, rx_use_count>>
          /\ pc[d] \in Enabling /\ Filling /\ rx_use_count = 1
      BY <2>3, <2>6, <2>9, EnableTxStep DEF Enabling
    <3>3. CASE pc'[d] = "e_tx" /\ UNCHANGED on
      <4>1. Filling' /\ ~Clearing' /\ \A e \in Dirs : pc'[e] # "s_enable2"
        BY <2>5, <3>3 DEF Enabling
      <4>2. QED
        BY <1>1, <3>2, <3>3, <4>1 DEF Orderly
    <3>4. CASE /\ on' = Switched({i})
               /\ pc'[d] = IF i + 1 \in Tx THEN "s_enable2" ELSE "s_clear"
      <4>1. /\ \A j \in 1 .. 2 : on'[j] # "dead"
            /\ \A j \in 1 .. 2 : on[j] = "on" => on'[j] = "on"
            /\ on'[i] = "on"
        <5>1. {i} \in SUBSET Tx
          OBVIOUS
        <5>2. \A j \in 1 .. 2 : on[j] # "dead"
          BY DEF Orderly
        <5>3. QED
          BY <3>4, <5>1, <5>2, NoneDead
      <4>2. CASE i + 1 \in Tx
        <5>1. i = 1
          BY <1>1, <4>2
        <5>2. Filling' /\ ~Clearing'
          BY <2>5, <3>4, <4>2 DEF Enabling
        <5>3. QED
          BY <1>1, <3>2, <4>1, <5>1, <5>2 DEF Orderly
      <4>3. CASE i + 1 \notin Tx
        <5>1. ~Filling' /\ Clearing' /\ \A e \in Dirs : pc'[e] # "s_enable2"
          BY <2>5, <3>4, <4>3 DEF Enabling
        <5>2. TxUp'
          <6>1. CASE i = 1
            <7>1. Tx = {1}
              <8>1. i + 1 = 2
                BY <6>1
              <8>2. 2 \notin Tx
                BY <4>3, <8>1
              <8>3. \A j \in 1 .. 2 : j # 2 => j = 1
                OBVIOUS
              <8>4. QED
                BY <1>1, <8>2, <8>3
            <7>2. QED
              BY <1>1, <4>1, <6>1, <7>1 DEF TxUp
          <6>2. CASE i = 2
            <7>1. pc[d] = "s_enable2"
              BY <3>1, <6>2
            <7>2. on[1] = "on"
              BY <7>1 DEF Orderly
            <7>3. \A j \in 1 .. 2 : on'[j] = "on"
              BY <4>1, <6>2, <7>2
            <7>4. QED
              BY <1>1, <7>3 DEF TxUp
          <6>3. QED
            BY <1>1, <6>1, <6>2
        <5>3. tx_stall_ticks <= StallLimit - (IF cpc = "refill" THEN 2 ELSE 1)
          BY <3>2 DEF Orderly
        <5>4. QED
          BY <1>1, <3>2, <4>1, <5>1, <5>2, <5>3 DEF Orderly
      <4>4. QED
        BY <4>2, <4>3
    <3>5. QED
      BY <2>2, <3>1, <3>3, <3>4
  <2>10. CASE ForgetTx(d)
    <3>1. /\ UNCHANGED <<on, cpc, tx_stall_ticks, tx_restart>>
          /\ rx_use_count' = 0
          /\ pc[d] = "e_tx" /\ pc'[d] = "e_inactive"
      BY <2>2, <2>10 DEF ForgetTx
    <3>2. /\ Filling /\ ~Filling' /\ ~Clearing'
          /\ \A e \in Dirs : pc'[e] # "s_enable2"
      BY <2>3, <2>5, <3>1 DEF Enabling
    <3>3. QED
      BY <1>1, <3>1, <3>2 DEF Orderly
  <2>11. CASE ClearWatch(d)
    <3>1. /\ UNCHANGED <<on, q, cpc, rx_use_count>>
          /\ tx_stall_ticks' = 0 /\ ~tx_restart'
          /\ pc[d] = "s_clear" /\ pc'[d] = "s_rx"
      BY <2>2, <2>11 DEF ClearWatch
    <3>2. /\ Clearing /\ ~Filling' /\ ~Clearing'
          /\ \A e \in Dirs : pc'[e] # "s_enable2"
      BY <2>3, <2>5, <3>1 DEF Enabling
    <3>3. TxUp'
      BY <1>1, <3>1, <3>2 DEF TxUp, Orderly
    <3>4. rx_use_count' = 1
      BY <2>6, <3>1
    <3>5. QED
      BY <1>1, <3>1, <3>2, <3>3, <3>4 DEF Orderly
  <2>12. CASE ReleaseTx(d)
    <3>1. /\ UNCHANGED <<on, q, cpc>> /\ pc[d] = "t_tx"
          /\ pc'[d] \in {"t_itx", "t_rx", "return"}
      BY <2>2, <2>12 DEF ReleaseTx, AfterTx
    <3>2. /\ ~Filling /\ ~Clearing /\ ~Filling' /\ ~Clearing'
          /\ \A e \in Dirs : pc'[e] # "s_enable2"
      BY <2>3, <2>5, <3>1 DEF Enabling
    <3>3. TxUp' = TxUp /\ SomeFree' = SomeFree
      BY <1>1, <3>1 DEF TxUp, SomeFree
    <3>4. CASE rx_use_count = 1
      <4>1. rx_use_count' = 0 /\ tx_stall_ticks' = 0 /\ ~tx_restart'
        BY <2>12, <3>4 DEF ReleaseTx
      <4>2. QED
        BY <1>1, <3>1, <3>2, <4>1 DEF Orderly
    <3>5. CASE rx_use_count # 1
      <4>1. UNCHANGED <<tx_stall_ticks, tx_restart>>
            /\ rx_use_count' = IF rx_use_count > 0 THEN rx_use_count - 1 ELSE 0
        BY <2>12, <3>5 DEF ReleaseTx
      <4>2. rx_use_count' > 0 => rx_use_count > 0
        BY <1>1, <4>1
      <4>3. rx_use_count' = 0 => rx_use_count = 0
        BY <1>1, <3>5, <4>1
      <4>4. QED
        BY <1>1, <3>1, <3>2, <3>3, <4>1, <4>2, <4>3 DEF Orderly
    <3>6. QED
      BY <3>4, <3>5
  <2>13. CASE DisableTx(d)
    <3>1. /\ UNCHANGED <<cpc, tx_stall_ticks, tx_restart, rx_use_count>>
          /\ rx_use_count = 0 /\ \A i \in 1 .. 2 : on'[i] = "off"
          /\ pc[d] = "t_itx"
          /\ pc'[d] \in {"t_rx", "return"}
      BY <2>2, <2>6, <2>13 DEF DisableTx, AfterTx, AllOff
    <3>2. /\ ~Filling /\ ~Clearing /\ ~Filling' /\ ~Clearing'
          /\ \A e \in Dirs : pc'[e] # "s_enable2"
      BY <2>3, <2>5, <3>1 DEF Enabling
    <3>3. QED
      BY <1>1, <3>1, <3>2 DEF Orderly
  <2>14. QED
    BY <1>3, <2>7, <2>8, <2>9, <2>10, <2>11, <2>12, <2>13
       DEF TriggerStep, StartStep, StopStep, Aside
<1>4. QED
  BY <1>2, <1>3

\* The callout's part.  A context that is on needs no descriptors to be enabled,
\* so the contexts of a session stay up.
LEMMA OrderlyCallout ==
    ASSUME Flow, Tallies, WatchTypes, StallLimit > 1, ~setting.overlap, Orderly,
           CalloutStep
    PROVE  Orderly'
<1>1. /\ StallLimit \in Nat /\ tx_stall_ticks \in Nat /\ rx_use_count \in Nat
      /\ Tx \subseteq 1 .. 2
      /\ UNCHANGED <<setting, pc, rx_use_count>>
      /\ Tx' = Tx /\ Filling' = Filling /\ Clearing' = Clearing
  <2>1. UNCHANGED <<setting, pc, rx_use_count>>
    BY OtherSteps
  <2>2. QED
    BY <2>1, StallAssumption, StreamsOf DEF WatchTypes, Tallies, Tx, Filling, Clearing
<1> USE DEF threads, counts, host, watch, callout, faulty
<1>2. UNCHANGED on => TxUp' = TxUp
  BY <1>1 DEF TxUp
<1>3. UNCHANGED q => SomeFree' = SomeFree
  BY <1>1 DEF SomeFree
<1>4. CASE CalloutFire
  <2>1. /\ UNCHANGED <<on, q, tx_stall_ticks, tx_restart>>
        /\ cpc = "idle" /\ cpc' \in {"check", "refill"}
        /\ cpc' = "refill" => rx_use_count > 0
        /\ TxUp => SomeFree
        /\ Filling => tx_stall_ticks # StallLimit - 1
    <3>1. TxUp => SomeFree
      BY <1>4 DEF CalloutFire, Healthy, TxUp, SomeFree
    <3>2. Filling => tx_stall_ticks # StallLimit - 1
      BY <1>4 DEF CalloutFire, Prompt, Filling
    <3>3. QED
      BY <1>1, <1>4, <3>1, <3>2 DEF CalloutFire
  <2>2. QED
    BY <1>1, <1>2, <1>3, <2>1 DEF Orderly
<1>5. CASE Refill
  <2>1. CASE RefillFill
    <3>1. /\ UNCHANGED <<on, tx_restart>> /\ tx_stall_ticks' = 0 /\ cpc' = "enable"
      BY <1>5, <2>1 DEF Refill, RefillFill
    <3>2. QED
      BY <1>1, <1>2, <3>1 DEF Orderly
  <2>2. CASE RefillStall
    <3>1. UNCHANGED <<on, q>> /\ cpc = "refill" /\ cpc' = "restart"
      BY <1>5, <2>2 DEF Refill, RefillStall
    <3>2. CASE UNCHANGED watch
      BY <1>1, <1>2, <1>3, <3>1, <3>2 DEF Orderly
    <3>3. CASE /\ \A i \in Tx : q[i].free = 0
               /\ tx_stall_ticks' = (tx_stall_ticks + 1) % StallLimit
               /\ tx_restart' = (tx_restart \/ tx_stall_ticks + 1 >= StallLimit)
      <4>1. ~SomeFree
        BY <1>1, <3>3 DEF SomeFree
      <4>2. tx_stall_ticks + 1 < StallLimit
        <5>1. CASE rx_use_count = 0 \/ Filling
          BY <1>1, <3>1, <5>1 DEF Orderly
        <5>2. CASE Clearing
          BY <1>1, <3>1, <4>1, <5>2 DEF Orderly
        <5>3. CASE rx_use_count > 0 /\ ~Filling /\ ~Clearing
          BY <1>1, <3>1, <4>1, <5>3 DEF Orderly
        <5>4. QED
          BY <1>1, <5>1, <5>2, <5>3
      <4>3. tx_stall_ticks' = tx_stall_ticks + 1
        <5>1. \A n \in Nat : n < StallLimit => n % StallLimit = n
          BY <1>1
        <5>2. tx_stall_ticks + 1 \in Nat
          BY <1>1
        <5>3. QED
          BY <3>3, <4>2, <5>1, <5>2
      <4>4. ~tx_restart'
        <5>1. ~(tx_stall_ticks + 1 >= StallLimit)
          BY <1>1, <4>2
        <5>2. QED
          BY <3>3, <5>1 DEF Orderly
      <4>5. rx_use_count > 0 /\ ~Filling /\ ~Clearing => tx_stall_ticks = 0
        BY <1>1, <3>1, <4>1 DEF Orderly
      <4>6. tx_stall_ticks' <= StallLimit - 1
        BY <1>1, <4>2, <4>3
      <4>7. QED
        BY <1>1, <1>2, <3>1, <4>3, <4>4, <4>5, <4>6 DEF Orderly
    <3>4. QED
      BY <2>2, <3>2, <3>3 DEF RefillStall
  <2>3. QED
    BY <1>5, <2>1, <2>2 DEF Refill
<1>6. CASE RefillEnable
  <2>1. PICK I \in SUBSET Tx : /\ \A i \in Tx \ I : MayRefuse(on[i])
                               /\ on' = Switched(I)
    BY <1>6 DEF RefillEnable, EnableAll
  <2>2. /\ \A i \in 1 .. 2 : on'[i] # "dead"
        /\ \A i \in 1 .. 2 : on[i] = "on" => on'[i] = "on"
    <3>1. \A i \in 1 .. 2 : on[i] # "dead"
      BY DEF Orderly
    <3>2. QED
      BY <2>1, <3>1, NoneDead
  <2>3. TxUp => TxUp'
    BY <1>1, <2>2 DEF TxUp
  <2>4. UNCHANGED <<tx_stall_ticks, tx_restart>> /\ cpc = "enable" /\ cpc' = "restart"
    BY <1>6 DEF RefillEnable
  <2>5. QED
    BY <1>1, <2>2, <2>3, <2>4 DEF Orderly
<1>7. CASE RefillSkip \/ RestartTest \/ CheckActive \/ Rearm
  <2>1. /\ UNCHANGED <<on, q, tx_stall_ticks>> /\ ~tx_restart'
        /\ cpc' \in {"check", "idle", "rearm"}
    BY <1>7 DEF RefillSkip, RestartTest, CheckActive, Rearm, Orderly
  <2>2. QED
    BY <1>1, <1>2, <1>3, <2>1 DEF Orderly
<1>8. CASE RestartProgram \/ RestartDisable \/ RestartFill \/ RestartEnable
  BY <1>8 DEF RestartProgram, RestartDisable, RestartFill, RestartEnable, Orderly
<1>9. QED
  BY <1>4, <1>5, <1>6, <1>7, <1>8 DEF CalloutStep

\* A context completes a chunk.
LEMMA OrderlyDone ==
    ASSUME Flow, WatchTypes, Orderly, NEW i \in Tx, TxDone(i)
    PROVE  Orderly'
<1> USE DEF threads, counts, host, watch, callout, faulty
<1>1. UNCHANGED <<setting, pc, rx_use_count, on, cpc, tx_stall_ticks, tx_restart>>
  BY DEF TxDone
<1>2. Tx \subseteq 1 .. 2 /\ Tx' = Tx
  BY <1>1, StreamsOf DEF Tx
<1>3. \A j \in Tx : q[j].free > 0 => q'[j].free > 0
  BY <1>2 DEF TxDone, WatchTypes
<1>4. SomeFree => SomeFree'
  BY <1>2, <1>3 DEF SomeFree
<1>5. TxUp' = TxUp /\ Filling' = Filling /\ Clearing' = Clearing
  BY <1>1, <1>2 DEF TxUp, Filling, Clearing
<1>6. QED
  BY <1>1, <1>4, <1>5 DEF Orderly

\* The invariant of the watchdog.
Guarded == Shared /\ WatchTypes /\ Watched

LEMMA GuardedInit == ASSUME StallLimit > 1, Init PROVE Guarded
<1>1. Shared
  BY SharedInit
<1>2. WatchTypes
  <2>1. Drained \in [1 .. 2 -> [free: Int, valid: Int, dma: Int]]
    <3>1. Empty \in [free: Int, valid: Int, dma: Int]
      BY ChunksAssumption DEF Empty
    <3>2. QED
      BY <3>1 DEF Drained
  <2>2. AllOff \in [1 .. 2 -> {"off", "on", "dead"}]
    BY DEF AllOff
  <2>3. QED
    BY <2>1, <2>2 DEF Init, WatchTypes
<1>3. Watched
  BY StallAssumption DEF Init, Watched, Orderly, Filling, Clearing, Dirs, AllOff,
     Enabling
<1>4. QED
  BY <1>1, <1>2, <1>3 DEF Guarded

LEMMA GuardedNext == ASSUME StallLimit > 1, Guarded, [Next]_vars PROVE Guarded'
<1> USE DEF Guarded
<1>1. Shared' /\ WatchTypes'
  BY SharedNext, WatchTypesNext DEF Shared
<1>2. Watched'
  <2> SUFFICES ASSUME ~setting.overlap', resets' = 0 PROVE Orderly'
    BY DEF Watched
  <2>1. setting' = setting /\ (BusReset \/ UNCHANGED resets)
    BY SettingKept DEF Shared
  <2>2. ~BusReset
    BY DEF BusReset, WatchTypes
  <2>3. ~setting.overlap /\ resets = 0 /\ Orderly
    BY <2>1, <2>2 DEF Watched
  <2>4. ASSUME NEW d \in Dirs, BeginTrigger(d) \/ TriggerStep(d) PROVE Orderly'
    BY <2>3, <2>4, OrderlyTrigger DEF Shared
  <2>5. CASE CalloutStep
    BY <2>3, <2>5, OrderlyCallout DEF Shared
  <2>6. ASSUME NEW i \in Tx, TxDone(i) PROVE Orderly'
    BY <2>3, <2>6, OrderlyDone DEF Shared
  <2>7. CASE UNCHANGED vars
    <3>1. UNCHANGED <<setting, pc, rx_use_count, on, q, cpc, tx_stall_ticks, tx_restart>>
      BY <2>7 DEF vars, threads, counts, host, watch, callout
    <3>2. /\ Tx' = Tx /\ TxUp' = TxUp /\ SomeFree' = SomeFree
          /\ Filling' = Filling /\ Clearing' = Clearing
      BY <3>1 DEF Tx, TxUp, SomeFree, Filling, Clearing
    <3>3. QED
      BY <2>3, <3>1, <3>2 DEF Orderly
  <2>8. QED
    BY <2>2, <2>4, <2>5, <2>6, <2>7 DEF Next
<1>3. QED
  BY <1>1, <1>2

\* When a START finds its contexts enabled within less than StallLimit ticks,
\* and two at least make a stall, the watchdog never restarts contexts that no
\* bus reset has halted (dice_streaming_refill_tx, 2068-2076), however late the
\* callout is and whichever write or enable fails.
THEOREM OnlyDeadAlwaysRestarted == StallLimit > 1 => (Spec => []OnlyDeadRestarted)
<1> SUFFICES ASSUME StallLimit > 1 PROVE Spec => []OnlyDeadRestarted
  OBVIOUS
<1>1. Init => Guarded
  BY GuardedInit
<1>2. Guarded /\ [Next]_vars => Guarded'
  BY GuardedNext
<1>3. Guarded => OnlyDeadRestarted
  BY DEF Guarded, Watched, Orderly, OnlyDeadRestarted
<1>4. QED
  BY <1>1, <1>2, <1>3, PTL DEF Spec

=============================================================================
