--------------------------- MODULE Dg00xStreaming ---------------------------
(***************************************************************************)
(* Starting, feeding and stopping a Digidesign 002/003 stream              *)
(* (digi00x-pcm.c, digi00x-streaming.c, digi00x-stream.c).                 *)
(*                                                                         *)
(* The sound layer triggers each direction (playback "pb", capture "cap")  *)
(* from a thread of its own; CHN_LOCK is dropped around the call           *)
(* (alsa_pcm_bsd.c), so the two triggers interleave with each other, with  *)
(* the 1 ms callout that feeds the transmit context, and with the FireWire *)
(* interrupt.  One step is one critical section of dg00x->lock or FW_GLOCK,*)
(* one FireWire transaction, or one unlocked access to shared state.       *)
(***************************************************************************)
EXTENDS Integers

CONSTANTS
    Dirs,      \* the directions an application has open
    NChunks,   \* DG00X_ISO_NCHUNKS: chunks owned by an isochronous context
    Opened,    \* TRUE: an earlier START has opened both contexts
    Faults,    \* what goes wrong outside the driver, see FaultKinds
    MaxCount   \* bound: no START once a counter exceeds it

(***************************************************************************)
(*   fw         a quadlet write to the device is lost or times out         *)
(*   enable     itx_enable/irx_enable cannot start a stopped context       *)
(*   nochan     fw_open_isodma has no free context                         *)
(*   nomem      an M_NOWAIT allocation of iso_open fails                   *)
(*   slowTick   a 1 ms callout is later than the 50 ms pause of            *)
(*              finish_session                                             *)
(*   lateRx     the receive task is still running when irx_disable returns *)
(***************************************************************************)
FaultKinds == {"fw", "enable", "nochan", "nomem", "slowTick", "lateRx"}

ASSUME DirsAssumption    == Dirs \subseteq {"pb", "cap"}
ASSUME NChunksAssumption == NChunks \in Nat \ {0}
ASSUME OpenedAssumption  == Opened \in BOOLEAN
ASSUME MaxCountAssumption == MaxCount \in Nat
ASSUME FaultsAssumption  == Faults \subseteq FaultKinds

Streams == {"pb", "cap"}      \* pcm_playback and pcm_capture always exist
Ctx     == {"tx", "rx"}       \* iso_tx and iso_rx

VARIABLES
    active,         \* active[s]: dg00x_pcm_stream.active
    activeStreams,  \* dg00x->active_streams
    useCount,       \* useCount[c]: tx_use_count, rx_use_count
    iso,            \* iso[c]: an isochronous context and its xferq
    chans,          \* the device's ISOC_CHANNELS register is set
    streaming,      \* the device's STREAMING_SET register says "streaming"
    lock,           \* owner of dg00x->lock across a sleep or a sequence
    co,             \* the callout: "off" or "armed"
    cpc,            \* where its handler is
    pc,             \* pc[d]: where the trigger of direction d is
    failing,        \* failing[d]: the trigger is on the error exit of START
    wasIdle,        \* the local was_idle of a START
    saved,          \* the value active_streams++ has loaded
    started         \* what the sound layer was told: the last trigger that
                    \* returned was a successful START

devRegs == <<chans, streaming>>
callout == <<co, cpc>>
locals  == <<wasIdle, saved>>
flow    == <<failing, started>>
vars    == <<active, activeStreams, useCount, iso, devRegs, lock, callout,
             pc, flow, locals>>

-----------------------------------------------------------------------------
(* An isochronous context: is dmach >= 0, how many chunks were allocated,  *)
(* how many are on each queue of the xferq, and does the DMA run.          *)

Context(open, size, free, valid, dma, run) ==
    [open |-> open, size |-> size, stfree |-> free, stvalid |-> valid,
     stdma |-> dma, run |-> run]

Closed   == Context(FALSE, 0, 0, 0, 0, FALSE)
Fresh    == Context(TRUE, NChunks, NChunks, 0, 0, FALSE)

\* iso_open after a failed allocation: dmach stays assigned, no chunk exists.
HalfOpen == Context(TRUE, 0, 0, 0, 0, FALSE)

Requeued(x, free, valid, dma, run) ==
    Context(x.open, x.size, free, valid, dma, run)

\* Mutation: the drain forgets to empty stdma.
DrainedTwice(x) ==
    Requeued(x, x.stfree + x.stvalid + x.stdma, 0, x.stdma, x.run)

\* Mutation: the drain drops what was in stdma.
DrainedShort(x) == Requeued(x, x.stfree + x.stvalid, 0, 0, x.run)

\* stdma and stvalid go back to stfree.
Drained(x) == Requeued(x, x.stfree + x.stvalid + x.stdma, 0, 0, x.run)

\* Every free chunk is filled with audio or silence and made valid.
Filled(x) == Requeued(x, 0, x.stvalid + x.stfree, x.stdma, x.run)

\* itx_enable: valid chunks are chained and the context runs.
ItxEnabled(x) == Requeued(x, x.stfree, 0, x.stdma + x.stvalid, TRUE)

\* irx_enable: free chunks are chained and the context runs.
IrxEnabled(x) == Requeued(x, 0, x.stvalid, x.stdma + x.stfree, TRUE)

\* One transmitted chunk goes from stdma to stfree.
Completed(x) == Requeued(x, x.stfree + 1, x.stvalid, x.stdma - 1, x.run)

\* Mutation: itx_disable and irx_disable are not called.
StillEnabled(x) == x

Disabled(x) == Requeued(x, x.stfree, x.stvalid, x.stdma, FALSE)

-----------------------------------------------------------------------------
Init ==
    /\ active = [s \in Streams |-> FALSE]
    /\ activeStreams = 0
    /\ useCount = [c \in Ctx |-> 0]
    /\ iso = [c \in Ctx |-> IF Opened THEN Fresh ELSE Closed]
    /\ chans = FALSE
    /\ streaming = FALSE
    /\ lock = "none"
    /\ co = "off"
    /\ cpc = "idle"
    /\ pc = [d \in Streams |-> "idle"]
    /\ failing = [d \in Streams |-> FALSE]
    /\ wasIdle = [d \in Streams |-> FALSE]
    /\ saved = [d \in Streams |-> 0]
    /\ started = [d \in Streams |-> FALSE]

Goto(d, label) == pc' = [pc EXCEPT ![d] = label]

\* A trigger returns and its locals are gone.  START reports success for
\* err = 0 and for err > 0 alike.
Return(d) ==
    /\ Goto(d, "idle")
    /\ wasIdle' = [wasIdle EXCEPT ![d] = FALSE]
    /\ UNCHANGED saved

-----------------------------------------------------------------------------
(* SNDRV_PCM_TRIGGER_START                                                 *)

\* was_idle is read, and the contexts are opened unless one is open.
TriggerStart(d) ==
    /\ pc[d] = "idle"
    /\ ~started[d]
    /\ activeStreams <= MaxCount /\ useCount["rx"] <= MaxCount
    /\ wasIdle' = [wasIdle EXCEPT ![d] = activeStreams = 0]
    /\ Goto(d, IF iso["tx"].open \/ iso["rx"].open THEN "s_active" ELSE "s_opentx")
    /\ UNCHANGED <<active, activeStreams, useCount, iso, devRegs, lock, callout,
                   flow, saved>>

\* dg00x_iso_open(iso_tx): on an error the trigger returns it.
OpenTx(d) ==
    /\ pc[d] = "s_opentx"
    /\ \/ /\ iso' = [iso EXCEPT !["tx"] = Fresh]
          /\ Goto(d, "s_openrx") /\ UNCHANGED locals
       \/ /\ "nochan" \in Faults
          /\ iso' = [iso EXCEPT !["tx"] = Closed]
          /\ Return(d)
       \/ /\ "nomem" \in Faults
          /\ iso' = [iso EXCEPT !["tx"] = HalfOpen]
          /\ Return(d)
    /\ UNCHANGED <<active, activeStreams, useCount, devRegs, lock, callout, flow>>

\* dg00x_iso_open(iso_rx): on an error iso_tx is closed again.
OpenRx(d) ==
    /\ pc[d] = "s_openrx"
    /\ \/ /\ iso' = [iso EXCEPT !["rx"] = Fresh]
          /\ Goto(d, "s_active") /\ UNCHANGED locals
       \/ /\ "nochan" \in Faults
          /\ iso' = [iso EXCEPT !["tx"] = Closed, !["rx"] = Closed]
          /\ Return(d)
       \/ /\ "nomem" \in Faults
          /\ iso' = [iso EXCEPT !["tx"] = Closed, !["rx"] = HalfOpen]
          /\ Return(d)
    /\ UNCHANGED <<active, activeStreams, useCount, devRegs, lock, callout, flow>>

\* Mutation: the test of was_idle is inverted.
AfterStreamStartInverted(d) == IF wasIdle[d] THEN "s_rx" ELSE "s_chans"

AfterStreamStart(d) == IF wasIdle[d] THEN "s_chans" ELSE "s_rx"

\* dg00x_pcm_stream_start up to active_streams++, which is not under
\* dg00x->lock: the load ...
StreamStart(d) ==
    /\ pc[d] = "s_active"
    /\ IF active[d]
       THEN /\ Goto(d, AfterStreamStart(d))
            /\ UNCHANGED <<active, saved>>
       ELSE /\ active' = [active EXCEPT ![d] = TRUE]
            /\ saved' = [saved EXCEPT ![d] = activeStreams]
            /\ Goto(d, "s_count")
    /\ UNCHANGED <<activeStreams, useCount, iso, devRegs, lock, callout, flow,
                   wasIdle>>

\* ... and the store.
StreamCount(d) ==
    /\ pc[d] = "s_count"
    /\ activeStreams' = saved[d] + 1
    /\ saved' = [saved EXCEPT ![d] = 0]
    /\ Goto(d, AfterStreamStart(d))
    /\ UNCHANGED <<active, useCount, iso, devRegs, lock, callout, flow, wasIdle>>

\* dg00x_begin_session: a failed write ends it with a positive errno, which
\* pcm_trigger (err < 0) takes for success.
BeginChannels(d) ==
    /\ pc[d] = "s_chans"
    /\ \/ chans' = TRUE /\ Goto(d, "s_session")
       \/ "fw" \in Faults /\ Goto(d, "s_rx") /\ UNCHANGED chans
    /\ UNCHANGED <<active, activeStreams, useCount, iso, streaming, lock,
                   callout, flow, locals>>

BeginStreaming(d) ==
    /\ pc[d] = "s_session"
    /\ \/ streaming' = TRUE
       \/ "fw" \in Faults /\ UNCHANGED streaming
    /\ Goto(d, "s_rx")
    /\ UNCHANGED <<active, activeStreams, useCount, iso, chans, lock, callout,
                   flow, locals>>

\* dg00x_streaming_start_rx: -ENODEV is the one negative error of the two
\* start functions, it takes START to its error exit.
StartRx(d) ==
    /\ pc[d] = "s_rx"
    /\ IF iso["rx"].open
       THEN /\ lock = "none"
            /\ useCount' = [useCount EXCEPT !["rx"] = @ + 1]
            /\ Goto(d, IF useCount["rx"] > 0 THEN "s_tx" ELSE "s_rxarm")
            /\ UNCHANGED failing
       ELSE /\ failing' = [failing EXCEPT ![d] = TRUE]
            /\ Goto(d, "t_tx")
            /\ UNCHANGED useCount
    /\ UNCHANGED <<active, activeStreams, iso, devRegs, lock, callout, started,
                   locals>>

\* Drain and irx_enable under FW_GLOCK.
ArmRx(d) ==
    /\ pc[d] = "s_rxarm"
    /\ \/ /\ iso' = [iso EXCEPT !["rx"] = IrxEnabled(Drained(@))]
          /\ Goto(d, "s_tx")
       \/ /\ "enable" \in Faults /\ ~iso["rx"].run
          /\ iso' = [iso EXCEPT !["rx"] = Drained(@)]
          /\ Goto(d, "s_rxerr")
    /\ UNCHANGED <<active, activeStreams, useCount, devRegs, lock, callout, flow,
                   locals>>

\* irx_enable failed (errno > 0): the count is reset and start_tx is skipped.
StartRxFailed(d) ==
    /\ pc[d] = "s_rxerr"
    /\ lock = "none"
    /\ useCount' = [useCount EXCEPT !["rx"] = 0]
    /\ Goto(d, "s_callout")
    /\ UNCHANGED <<active, activeStreams, iso, devRegs, lock, callout, flow,
                   locals>>

\* Mutation: the test precedes the increment.
StartTxUncounted(d) ==
    /\ pc[d] = "s_tx"
    /\ IF iso["tx"].open /\ useCount["tx"] = 0
       THEN /\ lock = "none"
            /\ useCount' = [useCount EXCEPT !["tx"] = 1]
            /\ Goto(d, "s_txfill")
       ELSE Goto(d, "s_callout") /\ UNCHANGED useCount
    /\ UNCHANGED <<active, activeStreams, iso, devRegs, lock, callout, flow,
                   locals>>

\* dg00x_streaming_start_tx
StartTx(d) ==
    /\ pc[d] = "s_tx"
    /\ IF iso["tx"].open
       THEN /\ lock = "none"
            /\ useCount' = [useCount EXCEPT !["tx"] = @ + 1]
            /\ Goto(d, IF useCount["tx"] > 0 THEN "s_callout" ELSE "s_txfill")
       ELSE Goto(d, "s_callout") /\ UNCHANGED useCount
    /\ UNCHANGED <<active, activeStreams, iso, devRegs, lock, callout, flow,
                   locals>>

\* Drain and fill under FW_GLOCK, dg00x->lock released.
FillTx(d) ==
    /\ pc[d] = "s_txfill"
    /\ iso' = [iso EXCEPT !["tx"] = Filled(Drained(@))]
    /\ Goto(d, "s_txenable")
    /\ UNCHANGED <<active, activeStreams, useCount, devRegs, lock, callout, flow,
                   locals>>

EnableTx(d) ==
    /\ pc[d] = "s_txenable"
    /\ \/ iso' = [iso EXCEPT !["tx"] = ItxEnabled(@)] /\ Goto(d, "s_callout")
       \/ /\ "enable" \in Faults /\ ~iso["tx"].run
          /\ Goto(d, "s_txerr")
          /\ UNCHANGED iso
    /\ UNCHANGED <<active, activeStreams, useCount, devRegs, lock, callout, flow,
                   locals>>

StartTxFailed(d) ==
    /\ pc[d] = "s_txerr"
    /\ lock = "none"
    /\ useCount' = [useCount EXCEPT !["tx"] = 0]
    /\ Goto(d, "s_callout")
    /\ UNCHANGED <<active, activeStreams, iso, devRegs, lock, callout, flow,
                   locals>>

\* The callout is armed by the first stream, and START returns 0.
StartCallout(d) ==
    /\ pc[d] = "s_callout"
    /\ co' = IF activeStreams = 1 THEN "armed" ELSE co
    /\ started' = [started EXCEPT ![d] = TRUE]
    /\ Return(d)
    /\ UNCHANGED <<active, activeStreams, useCount, iso, devRegs, lock, cpc,
                   failing>>

-----------------------------------------------------------------------------
(* SNDRV_PCM_TRIGGER_STOP, and the error exit of START                     *)

TriggerStop(d) ==
    /\ pc[d] = "idle"
    /\ started[d]
    /\ started' = [started EXCEPT ![d] = FALSE]
    /\ Goto(d, "t_stream")
    /\ UNCHANGED <<active, activeStreams, useCount, iso, devRegs, lock, callout,
                   failing, locals>>

\* Mutation: active is not cleared.
StreamStopActive(d) ==
    /\ pc[d] = "t_stream"
    /\ activeStreams' = IF activeStreams > 0 THEN activeStreams - 1 ELSE 0
    /\ IF failing[d]
       THEN failing' = [failing EXCEPT ![d] = FALSE] /\ Return(d)
       ELSE Goto(d, "t_tx") /\ UNCHANGED <<failing, locals>>
    /\ UNCHANGED <<active, useCount, iso, devRegs, lock, co, cpc, started>>

\* dg00x_pcm_stream_stop: first thing STOP does, last thing the error exit does.
StreamStop(d) ==
    /\ pc[d] = "t_stream"
    /\ IF active[d]
       THEN /\ lock = "none"
            /\ active' = [active EXCEPT ![d] = FALSE]
            /\ activeStreams' = IF activeStreams > 0 THEN activeStreams - 1 ELSE 0
            /\ co' = IF activeStreams' = 0 THEN "off" ELSE co
       ELSE UNCHANGED <<active, activeStreams, co>>
    /\ IF failing[d]
       THEN failing' = [failing EXCEPT ![d] = FALSE] /\ Return(d)
       ELSE Goto(d, "t_tx") /\ UNCHANGED <<failing, locals>>
    /\ UNCHANGED <<useCount, iso, devRegs, lock, cpc, started>>

\* Mutation: dg00x->lock is dropped before itx_disable, as stop_rx does.
StopTxUnlocked(d) ==
    /\ pc[d] = "t_tx"
    /\ iso["tx"].open => lock = "none"
    /\ IF ~iso["tx"].open \/ useCount["tx"] = 0
       THEN Goto(d, "t_rx") /\ UNCHANGED useCount
       ELSE /\ useCount' = [useCount EXCEPT !["tx"] = @ - 1]
            /\ Goto(d, IF useCount["tx"] > 1 THEN "t_rx" ELSE "t_txdisable")
    /\ UNCHANGED <<active, activeStreams, iso, devRegs, lock, callout, flow, locals>>

\* dg00x_streaming_stop_tx: the last user keeps dg00x->lock ...
StopTx(d) ==
    /\ pc[d] = "t_tx"
    /\ iso["tx"].open => lock = "none"
    /\ IF ~iso["tx"].open \/ useCount["tx"] = 0
       THEN Goto(d, "t_rx") /\ UNCHANGED <<useCount, lock>>
       ELSE /\ useCount' = [useCount EXCEPT !["tx"] = @ - 1]
            /\ IF useCount["tx"] > 1
               THEN Goto(d, "t_rx") /\ UNCHANGED lock
               ELSE Goto(d, "t_txdisable") /\ lock' = d
    /\ UNCHANGED <<active, activeStreams, iso, devRegs, callout, flow, locals>>

\* ... across itx_disable, which sleeps, ...
DisableTx(d) ==
    /\ pc[d] = "t_txdisable"
    /\ iso' = [iso EXCEPT !["tx"] = Disabled(@)]
    /\ Goto(d, "t_txdrain")
    /\ UNCHANGED <<active, activeStreams, useCount, devRegs, lock, callout, flow,
                   locals>>

\* Mutation: dg00x->lock is not released.
DrainTxLocked(d) ==
    /\ pc[d] = "t_txdrain"
    /\ iso' = [iso EXCEPT !["tx"] = Drained(@)]
    /\ Goto(d, "t_rx")
    /\ UNCHANGED <<active, activeStreams, useCount, devRegs, lock, callout, flow, locals>>

\* ... and until the queues are drained.
DrainTx(d) ==
    /\ pc[d] = "t_txdrain"
    /\ iso' = [iso EXCEPT !["tx"] = Drained(@)]
    /\ lock' = "none"
    /\ Goto(d, "t_rx")
    /\ UNCHANGED <<active, activeStreams, useCount, devRegs, callout, flow, locals>>

\* dg00x_streaming_stop_rx: dg00x->lock covers the count only.
StopRx(d) ==
    /\ pc[d] = "t_rx"
    /\ iso["rx"].open => lock = "none"
    /\ IF ~iso["rx"].open \/ useCount["rx"] = 0
       THEN Goto(d, "t_end") /\ UNCHANGED useCount
       ELSE /\ useCount' = [useCount EXCEPT !["rx"] = @ - 1]
            /\ Goto(d, IF useCount["rx"] > 1 THEN "t_end" ELSE "t_rxdisable")
    /\ UNCHANGED <<active, activeStreams, iso, devRegs, lock, callout, flow,
                   locals>>

DisableRx(d) ==
    /\ pc[d] = "t_rxdisable"
    /\ iso' = [iso EXCEPT !["rx"] = Disabled(@)]
    /\ Goto(d, "t_rxdrain")
    /\ UNCHANGED <<active, activeStreams, useCount, devRegs, lock, callout, flow,
                   locals>>

DrainRx(d) ==
    /\ pc[d] = "t_rxdrain"
    /\ iso' = [iso EXCEPT !["rx"] = Drained(@)]
    /\ Goto(d, "t_end")
    /\ UNCHANGED <<active, activeStreams, useCount, devRegs, lock, callout, flow,
                   locals>>

\* After the session: STOP returns, the error exit calls stream_stop.
Finished(d) ==
    IF failing[d] THEN Goto(d, "t_stream") /\ UNCHANGED locals ELSE Return(d)

\* Is the session over?  STOP asks active_streams, without dg00x->lock; the
\* error exit asks its own was_idle.
CheckFinish(d) ==
    /\ pc[d] = "t_end"
    /\ IF (IF failing[d] THEN wasIdle[d] ELSE activeStreams = 0)
       THEN Goto(d, "t_session") /\ UNCHANGED locals
       ELSE Finished(d)
    /\ UNCHANGED <<active, activeStreams, useCount, iso, devRegs, lock, callout,
                   flow>>

\* dg00x_finish_session: STREAMING_SET, then ISOC_CHANNELS, errors ignored.
FinishStreaming(d) ==
    /\ pc[d] = "t_session"
    /\ \/ streaming' = FALSE
       \/ "fw" \in Faults /\ UNCHANGED streaming
    /\ Goto(d, "t_chans")
    /\ UNCHANGED <<active, activeStreams, useCount, iso, chans, lock, callout,
                   flow, locals>>

FinishChannels(d) ==
    /\ pc[d] = "t_chans"
    /\ \/ chans' = FALSE
       \/ "fw" \in Faults /\ UNCHANGED chans
    /\ Goto(d, "t_pause")
    /\ UNCHANGED <<active, activeStreams, useCount, iso, streaming, lock, callout,
                   flow, locals>>

\* Mutation: no pause.
FinishNoPause(d) ==
    /\ pc[d] = "t_pause"
    /\ Finished(d)
    /\ UNCHANGED <<active, activeStreams, useCount, iso, devRegs, lock, callout,
                   flow>>

\* pause("dg00xfe", hz / 20): a callout that nothing keeps alive has fired
\* and returned by then, unless "slowTick".
FinishPause(d) ==
    /\ pc[d] = "t_pause"
    /\ \/ co = "off" /\ cpc = "idle"
       \/ \E s \in Streams : active[s]
       \/ "slowTick" \in Faults
    /\ Finished(d)
    /\ UNCHANGED <<active, activeStreams, useCount, iso, devRegs, lock, callout,
                   flow>>

-----------------------------------------------------------------------------
(* dg00x_pcm_stream_cb, the callout                                        *)

CalloutFire ==
    /\ co = "armed" /\ cpc = "idle"
    /\ co' = "off"
    /\ cpc' = "refill"
    /\ UNCHANGED <<active, activeStreams, useCount, iso, devRegs, lock, pc, flow,
                   locals>>

\* dg00x_streaming_refill_tx takes dg00x->lock and looks at playback's active.
RefillEnter ==
    /\ cpc = "refill"
    /\ IF ~iso["tx"].open
       THEN cpc' = "elapsed" /\ UNCHANGED lock
       ELSE /\ lock = "none"
            /\ IF active["pb"]
               THEN cpc' = "fill" /\ lock' = "callout"
               ELSE cpc' = "elapsed" /\ UNCHANGED lock
    /\ UNCHANGED <<active, activeStreams, useCount, iso, devRegs, co, pc, flow,
                   locals>>

\* Mutation: itx_enable is gated on FWXFERQ_RUNNING being clear
\* (the error the comment at digi00x-streaming.c:1414-1425 describes).
RefillFillGated ==
    /\ cpc = "fill"
    /\ iso' = [iso EXCEPT !["tx"] = Filled(@)]
    /\ IF iso["tx"].stfree > 0 /\ ~iso["tx"].run
       THEN cpc' = "enable" /\ UNCHANGED lock
       ELSE cpc' = "elapsed" /\ lock' = "none"
    /\ UNCHANGED <<active, activeStreams, useCount, devRegs, co, pc, flow, locals>>

\* Every free chunk is filled under FW_GLOCK.
RefillFill ==
    /\ cpc = "fill"
    /\ iso' = [iso EXCEPT !["tx"] = Filled(@)]
    /\ IF iso["tx"].stfree > 0
       THEN cpc' = "enable" /\ UNCHANGED lock
       ELSE cpc' = "elapsed" /\ lock' = "none"
    /\ UNCHANGED <<active, activeStreams, useCount, devRegs, co, pc, flow, locals>>

\* itx_enable for what was refilled, then dg00x->lock is released.
RefillEnable ==
    /\ cpc = "enable"
    /\ \/ iso' = [iso EXCEPT !["tx"] = ItxEnabled(@)]
       \/ "enable" \in Faults /\ ~iso["tx"].run /\ UNCHANGED iso
    /\ lock' = "none"
    /\ cpc' = "elapsed"
    /\ UNCHANGED <<active, activeStreams, useCount, devRegs, co, pc, flow, locals>>

\* After period_elapsed: is anything active?  Read without a lock.
CalloutCheck ==
    /\ cpc = "elapsed"
    /\ cpc' = IF \E s \in Streams : active[s] THEN "rearm" ELSE "idle"
    /\ UNCHANGED <<active, activeStreams, useCount, iso, devRegs, lock, co, pc,
                   flow, locals>>

CalloutRearm ==
    /\ cpc = "rearm"
    /\ co' = "armed"
    /\ cpc' = "idle"
    /\ UNCHANGED <<active, activeStreams, useCount, iso, devRegs, lock, pc, flow,
                   locals>>

-----------------------------------------------------------------------------
(* The FireWire interrupt                                                  *)

\* A transmitted chunk goes back to stfree, FW_GLOCK held; the last interrupt
\* may still be running when itx_disable has returned.
TxDone ==
    /\ iso["tx"].stdma > 0
    /\ iso["tx"].run \/ \E d \in Dirs : pc[d] = "t_txdrain"
    /\ iso' = [iso EXCEPT !["tx"] = Completed(@)]
    /\ UNCHANGED <<active, activeStreams, useCount, devRegs, lock, callout, pc,
                   flow, locals>>

\* dg00x_rx_handler: received chunks are recycled and irx_enable chains them
\* again.  FW_GLOCK is held throughout, so a run leaves every chunk in stdma.
RxDone ==
    /\ iso["rx"].stdma > 0
    /\ \/ iso["rx"].run
       \/ "lateRx" \in Faults /\ \E d \in Dirs : pc[d] = "t_rxdrain"
    /\ iso' = [iso EXCEPT !["rx"] = IrxEnabled(@)]
    /\ UNCHANGED <<active, activeStreams, useCount, devRegs, lock, callout, pc,
                   flow, locals>>

-----------------------------------------------------------------------------
\* The steps of a trigger once the sound layer has called it.
StartStep(d) ==
    \/ OpenTx(d) \/ OpenRx(d) \/ StreamStart(d) \/ StreamCount(d)
    \/ BeginChannels(d) \/ BeginStreaming(d)
    \/ StartRx(d) \/ ArmRx(d) \/ StartRxFailed(d)
    \/ StartTx(d) \/ FillTx(d) \/ EnableTx(d) \/ StartTxFailed(d)
    \/ StartCallout(d)

StopStep(d) ==
    \/ StreamStop(d)
    \/ StopTx(d) \/ DisableTx(d) \/ DrainTx(d)
    \/ StopRx(d) \/ DisableRx(d) \/ DrainRx(d)
    \/ CheckFinish(d) \/ FinishStreaming(d) \/ FinishChannels(d) \/ FinishPause(d)

CalloutStep ==
    \/ CalloutFire \/ RefillEnter \/ RefillFill \/ RefillEnable
    \/ CalloutCheck \/ CalloutRearm

Next ==
    \/ \E d \in Dirs : TriggerStart(d) \/ TriggerStop(d)
                       \/ StartStep(d) \/ StopStep(d)
    \/ CalloutStep
    \/ TxDone \/ RxDone

Spec == Init /\ [][Next]_vars

\* Threads and the callout are scheduled, a thread waiting for dg00x->lock
\* gets it in the end (mtx(9) hands it over), and the bus moves: nothing
\* obliges the sound layer to trigger again.
Fairness ==
    /\ \A d \in Streams : d \in Dirs => SF_vars(StartStep(d) \/ StopStep(d))
    /\ SF_vars(CalloutStep)
    /\ WF_vars(TxDone)

FairSpec == Spec /\ Fairness

-----------------------------------------------------------------------------
StartLabels == {"s_opentx", "s_openrx", "s_active", "s_count", "s_chans",
                "s_session", "s_rx", "s_rxarm", "s_rxerr", "s_tx", "s_txfill",
                "s_txenable", "s_txerr", "s_callout"}
StopLabels  == {"t_stream", "t_tx", "t_txdisable", "t_txdrain", "t_rx",
                "t_rxdisable", "t_rxdrain", "t_end", "t_session", "t_chans",
                "t_pause"}

IsoContext == [open : BOOLEAN, size : {0, NChunks}, stfree : 0 .. NChunks,
               stvalid : 0 .. NChunks, stdma : 0 .. NChunks, run : BOOLEAN]

\* Type invariant.
TypeOK ==
    /\ active \in [Streams -> BOOLEAN]
    /\ activeStreams \in Nat
    /\ useCount \in [Ctx -> Nat]
    /\ iso \in [Ctx -> IsoContext]
    /\ chans \in BOOLEAN
    /\ streaming \in BOOLEAN
    /\ lock \in {"none", "callout"} \cup Dirs
    /\ co \in {"off", "armed"}
    /\ cpc \in {"idle", "refill", "fill", "enable", "elapsed", "rearm"}
    /\ pc \in [Streams -> {"idle"} \cup StartLabels \cup StopLabels]
    /\ failing \in [Streams -> BOOLEAN]
    /\ wasIdle \in [Streams -> BOOLEAN]
    /\ saved \in [Streams -> Nat]
    /\ started \in [Streams -> BOOLEAN]

(***************************************************************************)
(* A chunk is never lost or duplicated on its way around the three queues, *)
(* whoever moves it: the trigger's fill and drain, the callout's refill,   *)
(* the interrupt (digi00x-streaming.c, the STAILQ operations).             *)
(***************************************************************************)
ChunksConserved ==
    \A c \in Ctx : iso[c].stfree + iso[c].stvalid + iso[c].stdma = iso[c].size

Quiescent == \A d \in Streams : pc[d] = "idle" /\ ~started[d]

(***************************************************************************)
(* When every stream has been stopped, or has failed to start, both        *)
(* contexts are off and own all their chunks again: nothing the callout,   *)
(* the interrupt or an error exit did can leave one running.               *)
(***************************************************************************)
EnginesOff ==
    Quiescent => \A c \in Ctx : ~iso[c].run /\ iso[c].stfree = iso[c].size

(***************************************************************************)
(* start_tx drains the queues of a context that is off: had the callout    *)
(* called itx_enable first, the drain would destroy live descriptors       *)
(* (digi00x-pcm.c:603-610).                                                *)
(***************************************************************************)
StartDrainsIdleContext ==
    (\E d \in Dirs : pc[d] = "s_txfill") => ~iso["tx"].run /\ iso["tx"].stdma = 0

(***************************************************************************)
(* DMA runs only inside a device session: it starts after begin_session    *)
(* and is off before finish_session (digi00x-pcm.c:533-539).               *)
(***************************************************************************)
DmaOnlyInSession ==
    (\E c \in Ctx : iso[c].run) => chans /\ streaming

\* The number of members of a set of streams.
Size(S) == (IF "pb" \in S THEN 1 ELSE 0) + (IF "cap" \in S THEN 1 ELSE 0)

TxUsers == {d \in Streams :
    \/ pc[d] = "idle" /\ started[d]
    \/ pc[d] \in {"s_txfill", "s_txenable", "s_callout", "t_stream", "t_tx"}}

RxUsers == {d \in Streams :
    \/ pc[d] = "idle" /\ started[d]
    \/ pc[d] \in {"s_rxarm", "s_tx", "s_txfill", "s_txenable", "s_callout",
                   "t_stream", "t_tx", "t_txdisable", "t_txdrain", "t_rx"}}

(***************************************************************************)
(* tx_use_count and rx_use_count are exactly the number of directions      *)
(* between the increment in their START and the decrement in their STOP:   *)
(* no interleaving of two triggers loses or steals a reference             *)
(* (digi00x-pcm.c:585-588, 631-637).                                       *)
(***************************************************************************)
UseCountsMatch ==
    /\ useCount["tx"] = Size(TxUsers)
    /\ useCount["rx"] = Size(RxUsers)

(***************************************************************************)
(* From the moment stop_tx has seen the last user go until its queues are  *)
(* drained, nobody enables the transmit context: neither the callout nor   *)
(* the START of the other direction (digi00x-streaming.c:1260-1268).       *)
(***************************************************************************)
StopExcludesEnable ==
    [][(\E d \in Dirs : pc[d] \in {"t_txdisable", "t_txdrain"})
       => (iso'["tx"].run => iso["tx"].run) /\ iso'["tx"].stdma <= iso["tx"].stdma]_vars

(***************************************************************************)
(* The device session lasts while a direction is started and no trigger is *)
(* under way (digi00x-pcm.c:641-645).                                      *)
(***************************************************************************)
SessionOutlivesStreams ==
    (\A d \in Streams : pc[d] = "idle") /\ (\E d \in Dirs : started[d])
    => chans /\ streaming

(***************************************************************************)
(* While a stream stays started the transmit context is given chunks again *)
(* and again, the stream being playback or capture (the device is silent   *)
(* unless the host transmits, digi00x-streaming.c:1107-1115).              *)
(***************************************************************************)
TxKeepsFed ==
    []<>((\E d \in Dirs : started[d] /\ pc[d] = "idle") /\ iso["tx"].size > 0
         => iso["tx"].stdma > 0)

(***************************************************************************)
(* Every trigger returns: no thread waits for ever for dg00x->lock, for    *)
(* the callout or for the other direction.                                 *)
(***************************************************************************)
TriggersReturn == \A d \in Dirs : []<>(pc[d] = "idle")

(***************************************************************************)
(* The callout dies with the last stream, although callout_stop cannot     *)
(* cancel a handler that is past its check (digi00x-pcm.c:328-333).        *)
(***************************************************************************)
CalloutDies ==
    <>[]Quiescent => <>[](co = "off" /\ cpc = "idle")
=============================================================================
