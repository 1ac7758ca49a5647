----------------------------- MODULE HdspStream -----------------------------
(***************************************************************************)
(* The RME HDSP engine (hdsp_main.c, hdsp_bsd.c): one start bit for both   *)
(* directions, a double buffer per direction that the interrupt fills and  *)
(* empties at each period, and a 1 ms callout that moves the OSS layer's   *)
(* pointers in between.  Positions count frames.                           *)
(***************************************************************************)
EXTENDS Integers

CONSTANTS
    OpenSets,   \* the sets of directions an application may have open
    Traced,     \* those of them whose frames the buffers tell apart
    PeriodOf,   \* frames in a period, the same for both directions
    LapsOf      \* bound: frames are numbered modulo so many rings

Streams == {"pb", "cap"}

ASSUME OpenAssumption   == OpenSets \subseteq SUBSET Streams
ASSUME TracedAssumption == Traced \subseteq OpenSets
ASSUME PeriodAssumption == PeriodOf \in [OpenSets -> Nat \ {0}]
ASSUME LapsAssumption   == LapsOf \in [OpenSets -> Nat \ {0}]

VARIABLES
    open,      \* the directions the application uses
    pc,        \* pc[d]: where the thread of direction d is
    started,   \* started[d]: its channel has been started (CHN_F_TRIGGERED)
    chn,       \* chn[d]: CHN_LOCK is held across another lock
    hlock,     \* owner of hdsp->lock across two steps
    running,   \* hdsp->running, and the start and interrupt enable bits
    stream,    \* stream[d]: audio_stream.state
    hw,        \* frames since the engine was started, modulo Span
    irq,       \* an audio interrupt is pending
    planar,    \* planar[d][i]: the frame in the DMA buffer
    hp,        \* hp[d]: the sndbuf's copy of the hardware pointer
    done,      \* done[d]: frames the OSS layer has disposed of or acquired
    sndcap,    \* sndcap[i]: the frame in the capture sndbuf
    co, cpc,   \* the callout: "off" or "armed", and where its handler is
    ipc,       \* where the interrupt handler is
    finished,  \* its finished_period
    drv        \* how far detach is

app     == <<open, pc, started>>
locks   == <<chn, hlock>>
engine  == <<running, hw, irq>>
oss     == <<hp, done>>
buffers == <<planar, sndcap>>
callout == <<co, cpc>>
isr     == <<ipc, finished>>
vars    == <<app, locks, engine, stream, oss, buffers, callout, isr, drv>>

Period == PeriodOf[open]
Ring == 2 * Period      \* setblocksize: exactly two blocks
Span == LapsOf[open] * Ring
Slots == 0 .. Ring - 1
Stale == -1             \* what an earlier session has left in a buffer

\* What a buffer says of frame f.
Frame(f) == IF open \in Traced THEN f ELSE Stale

\* Slots of period p of a buffer.
Half(p) == p * Period .. (p + 1) * Period - 1

\* Where the playback sndbuf keeps its frames: the OSS layer refills what it
\* has disposed of, so the ring holds the frames done, ..., done + Ring - 1.
Playing(i) == Frame((done["pb"] + ((i - done["pb"]) % Ring)) % Span)

\* hdsp_deinterleave_to_planar
Deinterleaved(S) ==
    [planar EXCEPT !["pb"] = [i \in Slots |-> IF i \in S THEN Playing(i) ELSE @[i]]]

\* hdsp_interleave_from_planar
Interleaved(S) ==
    [i \in Slots |-> IF i \in S THEN planar["cap"][i] ELSE sndcap[i]]

\* snd_hdsp_pointer, for either direction.
Pointer == IF running THEN hw % Ring ELSE 0

\* chn_dmaupdate of chn_intr: the frames since the last call are disposed of,
\* or acquired and handed to the application.
ChnIntr(d) ==
    /\ chn[d] = "none"
    /\ hp' = [hp EXCEPT ![d] = Pointer]
    /\ done' = [done EXCEPT ![d] = (@ + ((Ring + Pointer - hp[d]) % Ring)) % Span]

Goto(d, label) == pc' = [pc EXCEPT ![d] = label]

-----------------------------------------------------------------------------
Init ==
    /\ open \in OpenSets
    /\ pc = [d \in Streams |-> "idle"]
    /\ started = [d \in Streams |-> FALSE]
    /\ chn = [d \in Streams |-> "none"]
    /\ hlock = "none"
    /\ running = FALSE /\ hw = 0 /\ irq = FALSE
    /\ stream = [d \in Streams |-> "IDLE"]
    /\ planar = [d \in Streams |-> [i \in Slots |-> Stale]]
    /\ hp = [d \in Streams |-> 0]
    /\ done = [d \in Streams |-> 0]
    /\ sndcap = [i \in Slots |-> Stale]
    /\ co = "off" /\ cpc = "idle"
    /\ ipc = "idle" /\ finished = 0
    /\ drv = "up"

-----------------------------------------------------------------------------
(* The application's threads                                               *)

\* basound_chan_setblocksize runs under CHN_LOCK ...
SetBlocksize(d) ==
    /\ d \in open /\ drv = "up"
    /\ pc[d] = "idle" /\ ~started[d]
    /\ chn[d] = "none"
    /\ chn' = [chn EXCEPT ![d] = "app"]
    /\ Goto(d, "params")
    /\ UNCHANGED <<open, started, hlock, engine, stream, oss, buffers, callout,
                   isr, drv>>

\* ... and its hw_params takes hdsp->lock.  Both directions negotiate the same
\* period, so the latency bits keep their value.
HwParams(d) ==
    /\ pc[d] = "params"
    /\ hlock = "none"
    /\ chn' = [chn EXCEPT ![d] = "none"]
    /\ Goto(d, "idle")
    /\ UNCHANGED <<open, started, hlock, engine, stream, oss, buffers, callout,
                   isr, drv>>

\* chn_start resets the sndbuf, then the bridge gives CHN_LOCK back and calls
\* the trigger.
BeginStart(d) ==
    /\ d \in open /\ drv = "up"
    /\ pc[d] = "idle" /\ ~started[d]
    /\ chn[d] = "none"
    /\ hp' = [hp EXCEPT ![d] = 0]
    /\ done' = [done EXCEPT ![d] = 0]
    /\ sndcap' = IF d = "cap" THEN [i \in Slots |-> Stale] ELSE sndcap
    /\ Goto(d, "start")
    /\ UNCHANGED <<open, started, locks, engine, stream, planar, callout, isr,
                   drv>>

\* snd_hdsp_trigger(START): the first direction starts the engine.
TriggerStart(d) ==
    /\ pc[d] = "start"
    /\ hlock = "none"
    /\ planar' = IF d = "pb" THEN Deinterleaved(Slots) ELSE planar
    /\ IF running
       THEN UNCHANGED <<running, co>>
       ELSE running' = TRUE /\ co' = "armed"
    /\ stream' = [stream EXCEPT ![d] = "RUNNING"]
    /\ started' = [started EXCEPT ![d] = TRUE]
    /\ Goto(d, "relock")
    /\ UNCHANGED <<open, locks, hw, irq, oss, sndcap, cpc, isr, drv>>

BeginStop(d) ==
    /\ pc[d] = "idle" /\ started[d]
    /\ Goto(d, "stop")
    /\ UNCHANGED <<open, started, locks, engine, stream, oss, buffers, callout,
                   isr, drv>>

\* Mutation: the state of the stream is left alone.
TriggerStopSilent(d) ==
    /\ pc[d] = "stop"
    /\ hlock = "none"
    /\ running' = FALSE /\ hw' = 0 /\ co' = "off"
    /\ planar' = [s \in Streams |-> [i \in Slots |-> Stale]]
    /\ started' = [started EXCEPT ![d] = FALSE]
    /\ Goto(d, "relock")
    /\ UNCHANGED <<open, locks, irq, stream, oss, sndcap, cpc, isr, drv>>

\* snd_hdsp_trigger(STOP): it stops the engine for both directions, and the
\* one that comes second finds running = 0.
TriggerStop(d) ==
    /\ pc[d] = "stop"
    /\ hlock = "none"
    /\ IF running
       THEN /\ running' = FALSE /\ hw' = 0 /\ co' = "off"
            /\ stream' = [stream EXCEPT ![d] = "STOPPED"]
            /\ planar' = [s \in Streams |-> [i \in Slots |-> Stale]]
       ELSE UNCHANGED <<running, hw, co, stream, planar>>
    /\ started' = [started EXCEPT ![d] = FALSE]
    /\ Goto(d, "relock")
    /\ UNCHANGED <<open, locks, irq, oss, sndcap, cpc, isr, drv>>

\* The bridge takes CHN_LOCK again.
Relock(d) ==
    /\ pc[d] = "relock"
    /\ chn[d] = "none"
    /\ Goto(d, "idle")
    /\ UNCHANGED <<open, started, locks, engine, stream, oss, buffers, callout,
                   isr, drv>>

AppStep(d) ==
    \/ HwParams(d) \/ TriggerStart(d) \/ TriggerStop(d) \/ Relock(d)

-----------------------------------------------------------------------------
\* The engine plays and records a frame.  At the end of a period it raises
\* its interrupt, and the handler of the last one has returned by then: it has
\* a period's time, 0.7 ms at the least.
HwTick ==
    /\ running
    /\ (hw + 1) % Period = 0 => ~irq /\ ipc = "idle"
    /\ hw' = (hw + 1) % Span
    /\ irq' = (irq \/ (hw + 1) % Period = 0)
    /\ planar' = [planar EXCEPT !["cap"][hw % Ring] = Frame(hw)]
    /\ UNCHANGED <<app, locks, running, stream, oss, sndcap, callout, isr, drv>>

-----------------------------------------------------------------------------
(* snd_hdsp_interrupt                                                      *)

\* Mutation: HDSP_BufferID is taken for the finished period.
FinishedNow == (hw % Ring) \div Period

\* HDSP_BufferID is the period in use, the other one is finished.
FinishedPeriod == 1 - (hw % Ring) \div Period

IsrEnter ==
    /\ irq /\ ipc = "idle" /\ drv # "gone"
    /\ hlock = "none"
    /\ hlock' = "isr"
    /\ finished' = FinishedPeriod
    /\ ipc' = "confirm"
    /\ UNCHANGED <<app, chn, engine, stream, oss, buffers, callout, drv>>

\* Mutation: hdsp->lock is not released before the PCM layer is called.
IsrConfirmLocked ==
    /\ ipc = "confirm"
    /\ irq' = FALSE
    /\ ipc' = "copycap"
    /\ UNCHANGED <<app, locks, running, hw, stream, oss, buffers, callout,
                   finished, drv>>

IsrConfirm ==
    /\ ipc = "confirm"
    /\ irq' = FALSE
    /\ hlock' = "none"
    /\ ipc' = "copycap"
    /\ UNCHANGED <<app, chn, running, hw, stream, oss, buffers, callout,
                   finished, drv>>

\* A captured period goes to the sndbuf before the OSS layer is told.
IsrCapture ==
    /\ ipc = "copycap"
    /\ sndcap' = IF stream["cap"] = "RUNNING" THEN Interleaved(Half(finished))
                 ELSE sndcap
    /\ ipc' = "testcap"
    /\ UNCHANGED <<app, locks, engine, stream, oss, planar, callout, finished,
                   drv>>

\* snd_pcm_period_elapsed: the state of the stream is tested without a lock,
\* then chn_intr waits for CHN_LOCK.
IsrTest(d, at, run, skip) ==
    /\ ipc = at
    /\ ipc' = IF stream[d] = "RUNNING" THEN run ELSE skip
    /\ UNCHANGED <<app, locks, engine, stream, oss, buffers, callout, finished,
                   drv>>

IsrElapsed(d, at, next) ==
    /\ ipc = at
    /\ ChnIntr(d)
    /\ ipc' = next
    /\ UNCHANGED <<app, locks, engine, stream, buffers, callout, finished, drv>>

\* The period just played is refilled from the sndbuf.
IsrRefill ==
    /\ ipc = "copypb"
    /\ planar' = IF stream["pb"] = "RUNNING" THEN Deinterleaved(Half(finished))
                 ELSE planar
    /\ ipc' = "idle"
    /\ UNCHANGED <<app, locks, engine, stream, oss, sndcap, callout, finished,
                   drv>>

Interrupt ==
    \/ IsrEnter \/ IsrConfirm \/ IsrCapture \/ IsrRefill
    \/ IsrTest("cap", "testcap", "intrcap", "testpb")
    \/ IsrElapsed("cap", "intrcap", "testpb")
    \/ IsrTest("pb", "testpb", "intrpb", "copypb")
    \/ IsrElapsed("pb", "intrpb", "copypb")

-----------------------------------------------------------------------------
(* hdsp_pcm_callout                                                        *)

CalloutFire ==
    /\ co = "armed" /\ cpc = "idle"
    /\ co' = "off" /\ cpc' = "check"
    /\ UNCHANGED <<app, locks, engine, stream, oss, buffers, isr, drv>>

\* Mutation: the handler does not look at running.
CalloutUnchecked ==
    /\ cpc = "check"
    /\ cpc' = "testpb"
    /\ UNCHANGED <<app, locks, engine, stream, oss, buffers, co, isr, drv>>

\* Mutation: nothing to feed ends the callout.
CalloutCheckPlayback ==
    /\ cpc = "check"
    /\ cpc' = IF running /\ stream["pb"] = "RUNNING" THEN "testpb" ELSE "idle"
    /\ UNCHANGED <<app, locks, engine, stream, oss, buffers, co, isr, drv>>

CalloutCheck ==
    /\ cpc = "check"
    /\ cpc' = IF running THEN "testpb" ELSE "idle"
    /\ UNCHANGED <<app, locks, engine, stream, oss, buffers, co, isr, drv>>

CalloutTest(d, at, run, skip) ==
    /\ cpc = at
    /\ cpc' = IF stream[d] = "RUNNING" THEN run ELSE skip
    /\ UNCHANGED <<app, locks, engine, stream, oss, buffers, co, isr, drv>>

CalloutElapsed(d, at, next) ==
    /\ cpc = at
    /\ ChnIntr(d)
    /\ cpc' = next
    /\ UNCHANGED <<app, locks, engine, stream, buffers, co, isr, drv>>

\* callout_reset; callout_drain does not let a handler arm it again.
CalloutRearm ==
    /\ cpc = "rearm"
    /\ co' = IF drv = "draining" THEN co ELSE "armed"
    /\ cpc' = "idle"
    /\ UNCHANGED <<app, locks, engine, stream, oss, buffers, isr, drv>>

CalloutStep ==
    \/ CalloutFire \/ CalloutCheck \/ CalloutRearm
    \/ CalloutTest("pb", "testpb", "intrpb", "testcap")
    \/ CalloutElapsed("pb", "intrpb", "testcap")
    \/ CalloutTest("cap", "testcap", "intrcap", "rearm")
    \/ CalloutElapsed("cap", "intrcap", "rearm")

-----------------------------------------------------------------------------
(* hdsp_bsd_detach, once the application has closed both directions        *)

Closed == \A d \in Streams : pc[d] = "idle" /\ ~started[d]

\* Mutation: callout_stop does not wait for the handler.
DetachStop ==
    /\ drv = "up" /\ Closed
    /\ drv' = "drained" /\ co' = "off"
    /\ UNCHANGED <<app, locks, engine, stream, oss, buffers, cpc, isr>>

\* callout_drain: a pending callout is cancelled ...
DetachDrain ==
    /\ drv = "up" /\ Closed
    /\ drv' = "draining" /\ co' = "off"
    /\ UNCHANGED <<app, locks, engine, stream, oss, buffers, cpc, isr>>

\* ... and a running handler is waited for.
DetachDrained ==
    /\ drv = "draining" /\ cpc = "idle"
    /\ drv' = "drained"
    /\ UNCHANGED <<app, locks, engine, stream, oss, buffers, callout, isr>>

\* DMA buffers, MIDI ports and card are freed; bus_teardown_intr waits for
\* the handler.
DetachRest ==
    /\ drv = "drained" /\ ipc = "idle"
    /\ drv' = "gone"
    /\ UNCHANGED <<app, locks, engine, stream, oss, buffers, callout, isr>>

-----------------------------------------------------------------------------
Next ==
    \/ \E d \in Streams : \/ SetBlocksize(d) \/ BeginStart(d) \/ BeginStop(d)
                          \/ AppStep(d)
    \/ HwTick \/ Interrupt \/ CalloutStep
    \/ DetachDrain \/ DetachDrained \/ DetachRest

Spec == Init /\ [][Next]_vars

\* Threads, interrupts and the callout are scheduled and get the locks they
\* wait for; starting, stopping and the engine's speed are not obligations.
Fairness ==
    /\ \A d \in Streams : SF_vars(AppStep(d))
    /\ SF_vars(Interrupt)
    /\ SF_vars(CalloutStep)

FairSpec == Spec /\ Fairness

-----------------------------------------------------------------------------
\* Type invariant: the OSS layer's copy of the pointer stays in the ring.
TypeOK ==
    /\ open \in OpenSets
    /\ pc \in [Streams -> {"idle", "params", "start", "stop", "relock"}]
    /\ started \in [Streams -> BOOLEAN]
    /\ chn \in [Streams -> {"none", "app"}]
    /\ hlock \in {"none", "isr"}
    /\ running \in BOOLEAN /\ irq \in BOOLEAN
    /\ hw \in 0 .. Span - 1
    /\ stream \in [Streams -> {"IDLE", "RUNNING", "STOPPED"}]
    /\ planar \in [Streams -> [Slots -> Stale .. Span - 1]]
    /\ hp \in [Streams -> Slots]
    /\ done \in [Streams -> 0 .. Span - 1]
    /\ sndcap \in [Slots -> Stale .. Span - 1]
    /\ co \in {"off", "armed"}
    /\ cpc \in {"idle", "check", "testpb", "intrpb", "testcap", "intrcap",
                "rearm"}
    /\ ipc \in {"idle", "confirm", "copycap", "testcap", "intrcap", "testpb",
                "intrpb", "copypb"}
    /\ finished \in {0, 1}
    /\ drv \in {"up", "draining", "drained", "gone"}

(***************************************************************************)
(* With playback alone the engine plays every frame once and in order: the *)
(* slot it comes to holds the next frame, although the OSS layer refills   *)
(* the sndbuf behind the precise pointer while the handler copies whole    *)
(* periods out of it (hdsp_main.c:233-238, 623-624).                       *)
(***************************************************************************)
PlaybackInOrder ==
    open = {"pb"} /\ running => planar["pb"][hw % Ring] = Frame(hw)

(***************************************************************************)
(* While the engine runs the feeder does: no order of STOP, START and a    *)
(* handler that is on its way out loses it (hdsp_main.c:301-317).          *)
(***************************************************************************)
FeederAlive == running => co = "armed" \/ cpc # "idle"

(***************************************************************************)
(* The feeder ends with the engine, although callout_stop cannot cancel a  *)
(* handler that is past its test of running (hdsp_main.c:1110-1115).       *)
(***************************************************************************)
FeederDies == <>[]~running => <>[](co = "off" /\ cpc = "idle")

(***************************************************************************)
(* Once detach has drained the feeder it does not touch the softc again    *)
(* (hdsp_bsd.c:173-175), the application being gone.                       *)
(***************************************************************************)
FeederDrained == drv \in {"drained", "gone"} => co = "off" /\ cpc = "idle"

(***************************************************************************)
(* The interrupt returns and the application's calls return: CHN_LOCK and  *)
(* hdsp->lock are never waited for in a circle (hdsp_main.c:240-247).      *)
(***************************************************************************)
CallsReturn ==
    /\ []<>(ipc = "idle")
    /\ \A d \in Streams : []<>(pc[d] = "idle")

\* RUNNING says that the channel is started, or about to be told so.
RunningIsStarted ==
    \A d \in Streams : stream[d] = "RUNNING" => started[d]

(***************************************************************************)
(* With one direction in use RUNNING is the reliable sign of a started     *)
(* channel that the handlers take it for (hdsp_main.c:251-258).            *)
(***************************************************************************)
SoloRunning == open # Streams => RunningIsStarted

(***************************************************************************)
(* What the OSS layer takes from the capture sndbuf are the frames that    *)
(* were recorded for these slots: the handler has copied them before the   *)
(* read pointer advances (hdsp_main.c:701-702).                            *)
(***************************************************************************)
CaptureFresh ==
    [][running /\ running' /\ started["cap"] =>
         \A j \in 0 .. ((done'["cap"] - done["cap"]) % Span) - 1 :
             LET k == done["cap"] + j
             IN  sndcap[k % Ring] = k % Span]_vars
=============================================================================
