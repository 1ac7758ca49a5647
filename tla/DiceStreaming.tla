---------------------------- MODULE DiceStreaming ----------------------------
(***************************************************************************)
(* The streaming session of the DICE driver (dice_streaming.c): triggers   *)
(* of two directions that share one or two transmit contexts and the       *)
(* receive contexts, the 1 ms callout that refills the transmit queues in  *)
(* pairs, and its watchdog, which restarts contexts that a bus reset has   *)
(* halted.  rx_use_count is the code's name for the users of the host's    *)
(* transmit contexts, tx_use_count for those of its receive contexts.      *)
(***************************************************************************)
EXTENDS Integers, FiniteSets

CONSTANTS
    Settings,     \* the devices and circumstances that are looked at
    NChunks,      \* chunks of a context (DICE_ISO_NCHUNKS)
    StallLimit,   \* ticks without a completed chunk (DICE_TX_STALL_LIMIT)
    MaxResets,    \* bound: bus resets
    MaxRefusals,  \* bound: enables of a context that fail
    MaxCount      \* bound: the active_streams at which triggers still overlap;
                  \* updates that are lost let it grow for ever

Dirs == {"play", "rec"}

\* streams: the contexts of a direction, 1 or 2.  overlap: the directions may
\* be triggered at the same time.  ticks: the callout's clock runs (without it
\* only the triggers are looked at).  delay: the callout may be suspended between
\* its test of rx_use_count and its lock.  faults: which requests may fail,
\* writes to the device or enables of a context.  resets: the bus may be reset.
ASSUME SettingsAssumption ==
    Settings \subseteq [streams: 1 .. 2, overlap: BOOLEAN, ticks: BOOLEAN,
                        delay: BOOLEAN, faults: SUBSET {"write", "enable"},
                        resets: BOOLEAN]
ASSUME ChunksAssumption == NChunks \in Nat \ {0}
ASSUME StallAssumption  == StallLimit \in Nat \ {0}
ASSUME BoundsAssumption ==
    MaxResets \in Nat /\ MaxRefusals \in Nat /\ MaxCount \in Nat

VARIABLES
    setting,
    pc,             \* pc[d]: where the thread that triggers direction d is
    todo,           \* todo[d]: "start", "stop", or "fail"
    chan,           \* chan[d]: "stopped", "started", "failed", for sound(4)
    active,         \* active[d]: dice_pcm_stream.active
    active_streams,
    saved,          \* saved[d]: the value of active_streams that ++ or -- has loaded
    rx_use_count, tx_use_count,
    plock,          \* the callout holds playback_lock
    q,              \* q[i]: the queues of transmit context i
    on,             \* on[i]: transmit context i is "off", "on" or, since a bus
                    \* reset, "dead"
    rxon,           \* the same of the receive contexts
    dev,            \* the device is programmed and GLOBAL_ENABLE is set
    tx_stall_ticks, tx_restart,
    co, cpc,        \* the callout: "off" or "armed", and where its handler is
    resets,         \* bus resets so far
    refusals,       \* enables that have failed so far
    \* History variables, which no guard reads:
    stray,          \* what a failing START has left on, or the callout or a failed
                    \* write has switched or left on with nobody to switch it off
    lost,           \* the directions of contexts of which a failing enable has
                    \* forgotten the other direction's claim
    missed          \* since the watchdog programmed the device, a bus reset or a
                    \* failing write has undone it before the contexts ran

threads == <<pc, todo, chan, active, saved>>
counts  == <<active_streams, rx_use_count, tx_use_count>>
host    == <<q, on, rxon>>
watch   == <<tx_stall_ticks, tx_restart>>
callout == <<co, cpc>>
faulty  == <<resets, refusals>>
history == <<stray, lost, missed>>
vars    == <<setting, threads, counts, plock, host, dev, watch, callout, faulty,
             history>>

Tx == 1 .. setting.streams
Other(d) == IF d = "play" THEN "rec" ELSE "play"
Least(S) == CHOOSE n \in S : \A m \in S : n <= m

Empty == [free |-> NChunks, valid |-> 0, dma |-> 0]

\* The drain loops: every chunk goes back to stfree.
Drained == [i \in 1 .. 2 |-> Empty]

\* dice_refill_tx_slot as often as every context has a free chunk.
Slots == Least({q[i].free : i \in Tx})
Filled(p, n) ==
    [i \in 1 .. 2 |->
        IF i \in Tx THEN [p[i] EXCEPT !.free = @ - n, !.valid = @ + n] ELSE p[i]]

\* itx_enable of the contexts in I: the valid chunks get their descriptors.  A
\* context that a bus reset has halted runs again only after a disable.
Enabled(I) ==
    [i \in 1 .. 2 |->
        IF i \in I THEN [q[i] EXCEPT !.dma = @ + q[i].valid, !.valid = 0] ELSE q[i]]
Revived(state) == IF state = "off" THEN "on" ELSE state
Switched(I) == [i \in 1 .. 2 |-> IF i \in I THEN Revived(on[i]) ELSE on[i]]
AllOff == [i \in 1 .. 2 |-> "off"]

\* An enable may fail where the context is off and needs its descriptors.
MayRefuse(state) ==
    "enable" \in setting.faults /\ state = "off" /\ refusals < MaxRefusals

\* What is on with nobody to switch it off (the device is only watched for
\* triggers one after the other, see StopsQuiet).
Strays(S) == stray' = stray \cup (IF setting.overlap THEN S \ {"dev"} ELSE S)

Goto(d, label) == pc' = [pc EXCEPT ![d] = label]

-----------------------------------------------------------------------------
Init ==
    /\ setting \in Settings
    /\ pc = [d \in Dirs |-> "idle"]
    /\ todo = [d \in Dirs |-> "stop"]
    /\ chan = [d \in Dirs |-> "stopped"]
    /\ active = [d \in Dirs |-> FALSE]
    /\ active_streams = 0 /\ saved = [d \in Dirs |-> 0]
    /\ rx_use_count = 0 /\ tx_use_count = 0
    /\ plock = FALSE
    /\ q = Drained
    /\ on = AllOff /\ rxon = "off" /\ dev = FALSE
    /\ tx_stall_ticks = 0 /\ tx_restart = FALSE
    /\ co = "off" /\ cpc = "idle"
    /\ resets = 0 /\ refusals = 0
    /\ stray = {} /\ lost = {} /\ missed = FALSE

-----------------------------------------------------------------------------
(* dice_pcm_trigger and dice_streaming_start_playback, _capture            *)

\* chn_trigger asks for START of a stopped channel, and for STOP of one whose
\* START succeeded or failed; an inactive stream is not stopped again.
BeginTrigger(d) ==
    /\ pc[d] = "idle"
    /\ \/ setting.overlap /\ active_streams <= MaxCount
       \/ pc[Other(d)] = "idle"
    /\ \/ /\ chan[d] = "stopped"
          /\ todo' = [todo EXCEPT ![d] = "start"]
          /\ Goto(d, IF active[d] THEN "return" ELSE "s_test")
       \/ /\ chan[d] # "stopped"
          /\ todo' = [todo EXCEPT ![d] = "stop"]
          /\ Goto(d, IF active[d] THEN "t_inactive" ELSE "return")
    /\ UNCHANGED <<setting, chan, active, saved, counts, plock, host, dev, watch,
                   callout, faulty, history>>

Return(d) ==
    /\ pc[d] = "return"
    /\ chan' = [chan EXCEPT ![d] = CASE todo[d] = "start" -> "started"
                                     [] todo[d] = "fail"  -> "failed"
                                     [] todo[d] = "stop"  -> "stopped"]
    /\ Goto(d, "idle")
    /\ UNCHANGED <<setting, todo, active, saved, counts, plock, host, dev, watch,
                   callout, faulty, history>>

\* START returns an error.
Fail(d) ==
    /\ todo' = [todo EXCEPT ![d] = "fail"]
    /\ Goto(d, "return")

\* The router of some devices is set up by writes that may fail; the device is
\* programmed only when active_streams says that it is idle.
TestIdle(d) ==
    /\ pc[d] = "s_test"
    /\ \/ /\ Goto(d, IF active_streams = 0 THEN "s_program" ELSE "s_active")
          /\ UNCHANGED todo
       \/ "write" \in setting.faults /\ Fail(d)
    /\ UNCHANGED <<setting, chan, active, saved, counts, plock, host, dev, watch,
                   callout, faulty, history>>

\* dice_program_device.  A write whose answer is lost may have been performed.
ProgramDevice(d) ==
    /\ pc[d] = "s_program"
    /\ \/ dev' = TRUE /\ Goto(d, "s_active") /\ UNCHANGED <<todo, stray>>
       \/ /\ "write" \in setting.faults
          /\ Fail(d)
          /\ dev' \in {dev, TRUE}
          /\ Strays({"dev"})
    /\ UNCHANGED <<setting, chan, active, saved, counts, plock, host, watch,
                   callout, faulty, lost, missed>>

Activate(d) ==
    /\ pc[d] = "s_active"
    /\ active' = [active EXCEPT ![d] = TRUE]
    /\ Goto(d, "s_tx")
    /\ UNCHANGED <<setting, todo, chan, saved, counts, plock, host, dev, watch,
                   callout, faulty, history>>

\* dice_ensure_host_tx: the first user drains, fills and enables.
ClaimTx(d) ==
    /\ pc[d] = "s_tx"
    /\ ~plock
    /\ rx_use_count' = rx_use_count + 1
    /\ Goto(d, IF rx_use_count > 0 THEN "s_rx" ELSE "s_fill")
    /\ UNCHANGED <<setting, todo, chan, active, saved, active_streams,
                   tx_use_count, plock, host, dev, watch, callout, faulty, history>>

FillTx(d) ==
    /\ pc[d] = "s_fill"
    /\ q' = Filled(Drained, NChunks)
    /\ Goto(d, "s_enable1")
    /\ UNCHANGED <<setting, todo, chan, active, saved, counts, plock, on, rxon, dev,
                   watch, callout, faulty, history>>

\* Context by context, without a lock.
EnableTx(d) ==
    \E i \in Tx :
        /\ pc[d] = <<"s_enable1", "s_enable2">>[i]
        /\ \/ /\ q' = Enabled({i}) /\ on' = Switched({i})
              /\ Goto(d, IF i + 1 \in Tx THEN "s_enable2" ELSE "s_clear")
              /\ UNCHANGED <<todo, refusals>>
           \/ /\ MayRefuse(on[i])
              /\ refusals' = refusals + 1
              /\ todo' = [todo EXCEPT ![d] = "fail"]
              /\ Goto(d, "e_tx")
              /\ UNCHANGED <<q, on>>
        /\ UNCHANGED <<setting, chan, active, saved, counts, plock, rxon, dev,
                       watch, callout, resets, history>>

\* The count is set to 0, whoever else has been counted; contexts enabled before
\* the one that failed stay on, and so does the device.
ForgetTx(d) ==
    /\ pc[d] = "e_tx"
    /\ ~plock
    /\ rx_use_count' = 0
    /\ lost' = IF rx_use_count > 1 THEN lost \cup {"tx"} ELSE lost
    /\ Strays({"tx", "dev"})
    /\ Goto(d, "e_inactive")
    /\ UNCHANGED <<setting, todo, chan, active, saved, active_streams,
                   tx_use_count, plock, host, dev, watch, callout, faulty, missed>>

\* The watchdog's state is reset when playback_lock has been dropped.
ClearWatch(d) ==
    /\ pc[d] = "s_clear"
    /\ tx_stall_ticks' = 0 /\ tx_restart' = FALSE
    /\ Goto(d, "s_rx")
    /\ UNCHANGED <<setting, todo, chan, active, saved, counts, plock, host, dev,
                   callout, faulty, history>>

\* dice_ensure_host_rx
ClaimRx(d) ==
    /\ pc[d] = "s_rx"
    /\ tx_use_count' = tx_use_count + 1
    /\ Goto(d, IF tx_use_count > 0 THEN "s_callout" ELSE "s_irx")
    /\ UNCHANGED <<setting, todo, chan, active, saved, active_streams,
                   rx_use_count, plock, host, dev, watch, callout, faulty, history>>

\* All contexts under FW_GLOCK; some may be on when one fails.
EnableRx(d) ==
    /\ pc[d] = "s_irx"
    /\ \/ /\ rxon' = Revived(rxon)
          /\ Goto(d, "s_callout")
          /\ UNCHANGED <<todo, refusals>>
       \/ /\ MayRefuse(rxon)
          /\ refusals' = refusals + 1
          /\ rxon' \in {rxon, Revived(rxon)}
          /\ todo' = [todo EXCEPT ![d] = "fail"]
          /\ Goto(d, "e_rx")
    /\ UNCHANGED <<setting, chan, active, saved, counts, plock, q, on, dev, watch,
                   callout, resets, history>>

\* The same of the receive contexts; START then undoes its transmit claim.
ForgetRx(d) ==
    /\ pc[d] = "e_rx"
    /\ tx_use_count' = 0
    /\ lost' = IF tx_use_count > 1 THEN lost \cup {"rx"} ELSE lost
    /\ Strays({"rx", "dev"})
    /\ Goto(d, "t_inactive")
    /\ UNCHANGED <<setting, todo, chan, active, saved, active_streams,
                   rx_use_count, plock, host, dev, watch, callout, faulty, missed>>

\* The START that leaves idle arms the callout, which lives until neither
\* direction is active.
ArmCallout(d) ==
    /\ pc[d] = "s_callout"
    /\ co' = IF active_streams = 0 THEN "armed" ELSE co
    /\ Goto(d, "s_load")
    /\ UNCHANGED <<setting, todo, chan, active, saved, counts, plock, host, dev,
                   watch, cpc, faulty, history>>

\* active_streams++ without a lock, a load and a store.
LoadCount(d) ==
    /\ pc[d] = "s_load"
    /\ saved' = [saved EXCEPT ![d] = active_streams]
    /\ Goto(d, "s_store")
    /\ UNCHANGED <<setting, todo, chan, active, counts, plock, host, dev, watch,
                   callout, faulty, history>>

CountStream(d) ==
    /\ pc[d] = "s_store"
    /\ active_streams' = saved[d] + 1
    /\ saved' = [saved EXCEPT ![d] = 0]
    /\ Goto(d, "return")
    /\ UNCHANGED <<setting, todo, chan, active, rx_use_count, tx_use_count,
                   plock, host, dev, watch, callout, faulty, history>>

-----------------------------------------------------------------------------
(* dice_streaming_stop_playback, _capture                                  *)

\* A START that fails does the same, and returns if no claim is left to undo.
Deactivate(d) ==
    /\ pc[d] \in {"t_inactive", "e_inactive"}
    /\ active' = [active EXCEPT ![d] = FALSE]
    /\ Goto(d, IF pc[d] = "t_inactive" THEN "t_tx" ELSE "return")
    /\ UNCHANGED <<setting, todo, chan, saved, counts, plock, host, dev, watch,
                   callout, faulty, history>>

\* STOP goes on with the receive side, the undo of a START has finished.
AfterTx(d) == IF todo[d] = "stop" THEN "t_rx" ELSE "return"

\* Mutation: the last user is not told from the others.
ReleaseAny(d) ==
    /\ pc[d] = "t_tx"
    /\ ~plock
    /\ rx_use_count' = IF rx_use_count > 0 THEN rx_use_count - 1 ELSE 0
    /\ Goto(d, AfterTx(d))
    /\ UNCHANGED <<setting, todo, chan, active, saved, active_streams,
                   tx_use_count, plock, host, dev, watch, callout, faulty, history>>

\* dice_release_host_tx: the last user disables the contexts, without the lock.
ReleaseTx(d) ==
    /\ pc[d] = "t_tx"
    /\ ~plock
    /\ rx_use_count' = IF rx_use_count > 0 THEN rx_use_count - 1 ELSE 0
    /\ IF rx_use_count = 1
       THEN tx_stall_ticks' = 0 /\ tx_restart' = FALSE /\ Goto(d, "t_itx")
       ELSE UNCHANGED watch /\ Goto(d, AfterTx(d))
    /\ UNCHANGED <<setting, todo, chan, active, saved, active_streams,
                   tx_use_count, plock, host, dev, callout, faulty, history>>

DisableTx(d) ==
    /\ pc[d] = "t_itx"
    /\ on' = AllOff
    /\ stray' = stray \ {"tx"}
    /\ Goto(d, AfterTx(d))
    /\ UNCHANGED <<setting, todo, chan, active, saved, counts, plock, q, rxon, dev,
                   watch, callout, faulty, lost, missed>>

\* Mutation: a direction gives back its own contexts only.
ReleaseOwn(d) ==
    /\ pc[d] = "t_rx"
    /\ tx_use_count' = IF d = "rec" /\ tx_use_count > 0 THEN tx_use_count - 1
                       ELSE tx_use_count
    /\ Goto(d, IF d = "rec" /\ tx_use_count = 1 THEN "t_irx" ELSE "t_load")
    /\ UNCHANGED <<setting, todo, chan, active, saved, active_streams,
                   rx_use_count, plock, host, dev, watch, callout, faulty, history>>

\* dice_release_host_rx
ReleaseRx(d) ==
    /\ pc[d] = "t_rx"
    /\ tx_use_count' = IF tx_use_count > 0 THEN tx_use_count - 1 ELSE 0
    /\ Goto(d, IF tx_use_count = 1 THEN "t_irx" ELSE "t_load")
    /\ UNCHANGED <<setting, todo, chan, active, saved, active_streams,
                   rx_use_count, plock, host, dev, watch, callout, faulty, history>>

DisableRx(d) ==
    /\ pc[d] = "t_irx"
    /\ rxon' = "off"
    /\ stray' = stray \ {"rx"}
    /\ Goto(d, "t_load")
    /\ UNCHANGED <<setting, todo, chan, active, saved, counts, plock, q, on, dev,
                   watch, callout, faulty, lost, missed>>

\* The test and the decrement of active_streams use one load ...
UnloadCount(d) ==
    /\ pc[d] = "t_load"
    /\ saved' = [saved EXCEPT ![d] = active_streams]
    /\ Goto(d, IF active_streams > 0 THEN "t_store" ELSE "t_test")
    /\ UNCHANGED <<setting, todo, chan, active, counts, plock, host, dev, watch,
                   callout, faulty, history>>

UncountStream(d) ==
    /\ pc[d] = "t_store"
    /\ active_streams' = saved[d] - 1
    /\ saved' = [saved EXCEPT ![d] = 0]
    /\ Goto(d, "t_test")
    /\ UNCHANGED <<setting, todo, chan, active, rx_use_count, tx_use_count,
                   plock, host, dev, watch, callout, faulty, history>>

\* ... and the second test one of its own.
TestLast(d) ==
    /\ pc[d] = "t_test"
    /\ Goto(d, IF active_streams = 0 THEN "t_disable" ELSE "return")
    /\ UNCHANGED <<setting, todo, chan, active, saved, counts, plock, host, dev,
                   watch, callout, faulty, history>>

\* dice_enable(sc, false), whose result is ignored.
DisableDevice(d) ==
    /\ pc[d] = "t_disable"
    /\ \/ dev' = FALSE /\ stray' = stray \ {"dev"}
       \/ /\ "write" \in setting.faults
          /\ Strays({"dev"})
          /\ UNCHANGED dev
    /\ Goto(d, "return")
    /\ UNCHANGED <<setting, todo, chan, active, saved, counts, plock, host, watch,
                   callout, faulty, lost, missed>>

-----------------------------------------------------------------------------
(* The callout: dice_pcm_stream_cb, dice_streaming_refill_tx and           *)
(* dice_streaming_restart_tx.  Tasks in it sleep, with no lock held.       *)

\* Contexts that run complete packets in every tick (about 8 in the code), but
\* one of them may be late.
Healthy == (\A i \in Tx : on[i] = "on") => \E i \in Tx : q[i].free > 0

\* A START fills and enables its contexts, or fails, in less than StallLimit ticks.
Enabling == {"s_fill", "s_enable1", "s_enable2", "e_tx"}
Prompt == tx_stall_ticks = StallLimit - 1 => \A d \in Dirs : pc[d] \notin Enabling

CalloutFire ==
    /\ setting.ticks /\ co = "armed" /\ cpc = "idle"
    /\ Healthy /\ Prompt
    /\ co' = "off"
    /\ cpc' = IF rx_use_count = 0 THEN "check" ELSE "refill"
    /\ UNCHANGED <<setting, threads, counts, plock, host, dev, watch, faulty,
                   history>>

\* Under playback_lock: every slot for which all contexts have a chunk.
RefillFill ==
    /\ Slots > 0
    /\ q' = Filled(q, Slots)
    /\ tx_stall_ticks' = 0
    /\ plock' = TRUE
    /\ cpc' = "enable"
    /\ UNCHANGED tx_restart

\* Mutation: one context without a chunk is a stall.
AnyEmpty ==
    /\ Slots = 0
    /\ tx_stall_ticks' = (tx_stall_ticks + 1) % StallLimit
    /\ tx_restart' = (tx_restart \/ tx_stall_ticks + 1 >= StallLimit)
    /\ cpc' = "restart"
    /\ UNCHANGED <<q, plock>>

\* Nothing could be filled: only if no context has a chunk it is a stall.
RefillStall ==
    /\ Slots = 0
    /\ IF \A i \in Tx : q[i].free = 0
       THEN /\ tx_stall_ticks' = (tx_stall_ticks + 1) % StallLimit
            /\ tx_restart' = (tx_restart \/ tx_stall_ticks + 1 >= StallLimit)
       ELSE UNCHANGED watch
    /\ cpc' = "restart"
    /\ UNCHANGED <<q, plock>>

Refill ==
    /\ cpc = "refill"
    /\ ~plock
    /\ setting.delay \/ rx_use_count > 0
    /\ RefillFill \/ RefillStall
    /\ UNCHANGED <<setting, threads, counts, on, rxon, dev, co, faulty, history>>

\* Without delay the handler is in its lock when it tests the use count.
RefillSkip ==
    /\ cpc = "refill"
    /\ ~setting.delay /\ rx_use_count = 0
    /\ cpc' = "check"
    /\ UNCHANGED <<setting, threads, counts, plock, host, dev, watch, co, faulty,
                   history>>

\* itx_enable of every context, whose result is ignored; contexts that are
\* enabled when no direction has claimed them are left to themselves.
EnableAll ==
    /\ \E I \in SUBSET Tx :
          /\ \A i \in Tx \ I : MayRefuse(on[i])
          /\ refusals' = refusals + (IF I = Tx THEN 0 ELSE 1)
          /\ q' = Enabled(I) /\ on' = Switched(I)
    /\ Strays(IF rx_use_count = 0 THEN {"tx"} ELSE {})
    /\ plock' = FALSE

RefillEnable ==
    /\ cpc = "enable"
    /\ EnableAll
    /\ cpc' = "restart"
    /\ UNCHANGED <<setting, threads, counts, rxon, dev, watch, co, resets, lost,
                   missed>>

\* The flag and ps->active are read without a lock.
RestartTest ==
    /\ cpc = "restart"
    /\ IF tx_restart /\ active["play"]
       THEN cpc' = "r_program" /\ UNCHANGED watch
       ELSE /\ cpc' = "check"
            /\ tx_restart' = FALSE
            /\ tx_stall_ticks' = IF tx_restart THEN 0 ELSE tx_stall_ticks
    /\ UNCHANGED <<setting, threads, counts, plock, host, dev, co, faulty,
                   history>>

\* Mutation: the device is left as the bus reset has left it.
RestartHostOnly ==
    /\ cpc = "r_program"
    /\ cpc' = "r_disable"
    /\ UNCHANGED <<setting, threads, counts, plock, host, dev, watch, co, faulty,
                   history>>

\* The results of the writes are ignored.
RestartProgram ==
    /\ cpc = "r_program"
    /\ \/ dev' = TRUE /\ missed' = FALSE
       \/ "write" \in setting.faults /\ dev' \in {dev, TRUE} /\ missed' = TRUE
    /\ Strays(IF active_streams = 0 THEN {"dev"} ELSE {})
    /\ cpc' = "r_disable"
    /\ UNCHANGED <<setting, threads, counts, plock, host, watch, co, faulty, lost>>

RestartDisable ==
    /\ cpc = "r_disable"
    /\ on' = AllOff
    /\ cpc' = "r_fill"
    /\ UNCHANGED <<setting, threads, counts, plock, q, rxon, dev, watch, co,
                   faulty, history>>

RestartFill ==
    /\ cpc = "r_fill"
    /\ ~plock
    /\ plock' = TRUE
    /\ q' = Filled(Drained, NChunks)
    /\ cpc' = "r_enable"
    /\ UNCHANGED <<setting, threads, counts, on, rxon, dev, watch, co, faulty,
                   history>>

RestartEnable ==
    /\ cpc = "r_enable"
    /\ EnableAll
    /\ tx_stall_ticks' = 0 /\ tx_restart' = FALSE
    /\ cpc' = "check"
    /\ UNCHANGED <<setting, threads, counts, rxon, dev, co, resets, lost, missed>>

\* Mutation: only playback keeps the callout alive.
CheckPlayback ==
    /\ cpc = "check"
    /\ cpc' = IF active["play"] THEN "rearm" ELSE "idle"
    /\ UNCHANGED <<setting, threads, counts, plock, host, dev, watch, co, faulty,
                   history>>

\* After chn_intr of the active directions.
CheckActive ==
    /\ cpc = "check"
    /\ cpc' = IF \E d \in Dirs : active[d] THEN "rearm" ELSE "idle"
    /\ UNCHANGED <<setting, threads, counts, plock, host, dev, watch, co, faulty,
                   history>>

Rearm ==
    /\ cpc = "rearm"
    /\ co' = "armed" /\ cpc' = "idle"
    /\ UNCHANGED <<setting, threads, counts, plock, host, dev, watch, faulty,
                   history>>

-----------------------------------------------------------------------------
(* The bus                                                                 *)

TxDone(i) ==
    /\ on[i] = "on" /\ q[i].dma > 0
    /\ q' = [q EXCEPT ![i].dma = @ - 1, ![i].free = @ + 1]
    /\ UNCHANGED <<setting, threads, counts, plock, on, rxon, dev, watch,
                   callout, faulty, history>>

\* The contexts halt, the device forgets GLOBAL_ENABLE.
BusReset ==
    /\ setting.resets /\ resets < MaxResets
    /\ resets' = resets + 1
    /\ on' = [i \in 1 .. 2 |-> IF on[i] = "on" THEN "dead" ELSE on[i]]
    /\ rxon' = IF rxon = "on" THEN "dead" ELSE rxon
    /\ dev' = FALSE
    /\ missed' = (missed \/ cpc \in {"r_disable", "r_fill", "r_enable"})
    /\ UNCHANGED <<setting, threads, counts, plock, q, watch, callout, refusals,
                   stray, lost>>

-----------------------------------------------------------------------------
StartStep(d) ==
    \/ TestIdle(d) \/ ProgramDevice(d) \/ Activate(d)
    \/ ClaimTx(d) \/ FillTx(d) \/ EnableTx(d) \/ ForgetTx(d) \/ ClearWatch(d)
    \/ ClaimRx(d) \/ EnableRx(d) \/ ForgetRx(d)
    \/ ArmCallout(d) \/ LoadCount(d) \/ CountStream(d)

StopStep(d) ==
    \/ Deactivate(d) \/ ReleaseTx(d) \/ DisableTx(d)
    \/ ReleaseRx(d) \/ DisableRx(d)
    \/ UnloadCount(d) \/ UncountStream(d) \/ TestLast(d) \/ DisableDevice(d)

TriggerStep(d) == StartStep(d) \/ StopStep(d) \/ Return(d)

CalloutStep ==
    \/ CalloutFire \/ Refill \/ RefillSkip \/ RefillEnable
    \/ RestartTest \/ RestartProgram \/ RestartDisable
    \/ RestartFill \/ RestartEnable
    \/ CheckActive \/ Rearm

Next ==
    \/ \E d \in Dirs : BeginTrigger(d) \/ TriggerStep(d)
    \/ CalloutStep
    \/ \E i \in Tx : TxDone(i)
    \/ BusReset

Spec == Init /\ [][Next]_vars

\* Threads and softclock run, and wait for playback_lock in turn.
FairSpec ==
    /\ Spec
    /\ SF_vars(\E d \in Dirs : TriggerStep(d))
    /\ SF_vars(CalloutStep)

-----------------------------------------------------------------------------
TypeOK ==
    /\ setting \in Settings
    /\ todo \in [Dirs -> {"start", "stop", "fail"}]
    /\ chan \in [Dirs -> {"stopped", "started", "failed"}]
    /\ active \in [Dirs -> BOOLEAN]
    /\ active_streams \in Nat /\ rx_use_count \in Nat /\ tx_use_count \in Nat
    /\ saved \in [Dirs -> Nat]
    /\ plock \in BOOLEAN
    /\ q \in [1 .. 2 -> [free: 0 .. NChunks, valid: 0 .. NChunks, dma: 0 .. NChunks]]
    /\ on \in [1 .. 2 -> {"off", "on", "dead"}]
    /\ rxon \in {"off", "on", "dead"}
    /\ dev \in BOOLEAN
    /\ tx_stall_ticks \in 0 .. StallLimit - 1
    /\ tx_restart \in BOOLEAN
    /\ co \in {"off", "armed"}
    /\ resets \in 0 .. MaxResets /\ refusals \in 0 .. MaxRefusals

Stopped == \A d \in Dirs : pc[d] = "idle" /\ chan[d] # "started"

\* The transmit side of the host is up.
TxUp == \A i \in Tx : on[i] = "on"

\* A direction holds the shared contexts between its claim and its release, or
\* until an enable of its own has failed.
HoldsTx(d) ==
    \/ pc[d] \in Enabling \cup {"s_clear", "s_rx", "s_irx", "e_rx", "s_callout",
                                "s_load", "s_store", "t_inactive", "t_tx"}
    \/ pc[d] \in {"idle", "return"} /\ active[d]
HoldsRx(d) ==
    \/ pc[d] \in {"s_irx", "e_rx", "s_callout", "s_load", "s_store", "t_rx"}
    \/ pc[d] \in {"t_inactive", "t_tx", "t_itx"} /\ todo[d] = "stop"
    \/ pc[d] \in {"idle", "return"} /\ active[d]

\* Each use count is the number of directions that hold the contexts, whatever
\* order the two take and whichever request of a START fails.  One failure is
\* the exception, and never raises a count: a failing enable forgets the claim
\* that the other direction has made since the count was 0 (1639, 1725).
UseCountsMatch ==
    LET tx == Cardinality({d \in Dirs : HoldsTx(d)})
        rx == Cardinality({d \in Dirs : HoldsRx(d)})
    IN  /\ rx_use_count <= tx /\ ("tx" \notin lost => rx_use_count = tx)
        /\ tx_use_count <= rx /\ ("rx" \notin lost => tx_use_count = rx)
        /\ ~setting.overlap => lost = {}

\* When everything is stopped no context runs, however the triggers, the callout
\* and bus resets were interleaved, but for what was left on: by a START whose
\* enable failed, or by the callout that enabled contexts after their last user
\* had gone.  For triggers one after the other the same is true of the device.
StopsQuiet ==
    Stopped =>
        /\ {"tx"} \cap (stray \cup lost) = {} => \A i \in Tx : on[i] = "off"
        /\ {"rx"} \cap (stray \cup lost) = {} => rxon = "off"
        /\ ~setting.overlap =>
              active_streams = 0 /\ ("dev" \notin stray => ~dev)

\* The callout lives as long as a started direction needs it, although only
\* the START that leaves idle arms it.
CalloutAlive ==
    ~setting.overlap =>
        \A d \in Dirs : pc[d] = "idle" /\ chan[d] = "started"
                            => co = "armed" \/ cpc # "idle"

\* The watchdog restarts contexts that have died, never healthy ones of which
\* one is late (2068-2076).
OnlyDeadRestarted ==
    ~setting.overlap /\ resets = 0 => ~tx_restart /\ cpc # "r_program"

\* A bus reset halts contexts that run; the watchdog (1944-1951) brings playback
\* back, however many more resets follow: every context runs again, and the
\* device is programmed, unless it was reset again, or a write failed, between
\* its programming and the enable of the contexts, which nothing repeats.  (With
\* two contexts, chunks that one of them has completed keep all_empty false.)
PlaybackRevives ==
    /\ setting.streams = 1 /\ ~setting.overlap /\ "enable" \notin setting.faults
    /\ chan["play"] = "started" /\ pc["play"] = "idle"
    /\ \E i \in Tx : on[i] = "dead"
    ~> (TxUp /\ (dev \/ missed)) \/ pc["play"] # "idle"

=============================================================================
