# Verification of basound

basound ports the ALSA drivers of four families of audio interfaces to
FreeBSD: RME HDSP (PCI), Line 6 (USB), Digidesign Digi 002/003 and DICE
(FireWire), and the M-Audio MidiSport (USB MIDI).  A bridge in `src/sys/alsa`
turns the callbacks of FreeBSD's `sound(4)` into the calls an ALSA driver
expects.  This directory holds TLA+ models of its concurrent parts, their model
checking with TLC and the proofs that TLAPS checks.

* [Inventory](#inventory)
* [Modules](#modules)
* [Runs](#runs)
* [Disagreements between code and comments](#disagreements-between-code-and-comments)
* [Bounds](#bounds), [fairness](#fairness)
* [Proofs](#proofs)
* [What is not modelled](#what-is-not-modelled)
* [Plan](#plan)

## Inventory

### PCM bridge (`sys/alsa/alsa_pcm_bsd.c`)

State: per channel the format, speed, block size and the `snd_dbuf` (*bufhard*)
that `sound(4)` and the driver share.  Operations: `basound_chan_setformat`,
`setspeed`, `setblocksize`, `setfragments`, `trigger`, `getptr`.  `trigger` and
`setspeed` drop the channel lock (CHN_LOCK) around the driver's op because it
may sleep for seconds; `chn_intr` may therefore run inside a trigger.  Correct
when the ring is a whole number of negotiated blocks, and when every START is
followed by one STOP.

### Digi 002/003 (`sys/dev/basound/digi00x`)

* *Streaming session* (`digi00x-pcm.c`, `digi00x-streaming.c`,
  `digi00x-stream.c`).  State: `active` of two directions, `active_streams`,
  the use counts and chunk queues (stfree, stvalid, stdma) of a transmit and a
  receive context, `dg00x->lock`, a 1 ms callout, two registers of the device.
  Operations: START and STOP of each direction, the callout, the receive
  handler; the bus's interrupt moves completed chunks.  Hard: two directions
  trigger concurrently and share both contexts; STOP sleeps under a mutex; a
  `callout_stop` does not wait; a register write may fail.  Correct when no
  chunk is lost, the counts match, DMA runs only in a session and stops with
  the last stream, and a running stream is never starved.
* *Packets and ring* (`dg00x_fill_tx_chunk`).  State: `hwptr`, `frame_cycle`,
  `tx_dbc`, and the pointers of the OSS ring.  Hard: the fractional rates, the
  ring's end, an interrupt that is late.  Correct when the packet sequence is
  exact, and every frame is sent once, in order.
* *Discovery and detach* (`digi00x_bsd.c`; `dice_bsd.c` repeats it).  State:
  `attached`, `fwdev`, `discovering`, a 1 s callout, the card.  Operations:
  attach, bus reset, exploration, callout, detach.  Hard: the probe thread and
  softclock run `discover` at the same time and share unlocked flags.  Correct
  when one thread searches at a time, no match without a card is kept, and the
  search never dies.
* *Transactions* (`dg00x_read_quad`, `dg00x_write_quad`; `dice_wait_txn` is the
  same).  State: a `txn` on the caller's stack, the transfer that points to it.
  Hard: a 5 s timeout races the callback, the wakeup has no interlock, an answer
  may come after the transfer was given back.  Correct when a call returns and
  tells the result of its own request.  (The code allows exceptions, which are
  part of the property.)

### DICE (`sys/dev/basound/dice`)

`dice_streaming.c` is the counterpart of the Digi streaming code for blocking
mode packets.  State: `active` of two directions, `active_streams`, two use
counts, one or two transmit contexts whose queues are filled in step, receive
contexts, a 1 ms callout, `tx_stall_ticks` and `tx_restart` of the watchdog.
Operations: START and STOP of each direction, refill from the callout, restart
of contexts that a bus reset has halted.  Hard: both contexts serve both
directions; an enable that fails resets a count others rely on; `rx_use_count`, `active` and `active_streams` are read without
their locks; the restart sleeps for seconds inside the callout.  Correct when
the counts match, the callout lives as long as a stream, the last STOP leaves
nothing running, and the watchdog restarts what is dead and only that.

### HDSP (`sys/dev/basound/hdsp`)

One engine for both directions with one start bit and an interrupt per period.
State: `running`, the `audio_stream` state of each direction, two planar DMA
buffers of two periods each, a 1 ms *feeder* callout.  Operations: START, STOP,
`hw_params`, the interrupt (copies a finished period between the interleaved
ring and the DMA buffers, then tells `sound(4)`), the feeder (tells `sound(4)`
in between), detach; beside them MIDI and a mixer device.  Hard: the interrupt
and the feeder look at the states without a lock; `callout_stop` does not wait;
the read pointer moves inside a period, the copies do not; detach drains the
feeder before the channels go; one latency register serves two directions.
Correct when frames are played and recorded once and in order, a RUNNING stream
is a started channel, and the feeder lives as long as the engine.

### Line 6 and MidiSport (`line6_bsd.c`, `maudio_midisport.c`)

USB transfers whose callbacks resubmit themselves.  State of Line 6: the
alternate setting (bandwidth), `audio_active`, `play_helper`, and for each
direction `running`, the ring, the transfers, the accumulated remainder of the
sample rate.  Operations: START, STOP, two callbacks, detach.  A TonePort needs
a running playback transfer for as long as it captures; without playback a
*helper* sends silence in the playback stream's place.  Hard: callbacks give the
lock up in the middle; one stream serves helper and playback; a STOP waits for
a callback that waits for CHN_LOCK.  Correct when a started stream keeps its
transfers, none is left over, and no trigger waits for ever.  The MidiSport
output path (`queue_output`) has no caller.

### Interaction

`sound(4)` calls the bridge with CHN_LOCK held, the bridge calls a driver's op
without it.  Drivers call back with `snd_pcm_period_elapsed` (= `chn_intr`) from
a callout or interrupt, which asks the driver for `hwptr` (`pcm_pointer`),
consumes what was played and refills the ring.  FireWire drivers share chunk
queues with the bus driver under FW_GLOCK.  `PROJECT.json` lists every
component, and under "hazards" each place where one of these interactions can
go wrong, with the properties that watch it.

## Modules

| Module | Models | Checked by |
|---|---|---|
| `Dg00xStreaming` | session, contexts, callout, interrupt of the Digi 002/003 | `MC_Dg00xStreaming` |
| `Dg00xStreamingProofs` | theorems about it | tlapm |
| `Dg00xPackets` | the packets of the transmit context and the playback ring | `MC_Dg00xPackets` |
| `PcmQueue` | abstract: the playback ring as a queue | refined by `Dg00xPackets` |
| `Dg00xPacketsProofs` | theorems about `Dg00xPackets`: its packets | tlapm |
| `Dg00xRingProofs` | theorems about `Dg00xPackets`: its ring and `PcmQueue` | tlapm |
| `FwTransaction` | a quadlet transaction of the FireWire drivers | `MC_FwTransaction` |
| `FwTransactionProofs` | theorems about it | tlapm |
| `FwDiscover` | discovery and detach of a FireWire device | `MC_FwDiscover` |
| `FwDiscoverProofs` | theorems about it | tlapm |
| `HdspStream` | triggers, interrupt, feeder callout and detach of the HDSP | `MC_HdspStream` |
| `HdspStreamProofs` | theorems about it | tlapm |
| `Line6Stream` | triggers, callbacks, silence helper and detach of the Line 6 driver | `MC_Line6Stream` |
| `Line6StreamProofs` | theorems about it | tlapm |
| `DiceStreaming` | triggers, contexts, callout and watchdog of the DICE driver | `MC_DiceStreaming` |
| `DiceStreamingProofs` | theorems about it | tlapm |

**Dg00xStreaming.**  A thread per direction (`pc[d]`), the callout (`co`,
`cpc`) and the interrupt take turns.  One step is one critical section of
`dg00x->lock` or FW_GLOCK, one register write, or one unlocked access to shared
state; so `active_streams++`, which the code does without the lock, is a read
(`StreamStart`) and a write (`StreamCount`).  `pc` labels starting with `s_`
are in START, those with `t_` in STOP or in START's error exit.

| Actions | Code |
|---|---|
| `TriggerStart`, `OpenTx`, `OpenRx` | `pcm_trigger` START, `dg00x_streaming_init`, `dg00x_iso_open` and its error returns |
| `StreamStart`, `StreamCount` | `dg00x_pcm_stream_start` |
| `BeginChannels`, `BeginStreaming` | `dg00x_begin_session` |
| `StartRx`, `ArmRx`, `StartTx`, `FillTx`, `EnableTx` and the `...Failed` ones | `dg00x_streaming_start_rx`, `start_tx` |
| `StartCallout` | `callout_reset` at the end of START |
| `TriggerStop`, `StreamStop` | `pcm_trigger` STOP, `dg00x_pcm_stream_stop` |
| `StopTx`, `DisableTx`, `DrainTx`, `StopRx`, `DisableRx`, `DrainRx` | `dg00x_streaming_stop_tx` (lock held throughout), `stop_rx` (lock held for the count only) |
| `CheckFinish`, `FinishStreaming`, `FinishChannels`, `FinishPause` | `active_streams == 0`, `dg00x_finish_session` |
| `CalloutFire`, `RefillEnter`, `RefillFill`, `RefillEnable`, `CalloutCheck`, `CalloutRearm` | `dg00x_pcm_stream_cb`, `dg00x_streaming_refill_tx` |
| `TxDone`, `RxDone` | completion interrupt (bus driver), `dg00x_rx_handler` |

A context is a record with the lengths of its queues; the chunks themselves are
interchangeable.  `Opened = TRUE` starts after an earlier session has opened the
contexts.  `Faults` names what may go wrong outside the driver.

**Dg00xPackets.**  One step fills one packet (`FillTxChunk`), which the model
takes as sent: `Dg00xStreaming` keeps the order of the queues, a context sends
its chunks in the order they were filled, and those a STOP drains belong to a
session that is over.  Frames are numbered modulo four rings; `next` is the
first frame that has neither been sent nor been lost to an underrun, `disposed`
the first one that `sound(4)` has not consumed, `late` remembers that a packet was
sent short or empty.  `Intr` is `chn_intr`
(`chn_dmaupdate`, then `chn_wrfeed`), which the callout calls and any ioctl of
the application may.  The device is external: it counts packets and frames of a
session.  Both directions run at
one rate, since there is one rate register.

`PcmQueue` says what `sound(4)` may expect of any playback driver: a queue of at
most a ring of frames, in which a frame enters once at the tail and leaves once
at the head, sent or lost.  `Dg00xPackets` implements it (`PlaysQueue`) with the
mapping `ring <- Ring`, `tail <- disposed + ready`, `sent <- next` and
`head <- Head`, the position from which the next packet is read.  Frame numbers
are modulo four rings in both, so that a step back is told from a step on.  The
queue grants its sender one exception, which the code makes at the end of every
ring that its packets do not divide: at a multiple of the ring the head may be
less than a packet behind what was sent.

`Refill` fills one chunk; between two calls of `chn_intr` there are at most
`NChunks` of them, since a handler of the callout refills what is free and then
calls it (`digi00x-pcm.c:100-133`).

**FwDiscover.**  The probe thread and softclock are the two processes in
`discover`: `Enter` (280, unlocked test), `Guard` (283-286), `Scan`, `Match`,
`InitCard`, `DropMatch`, `Rearm`, `Leave`; around them `Attach`, `DetachDrain`,
`DetachFree` of newbus, `BusReset` (interrupt), `BusExplored` and `CalloutFire`.
The bus calls back until detach has returned, also between `DetachDrain` and
`DetachFree`.  A device in FWDEVINIT matches or not, according to what has been
read of its ROM.

**HdspStream.**  A thread per direction (`pc[d]`), the interrupt (`ipc`), the
feeder callout (`co`, `cpc`), detach (`drv`) and the card take turns.

| Actions | Code |
|---|---|
| `SetBlocksize`, `HwParams` | `basound_chan_setblocksize` under CHN_LOCK, `snd_hdsp_hw_params` under `hdsp->lock` |
| `BeginStart`, `TriggerStart`, `BeginStop`, `TriggerStop`, `Relock` | `basound_chan_trigger`, which gives CHN_LOCK back, and `snd_hdsp_trigger` |
| `HwTick` | the card plays and records one frame, and raises its interrupt at the end of a period (external) |
| `IsrEnter`, `IsrConfirm` | `snd_hdsp_interrupt` under `hdsp->lock` |
| `IsrCapture`, `IsrTest`, `IsrElapsed`, `IsrRefill` | the copies, the tests of the stream state without a lock, `snd_pcm_period_elapsed` |
| `CalloutFire`, `CalloutCheck`, `CalloutTest`, `CalloutElapsed`, `CalloutRearm` | `hdsp_pcm_callout` |
| `DetachDrain`, `DetachDrained`, `DetachRest` | `callout_drain` and the rest of `hdsp_bsd_detach` |

The DMA buffers and the capture ring hold numbered frames; the playback ring
follows from `done["pb"]`, since an application keeps it full.  The set `open` of
directions in use is chosen in `Init`.

**FwTransaction.**  The caller (`Send` or `SendFails`, `TestDone`, `Sleep`,
`Timeout` or `Woken`, `FreeXfer`), the callback in its three stores
(`CallbackDone`, `CallbackError`, `CallbackWakeup`), and the device and bus
(`Perform`, `TakeAnswer`, external).  Consecutive calls find `txn` at the same
place of the stack, so `done` and `error` are one cell for all of them: what a
late callback writes to is what the next call reads, and `TakeAnswer` may come
after `FreeXfer`.  Transfer and answer are per call.  Two history variables say
which calls were disturbed: `strayed`, by the callback of an earlier one, and
`early`, by reading the txn between the two stores of their own.

**Line6Stream.**  A thread per direction (`pc[d]`; labels `s_` START, `t_` STOP,
`h_` start of the helper, `k_` its stop), the bus's callback thread (`cb`) and
detach (`drv`).  A *group* `<<d, k>>` is a set of transfers that one
`usbd_transfer_setup` has made; `xfer[d]` is the group the stream's pointers
hold, `live` the groups that exist.  Of a group it counts the transfers that
wait for their first callback (`due`) and those that are submitted (`sub`).

| Actions | Code |
|---|---|
| `BeginTrigger`, `ReleaseChannel`, `Return` | `chn_trigger` (external), `basound_chan_trigger`, which gives CHN_LOCK back around the driver's op |
| `SetAlt`, `TransferSetup`, `SetupFailed`, `TestActive`, `ReleaseAlt`, `Arm`, `CheckHelper` | `line6_pcm_trigger` START |
| `StopStream`, `UnsetupStream`, `TestActive`, `ZeroAlt`, `SwitchHelper` | STOP: the unlocked test of `audio_active` and the request, which sleeps, are two steps; `RequestZero` is refused while transfers are set up, or fails, and nobody looks |
| `TestHelper`, `SetupHelper`, `HelperFailed`, `ArmHelper`; `StopHelper`, `UnsetupHelper` | `line6_start_play_helper`; `line6_stop_play_helper` |
| `PlayCallback`, `RecCallback`, `Elapsed`, `Resubmit`, `ErrorCallback` | `line6_play_callback`, `line6_rec_callback`, cut where they give `sc_lock` back for `chn_intr` |
| `DetachHelper` ... `DetachAlt` | `line6_bsd_detach` |

**DiceStreaming.**  A thread per direction (`pc[d]`), the callout (`co`, `cpc`)
and the bus.  `q[i]` are the queue lengths of transmit context i, `on[i]` its
state, with *dead* for a context that a bus reset has halted: it runs again
only after a disable.  Transmit contexts are enabled one by one, without a lock;
the unlocked `active_streams++` and `--` are a load and a store.  Three history
variables name what the code itself gets wrong: `lost`, the contexts of which a
failing enable has forgotten the other direction's claim; `stray`, what a failing
START, a late callout or a failing disable has left on; `missed`, a reset or a
failing write after the watchdog has programmed the device and before its
enable.  No guard reads them.

| Actions | Code |
|---|---|
| `BeginTrigger`, `Return` | `dice_pcm_trigger` with its test of `active` |
| `TestIdle`, `ProgramDevice`, `Activate`, `ArmCallout`, `LoadCount`, `CountStream` | `dice_streaming_start_playback`, `_capture` |
| `ClaimTx`, `FillTx`, `EnableTx`, `ClearWatch`; `ClaimRx`, `EnableRx` | `dice_ensure_host_tx`; `dice_ensure_host_rx` |
| `ForgetTx`, `ForgetRx` | their error exits, which set the use count to 0 (1635-1642, 1721-1728); START then undoes what it has claimed (`Deactivate`, `ReleaseTx`) |
| `Deactivate`, `UnloadCount`, `UncountStream`, `TestLast`, `DisableDevice` | `dice_streaming_stop_playback`, `_capture` |
| `ReleaseTx`, `DisableTx`; `ReleaseRx`, `DisableRx` | `dice_release_host_tx`; `dice_release_host_rx` |
| `CalloutFire`, `Refill`, `RefillSkip`, `RefillEnable`, `CheckActive`, `Rearm` | `dice_pcm_stream_cb`, `dice_streaming_refill_tx` |
| `RestartTest`, `RestartProgram`, `RestartDisable`, `RestartFill`, `RestartEnable` | `dice_streaming_restart_tx` |
| `TxDone`, `BusReset` | fwohci and the device (external) |

`setting`, a variable that `Init` chooses from the constant `Settings` and no
step changes, says in these three modules which device is used and how.  Every
module has a type invariant `TypeOK`; two of the runs check it, and it holds in
the others too.

## Runs

| Run | Shows |
|---|---|
| `dg00x_playback` | One direction, contexts opened by the first START with every allocation failure of `iso_open`, three chunks.  `EnginesOff`: when everything is stopped both contexts are off and own their chunks.  `StartDrainsIdleContext`: `start_tx` never drains a live queue.  `DmaOnlyInSession`.  Liveness: `TxKeepsFed` (a started stream gets chunks again and again). |
| `dg00x_faults` | One direction, everything that can fail does: device writes, both enables, allocations, a callout later than the pause, a receive task that outlives `irx_disable`.  `TypeOK`.  `ChunksConserved`: no chunk is lost or queued twice.  Liveness: `CalloutDies`.  `EnginesOff` and `StartDrainsIdleContext` are not claimed here and do not hold: after a failed enable START resets the use count (1186-1190, 1236-1241) and reports success, the callout's own `itx_enable` may then start the context, and STOP, finding the count 0, leaves it on. |
| `dg00x_duplex` | Two directions at once, register writes may fail.  `UseCountsMatch`: the two use counts are the numbers of directions between their increment and their decrement.  `StopExcludesEnable`: while the last user's `stop_tx` disables and drains, nobody enables.  Liveness: `TriggersReturn`. |
| `packets` | Playback alone at four rates, in rings that no packet size divides; at 48 and 88.2 kHz `sound(4)` keeps less ready than two refills send, so packets are late and the sender may lap the reader.  `TypeOK`.  `Cadence`: after n packets n * rate / 8000 frames, rounded up.  `InStep`: without an underrun the next packet takes the frame after the last one sent, or, where `hwptr` has restarted at 0, less than a packet before it.  `PlaysQueue`: packets and interrupt are the queue of `PcmQueue`; an underrun loses frames, it neither repeats them nor sends what the ring held before. |
| `discover` | Resets, explorations, failing card initialisations and detach in every order.  `OneDiscoverer`, `SearchGoesOn` (without a card the callout is armed or a thread is searching), `MatchHasCard`; liveness `DeviceFound`. |
| `hdsp` | Playback alone, capture alone and both, each with detach.  `PlaybackInOrder`: the card finds frame n in the slot it plays n-th, although the read pointer moves inside the period and the copies are made at its end.  `FeederAlive`: no order of STOP, START and a feeder on its way out loses the feeder.  `FeederDrained`: after detach has drained it, it is gone.  `SoloRunning`: with one direction in use, RUNNING is a started channel.  Liveness: `FeederDies` (with the engine), `CallsReturn` (CHN_LOCK and `hdsp->lock` are never waited for in a circle). |
| `line6` | Four uses: a plain device with overlapping triggers, requests that fail and transfers that end in error; the same without failures; a TonePort whose triggers come one after the other; the same with failures.  `StartedStreams`: a started channel has its own ring and all its transfers under way.  `NoOrphans`: no transfer exists that no stream points to, and none after detach.  `BandwidthReleased`: for triggers in turn nobody asks for setting 0 under a stream, whatever fails; without failures the last STOP of a plain device has released the bandwidth even if triggers overlap, and detach does so on each device.  `HelperServesCapture`: the helper follows the streams.  `NoDrift`: the frame lengths follow the rate exactly.  `NoLateSubmit`: a stopped stream submits nothing, although its callback gives the lock up.  Liveness: `TriggersReturn`. |
| `dice` | Four uses: two transmit contexts with triggers in turn, failing writes and enables, and a callout that is late; one context with overlapping triggers and such a callout; overlapping triggers whose enables fail; one context, triggers in turn, failing writes and two bus resets.  `UseCountsMatch`: the counts are the directions that hold the contexts, up to a claim that a failing enable has forgotten.  `StopsQuiet`: when all is stopped no context runs, and after triggers in turn the device is disabled, but for what `stray` and `lost` name.  `CalloutAlive`.  `OnlyDeadRestarted`: without a bus reset the watchdog restarts nothing, although one of two contexts may be late.  Liveness: `PlaybackRevives` (after a bus reset, up to `missed`). |
| `transaction` | Three calls, on one processor and on several, with answers that are lost, failures, or come after the request was freed, and wakeups that find nobody asleep.  `OwnAnswer`: a call that no earlier callback has disturbed is told the truth about its own request.  Liveness: `Returns`. |

The other three runs end in a counterexample, see the next section.  Every
property of a passing run has a mutant, a plausible bug of one mapped
definition under which TLC refutes the property ("Mutation:" in the modules).

## Disagreements between code and comments

* `dg00x_session_race`.  STOP tests `active_streams == 0` without the lock and
  then ends the session in two register writes; a START in between finds
  `active_streams` not yet 0, or begins a session that is then ended.  The
  comment at `digi00x-pcm.c:642` wants the session to last until all streams
  have stopped.
* `hdsp_capture`.  The feeder moves the read pointer of capture every
  millisecond with the precise position, but the frames arrive in the ring only
  when the interrupt copies the finished period: what the application takes
  within a period is a round old (`hdsp_main.c:701`).  Playback does not suffer
  (`PlaybackInOrder`): there the ring is ahead of the copy.
* `line6_takeover`.  Playback started on a TonePort while the helper plays: START
  sets its transfers up over the pointers of the helper's, so those are never
  unset; then, because a helper is on, it stops and unsets what the pointers hold
  now, its own.  The channel is started and silent, and the leaked transfers call
  into the driver after detach.  The comment at `line6_bsd.c:1264` says that
  real playback takes over.

Seen in the models, without a run of their own.  In parentheses: the constant
or the property to change for TLC to find the counterexample.

*Digi 002/003*
* With capture alone `refill_tx` returns because *playback* is not active: the
  host transmits its first chunks and then nothing, although the device needs
  them (`digi00x-streaming.c:1386`, 1108).  (`Dirs = {"cap"}`: `TxKeepsFed`.)  The
  DICE driver had the same gate and has given it up (`dice_streaming.c:2055`).
* A packet that crosses the ring's end is read with a wrap, but `hwptr` restarts
  at 0, although the comment at `digi00x-streaming.c:808` has it track the bytes
  consumed: up to `MostFrames - 1` frames of the ring's beginning are sent
  again at each round, with no underrun, whenever the ring is no multiple of the
  packet (810; 980 for capture).  That is the usual case: 256 KB of two S32 channels
  are 32768 frames, 6 per packet at 48 kHz.  (`InStep` with `again = 0` alone.)
  With `(h + frames) % Ring` in `Advanced` it holds.
* `attached` and `fwdev` are tested before the guard is taken
  (`digi00x_bsd.c:280`, 285; `dice_bsd.c:1167`).  A thread that is delayed between
  the two makes a second card.  (`discover`: `cards <= 1`.)
* `dg00x_detach` drains the callout and then frees the card, but the bus calls
  back until detach has returned: a reset in between arms the callout again, and
  an exploration may enter `discover`, on a softc that is about to go
  (`digi00x_bsd.c:627`, 240, 255).  (`discover`: `drv = "gone" => co = "off"`.)
* The comment at `digi00x-stream.c:98` accepts a small leak on timeout; the code
  frees the transfer.  A wakeup that comes before `tsleep` costs 5 s and returns
  ETIMEDOUT although the device has done what it was asked.
* A callback that comes after the free (the comments at `digi00x-stream.c:98-101`
  and `dice_bsd.c:127-129` reckon with it) writes into the stack: into the `txn` of
  a later call, which then returns another call's result, or is woken early and
  returns EIO.  (`OwnAnswer` for `strayed` calls.)  On several processors the
  callback sets `done` before `error`: the caller may return 0 between the two for
  a request that has failed (`OwnAnswer` for `early` calls), and the store to
  `error` then falls into the `txn` of the next call.
* `begin_session` returns a positive errno, `pcm_trigger` tests `err < 0`: after
  a failed register write DMA starts outside a session (`digi00x-pcm.c:533`,
  561).  `DmaOnlyInSession` is false with `Faults = {"fw"}`.
* `stream_start` sets `frame_cycle` to 0 for both directions, and `tx_dbc` for
  its own, while the context may be running for the other: the 44.1 kHz sequence
  starts over (`digi00x-streaming.c:415`).  `Cadence` is false with both
  directions.  A START of playback in a running capture session likewise resets
  the data block counter of the packets under way (`digi00x-pcm.c:299`); no
  property is about the counter.
* `hwptr` is not set back to the ring's read pointer after an underrun. When
  the frames by which interrupts were late add up to more than `sound(4)`
  keeps ready, every further packet is silent until the next START.

*HDSP*
* With both directions running, STOP of one stops the engine for both; STOP of
  the other finds `running` 0 and skips `audio_stream_stop`, so its stream stays
  RUNNING.  When either direction is started again, the interrupt and the feeder
  serve a channel that is not (`hdsp_main.c:255`, 1093).  (`OpenSets = {Streams}`:
  `RunningIsStarted`.)

*Line 6*
* On a TonePort whose triggers overlap, the unlocked reads of `audio_active` and
  `play_helper` let helper and playback take each other's transfers.  (`overlap`
  for `TonePort`: `StartedStreams`, `NoOrphans`, `HelperServesCapture`.)
* On any device, a STOP that has read `audio_active` 0 sets alternate setting 0
  under a stream that is starting (1293).  (`BandwidthReleased`, first conjunct,
  without `~overlap`.)
* STOP of capture on a TonePort asks for alternate setting 0 (1293) before it stops
  the helper (1302-1304): the helper's transfers are still set up, the request is
  refused, its result is discarded, and the bandwidth stays reserved until
  a later STOP or detach.  A request that fails has the same effect on any device.
  (`BandwidthReleased` without `~toneport`, or without `~faults`.)
* A STOP that aborts a failed START of playback, while a capture started since
  has its helper, stops and unsets the helper's transfers; `play_helper` stays
  set, so the helper is never started again (1289, 1305, 1404).  And when the helper's
  own `usbd_transfer_setup` fails, capture goes on without it (1418-1424).
  (Both: `HelperServesCapture` without `~setting.faults`.)

*DICE*
* With two transmit contexts, a bus reset that comes when one of them has
  completed chunks and the other has not leaves the one's queue non-empty for
  ever: `all_empty` stays false, and the watchdog never acts
  (`dice_streaming.c:2082`).  (`streams |-> 2` with `resets`: `PlaybackRevives`.)
* A bus reset between `dice_program_device` and `itx_enable` goes unnoticed: the
  contexts run, the device does not.  The same in the watchdog's restart: after a
  second reset, or a failing write whose result it ignores (1995-1999), between
  its programming of the device and its enable of the contexts, these run, no
  stall is seen again, and the device stays disabled until the next session.
  (`PlaybackRevives` without `missed`.)  A session of capture alone is never
  restarted (1974), receive contexts are not re-armed by a restart.
* An enable that fails sets the use count to 0 (1639, 1725) although the other
  direction may have been counted meanwhile: its later release finds 0 and leaves
  the contexts on.  (`Refused`: `UseCountsMatch` for `lost` contexts.)  Contexts that
  were enabled before the one that failed, and the device, stay on (`StopsQuiet`
  for what is in `stray`).
* A STOP between the callout's test of `rx_use_count` (2042), or of `ps->active`
  (1974), and its `itx_enable` is undone: the contexts run on without a user.
  (`delay` or `resets`: `StopsQuiet` for what is in `stray`.)
* `active_streams++` and `--` are unlocked: with overlapping triggers updates are
  lost, and the device is then disabled under a stream or never.  (`overlap`:
  `StopsQuiet`, last conjunct.)
* A START of one direction between the `active = false` and the decrement of
  `active_streams` of the other's STOP (1911-1918) is left without a callout.
  (`overlap`: `CalloutAlive`.)
* `dice_clone_geometry` restarts the blocking-mode sequence of the running
  direction when the other one starts (1438), which `dice_bsd.c:996` wants to
  avoid for a repeated START.

## Bounds

| Bound | Value | Why it is enough |
|---|---|---|
| `NChunks` (32 in the code) | 3, 1 in duplex | The queues matter when empty, partly filled and full; three chunks reach one in each queue.  The duplex properties do not look at chunks.  The theorems hold for every number. |
| `MaxCount` | 1 | No START is begun with a counter above it.  Two directions never need a count above 2; lost updates of `active_streams` let it drift further, and the bound is reached only then. |
| `MaxCards` | 2 | The second card is an error. |
| `RingOf`, `AheadOf`, `NChunks` of `Dg00xPackets` | rings of 53, 50, 100, 103 frames, 40, 15, 29, 60 ready, 2 chunks | No ring is a multiple of a packet, nor is the code's.  A START and a refill send at most 24 frames (48 at the higher rates): at 44.1 kHz less than is ready, at 48 and 88.2 kHz more, so packets are late and lateness adds up to whole rings.  The theorems hold for every ring of more than `4 * NChunks` packets; the code's 32 chunks ask for 768 frames, or 1536. |
| `PeriodOf` (64 to 8192 frames) | 2 frames for playback alone and for `hdsp_capture`, else 1 | Positions inside a period and at its end, and two periods.  Where nothing is claimed of the frames a period of one frame gives the same order of interrupts. |
| `LapsOf` | 2 rings, else 1 | Frames a ring apart are told apart; longer ago none is kept. |
| `MaxCalls` | 3 transactions | Two calls share the cell of `txn`; the third shows that nothing is left of the first.  The theorem is for any number. |
| `NXfers` (`LINE6_NCHANBUFS`), `NFrames` (`LINE6_NFRAMES`) | 2, 2 | One transfer can be in a callback while another is on the bus.  The theorems hold for every number. |
| `Fps`, `Rate` | 3 and 5 | A remainder of two thirds, as 44.1 kHz has one of a tenth at 1000 frames per second: short and long frames alternate in a cycle that transfers do not divide. |
| `MaxGroups` | 1, 2 in `line6_takeover` | The second set of transfers of a direction is the one that is leaked; `line6` never needs it (`NoOrphans`). |
| `NChunks`, `StallLimit` (25) of `DiceStreaming` | 1, 2 | A queue that is full or empty, two of which may differ; a tick that counts and one that decides.  The theorems hold for every number of chunks. |
| `MaxResets` | 2 | The second reset comes before, during or after the restart that the first has caused; the theorems hold for every number. |
| `MaxRefusals`, `MaxCount` of `DiceStreaming` | 1, 2 | One enable that fails, at any place; the forgotten claim needs no second one.  Lost updates let `active_streams` grow for ever, above the bound triggers only come in turn. |
| `Traced` | the directions that are open alone | With both open the buffers' contents are left out: no property looks at them. |

Timing assumptions are in the model by name and can be switched off with a
fault: a callout that is not re-armed has fired and returned before the 50 ms
pause of `finish_session` ends (`slowTick`); the receive task does not outlive
`irx_disable` (`lateRx`); no thread of `discover` is suspended for the second
that its callout takes (`stall`).
`HdspStream` has three more, as guards: the interrupt returns within a period
(`HwTick`; 0.7 ms for 64 frames at 96 kHz), both directions negotiate the same
period, and detach comes when the application has closed both (`Closed`).
`DiceStreaming` has two: contexts that run complete packets in every tick, of
which one may be late (`Healthy`), and a START fills and enables its contexts, or
fails, within the stall limit of 25 ms (`Prompt`).  `Line6Stream` has the USB stack's
rules: callbacks of a bus run from one thread, `usbd_transfer_setup` needs the
endpoints of the audio setting, `usbd_transfer_unsetup` waits for a callback and
cancels the rest, and the setting without endpoints is refused while transfers
are set up; detach runs when no trigger does.  `FwTransaction` has none: a request
may be answered at any time, also after `fw_xfer_free`.

The circumstances in which a property is claimed are part of its formula, as
`setting`: what `overlap`, `delay`, `faults` and `resets` break is listed above.
`ticks` (off for failing enables with overlapping triggers) keeps that instance
small: the callout's steps with failing enables are in the instance with two
contexts.
One trigger at a time per direction is guaranteed by `chn_trigger`, which does
nothing when asked for the state the channel is in.

`CHECK_DEADLOCK FALSE` stands where the system may stop: `dg00x_duplex` at
`MaxCount`, `transaction` at `MaxCalls`, and the discovery, HDSP and Line 6 runs
after detach.

## Fairness

`FairSpec` of `Dg00xStreaming`: strong fairness on each direction's steps inside a
trigger and on the callout's steps, weak fairness on the transmit interrupt.  The
strong form is about `dg00x->lock` and the channel lock: trigger and callout
contend for them, and a mutex(9) waiter gets the lock in the end.  The receive
interrupt needs none (no property waits for it), and START and STOP are up to
the application.  `FwDiscover`: weak fairness on attach, both threads of
`discover`, the callout and the exploration that follows a reset; strong fairness
on the success of `InitCard`, that is, a device asked again and again does not
refuse for ever.  Bus resets, an unplugged device and detach have none.
`DeviceFound` is about a device that stays: from some time on the driver is up
and the device on the bus.  `Dg00xPackets` claims safety only.  `HdspStream`: strong
fairness on the steps of each thread inside a call, on the interrupt and on the
feeder, all of which contend for mutex(9) locks; the card, START, STOP and
detach have none.  `Line6Stream`: weak fairness on the steps of a trigger and on
the callback thread; a trigger waits for a callback only in
`usbd_transfer_unsetup`, and once `running` is FALSE none begins that could make
it wait again.  `DiceStreaming`: strong fairness on the steps of the
triggers together and on those of the callout, which contend for `playback_lock`;
the completion of chunks and bus resets have none.  `FwTransaction`: weak fairness on the caller (the 5 s pass) and
on a callback that has begun, none on the device: it need not answer.

## Proofs

All theorems are of the form `Spec => []...` (or `[][...]_vars`, or a
refinement) for every value of the constants.  Where one has a hypothesis, the
hypothesis is a named formula over the constants, and the run of the same
property chooses constants that satisfy it.

`Dg00xStreamingProofs`
* `TypeAndChunks`: `TypeOK` and `ChunksConserved`, without an assumption.
  `QueueOperations` shows that each operation keeps a context whole; control
  and queues are separate conjuncts (`ControlTypeOK`, `WholeContexts`), so that
  a step has to be looked at for one of them only.
* `UseCountsAlwaysMatch` and `StopAlwaysExcludesEnable`, under `Reliable`: the
  contexts are open and enabling them does not fail (a failure resets a count
  whoever holds it).  `UseCountsMatch` is not inductive: that a decrement finds
  its own increment follows from where the threads are (`PathInv`) and from who
  owns the lock (`LockInv`: whoever disables or drains holds `dg00x->lock`, and
  the transmit count is then 0, so no callout is in its fill).  `RefInv` is
  their conjunction.
* `SoloEnginesOff`, `SoloStartDrainsIdle`, `SoloDmaInSession`, under `Solo`: one
  direction is in use, enabling a context does not fail, callout and receive
  task are on time.  (With two directions the first and the last are false, see
  `dg00x_session_race`; with the faults excluded a context is left running.)
  Opening may fail half-way, and for the first two so may every register write.
  `SoloInv` says for each place of the one trigger what it holds (`HoldsTx`,
  `HoldsRx`, `CountsOf`), which queues may have work (`QueuesOf`), who may still
  run beside it (`CalloutOf`) and whether the device is in a session
  (`SessionOf`).  The hard cases are a START that fails after it has taken one
  of its two references, and a callout that outlives STOP.

`Dg00xPacketsProofs`
* `PlaybackCadence`, under `Alone` (capture is never
  started; with both directions it is false, see above).  The invariant `PhaseInv` says that
  `frame_cycle` counts the packets of the session and that the frames sent lead
  the exact rate by `Lead(rate, phase)`, a closed form of the phase;
  `LeadStep` shows that each packet takes one lead to the next, `LeadRange`
  that a lead is less than a frame.
* `PacketsTyped`: `TypeOK`, without an assumption.

`Dg00xRingProofs`, under `Roomy`: a ring holds more than four times the packets
of `NChunks` chunks.  Nothing is assumed of the ring's length otherwise, of the
lateness of packets, or of the directions in use.
* `PlaybackInStep`: `InStep`.  The read pointer is the origin of a circle on which the
  interrupt's copy of `hwptr` (`Gap` ahead of it) and the sender (`Since` further
  on) are positions.  `RingInv` says how they and the frame numbers lie to each
  other (`Shape`), that what goes out between two interrupts is bounded by the
  chunks of a START and a refill (`Paced`), and that without a late packet the
  interrupt disposes of exactly what was sent (`Punctual`), up to `Again`, the
  frames of a packet cut short where `hwptr` restarts at 0.  One lemma of plain
  arithmetic for each way a packet, an interrupt or a lap changes a `Shape`.
* `PlaybackIsQueue`: the refinement `PlaysQueue`, step by step from `RingInv`.
  START and STOP are the queue's `Start` and `Stop`; a packet and an interrupt are
  a `Move` each: a packet lets frames out at the head, an interrupt lets new
  frames in and gives up those that an underrun has cost.

`FwDiscoverProofs`
* `GuardExcludes`: the guard is held exactly while one thread is inside.
* `MatchAlwaysHasCard`: `fwdev` is set only while a card exists or is being
  made; `MatchInv` adds how many cards each place in `discover` can have seen.
* `SearchAlwaysGoesOn`, under `Punctual` (no `stall`): `SearchInv` adds that the
  thread that consumed the armed callout will re-arm it or has found the device.

`HdspStreamProofs`, without an assumption beyond the constants' types
* `FeederAlwaysAlive`, `FeederAlwaysDrained`, `SoloAlwaysRunning`, all from
  `FeederInv`: the engine runs only for a started direction (`EngineInv`), so
  detach, which comes when none is, finds no one who could arm the feeder
  (`DetachInv`, `DrainedInv`); with one direction in use the engine runs
  exactly while it is started (`SoloInv`), so its STOP is never skipped.
* `PlaysInOrder`: `PlaybackInOrder`.  It says nothing of the slots that are not
  played next, so it is not inductive.  `PlayInv` adds two things.  `Followed`: the
  OSS layer is less than a ring behind the engine, and within the engine's period
  once the interrupt has told it (or while none is due), so a copy of the other
  period takes frames that the ring still has.  `Filled`: the rest of the engine's
  period is ready, and so is the other period unless its refill is still to come.
  The engine enters a period only when the last handler has returned, which is
  the guard of `HwTick` and where the theorem rests on it.  Positions wrap at
  `Span` and slots at `Ring`; the provers need a handful of lemmas on division for
  that (`SlotAhead`, `UpcomingStays`, `UpcomingBehind`, `CatchUp`).

`Line6StreamProofs`
* `StartedAlwaysStream`, `NeverOrphans`, `HelperAlwaysServes`, under `Proper`:
  a TonePort's triggers do not overlap and its playback is not started under the
  helper (either makes the first two false, see `line6_takeover`); a device
  without a helper may be used in any way.  The first step distinguishes the two.
  Without a helper, `Line6Inv`: `Flow` says what each place of a trigger implies
  for its channel, `Pointed` that the existing transfers are those the stream
  pointers hold, so that an `unsetup` cannot miss one, `Busy` that an armed
  stream has all its transfers in one of three places (waiting, submitted, in
  the callback).  With a helper, `ToneInv`: `Away` keeps helper and application
  from using the playback stream at the same time, so `TonePointed` and `ToneBusy`
  can say the same of a stream that has two possible owners; `Balanced` says at
  which places of a trigger the helper may lag behind what is active.
* `NeverDrifts`: `NoDrift`, without a hypothesis.  `ClockInv` (the drift is the
  remainder `sample_curr`) needs what the recursive function `Frames` computes,
  `FramesTrackRate`, which is proved by induction.  The library's induction
  theorems cannot be used here, so `LeastNat` derives the least-number principle
  from the well-founded order of finite sets, and the induction is by the least
  counterexample.
* `NeverSubmitsLate`: the action property `NoLateSubmit`, without a hypothesis.
* `BandwidthAlwaysReleased`, under `Proper`: `Asked` says what a trigger was asked
  for and when its direction is active, `Held` that an active direction has the
  audio setting and that whoever asks for its release finds none, and `Released` that where no request fails a device left in the audio setting has
  a direction active, or a trigger on its way to ask (`Awaited`); that the transfers
  of an idle direction are gone, and the request is not refused, comes from
  `Line6Inv`.

`DiceStreamingProofs`, without an assumption beyond the constants' types, but for
the last one's `StallLimit > 1`: with a limit of one tick a refill that was computed
before a START filled the queues would set off a restart (`DICE_TX_STALL_LIMIT`
is 25)
* `UseCountsAlwaysMatch`: `Flow` says what each place of a trigger implies for
  `active` and for what it was asked to do, `Serial` that triggers of the settings
  without overlap come in turn.  `Tallies` bounds the two use counts by the
  directions that hold the contexts and makes them equal while no claim was lost;
  `Exact` is the same of `active_streams`, for triggers in turn; `Alone` says that
  these find nobody else's claim to forget.
* `CalloutAlwaysAlive`: `Alive` adds that, when triggers come in turn, an active
  direction that has passed the callout test of its START finds the callout
  armed or its handler running, from the step that counts the stream on.
* `StopsAlwaysQuiet`: `TxOwned`, `RxOwned` and `DevOwned` say that whatever is on is
  held by somebody who will switch it off, or is named by `stray` or `lost`.  The
  hard cases are a callout between its test of the use count and its enable, and
  a START that fails after the other direction has joined it.
* `OnlyDeadAlwaysRestarted`: as long as no bus reset has come, `Orderly` bounds
  `tx_stall_ticks` by what the last refills have seen: two empty refills in a row
  never happen to a running context, also around the moment at which a START fills
  the queues, and a START is through before the limit.

`FwTransactionProofs`
* `AlwaysOwnAnswer`, without an assumption: `InFlight` says that only the current
  call is not over and that a callback belongs to an answered request, `Waiting`
  and `Leaving` what `done` and `error` hold at each place of a caller that no other
  callback has disturbed, `Truth` is `OwnAnswer` without `performed`.


Only model-checked: the liveness properties (the prover has no rule for
fairness and ENABLED).  `CaptureFresh` of `HdspStream` is refuted by a run.  The prover cannot use the library's
theorems for induction over data; where one was needed (`Frames`), the
least-number principle stands in for them.  No module has a RECURSIVE operator.

## What is not modelled

* Sample contents: DOT encoding, format conversion, MIDI quadlets, peak meter.
* Registers that only report (clock, rate, sysctls, proc output), parsing of the
  configuration ROM, per-model tables and one-shot programming.
* The vendored Linux sources (`src/linux`, the Linux files in `dice/`), which
  are not compiled, the user-space mixers and the firmware blob.
* The resize of the ring while it is running (`chn_resizebuf`), the capture side
  of `rx_handler`, and, in `Dg00xStreaming`, STOP of a channel whose START failed.
* HDSP attach and its error paths, firmware, sample rate (`hdsp_set_rate` writes
  the cached control register without the lock), MIDI and mixer; directions with
  different periods, which share the latency register; a START during detach.
* Line 6: attach, control messages, sysctls, monitoring, sample conversion.
  DICE: opening of the contexts and its errors, the blocking-mode sequence and the samples, `dice_set_rate` and the router.
* MidiSport, the MIDI side of the HDSP, the bridge's negotiation: see the plan.
* The share of the repository that the models cover is small because nearly all
  of it is the vendored Linux tree, tables and tools; of the port's own C code
  the models cover the concurrent part of each PCM driver.

## Plan

What is left, the most useful first:

1. `PcmChannel`: block size and speed negotiation of the bridge, the latency
   register that two HDSP directions share.
2. `HdspStream` as another implementation of `PcmQueue`, with a mapping through
   the two DMA buffers.
3. `DicePackets`: the blocking-mode sequence and the data block counter, next to
   `Dg00xPackets`.
4. STOP after a failed START in `Dg00xStreaming`, and its composition with
   `FwTransaction` for register writes that time out.
5. `HdspMidi`: the MIDI work item against the free of the ports, and the mixer;
   the MidiSport input parser.

Proofs: the refinement of item 2, for which `PlayInv` of `HdspStreamProofs` is the
invariant, and with it the conditions under which captured frames are fresh.
