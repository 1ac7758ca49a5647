---------------------------- MODULE Line6Stream ----------------------------
(***************************************************************************)
(* The Line 6 USB audio driver (line6_bsd.c): isochronous transfers that   *)
(* resubmit themselves from their callbacks, set up and torn down by START *)
(* and STOP of two directions, and the silent helper playback that a       *)
(* TonePort needs for as long as it captures without playing.              *)
(***************************************************************************)
EXTENDS Integers

CONSTANTS
    Settings,   \* the devices and the uses of them that are looked at
    NXfers,     \* transfers of a stream (LINE6_NCHANBUFS)
    NFrames,    \* USB frames of a transfer (LINE6_NFRAMES)
    Fps,        \* USB frames per second
    Rate,       \* samples per second
    MaxGroups   \* bound: sets of transfers of a direction in the USB stack

Dirs == {"play", "rec"}

\* toneport: LINE6_CAP_INIT_TONEPORT.  overlap: the two directions may be
\* triggered at the same time.  takeover: playback may be started while the
\* helper plays.  faults: requests may fail and transfers complete in error.
ASSUME SettingsAssumption ==
    Settings \subseteq [toneport: BOOLEAN, overlap: BOOLEAN, takeover: BOOLEAN,
                        faults: BOOLEAN]
ASSUME XfersAssumption  == NXfers \in Nat \ {0}
ASSUME FramesAssumption == NFrames \in Nat \ {0}
ASSUME RateAssumption   == Fps \in Nat \ {0} /\ Rate \in Nat /\ Rate >= Fps
ASSUME GroupsAssumption == MaxGroups \in Nat \ {0}

Groups == Dirs \X (1 .. MaxGroups)
NoGroup == <<"none", 0>>

VARIABLES
    setting,
    pc,        \* pc[d]: where the thread that triggers direction d is
    todo,      \* todo[d]: "start", "stop", or "fail" for a START that failed
    chan,      \* chan[d]: "stopped", "started" or "failed", as sound(4) sees it
    chn,       \* chn[d]: CHN_LOCK is held by the thread of d
    alt,       \* the alternate setting: "zero" or "audio"
    active,    \* audio_active
    helper,    \* play_helper
    running,   \* running[d]
    ring,      \* ring[d]: what start .. end is: "none", "pcm" or "silence"
    pcm,       \* pcm[d]: pcm_ch is not NULL
    xfer,      \* xfer[d]: the transfers that the stream points to
    live,      \* the sets of transfers that are set up
    due,       \* due[g]: transfers of g that wait for their first callback
    sub,       \* sub[g]: transfers of g that are submitted
    curr,      \* curr[d]: sample_curr
    drift,     \* drift[d]: by how much the samples of the frames since the
               \* start lag behind the rate, in units of 1 / Fps
    cb,        \* the callback thread of the USB bus
    drv        \* how far detach is

app    == <<pc, todo, chan, chn>>
device == <<alt, active, helper>>
stream == <<running, ring, pcm, xfer>>
usb    == <<live, due, sub>>
clock  == <<curr, drift>>
vars   == <<setting, app, device, stream, usb, clock, cb, drv>>

Other(d) == IF d = "play" THEN "rec" ELSE "play"

Idle == [at |-> "idle", g |-> NoGroup]

\* Mutation: the remainder is forgotten when a long frame is sent.
FramesReset(c) ==
    [i \in 0 .. NFrames |->
        [curr |-> IF c + i * (Rate % Fps) >= Fps THEN 0 ELSE c + i * (Rate % Fps),
         total |-> i * (Rate \div Fps) + (c + i * (Rate % Fps)) \div Fps]]

\* sample_curr and the samples of the first i frames of a transfer.
Frames(c) ==
    LET Rem == Rate % Fps
        Base == Rate \div Fps
        f[i \in 0 .. NFrames] ==
            IF i = 0 THEN [curr |-> c, total |-> 0]
            ELSE LET s == f[i - 1].curr + Rem
                 IN IF s >= Fps
                    THEN [curr |-> s - Fps, total |-> f[i - 1].total + Base + 1]
                    ELSE [curr |-> s, total |-> f[i - 1].total + Base]
    IN f

\* line6_set_playback_frame_lengths and line6_set_capture_frame_lengths: a
\* transfer of n frames is given its lengths.
SetFrameLengths(d, n) ==
    LET f == Frames(curr[d])[n]
    IN /\ curr' = [curr EXCEPT ![d] = f.curr]
       /\ drift' = [drift EXCEPT ![d] = @ + n * Rate - Fps * f.total]

\* usbd_transfer_setup: it needs the endpoints of the audio setting.
Setup(d, g) ==
    /\ alt = "audio"
    /\ g \in Groups \ live /\ g[1] = d
    /\ live' = live \cup {g}
    /\ due' = [due EXCEPT ![g] = 0]
    /\ sub' = [sub EXCEPT ![g] = 0]
    /\ xfer' = [xfer EXCEPT ![d] = g]

\* usbd_transfer_start of all transfers of g.
Started(g) == [due EXCEPT ![g] = NXfers]

\* usbd_transfer_stop of all transfers of the groups in S: they complete with
\* USB_ERR_CANCELLED, on which a callback does nothing.
Cancel(S) ==
    /\ due' = [g \in Groups |-> IF g \in S THEN 0 ELSE due[g]]
    /\ sub' = [g \in Groups |-> IF g \in S THEN 0 ELSE sub[g]]

\* usbd_transfer_unsetup: waits for a callback, then frees the transfers.
Unsetup(d) ==
    /\ cb.g # xfer[d] \/ xfer[d] = NoGroup
    /\ live' = live \ {xfer[d]}
    /\ Cancel({xfer[d]})
    /\ xfer' = [xfer EXCEPT ![d] = NoGroup]

\* usbd_set_alt_interface_index for the setting without endpoints: refused
\* while transfers are set up, and a request may fail.  Nobody looks at the
\* result.
RequestZero ==
    \/ live = {} /\ alt' = "zero"
    \/ (live # {} \/ setting.faults) /\ UNCHANGED alt

Goto(d, label) == pc' = [pc EXCEPT ![d] = label]

-----------------------------------------------------------------------------
Init ==
    /\ setting \in Settings
    /\ pc = [d \in Dirs |-> "idle"]
    /\ todo = [d \in Dirs |-> "stop"]
    /\ chan = [d \in Dirs |-> "stopped"]
    /\ chn = [d \in Dirs |-> FALSE]
    /\ alt = "zero" /\ active = {} /\ helper = FALSE
    /\ running = [d \in Dirs |-> FALSE]
    /\ ring = [d \in Dirs |-> "none"]
    /\ pcm = [d \in Dirs |-> FALSE]
    /\ xfer = [d \in Dirs |-> NoGroup]
    /\ live = {}
    /\ due = [g \in Groups |-> 0]
    /\ sub = [g \in Groups |-> 0]
    /\ curr = [d \in Dirs |-> 0]
    /\ drift = [d \in Dirs |-> 0]
    /\ cb = Idle
    /\ drv = "up"

-----------------------------------------------------------------------------
(* The triggers of sound(4)                                                *)

\* chn_trigger asks for START of a stopped channel, and for STOP of one whose
\* START succeeded or failed (chn_abort).
BeginTrigger(d) ==
    /\ drv = "up"
    /\ pc[d] = "idle"
    /\ setting.overlap \/ pc[Other(d)] = "idle"
    /\ \/ /\ chan[d] = "stopped"
          /\ setting.takeover \/ d = "rec" \/ ~helper
          /\ todo' = [todo EXCEPT ![d] = "start"]
       \/ /\ chan[d] # "stopped"
          /\ todo' = [todo EXCEPT ![d] = "stop"]
    /\ chn' = [chn EXCEPT ![d] = TRUE]
    /\ Goto(d, "locked")
    /\ UNCHANGED <<setting, chan, device, stream, usb, clock, cb, drv>>

\* Mutation: CHN_LOCK is kept while the driver's trigger runs.
KeepChannel(d) ==
    /\ pc[d] = "locked"
    /\ Goto(d, IF todo[d] = "start" THEN "s_alt" ELSE "t_stop")
    /\ UNCHANGED <<setting, todo, chan, chn, device, stream, usb, clock, cb, drv>>

\* basound_chan_trigger gives CHN_LOCK back before it calls the driver ...
ReleaseChannel(d) ==
    /\ pc[d] = "locked"
    /\ chn' = [chn EXCEPT ![d] = FALSE]
    /\ Goto(d, IF todo[d] = "start" THEN "s_alt" ELSE "t_stop")
    /\ UNCHANGED <<setting, todo, chan, device, stream, usb, clock, cb, drv>>

\* ... and takes it again for its return to chn_trigger.
Return(d) ==
    /\ pc[d] = "return"
    /\ chan' = [chan EXCEPT ![d] = CASE todo[d] = "start" -> "started"
                                     [] todo[d] = "fail"  -> "failed"
                                     [] todo[d] = "stop"  -> "stopped"]
    /\ chn' = [chn EXCEPT ![d] = FALSE]
    /\ Goto(d, "idle")
    /\ UNCHANGED <<setting, todo, device, stream, usb, clock, cb, drv>>

-----------------------------------------------------------------------------
(* line6_pcm_trigger: START                                                *)

\* line6_set_audio_alt: a request that fails may have switched or not.
SetAlt(d) ==
    /\ pc[d] = "s_alt"
    /\ \/ alt' = "audio"
       \/ setting.faults /\ UNCHANGED alt
    /\ Goto(d, "s_setup")
    /\ UNCHANGED <<setting, todo, chan, chn, active, helper, stream, usb, clock,
                   cb, drv>>

TransferSetup(d) ==
    /\ pc[d] = "s_setup"
    /\ \E g \in Groups : Setup(d, g)
    /\ Goto(d, "s_arm")
    /\ UNCHANGED <<setting, todo, chan, chn, device, running, ring, pcm, clock,
                   cb, drv>>

\* usbd_transfer_setup fails without the endpoints, and when it gets no memory.
\* START returns -EIO.
SetupFailed(d) ==
    /\ pc[d] = "s_setup"
    /\ alt = "zero" \/ setting.faults
    /\ todo' = [todo EXCEPT ![d] = "fail"]
    /\ Goto(d, "s_fail")
    /\ UNCHANGED <<setting, chan, chn, device, stream, usb, clock, cb, drv>>

\* A START that failed, and the STOP of the last stream, release the bandwidth:
\* audio_active is read without the lock ...
TestActive(d) ==
    /\ \/ /\ pc[d] = "s_fail"
          /\ Goto(d, IF active = {} THEN "s_zero" ELSE "return")
       \/ /\ pc[d] = "t_alt"
          /\ Goto(d, CASE active = {} -> "t_zero"
                       [] active # {} /\ setting.toneport -> "t_helper"
                       [] OTHER -> "return")
    /\ UNCHANGED <<setting, todo, chan, chn, device, stream, usb, clock, cb, drv>>

\* ... and the request sleeps.
ReleaseAlt(d) ==
    /\ pc[d] = "s_zero"
    /\ RequestZero
    /\ Goto(d, "return")
    /\ UNCHANGED <<setting, todo, chan, chn, active, helper, stream, usb, clock,
                   cb, drv>>

\* The critical section of sc_lock that sets the stream up and starts it.
Arm(d) ==
    /\ pc[d] = "s_arm"
    /\ active' = active \cup {d}
    /\ running' = [running EXCEPT ![d] = TRUE]
    /\ ring' = [ring EXCEPT ![d] = "pcm"]
    /\ pcm' = [pcm EXCEPT ![d] = TRUE]
    /\ curr' = [curr EXCEPT ![d] = 0]
    /\ drift' = [drift EXCEPT ![d] = 0]
    /\ due' = Started(xfer[d])
    /\ Goto(d, IF setting.toneport THEN "s_helper" ELSE "return")
    /\ UNCHANGED <<setting, todo, chan, chn, alt, helper, xfer, live, sub, cb,
                   drv>>

\* Capture alone starts the helper, playback stops it.
CheckHelper(d) ==
    /\ pc[d] = "s_helper"
    /\ Goto(d, CASE d = "rec" /\ "play" \notin active -> "h_test"
                 [] d = "play" /\ helper -> "k_stop"
                 [] OTHER -> "return")
    /\ UNCHANGED <<setting, todo, chan, chn, device, stream, usb, clock, cb, drv>>

-----------------------------------------------------------------------------
(* line6_pcm_trigger: STOP                                                 *)

\* Mutation: the direction's bit stays in audio_active.
StopKeepsBit(d) ==
    /\ pc[d] = "t_stop"
    /\ running' = [running EXCEPT ![d] = FALSE]
    /\ Cancel({xfer[d]})
    /\ Goto(d, "t_unsetup")
    /\ UNCHANGED <<setting, todo, chan, chn, device, ring, pcm, xfer, live,
                   clock, cb, drv>>

StopStream(d) ==
    /\ pc[d] = "t_stop"
    /\ running' = [running EXCEPT ![d] = FALSE]
    /\ active' = active \ {d}
    /\ Cancel({xfer[d]})
    /\ Goto(d, "t_unsetup")
    /\ UNCHANGED <<setting, todo, chan, chn, alt, helper, ring, pcm, xfer, live,
                   clock, cb, drv>>

UnsetupStream(d) ==
    /\ pc[d] = "t_unsetup"
    /\ Unsetup(d)
    /\ Goto(d, "t_alt")
    /\ UNCHANGED <<setting, todo, chan, chn, device, running, ring, pcm, clock,
                   cb, drv>>

ZeroAlt(d) ==
    /\ pc[d] = "t_zero"
    /\ RequestZero
    /\ Goto(d, IF setting.toneport THEN "t_helper" ELSE "return")
    /\ UNCHANGED <<setting, todo, chan, chn, active, helper, stream, usb, clock,
                   cb, drv>>

\* Mutation: the helper is not started for a capture that goes on.
LeaveHelper(d) ==
    /\ pc[d] = "t_helper"
    /\ Goto(d, IF d = "rec" /\ helper THEN "k_stop" ELSE "return")
    /\ UNCHANGED <<setting, todo, chan, chn, device, stream, usb, clock, cb, drv>>

\* The end of capture stops the helper, that of playback starts it again for a
\* capture that goes on.
SwitchHelper(d) ==
    /\ pc[d] = "t_helper"
    /\ Goto(d, CASE d = "rec" /\ helper -> "k_stop"
                 [] d = "play" /\ "rec" \in active -> "h_test"
                 [] OTHER -> "return")
    /\ UNCHANGED <<setting, todo, chan, chn, device, stream, usb, clock, cb, drv>>

-----------------------------------------------------------------------------
(* line6_start_play_helper and line6_stop_play_helper, called by a trigger *)

TestHelper(d) ==
    /\ pc[d] = "h_test"
    /\ Goto(d, IF helper THEN "return" ELSE "h_setup")
    /\ UNCHANGED <<setting, todo, chan, chn, device, stream, usb, clock, cb, drv>>

SetupHelper(d) ==
    /\ pc[d] = "h_setup"
    /\ \E g \in Groups : Setup("play", g)
    /\ Goto(d, "h_arm")
    /\ UNCHANGED <<setting, todo, chan, chn, device, running, ring, pcm, clock,
                   cb, drv>>

\* The triggers ignore that the helper could not be started.
HelperFailed(d) ==
    /\ pc[d] = "h_setup"
    /\ alt = "zero" \/ setting.faults
    /\ Goto(d, "return")
    /\ UNCHANGED <<setting, todo, chan, chn, device, stream, usb, clock, cb, drv>>

ArmHelper(d) ==
    /\ pc[d] = "h_arm"
    /\ running' = [running EXCEPT !["play"] = TRUE]
    /\ ring' = [ring EXCEPT !["play"] = "silence"]
    /\ pcm' = [pcm EXCEPT !["play"] = FALSE]
    /\ curr' = [curr EXCEPT !["play"] = 0]
    /\ drift' = [drift EXCEPT !["play"] = 0]
    /\ helper' = TRUE
    /\ due' = Started(xfer["play"])
    /\ Goto(d, "return")
    /\ UNCHANGED <<setting, todo, chan, chn, alt, active, xfer, live, sub, cb,
                   drv>>

StopHelper(d) ==
    /\ pc[d] = "k_stop"
    /\ running' = [running EXCEPT !["play"] = FALSE]
    /\ Cancel({xfer["play"]})
    /\ Goto(d, "k_unsetup")
    /\ UNCHANGED <<setting, todo, chan, chn, device, ring, pcm, xfer, live,
                   clock, cb, drv>>

UnsetupHelper(d) ==
    /\ pc[d] = "k_unsetup"
    /\ Unsetup("play")
    /\ helper' = FALSE
    /\ ring' = [ring EXCEPT !["play"] = "none"]
    /\ Goto(d, "return")
    /\ UNCHANGED <<setting, todo, chan, chn, alt, active, running, pcm, clock,
                   cb, drv>>

-----------------------------------------------------------------------------
(* The callbacks, which run one at a time in the thread of the USB bus     *)

\* A transfer of g completes, or is called for the first time, and is submitted
\* again (n = 1) or not (n = 0).
Complete(g, first, n) ==
    /\ IF first THEN due[g] > 0 ELSE sub[g] > 0
    /\ due' = [due EXCEPT ![g] = IF first THEN @ - 1 ELSE @]
    /\ sub' = [sub EXCEPT ![g] = IF first THEN @ + n ELSE (@ - 1) + n]

\* line6_play_callback: the next frames are copied from the ring, then the
\* OSS layer is told, without sc_lock.
PlayCallback(g) ==
    /\ cb = Idle
    /\ g \in live /\ g[1] = "play"
    /\ \E first \in BOOLEAN :
          \/ /\ ~running["play"] \/ ring["play"] = "none"
             /\ Complete(g, first, 0)
             /\ UNCHANGED <<clock, cb>>
          \/ /\ running["play"] /\ ring["play"] # "none"
             /\ SetFrameLengths("play", NFrames)
             /\ IF pcm["play"]
                THEN Complete(g, first, 0) /\ cb' = [at |-> "elapsed", g |-> g]
                ELSE Complete(g, first, 1) /\ UNCHANGED cb
    /\ UNCHANGED <<setting, app, device, stream, live, drv>>

\* line6_rec_callback: what has arrived is copied to the ring, then the OSS
\* layer is told, then the transfer is armed again.
RecCallback(g) ==
    /\ cb = Idle
    /\ g \in live /\ g[1] = "rec"
    /\ \E first \in BOOLEAN :
          \/ /\ ~first /\ ring["rec"] # "none" /\ pcm["rec"]
             /\ Complete(g, first, 0)
             /\ cb' = [at |-> "elapsed", g |-> g]
             /\ UNCHANGED clock
          \/ /\ first \/ ring["rec"] = "none" \/ ~pcm["rec"]
             /\ IF running["rec"]
                THEN Complete(g, first, 1) /\ SetFrameLengths("rec", NFrames)
                ELSE Complete(g, first, 0) /\ UNCHANGED clock
             /\ UNCHANGED cb
    /\ UNCHANGED <<setting, app, device, stream, live, drv>>

\* chn_intr takes CHN_LOCK.
Elapsed ==
    /\ cb.at = "elapsed"
    /\ ~chn[cb.g[1]]
    /\ cb' = [cb EXCEPT !.at = "resubmit"]
    /\ UNCHANGED <<setting, app, device, stream, usb, clock, drv>>

\* Mutation: a STOP during chn_intr is not noticed.
ResubmitAlways ==
    /\ cb.at = "resubmit"
    /\ sub' = [sub EXCEPT ![cb.g] = @ + 1]
    /\ cb' = Idle
    /\ UNCHANGED <<setting, app, device, stream, live, due, clock, drv>>

\* The rest of the callback, with sc_lock again.
Resubmit ==
    /\ cb.at = "resubmit"
    /\ LET d == cb.g[1]
       IN IF running[d]
          THEN /\ sub' = [sub EXCEPT ![cb.g] = @ + 1]
               /\ IF d = "rec" THEN SetFrameLengths(d, NFrames) ELSE UNCHANGED clock
          ELSE UNCHANGED <<sub, clock>>
    /\ cb' = Idle
    /\ UNCHANGED <<setting, app, device, stream, live, due, drv>>

\* Mutation: a transfer that failed is not armed again.
DropOnError(g) ==
    /\ setting.faults
    /\ cb = Idle
    /\ g \in live /\ sub[g] > 0
    /\ Complete(g, FALSE, 0)
    /\ UNCHANGED <<setting, app, device, stream, live, clock, cb, drv>>

\* A transfer fails for another reason than its cancellation: playback sends a
\* whole transfer again, capture arms a single frame.
ErrorCallback(g) ==
    /\ setting.faults
    /\ cb = Idle
    /\ g \in live /\ sub[g] > 0
    /\ IF running[g[1]]
       THEN /\ SetFrameLengths(g[1], IF g[1] = "play" THEN NFrames ELSE 1)
            /\ UNCHANGED <<due, sub>>
       ELSE Complete(g, FALSE, 0) /\ UNCHANGED clock
    /\ UNCHANGED <<setting, app, device, stream, live, cb, drv>>

-----------------------------------------------------------------------------
(* line6_bsd_detach, while no trigger runs                                 *)

DetachHelper ==
    /\ drv = "up"
    /\ \A d \in Dirs : pc[d] = "idle"
    /\ IF helper
       THEN /\ running' = [running EXCEPT !["play"] = FALSE]
            /\ Cancel({xfer["play"]})
            /\ drv' = "d_helper"
       ELSE UNCHANGED <<running, due, sub>> /\ drv' = "d_stop"
    /\ UNCHANGED <<setting, app, device, ring, pcm, xfer, live, clock, cb>>

DetachHelperGone ==
    /\ drv = "d_helper"
    /\ Unsetup("play")
    /\ helper' = FALSE
    /\ ring' = [ring EXCEPT !["play"] = "none"]
    /\ drv' = "d_stop"
    /\ UNCHANGED <<setting, app, alt, active, running, pcm, clock, cb>>

DetachStop ==
    /\ drv = "d_stop"
    /\ running' = [d \in Dirs |-> FALSE]
    /\ Cancel({xfer[d] : d \in Dirs})
    /\ drv' = "d_play"
    /\ UNCHANGED <<setting, app, device, ring, pcm, xfer, live, clock, cb>>

\* Mutation: the transfers of capture are forgotten.
DetachPlayback ==
    /\ drv = "d_play"
    /\ Unsetup("play")
    /\ drv' = "d_alt"
    /\ UNCHANGED <<setting, app, device, running, ring, pcm, clock, cb>>

DetachUnsetup ==
    /\ \/ drv = "d_play" /\ Unsetup("play") /\ drv' = "d_rec"
       \/ drv = "d_rec" /\ Unsetup("rec") /\ drv' = "d_alt"
    /\ UNCHANGED <<setting, app, device, running, ring, pcm, clock, cb>>

DetachAlt ==
    /\ drv = "d_alt"
    /\ RequestZero
    /\ drv' = "gone"
    /\ UNCHANGED <<setting, app, active, helper, stream, usb, clock, cb>>

-----------------------------------------------------------------------------
TriggerStep(d) ==
    \/ ReleaseChannel(d) \/ Return(d)
    \/ SetAlt(d) \/ TransferSetup(d) \/ SetupFailed(d)
    \/ TestActive(d) \/ ReleaseAlt(d)
    \/ Arm(d) \/ CheckHelper(d)
    \/ StopStream(d) \/ UnsetupStream(d) \/ ZeroAlt(d) \/ SwitchHelper(d)
    \/ TestHelper(d) \/ SetupHelper(d) \/ HelperFailed(d) \/ ArmHelper(d)
    \/ StopHelper(d) \/ UnsetupHelper(d)

Callback ==
    \/ \E g \in Groups : PlayCallback(g) \/ RecCallback(g) \/ ErrorCallback(g)
    \/ Elapsed \/ Resubmit

Detach ==
    DetachHelper \/ DetachHelperGone \/ DetachStop \/ DetachUnsetup \/ DetachAlt

Next ==
    \/ \E d \in Dirs : BeginTrigger(d) \/ TriggerStep(d)
    \/ Callback
    \/ Detach

Spec == Init /\ [][Next]_vars

\* The thread of a trigger and the bus's callback thread are scheduled.
FairSpec ==
    /\ Spec
    /\ \A d \in Dirs : WF_vars(TriggerStep(d))
    /\ WF_vars(Callback)

-----------------------------------------------------------------------------
Labels == {"idle", "locked", "return",
           "s_alt", "s_setup", "s_fail", "s_zero", "s_arm", "s_helper",
           "t_stop", "t_unsetup", "t_alt", "t_zero", "t_helper",
           "h_test", "h_setup", "h_arm", "k_stop", "k_unsetup"}

TypeOK ==
    /\ setting \in Settings
    /\ pc \in [Dirs -> Labels]
    /\ todo \in [Dirs -> {"start", "stop", "fail"}]
    /\ chan \in [Dirs -> {"stopped", "started", "failed"}]
    /\ chn \in [Dirs -> BOOLEAN]
    /\ alt \in {"zero", "audio"}
    /\ active \in SUBSET Dirs
    /\ helper \in BOOLEAN
    /\ running \in [Dirs -> BOOLEAN]
    /\ ring \in [Dirs -> {"none", "pcm", "silence"}]
    /\ pcm \in [Dirs -> BOOLEAN]
    /\ xfer \in [Dirs -> Groups \cup {NoGroup}]
    /\ live \in SUBSET Groups
    /\ due \in [Groups -> Nat]
    /\ sub \in [Groups -> Nat]
    /\ curr \in [Dirs -> 0 .. Fps - 1]
    /\ drift \in [Dirs -> Int]
    /\ cb \in [at : {"idle", "elapsed", "resubmit"}, g : Groups \cup {NoGroup}]
    /\ drv \in {"up", "d_helper", "d_stop", "d_play", "d_rec", "d_alt", "gone"}

Quiet == drv = "up" /\ \A d \in Dirs : pc[d] = "idle"

\* Transfers of g that are somewhere: waiting, on the bus, or in a callback.
InFlight(g) == due[g] + sub[g] + (IF cb.g = g THEN 1 ELSE 0)

\* Direction d streams from the buffer b with all its transfers.
Streams(d, b) ==
    /\ running[d]
    /\ ring[d] = b
    /\ xfer[d] \in live
    /\ InFlight(xfer[d]) = NXfers

\* A channel that has been started streams, and loses none of its transfers to
\* a failure, to a trigger of the other direction or to the silence helper: the
\* helper gives way to playback (1264-1271), a transient error is re-armed.
StartedStreams ==
    \A d \in Dirs :
        drv = "up" /\ pc[d] = "idle" /\ chan[d] = "started" => Streams(d, "pcm")

\* The transfers in the USB stack are those a stream points to.  Others would
\* call back into the driver after it has been detached.
NoOrphans ==
    /\ live = {xfer[d] : d \in Dirs} \ {NoGroup}
    /\ drv = "gone" => live = {} /\ cb = Idle

\* The bandwidth is released when both streams are stopped (1292).  Triggered
\* one after the other, no direction asks for it while the other one streams;
\* and where no request fails, the last stream to stop has released it, however
\* STOP, a START and a failing START are interleaved.  The request of a TonePort
\* is refused while its helper plays; at the latest detach makes up for it
\* (1800-1805).
BandwidthReleased ==
    /\ ~setting.overlap => \A d \in Dirs :
          pc[d] \in {"s_zero", "t_zero"} => chan[Other(d)] # "started"
    /\ ~setting.faults /\ ~setting.toneport /\ Quiet
          /\ (\A d \in Dirs : chan[d] = "stopped") => alt = "zero"
    /\ ~setting.faults /\ drv = "gone" => alt = "zero"

\* A TonePort that captures always has a playback stream, the application's or
\* the helper's, and the helper goes with the capture it serves (1247-1251,
\* 1297-1300).  (A STOP that aborts a failed START of playback stops the helper
\* for good.)
HelperServesCapture ==
    /\ helper => setting.toneport
    /\ setting.toneport /\ ~setting.faults /\ Quiet =>
        IF chan["rec"] = "started" /\ chan["play"] # "started"
        THEN helper /\ Streams("play", "silence")
        ELSE ~helper

\* The frame lengths follow the sample rate without a drift, across transient
\* errors and whatever runs beside: the samples of n frames after a start are
\* n * Rate / Fps, rounded down.
NoDrift ==
    \A d \in Dirs : drift[d] \in 0 .. Fps - 1

\* A stopped stream submits nothing any more, although its callback gives
\* sc_lock back in the middle (587-594, 816-826).
NoLateSubmit ==
    [][\A g \in Groups : sub'[g] > sub[g] => running[g[1]]]_vars

\* START and STOP return: STOP waits for a callback that waits for CHN_LOCK,
\* which the bridge has given back.
TriggersReturn == \A d \in Dirs : pc[d] # "idle" ~> pc[d] = "idle"

=============================================================================
