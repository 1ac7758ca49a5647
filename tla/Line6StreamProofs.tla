-------------------------- MODULE Line6StreamProofs --------------------------
(***************************************************************************)
(* Theorems about Line6Stream.  In every interleaving of two triggers,     *)
(* callbacks, errors and detach: a started stream keeps all its transfers  *)
(* and leaks none (a plain device in any use, a TonePort in its proper     *)
(* use), the helper serves capture alone, the frame lengths never drift,   *)
(* the request that releases the bandwidth never meets a stream of the     *)
(* other direction, and nothing is submitted for a stream that was stopped. *)
(***************************************************************************)
EXTENDS Line6Stream, FiniteSetTheorems, TLAPS

\* What the driver is meant for: a TonePort whose two directions are triggered one
\* after the other, and whose playback is not started under the helper.  Other
\* devices may be used in any way.
Proper == \A s \in Settings : s.toneport => ~s.overlap /\ ~s.takeover

\* Without a helper the triggers have these labels only.
Plain == {"idle", "locked", "return", "s_alt", "s_setup", "s_fail", "s_zero",
          "s_arm", "t_stop", "t_unsetup", "t_alt", "t_zero"}

\* Where a trigger is says what it was asked for and what its channel is.
Flow ==
    /\ ~setting.toneport /\ ~helper
    /\ pc \in [Dirs -> Plain]
    /\ todo \in [Dirs -> {"start", "stop", "fail"}]
    /\ chan \in [Dirs -> {"stopped", "started", "failed"}]
    /\ drv \in {"up", "d_stop", "d_play", "d_rec", "d_alt", "gone"}
    /\ drv # "up" => \A d \in Dirs : pc[d] = "idle"
    /\ \A d \in Dirs :
          /\ pc[d] = "locked" =>
                (todo[d] = "start" <=> chan[d] = "stopped") /\ todo[d] # "fail"
          /\ pc[d] \in {"s_alt", "s_setup", "s_arm"} => chan[d] = "stopped" /\ todo[d] = "start"
          /\ pc[d] \in {"s_fail", "s_zero"} => todo[d] = "fail"
          /\ pc[d] \in {"t_stop", "t_unsetup", "t_alt", "t_zero"} => todo[d] = "stop"

\* The stream has been armed and not been stopped yet.
Armed(d) ==
    \/ pc[d] \in {"idle", "t_stop"} /\ chan[d] = "started"
    \/ pc[d] = "locked" /\ todo[d] = "stop" /\ chan[d] = "started"
    \/ pc[d] = "return" /\ todo[d] = "start"

\* The stream's transfers may be set up.
Holds(d) == Armed(d) \/ pc[d] \in {"s_arm", "t_unsetup"}

UsbTypes ==
    /\ live \in SUBSET Groups
    /\ due \in [Groups -> Nat] /\ sub \in [Groups -> Nat]
    /\ xfer \in [Dirs -> Groups \cup {NoGroup}]
    /\ running \in [Dirs -> BOOLEAN] /\ pcm \in [Dirs -> BOOLEAN]
    /\ ring \in [Dirs -> {"none", "pcm", "silence"}]

\* The transfers that are set up are those a stream points to, and the callback
\* that runs belongs to one of them.
Pointed ==
    /\ \A d \in Dirs : xfer[d] # NoGroup => xfer[d][1] = d
    /\ \A g \in Groups : g \in live <=> \E d \in Dirs : xfer[d] = g
    /\ cb = Idle \/ (cb.g \in live /\ cb.at \in {"elapsed", "resubmit"})
    /\ \A d \in Dirs : ~Holds(d) => xfer[d] = NoGroup
    /\ drv \in {"d_rec", "d_alt", "gone"} => xfer["play"] = NoGroup
    /\ drv \in {"d_alt", "gone"} => xfer["rec"] = NoGroup

Quiescent(g) == due[g] = 0 /\ sub[g] = 0 /\ cb.g # g

\* An armed stream has all its transfers under way, one that is about to be
\* armed has none.
Busy ==
    \A d \in Dirs :
        /\ pc[d] = "s_arm" => xfer[d] \in live /\ Quiescent(xfer[d])
        /\ Armed(d) /\ drv \in {"up", "d_stop"} => Streams(d, "pcm")

Line6Inv == Flow /\ UsbTypes /\ Pointed /\ Busy

-----------------------------------------------------------------------------
LEMMA GroupFacts ==
    /\ NoGroup \notin Groups
    /\ \A g \in Groups : g[1] \in Dirs
    /\ Idle.g = NoGroup /\ Idle.at = "idle"
BY DEF NoGroup, Groups, Idle, Dirs

\* A step of a device without a helper.
PlainStep ==
    \/ \E d \in Dirs :
          \/ BeginTrigger(d) \/ ReleaseChannel(d) \/ Return(d)
          \/ SetAlt(d) \/ TransferSetup(d) \/ SetupFailed(d)
          \/ TestActive(d) \/ ReleaseAlt(d)
          \/ Arm(d) \/ StopStream(d) \/ UnsetupStream(d) \/ ZeroAlt(d)
    \/ Callback
    \/ DetachHelper \/ DetachStop \/ DetachUnsetup \/ DetachAlt

LEMMA NoHelperStep == Flow /\ Next => PlainStep
<1> SUFFICES ASSUME Flow, Next PROVE PlainStep
  OBVIOUS
<1> USE DEF Flow, Plain
<1>1. ASSUME NEW d \in Dirs, CheckHelper(d) PROVE FALSE
  BY <1>1 DEF CheckHelper
<1>2. ASSUME NEW d \in Dirs, SwitchHelper(d) PROVE FALSE
  BY <1>2 DEF SwitchHelper
<1>3. ASSUME NEW d \in Dirs, TestHelper(d) PROVE FALSE
  BY <1>3 DEF TestHelper
<1>4. ASSUME NEW d \in Dirs, SetupHelper(d) PROVE FALSE
  BY <1>4 DEF SetupHelper
<1>5. ASSUME NEW d \in Dirs, HelperFailed(d) PROVE FALSE
  BY <1>5 DEF HelperFailed
<1>6. ASSUME NEW d \in Dirs, ArmHelper(d) PROVE FALSE
  BY <1>6 DEF ArmHelper
<1>7. ASSUME NEW d \in Dirs, StopHelper(d) PROVE FALSE
  BY <1>7 DEF StopHelper
<1>8. ASSUME NEW d \in Dirs, UnsetupHelper(d) PROVE FALSE
  BY <1>8 DEF UnsetupHelper
<1>9. ~DetachHelperGone
  BY DEF DetachHelperGone
<1>10. QED
  BY <1>1, <1>2, <1>3, <1>4, <1>5, <1>6, <1>7, <1>8, <1>9 DEF Next, TriggerStep, Detach, PlainStep

\* Each step of a trigger leads from one of its phases to the next.
LEMMA FlowNext ==
    ASSUME Flow, [Next]_vars
    PROVE  Flow'
<1> USE DEF app, device, stream, usb, clock, Goto, Other, Dirs, Flow, Plain
<1>1. ASSUME NEW d \in Dirs, BeginTrigger(d) PROVE Flow'
  BY <1>1 DEF BeginTrigger
<1>2. ASSUME NEW d \in Dirs, ReleaseChannel(d) PROVE Flow'
  BY <1>2 DEF ReleaseChannel
<1>3. ASSUME NEW d \in Dirs, Return(d) PROVE Flow'
  BY <1>3 DEF Return
<1>4. ASSUME NEW d \in Dirs, SetAlt(d) PROVE Flow'
  BY <1>4 DEF SetAlt
<1>5. ASSUME NEW d \in Dirs, TransferSetup(d) PROVE Flow'
  BY <1>5 DEF TransferSetup
<1>6. ASSUME NEW d \in Dirs, SetupFailed(d) PROVE Flow'
  BY <1>6 DEF SetupFailed
<1>7. ASSUME NEW d \in Dirs, ReleaseAlt(d) \/ TestActive(d) PROVE Flow'
  BY <1>7 DEF ReleaseAlt, TestActive
<1>8. ASSUME NEW d \in Dirs, Arm(d) PROVE Flow'
  BY <1>8 DEF Arm
<1>9. ASSUME NEW d \in Dirs, StopStream(d) PROVE Flow'
  BY <1>9 DEF StopStream
<1>10. ASSUME NEW d \in Dirs, UnsetupStream(d) PROVE Flow'
  BY <1>10 DEF UnsetupStream
<1>11. ASSUME NEW d \in Dirs, ZeroAlt(d) PROVE Flow'
  BY <1>11 DEF ZeroAlt
<1>12. CASE \E g \in Groups : PlayCallback(g)
  BY <1>12 DEF PlayCallback
<1>13. CASE \E g \in Groups : RecCallback(g)
  BY <1>13 DEF RecCallback
<1>14. CASE \E g \in Groups : ErrorCallback(g)
  BY <1>14 DEF ErrorCallback
<1>15. CASE Elapsed
  BY <1>15 DEF Elapsed
<1>16. CASE Resubmit
  BY <1>16 DEF Resubmit
<1>17. CASE DetachHelper
  BY <1>17 DEF DetachHelper
<1>18. CASE DetachStop
  BY <1>18 DEF DetachStop
<1>19. CASE DetachUnsetup
  BY <1>19 DEF DetachUnsetup
<1>20. CASE DetachAlt
  BY <1>20 DEF DetachAlt
<1>21. CASE UNCHANGED vars
  BY <1>21 DEF vars
<1>22. QED
  BY NoHelperStep, <1>1, <1>2, <1>3, <1>4, <1>5, <1>6, <1>7, <1>8, <1>9, <1>10, <1>11, <1>12, <1>13, <1>14, <1>15, <1>16, <1>17, <1>18, <1>19, <1>20, <1>21 DEF PlainStep, Callback

\* The counts never go below zero.
LEMMA UsbTypesNext ==
    ASSUME UsbTypes, [Next]_vars
    PROVE  UsbTypes'
<1> USE XfersAssumption DEF app, device, stream, usb, clock, Goto, Other, UsbTypes
<1>1. ASSUME NEW d \in Dirs,
             BeginTrigger(d) \/ ReleaseChannel(d) \/ Return(d) \/ SetAlt(d) \/ SetupFailed(d)
      PROVE  UsbTypes'
  BY <1>1 DEF BeginTrigger, ReleaseChannel, Return, SetAlt, SetupFailed
<1>2. ASSUME NEW d \in Dirs,
             ReleaseAlt(d) \/ TestActive(d) \/ CheckHelper(d) \/ ZeroAlt(d) \/ SwitchHelper(d)
               \/ TestHelper(d) \/ HelperFailed(d)
      PROVE  UsbTypes'
  BY <1>2 DEF ReleaseAlt, TestActive, CheckHelper, ZeroAlt, SwitchHelper, TestHelper, HelperFailed
<1>3. ASSUME NEW d \in Dirs, TransferSetup(d) PROVE UsbTypes'
  BY <1>3 DEF TransferSetup, Setup
<1>4. ASSUME NEW d \in Dirs, SetupHelper(d) PROVE UsbTypes'
  BY <1>4 DEF SetupHelper, Setup, Dirs
<1>5. ASSUME NEW d \in Dirs, Arm(d) PROVE UsbTypes'
  BY <1>5 DEF Arm, Started
<1>6. ASSUME NEW d \in Dirs, ArmHelper(d) PROVE UsbTypes'
  BY <1>6 DEF ArmHelper, Started, Dirs
<1>7. ASSUME NEW d \in Dirs, StopStream(d) PROVE UsbTypes'
  BY <1>7 DEF StopStream, Cancel
<1>8. ASSUME NEW d \in Dirs, UnsetupStream(d) PROVE UsbTypes'
  BY <1>8 DEF UnsetupStream, Unsetup, Cancel
<1>9. ASSUME NEW d \in Dirs, StopHelper(d) PROVE UsbTypes'
  BY <1>9 DEF StopHelper, Cancel
<1>10. ASSUME NEW d \in Dirs, UnsetupHelper(d) PROVE UsbTypes'
  BY <1>10 DEF UnsetupHelper, Unsetup, Cancel
<1>11. CASE \E g \in Groups : PlayCallback(g)
  BY <1>11 DEF PlayCallback, Complete
<1>12. CASE \E g \in Groups : RecCallback(g)
  BY <1>12 DEF RecCallback, Complete
<1>13. CASE \E g \in Groups : ErrorCallback(g)
  BY <1>13 DEF ErrorCallback, Complete
<1>14. CASE Elapsed \/ Resubmit
  BY <1>14 DEF Elapsed, Resubmit
<1>15. CASE DetachHelper
  <2>1. CASE helper
    <3>1. /\ running' = [running EXCEPT !["play"] = FALSE] /\ Cancel({xfer["play"]})
          /\ UNCHANGED <<ring, pcm, xfer, live>>
      BY <1>15, <2>1 DEF DetachHelper
    <3>2. due' \in [Groups -> Nat] /\ sub' \in [Groups -> Nat]
      BY <3>1 DEF Cancel
    <3>3. QED
      BY <3>1, <3>2
  <2>2. CASE ~helper
    BY <1>15, <2>2 DEF DetachHelper
  <2>3. QED
    BY <2>1, <2>2
<1>16. CASE DetachHelperGone
  BY <1>16 DEF DetachHelperGone, Unsetup, Cancel
<1>17. CASE DetachStop
  BY <1>17 DEF DetachStop, Cancel
<1>18. CASE DetachUnsetup
  BY <1>18 DEF DetachUnsetup, Unsetup, Cancel
<1>19. CASE DetachAlt \/ UNCHANGED vars
  BY <1>19 DEF DetachAlt, vars
<1>20. QED
  BY <1>1, <1>2, <1>3, <1>4, <1>5, <1>6, <1>7, <1>8, <1>9, <1>10, <1>11, <1>12, <1>13,
     <1>14, <1>15, <1>16, <1>17, <1>18, <1>19
     DEF Next, TriggerStep, Callback, Detach

\* A stream gets transfers when it has none, and unsetup, which waits for the
\* callback, is the only way to lose them.
LEMMA PointedNext ==
    ASSUME Flow, UsbTypes, Pointed, [Next]_vars
    PROVE  Pointed'
<1> USE GroupFacts DEF app, device, stream, usb, clock, Goto, Other, Pointed, Holds, Armed, Flow, UsbTypes, Plain
<1>1. ASSUME NEW d \in Dirs, BeginTrigger(d) PROVE Pointed'
  BY <1>1 DEF BeginTrigger
<1>2. ASSUME NEW d \in Dirs, ReleaseChannel(d) PROVE Pointed'
  BY <1>2 DEF ReleaseChannel
<1>3. ASSUME NEW d \in Dirs, Return(d) PROVE Pointed'
  BY <1>3 DEF Return
<1>4. ASSUME NEW d \in Dirs, SetAlt(d) PROVE Pointed'
  BY <1>4 DEF SetAlt
<1>5. ASSUME NEW d \in Dirs, TransferSetup(d) PROVE Pointed'
  BY <1>5 DEF TransferSetup, Setup
<1>6. ASSUME NEW d \in Dirs, SetupFailed(d) PROVE Pointed'
  BY <1>6 DEF SetupFailed
<1>7. ASSUME NEW d \in Dirs, ReleaseAlt(d) \/ TestActive(d) PROVE Pointed'
  BY <1>7 DEF ReleaseAlt, TestActive
<1>8. ASSUME NEW d \in Dirs, Arm(d) PROVE Pointed'
  BY <1>8 DEF Arm
<1>9. ASSUME NEW d \in Dirs, StopStream(d) PROVE Pointed'
  BY <1>9 DEF StopStream
<1>10. ASSUME NEW d \in Dirs, UnsetupStream(d) PROVE Pointed'
  BY <1>10 DEF UnsetupStream, Unsetup
<1>11. ASSUME NEW d \in Dirs, ZeroAlt(d) PROVE Pointed'
  BY <1>11 DEF ZeroAlt
<1>12. CASE \E g \in Groups : PlayCallback(g)
  BY <1>12 DEF PlayCallback
<1>13. CASE \E g \in Groups : RecCallback(g)
  BY <1>13 DEF RecCallback
<1>14. CASE \E g \in Groups : ErrorCallback(g)
  BY <1>14 DEF ErrorCallback
<1>15. CASE Elapsed
  BY <1>15 DEF Elapsed
<1>16. CASE Resubmit
  BY <1>16 DEF Resubmit
<1>17. CASE DetachHelper
  BY <1>17 DEF DetachHelper
<1>18. CASE DetachStop
  BY <1>18 DEF DetachStop
<1>19. CASE DetachUnsetup
  BY <1>19 DEF DetachUnsetup, Unsetup, Dirs
<1>20. CASE DetachAlt
  BY <1>20 DEF DetachAlt
<1>21. CASE UNCHANGED vars
  BY <1>21 DEF vars
<1>22. QED
  BY NoHelperStep, <1>1, <1>2, <1>3, <1>4, <1>5, <1>6, <1>7, <1>8, <1>9, <1>10, <1>11, <1>12, <1>13, <1>14, <1>15, <1>16, <1>17, <1>18, <1>19, <1>20, <1>21 DEF PlainStep, Callback

\* A callback hands a transfer of its stream from one place to the next.
LEMMA BusyNext ==
    ASSUME Flow, UsbTypes, Pointed, Busy, [Next]_vars
    PROVE  Busy'
<1> USE GroupFacts, XfersAssumption DEF app, device, stream, usb, clock, Goto, Other, Busy, Armed, Flow, UsbTypes, Plain, Streams, InFlight, Quiescent
<1>1. ASSUME NEW d \in Dirs, BeginTrigger(d) PROVE Busy'
  BY <1>1 DEF BeginTrigger
<1>2. ASSUME NEW d \in Dirs, ReleaseChannel(d) PROVE Busy'
  BY <1>2 DEF ReleaseChannel
<1>3. ASSUME NEW d \in Dirs, Return(d) PROVE Busy'
  BY <1>3 DEF Return
<1>4. ASSUME NEW d \in Dirs, SetAlt(d) PROVE Busy'
  BY <1>4 DEF SetAlt
<1>5. ASSUME NEW d \in Dirs, TransferSetup(d) PROVE Busy'
  BY <1>5 DEF TransferSetup, Setup, Pointed, Holds
<1>6. ASSUME NEW d \in Dirs, SetupFailed(d) PROVE Busy'
  BY <1>6 DEF SetupFailed
<1>7. ASSUME NEW d \in Dirs, ReleaseAlt(d) \/ TestActive(d) PROVE Busy'
  BY <1>7 DEF ReleaseAlt, TestActive
<1>8. ASSUME NEW d \in Dirs, Arm(d) PROVE Busy'
  BY <1>8 DEF Arm, Started, Pointed
<1>9. ASSUME NEW d \in Dirs, StopStream(d) PROVE Busy'
  BY <1>9 DEF StopStream, Cancel, Pointed
<1>10. ASSUME NEW d \in Dirs, UnsetupStream(d) PROVE Busy'
  BY <1>10 DEF UnsetupStream, Unsetup, Cancel, Pointed
<1>11. ASSUME NEW d \in Dirs, ZeroAlt(d) PROVE Busy'
  BY <1>11 DEF ZeroAlt
<1>12. CASE \E g \in Groups : PlayCallback(g)
  BY <1>12 DEF PlayCallback, Complete, Pointed
<1>13. CASE \E g \in Groups : RecCallback(g)
  BY <1>13 DEF RecCallback, Complete, Pointed
<1>14. CASE \E g \in Groups : ErrorCallback(g)
  BY <1>14 DEF ErrorCallback, Complete, Pointed
<1>15. CASE Elapsed
  BY <1>15 DEF Elapsed
<1>16. CASE Resubmit
  <2>1. /\ cb.g \in Groups /\ cb' = Idle
        /\ UNCHANGED <<pc, todo, chan, drv, running, ring, xfer, live, due>>
        /\ \A g \in Groups : g # cb.g => sub'[g] = sub[g]
        /\ running[cb.g[1]] => sub'[cb.g] = sub[cb.g] + 1
    BY <1>16 DEF Resubmit, Pointed
  <2>2. ASSUME NEW d \in Dirs, pc[d] = "s_arm"
        PROVE  xfer[d] \in live /\ Quiescent(xfer[d])'
    BY <2>1, <2>2
  <2>3. ASSUME NEW d \in Dirs, Streams(d, "pcm")
        PROVE  Streams(d, "pcm")'
    <3>1. xfer[d] \in Groups /\ xfer[d][1] = d /\ due[xfer[d]] \in Nat /\ sub[xfer[d]] \in Nat
      BY <2>3 DEF Pointed
    <3>2. Idle.g # xfer[d]
      BY <3>1
    <3>3. InFlight(xfer[d])' = InFlight(xfer[d])
      <4>1. CASE cb.g = xfer[d]
        BY <2>1, <2>3, <3>1, <3>2, <4>1
      <4>2. CASE cb.g # xfer[d]
        BY <2>1, <3>1, <3>2, <4>2
      <4>. QED  BY <4>1, <4>2
    <3>. QED  BY <2>1, <2>3, <3>3
  <2>. QED  BY <2>1, <2>2, <2>3
<1>17. CASE DetachHelper
  BY <1>17 DEF DetachHelper
<1>18. CASE DetachStop
  BY <1>18 DEF DetachStop, Cancel
<1>19. CASE DetachUnsetup
  BY <1>19 DEF DetachUnsetup, Unsetup, Cancel
<1>20. CASE DetachAlt
  BY <1>20 DEF DetachAlt
<1>21. CASE UNCHANGED vars
  BY <1>21 DEF vars
<1>22. QED
  BY NoHelperStep, <1>1, <1>2, <1>3, <1>4, <1>5, <1>6, <1>7, <1>8, <1>9, <1>10, <1>11, <1>12, <1>13, <1>14, <1>15, <1>16, <1>17, <1>18, <1>19, <1>20, <1>21 DEF PlainStep, Callback

LEMMA Line6Init == ~setting.toneport /\ Init => Line6Inv
<1> SUFFICES ASSUME ~setting.toneport, Init PROVE Line6Inv
  OBVIOUS
<1>1. Flow
  BY DEF Init, Flow, Plain, Dirs
<1>2. UsbTypes
  BY DEF Init, UsbTypes
<1>3. Pointed
  BY GroupFacts DEF Init, Pointed
<1>4. Busy
  BY DEF Init, Busy, Armed
<1>5. QED
  BY <1>1, <1>2, <1>3, <1>4 DEF Line6Inv

LEMMA Line6Next == Line6Inv /\ [Next]_vars => Line6Inv'
BY FlowNext, UsbTypesNext, PointedNext, BusyNext DEF Line6Inv

-----------------------------------------------------------------------------
(* The frame lengths                                                       *)

\* The least-number principle, from the order of the finite sets 1 .. n.
LEMMA LeastNat ==
    ASSUME NEW T \in SUBSET Nat, T # {}
    PROVE  \E x \in T : \A y \in T : x <= y
<1> DEFINE Upto(n) == 1 .. n
           W == {Upto(n) : n \in T}
<1>1. IsWellFoundedOn(StrictSubsetOrdering(Nat), FiniteSubsetsOf(Nat))
  BY FS_StrictSubsetOrderingWellFounded
<1>2. W \subseteq FiniteSubsetsOf(Nat) /\ W # {}
  <2>1. \A n \in T : Upto(n) \in SUBSET Nat /\ IsFiniteSet(Upto(n))
    BY FS_Interval
  <2> HIDE DEF Upto
  <2>2. QED
    BY <2>1 DEF FiniteSubsetsOf
<1>3. \E x \in W : \A y \in W : ~ (<<y, x>> \in StrictSubsetOrdering(Nat))
  <2> HIDE DEF W
  <2>1. QED
    BY <1>1, <1>2, WFMin, Zenon
<1>4. PICK x \in T : \A y \in T : ~ (<<Upto(y), Upto(x)>> \in StrictSubsetOrdering(Nat))
  BY <1>3
<1>5. ASSUME NEW y \in T, y < x PROVE FALSE
  <2>1. Upto(y) \subseteq Upto(x) /\ x \in Upto(x) /\ x \notin Upto(y)
    BY <1>5
  <2>2. Upto(y) \in SUBSET Nat /\ Upto(x) \in SUBSET Nat
    BY <1>5
  <2>3. <<Upto(y), Upto(x)>> \in StrictSubsetOrdering(Nat)
    <3> HIDE DEF Upto
    <3>1. QED
      BY <2>1, <2>2 DEF StrictSubsetOrdering
  <2>4. QED
    BY <2>3, <1>4
<1>6. QED
  BY <1>5

\* Division of a sum, one step at a time.
LEMMA DivStep ==
    ASSUME NEW x \in Nat, NEW r \in 0 .. Fps - 1
    PROVE  /\ x % Fps \in 0 .. Fps - 1 /\ x \div Fps \in Nat
           /\ (x % Fps) + r >= Fps =>
                /\ (x + r) % Fps = (x % Fps) + r - Fps
                /\ (x + r) \div Fps = (x \div Fps) + 1
           /\ (x % Fps) + r < Fps =>
                /\ (x + r) % Fps = (x % Fps) + r
                /\ (x + r) \div Fps = x \div Fps
<1>1. Fps \in Nat /\ Fps > 0
  BY RateAssumption
<1>2. ASSUME NEW y \in Nat
      PROVE  /\ y % Fps \in 0 .. Fps - 1 /\ y \div Fps \in Nat
             /\ y = Fps * (y \div Fps) + (y % Fps)
  <2>1. y % Fps \in 0 .. Fps - 1
    BY <1>1
  <2>2. y = Fps * (y \div Fps) + (y % Fps)
    BY <1>1
  <2>3. y \div Fps \in Nat
    <3>1. y \div Fps \in Int
      BY <1>1
    <3>2. y \div Fps >= 0
      BY <1>1, SMTT(30)
    <3>3. QED
      BY <3>1, <3>2
  <2>4. QED
    BY <2>1, <2>2, <2>3
<1>3. ASSUME NEW y \in Nat, NEW q \in Int, NEW s \in 0 .. Fps - 1, y = Fps * q + s
      PROVE  y % Fps = s /\ y \div Fps = q
  <2> DEFINE p == y \div Fps
             t == y % Fps
  <2>1. p \in Int /\ t \in 0 .. Fps - 1 /\ y = Fps * p + t
    BY <1>2
  <2> HIDE DEF p, t
  <2>2. Fps * (p - q) = s - t
    <3>1. \A a, b, c \in Int : a * (b - c) = a * b - a * c
      OBVIOUS
    <3>2. Fps * p \in Int /\ Fps * q \in Int
      BY <1>1, <1>3, <2>1
    <3>3. QED
      BY <1>1, <1>3, <2>1, <3>1, <3>2
  <2>3. p - q = 0
    <3> DEFINE k == p - q
    <3>1. k \in Int
      BY <2>1
    <3>2. Fps * k = s - t
      BY <2>2
    <3> HIDE DEF k
    <3>3. ~(k >= 1)
      <4>1. ASSUME k >= 1 PROVE Fps * k >= Fps
        BY <1>1, <3>1, <4>1
      <4>2. QED
        BY <1>1, <2>1, <3>2, <4>1
    <3>4. ~(k <= -1)
      <4>1. ASSUME k <= -1 PROVE Fps * k <= -Fps
        BY <1>1, <3>1, <4>1
      <4>2. QED
        BY <1>1, <2>1, <3>2, <4>1
    <3>5. k = 0
      BY <3>1, <3>3, <3>4
    <3>6. QED
      BY <3>5 DEF k
  <2>4. p = q /\ t = s
    BY <1>1, <1>3, <2>1, <2>3
  <2>5. QED
    BY <2>4 DEF p, t
<1> DEFINE q == x \div Fps
           s == x % Fps
<1>4. q \in Nat /\ s \in 0 .. Fps - 1 /\ x = Fps * q + s
  BY <1>2
<1> HIDE DEF q, s
<1>5. ASSUME s + r >= Fps
      PROVE  (x + r) % Fps = s + r - Fps /\ (x + r) \div Fps = q + 1
  <2>1. x + r = Fps * (q + 1) + (s + r - Fps)
    <3>1. Fps * (q + 1) = Fps * q + Fps /\ Fps * q \in Int
      BY <1>1, <1>4
    <3>2. QED
      BY <1>1, <1>4, <3>1
  <2>2. x + r \in Nat /\ q + 1 \in Int /\ s + r - Fps \in 0 .. Fps - 1
    <3>1. s \in Int /\ r \in Int /\ 0 <= s /\ s < Fps /\ 0 <= r /\ r < Fps
      BY <1>1, <1>4
    <3>2. QED
      BY <1>1, <1>4, <1>5, <3>1
  <2>3. QED
    BY <2>1, <2>2, <1>3
<1>6. ASSUME s + r < Fps
      PROVE  (x + r) % Fps = s + r /\ (x + r) \div Fps = q
  <2>1. x + r = Fps * q + (s + r)
    BY <1>1, <1>4
  <2>2. x + r \in Nat /\ q \in Int /\ s + r \in 0 .. Fps - 1
    BY <1>1, <1>4, <1>6
  <2>3. QED
    BY <2>1, <2>2, <1>3
<1>7. QED
  BY <1>4, <1>5, <1>6 DEF q, s
\* One frame more.
Longer(r) ==
    LET Rem == Rate % Fps
        Base == Rate \div Fps
        s == r.curr + Rem
    IN IF s >= Fps THEN [curr |-> s - Fps, total |-> r.total + Base + 1]
                   ELSE [curr |-> s, total |-> r.total + Base]

\* The function that Frames defines by recursion exists: division gives one.
LEMMA FramesUnfold ==
    ASSUME NEW c \in 0 .. Fps - 1
    PROVE  \A i \in 0 .. NFrames :
               Frames(c)[i] = IF i = 0 THEN [curr |-> c, total |-> 0]
                              ELSE Longer(Frames(c)[i - 1])
<1> DEFINE Rem == Rate % Fps
           Base == Rate \div Fps
           Body(g) == [i \in 0 .. NFrames |->
                         IF i = 0 THEN [curr |-> c, total |-> 0] ELSE Longer(g[i - 1])]
           G == [i \in 0 .. NFrames |->
                   [curr  |-> (c + i * Rem) % Fps,
                    total |-> i * Base + ((c + i * Rem) \div Fps)]]
<1>1. /\ Fps \in Nat /\ Fps > 0 /\ Rate \in Nat /\ NFrames \in Nat
      /\ Rem \in 0 .. Fps - 1 /\ Base \in Nat
  BY RateAssumption, FramesAssumption, DivStep
<1>2. Frames(c) = CHOOSE g : g = Body(g)
  BY DEF Frames, Longer
<1>3. G = Body(G)
  <2> HIDE DEF Rem, Base
  <2>1. ASSUME NEW i \in 0 .. NFrames PROVE G[i] = Body(G)[i]
    <3>1. CASE i = 0
      <4>1. (c + i * Rem) = c /\ i * Base = 0
        BY <1>1, <3>1
      <4>2. c % Fps = c /\ c \div Fps = 0
        BY <1>1
      <4>3. G[i] = [curr |-> c, total |-> 0]
        BY <1>1, <4>1, <4>2
      <4>4. QED
        BY <3>1, <4>3
    <3>2. CASE i # 0
      <4> DEFINE x == c + (i - 1) * Rem
      <4>1. x \in Nat /\ c + i * Rem = x + Rem /\ i - 1 \in 0 .. NFrames
            /\ (i - 1) * Base \in Nat /\ i * Base = (i - 1) * Base + Base
        BY <1>1, <3>2
      <4>2. G[i - 1] = [curr |-> x % Fps, total |-> (i - 1) * Base + (x \div Fps)]
        BY <4>1
      <4>3. G[i] = [curr |-> (x + Rem) % Fps, total |-> i * Base + ((x + Rem) \div Fps)]
        BY <4>1
      <4> HIDE DEF x, G
      <4>4. G[i] = Longer(G[i - 1])
        BY <1>1, <4>1, <4>2, <4>3, DivStep DEF Longer, Rem, Base
      <4>5. QED
        BY <3>2, <4>4
    <3>3. QED
      BY <3>1, <3>2
  <2>2. G = [i \in 0 .. NFrames |-> G[i]] /\ Body(G) = [i \in 0 .. NFrames |-> Body(G)[i]]
    OBVIOUS
  <2> HIDE DEF G, Body
  <2>3. QED
    BY <2>1, <2>2
<1> HIDE DEF Body, G
<1>4. Frames(c) = Body(Frames(c))
  BY <1>2, <1>3
<1>5. QED
  BY <1>4 DEF Body

\* The frames of a transfer carry what the rate asks for, up to the remainder
\* that sample_curr keeps (line6_set_playback_frame_lengths).
LEMMA FramesTrackRate ==
    ASSUME NEW c \in 0 .. Fps - 1, NEW n \in 0 .. NFrames
    PROVE  /\ Frames(c)[n].curr \in 0 .. Fps - 1
           /\ Frames(c)[n].total \in Nat
           /\ n * Rate - Fps * Frames(c)[n].total = Frames(c)[n].curr - c
<1> DEFINE F == Frames(c)
           Good(i) == /\ F[i].curr \in 0 .. Fps - 1
                      /\ F[i].total \in Nat
                      /\ i * Rate - Fps * F[i].total = F[i].curr - c
           T == {i \in 0 .. NFrames : ~Good(i)}
<1>1. /\ Fps \in Nat /\ Fps > 0 /\ Rate \in Nat /\ NFrames \in Nat
      /\ Rate % Fps \in 0 .. Fps - 1 /\ Rate \div Fps \in Nat
      /\ Rate = Fps * (Rate \div Fps) + (Rate % Fps)
  BY RateAssumption, FramesAssumption, DivStep
<1>2. F[0] = [curr |-> c, total |-> 0]
      /\ \A i \in 1 .. NFrames : F[i] = Longer(F[i - 1])
  BY <1>1, FramesUnfold
<1> HIDE DEF F
<1>3. Good(0)
  BY <1>1, <1>2
<1>4. ASSUME NEW i \in 1 .. NFrames, Good(i - 1) PROVE Good(i)
  <2> DEFINE k == F[i - 1].curr
             t == F[i - 1].total
             R == Rate % Fps
             B == Rate \div Fps
  <2>1. k \in 0 .. Fps - 1 /\ t \in Nat /\ (i - 1) * Rate - Fps * t = k - c
    BY <1>4
  <2>2. R \in 0 .. Fps - 1 /\ B \in Nat /\ Rate = Fps * B + R
    BY <1>1
  <2>3. F[i] = IF k + R >= Fps THEN [curr |-> k + R - Fps, total |-> t + B + 1]
                               ELSE [curr |-> k + R, total |-> t + B]
    <3>1. F[i] = Longer(F[i - 1])
      BY <1>2
    <3>2. CASE k + R >= Fps
      BY <1>1, <2>1, <2>2, <3>1, <3>2, SMTT(30) DEF Longer
    <3>3. CASE ~(k + R >= Fps)
      BY <1>1, <2>1, <2>2, <3>1, <3>3, SMTT(30) DEF Longer
    <3>4. QED
      BY <3>2, <3>3
  <2> HIDE DEF k, t, R, B
  <2>4. i * Rate = (i - 1) * Rate + Rate /\ (i - 1) * Rate \in Int
    BY <1>1
  <2>5. /\ Fps * (t + B) = Fps * t + Fps * B
        /\ Fps * (t + B + 1) = Fps * t + Fps * B + Fps
        /\ Fps * t \in Int /\ Fps * B \in Int
    BY <1>1, <2>1, <2>2
  <2>6. CASE k + R >= Fps
    <3>1. F[i].curr = k + R - Fps /\ F[i].total = t + B + 1
      BY <2>3, <2>6
    <3>2. i * Rate - Fps * (t + B + 1) = (k + R - Fps) - c
      BY <1>1, <2>1, <2>2, <2>4, <2>5
    <3>3. k + R - Fps \in 0 .. Fps - 1 /\ t + B + 1 \in Nat
      BY <1>1, <2>1, <2>2, <2>6
    <3>4. QED
      BY <3>1, <3>2, <3>3
  <2>7. CASE ~(k + R >= Fps)
    <3>1. F[i].curr = k + R /\ F[i].total = t + B
      BY <2>3, <2>7
    <3>2. i * Rate - Fps * (t + B) = (k + R) - c
      BY <1>1, <2>1, <2>2, <2>4, <2>5
    <3>3. k + R \in 0 .. Fps - 1 /\ t + B \in Nat
      BY <1>1, <2>1, <2>2, <2>7
    <3>4. QED
      BY <3>1, <3>2, <3>3
  <2>8. QED
    BY <2>6, <2>7
<1> HIDE DEF Good
<1>5. T = {}
  <2>1. SUFFICES ASSUME T # {} PROVE FALSE
    OBVIOUS
  <2>2. PICK i \in T : \A j \in T : i <= j
    <3>1. T \in SUBSET Nat
      BY <1>1
    <3> HIDE DEF T
    <3>2. QED
      BY <2>1, <3>1, LeastNat
  <2>3. i \in 1 .. NFrames /\ i - 1 \notin T
    BY <1>1, <1>3, <2>2
  <2>4. Good(i - 1)
    BY <1>1, <2>3
  <2>5. QED
    BY <1>4, <2>2, <2>3, <2>4
<1>6. QED
  BY <1>5 DEF Good, F

-----------------------------------------------------------------------------
(* Every device                                                            *)

\* What the remainder of the frames sent so far says of their samples.
ClockInv == curr \in [Dirs -> 0 .. Fps - 1] /\ drift = curr

\* What a trigger was asked for; the streams that are active are those that
\* were armed and have not been stopped.
Asked ==
    /\ pc \in [Dirs -> Labels]
    /\ todo \in [Dirs -> {"start", "stop", "fail"}]
    /\ chan \in [Dirs -> {"stopped", "started", "failed"}]
    /\ alt \in {"zero", "audio"} /\ active \in SUBSET Dirs
    /\ drv # "up" => \A d \in Dirs : pc[d] = "idle"
    /\ \A d \in Dirs :
          /\ pc[d] = "locked" =>
                (todo[d] = "start" <=> chan[d] = "stopped") /\ todo[d] # "fail"
          /\ pc[d] \in {"s_alt", "s_setup", "s_arm", "s_helper"} => todo[d] = "start"
          /\ pc[d] \in {"s_fail", "s_zero"} => todo[d] = "fail"
          /\ pc[d] \in {"t_stop", "t_unsetup", "t_alt", "t_zero", "t_helper"} =>
                todo[d] = "stop"
          /\ pc[d] \in {"h_test", "h_setup", "h_arm", "k_stop", "k_unsetup"} =>
                todo[d] # "fail"
          /\ d \in active <=>
                \/ pc[d] \in {"idle", "t_stop"} /\ chan[d] = "started"
                \/ pc[d] = "locked" /\ todo[d] = "stop" /\ chan[d] = "started"
                \/ pc[d] = "s_helper"
                \/ /\ pc[d] \in {"return", "h_test", "h_setup", "h_arm", "k_stop",
                                  "k_unsetup"}
                   /\ todo[d] = "start"

\* One trigger at a time.
Serial == \E d \in Dirs : pc[Other(d)] = "idle"

\* Without overlap the bandwidth is held while a stream is active or about to
\* be, and nobody asks to release it then.
Held ==
    ~setting.overlap =>
        /\ Serial
        /\ \A d \in Dirs : pc[d] \in {"s_zero", "t_zero"} => active = {}
        /\ drv # "gone" =>
              /\ active # {} => alt = "audio"
              /\ \A d \in Dirs : pc[d] = "s_arm" => alt = "audio"

\* The bandwidth that is not released yet has a stream that is active, or a
\* trigger that will make one active or ask for the release.
Awaited ==
    \/ active # {}
    \/ \E d \in Dirs :
          pc[d] \in {"s_setup", "s_arm", "t_unsetup", "t_alt", "t_zero"}

Released ==
    /\ ~setting.faults /\ ~setting.toneport /\ drv # "gone" /\ alt = "audio" => Awaited
    /\ ~setting.faults /\ drv = "gone" => alt = "zero"

-----------------------------------------------------------------------------
(* A TonePort that is used as sound(4) uses it                             *)

Tone == setting.toneport /\ ~setting.overlap /\ ~setting.takeover

\* The helper and the application do not play at the same time.
Away ==
    /\ drv \in {"up", "d_helper", "d_stop", "d_play", "d_rec", "d_alt", "gone"}
    /\ helper =>
          /\ "play" \notin active
          /\ pc["play"] \notin {"s_alt", "s_setup", "s_arm", "s_helper"}
          /\ pc["play"] = "locked" => todo["play"] = "stop"
    /\ drv \notin {"up", "d_helper"} => ~helper
    /\ drv = "d_helper" => helper
    /\ \A d \in Dirs :
          /\ pc[d] = "h_test" => "play" \notin active
          /\ pc[d] \in {"h_setup", "h_arm"} => "play" \notin active /\ ~helper
          /\ pc[d] \in {"k_stop", "k_unsetup"} => d = "rec" /\ helper /\ todo[d] = "stop"

\* What may point to transfers, the helper and the trigger that sets it up
\* included.
ToneHolds(d) ==
    \/ d \in active \/ pc[d] \in {"s_arm", "t_unsetup"}
    \/ d = "play" /\ (helper \/ \E e \in Dirs : pc[e] = "h_arm")

TonePointed ==
    /\ \A d \in Dirs : xfer[d] # NoGroup => xfer[d][1] = d
    /\ \A g \in Groups : g \in live <=> \E d \in Dirs : xfer[d] = g
    /\ cb = Idle \/ (cb.g \in live /\ cb.at \in {"elapsed", "resubmit"})
    /\ \A d \in Dirs : ~ToneHolds(d) => xfer[d] = NoGroup
    /\ drv \in {"d_rec", "d_alt", "gone"} => xfer["play"] = NoGroup
    /\ drv \in {"d_alt", "gone"} => xfer["rec"] = NoGroup

\* Without failures no channel fails, ...
NoFailure ==
    ~setting.faults =>
        \A d \in Dirs :
            /\ chan[d] # "failed" /\ todo[d] # "fail"
            /\ pc[d] = "t_stop" => chan[d] = "started"
            /\ pc[d] = "s_setup" => alt = "audio"

\* ... and the helper plays exactly when capture is alone, except while a
\* trigger is about to see to it.
Balanced ==
    ~setting.faults /\ drv = "up" =>
        /\ pc["rec"] \in {"s_helper", "h_test", "h_setup", "h_arm"} => ~helper
        /\ pc["rec"] \in {"t_unsetup", "t_alt", "t_zero", "t_helper"} =>
              (helper <=> "play" \notin active)
        /\ pc["play"] \in {"s_helper", "t_unsetup", "t_alt", "t_zero", "t_helper",
                           "h_test", "h_setup", "h_arm"} => ~helper
        /\ \A d \in Dirs : pc[d] \in {"h_test", "h_setup", "h_arm"} =>
              "rec" \in active /\ "play" \notin active
        /\ (\A d \in Dirs : pc[d] \in {"idle", "locked", "return", "s_alt", "s_setup",
                                       "s_fail", "s_zero", "s_arm", "t_stop"}) =>
              (helper <=> "rec" \in active /\ "play" \notin active)

\* Whoever plays or captures does so with all transfers.
ToneBusy ==
    /\ \A d \in Dirs : pc[d] = "s_arm" => xfer[d] \in live /\ Quiescent(xfer[d])
    /\ \A d \in Dirs :
          pc[d] = "h_arm" => xfer["play"] \in live /\ Quiescent(xfer["play"])
    /\ \A d \in active : drv \in {"up", "d_helper", "d_stop"} => Streams(d, "pcm")
    /\ ~setting.faults /\ helper /\ drv = "up" /\ pc["rec"] # "k_unsetup" =>
          Streams("play", "silence")

-----------------------------------------------------------------------------
\* The frame lengths of a transfer move both clocks by the same amount.
LEMMA LengthsNext ==
    ASSUME ClockInv, NEW d \in Dirs, NEW n \in 0 .. NFrames, SetFrameLengths(d, n)
    PROVE  ClockInv'
<1> DEFINE f == Frames(curr[d])[n]
<1>1. curr[d] \in 0 .. Fps - 1 /\ drift[d] = curr[d]
  BY DEF ClockInv
<1>2. f.curr \in 0 .. Fps - 1 /\ n * Rate - Fps * f.total = f.curr - curr[d]
      /\ f.total \in Nat
  BY <1>1, FramesTrackRate
<1>3. curr' = [curr EXCEPT ![d] = f.curr]
      /\ drift' = [drift EXCEPT ![d] = drift[d] + n * Rate - Fps * f.total]
  BY DEF SetFrameLengths
<1> HIDE DEF f
<1>4. drift[d] + n * Rate - Fps * f.total = f.curr
  <2>1. Fps \in Nat /\ n * Rate \in Int /\ Fps * f.total \in Int
    BY <1>2, RateAssumption
  <2>2. QED
    BY <1>1, <1>2, <2>1
<1>5. QED
  BY <1>2, <1>3, <1>4 DEF ClockInv

LEMMA ClockNext == ASSUME ClockInv, UsbTypes, [Next]_vars PROVE ClockInv'
<1> USE DEF app, device, stream, usb, clock
<1>1. NFrames \in 0 .. NFrames /\ 1 \in 0 .. NFrames /\ 0 \in 0 .. Fps - 1
      /\ \A g \in Groups : g[1] \in Dirs
  BY FramesAssumption, RateAssumption, GroupFacts
<1>2. ASSUME UNCHANGED clock PROVE ClockInv'
  BY <1>2 DEF ClockInv
<1>3. ASSUME NEW d \in Dirs, BeginTrigger(d) \/ TriggerStep(d) PROVE ClockInv'
  <2>1. CASE Arm(d) \/ ArmHelper(d)
    BY <1>1, <2>1 DEF Arm, ArmHelper, ClockInv
  <2>2. CASE UNCHANGED clock
    BY <1>2, <2>2
  <2>3. QED
    BY <1>3, <2>1, <2>2 DEF TriggerStep, BeginTrigger, ReleaseChannel, Return, SetAlt,
       TransferSetup, SetupFailed, TestActive, ReleaseAlt, CheckHelper, StopStream, UnsetupStream,
       ZeroAlt, SwitchHelper, TestHelper, SetupHelper, HelperFailed, StopHelper,
       UnsetupHelper
<1>4. ASSUME NEW g \in Groups, PlayCallback(g) \/ RecCallback(g) \/ ErrorCallback(g)
      PROVE  ClockInv'
  <2>1. UNCHANGED clock \/ \E d \in Dirs, n \in 0 .. NFrames : SetFrameLengths(d, n)
    BY <1>1, <1>4 DEF PlayCallback, RecCallback, ErrorCallback, Dirs
  <2>2. QED
    BY <1>2, <2>1, LengthsNext
<1>5. CASE Elapsed
  BY <1>2, <1>5 DEF Elapsed
<1>6. CASE Resubmit
  <2>1. UNCHANGED clock \/ SetFrameLengths("rec", NFrames)
    BY <1>6 DEF Resubmit
  <2>2. "rec" \in Dirs
    BY DEF Dirs
  <2>3. QED
    BY <1>1, <1>2, <2>1, <2>2, LengthsNext
<1>7. CASE Detach \/ UNCHANGED vars
  BY <1>2, <1>7 DEF Detach, DetachHelper, DetachHelperGone, DetachStop, DetachUnsetup,
                    DetachAlt, vars
<1>8. QED
  BY <1>3, <1>4, <1>5, <1>6, <1>7 DEF Next, Callback

\* The frame lengths of every device follow the sample rate without a drift,
\* whatever the rate and the number of frames, across starts, transient errors
\* and helpers: after n frames the samples are n * Rate / Fps, rounded down
\* (line6_set_playback_frame_lengths, line6_set_capture_frame_lengths).
THEOREM NeverDrifts == Spec => []NoDrift
<1>1. Init => ClockInv /\ UsbTypes
  BY RateAssumption DEF Init, ClockInv, UsbTypes
<1>2. ClockInv /\ UsbTypes /\ [Next]_vars => ClockInv' /\ UsbTypes'
  BY ClockNext, UsbTypesNext
<1>3. ClockInv => NoDrift
  BY DEF ClockInv, NoDrift
<1>4. QED
  BY <1>1, <1>2, <1>3, PTL DEF Spec

\* Only the callback of a stream that runs submits.
LEMMA SubmitsRunning ==
    ASSUME UsbTypes, [Next]_vars, NEW g \in Groups, sub'[g] > sub[g]
    PROVE  running[g[1]]
<1> USE DEF app, device, stream, usb, clock, UsbTypes
<1>1. sub[g] \in Nat
  OBVIOUS
<1>2. ASSUME UNCHANGED sub PROVE FALSE
  BY <1>1, <1>2
<1>3. ASSUME NEW S, Cancel(S) PROVE FALSE
  BY <1>1, <1>3 DEF Cancel
<1>4. ASSUME NEW d, NEW h, Setup(d, h) PROVE FALSE
  BY <1>1, <1>4 DEF Setup
<1>5. ASSUME NEW h \in Groups, NEW first, Complete(h, first, 0) PROVE FALSE
  BY <1>1, <1>5 DEF Complete
<1>6. ASSUME NEW h \in Groups, NEW first, Complete(h, first, 1) PROVE h = g
  BY <1>1, <1>6 DEF Complete
<1>7. ASSUME NEW d \in Dirs, BeginTrigger(d) \/ TriggerStep(d) PROVE FALSE
  <2>1. CASE TransferSetup(d) \/ SetupHelper(d)
    BY <1>4, <2>1 DEF TransferSetup, SetupHelper
  <2>2. CASE StopStream(d) \/ UnsetupStream(d) \/ StopHelper(d) \/ UnsetupHelper(d)
    BY <1>3, <2>2 DEF StopStream, UnsetupStream, StopHelper, UnsetupHelper, Unsetup
  <2>3. CASE UNCHANGED sub
    BY <1>2, <2>3
  <2>4. QED
    BY <1>7, <2>1, <2>2, <2>3 DEF TriggerStep, BeginTrigger, ReleaseChannel, Return,
       SetAlt, SetupFailed, TestActive, ReleaseAlt, Arm, CheckHelper, ZeroAlt, SwitchHelper,
       TestHelper, HelperFailed, ArmHelper
<1>8. ASSUME NEW h \in Groups, PlayCallback(h) PROVE running[g[1]]
  BY <1>5, <1>6, <1>8 DEF PlayCallback
<1>9. ASSUME NEW h \in Groups, RecCallback(h) PROVE running[g[1]]
  <2>1. CASE running["rec"]
    <3>1. h = g /\ h[1] = "rec"
      BY <1>5, <1>6, <1>9 DEF RecCallback, Groups, Dirs, PlayCallback
    <3>2. QED
      BY <2>1, <3>1
  <2>2. CASE ~running["rec"]
    BY <1>5, <1>9, <2>2 DEF RecCallback
  <2>3. QED
    BY <2>1, <2>2
<1>10. ASSUME NEW h \in Groups, ErrorCallback(h) PROVE FALSE
  BY <1>2, <1>5, <1>10 DEF ErrorCallback
<1>11. CASE Elapsed
  BY <1>2, <1>11 DEF Elapsed
<1>12. CASE Resubmit
  BY <1>1, <1>2, <1>12 DEF Resubmit
<1>13. CASE Detach
  <2>1. CASE UNCHANGED sub
    BY <1>2, <2>1
  <2>2. CASE \E S : Cancel(S)
    BY <1>3, <2>2
  <2>3. QED
    BY <1>13, <2>1, <2>2 DEF Detach, DetachHelper, DetachHelperGone, DetachStop,
       DetachUnsetup, DetachAlt, Unsetup
<1>14. CASE UNCHANGED vars
  BY <1>2, <1>14 DEF vars
<1>15. QED
  BY <1>7, <1>8, <1>9, <1>10, <1>11, <1>12, <1>13, <1>14 DEF Next, Callback

\* No step of any device submits a transfer of a stream that has been stopped,
\* although a callback lets sc_lock go while it tells the OSS layer and has its
\* transfer submitted only afterwards (line6_play_callback, line6_rec_callback).
THEOREM NeverSubmitsLate == Spec => NoLateSubmit
<1>1. Init => UsbTypes
  BY DEF Init, UsbTypes
<1>2. UsbTypes /\ [Next]_vars => UsbTypes'
  BY UsbTypesNext
<1>3. UsbTypes /\ [Next]_vars
      => [\A g \in Groups : sub'[g] > sub[g] => running[g[1]]]_vars
  BY SubmitsRunning
<1>4. QED
  BY <1>1, <1>2, <1>3, PTL DEF Spec, NoLateSubmit

-----------------------------------------------------------------------------
\* The callbacks leave the triggers and the device alone.
LEMMA CallbackFrame ==
    ASSUME Callback
    PROVE  UNCHANGED <<setting, pc, todo, chan, alt, active, helper, drv, running, ring,
                       pcm, xfer, live>>
<1> USE DEF app, device, stream, usb, clock
<1>1. CASE \E g \in Groups : PlayCallback(g)
  BY <1>1 DEF PlayCallback
<1>2. CASE \E g \in Groups : RecCallback(g)
  BY <1>2 DEF RecCallback
<1>3. CASE \E g \in Groups : ErrorCallback(g)
  BY <1>3 DEF ErrorCallback
<1>4. CASE Elapsed
  BY <1>4 DEF Elapsed
<1>5. CASE Resubmit
  BY <1>5 DEF Resubmit
<1>6. QED
  BY <1>1, <1>2, <1>3, <1>4, <1>5 DEF Callback

\* The device and its use stay what they are.
LEMMA SettingStays == ASSUME [Next]_vars PROVE setting' = setting
<1> USE DEF app, device, stream, usb, clock
<1>1. CASE \E d \in Dirs : BeginTrigger(d) \/ TriggerStep(d)
  BY <1>1 DEF BeginTrigger, TriggerStep, ReleaseChannel, Return, SetAlt, TransferSetup,
     SetupFailed, TestActive, ReleaseAlt, Arm, CheckHelper, StopStream, UnsetupStream, ZeroAlt,
     SwitchHelper, TestHelper, SetupHelper, HelperFailed, ArmHelper, StopHelper,
     UnsetupHelper
<1>2. CASE Callback
  BY <1>2, CallbackFrame
<1>3. CASE Detach
  BY <1>3 DEF Detach, DetachHelper, DetachHelperGone, DetachStop, DetachUnsetup, DetachAlt
<1>4. CASE UNCHANGED vars
  BY <1>4 DEF vars
<1>5. QED
  BY <1>1, <1>2, <1>3, <1>4 DEF Next

\* Each step of a trigger leads from one of its phases to the next.
LEMMA AskedNext == ASSUME Asked, [Next]_vars PROVE Asked'
<1> USE DEF app, device, stream, usb, clock, Goto, Asked, Labels
<1>1. ASSUME NEW d \in Dirs, BeginTrigger(d) \/ ReleaseChannel(d) PROVE Asked'
  BY <1>1 DEF BeginTrigger, ReleaseChannel
<1>2. ASSUME NEW d \in Dirs, Return(d) \/ SetAlt(d) \/ TransferSetup(d) PROVE Asked'
  BY <1>2 DEF Return, SetAlt, TransferSetup
<1>3. ASSUME NEW d \in Dirs, SetupFailed(d) \/ ReleaseAlt(d) \/ TestActive(d)
      PROVE  Asked'
  BY <1>3 DEF SetupFailed, ReleaseAlt, TestActive, RequestZero
<1>4. ASSUME NEW d \in Dirs, Arm(d) \/ CheckHelper(d) PROVE Asked'
  BY <1>4 DEF Arm, CheckHelper
<1>5. ASSUME NEW d \in Dirs, StopStream(d) \/ UnsetupStream(d) PROVE Asked'
  BY <1>5 DEF StopStream, UnsetupStream
<1>6. ASSUME NEW d \in Dirs, ZeroAlt(d) \/ SwitchHelper(d) PROVE Asked'
  BY <1>6 DEF ZeroAlt, RequestZero, SwitchHelper
<1>7. ASSUME NEW d \in Dirs, TestHelper(d) \/ SetupHelper(d) PROVE Asked'
  BY <1>7 DEF TestHelper, SetupHelper
<1>8. ASSUME NEW d \in Dirs, HelperFailed(d) \/ ArmHelper(d) PROVE Asked'
  BY <1>8 DEF HelperFailed, ArmHelper
<1>9. ASSUME NEW d \in Dirs, StopHelper(d) \/ UnsetupHelper(d) PROVE Asked'
  BY <1>9 DEF StopHelper, UnsetupHelper
<1>10. CASE Callback
  <2>1. UNCHANGED <<setting, pc, todo, chan, alt, active, drv>>
    BY <1>10, CallbackFrame
  <2>2. QED
    BY <2>1
<1>11. CASE Detach
  BY <1>11 DEF Detach, DetachHelper, DetachHelperGone, DetachStop, DetachUnsetup, DetachAlt,
     RequestZero
<1>12. CASE UNCHANGED vars
  BY <1>12 DEF vars
<1>13. QED
  BY <1>1, <1>2, <1>3, <1>4, <1>5, <1>6, <1>7, <1>8, <1>9, <1>10, <1>11, <1>12
     DEF Next, TriggerStep

\* Without overlap the alternate setting is changed by one trigger at a time.
LEMMA HeldNext == ASSUME Asked, Held, [Next]_vars PROVE Held'
<1> USE DEF app, device, stream, usb, clock, Goto, Asked, Held, Serial, Dirs, Other
<1>1. ASSUME NEW d \in Dirs, BeginTrigger(d) \/ ReleaseChannel(d) PROVE Held'
  BY <1>1 DEF BeginTrigger, ReleaseChannel
<1>2. ASSUME NEW d \in Dirs, Return(d) \/ SetAlt(d) PROVE Held'
  BY <1>2 DEF Return, SetAlt
<1>3. ASSUME NEW d \in Dirs, TransferSetup(d) \/ SetupFailed(d) PROVE Held'
  BY <1>3 DEF TransferSetup, Setup, SetupFailed
<1>4. ASSUME NEW d \in Dirs, ReleaseAlt(d) \/ ZeroAlt(d) \/ TestActive(d)
      PROVE  Held'
  <2>1. CASE TestActive(d)
    BY <2>1 DEF TestActive
  <2>2. CASE ReleaseAlt(d)
    BY <2>2 DEF ReleaseAlt, RequestZero
  <2>3. CASE ZeroAlt(d)
    BY <2>3 DEF ZeroAlt, RequestZero
  <2>4. QED
    BY <1>4, <2>1, <2>2, <2>3
<1>5. ASSUME NEW d \in Dirs, Arm(d) PROVE Held'
  BY <1>5 DEF Arm
<1>6. ASSUME NEW d \in Dirs, StopStream(d) \/ UnsetupStream(d) PROVE Held'
  BY <1>6 DEF StopStream, UnsetupStream
<1>7. ASSUME NEW d \in Dirs, CheckHelper(d) \/ SwitchHelper(d) \/ TestHelper(d) PROVE Held'
  BY <1>7 DEF CheckHelper, SwitchHelper, TestHelper
<1>8. ASSUME NEW d \in Dirs, SetupHelper(d) \/ HelperFailed(d) \/ ArmHelper(d) PROVE Held'
  BY <1>8 DEF SetupHelper, HelperFailed, ArmHelper
<1>9. ASSUME NEW d \in Dirs, StopHelper(d) \/ UnsetupHelper(d) PROVE Held'
  BY <1>9 DEF StopHelper, UnsetupHelper
<1>10. CASE Callback
  <2>1. UNCHANGED <<setting, pc, todo, chan, alt, active, drv>>
    BY <1>10, CallbackFrame
  <2>2. QED
    BY <2>1
<1>11. CASE Detach
  BY <1>11 DEF Detach, DetachHelper, DetachHelperGone, DetachStop, DetachUnsetup, DetachAlt,
     RequestZero
<1>12. CASE UNCHANGED vars
  BY <1>12 DEF vars
<1>13. QED
  BY <1>1, <1>2, <1>3, <1>4, <1>5, <1>6, <1>7, <1>8, <1>9, <1>10, <1>11, <1>12
     DEF Next, TriggerStep

LEMMA AskedInit == Init => Asked /\ Held
BY DEF Init, Asked, Held, Serial, Labels, Dirs, Other

-----------------------------------------------------------------------------
\* The application starts to play only without the helper, and the helper is
\* started only when nothing plays.
LEMMA AwayNext ==
    ASSUME Tone, Asked, Serial, Away, [Next]_vars
    PROVE  Away'
<1> USE DEF app, device, stream, usb, clock, Goto, Dirs, Other, Serial, Tone, Asked, Labels, Away
<1>1. ASSUME NEW d \in Dirs, BeginTrigger(d) \/ ReleaseChannel(d) PROVE Away'
  BY <1>1 DEF BeginTrigger, ReleaseChannel
<1>2. ASSUME NEW d \in Dirs, Return(d) \/ SetAlt(d) PROVE Away'
  BY <1>2 DEF Return, SetAlt
<1>3. ASSUME NEW d \in Dirs, TransferSetup(d) PROVE Away'
  BY <1>3 DEF TransferSetup
<1>4. ASSUME NEW d \in Dirs, SetupFailed(d) \/ ReleaseAlt(d) \/ TestActive(d)
      PROVE  Away'
  BY <1>4 DEF SetupFailed, ReleaseAlt, TestActive
<1>5. ASSUME NEW d \in Dirs, Arm(d) PROVE Away'
  BY <1>5 DEF Arm
<1>6. ASSUME NEW d \in Dirs, CheckHelper(d) PROVE Away'
  BY <1>6 DEF CheckHelper
<1>7. ASSUME NEW d \in Dirs, StopStream(d) PROVE Away'
  BY <1>7 DEF StopStream
<1>8. ASSUME NEW d \in Dirs, UnsetupStream(d) PROVE Away'
  BY <1>8 DEF UnsetupStream
<1>9. ASSUME NEW d \in Dirs, ZeroAlt(d) PROVE Away'
  BY <1>9 DEF ZeroAlt
<1>10. ASSUME NEW d \in Dirs, SwitchHelper(d) PROVE Away'
  BY <1>10 DEF SwitchHelper
<1>11. ASSUME NEW d \in Dirs, TestHelper(d) PROVE Away'
  BY <1>11 DEF TestHelper
<1>12. ASSUME NEW d \in Dirs, SetupHelper(d) PROVE Away'
  BY <1>12 DEF SetupHelper
<1>13. ASSUME NEW d \in Dirs, HelperFailed(d) PROVE Away'
  BY <1>13 DEF HelperFailed
<1>14. ASSUME NEW d \in Dirs, ArmHelper(d) PROVE Away'
  BY <1>14 DEF ArmHelper
<1>15. ASSUME NEW d \in Dirs, StopHelper(d) PROVE Away'
  BY <1>15 DEF StopHelper
<1>16. ASSUME NEW d \in Dirs, UnsetupHelper(d) PROVE Away'
  BY <1>16 DEF UnsetupHelper
<1>17. CASE Callback
  <2>1. UNCHANGED <<setting, pc, todo, chan, alt, active, helper, drv, running, ring,
                   pcm, xfer, live>>
    BY <1>17, CallbackFrame
  <2>2. QED
    BY <2>1
<1>18. CASE DetachHelper
  BY <1>18 DEF DetachHelper
<1>19. CASE DetachHelperGone
  BY <1>19 DEF DetachHelperGone
<1>20. CASE DetachStop
  BY <1>20 DEF DetachStop
<1>21. CASE DetachUnsetup
  BY <1>21 DEF DetachUnsetup
<1>22. CASE DetachAlt
  BY <1>22 DEF DetachAlt
<1>23. CASE UNCHANGED vars
  BY <1>23 DEF vars
<1>24. QED
  BY <1>1, <1>2, <1>3, <1>4, <1>5, <1>6, <1>7, <1>8, <1>9, <1>10, <1>11, <1>12,
     <1>13, <1>14, <1>15, <1>16, <1>17, <1>18, <1>19, <1>20, <1>21, <1>22, <1>23
     DEF Next, TriggerStep, Detach

\* So the stream of playback is set up for one of them at a time.
LEMMA TonePointedNext ==
    ASSUME Tone, Asked, Serial, Away, UsbTypes, TonePointed, [Next]_vars
    PROVE  TonePointed'
<1> USE GroupFacts DEF app, device, stream, usb, clock, Goto, Dirs, Other, Serial, Tone, Asked, Labels, Away, UsbTypes, TonePointed, ToneHolds
<1>1. ASSUME NEW d \in Dirs, BeginTrigger(d) \/ ReleaseChannel(d) PROVE TonePointed'
  BY <1>1 DEF BeginTrigger, ReleaseChannel
<1>2. ASSUME NEW d \in Dirs, Return(d) \/ SetAlt(d) PROVE TonePointed'
  BY <1>2 DEF Return, SetAlt
<1>3. ASSUME NEW d \in Dirs, TransferSetup(d) PROVE TonePointed'
  BY <1>3 DEF TransferSetup, Setup
<1>4. ASSUME NEW d \in Dirs, SetupFailed(d) \/ ReleaseAlt(d) \/ TestActive(d)
      PROVE  TonePointed'
  BY <1>4 DEF SetupFailed, ReleaseAlt, TestActive
<1>5. ASSUME NEW d \in Dirs, Arm(d) PROVE TonePointed'
  BY <1>5 DEF Arm
<1>6. ASSUME NEW d \in Dirs, CheckHelper(d) PROVE TonePointed'
  BY <1>6 DEF CheckHelper
<1>7. ASSUME NEW d \in Dirs, StopStream(d) PROVE TonePointed'
  BY <1>7 DEF StopStream
<1>8. ASSUME NEW d \in Dirs, UnsetupStream(d) PROVE TonePointed'
  BY <1>8 DEF UnsetupStream, Unsetup
<1>9. ASSUME NEW d \in Dirs, ZeroAlt(d) PROVE TonePointed'
  BY <1>9 DEF ZeroAlt
<1>10. ASSUME NEW d \in Dirs, SwitchHelper(d) PROVE TonePointed'
  BY <1>10 DEF SwitchHelper
<1>11. ASSUME NEW d \in Dirs, TestHelper(d) PROVE TonePointed'
  BY <1>11 DEF TestHelper
<1>12. ASSUME NEW d \in Dirs, SetupHelper(d) PROVE TonePointed'
  BY <1>12 DEF SetupHelper, Setup
<1>13. ASSUME NEW d \in Dirs, HelperFailed(d) PROVE TonePointed'
  BY <1>13 DEF HelperFailed
<1>14. ASSUME NEW d \in Dirs, ArmHelper(d) PROVE TonePointed'
  BY <1>14 DEF ArmHelper
<1>15. ASSUME NEW d \in Dirs, StopHelper(d) PROVE TonePointed'
  BY <1>15 DEF StopHelper
<1>16. ASSUME NEW d \in Dirs, UnsetupHelper(d) PROVE TonePointed'
  BY <1>16 DEF UnsetupHelper, Unsetup
<1>17. CASE Callback
  <2>1. UNCHANGED <<setting, pc, todo, chan, alt, active, helper, drv, running, ring,
                   pcm, xfer, live>>
    BY <1>17, CallbackFrame
  <2>2. cb' = Idle \/ (cb'.g \in live /\ cb'.at \in {"elapsed", "resubmit"})
    <3>1. CASE \E g \in Groups : PlayCallback(g)
      BY <3>1 DEF PlayCallback
    <3>2. CASE \E g \in Groups : RecCallback(g)
      BY <3>2 DEF RecCallback
    <3>3. CASE \E g \in Groups : ErrorCallback(g)
      BY <3>3 DEF ErrorCallback
    <3>4. CASE Elapsed
      BY <3>4 DEF Elapsed
    <3>5. CASE Resubmit
      BY <3>5 DEF Resubmit
    <3>6. QED
      BY <1>17, <3>1, <3>2, <3>3, <3>4, <3>5 DEF Callback
  <2>3. QED
    BY <2>1, <2>2
<1>18. CASE DetachHelper
  BY <1>18 DEF DetachHelper
<1>19. CASE DetachHelperGone
  BY <1>19 DEF DetachHelperGone, Unsetup
<1>20. CASE DetachStop
  BY <1>20 DEF DetachStop
<1>21. CASE DetachUnsetup
  BY <1>21 DEF DetachUnsetup, Unsetup
<1>22. CASE DetachAlt
  BY <1>22 DEF DetachAlt
<1>23. CASE UNCHANGED vars
  BY <1>23 DEF vars
<1>24. QED
  BY <1>1, <1>2, <1>3, <1>4, <1>5, <1>6, <1>7, <1>8, <1>9, <1>10, <1>11, <1>12,
     <1>13, <1>14, <1>15, <1>16, <1>17, <1>18, <1>19, <1>20, <1>21, <1>22, <1>23
     DEF Next, TriggerStep, Detach

\* Without failures the alternate setting is what a START has made it.
LEMMA NoFailureNext ==
    ASSUME Tone, Asked, Serial, Held, NoFailure, [Next]_vars
    PROVE  NoFailure'
<1> USE DEF app, device, stream, usb, clock, Goto, Dirs, Other, Serial, Tone, Asked, Labels, Held, NoFailure
<1>1. ASSUME NEW d \in Dirs, BeginTrigger(d) \/ ReleaseChannel(d) PROVE NoFailure'
  BY <1>1 DEF BeginTrigger, ReleaseChannel
<1>2. ASSUME NEW d \in Dirs, Return(d) \/ SetAlt(d) PROVE NoFailure'
  BY <1>2 DEF Return, SetAlt
<1>3. ASSUME NEW d \in Dirs, TransferSetup(d) PROVE NoFailure'
  BY <1>3 DEF TransferSetup
<1>4. ASSUME NEW d \in Dirs, SetupFailed(d) \/ ReleaseAlt(d) \/ TestActive(d)
      PROVE  NoFailure'
  BY <1>4 DEF SetupFailed, ReleaseAlt, TestActive
<1>5. ASSUME NEW d \in Dirs, Arm(d) PROVE NoFailure'
  BY <1>5 DEF Arm
<1>6. ASSUME NEW d \in Dirs, CheckHelper(d) PROVE NoFailure'
  BY <1>6 DEF CheckHelper
<1>7. ASSUME NEW d \in Dirs, StopStream(d) PROVE NoFailure'
  BY <1>7 DEF StopStream
<1>8. ASSUME NEW d \in Dirs, UnsetupStream(d) PROVE NoFailure'
  BY <1>8 DEF UnsetupStream
<1>9. ASSUME NEW d \in Dirs, ZeroAlt(d) PROVE NoFailure'
  BY <1>9 DEF ZeroAlt
<1>10. ASSUME NEW d \in Dirs, SwitchHelper(d) PROVE NoFailure'
  BY <1>10 DEF SwitchHelper
<1>11. ASSUME NEW d \in Dirs, TestHelper(d) PROVE NoFailure'
  BY <1>11 DEF TestHelper
<1>12. ASSUME NEW d \in Dirs, SetupHelper(d) PROVE NoFailure'
  BY <1>12 DEF SetupHelper
<1>13. ASSUME NEW d \in Dirs, HelperFailed(d) PROVE NoFailure'
  BY <1>13 DEF HelperFailed
<1>14. ASSUME NEW d \in Dirs, ArmHelper(d) PROVE NoFailure'
  BY <1>14 DEF ArmHelper
<1>15. ASSUME NEW d \in Dirs, StopHelper(d) PROVE NoFailure'
  BY <1>15 DEF StopHelper
<1>16. ASSUME NEW d \in Dirs, UnsetupHelper(d) PROVE NoFailure'
  BY <1>16 DEF UnsetupHelper
<1>17. CASE Callback
  <2>1. UNCHANGED <<setting, pc, todo, chan, alt, active, helper, drv, running, ring,
                   pcm, xfer, live>>
    BY <1>17, CallbackFrame
  <2>2. QED
    BY <2>1
<1>18. CASE DetachHelper
  BY <1>18 DEF DetachHelper
<1>19. CASE DetachHelperGone
  BY <1>19 DEF DetachHelperGone
<1>20. CASE DetachStop
  BY <1>20 DEF DetachStop
<1>21. CASE DetachUnsetup
  BY <1>21 DEF DetachUnsetup
<1>22. CASE DetachAlt
  BY <1>22 DEF DetachAlt
<1>23. CASE UNCHANGED vars
  BY <1>23 DEF vars
<1>24. QED
  BY <1>1, <1>2, <1>3, <1>4, <1>5, <1>6, <1>7, <1>8, <1>9, <1>10, <1>11, <1>12,
     <1>13, <1>14, <1>15, <1>16, <1>17, <1>18, <1>19, <1>20, <1>21, <1>22, <1>23
     DEF Next, TriggerStep, Detach

\* Whoever changes what is active sees to the helper before it returns.
LEMMA BalancedNext ==
    ASSUME Tone, Asked, Serial, Held, Away, NoFailure, Balanced, [Next]_vars
    PROVE  Balanced'
<1> USE DEF app, device, stream, usb, clock, Goto, Dirs, Other, Serial, Tone, Asked, Labels, Held, Away, NoFailure, Balanced
<1>1. ASSUME NEW d \in Dirs, BeginTrigger(d) \/ ReleaseChannel(d) PROVE Balanced'
  BY <1>1 DEF BeginTrigger, ReleaseChannel
<1>2. ASSUME NEW d \in Dirs, Return(d) \/ SetAlt(d) PROVE Balanced'
  BY <1>2 DEF Return, SetAlt
<1>3. ASSUME NEW d \in Dirs, TransferSetup(d) PROVE Balanced'
  BY <1>3 DEF TransferSetup
<1>4. ASSUME NEW d \in Dirs, SetupFailed(d) \/ ReleaseAlt(d) \/ TestActive(d)
      PROVE  Balanced'
  BY <1>4 DEF SetupFailed, ReleaseAlt, TestActive
<1>5. ASSUME NEW d \in Dirs, Arm(d) PROVE Balanced'
  BY <1>5 DEF Arm
<1>6. ASSUME NEW d \in Dirs, CheckHelper(d) PROVE Balanced'
  BY <1>6 DEF CheckHelper
<1>7. ASSUME NEW d \in Dirs, StopStream(d) PROVE Balanced'
  <2>1. /\ pc[d] = "t_stop" /\ pc[Other(d)] = "idle" /\ drv = "up"
        /\ pc' = [pc EXCEPT ![d] = "t_unsetup"] /\ active' = active \ {d}
        /\ UNCHANGED <<setting, helper, drv>>
    BY <1>7 DEF StopStream
  <2>2. CASE setting.faults
    BY <2>1, <2>2
  <2>3. CASE ~setting.faults
    <3>1. helper <=> "rec" \in active /\ "play" \notin active
      BY <2>1, <2>3
    <3>2. pc'[d] = "t_unsetup" /\ pc'[Other(d)] = "idle"
      BY <2>1
    <3>3. d = "play" => ~helper
      BY <2>1, <2>3, <3>1
    <3>4. d = "rec" => (helper <=> "play" \notin active)
      BY <2>1, <2>3, <3>1
    <3> HIDE DEF Asked, Held, Away, NoFailure
    <3>5. CASE d = "play"
      BY <2>1, <3>2, <3>3, <3>5
    <3>6. CASE d = "rec"
      BY <2>1, <3>2, <3>4, <3>6
    <3>7. QED
      BY <3>5, <3>6
  <2>4. QED
    BY <2>2, <2>3
<1>8. ASSUME NEW d \in Dirs, UnsetupStream(d) PROVE Balanced'
  BY <1>8 DEF UnsetupStream
<1>9. ASSUME NEW d \in Dirs, ZeroAlt(d) PROVE Balanced'
  BY <1>9 DEF ZeroAlt
<1>10. ASSUME NEW d \in Dirs, SwitchHelper(d) PROVE Balanced'
  BY <1>10 DEF SwitchHelper
<1>11. ASSUME NEW d \in Dirs, TestHelper(d) PROVE Balanced'
  BY <1>11 DEF TestHelper
<1>12. ASSUME NEW d \in Dirs, SetupHelper(d) PROVE Balanced'
  BY <1>12 DEF SetupHelper
<1>13. ASSUME NEW d \in Dirs, HelperFailed(d) PROVE Balanced'
  BY <1>13 DEF HelperFailed
<1>14. ASSUME NEW d \in Dirs, ArmHelper(d) PROVE Balanced'
  BY <1>14 DEF ArmHelper
<1>15. ASSUME NEW d \in Dirs, StopHelper(d) PROVE Balanced'
  BY <1>15 DEF StopHelper
<1>16. ASSUME NEW d \in Dirs, UnsetupHelper(d) PROVE Balanced'
  BY <1>16 DEF UnsetupHelper
<1>17. CASE Callback
  <2>1. UNCHANGED <<setting, pc, todo, chan, alt, active, helper, drv, running, ring,
                   pcm, xfer, live>>
    BY <1>17, CallbackFrame
  <2>2. QED
    BY <2>1
<1>18. CASE DetachHelper
  BY <1>18 DEF DetachHelper
<1>19. CASE DetachHelperGone
  BY <1>19 DEF DetachHelperGone
<1>20. CASE DetachStop
  BY <1>20 DEF DetachStop
<1>21. CASE DetachUnsetup
  BY <1>21 DEF DetachUnsetup
<1>22. CASE DetachAlt
  BY <1>22 DEF DetachAlt
<1>23. CASE UNCHANGED vars
  BY <1>23 DEF vars
<1>24. QED
  BY <1>1, <1>2, <1>3, <1>4, <1>5, <1>6, <1>7, <1>8, <1>9, <1>10, <1>11, <1>12,
     <1>13, <1>14, <1>15, <1>16, <1>17, <1>18, <1>19, <1>20, <1>21, <1>22, <1>23
     DEF Next, TriggerStep, Detach

\* A callback of a stream that runs hands its transfer from one place to the
\* next, and does nothing to a transfer that is nowhere.
LEMMA CallbackKeeps ==
    ASSUME UsbTypes, Callback, NEW h \in Groups,
           cb = Idle \/ (cb.g \in live /\ cb.at \in {"elapsed", "resubmit"})
    PROVE  /\ Quiescent(h) => Quiescent(h)'
           /\ running[h[1]] /\ ring[h[1]] # "none" => InFlight(h)' = InFlight(h)
<1> USE GroupFacts DEF app, device, stream, usb, clock, UsbTypes, Quiescent, InFlight
<1>1. due[h] \in Nat /\ sub[h] \in Nat /\ Idle.g # h
  OBVIOUS
<1>2. ASSUME NEW g \in Groups, PlayCallback(g)
      PROVE  /\ Quiescent(h) => Quiescent(h)'
             /\ running[h[1]] /\ ring[h[1]] # "none" => InFlight(h)' = InFlight(h)
  <2>1. CASE g = h
    <3>1. PICK first \in BOOLEAN :
            \/ (~running["play"] \/ ring["play"] = "none") /\ Complete(g, first, 0)
               /\ cb' = cb
            \/ ~pcm["play"] /\ Complete(g, first, 1) /\ cb' = cb
            \/ Complete(g, first, 0) /\ cb' = [at |-> "elapsed", g |-> g]
      BY <1>2 DEF PlayCallback
    <3>2. cb = Idle /\ g[1] = "play"
      BY <1>2 DEF PlayCallback
    <3>3. ~(due[g] = 0 /\ sub[g] = 0)
      BY <1>1, <2>1, <3>1 DEF Complete
    <3>4. QED
      BY <1>1, <2>1, <3>1, <3>2, <3>3 DEF Complete
  <2>2. CASE g # h
    BY <1>1, <1>2, <2>2 DEF PlayCallback, Complete
  <2>3. QED
    BY <2>1, <2>2
<1>3. ASSUME NEW g \in Groups, RecCallback(g)
      PROVE  /\ Quiescent(h) => Quiescent(h)'
             /\ running[h[1]] /\ ring[h[1]] # "none" => InFlight(h)' = InFlight(h)
  <2>1. CASE g = h
    BY <1>1, <1>3, <2>1 DEF RecCallback, Complete
  <2>2. CASE g # h
    BY <1>1, <1>3, <2>2 DEF RecCallback, Complete
  <2>3. QED
    BY <2>1, <2>2
<1>4. ASSUME NEW g \in Groups, ErrorCallback(g)
      PROVE  /\ Quiescent(h) => Quiescent(h)'
             /\ running[h[1]] /\ ring[h[1]] # "none" => InFlight(h)' = InFlight(h)
  <2>1. CASE g = h
    BY <1>1, <1>4, <2>1 DEF ErrorCallback, Complete
  <2>2. CASE g # h
    BY <1>1, <1>4, <2>2 DEF ErrorCallback, Complete
  <2>3. QED
    BY <2>1, <2>2
<1>5. CASE Elapsed
  BY <1>1, <1>5 DEF Elapsed
<1>6. CASE Resubmit
  <2>1. cb.g \in Groups /\ cb' = Idle /\ UNCHANGED due
        /\ (cb.g # h => sub'[h] = sub[h])
        /\ (running[cb.g[1]] => sub'[cb.g] = sub[cb.g] + 1)
    BY <1>6 DEF Resubmit
  <2>2. CASE cb.g = h
    BY <1>1, <2>1, <2>2
  <2>3. CASE cb.g # h
    BY <1>1, <2>1, <2>3
  <2>4. QED
    BY <2>2, <2>3
<1>7. QED
  BY <1>2, <1>3, <1>4, <1>5, <1>6 DEF Callback

\* A callback hands a transfer of its stream from one place to the next, and the
\* streams of the application and of the helper are stopped by their own STOP.
LEMMA ToneBusyNext ==
    ASSUME Tone, Asked, Serial, Away, UsbTypes, TonePointed, NoFailure, Balanced,
           ToneBusy, [Next]_vars
    PROVE  ToneBusy'
<1> USE GroupFacts, XfersAssumption DEF app, device, stream, usb, clock, Goto, Dirs, Other, Serial, Tone, Asked, Labels, Away, UsbTypes, TonePointed, ToneHolds,
       NoFailure, Balanced, ToneBusy, Streams, InFlight, Quiescent
<1>1. ASSUME NEW d \in Dirs, BeginTrigger(d) \/ ReleaseChannel(d) PROVE ToneBusy'
  <2>1. CASE BeginTrigger(d)
    BY <2>1 DEF BeginTrigger
  <2>2. CASE ReleaseChannel(d)
    BY <2>2 DEF ReleaseChannel
  <2>3. QED
    BY <1>1, <2>1, <2>2
<1>2. ASSUME NEW d \in Dirs, Return(d) \/ SetAlt(d) PROVE ToneBusy'
  BY <1>2 DEF Return, SetAlt
<1>3. ASSUME NEW d \in Dirs, TransferSetup(d) PROVE ToneBusy'
  BY <1>3 DEF TransferSetup, Setup
<1>4. ASSUME NEW d \in Dirs, SetupFailed(d) \/ ReleaseAlt(d) \/ TestActive(d)
      PROVE  ToneBusy'
  <2>1. CASE SetupFailed(d)
    BY <2>1 DEF SetupFailed
  <2>2. CASE ReleaseAlt(d)
    BY <2>2 DEF ReleaseAlt
  <2>3. CASE TestActive(d)
    <3>1. PICK l \in {"s_zero", "return", "t_zero", "t_helper"} :
            pc' = [pc EXCEPT ![d] = l]
      BY <2>3 DEF TestActive
    <3>2. pc[d] \in {"s_fail", "t_alt"}
      BY <2>3 DEF TestActive
    <3>3. UNCHANGED <<setting, todo, chan, chn, device, stream, usb, clock, cb, drv>>
      BY <2>3 DEF TestActive
    <3>4. QED
      BY <3>1, <3>2, <3>3
  <2>4. QED
    BY <1>4, <2>1, <2>2, <2>3
<1>5. ASSUME NEW d \in Dirs, Arm(d) PROVE ToneBusy'
  <2>1. CASE d = "play"
    BY <1>5, <2>1 DEF Arm, Started
  <2>2. CASE d = "rec"
    BY <1>5, <2>2 DEF Arm, Started
  <2>3. QED
    BY <2>1, <2>2
<1>6. ASSUME NEW d \in Dirs, CheckHelper(d) PROVE ToneBusy'
  BY <1>6 DEF CheckHelper
<1>7. ASSUME NEW d \in Dirs, StopStream(d) PROVE ToneBusy'
  BY <1>7 DEF StopStream, Cancel
<1>8. ASSUME NEW d \in Dirs, UnsetupStream(d) PROVE ToneBusy'
  <2>1. CASE d = "play"
    BY <1>8, <2>1 DEF UnsetupStream, Unsetup, Cancel
  <2>2. CASE d = "rec"
    BY <1>8, <2>2 DEF UnsetupStream, Unsetup, Cancel
  <2>3. QED
    BY <2>1, <2>2
<1>9. ASSUME NEW d \in Dirs, ZeroAlt(d) PROVE ToneBusy'
  BY <1>9 DEF ZeroAlt
<1>10. ASSUME NEW d \in Dirs, SwitchHelper(d) PROVE ToneBusy'
  BY <1>10 DEF SwitchHelper
<1>11. ASSUME NEW d \in Dirs, TestHelper(d) PROVE ToneBusy'
  BY <1>11 DEF TestHelper
<1>12. ASSUME NEW d \in Dirs, SetupHelper(d) PROVE ToneBusy'
  BY <1>12 DEF SetupHelper, Setup
<1>13. ASSUME NEW d \in Dirs, HelperFailed(d) PROVE ToneBusy'
  BY <1>13 DEF HelperFailed
<1>14. ASSUME NEW d \in Dirs, ArmHelper(d) PROVE ToneBusy'
  BY <1>14 DEF ArmHelper, Started
<1>15. ASSUME NEW d \in Dirs, StopHelper(d) PROVE ToneBusy'
  BY <1>15 DEF StopHelper, Cancel
<1>16. ASSUME NEW d \in Dirs, UnsetupHelper(d) PROVE ToneBusy'
  BY <1>16 DEF UnsetupHelper, Unsetup, Cancel
<1>17. CASE Callback
  <2>1. UNCHANGED <<setting, pc, active, helper, drv, running, ring, xfer, live>>
    BY <1>17, CallbackFrame
  <2>2. \A h \in Groups :
          /\ Quiescent(h) => Quiescent(h)'
          /\ running[h[1]] /\ ring[h[1]] # "none" => InFlight(h)' = InFlight(h)
    BY <1>17, CallbackKeeps
  <2>3. ASSUME NEW d \in Dirs, NEW b \in {"pcm", "silence"}, Streams(d, b)
        PROVE  Streams(d, b)'
    <3>1. xfer[d] \in Groups /\ xfer[d][1] = d /\ ring[d] # "none" /\ running[d]
      BY <2>3
    <3> HIDE DEF InFlight
    <3>2. InFlight(xfer[d])' = InFlight(xfer[d])
      BY <2>1, <2>2, <3>1
    <3>3. QED
      BY <2>1, <2>3, <3>2
  <2>4. ASSUME NEW d \in Dirs, xfer[d] \in live, Quiescent(xfer[d])
        PROVE  xfer'[d] \in live' /\ Quiescent(xfer[d])'
    <3> HIDE DEF Quiescent
    <3>1. QED
      BY <2>1, <2>2, <2>4
  <2> HIDE DEF Streams, Quiescent
  <2>5. QED
    BY <2>1, <2>3, <2>4
<1>18. CASE DetachHelper
  BY <1>18 DEF DetachHelper, Cancel
<1>19. CASE DetachHelperGone
  <2>1. /\ xfer["play"] \notin {xfer["rec"]} \/ xfer["play"] = NoGroup
        /\ "play" \notin active
    BY <1>19 DEF DetachHelperGone
  <2>2. QED
    BY <1>19, <2>1 DEF DetachHelperGone, Unsetup, Cancel
<1>20. CASE DetachStop
  BY <1>20 DEF DetachStop, Cancel
<1>21. CASE DetachUnsetup
  BY <1>21 DEF DetachUnsetup, Unsetup, Cancel
<1>22. CASE DetachAlt
  BY <1>22 DEF DetachAlt
<1>23. CASE UNCHANGED vars
  BY <1>23 DEF vars
<1>24. QED
  BY <1>1, <1>2, <1>3, <1>4, <1>5, <1>6, <1>7, <1>8, <1>9, <1>10, <1>11, <1>12,
     <1>13, <1>14, <1>15, <1>16, <1>17, <1>18, <1>19, <1>20, <1>21, <1>22, <1>23
     DEF Next, TriggerStep, Detach

ToneInv ==
    /\ Tone /\ Asked /\ Held /\ Away /\ UsbTypes /\ TonePointed
    /\ NoFailure /\ Balanced /\ ToneBusy

LEMMA ToneInit == Tone /\ Init => ToneInv
<1> SUFFICES ASSUME Tone, Init PROVE ToneInv
  OBVIOUS
<1>1. Asked /\ Held
  BY AskedInit
<1>2. Away /\ NoFailure /\ Balanced
  BY DEF Init, Away, NoFailure, Balanced, Dirs
<1>3. UsbTypes
  BY DEF Init, UsbTypes
<1>4. TonePointed
  BY GroupFacts DEF Init, TonePointed
<1>5. ToneBusy
  BY DEF Init, ToneBusy
<1>6. QED
  BY <1>1, <1>2, <1>3, <1>4, <1>5 DEF ToneInv

LEMMA ToneNext == ToneInv /\ [Next]_vars => ToneInv'
<1> SUFFICES ASSUME ToneInv, [Next]_vars PROVE ToneInv'
  OBVIOUS
<1>1. Serial
  BY DEF ToneInv, Tone, Held
<1>2. setting' = setting
  BY SettingStays
<1>3. Tone'
  BY <1>2 DEF ToneInv, Tone
<1>4. Asked' /\ Held' /\ UsbTypes'
  BY AskedNext, HeldNext, UsbTypesNext DEF ToneInv
<1>5. Away' /\ TonePointed' /\ NoFailure'
  BY <1>1, AwayNext, TonePointedNext, NoFailureNext DEF ToneInv
<1>6. Balanced' /\ ToneBusy'
  BY <1>1, BalancedNext, ToneBusyNext DEF ToneInv
<1>7. QED
  BY <1>3, <1>4, <1>5, <1>6 DEF ToneInv

LEMMA ProperInit == Proper /\ Init => Line6Inv \/ ToneInv
BY Line6Init, ToneInit DEF Proper, Init, Tone

\* A started channel streams with all its transfers, whatever the other
\* direction's triggers, the helper, transient errors and the two gaps of a
\* callback do in between (line6_play_callback, line6_rec_callback,
\* line6_pcm_trigger).
THEOREM StartedAlwaysStream == Proper => (Spec => []StartedStreams)
<1> SUFFICES ASSUME Proper PROVE Spec => []StartedStreams
  OBVIOUS
<1>1. Init => Line6Inv \/ ToneInv
  BY ProperInit
<1>2. Line6Inv => StartedStreams
  BY DEF Line6Inv, Busy, Armed, StartedStreams
<1>3. ToneInv => StartedStreams
  BY DEF ToneInv, Asked, ToneBusy, StartedStreams
<1>4. QED
  BY <1>1, <1>2, <1>3, Line6Next, ToneNext, PTL DEF Spec

\* No transfer is set up that no stream points to, and detach leaves none
\* behind, nor a callback (line6_bsd_detach).
THEOREM NeverOrphans == Proper => (Spec => []NoOrphans)
<1> SUFFICES ASSUME Proper PROVE Spec => []NoOrphans
  OBVIOUS
<1>1. Init => Line6Inv \/ ToneInv
  BY ProperInit
<1>2. Line6Inv => NoOrphans
  BY GroupFacts DEF Line6Inv, UsbTypes, Pointed, NoOrphans, Dirs
<1>3. ToneInv => NoOrphans
  BY GroupFacts DEF ToneInv, UsbTypes, TonePointed, NoOrphans, Dirs
<1>4. QED
  BY <1>1, <1>2, <1>3, Line6Next, ToneNext, PTL DEF Spec

\* Between two triggers, a TonePort whose requests succeed and that captures also
\* plays, the application's samples or else the helper's silence, and the helper
\* plays at no other time (line6_start_play_helper, line6_stop_play_helper).
THEOREM HelperAlwaysServes == Proper => (Spec => []HelperServesCapture)
<1> SUFFICES ASSUME Proper PROVE Spec => []HelperServesCapture
  OBVIOUS
<1>1. Init => Line6Inv \/ ToneInv
  BY ProperInit
<1>2. Line6Inv => HelperServesCapture
  BY DEF Line6Inv, Flow, HelperServesCapture
<1>3. ToneInv => HelperServesCapture
  <2> SUFFICES ASSUME ToneInv, ~setting.faults, Quiet
               PROVE  IF chan["rec"] = "started" /\ chan["play"] # "started"
                      THEN helper /\ Streams("play", "silence")
                      ELSE ~helper
    BY DEF ToneInv, Tone, HelperServesCapture
  <2>1. \A d \in Dirs : d \in active <=> chan[d] = "started"
    BY DEF ToneInv, Asked, Quiet
  <2>2. helper <=> "rec" \in active /\ "play" \notin active
    BY DEF ToneInv, Balanced, Quiet, Dirs
  <2>3. helper => Streams("play", "silence")
    BY DEF ToneInv, ToneBusy, Quiet, Dirs
  <2>4. QED
    BY <2>1, <2>2, <2>3 DEF Dirs
<1>4. QED
  BY <1>1, <1>2, <1>3, Line6Next, ToneNext, PTL DEF Spec

-----------------------------------------------------------------------------
\* Transfers that are set up belong to a stream that is active or to a trigger
\* that has yet to ask for the release, so a refused request is not the last.
LEMMA LiveAwaited ==
    ASSUME Line6Inv, Asked, live # {}
    PROVE  \/ active # {}
           \/ \E d \in Dirs : pc[d] \in {"s_arm", "t_unsetup"}
<1> USE DEF Line6Inv, UsbTypes
<1>1. PICK g \in Groups : g \in live
  OBVIOUS
<1>2. PICK d \in Dirs : xfer[d] = g
  BY <1>1 DEF Pointed
<1>3. Holds(d)
  BY <1>2, GroupFacts DEF Pointed
<1>4. CASE Armed(d)
  BY <1>4 DEF Armed, Asked
<1>5. QED
  BY <1>3, <1>4 DEF Holds

LEMMA GoneReleased ==
    ASSUME Line6Inv \/ ToneInv, drv = "d_alt", DetachAlt, ~setting.faults
    PROVE  alt' = "zero"
<1>1. \A d \in Dirs : xfer[d] = NoGroup
  BY DEF Line6Inv, ToneInv, Pointed, TonePointed, Dirs
<1>2. live = {}
  BY <1>1, GroupFacts DEF Line6Inv, ToneInv, Pointed, TonePointed, UsbTypes
<1>3. QED
  BY <1>2 DEF DetachAlt, RequestZero

LEMMA ReleasedNext ==
    ASSUME Line6Inv \/ ToneInv, Asked, Released, [Next]_vars
    PROVE  Released'
<1> USE DEF app, device, stream, usb, clock, Goto, Asked, Released, Awaited
<1>1. ASSUME NEW d \in Dirs, BeginTrigger(d) \/ ReleaseChannel(d) PROVE Released'
  BY <1>1 DEF BeginTrigger, ReleaseChannel
<1>2. ASSUME NEW d \in Dirs, Return(d) \/ SetAlt(d) PROVE Released'
  BY <1>2 DEF Return, SetAlt
<1>3. ASSUME NEW d \in Dirs, TransferSetup(d) \/ SetupFailed(d) PROVE Released'
  BY <1>3 DEF TransferSetup, Setup, SetupFailed
<1>4. ASSUME NEW d \in Dirs, TestActive(d) PROVE Released'
  BY <1>4 DEF TestActive
<1>5. ASSUME NEW d \in Dirs, ReleaseAlt(d) \/ ZeroAlt(d) PROVE Released'
  <2>1. drv = "up" /\ drv' = drv /\ setting' = setting /\ active' = active
    BY <1>5 DEF ReleaseAlt, ZeroAlt
  <2>2. CASE live = {}
    BY <1>5, <2>1, <2>2 DEF ReleaseAlt, ZeroAlt, RequestZero
  <2>3. CASE live # {} /\ ~setting.toneport
    <3>1. Line6Inv
      BY <2>3 DEF ToneInv, Tone
    <3>2. active # {} \/ \E e \in Dirs : pc[e] \in {"s_arm", "t_unsetup"}
      BY <2>3, <3>1, LiveAwaited
    <3>3. \A e \in Dirs : pc[e] \in {"s_arm", "t_unsetup"} => pc'[e] = pc[e]
      BY <1>5 DEF ReleaseAlt, ZeroAlt
    <3>4. QED
      BY <2>1, <3>2, <3>3
  <2>4. QED
    BY <2>1, <2>2, <2>3
<1>6. ASSUME NEW d \in Dirs, Arm(d) PROVE Released'
  BY <1>6 DEF Arm
<1>7. ASSUME NEW d \in Dirs, StopStream(d) \/ UnsetupStream(d) PROVE Released'
  BY <1>7 DEF StopStream, UnsetupStream
<1>8. ASSUME NEW d \in Dirs, CheckHelper(d) \/ SwitchHelper(d) \/ TestHelper(d)
      PROVE  Released'
  BY <1>8 DEF CheckHelper, SwitchHelper, TestHelper
<1>9. ASSUME NEW d \in Dirs, SetupHelper(d) \/ HelperFailed(d) \/ ArmHelper(d)
      PROVE  Released'
  BY <1>9 DEF SetupHelper, HelperFailed, ArmHelper
<1>10. ASSUME NEW d \in Dirs, StopHelper(d) \/ UnsetupHelper(d) PROVE Released'
  BY <1>10 DEF StopHelper, UnsetupHelper
<1>11. CASE Callback
  <2>1. UNCHANGED <<setting, pc, todo, chan, alt, active, drv>>
    BY <1>11, CallbackFrame
  <2>2. QED
    BY <2>1
<1>12. CASE DetachAlt
  BY <1>12, GoneReleased DEF DetachAlt
<1>13. CASE DetachHelper \/ DetachHelperGone \/ DetachStop \/ DetachUnsetup
  BY <1>13 DEF DetachHelper, DetachHelperGone, DetachStop, DetachUnsetup
<1>14. CASE UNCHANGED vars
  BY <1>14 DEF vars
<1>15. QED
  BY <1>1, <1>2, <1>3, <1>4, <1>5, <1>6, <1>7, <1>8, <1>9, <1>10, <1>11, <1>12,
     <1>13, <1>14
     DEF Next, TriggerStep, Detach

\* Triggered in turn, neither direction asks to release the bandwidth while the
\* other streams; and when every request succeeds, the last STOP of a plain
\* device and the detach of every device have released it, although a request
\* is refused as long as the other direction's transfers are set up
\* (line6_pcm_trigger, line6_bsd_detach).
THEOREM BandwidthAlwaysReleased == Proper => (Spec => []BandwidthReleased)
<1> SUFFICES ASSUME Proper PROVE Spec => []BandwidthReleased
  OBVIOUS
<1>1. Init => (Line6Inv \/ ToneInv) /\ Asked /\ Held /\ Released
  <2>1. Init => Released
    BY DEF Init, Released
  <2>2. QED
    BY <2>1, ProperInit, AskedInit
<1>2. (Line6Inv \/ ToneInv) /\ Asked /\ Held /\ Released /\ [Next]_vars
      => ((Line6Inv \/ ToneInv) /\ Asked /\ Held /\ Released)'
  BY Line6Next, ToneNext, AskedNext, HeldNext, ReleasedNext
<1>3. Asked /\ Held /\ Released => BandwidthReleased
  <2> SUFFICES ASSUME Asked, Held, Released PROVE BandwidthReleased
    OBVIOUS
  <2>1. ASSUME ~setting.overlap, NEW d \in Dirs, pc[d] \in {"s_zero", "t_zero"}
        PROVE  chan[Other(d)] # "started"
    <3>1. active = {} /\ pc[Other(d)] = "idle" /\ Other(d) \in Dirs
      BY <2>1 DEF Held, Serial, Dirs, Other
    <3>2. QED
      BY <3>1 DEF Asked
  <2>2. ASSUME Quiet, \A d \in Dirs : chan[d] = "stopped"
        PROVE  ~Awaited /\ drv # "gone"
    <3>1. active = {}
      BY <2>2 DEF Asked, Quiet
    <3>2. QED
      BY <2>2, <3>1 DEF Awaited, Quiet
  <2>3. QED
    BY <2>1, <2>2 DEF BandwidthReleased, Released, Asked
<1>4. QED
  BY <1>1, <1>2, <1>3, PTL DEF Spec

=============================================================================
