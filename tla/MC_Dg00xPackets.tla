-------------------------- MODULE MC_Dg00xPackets --------------------------
(* Instances of Dg00xPackets for TLC.                                      *)
EXTENDS Dg00xPackets

PlaybackOnly == {"pb"}

AllRates == {44100, 48000, 88200, 96000}

\* Rings that hold no whole number of packets, as the code's 32768 frames do not.
\* At 48 and 88.2 kHz the OSS layer keeps less ready than is sent between two of
\* its interrupts, so packets are late and the sender laps the ring's reader.
SmallRing  == [r \in AllRates |->
                CASE r = 44100 -> 53 [] r = 48000 -> 50
                  [] r = 88200 -> 100 [] r = 96000 -> 103]
SmallAhead == [r \in AllRates |->
                CASE r = 44100 -> 40 [] r = 48000 -> 15
                  [] r = 88200 -> 29 [] r = 96000 -> 60]
============================================================================
