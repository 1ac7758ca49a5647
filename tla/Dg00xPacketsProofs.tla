-------------------------- MODULE Dg00xPacketsProofs --------------------------
(***************************************************************************)
(* Theorems about Dg00xPackets: the types, and the packet sequence of a    *)
(* session in which nothing but playback is started, at every rate and for *)
(* every ring.                                                             *)
(***************************************************************************)
EXTENDS Dg00xPackets, TLAPS

\* Capture is never started, so a context is started by each START.
Alone == Dirs = {"pb"}

\* How far the frames sent are ahead of sent * rate / 8000, in fractions of
\* 1 / Period of a frame.  The phase determines it.
Ahead80(p) ==
    IF p = 0 THEN 0
    ELSE IF p % 2 = 0 THEN 80 - p
    ELSE IF p <= 40 THEN 40 - p ELSE 120 - p

Lead(r, p) ==
    IF r = 44100 THEN Ahead80(p)
    ELSE IF r = 88200 /\ p # 0 THEN 40 - p ELSE 0

\* The phase counts the packets of the session, and the lead is the one that
\* belongs to the phase.
PhaseInv ==
    /\ rate \in Rates
    /\ active \subseteq Dirs
    /\ frame_cycle \in 0 .. Period(rate) - 1
    /\ blocks \in Int
    /\ sent \in Int
    /\ active # {} =>
         /\ frame_cycle = sent
         /\ Period(rate) * blocks - PeriodFrames(rate) * sent = Lead(rate, sent)
    /\ first > 0 => active # {}

LEMMA PeriodRange == \A r \in Rates : Period(r) \in Nat \ {0}
BY RatesAssumption DEF Period

\* The lead is less than one frame.
LEMMA LeadRange ==
    ASSUME NEW r \in Rates, NEW p \in 0 .. Period(r) - 1
    PROVE  Lead(r, p) \in 0 .. Period(r) - 1
BY RatesAssumption DEF Lead, Ahead80, Period

\* One packet takes the lead of its phase to the lead of the next one.
LEMMA LeadStep ==
    ASSUME NEW r \in Rates, NEW p \in 0 .. Period(r) - 1
    PROVE  Lead(r, (p + 1) % Period(r))
             = Lead(r, p) + Period(r) * FramesThisPacket(r, p) - PeriodFrames(r)
<1>1. CASE r = 44100
  <2>1. p \in 0 .. 79 /\ Period(r) = 80 /\ PeriodFrames(r) = 441
    BY <1>1 DEF Period, PeriodFrames
  <2>2. FramesThisPacket(r, p)
          = IF p % 2 = 1 <=> p = 0 \/ p >= 40 THEN 5 ELSE 6
    BY <1>1 DEF FramesThisPacket
  <2>3. \A q \in Int : Lead(r, q) = Ahead80(q)
    BY <1>1 DEF Lead
  <2>4. CASE p = 79
    BY <2>1, <2>2, <2>3, <2>4 DEF Ahead80
  <2>5. CASE p < 79
    <3>1. (p + 1) % 80 = p + 1
      BY <2>1, <2>5
    <3>2. QED
      BY <2>1, <2>2, <2>3, <2>5, <3>1 DEF Ahead80
  <2>6. QED
    BY <2>1, <2>4, <2>5
<1>2. CASE r = 88200
  BY <1>2 DEF Lead, Period, PeriodFrames, FramesThisPacket
<1>3. CASE r \in {48000, 96000}
  BY <1>3 DEF Lead, Period, PeriodFrames, FramesThisPacket
<1>4. QED
  BY <1>1, <1>2, <1>3, RatesAssumption

LEMMA FramesType ==
    ASSUME NEW r \in Rates, NEW p \in Int
    PROVE  FramesThisPacket(r, p) \in Nat
BY RatesAssumption DEF FramesThisPacket

\* What Sent does to the two counters of the sequence.
LEMMA PacketLead ==
    ASSUME NEW r \in Rates, NEW p \in 0 .. Period(r) - 1, NEW b \in Int,
           Period(r) * b - PeriodFrames(r) * p = Lead(r, p)
    PROVE  LET f == FramesThisPacket(r, p)
           IN  IF p + 1 = Period(r)
               THEN Period(r) * (b + f - PeriodFrames(r)) = Lead(r, 0)
               ELSE Period(r) * (b + f) - PeriodFrames(r) * (p + 1)
                      = Lead(r, p + 1)
<1> DEFINE f == FramesThisPacket(r, p)
<1>1. f \in Nat /\ Period(r) \in Nat \ {0}
  BY FramesType, PeriodRange
<1>2. Lead(r, (p + 1) % Period(r))
        = Lead(r, p) + Period(r) * f - PeriodFrames(r)
  BY LeadStep
<1>3. CASE p + 1 = Period(r)
  <2>1. (p + 1) % Period(r) = 0
    BY <1>1, <1>3
  <2>2. Lead(r, 0) = Lead(r, p) + Period(r) * f - PeriodFrames(r)
    BY <1>2, <2>1
  <2>3. Period(r) * (b + f - PeriodFrames(r)) = Lead(r, 0)
    <3> HIDE DEF f
    <3>1. r \in {44100, 48000, 88200, 96000}
      BY RatesAssumption
    <3>2. QED
      BY <1>1, <1>3, <2>2, <3>1 DEF Period, PeriodFrames
  <2>4. QED
    BY <1>3, <2>3
<1>4. CASE p + 1 # Period(r)
  <2>1. (p + 1) % Period(r) = p + 1
    BY <1>1, <1>4
  <2>2. Lead(r, p + 1) = Lead(r, p) + Period(r) * f - PeriodFrames(r)
    BY <1>2, <2>1
  <2>3. Period(r) * (b + f) - PeriodFrames(r) * (p + 1) = Lead(r, p + 1)
    <3> HIDE DEF f
    <3>1. r \in {44100, 48000, 88200, 96000}
      BY RatesAssumption
    <3>2. QED
      BY <1>1, <2>2, <3>1 DEF Period, PeriodFrames
  <2>4. QED
    BY <1>4, <2>3
<1>5. QED
  BY <1>3, <1>4

-----------------------------------------------------------------------------
LEMMA PhaseInit == Init => PhaseInv
BY PeriodRange, RatesAssumption DEF Init, PhaseInv, Period

\* A fill keeps them, whatever it finds in the ring.
LEMMA PhaseFill ==
    ASSUME PhaseInv, FillTxChunk, active # {}, UNCHANGED <<rate, active>>,
           first' > 0 => first > 0
    PROVE  PhaseInv'
<1> DEFINE frames == FramesThisPacket(rate, frame_cycle)
<1>1. /\ Sent(frames)
      /\ frame_cycle' = (frame_cycle + 1) % Period(rate)
  BY Zenon DEF FillTxChunk, Packet
<1>2. /\ rate \in Rates /\ Period(rate) \in Nat \ {0}
      /\ sent \in 0 .. Period(rate) - 1 /\ frame_cycle = sent
  BY PeriodRange DEF PhaseInv
<1>3. frames \in Nat /\ PeriodFrames(rate) \in Int
  BY <1>2, FramesType, RatesAssumption DEF PeriodFrames
<1>4. frame_cycle' = sent' /\ sent' \in 0 .. Period(rate) - 1 /\ blocks' \in Int
  <2>1. CASE sent + 1 = Period(rate)
    BY <1>1, <1>2, <1>3, <2>1 DEF Sent, PhaseInv
  <2>2. CASE sent + 1 # Period(rate)
    <3>1. (sent + 1) % Period(rate) = sent + 1
      BY <1>2, <2>2
    <3>2. QED
      BY <1>1, <1>2, <1>3, <2>2, <3>1 DEF Sent, PhaseInv
  <2>3. QED
    BY <2>1, <2>2
<1>5. Period(rate) * blocks' - PeriodFrames(rate) * sent' = Lead(rate, sent')
  <2>1. IF sent + 1 = Period(rate)
        THEN Period(rate) * (blocks + frames - PeriodFrames(rate)) = Lead(rate, 0)
        ELSE Period(rate) * (blocks + frames) - PeriodFrames(rate) * (sent + 1)
               = Lead(rate, sent + 1)
    BY <1>2, PacketLead DEF PhaseInv
  <2> HIDE DEF frames
  <2>2. CASE sent + 1 = Period(rate)
    <3>1. sent' = 0 /\ Period(rate) * blocks' = Lead(rate, 0)
      BY <1>1, <2>1, <2>2 DEF Sent
    <3>2. PeriodFrames(rate) * sent' = 0
      BY <1>3, <3>1
    <3>3. Period(rate) * blocks' \in Int
      BY <1>2, <1>4
    <3>4. QED
      BY <3>1, <3>2, <3>3
  <2>3. CASE sent + 1 # Period(rate)
    BY <1>1, <2>1, <2>3 DEF Sent
  <2>4. QED
    BY <2>2, <2>3
<1>6. PhaseInv'
  BY <1>2, <1>4, <1>5 DEF PhaseInv
<1>7. QED
  BY <1>6

LEMMA PhaseNext ==
    Alone /\ PhaseInv /\ [Next]_vars => PhaseInv'
<1> SUFFICES ASSUME Alone, PhaseInv, [Next]_vars
             PROVE  PhaseInv'
  OBVIOUS
<1>1. ASSUME NEW d \in Dirs, Start(d) PROVE PhaseInv'
  <2>1. active = {} /\ d = "pb"
    BY <1>1 DEF Alone, PhaseInv, Start
  <2>2. /\ rate' = rate /\ active' = {"pb"}
        /\ frame_cycle' = 0 /\ sent' = 0 /\ blocks' = 0
    BY <1>1, <2>1 DEF Start
  <2>3. rate \in Rates /\ Period(rate) \in Nat \ {0} /\ Lead(rate, 0) = 0
    BY PeriodRange DEF PhaseInv, Lead, Ahead80
  <2>4. PeriodFrames(rate) \in Int
    BY <2>3, RatesAssumption DEF PeriodFrames
  <2>5. QED
    BY <2>2, <2>3, <2>4 DEF Alone, PhaseInv
<1>2. ASSUME NEW d \in Dirs, Stop(d) PROVE PhaseInv'
  <2>1. /\ active' \subseteq active /\ first = 0 /\ first' = 0
        /\ UNCHANGED <<rate, cadence>>
    BY <1>2 DEF Stop
  <2>2. QED
    BY <2>1 DEF PhaseInv, cadence
<1>3. ASSUME StartFill PROVE PhaseInv'
  <2>1. FillTxChunk /\ first > 0 /\ UNCHANGED <<rate, active>>
    BY <1>3, Zenon DEF StartFill
  <2>2. QED
    BY <2>1, PhaseFill DEF PhaseInv
<1>4. ASSUME Refill PROVE PhaseInv'
  <2>1. FillTxChunk /\ active # {} /\ UNCHANGED <<rate, active, first>>
    BY <1>4 DEF Refill
  <2>2. QED
    BY <2>1, PhaseFill
<1>5. ASSUME Intr PROVE PhaseInv'
  BY <1>5 DEF Intr, PhaseInv, cadence
<1>6. CASE UNCHANGED vars
  BY <1>6 DEF vars, PhaseInv, cadence
<1>7. QED
  BY <1>1, <1>2, <1>3, <1>4, <1>5, <1>6 DEF Next

(***************************************************************************)
(* The packets of a session of playback alone are the ideal nonblocking    *)
(* sequence of the rate: after each of them the number of frames sent is   *)
(* packets * rate / 8000, rounded up.                                      *)
(***************************************************************************)
THEOREM PlaybackCadence == Alone => (Spec => []Cadence)
<1> SUFFICES ASSUME Alone PROVE Spec => []Cadence
  OBVIOUS
<1>1. PhaseInv => Cadence
  <2> SUFFICES ASSUME PhaseInv, active # {}
               PROVE  Period(rate) * blocks - PeriodFrames(rate) * sent
                        \in 0 .. Period(rate) - 1
    BY DEF Cadence
  <2>1. QED
    BY LeadRange DEF PhaseInv
<1>2. PhaseInv /\ [Next]_vars => PhaseInv'
  BY PhaseNext
<1>3. QED
  BY <1>1, <1>2, PhaseInit, PTL DEF Spec

-----------------------------------------------------------------------------
(* Types, for any directions                                               *)

LEMMA Geometry ==
    ASSUME rate \in Rates
    PROVE  /\ Ring \in Nat \ {0} /\ Span \in Nat \ {0}
           /\ Ahead \in Nat
           /\ Period(rate) \in Nat \ {0} /\ PeriodFrames(rate) \in Int
<1>1. Ring \in Nat \ {0} /\ Ahead \in Nat
  BY RingAssumption DEF Ring, Ahead
<1>2. Span \in Nat \ {0}
  <2> HIDE DEF Ring
  <2>1. QED
    BY <1>1 DEF Span
<1>3. PeriodFrames(rate) \in Int
  BY RatesAssumption DEF PeriodFrames
<1>4. QED
  BY <1>1, <1>2, <1>3, PeriodRange

LEMMA ModRange ==
    ASSUME NEW a \in Int, NEW n \in Nat \ {0}
    PROVE  a % n \in 0 .. n - 1
OBVIOUS

\* A fill keeps the types, and leaves what it does not mention alone.
LEMMA FillTypes ==
    ASSUME TypeOK, FillTxChunk, UNCHANGED <<rate, active>>, first' \in 0 .. NChunks,
           burst' \in 0 .. NChunks
    PROVE  TypeOK'
<1> DEFINE frames == FramesThisPacket(rate, frame_cycle)
           read   == Readable(frames)
<1>1. /\ Sent(frames)
      /\ frame_cycle' = (frame_cycle + 1) % Period(rate)
      /\ tx_dbc' = (tx_dbc + frames) % DbcWrap
      /\ hwptr' = Advanced(hwptr, frames)
      /\ next' = IF read = 0 THEN next ELSE (disposed + Pending + read) % Span
      /\ late' = (late \/ read < frames)
      /\ UNCHANGED <<hp, rp, ready, disposed>>
  BY Zenon DEF FillTxChunk, Packet, NextDbc, sndbuf
<1>2. /\ Ring \in Nat \ {0} /\ Span \in Nat \ {0} /\ Ahead \in Nat
      /\ Period(rate) \in Nat \ {0} /\ PeriodFrames(rate) \in Int
  BY Geometry DEF TypeOK
<1>3. frames \in Nat
  BY FramesType DEF TypeOK
<1>4. Ring' = Ring /\ Span' = Span /\ Ahead' = Ahead
  BY DEF Ring, Span, Ahead
<1> HIDE DEF frames
<1>5. Pending \in 0 .. Ring - 1
  <2>1. hwptr - rp \in Int
    BY DEF TypeOK
  <2>2. QED
    BY <1>2, <2>1, ModRange DEF Pending
<1>6. read \in Int
  <2> HIDE DEF Pending
  <2>1. QED
    BY <1>3, <1>5 DEF Readable, TypeOK
<1>7. hwptr' \in 0 .. Ring - 1
  BY <1>1, <1>2, <1>3 DEF Advanced, TypeOK
<1>8. next' \in 0 .. Span - 1
  <2> HIDE DEF Pending, read, Span
  <2>1. disposed + Pending + read \in Int
    BY <1>5, <1>6 DEF TypeOK
  <2>2. (disposed + Pending + read) % Span \in 0 .. Span - 1
    BY <1>2, <2>1, ModRange
  <2>3. QED
    BY <1>1, <2>2 DEF TypeOK
<1>9. frame_cycle' \in 0 .. Period(rate) - 1
  <2>1. frame_cycle + 1 \in Int
    BY <1>2 DEF TypeOK
  <2>2. QED
    BY <1>1, <1>2, <2>1, ModRange
<1>10. tx_dbc' \in 0 .. DbcWrap - 1
  BY <1>1, <1>3 DEF DbcWrap, TypeOK
<1>11. sent' \in 0 .. Period(rate) - 1 /\ blocks' \in Int
  <2>1. CASE sent + 1 = Period(rate)
    BY <1>1, <1>2, <1>3, <2>1 DEF Sent, TypeOK
  <2>2. CASE sent + 1 # Period(rate)
    BY <1>1, <1>2, <1>3, <2>2 DEF Sent, TypeOK
  <2>3. QED
    BY <2>1, <2>2
<1>12. late' \in BOOLEAN
  <2> HIDE DEF read
  <2>1. QED
    BY <1>1 DEF TypeOK
<1>13. QED
  <2> HIDE DEF Ring, Span, Ahead
  <2>1. QED
    BY <1>1, <1>4, <1>7, <1>8, <1>9, <1>10, <1>11, <1>12 DEF TypeOK

LEMMA IntrTypes ==
    ASSUME TypeOK, Intr
    PROVE  TypeOK'
<1> DEFINE delta == (Ring + hwptr - hp) % Ring
           amt   == IF delta < ready THEN delta ELSE ready
<1>1. /\ hp' = hwptr
      /\ rp' = (rp + amt) % Ring
      /\ disposed' = (disposed + amt) % Span
      /\ ready' = Ahead
      /\ next' = IF Past(next, disposed') THEN disposed' ELSE next
      /\ burst' = 0
      /\ UNCHANGED <<rate, active, first, cadence, hwptr, late>>
  BY Zenon DEF Intr
<1>2. /\ Ring \in Nat \ {0} /\ Span \in Nat \ {0} /\ Ahead \in Nat
  BY Geometry DEF TypeOK
<1>3. Ring' = Ring /\ Span' = Span /\ Ahead' = Ahead
  BY <1>1 DEF Ring, Span, Ahead
<1> HIDE DEF Ring, Span, Ahead
<1>4. amt \in Int
  <2>1. Ring + hwptr - hp \in Int
    BY <1>2 DEF TypeOK
  <2>2. delta \in Int
    BY <1>2, <2>1, ModRange
  <2> HIDE DEF delta
  <2>3. QED
    BY <2>2 DEF TypeOK
<1> HIDE DEF amt
<1>5. rp' \in 0 .. Ring - 1
  <2>1. rp + amt \in Int
    BY <1>4 DEF TypeOK
  <2>2. QED
    BY <1>1, <1>2, <2>1, ModRange
<1>6. disposed' \in 0 .. Span - 1
  <2>1. disposed + amt \in Int
    BY <1>4 DEF TypeOK
  <2>2. QED
    BY <1>1, <1>2, <2>1, ModRange
<1>7. next' \in 0 .. Span - 1
  BY <1>1, <1>6 DEF TypeOK
<1>8. QED
  BY <1>1, <1>2, <1>3, <1>5, <1>6, <1>7, ChunksAssumption DEF TypeOK, cadence

LEMMA TypesInit == Init => TypeOK
<1> SUFFICES ASSUME Init PROVE TypeOK
  OBVIOUS
<1>1. /\ Ring \in Nat \ {0} /\ Span \in Nat \ {0} /\ Ahead \in Nat
      /\ Period(rate) \in Nat \ {0}
  BY Geometry DEF Init
<1> HIDE DEF Ring, Span, Ahead
<1>2. late \in BOOLEAN
  BY Zenon DEF Init
<1>3. /\ hwptr \in 0 .. Ring - 1 /\ hp \in 0 .. Ring - 1 /\ rp \in 0 .. Ring - 1
      /\ ready \in 0 .. Ahead
      /\ disposed \in 0 .. Span - 1 /\ next \in 0 .. Span - 1
  BY <1>1 DEF Init
<1>4. /\ rate \in Rates /\ active \subseteq Dirs /\ first \in 0 .. NChunks
      /\ frame_cycle \in 0 .. Period(rate) - 1 /\ sent \in 0 .. Period(rate) - 1
      /\ blocks \in Int /\ burst \in 0 .. NChunks
      /\ tx_dbc \in 0 .. DbcWrap - 1
  BY <1>1, ChunksAssumption DEF Init, DbcWrap
<1>5. QED
  BY <1>2, <1>3, <1>4 DEF TypeOK

LEMMA TypesNext == TypeOK /\ [Next]_vars => TypeOK'
<1> SUFFICES ASSUME TypeOK, [Next]_vars PROVE TypeOK'
  OBVIOUS
<1>1. /\ Ring \in Nat \ {0} /\ Span \in Nat \ {0} /\ Ahead \in Nat
      /\ Period(rate) \in Nat \ {0}
  BY Geometry DEF TypeOK
<1>2. rate' = rate => Ring' = Ring /\ Span' = Span /\ Ahead' = Ahead
  BY DEF Ring, Span, Ahead
<1> HIDE DEF Ring, Span, Ahead
<1>3. ASSUME NEW d \in Dirs, Start(d) PROVE TypeOK'
  <2>1. rate' = rate /\ active' = active \cup {d} /\ frame_cycle' = 0
    BY <1>3 DEF Start
  <2>2. /\ tx_dbc' \in 0 .. DbcWrap - 1 /\ hwptr' \in 0 .. Ring - 1
        /\ next' \in 0 .. Span - 1 /\ late' \in BOOLEAN /\ burst' \in 0 .. NChunks
        /\ hp' \in 0 .. Ring - 1 /\ rp' \in 0 .. Ring - 1
        /\ ready' \in 0 .. Ahead /\ disposed' \in 0 .. Span - 1
    <3>1. CASE d = "pb"
      <4>1. /\ tx_dbc' = 0 /\ hwptr' = 0 /\ next' = 0 /\ burst' = 0
            /\ hp' = 0 /\ rp' = 0 /\ disposed' = 0 /\ ready' = Ahead
        BY <1>3, <3>1 DEF Start, Prefilled
      <4>2. late' \in BOOLEAN
        BY <1>3, <3>1, Zenon DEF Start
      <4>3. QED
        BY <1>1, <4>1, <4>2, ChunksAssumption DEF DbcWrap
    <3>2. CASE d # "pb"
      <4>1. UNCHANGED <<tx_dbc, sndbuf, stream>>
        BY <1>3, <3>2, Zenon DEF Start
      <4>2. QED
        BY <4>1 DEF TypeOK, sndbuf, stream
    <3>3. QED
      BY <3>1, <3>2
  <2>3. /\ first' \in 0 .. NChunks /\ sent' \in 0 .. Period(rate) - 1
        /\ blocks' \in Int
    BY <1>1, <1>3, <2>2, ChunksAssumption DEF Start, TypeOK
  <2>4. QED
    BY <1>1, <1>2, <2>1, <2>2, <2>3 DEF TypeOK
<1>4. ASSUME NEW d \in Dirs, Stop(d) PROVE TypeOK'
  BY <1>1, <1>2, <1>4 DEF Stop, Emptied, TypeOK, cadence, sndbuf, stream
<1>5. ASSUME StartFill PROVE TypeOK'
  <2>1. /\ FillTxChunk /\ first > 0 /\ first' = first - 1
        /\ UNCHANGED <<rate, active, burst>>
    BY <1>5, Zenon DEF StartFill
  <2>2. first' \in 0 .. NChunks /\ burst' \in 0 .. NChunks
    BY <2>1, ChunksAssumption DEF TypeOK
  <2>3. QED
    BY <2>1, <2>2, FillTypes
<1>6. ASSUME Refill PROVE TypeOK'
  <2>1. /\ FillTxChunk /\ burst < NChunks /\ burst' = burst + 1
        /\ UNCHANGED <<rate, active, first>>
    BY <1>6, Zenon DEF Refill
  <2>2. first' \in 0 .. NChunks /\ burst' \in 0 .. NChunks
    BY <2>1, ChunksAssumption DEF TypeOK
  <2>3. QED
    BY <2>1, <2>2, FillTypes
<1>7. CASE UNCHANGED vars
  BY <1>2, <1>7 DEF TypeOK, vars, cadence, sndbuf, stream
<1>8. QED
  BY <1>3, <1>4, <1>5, <1>6, <1>7, IntrTypes DEF Next

(***************************************************************************)
(* Whatever is started and stopped, however many packets go out between    *)
(* two interrupts: phase, counter and positions stay in range.             *)
(***************************************************************************)
THEOREM PacketsTyped == Spec => []TypeOK
BY TypesInit, TypesNext, PTL DEF Spec
=============================================================================
