----------------------------- MODULE Dg00xPackets -----------------------------
(***************************************************************************)
(* What the packets of the Digi 002/003 transmit context carry             *)
(* (digi00x-streaming.c, dg00x_fill_tx_chunk): how many frames, under      *)
(* which data block counter, taken from where in the playback ring.        *)
(* Dg00xStreaming moves the chunks between the queues, here a chunk is     *)
(* just filled and thereby sent.  Positions and lengths count frames.      *)
(***************************************************************************)
EXTENDS Integers

CONSTANTS
    Rates,      \* the sample rates a run looks at
    Dirs,       \* the directions that are triggered
    RingOf,     \* RingOf[r]: frames in the playback ring, sndbuf bufsize
    AheadOf,    \* AheadOf[r]: frames chn_wrfeed keeps ready in the ring
    NChunks     \* DG00X_ISO_NCHUNKS

ASSUME RatesAssumption  == Rates \subseteq {44100, 48000, 88200, 96000}
ASSUME DirsAssumption   == Dirs \subseteq {"pb", "cap"}
ASSUME RingAssumption   == /\ RingOf \in [Rates -> Nat \ {0}]
                           /\ AheadOf \in [Rates -> Nat]
                           /\ \A r \in Rates : AheadOf[r] <= RingOf[r]
ASSUME ChunksAssumption == NChunks \in Nat \ {0}

VARIABLES
    rate,         \* pcm_playback.rate, both directions run at one rate
    active,       \* the directions whose stream is active
    first,        \* chunks start_tx has yet to fill
    frame_cycle,  \* pcm_playback.frame_cycle
    tx_dbc,       \* pcm_playback.tx_dbc
    sent,         \* packets since the context was started, modulo the period
    blocks,       \* frames in these packets
    hwptr,        \* pcm_playback.hwptr
    hp, rp, ready,\* the sndbuf: its copy of hwptr, its read pointer, its fill
    disposed,     \* frames chn_dmaupdate has consumed, modulo Span
    next,         \* the frame after the last one sent or lost, modulo Span
    late,         \* a packet was sent short or empty since START
    burst         \* chunks the callout has refilled since the last chn_intr

cadence == <<frame_cycle, tx_dbc, sent, blocks>>
sndbuf  == <<hp, rp, ready, disposed>>
stream  == <<hwptr, next, late, burst>>
vars    == <<rate, active, first, cadence, sndbuf, stream>>

Ring  == RingOf[rate]
Ahead == AheadOf[rate]
Span  == 4 * Ring

\* A CIP data block counter has eight bits.
DbcWrap == 256

\* The pattern of frames per packet repeats after Period packets, which carry
\* PeriodFrames: PeriodFrames / Period = rate / 8000.
Period(r) == IF r = 44100 THEN 80 ELSE IF r = 88200 THEN 40 ELSE 1

PeriodFrames(r) == IF r \in {44100, 88200} THEN 441 ELSE r \div 8000

\* No packet has more frames, and at most one less.
MostFrames(r) == IF r \in {44100, 48000} THEN 6 ELSE 12

-----------------------------------------------------------------------------
\* Mutation: the plain accumulator, which starts 5, 6, 5, 6.
FramesAccumulated(r, phase) ==
    IF r = 44100 THEN IF phase % 2 = 1 \/ phase = 78 THEN 6 ELSE 5
    ELSE IF r = 88200 THEN IF phase = 39 THEN 12 ELSE 11
    ELSE r \div 8000

\* dg00x_frames_this_packet: the packets that are rounded up come early.
FramesThisPacket(r, phase) ==
    IF r = 44100
    THEN IF phase % 2 = 1 <=> phase = 0 \/ phase >= 40 THEN 5 ELSE 6
    ELSE IF r = 88200 THEN IF phase = 0 THEN 12 ELSE 11
    ELSE r \div 8000

NextDbc(dbc, frames) == (dbc + frames) % DbcWrap

\* Mutation: no wrap.
AdvancedPast(h, frames) == h + frames

\* hwptr after a packet: at or past the end of the ring it restarts at 0, and the
\* next packet takes again what this one has taken from the ring's beginning.
Advanced(h, frames) == IF h + frames >= Ring THEN 0 ELSE h + frames

\* Frames between the ring's read pointer and hwptr: sent, not yet disposed.
Pending == (hwptr - rp) % Ring

\* What the packet takes from the ring: nothing on an underrun, less than its
\* frames on a shortfall.
Readable(frames) ==
    IF Pending > ready THEN 0
    ELSE IF ready - Pending < frames THEN ready - Pending ELSE frames

-----------------------------------------------------------------------------
Init ==
    /\ rate \in Rates
    /\ active = {}
    /\ first = 0
    /\ frame_cycle = 0 /\ tx_dbc = 0
    /\ sent = 0 /\ blocks = 0
    /\ hwptr = 0 /\ next = 0 /\ late = FALSE /\ burst = 0
    /\ hp = 0 /\ rp = 0 /\ ready = 0 /\ disposed = 0

\* chn_start: the ring starts over with Ahead frames of silence in it.
Prefilled ==
    /\ hp' = 0 /\ rp' = 0 /\ disposed' = 0
    /\ ready' = Ahead

\* chn_resetbuf
Emptied == hp' = 0 /\ rp' = 0 /\ disposed' = 0 /\ ready' = 0

\* dg00x_pcm_stream_start resets the position and the counter of its own
\* stream, and the phase of both.  start_tx starts the context for the first
\* direction only.
Start(d) ==
    /\ d \notin active
    /\ active' = active \cup {d}
    /\ frame_cycle' = 0
    /\ IF d = "pb"
       THEN /\ tx_dbc' = 0 /\ hwptr' = 0
            /\ next' = 0 /\ late' = FALSE /\ burst' = 0
            /\ Prefilled
       ELSE UNCHANGED <<tx_dbc, sndbuf, stream>>
    /\ IF active = {}
       THEN first' = NChunks /\ sent' = 0 /\ blocks' = 0
       ELSE UNCHANGED <<first, sent, blocks>>
    /\ UNCHANGED rate

\* dg00x_pcm_stream_stop.  The last direction stops the context.
Stop(d) ==
    /\ d \in active /\ first = 0
    /\ active' = active \ {d}
    /\ IF d = "pb" THEN Emptied ELSE UNCHANGED sndbuf
    /\ UNCHANGED <<rate, first, cadence, stream>>

-----------------------------------------------------------------------------
\* The device, which sees the packet.
Sent(frames) ==
    IF sent + 1 = Period(rate)
    THEN sent' = 0 /\ blocks' = blocks + frames - PeriodFrames(rate)
    ELSE sent' = sent + 1 /\ blocks' = blocks + frames

\* A packet of that many frames, read of them from the ring, after which hwptr
\* is h.
Packet(frames, read, h) ==
    /\ Sent(frames)
    /\ frame_cycle' = (frame_cycle + 1) % Period(rate)
    /\ tx_dbc' = NextDbc(tx_dbc, frames)
    /\ hwptr' = h
    /\ next' = IF read = 0 THEN next ELSE (disposed + Pending + read) % Span
    /\ late' = (late \/ read < frames)

\* Mutation: a packet that was short is offered again.
FillTxChunkAgain ==
    LET frames == FramesThisPacket(rate, frame_cycle)
        read   == Readable(frames)
    IN  /\ Packet(frames, read,
                  IF read < frames THEN hwptr ELSE Advanced(hwptr, frames))
        /\ UNCHANGED sndbuf

\* Mutation: the fill disposes of what it has read.
FillTxChunkDisposes ==
    LET frames == FramesThisPacket(rate, frame_cycle)
        read   == Readable(frames)
    IN  /\ Packet(frames, read, Advanced(hwptr, frames))
        /\ rp' = (rp + read) % Ring
        /\ ready' = ready - read
        /\ disposed' = (disposed + read) % Span
        /\ UNCHANGED hp

\* dg00x_fill_tx_chunk
FillTxChunk ==
    LET frames == FramesThisPacket(rate, frame_cycle)
    IN  /\ Packet(frames, Readable(frames), Advanced(hwptr, frames))
        /\ UNCHANGED sndbuf

\* start_tx fills every chunk before it enables the context.
StartFill ==
    /\ first > 0
    /\ first' = first - 1
    /\ FillTxChunk
    /\ UNCHANGED <<rate, active, burst>>

\* dg00x_streaming_refill_tx: only while playback is active, the chunks that are
\* free, of NChunks at most, and then the callout calls chn_intr.
Refill ==
    /\ "pb" \in active /\ first = 0
    /\ burst < NChunks
    /\ burst' = burst + 1
    /\ FillTxChunk
    /\ UNCHANGED <<rate, active, first>>

\* Frame b comes after frame a, less than half a Span later.
Past(a, b) == (b - a) % Span \in 1 .. Span \div 2

\* chn_intr, from the callout or from a call of the application: chn_dmaupdate
\* disposes of what pcm_pointer says was sent (a frame that was not is lost),
\* chn_wrfeed fills the ring again.
Intr ==
    LET delta == (Ring + hwptr - hp) % Ring
        amt   == IF delta < ready THEN delta ELSE ready
    IN  /\ "pb" \in active
        /\ hp' = hwptr
        /\ rp' = (rp + amt) % Ring
        /\ disposed' = (disposed + amt) % Span
        /\ ready' = Ahead
        /\ next' = IF Past(next, disposed') THEN disposed' ELSE next
        /\ burst' = 0
        /\ UNCHANGED <<rate, active, first, cadence, hwptr, late>>

Next ==
    \/ \E d \in Dirs : Start(d) \/ Stop(d)
    \/ StartFill \/ Refill \/ Intr

Spec == Init /\ [][Next]_vars

-----------------------------------------------------------------------------
\* Type invariant: the phase, the counter and the positions stay in range.
TypeOK ==
    /\ rate \in Rates
    /\ active \subseteq Dirs
    /\ first \in 0 .. NChunks
    /\ frame_cycle \in 0 .. Period(rate) - 1
    /\ sent \in 0 .. Period(rate) - 1
    /\ blocks \in Int
    /\ tx_dbc \in 0 .. DbcWrap - 1
    /\ hwptr \in 0 .. Ring - 1 /\ hp \in 0 .. Ring - 1 /\ rp \in 0 .. Ring - 1
    /\ ready \in 0 .. Ahead
    /\ disposed \in 0 .. Span - 1 /\ next \in 0 .. Span - 1
    /\ late \in BOOLEAN
    /\ burst \in 0 .. NChunks

\* The device recovers its media clock from the number of frames in each
\* packet: after the n-th packet of a session exactly n * rate / 8000 frames,
\* rounded up, have been sent, as early as a nonblocking stream may send them
\* (dg00x_frames_this_packet).
Cadence ==
    active # {} =>
        Period(rate) * blocks - PeriodFrames(rate) * sent
            \in 0 .. Period(rate) - 1

\* The sender and the OSS layer agree, whatever the two have done to hwptr and to
\* the ring's pointers in between: as long as no packet was late the next packet
\* takes the frame that follows the last one sent.  Only where hwptr has restarted
\* at the end of a ring that the packets do not divide (810-811) it takes some
\* frames of the last packet again; it never skips one.
InStep ==
    "pb" \in active /\ ~late =>
        LET again == (next - (disposed + Pending)) % Span
        IN  again = 0 \/ (hwptr = 0 /\ again < MostFrames(rate))

\* The frame that leaves next: what the next packet would take.  On an underrun it
\* would take none.
Head == IF Pending < ready THEN disposed + Pending ELSE next

\* The ring is a queue: a frame is sent or lost once, in order, and only after
\* it has been written; an underrun sends silence, not what the ring held one
\* round before.  Again the exception is the end of the ring.
Queue == INSTANCE PcmQueue WITH
    most    <- MostFrames(rate),
    ring    <- Ring,
    playing <- "pb" \in active,
    head    <- IF "pb" \in active THEN Head % Span ELSE 0,
    sent    <- IF "pb" \in active THEN next ELSE 0,
    tail    <- IF "pb" \in active THEN (disposed + ready) % Span ELSE 0

PlaysQueue == Queue!Spec
=============================================================================
