------------------------------ MODULE PcmQueue ------------------------------
(***************************************************************************)
(* What a playback driver promises the sound layer: the ring is a queue.   *)
(* Frames enter at its tail, at most a ring of them is in it, and each     *)
(* leaves at its head once, sent to the device or lost in an underrun.     *)
(* The packet that reaches the end of the ring is an exception: what it    *)
(* has taken beyond the end leaves again.  Frames are numbered modulo      *)
(* Span, a multiple of the ring, so that going back is not mistaken for    *)
(* going on.                                                               *)
(***************************************************************************)
EXTENDS Integers

VARIABLES
    ring,      \* frames the ring holds
    most,      \* frames of the largest packet
    playing,
    head,      \* the frame that leaves next
    sent,      \* the frame after the last one known to have left
    tail       \* the frame that enters next

vars == <<ring, most, playing, head, sent, tail>>

Span == 4 * ring
Fill == (tail - head) % Span

Init ==
    /\ ring \in Nat \ {0} /\ most \in Nat \ {0}
    /\ playing = FALSE
    /\ head = 0 /\ sent = 0 /\ tail = 0

\* The ring starts over with some silence in it.
Start ==
    /\ ~playing
    /\ playing' = TRUE
    /\ head' = 0 /\ sent' = 0
    /\ tail' \in 0 .. ring
    /\ UNCHANGED <<ring, most>>

Stop ==
    /\ playing
    /\ playing' = FALSE
    /\ head' = 0 /\ sent' = 0 /\ tail' = 0
    /\ UNCHANGED <<ring, most>>

\* Frames enter and frames leave.  What has been sent is behind the head, unless
\* the head is at the end of the ring.
Move ==
    LET in  == (tail' - tail) % Span
        out == (head' - head) % Span
    IN  /\ playing
        /\ {head', sent', tail'} \subseteq 0 .. Span - 1
        /\ in <= ring
        /\ out <= Fill + in
        /\ Fill + in - out <= ring
        /\ (sent' - sent) % Span <= ring
        /\ \/ (head' - sent') % Span <= ring
           \/ (head' % ring = 0 /\ (sent' - head') % Span < most)
        /\ UNCHANGED <<ring, most, playing>>

Next == Start \/ Stop \/ Move

Spec == Init /\ [][Next]_vars
=============================================================================
