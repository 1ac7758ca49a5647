--------------------------- MODULE Dg00xRingProofs ---------------------------
(***************************************************************************)
(* Theorems about the playback ring of Dg00xPackets: the packets take its  *)
(* frames in step, and it is a queue.  They hold for every ring with room  *)
(* for the packets of a start and of a refill twice over, whether or not   *)
(* the packets divide it, however many of them are late, and whatever      *)
(* directions are started and stopped.                                     *)
(***************************************************************************)
EXTENDS Dg00xPacketsProofs

\* The packets that can go out between two calls of chn_intr are those of
\* start_tx and those of a refill.
Bound(r) == 2 * NChunks * MostFrames(r)

Roomy == \A r \in Rates : 2 * Bound(r) < RingOf[r]

-----------------------------------------------------------------------------
(* Positions on a circle of n                                              *)

\* How far a is ahead of b, and the position that is k ahead of a.
Dist(a, b, n) == (a - b) % n
Ahd(a, k, n) == (a + k) % n

LEMMA DistIs ==
    ASSUME NEW n \in Nat \ {0}, NEW a \in 0 .. n - 1, NEW b \in 0 .. n - 1
    PROVE  /\ Dist(a, b, n) = IF a >= b THEN a - b ELSE a - b + n
           /\ Dist(a, b, n) \in 0 .. n - 1
BY DEF Dist

LEMMA DistSelf ==
    ASSUME NEW n \in Nat \ {0}, NEW a \in 0 .. n - 1
    PROVE  Dist(a, a, n) = 0
<1>1. Dist(a, a, n) = a - a
  BY DistIs
<1>2. QED
  BY <1>1

LEMMA AhdIs ==
    ASSUME NEW n \in Nat \ {0}, NEW a \in 0 .. n - 1, NEW k \in 0 .. n
    PROVE  /\ Ahd(a, k, n) = IF a + k < n THEN a + k ELSE a + k - n
           /\ Ahd(a, k, n) \in 0 .. n - 1
<1>1. CASE a + k < n
  BY <1>1 DEF Ahd
<1>2. CASE a + k >= n
  BY <1>2 DEF Ahd
<1>3. QED
  BY <1>1, <1>2

\* Going k and then j ahead.
LEMMA AhdTwice ==
    ASSUME NEW n \in Nat \ {0}, NEW a \in 0 .. n - 1, NEW k \in Nat, NEW j \in Nat,
           k + j < n
    PROVE  Ahd(Ahd(a, k, n), j, n) = Ahd(a, k + j, n)
<1>1. k \in 0 .. n /\ j \in 0 .. n /\ k + j \in 0 .. n
  OBVIOUS
<1>2. /\ Ahd(a, k, n) = IF a + k < n THEN a + k ELSE a + k - n
      /\ Ahd(a, k, n) \in 0 .. n - 1
  BY <1>1, AhdIs
<1>3. Ahd(a, k + j, n) = IF a + (k + j) < n THEN a + (k + j) ELSE a + (k + j) - n
  BY <1>1, AhdIs
<1> DEFINE b == Ahd(a, k, n)
<1> HIDE DEF b
<1>4. b \in 0 .. n - 1 /\ b = IF a + k < n THEN a + k ELSE a + k - n
  BY <1>2 DEF b
<1>5. Ahd(b, j, n) = IF b + j < n THEN b + j ELSE b + j - n
  BY <1>1, <1>4, AhdIs
<1>6. QED
  BY <1>3, <1>4, <1>5 DEF b

\* How far the position k ahead of a is from that j ahead of a.
LEMMA AhdGap ==
    ASSUME NEW n \in Nat \ {0}, NEW a \in 0 .. n - 1,
           NEW k \in 0 .. n - 1, NEW j \in 0 .. n - 1
    PROVE  Dist(Ahd(a, k, n), Ahd(a, j, n), n) = IF k >= j THEN k - j ELSE k - j + n
<1> DEFINE x == Ahd(a, k, n)
           y == Ahd(a, j, n)
<1>1. k \in 0 .. n /\ j \in 0 .. n
  OBVIOUS
<1>2. /\ x = (IF a + k < n THEN a + k ELSE a + k - n) /\ x \in 0 .. n - 1
      /\ y = (IF a + j < n THEN a + j ELSE a + j - n) /\ y \in 0 .. n - 1
  BY <1>1, AhdIs
<1> HIDE DEF x, y
<1>3. Dist(x, y, n) = IF x >= y THEN x - y ELSE x - y + n
  BY <1>2, DistIs
<1>4. QED
  BY <1>2, <1>3 DEF x, y

-----------------------------------------------------------------------------
(* Offsets in a ring                                                       *)

\* A ring of n frames of which a are kept ready, packets of m or m - 1 frames,
\* of which b frames can go out between two interrupts.
Sizes(n, a, m, b) ==
    /\ n \in Nat \ {0} /\ a \in 0 .. n
    /\ m \in {6, 12} /\ b \in Nat /\ m <= b /\ 2 * b < n

\* How far the sender is ahead of the reader, when the last interrupt left it g
\* ahead and s frames have been sent since.
Ahead2(n, g, s) == IF g + s < n THEN g + s ELSE g + s - n

\* Frames known to have left are e ahead of those disposed of.  They are not more
\* than were sent, but for r frames of a packet cut short at the end of the ring,
\* or the sender has gone once round an idle ring.
Shape(n, a, m, b, g, s, e, r) ==
    /\ g \in 0 .. n - 1 /\ s \in 0 .. b /\ e \in 0 .. a /\ r \in {0, m - 1}
    /\ b <= a => g = 0
    /\ \/ e = 0
       \/ g <= a /\ e <= g + s + r
       \/ e <= g + s - n + r

\* How far the frame that leaves next is ahead of those disposed of.
Offset(n, a, g, s, e) == IF Ahead2(n, g, s) < a THEN Ahead2(n, g, s) ELSE e

LEMMA AheadRange ==
    ASSUME NEW n, NEW a, NEW m, NEW b, Sizes(n, a, m, b),
           NEW g, NEW s, NEW e, NEW r, Shape(n, a, m, b, g, s, e, r)
    PROVE  Ahead2(n, g, s) \in 0 .. n - 1 /\ Offset(n, a, g, s, e) \in 0 .. a
BY DEF Sizes, Shape, Ahead2, Offset

\* Where the sender still reads, what is known to have left is behind it.
LEMMA LeftBehind ==
    ASSUME NEW n, NEW a, NEW m, NEW b, Sizes(n, a, m, b),
           NEW g, NEW s, NEW e, NEW r, Shape(n, a, m, b, g, s, e, r),
           Ahead2(n, g, s) < a
    PROVE  e <= Ahead2(n, g, s) + r
BY DEF Sizes, Shape, Ahead2

\* What a packet of f frames reads, and what is known to have left after it.
Taken(n, a, g, s, f) ==
    IF Ahead2(n, g, s) >= a THEN 0
    ELSE IF a - Ahead2(n, g, s) < f THEN a - Ahead2(n, g, s) ELSE f

LeftAfter(n, a, g, s, e, f) ==
    IF Taken(n, a, g, s, f) = 0 THEN e ELSE Ahead2(n, g, s) + Taken(n, a, g, s, f)

\* The packet moves the sender by k, less than its frames only where it restarts
\* at the beginning of the ring; there r2 frames may be taken again.
PacketMoves(n, a, m, b, s, r, f, k, r2) ==
    /\ f \in {m - 1, m} /\ k \in 1 .. f /\ s + k <= b
    /\ r2 \in {0, m - 1} /\ (k = f \/ r2 = m - 1) /\ (r = 0 \/ k = f)

LEMMA PacketShape ==
    ASSUME NEW n, NEW a, NEW m, NEW b, Sizes(n, a, m, b),
           NEW g, NEW s, NEW e, NEW r, Shape(n, a, m, b, g, s, e, r),
           NEW f, NEW k, NEW r2, PacketMoves(n, a, m, b, s, r, f, k, r2)
    PROVE  LET e2 == LeftAfter(n, a, g, s, e, f)
           IN  /\ Shape(n, a, m, b, g, s + k, e2, r2)
               /\ e2 >= e
               /\ Offset(n, a, g, s + k, e2) >= Offset(n, a, g, s, e)
<1> DEFINE p == Ahead2(n, g, s)
           p2 == Ahead2(n, g, s + k)
           e2 == LeftAfter(n, a, g, s, e, f)
<1>1. /\ n \in Nat \ {0} /\ a \in 0 .. n
      /\ m \in {6, 12} /\ b \in Nat /\ m <= b /\ 2 * b < n
      /\ g \in 0 .. n - 1 /\ s \in 0 .. b /\ e \in 0 .. a /\ r \in {0, m - 1}
      /\ b <= a => g = 0
      /\ f \in {m - 1, m} /\ k \in 1 .. f /\ s + k <= b
      /\ r2 \in {0, m - 1} /\ (k = f \/ r2 = m - 1) /\ (r = 0 \/ k = f)
  BY DEF Sizes, Shape, PacketMoves
<1>2. \/ e = 0
      \/ g <= a /\ e <= g + s + r
      \/ e <= g + s - n + r
  BY DEF Shape
<1>3. /\ p = IF g + s < n THEN g + s ELSE g + s - n
      /\ p2 = IF g + s + k < n THEN g + s + k ELSE g + s + k - n
      /\ p \in 0 .. n - 1 /\ p2 \in 0 .. n - 1
  BY <1>1 DEF Ahead2
<1>4. p < a => e <= p + r
  BY LeftBehind
<1>5. /\ p >= a => e2 = e
      /\ p < a => e2 = IF a - p < f THEN a ELSE p + f
  <2> HIDE DEF p
  <2>1. e2 = IF (IF p >= a THEN 0 ELSE IF a - p < f THEN a - p ELSE f) = 0 THEN e
             ELSE p + (IF p >= a THEN 0 ELSE IF a - p < f THEN a - p ELSE f)
    BY DEF LeftAfter, Taken, p
  <2> HIDE DEF e2
  <2>2. QED
    BY <1>1, <1>3, <2>1
<1>6. /\ Offset(n, a, g, s + k, e2) = IF p2 < a THEN p2 ELSE e2
      /\ Offset(n, a, g, s, e) = IF p < a THEN p ELSE e
  BY DEF Offset
<1> HIDE DEF p, p2, e2
<1>7. CASE p >= a
  <2>1. e2 = e
    BY <1>5, <1>7
  <2>2. Shape(n, a, m, b, g, s + k, e, r2)
    BY <1>1, <1>2 DEF Shape
  <2>3. p2 < a => p2 >= e
    BY <1>1, <1>2, <1>3, <1>7
  <2>4. QED
    BY <1>1, <1>3, <1>6, <1>7, <2>1, <2>2, <2>3 DEF e2
<1>8. CASE p < a
  <2>1. e2 = IF a - p < f THEN a ELSE p + f
    BY <1>5, <1>8
  <2>2. e2 \in 0 .. a /\ e2 >= e /\ e2 >= p /\ e2 <= p + k + r2
    BY <1>1, <1>3, <1>4, <1>8, <2>1
  <2>3. \/ g <= a /\ e2 <= g + (s + k) + r2
        \/ e2 <= g + (s + k) - n + r2
    BY <1>1, <1>3, <1>8, <2>2
  <2>4. Shape(n, a, m, b, g, s + k, e2, r2)
    BY <1>1, <2>2, <2>3 DEF Shape
  <2>5. p2 < a => p2 >= p
    BY <1>1, <1>3, <1>8
  <2>6. QED
    BY <1>6, <1>8, <2>2, <2>4, <2>5 DEF e2
<1>9. QED
  BY <1>1, <1>3, <1>7, <1>8

\* The interrupt disposes of what was sent since the last one, as far as it was
\* ready; of frames it disposes of that had not left, it takes that they are lost.
Retired(a, s) == IF s < a THEN s ELSE a

GapAfter(n, a, g, s) ==
    IF g + s - Retired(a, s) < n THEN g + s - Retired(a, s)
    ELSE g + s - Retired(a, s) - n

LostAfter(a, s, e) == IF e < Retired(a, s) THEN 0 ELSE e - Retired(a, s)

LEMMA IntrShape ==
    ASSUME NEW n, NEW a, NEW m, NEW b, Sizes(n, a, m, b),
           NEW g, NEW s, NEW e, NEW r, Shape(n, a, m, b, g, s, e, r)
    PROVE  LET g2 == GapAfter(n, a, g, s)
               e2 == LostAfter(a, s, e)
           IN  /\ Shape(n, a, m, b, g2, 0, e2, r)
               /\ Retired(a, s) + e2 >= e
               /\ Retired(a, s) + Offset(n, a, g2, 0, e2) >= Offset(n, a, g, s, e)
<1> DEFINE x == Retired(a, s)
           g2 == GapAfter(n, a, g, s)
           e2 == LostAfter(a, s, e)
           p == Ahead2(n, g, s)
           p2 == Ahead2(n, g2, 0)
<1>1. /\ n \in Nat \ {0} /\ a \in 0 .. n
      /\ m \in {6, 12} /\ b \in Nat /\ m <= b /\ 2 * b < n
      /\ g \in 0 .. n - 1 /\ s \in 0 .. b /\ e \in 0 .. a /\ r \in {0, m - 1}
      /\ b <= a => g = 0
  BY DEF Sizes, Shape
<1>2. \/ e = 0
      \/ g <= a /\ e <= g + s + r
      \/ e <= g + s - n + r
  BY DEF Shape
<1>3. /\ x = IF s < a THEN s ELSE a
      /\ g2 = IF g + s - x < n THEN g + s - x ELSE g + s - x - n
      /\ e2 = IF e < x THEN 0 ELSE e - x
  BY DEF Retired, GapAfter, LostAfter
<1>4. /\ Offset(n, a, g2, 0, e2) = IF p2 < a THEN p2 ELSE e2
      /\ Offset(n, a, g, s, e) = IF p < a THEN p ELSE e
  BY DEF Offset
<1>5. p = IF g + s < n THEN g + s ELSE g + s - n
  BY DEF Ahead2
<1>6. p2 = IF g2 + 0 < n THEN g2 + 0 ELSE g2 + 0 - n
  BY DEF Ahead2
<1> HIDE DEF x, g2, e2, p, p2
<1>7. CASE s <= a
  <2>1. x = s /\ g2 = g
    BY <1>1, <1>3, <1>7
  <2>2. p2 = g
    BY <1>1, <1>6, <2>1
  <2>3. e2 \in 0 .. a /\ s + e2 >= e /\ (e2 = 0 \/ e2 = e - s)
    BY <1>1, <1>3, <1>7, <2>1
  <2>4. \/ e2 = 0
        \/ g <= a /\ e2 <= g + 0 + r
        \/ e2 <= g + 0 - n + r
    BY <1>1, <1>2, <2>3
  <2>5. Shape(n, a, m, b, g2, 0, e2, r)
    BY <1>1, <2>1, <2>3, <2>4 DEF Shape
  <2>6. s + (IF p2 < a THEN p2 ELSE e2) >= IF p < a THEN p ELSE e
    BY <1>1, <1>2, <1>5, <2>2, <2>3
  <2>7. QED
    BY <1>4, <2>1, <2>3, <2>5, <2>6 DEF x, g2, e2
<1>8. CASE s > a
  <2>1. x = a /\ e2 = 0 /\ g2 \in 0 .. n - 1
    BY <1>1, <1>3, <1>8
  <2>2. p2 = g2
    BY <1>1, <1>6, <2>1
  <2>3. Shape(n, a, m, b, g2, 0, e2, r)
    BY <1>1, <1>8, <2>1 DEF Shape
  <2>4. a + (IF p2 < a THEN p2 ELSE e2) >= IF p < a THEN p ELSE e
    BY <1>1, <1>5, <2>1, <2>2
  <2>5. QED
    BY <1>1, <1>4, <2>1, <2>3, <2>4 DEF x, g2, e2
<1>9. QED
  BY <1>1, <1>7, <1>8

-----------------------------------------------------------------------------
(* The invariant of the ring                                               *)

\* What the sender is ahead by: of the read pointer, at the last interrupt (late
\* packets only) and since then; and what is known to have left.
Gap   == (hp - rp) % Ring
Since == (hwptr - hp) % Ring
Out   == (next - disposed) % Span

\* Frames that the next packet may take again.
Again == IF hwptr = 0 THEN MostFrames(rate) - 1 ELSE 0

\* If no packet was late, all that was sent was ready, and the interrupt has
\* disposed of all that was sent before it.
Punctual ==
    ~late => Gap = 0 /\ Since <= Out /\ Out <= Since + Again /\ Since <= Ahead

\* The sender is not further ahead than the packets of a start and a refill.
Paced == Since <= MostFrames(rate) * (burst + NChunks - first)

RingShape ==
    /\ ready = Ahead
    /\ disposed - rp \in {0, Ring, 2 * Ring, 3 * Ring}
    /\ Shape(Ring, Ahead, MostFrames(rate), Bound(rate), Gap, Since, Out, Again)
    /\ Paced /\ Punctual

RingInv == TypeOK /\ ("pb" \in active => RingShape)

LEMMA MostRange == MostFrames(rate) \in {6, 12}
BY DEF MostFrames

LEMMA FramesRange ==
    ASSUME TypeOK
    PROVE  FramesThisPacket(rate, frame_cycle)
             \in {MostFrames(rate) - 1, MostFrames(rate)}
BY RatesAssumption DEF TypeOK, FramesThisPacket, MostFrames

LEMMA RingSizes ==
    ASSUME Roomy, rate \in Rates
    PROVE  /\ Sizes(Ring, Ahead, MostFrames(rate), Bound(rate))
           /\ Ring \in Nat \ {0} /\ Span = 4 * Ring /\ Span \in Nat \ {0}
           /\ Ahead \in 0 .. Ring
           /\ Bound(rate) = 2 * NChunks * MostFrames(rate)
<1>1. Ring \in Nat \ {0} /\ Ahead \in 0 .. Ring /\ Span = 4 * Ring
  BY RingAssumption DEF Ring, Ahead, Span
<1>2. 2 * Bound(rate) < Ring
  BY DEF Roomy, Ring
<1>3. MostFrames(rate) \in {6, 12} /\ NChunks \in Nat \ {0}
  BY MostRange, ChunksAssumption
<1> HIDE DEF Ring, Ahead, Span
<1>4. Bound(rate) \in Nat /\ MostFrames(rate) <= Bound(rate)
  BY <1>3 DEF Bound
<1>5. Span \in Nat \ {0}
  BY <1>1
<1>6. Bound(rate) = 2 * NChunks * MostFrames(rate)
  BY DEF Bound
<1>7. QED
  BY <1>1, <1>2, <1>3, <1>4, <1>5, <1>6 DEF Sizes

\* Distances in a ring add up.
LEMMA DistAdds ==
    ASSUME NEW n \in Nat \ {0}, NEW h \in 0 .. n - 1, NEW p \in 0 .. n - 1,
           NEW r \in 0 .. n - 1
    PROVE  Dist(h, r, n) = Ahead2(n, Dist(p, r, n), Dist(h, p, n))
<1>1. /\ Dist(p, r, n) = IF p >= r THEN p - r ELSE p - r + n
      /\ Dist(h, p, n) = IF h >= p THEN h - p ELSE h - p + n
      /\ Dist(h, r, n) = IF h >= r THEN h - r ELSE h - r + n
  BY DistIs
<1> DEFINE x == Dist(p, r, n)
           y == Dist(h, p, n)
<1>2. Ahead2(n, x, y) = IF x + y < n THEN x + y ELSE x + y - n
  BY DEF Ahead2
<1> HIDE DEF x, y
<1>3. QED
  BY <1>1, <1>2 DEF x, y

\* The sender goes on by k.
LEMMA SenderMoves ==
    ASSUME NEW n \in Nat \ {0}, NEW h \in 0 .. n - 1, NEW p \in 0 .. n - 1,
           NEW f \in 0 .. 12, NEW k, NEW g,
           h + f >= n => g = 0 /\ k = n - h,
           h + f < n => g = h + f /\ k = f,
           Dist(h, p, n) + k < n
    PROVE  Dist(g, p, n) = Dist(h, p, n) + k
<1>1. g \in 0 .. n - 1
  OBVIOUS
<1>2. Dist(h, p, n) = IF h >= p THEN h - p ELSE h - p + n
  BY DistIs
<1>3. Dist(g, p, n) = IF g >= p THEN g - p ELSE g - p + n
  BY <1>1, DistIs
<1>4. QED
  BY <1>2, <1>3

\* The reader goes on by x, not past the sender.
LEMMA ReaderMoves ==
    ASSUME NEW n \in Nat \ {0}, NEW a \in 0 .. n, NEW h \in 0 .. n - 1,
           NEW p \in 0 .. n - 1, NEW r \in 0 .. n - 1
    PROVE  Dist(h, Ahd(r, Retired(a, Dist(h, p, n)), n), n)
             = GapAfter(n, a, Dist(p, r, n), Dist(h, p, n))
<1> DEFINE g == Dist(p, r, n)
           s == Dist(h, p, n)
           x == Retired(a, s)
           q == Ahd(r, x, n)
<1>1. /\ g = (IF p >= r THEN p - r ELSE p - r + n) /\ g \in 0 .. n - 1
      /\ s = (IF h >= p THEN h - p ELSE h - p + n) /\ s \in 0 .. n - 1
  BY DistIs
<1> HIDE DEF g, s
<1>2. x = IF s < a THEN s ELSE a
  BY DEF Retired
<1>3. GapAfter(n, a, g, s) = IF g + s - x < n THEN g + s - x ELSE g + s - x - n
  BY DEF GapAfter
<1> HIDE DEF x
<1>4. x \in 0 .. n /\ x <= s
  BY <1>1, <1>2
<1>5. q = (IF r + x < n THEN r + x ELSE r + x - n) /\ q \in 0 .. n - 1
  BY <1>4, AhdIs
<1> HIDE DEF q
<1>6. Dist(h, q, n) = IF h >= q THEN h - q ELSE h - q + n
  BY <1>5, DistIs
<1>7. Dist(h, q, n) = IF g + s - x < n THEN g + s - x ELSE g + s - x - n
  BY <1>1, <1>2, <1>4, <1>5, <1>6
<1>8. QED
  BY <1>3, <1>7 DEF q, x, s, g

\* The positions as distances.
LEMMA Positions ==
    ASSUME Roomy, TypeOK
    PROVE  /\ Gap = Dist(hp, rp, Ring) /\ Gap \in 0 .. Ring - 1
           /\ Since = Dist(hwptr, hp, Ring) /\ Since \in 0 .. Ring - 1
           /\ Out = Dist(next, disposed, Span) /\ Out \in 0 .. Span - 1
           /\ Pending = Dist(hwptr, rp, Ring)
           /\ Pending = Ahead2(Ring, Gap, Since) /\ Pending \in 0 .. Ring - 1
           /\ next = Ahd(disposed, Out, Span)
<1>1. /\ Ring \in Nat \ {0} /\ Span \in Nat \ {0}
      /\ hwptr \in 0 .. Ring - 1 /\ hp \in 0 .. Ring - 1 /\ rp \in 0 .. Ring - 1
      /\ disposed \in 0 .. Span - 1 /\ next \in 0 .. Span - 1
  BY RingSizes DEF TypeOK
<1>2. /\ Gap = Dist(hp, rp, Ring) /\ Since = Dist(hwptr, hp, Ring)
      /\ Out = Dist(next, disposed, Span) /\ Pending = Dist(hwptr, rp, Ring)
  BY DEF Gap, Since, Out, Pending, Dist
<1> HIDE DEF Gap, Since, Out, Pending, Ring, Span
<1>3. /\ Gap \in 0 .. Ring - 1 /\ Since \in 0 .. Ring - 1
      /\ Out \in 0 .. Span - 1 /\ Pending \in 0 .. Ring - 1
  BY <1>1, <1>2, DistIs
<1>4. Pending = Ahead2(Ring, Gap, Since)
  BY <1>1, <1>2, DistAdds
<1>5. next = Ahd(disposed, Out, Span)
  <2>1. Out = IF next >= disposed THEN next - disposed ELSE next - disposed + Span
    BY <1>1, <1>2, DistIs
  <2>2. Out \in 0 .. Span
    BY <1>1, <1>3
  <2>3. Ahd(disposed, Out, Span)
          = IF disposed + Out < Span THEN disposed + Out ELSE disposed + Out - Span
    BY <1>1, <2>2, AhdIs
  <2>4. QED
    BY <1>1, <2>1, <2>3
<1>6. QED
  BY <1>2, <1>3, <1>4, <1>5

-----------------------------------------------------------------------------
(* What a packet and an interrupt do to the positions                      *)

LEMMA AhdDist ==
    ASSUME NEW n \in Nat \ {0}, NEW a \in 0 .. n - 1, NEW k \in 0 .. n - 1
    PROVE  Dist(Ahd(a, k, n), a, n) = k
<1>1. k \in 0 .. n
  OBVIOUS
<1> DEFINE x == Ahd(a, k, n)
<1>2. x = (IF a + k < n THEN a + k ELSE a + k - n) /\ x \in 0 .. n - 1
  BY <1>1, AhdIs
<1> HIDE DEF x
<1>3. Dist(x, a, n) = IF x >= a THEN x - a ELSE x - a + n
  BY <1>2, DistIs
<1>4. QED
  BY <1>2, <1>3 DEF x

HeadOffset == Offset(Ring, Ahead, Gap, Since, Out)

\* A packet keeps the shape of the ring; what leaves next and what is known to
\* have left go on.
LEMMA RingFill ==
    ASSUME Roomy, TypeOK, RingShape, FillTxChunk, UNCHANGED <<rate, active>>,
           TypeOK',
           Since + MostFrames(rate) <= Bound(rate),
           burst' + NChunks - first' = burst + NChunks - first + 1
    PROVE  RingShape' /\ disposed' = disposed /\ Out' >= Out /\ HeadOffset' >= HeadOffset
<1> DEFINE f == FramesThisPacket(rate, frame_cycle)
           m == MostFrames(rate)
           b == Bound(rate)
           read == Readable(f)
           k == IF hwptr + f >= Ring THEN Ring - hwptr ELSE f
           e2 == LeftAfter(Ring, Ahead, Gap, Since, Out, f)
<1>1. /\ hwptr' = Advanced(hwptr, f)
      /\ next' = IF read = 0 THEN next ELSE (disposed + Pending + read) % Span
      /\ late' = (late \/ read < f)
      /\ UNCHANGED <<hp, rp, ready, disposed>>
  BY Zenon DEF FillTxChunk, Packet, sndbuf
<1>2. /\ Sizes(Ring, Ahead, m, b)
      /\ Ring \in Nat \ {0} /\ Span = 4 * Ring /\ Span \in Nat \ {0}
      /\ Ahead \in 0 .. Ring
  BY RingSizes DEF TypeOK
<1>3. /\ Ring' = Ring /\ Span' = Span /\ Ahead' = Ahead
      /\ MostFrames(rate') = m /\ Bound(rate') = b
  BY DEF Ring, Span, Ahead
<1>4. f \in {m - 1, m} /\ m \in {6, 12}
  BY FramesRange, MostRange
<1>5. /\ Gap = Dist(hp, rp, Ring) /\ Gap \in 0 .. Ring - 1
      /\ Since = Dist(hwptr, hp, Ring) /\ Since \in 0 .. Ring - 1
      /\ Out = Dist(next, disposed, Span) /\ Out \in 0 .. Span - 1
      /\ Pending = Ahead2(Ring, Gap, Since) /\ Pending \in 0 .. Ring - 1
  BY Positions
<1>6. /\ ready = Ahead /\ disposed - rp \in {0, Ring, 2 * Ring, 3 * Ring}
      /\ Shape(Ring, Ahead, m, b, Gap, Since, Out, Again)
      /\ Since <= m * (burst + NChunks - first)
      /\ ~late => Gap = 0 /\ Since <= Out /\ Out <= Since + Again /\ Since <= Ahead
  BY DEF RingShape, Paced, Punctual
<1>7. /\ hwptr \in 0 .. Ring - 1 /\ hp \in 0 .. Ring - 1
      /\ disposed \in 0 .. Span - 1 /\ Since + m <= b
  BY DEF TypeOK
<1>8. /\ Again = IF hwptr = 0 THEN m - 1 ELSE 0
      /\ Again' = IF hwptr' = 0 THEN m - 1 ELSE 0
  BY <1>3 DEF Again
<1>9. hwptr' = IF hwptr + f >= Ring THEN 0 ELSE hwptr + f
  BY <1>1 DEF Advanced
<1>10. read = IF Pending > ready THEN 0
              ELSE IF ready - Pending < f THEN ready - Pending ELSE f
  BY DEF Readable
<1>11. 2 * b < Ring /\ b \in Nat
  BY <1>2 DEF Sizes
<1>12. /\ Taken(Ring, Ahead, Gap, Since, f)
           = IF Pending >= Ahead THEN 0
             ELSE IF Ahead - Pending < f THEN Ahead - Pending ELSE f
       /\ e2 = IF Taken(Ring, Ahead, Gap, Since, f) = 0 THEN Out
               ELSE Pending + Taken(Ring, Ahead, Gap, Since, f)
  BY <1>5 DEF Taken, LeftAfter
<1> DEFINE taken == Taken(Ring, Ahead, Gap, Since, f)
<1> HIDE DEF f, m, b, read, k, e2, taken, Ring, Span, Ahead, Gap, Since, Out, Pending, Again
<1>13. k = (IF hwptr + f >= Ring THEN Ring - hwptr ELSE f) /\ k \in 1 .. f
  BY <1>4, <1>7, <1>2 DEF k
<1>14. PacketMoves(Ring, Ahead, m, b, Since, Again, f, k, Again')
  <2>1. Since + k <= b
    BY <1>4, <1>5, <1>7, <1>11, <1>13
  <2>2. k = f \/ Again' = m - 1
    BY <1>8, <1>9, <1>13
  <2>3. Again = 0 \/ k = f
    BY <1>2, <1>4, <1>5, <1>7, <1>8, <1>11, <1>13
  <2>4. Again' \in {0, m - 1}
    BY <1>8
  <2>5. QED
    BY <1>4, <1>13, <2>1, <2>2, <2>3, <2>4 DEF PacketMoves
<1>15. /\ Shape(Ring, Ahead, m, b, Gap, Since + k, e2, Again')
       /\ e2 >= Out
       /\ Offset(Ring, Ahead, Gap, Since + k, e2) >= Offset(Ring, Ahead, Gap, Since, Out)
  BY <1>2, <1>6, <1>14, PacketShape DEF e2
<1>16. Since' = Since + k
  <2>1. f \in 0 .. 12
    BY <1>4
  <2>2. Dist(hwptr, hp, Ring) + k < Ring
    <3>1. Since + k < Ring
      BY <1>2, <1>4, <1>5, <1>7, <1>11, <1>13
    <3>2. QED
      BY <1>5, <3>1
  <2>3. Dist(hwptr', hp, Ring) = Since + k
    <3>1. /\ hwptr + f >= Ring => hwptr' = 0 /\ k = Ring - hwptr
          /\ hwptr + f < Ring => hwptr' = hwptr + f /\ k = f
      BY <1>2, <1>7, <1>9, <1>13, <2>1
    <3>2. Ring \in Nat \ {0} /\ hwptr \in 0 .. Ring - 1 /\ hp \in 0 .. Ring - 1
      BY <1>2, <1>7
    <3>3. Dist(hwptr', hp, Ring) = Dist(hwptr, hp, Ring) + k
      BY <2>1, <2>2, <3>1, <3>2, SenderMoves
    <3>4. QED
      BY <1>5, <3>3
  <2>4. QED
    BY <1>1, <1>3, <2>3 DEF Since, Dist
<1>17. Gap' = Gap
  BY <1>1, <1>3 DEF Gap
<1>18. taken = read
  BY <1>2, <1>4, <1>5, <1>6, <1>10, <1>12 DEF taken
<1>19. e2 = (IF read = 0 THEN Out ELSE Pending + read) /\ read \in 0 .. f
  <2>1. read \in 0 .. f
    BY <1>2, <1>4, <1>5, <1>6, <1>10
  <2>2. QED
    BY <1>12, <1>18, <2>1 DEF taken
<1>20. Out' = e2
  <2>1. Out' = Dist(next', disposed, Span)
    BY <1>1, <1>3 DEF Out, Dist
  <2>2. CASE read = 0
    BY <1>1, <1>5, <1>19, <2>1, <2>2
  <2>3. CASE read # 0
    <3>1. Pending + read \in 0 .. Span - 1
      BY <1>2, <1>4, <1>5, <1>6, <1>10, <1>19, <2>3
    <3>2. disposed + Pending + read = disposed + (Pending + read)
      BY <1>4, <1>5, <1>7, <1>19, <1>2
    <3>3. next' = Ahd(disposed, Pending + read, Span)
      BY <1>1, <2>3, <3>2 DEF Ahd
    <3>4. Dist(next', disposed, Span) = Pending + read
      BY <1>2, <1>7, <3>1, <3>3, AhdDist
    <3>5. QED
      BY <1>19, <2>1, <2>3, <3>4
  <2>4. QED
    BY <2>2, <2>3
<1>21. Punctual'
  <2> SUFFICES ASSUME ~late'
               PROVE  /\ Gap' = 0 /\ Since' <= Out' /\ Out' <= Since' + Again'
                      /\ Since' <= Ahead'
    BY DEF Punctual
  <2>1. ~late /\ ~(read < f)
    BY <1>1
  <2>2. Gap = 0 /\ Since <= Out /\ Out <= Since + Again /\ Since <= Ahead
    BY <1>6, <2>1
  <2>3. read = f /\ f > 0
    BY <1>4, <1>19, <2>1
  <2>4. Pending = Since
    BY <1>2, <1>5, <2>2 DEF Ahead2
  <2>5. Since + f <= Ahead
    BY <1>2, <1>4, <1>5, <1>6, <1>10, <2>3, <2>4
  <2>6. e2 = Since + f
    BY <1>19, <2>3, <2>4
  <2>7. f <= k + Again'
    BY <1>2, <1>4, <1>7, <1>8, <1>9, <1>13
  <2>8. Again' \in {0, m - 1}
    BY <1>8
  <2>9. QED
    <3>1. Since \in Int /\ k \in Int /\ f \in Int /\ k <= f
      BY <1>4, <1>5, <1>13
    <3>2. Again' \in Int /\ Ahead \in Int
      BY <1>2, <1>4, <2>8
    <3>3. Since + k <= Since + f
      BY <3>1
    <3>4. Since + f <= Since + k + Again'
      <4>1. \A x, y, z, w \in Int : y <= z + w => x + y <= x + z + w
        OBVIOUS
      <4>2. QED
        BY <2>7, <3>1, <3>2, <4>1, Zenon
    <3>5. Since + k <= Ahead
      BY <2>5, <3>1, <3>2
    <3>6. QED
      BY <1>3, <1>16, <1>17, <1>20, <2>2, <2>6, <3>3, <3>4, <3>5
<1>22. Paced'
  <2>1. burst' \in Nat /\ first' \in Nat /\ burst \in Nat /\ first \in Nat /\ NChunks \in Nat
    BY ChunksAssumption DEF TypeOK
  <2>2. Since + k <= m * (burst + NChunks - first + 1)
    BY <1>4, <1>5, <1>6, <1>13, <2>1
  <2>3. QED
    BY <1>3, <1>16, <2>2 DEF Paced
<1>23. RingShape'
  <2>1. Shape(Ring, Ahead, m, b, Gap, Since, Out, Again)'
    BY <1>3, <1>15, <1>16, <1>17, <1>20 DEF m, b
  <2>2. QED
    BY <1>1, <1>3, <1>6, <1>21, <1>22, <2>1 DEF RingShape, m, b
<1>24. HeadOffset' >= HeadOffset
  BY <1>3, <1>15, <1>16, <1>17, <1>20 DEF HeadOffset
<1>25. QED
  BY <1>1, <1>15, <1>20, <1>23, <1>24

\* So does an interrupt, which disposes of Amount frames.
Amount == Retired(Ahead, Since)

LEMMA RingIntr ==
    ASSUME Roomy, TypeOK, RingShape, Intr
    PROVE  /\ RingShape' /\ disposed' = Ahd(disposed, Amount, Span)
           /\ Amount \in 0 .. Ahead
           /\ Amount + Out' >= Out /\ Amount + Out' <= Ahead
           /\ Amount + HeadOffset' >= HeadOffset
<1> DEFINE m == MostFrames(rate)
           b == Bound(rate)
           delta == (Ring + hwptr - hp) % Ring
           amt   == IF delta < ready THEN delta ELSE ready
           g2 == GapAfter(Ring, Ahead, Gap, Since)
           e2 == LostAfter(Ahead, Since, Out)
<1>1. /\ hp' = hwptr /\ hwptr' = hwptr /\ rate' = rate /\ late' = late
      /\ first' = first
      /\ rp' = (rp + amt) % Ring
      /\ disposed' = (disposed + amt) % Span
      /\ ready' = Ahead
      /\ next' = IF Past(next, disposed') THEN disposed' ELSE next
      /\ burst' = 0
  BY Zenon DEF Intr
<1>2. /\ Sizes(Ring, Ahead, m, b)
      /\ Ring \in Nat \ {0} /\ Span = 4 * Ring /\ Span \in Nat \ {0}
      /\ Ahead \in 0 .. Ring /\ b = 2 * NChunks * m
  BY RingSizes DEF TypeOK
<1>3. /\ Ring' = Ring /\ Span' = Span /\ Ahead' = Ahead
      /\ MostFrames(rate') = m /\ Bound(rate') = b
  BY <1>1 DEF Ring, Span, Ahead
<1>4. m \in {6, 12}
  BY MostRange
<1>5. /\ Gap = Dist(hp, rp, Ring) /\ Gap \in 0 .. Ring - 1
      /\ Since = Dist(hwptr, hp, Ring) /\ Since \in 0 .. Ring - 1
      /\ Out = Dist(next, disposed, Span) /\ Out \in 0 .. Span - 1
      /\ next = Ahd(disposed, Out, Span)
  BY Positions
<1>6. /\ ready = Ahead /\ disposed - rp \in {0, Ring, 2 * Ring, 3 * Ring}
      /\ Shape(Ring, Ahead, m, b, Gap, Since, Out, Again)
      /\ Since <= m * (burst + NChunks - first)
      /\ ~late => Gap = 0 /\ Since <= Out /\ Out <= Since + Again /\ Since <= Ahead
  BY DEF RingShape, Paced, Punctual
<1>7. /\ hwptr \in 0 .. Ring - 1 /\ hp \in 0 .. Ring - 1 /\ rp \in 0 .. Ring - 1
      /\ disposed \in 0 .. Span - 1 /\ next \in 0 .. Span - 1
      /\ first \in 0 .. NChunks
  BY DEF TypeOK
<1>8. Again' = Again
  BY <1>1 DEF Again
<1>9. Out \in 0 .. Ahead /\ Again \in {0, m - 1}
  BY <1>6 DEF Shape
<1> HIDE DEF m, b, delta, amt, g2, e2, Ring, Span, Ahead, Gap, Since, Out, Again
<1>10. delta = Since
  <2>1. Since = IF hwptr >= hp THEN hwptr - hp ELSE hwptr - hp + Ring
    BY <1>2, <1>5, <1>7, DistIs
  <2>2. Ring + hwptr - hp = IF hwptr >= hp THEN Ring + Since ELSE Since
    BY <1>2, <1>7, <2>1
  <2>3. delta = (Ring + hwptr - hp) % Ring
    BY DEF delta
  <2>4. QED
    BY <1>2, <1>5, <2>2, <2>3
<1>11. amt = Amount /\ Amount = IF Since < Ahead THEN Since ELSE Ahead
  BY <1>6, <1>10 DEF amt, Amount, Retired
<1>12. Amount \in 0 .. Ahead
  BY <1>2, <1>5, <1>11
<1>13. disposed' = Ahd(disposed, Amount, Span) /\ rp' = Ahd(rp, Amount, Ring)
  BY <1>1, <1>11 DEF Ahd
<1>14. /\ Shape(Ring, Ahead, m, b, g2, 0, e2, Again)
       /\ Amount + e2 >= Out
       /\ Amount + Offset(Ring, Ahead, g2, 0, e2) >= Offset(Ring, Ahead, Gap, Since, Out)
  BY <1>2, <1>6, IntrShape DEF Amount, g2, e2
<1>15. Since' = 0
  <2>1. Since' = Dist(hwptr, hwptr, Ring)
    BY <1>1, <1>3 DEF Since, Dist
  <2>2. QED
    BY <1>2, <1>7, <2>1, DistSelf
<1>16. Gap' = g2
  <2>1. Gap' = Dist(hwptr, Ahd(rp, Amount, Ring), Ring)
    BY <1>1, <1>3, <1>13 DEF Gap, Dist
  <2>2. QED
    BY <1>2, <1>5, <1>7, <2>1, ReaderMoves DEF Amount, g2
<1>17. /\ disposed' = IF disposed + Amount < Span THEN disposed + Amount
                      ELSE disposed + Amount - Span
       /\ disposed' \in 0 .. Span - 1
       /\ rp' = IF rp + Amount < Ring THEN rp + Amount ELSE rp + Amount - Ring
  <2>1. Amount \in 0 .. Span /\ Amount \in 0 .. Ring
    BY <1>2, <1>12
  <2>2. QED
    BY <1>2, <1>7, <1>13, <2>1, AhdIs
<1>18. disposed' - rp' \in {0, Ring, 2 * Ring, 3 * Ring}
  BY <1>2, <1>6, <1>7, <1>12, <1>17
<1>19. e2 = IF Out < Amount THEN 0 ELSE Out - Amount
  BY DEF e2, LostAfter, Amount
<1>20. Out' = e2
  <2>1. Out' = Dist(next', disposed', Span)
    BY <1>3 DEF Out, Dist
  <2>2. Out = IF next >= disposed THEN next - disposed ELSE next - disposed + Span
    BY <1>2, <1>5, <1>7, DistIs
  <2>3. Dist(disposed', next, Span)
          = IF disposed' >= next THEN disposed' - next ELSE disposed' - next + Span
    BY <1>2, <1>7, <1>17, DistIs
  <2>4. Past(next, disposed') <=> Dist(disposed', next, Span) \in 1 .. 2 * Ring
    <3>1. Span \div 2 = 2 * Ring
      BY <1>2
    <3>2. QED
      BY <3>1 DEF Past, Dist
  <2>5. Past(next, disposed') <=> Out < Amount
    BY <1>2, <1>7, <1>9, <1>12, <1>17, <2>2, <2>3, <2>4
  <2>6. CASE Out < Amount
    <3>1. next' = disposed'
      BY <1>1, <2>5, <2>6
    <3>2. Dist(disposed', disposed', Span) = 0
      BY <1>2, <1>17, DistSelf
    <3>3. QED
      BY <1>19, <2>1, <2>6, <3>1, <3>2
  <2>7. CASE ~(Out < Amount)
    <3>1. next' = next
      BY <1>1, <2>5, <2>7
    <3>2. Dist(next, disposed', Span)
            = IF next >= disposed' THEN next - disposed' ELSE next - disposed' + Span
      BY <1>2, <1>7, <1>17, DistIs
    <3>3. Dist(next, disposed', Span) = Out - Amount
      BY <1>2, <1>7, <1>9, <1>12, <1>17, <2>2, <2>7, <3>2
    <3>4. QED
      BY <1>19, <2>1, <2>7, <3>1, <3>3
  <2>8. QED
    BY <2>6, <2>7
<1>21. Punctual'
  <2> SUFFICES ASSUME ~late
               PROVE  /\ Gap' = 0 /\ Since' <= Out' /\ Out' <= Since' + Again'
                      /\ Since' <= Ahead'
    BY <1>1 DEF Punctual
  <2>1. Gap = 0 /\ Since <= Out /\ Out <= Since + Again /\ Since <= Ahead
    BY <1>6
  <2>2. Amount = Since
    BY <1>2, <1>5, <1>11, <2>1
  <2>3. e2 = Out - Since
    <3>1. Out \in Int /\ Since \in Int /\ ~(Out < Since)
      BY <1>2, <1>5, <2>1
    <3>2. e2 = IF Out < Since THEN 0 ELSE Out - Since
      BY <1>19, <2>2
    <3>3. QED
      BY <3>1, <3>2
  <2>4. g2 = 0
    <3>1. g2 = IF Gap + Since - Amount < Ring THEN Gap + Since - Amount
               ELSE Gap + Since - Amount - Ring
      BY DEF g2, GapAfter, Amount
    <3>2. QED
      BY <1>2, <1>5, <2>1, <2>2, <3>1
  <2>5. QED
    <3>1. 0 <= Out - Since /\ Out - Since <= 0 + Again /\ 0 <= Ahead
      BY <1>2, <1>4, <1>5, <1>9, <2>1
    <3>2. QED
      BY <1>3, <1>8, <1>15, <1>16, <1>20, <2>3, <2>4, <3>1
<1>22. Paced'
  <2>1. 0 <= m * (0 + NChunks - first)
    BY <1>4, <1>7, ChunksAssumption
  <2>2. QED
    BY <1>1, <1>3, <1>15, <2>1 DEF Paced
<1>23. RingShape'
  <2>1. Shape(Ring, Ahead, m, b, Gap, Since, Out, Again)'
    BY <1>3, <1>8, <1>14, <1>15, <1>16, <1>20 DEF m, b
  <2>2. QED
    BY <1>1, <1>3, <1>18, <1>21, <1>22, <2>1 DEF RingShape, m, b
<1>24. Amount + Out' >= Out /\ Amount + HeadOffset' >= HeadOffset
  BY <1>3, <1>14, <1>15, <1>16, <1>20 DEF HeadOffset
<1>25. Amount + Out' <= Ahead
  BY <1>2, <1>9, <1>12, <1>19, <1>20
<1>26. QED
  BY <1>12, <1>13, <1>23, <1>24, <1>25

-----------------------------------------------------------------------------
LEMMA RingStart ==
    ASSUME Roomy, TypeOK, TypeOK', Start("pb")
    PROVE  RingShape'
<1>1. /\ rate' = rate /\ hwptr' = 0 /\ hp' = 0 /\ rp' = 0
      /\ disposed' = 0 /\ next' = 0 /\ ready' = Ahead /\ burst' = 0
  BY DEF Start, Prefilled
<1>2. /\ Ring' = Ring /\ Span' = Span /\ Ahead' = Ahead
      /\ MostFrames(rate') = MostFrames(rate) /\ Bound(rate') = Bound(rate)
  BY <1>1 DEF Ring, Span, Ahead
<1>3. /\ Sizes(Ring, Ahead, MostFrames(rate), Bound(rate))
      /\ Ring \in Nat \ {0} /\ Span \in Nat \ {0} /\ Ahead \in 0 .. Ring
      /\ MostFrames(rate) \in {6, 12}
  BY RingSizes, MostRange DEF TypeOK
<1>4. Gap' = 0 /\ Since' = 0 /\ Out' = 0
  <2>1. Gap' = 0 % Ring /\ Since' = 0 % Ring /\ Out' = 0 % Span
    BY <1>1, <1>2 DEF Gap, Since, Out
  <2>2. 0 % Ring = 0 /\ 0 % Span = 0
    <3> HIDE DEF Ring, Span
    <3>1. QED
      BY <1>3
  <2>3. QED
    BY <2>1, <2>2
<1>5. Again' = MostFrames(rate) - 1
  BY <1>1, <1>2 DEF Again
<1> HIDE DEF Ring, Ahead, Span, Gap, Since, Out, Again
<1>6. Shape(Ring, Ahead, MostFrames(rate), Bound(rate), 0, 0, 0, Again')
  BY <1>3, <1>5 DEF Shape, Sizes
<1>7. Punctual'
  BY <1>2, <1>3, <1>4, <1>5 DEF Punctual
<1>8. Paced'
  <2>1. first' \in 0 .. NChunks /\ NChunks \in Nat
    BY ChunksAssumption DEF TypeOK
  <2>2. 0 <= MostFrames(rate) * (0 + NChunks - first')
    BY <1>3, <2>1
  <2>3. QED
    BY <1>1, <1>2, <1>4, <2>2 DEF Paced
<1>9. disposed' - rp' \in {0, Ring', 2 * Ring', 3 * Ring'}
  BY <1>1, <1>2, <1>3
<1>10. Shape(Ring, Ahead, MostFrames(rate), Bound(rate), Gap, Since, Out, Again)'
  BY <1>2, <1>4, <1>6
<1>11. QED
  BY <1>1, <1>2, <1>7, <1>8, <1>9, <1>10 DEF RingShape

\* The fills of a start and of a refill stay within the bound.
LEMMA RingFills ==
    ASSUME Roomy, RingInv, TypeOK', StartFill \/ Refill, "pb" \in active
    PROVE  /\ RingShape' /\ UNCHANGED <<rate, active, disposed>>
           /\ Out' >= Out /\ HeadOffset' >= HeadOffset
<1>1. /\ TypeOK /\ RingShape
  BY DEF RingInv
<1>2. /\ burst \in 0 .. NChunks /\ first \in 0 .. NChunks
      /\ burst' \in 0 .. NChunks /\ first' \in 0 .. NChunks /\ NChunks \in Nat \ {0}
  BY <1>1, ChunksAssumption DEF TypeOK
<1>3. /\ FillTxChunk /\ UNCHANGED <<rate, active>>
      /\ \/ first > 0 /\ first' = first - 1 /\ burst' = burst
         \/ first = 0 /\ burst < NChunks /\ burst' = burst + 1 /\ first' = first
  <2>1. CASE StartFill
    BY <2>1, Zenon DEF StartFill
  <2>2. CASE Refill
    BY <2>2, Zenon DEF Refill
  <2>3. QED
    BY <2>1, <2>2
<1>4. burst' + NChunks - first' = burst + NChunks - first + 1
  <2>1. CASE first' = first - 1 /\ burst' = burst
    BY <1>2, <2>1
  <2>2. CASE burst' = burst + 1 /\ first' = first
    BY <1>2, <2>2
  <2>3. QED
    BY <1>3, <2>1, <2>2
<1>5. Since + MostFrames(rate) <= Bound(rate)
  <2>1. Since <= MostFrames(rate) * (burst + NChunks - first)
    BY <1>1 DEF RingShape, Paced
  <2>2. burst + NChunks - first + 1 <= 2 * NChunks
    BY <1>2, <1>3
  <2>3. MostFrames(rate) \in {6, 12} /\ Bound(rate) = 2 * NChunks * MostFrames(rate)
    BY <1>1, RingSizes, MostRange DEF TypeOK
  <2>4. Since \in Int
    <3>1. Since \in 0 .. Ring - 1 /\ Ring \in Nat
      BY <1>1, Positions, RingSizes DEF TypeOK
    <3>2. QED
      BY <3>1
  <2> HIDE DEF Since
  <2>5. QED
    BY <1>2, <2>1, <2>2, <2>3, <2>4
<1>6. QED
  BY <1>1, <1>3, <1>4, <1>5, RingFill

\* Steps that leave the ring alone.
LEMMA RingIdle ==
    ASSUME RingShape, UNCHANGED <<rate, first, sndbuf, stream>>
    PROVE  RingShape'
<1>1. UNCHANGED <<hp, rp, ready, disposed, hwptr, next, late, burst, rate, first>>
  BY DEF sndbuf, stream
<1>2. Ring' = Ring /\ Ahead' = Ahead /\ Span' = Span
  BY <1>1 DEF Ring, Ahead, Span
<1>3. Gap' = Gap /\ Since' = Since /\ Out' = Out /\ Again' = Again
  BY <1>1, <1>2 DEF Gap, Since, Out, Again
<1>4. Paced' = Paced /\ Punctual' = Punctual
  BY <1>1, <1>2, <1>3 DEF Paced, Punctual
<1>5. QED
  BY <1>1, <1>2, <1>3, <1>4 DEF RingShape

LEMMA RingInit == Init => RingInv
BY TypesInit DEF Init, RingInv

LEMMA RingNext == Roomy /\ RingInv /\ [Next]_vars => RingInv'
<1> SUFFICES ASSUME Roomy, RingInv, [Next]_vars, "pb" \in active' PROVE RingShape'
  BY TypesNext DEF RingInv
<1>1. TypeOK /\ TypeOK' /\ ("pb" \in active => RingShape)
  BY TypesNext DEF RingInv
<1>2. ASSUME NEW d \in Dirs, Start(d) PROVE RingShape'
  <2>1. CASE d = "pb"
    BY <1>1, <1>2, <2>1, RingStart
  <2>2. CASE d # "pb"
    <3>1. "pb" \in active /\ active # {}
      BY <1>2, <2>2 DEF Start
    <3>2. UNCHANGED <<rate, first, sndbuf, stream>>
      BY <1>2, <2>2, <3>1, Zenon DEF Start
    <3>3. QED
      BY <1>1, <3>1, <3>2, RingIdle
  <2>3. QED
    BY <2>1, <2>2
<1>3. ASSUME NEW d \in Dirs, Stop(d) PROVE RingShape'
  <2>1. "pb" \in active /\ d # "pb"
    BY <1>3 DEF Stop
  <2>2. UNCHANGED <<rate, first, sndbuf, stream>>
    BY <1>3, <2>1, Zenon DEF Stop
  <2>3. QED
    BY <1>1, <2>1, <2>2, RingIdle
<1>4. ASSUME StartFill \/ Refill PROVE RingShape'
  <2>1. active' = active
    BY <1>4 DEF StartFill, Refill
  <2>2. QED
    BY <1>1, <1>4, <2>1, RingFills
<1>5. ASSUME Intr PROVE RingShape'
  <2>1. "pb" \in active
    BY <1>5 DEF Intr
  <2>2. QED
    BY <1>1, <1>5, <2>1, RingIntr
<1>6. ASSUME UNCHANGED vars PROVE RingShape'
  <2>1. "pb" \in active /\ UNCHANGED <<rate, first, sndbuf, stream>>
    BY <1>6 DEF vars
  <2>2. QED
    BY <1>1, <2>1, RingIdle
<1>7. QED
  BY <1>2, <1>3, <1>4, <1>5, <1>6 DEF Next

LEMMA ModIs ==
    ASSUME NEW n \in Nat \ {0}, NEW y \in 0 .. n - 1, NEW x, x = y \/ x = y - n
    PROVE  x % n = y
OBVIOUS

\* If no packet was late, the next packet takes what follows the last one sent,
\* or again what a packet cut short has taken from the beginning of the ring.
LEMMA ShapeInStep ==
    ASSUME Roomy, RingInv
    PROVE  InStep
<1> SUFFICES ASSUME "pb" \in active, ~late
             PROVE  LET again == (next - (disposed + Pending)) % Span
                    IN  again = 0 \/ (hwptr = 0 /\ again < MostFrames(rate))
  BY DEF InStep
<1>1. /\ Gap = 0 /\ Since <= Out /\ Out <= Since + Again
      /\ Shape(Ring, Ahead, MostFrames(rate), Bound(rate), Gap, Since, Out, Again)
  BY DEF RingInv, RingShape, Punctual
<1>2. TypeOK /\ disposed \in 0 .. Span - 1 /\ next \in 0 .. Span - 1
  BY DEF RingInv, TypeOK
<1>3. /\ Since \in 0 .. Ring - 1 /\ Out \in 0 .. Span - 1
      /\ Out = Dist(next, disposed, Span)
      /\ Pending = Ahead2(Ring, Gap, Since)
  BY <1>2, Positions
<1>4. /\ Ring \in Nat \ {0} /\ Span \in Nat \ {0} /\ MostFrames(rate) \in {6, 12}
  BY <1>2, RingSizes, MostRange DEF TypeOK
<1>5. Again = IF hwptr = 0 THEN MostFrames(rate) - 1 ELSE 0
  BY DEF Again
<1> HIDE DEF Ring, Span, Since, Out, Gap, Pending, Again
<1>6. Pending = Since
  BY <1>1, <1>3, <1>4 DEF Ahead2
<1>7. Out = IF next >= disposed THEN next - disposed ELSE next - disposed + Span
  BY <1>2, <1>3, <1>4, DistIs
<1> DEFINE y == Out - Since
           x == next - (disposed + Pending)
<1>8. y \in 0 .. Span - 1
  BY <1>1, <1>3, <1>4
<1>9. x = y \/ x = y - Span
  BY <1>2, <1>3, <1>4, <1>6, <1>7
<1>10. y = 0 \/ (hwptr = 0 /\ y < MostFrames(rate))
  BY <1>1, <1>3, <1>4, <1>5
<1> HIDE DEF x, y
<1>11. x % Span = y
  BY <1>4, <1>8, <1>9, ModIs
<1>12. QED
  BY <1>10, <1>11 DEF x

(***************************************************************************)
(* As long as no packet was late the next one takes the frame after the    *)
(* last one sent, and the interrupt disposes of exactly what was sent; at  *)
(* the end of the ring, where hwptr restarts at 0 inside a packet, a few   *)
(* frames are taken again, and none is skipped.                            *)
(***************************************************************************)
THEOREM PlaybackInStep == Roomy => (Spec => []InStep)
<1> SUFFICES ASSUME Roomy PROVE Spec => []InStep
  OBVIOUS
<1>1. RingInv => InStep
  BY ShapeInStep
<1>2. RingInv /\ [Next]_vars => RingInv'
  BY RingNext
<1>3. QED
  BY <1>1, <1>2, RingInit, PTL DEF Spec

-----------------------------------------------------------------------------
(* The ring is a queue                                                     *)

\* A ring of n positions, its frames counted modulo 4 n from d, k of them
\* ready; d goes on by a, the packets from x ahead of it to y ahead of it.
GoesOn(n, k, d, a, x, y) ==
    /\ n \in Nat \ {0} /\ k \in 0 .. n /\ d \in 0 .. 4 * n - 1
    /\ a \in 0 .. n /\ x \in 0 .. k /\ y \in 0 .. k /\ a + y >= x

\* What enters at the tail, what leaves at the head, and what was between.
LEMMA Throughput ==
    ASSUME NEW n, NEW k, NEW d, NEW a, NEW x, NEW y, GoesOn(n, k, d, a, x, y),
           NEW m, m = 4 * n, NEW e, e = Ahd(d, a, m)
    PROVE  /\ Dist(Ahd(e, k, m), Ahd(d, k, m), m) = a
           /\ Dist(Ahd(e, y, m), Ahd(d, x, m), m) = a + y - x
           /\ Dist(Ahd(d, k, m), Ahd(d, x, m), m) = k - x
<1>1. /\ m \in Nat \ {0} /\ d \in 0 .. m - 1
      /\ a \in Nat /\ k \in Nat /\ y \in Nat /\ x \in Nat
      /\ a + k < m /\ a + y < m
      /\ a + k \in 0 .. m - 1 /\ a + y \in 0 .. m - 1
      /\ k \in 0 .. m - 1 /\ x \in 0 .. m - 1
      /\ a + y >= x /\ k >= x
  BY DEF GoesOn
<1>2. Ahd(e, k, m) = Ahd(d, a + k, m) /\ Ahd(e, y, m) = Ahd(d, a + y, m)
  BY <1>1, AhdTwice
<1>3. Dist(Ahd(d, a + k, m), Ahd(d, k, m), m) = a + k - k
  BY <1>1, AhdGap
<1>4. Dist(Ahd(d, a + y, m), Ahd(d, x, m), m) = a + y - x
  BY <1>1, AhdGap
<1>5. Dist(Ahd(d, k, m), Ahd(d, x, m), m) = k - x
  BY <1>1, AhdGap
<1>6. QED
  BY <1>1, <1>2, <1>3, <1>4, <1>5

\* What the queue sees of the ring, as offsets from the frames disposed of.
Offsets ==
    /\ HeadOffset \in 0 .. Ahead /\ Out \in 0 .. Ahead /\ ready = Ahead
    /\ Ahead \in 0 .. Ring /\ Ring \in Nat \ {0} /\ Span = 4 * Ring
    /\ disposed \in 0 .. Span - 1
    /\ next = Ahd(disposed, Out, Span)
    /\ Head % Span = Ahd(disposed, HeadOffset, Span)

LEMMA MoveRange == Roomy /\ RingInv /\ "pb" \in active => Offsets
<1> SUFFICES ASSUME Roomy, RingInv, "pb" \in active PROVE Offsets
  OBVIOUS
<1>1. /\ TypeOK /\ RingShape /\ ready = Ahead /\ disposed \in 0 .. Span - 1
      /\ next \in 0 .. Span - 1
      /\ Shape(Ring, Ahead, MostFrames(rate), Bound(rate), Gap, Since, Out, Again)
  BY DEF RingInv, RingShape, TypeOK
<1>2. /\ Sizes(Ring, Ahead, MostFrames(rate), Bound(rate))
      /\ Ring \in Nat \ {0} /\ Span = 4 * Ring /\ Span \in Nat \ {0}
      /\ Ahead \in 0 .. Ring
  BY <1>1, RingSizes DEF TypeOK
<1>3. /\ next = Ahd(disposed, Out, Span)
      /\ Pending = Ahead2(Ring, Gap, Since) /\ Pending \in 0 .. Ring - 1
  BY <1>1, Positions
<1>4. HeadOffset \in 0 .. Ahead
  BY <1>1, <1>2, AheadRange DEF HeadOffset
<1>5. Out \in 0 .. Ahead
  BY <1>1 DEF Shape
<1>6. HeadOffset = IF Pending < ready THEN Pending ELSE Out
  BY <1>1, <1>3 DEF HeadOffset, Offset
<1>7. Head % Span = Ahd(disposed, HeadOffset, Span)
  <2>1. Head = IF Pending < ready THEN disposed + Pending ELSE next
    BY DEF Head
  <2>2. CASE Pending < ready
    BY <1>6, <2>1, <2>2 DEF Ahd
  <2>3. CASE ~(Pending < ready)
    <3>1. Head % Span = next % Span /\ Ahd(disposed, HeadOffset, Span) = next
      BY <1>3, <1>6, <2>1, <2>3
    <3>2. next % Span = next
      <4> HIDE DEF Span
      <4>1. QED
        BY <1>1, <1>2
    <3>3. QED
      BY <3>1, <3>2
  <2>4. QED
    BY <2>2, <2>3
<1>8. QED
  BY <1>1, <1>2, <1>3, <1>4, <1>5, <1>7 DEF Offsets

LEMMA OffsetsInt == Offsets' => (HeadOffset \in Int /\ Out \in Int)'
<1>1. Offsets => HeadOffset \in Int /\ Out \in Int
  <2> SUFFICES ASSUME Offsets PROVE HeadOffset \in Int /\ Out \in Int
    OBVIOUS
  <2>1. HeadOffset \in 0 .. Ahead /\ Out \in 0 .. Ahead
    BY DEF Offsets
  <2> HIDE DEF HeadOffset, Out, Ahead
  <2>2. QED
    BY <2>1
<1>2. QED
  BY <1>1, PTL

LEMMA MoveRangeNext == Roomy /\ RingInv' /\ "pb" \in active' => Offsets'
<1>1. (Roomy /\ RingInv /\ "pb" \in active)' => Offsets'
  BY MoveRange, PTL
<1>2. Roomy' <=> Roomy
  BY DEF Roomy, Bound
<1>3. QED
  BY <1>1, <1>2

\* A position of the ring, counted modulo four rings.
LEMMA RingEnd ==
    ASSUME NEW n \in Nat \ {0}, NEW d \in 0 .. 4 * n - 1, NEW r \in 0 .. n - 1,
           d - r \in {0, n, 2 * n, 3 * n}, Dist(0, r, n) \in 0 .. n - 1
    PROVE  Ahd(d, Dist(0, r, n), 4 * n) % n = 0
<1> DEFINE p == Dist(0, r, n)
           h == Ahd(d, p, 4 * n)
<1>1. p = IF 0 >= r THEN 0 - r ELSE 0 - r + n
  BY DistIs
<1> HIDE DEF p
<1>2. p = IF r = 0 THEN 0 ELSE n - r
  BY <1>1
<1>3. 4 * n \in Nat \ {0} /\ p \in 0 .. 4 * n
  BY <1>2
<1>4. h = IF d + p < 4 * n THEN d + p ELSE d + p - 4 * n
  BY <1>3, AhdIs
<1> HIDE DEF h
<1>5. h = 0 \/ h = n \/ h = 2 * n \/ h = 3 * n
  BY <1>2, <1>4
<1>6. 0 % n = 0 /\ n % n = 0 /\ (2 * n) % n = 0 /\ (3 * n) % n = 0
  OBVIOUS
<1>7. h % n = 0
  BY <1>5, <1>6
<1>8. QED
  BY <1>7 DEF h, p

\* What is known to have left is behind the head, or the head is at the end.
AtEnd ==
    /\ Ahd(disposed, HeadOffset, Span) % Ring = 0
    /\ Out - HeadOffset \in 1 .. MostFrames(rate) - 1

LEMMA LeftOrEnd ==
    Roomy /\ RingInv /\ "pb" \in active => Out <= HeadOffset \/ AtEnd
<1> SUFFICES ASSUME Roomy, RingInv, "pb" \in active, ~(Out <= HeadOffset)
             PROVE  AtEnd
  OBVIOUS
<1>1. /\ TypeOK /\ hwptr \in 0 .. Ring - 1 /\ rp \in 0 .. Ring - 1
      /\ disposed - rp \in {0, Ring, 2 * Ring, 3 * Ring}
      /\ Shape(Ring, Ahead, MostFrames(rate), Bound(rate), Gap, Since, Out, Again)
  BY DEF RingInv, RingShape, TypeOK
<1>2. /\ HeadOffset \in 0 .. Ahead /\ Out \in 0 .. Ahead
      /\ Ahead \in 0 .. Ring /\ Ring \in Nat \ {0} /\ Span = 4 * Ring
      /\ disposed \in 0 .. Span - 1
  BY MoveRange DEF Offsets
<1>3. /\ Sizes(Ring, Ahead, MostFrames(rate), Bound(rate)) /\ MostFrames(rate) \in {6, 12}
  BY <1>1, RingSizes, MostRange DEF TypeOK
<1>4. /\ Pending = Ahead2(Ring, Gap, Since) /\ Pending = Dist(hwptr, rp, Ring)
      /\ Pending \in 0 .. Ring - 1
  BY <1>1, Positions
<1>5. HeadOffset = Pending /\ Pending < Ahead
  <2>1. HeadOffset = IF Pending < Ahead THEN Pending ELSE Out
    BY <1>4 DEF HeadOffset, Offset
  <2> HIDE DEF HeadOffset, Pending, Out, Ahead, Ring
  <2>2. Out <= Out
    BY <1>2
  <2>3. QED
    BY <2>1, <2>2
<1>6. Out <= Pending + Again
  BY <1>1, <1>3, <1>4, <1>5, LeftBehind
<1>7. hwptr = 0 /\ Out - HeadOffset \in 1 .. MostFrames(rate) - 1
  <2>1. Again = IF hwptr = 0 THEN MostFrames(rate) - 1 ELSE 0
    BY DEF Again
  <2> HIDE DEF HeadOffset, Pending, Out, Ahead, Ring, Again
  <2>2. hwptr = 0
    BY <1>2, <1>4, <1>5, <1>6, <2>1
  <2>3. QED
    BY <1>2, <1>3, <1>4, <1>5, <1>6, <2>1, <2>2
<1>8. Ahd(disposed, HeadOffset, Span) % Ring = 0
  <2>1. HeadOffset = Dist(0, rp, Ring)
    BY <1>4, <1>5, <1>7
  <2> HIDE DEF HeadOffset, Pending, Out, Ahead, Ring, Again, Span
  <2>2. Dist(0, rp, Ring) \in 0 .. Ring - 1
    BY <1>4, <1>5, <2>1
  <2>3. disposed \in 0 .. 4 * Ring - 1
    BY <1>2
  <2>4. Ahd(disposed, Dist(0, rp, Ring), 4 * Ring) % Ring = 0
    BY <1>1, <1>2, <2>2, <2>3, RingEnd
  <2>5. QED
    BY <1>2, <2>1, <2>4
<1>9. QED
  BY <1>7, <1>8 DEF AtEnd

LEMMA LeftOrEndNext ==
    Roomy /\ RingInv' /\ "pb" \in active' => Out' <= HeadOffset' \/ AtEnd'
<1>1. (Roomy /\ RingInv /\ "pb" \in active)' => (Out <= HeadOffset \/ AtEnd)'
  BY LeftOrEnd, PTL
<1>2. Roomy' <=> Roomy
  BY DEF Roomy, Bound
<1>3. QED
  BY <1>1, <1>2

\* Frames enter and leave a ring of n, k of them ready.
LEMMA Balance ==
    ASSUME NEW n \in Nat, NEW k \in 0 .. n, NEW a \in 0 .. n, NEW x \in 0 .. k,
           NEW y \in 0 .. k, NEW z \in 0 .. k, NEW o \in 0 .. k, a + o <= n
    PROVE  /\ a <= n /\ a + y - x <= k - x + a /\ k - x + a - (a + y - x) <= n
           /\ a + o - z <= n
OBVIOUS

LEMMA Within ==
    ASSUME NEW n \in Nat, NEW k \in 0 .. n, NEW y \in 0 .. k, NEW o \in 0 .. k
    PROVE  y - o <= n
OBVIOUS

LEMMA NoneEnters ==
    ASSUME NEW n \in Nat \ {0}, NEW k \in 0 .. n, NEW x \in 0 .. k,
           NEW y \in 0 .. k, NEW z \in 0 .. k, NEW o \in 0 .. k, o >= z, y >= x
    PROVE  /\ 0 \in 0 .. n /\ 0 \in 0 .. 4 * n /\ 4 * n \in Nat \ {0}
           /\ 0 + y >= x /\ 0 + o >= z /\ 0 + o <= n
OBVIOUS

LEMMA SomeEnter ==
    ASSUME NEW n \in Nat, NEW k \in 0 .. n, NEW a \in 0 .. k, NEW o \in 0 .. k,
           a + o <= k
    PROVE  a \in 0 .. n /\ a + o <= n
OBVIOUS

LEMMA FewAgain ==
    ASSUME NEW k \in Nat, NEW y \in 0 .. k, NEW o \in 0 .. k, NEW m \in {6, 12},
           o - y \in 1 .. m - 1
    PROVE  o - y < m /\ o >= y
OBVIOUS

\* A step that goes on is a step of the queue.
LEMMA QueueMove ==
    ASSUME Roomy, RingInv, RingInv', "pb" \in active,
           UNCHANGED <<rate, active>>,
           NEW a \in 0 .. Ring, disposed' = Ahd(disposed, a, Span),
           NEW y \in Int, y = HeadOffset', NEW o \in Int, o = Out',
           a + y >= HeadOffset, a + o >= Out, a + o <= Ring
    PROVE  Queue!Move
<1>1. /\ HeadOffset \in 0 .. Ahead /\ Out \in 0 .. Ahead /\ ready = Ahead
      /\ Ahead \in 0 .. Ring /\ Ring \in Nat \ {0} /\ Span = 4 * Ring
      /\ disposed \in 0 .. Span - 1
      /\ next = Ahd(disposed, Out, Span)
      /\ Head % Span = Ahd(disposed, HeadOffset, Span)
  BY MoveRange DEF Offsets
<1>2. /\ Ring' = Ring /\ Span' = Span /\ Ahead' = Ahead /\ "pb" \in active'
      /\ MostFrames(rate)' = MostFrames(rate)
  BY DEF Ring, Span, Ahead
<1>3. /\ y \in 0 .. Ahead /\ o \in 0 .. Ahead /\ ready' = Ahead
      /\ disposed' \in 0 .. Span - 1
      /\ next' = Ahd(disposed', o, Span)
      /\ (Head % Span)' = Ahd(disposed', y, Span)
  <2>1. Offsets'
    BY <1>2, MoveRangeNext
  <2>2. QED
    BY <1>2, <2>1 DEF Offsets
<1> DEFINE e == disposed'
           x == HeadOffset
           in == Dist(Ahd(e, Ahead, Span), Ahd(disposed, Ahead, Span), Span)
           out == Dist(Ahd(e, y, Span), Ahd(disposed, x, Span), Span)
           was == Dist(Ahd(disposed, Ahead, Span), Ahd(disposed, x, Span), Span)
           left == Dist(Ahd(e, o, Span), Ahd(disposed, Out, Span), Span)
           head == Head % Span
           tail == (disposed + ready) % Span
<1>4. in = a /\ out = a + y - x /\ was = Ahead - x /\ left = a + o - Out
  <2> HIDE DEF Ring, Span, Ahead, HeadOffset, Out, e, x
  <2>1. GoesOn(Ring, Ahead, disposed, a, x, y)
    BY <1>1, <1>3 DEF GoesOn, x
  <2>2. GoesOn(Ring, Ahead, disposed, a, Out, o)
    BY <1>1, <1>3 DEF GoesOn
  <2>3. in = a /\ out = a + y - x /\ was = Ahead - x
    BY <1>1, <2>1, Throughput DEF e
  <2>4. left = a + o - Out
    BY <1>1, <2>2, Throughput DEF e
  <2>5. QED
    BY <2>3, <2>4
<1>5. /\ tail = Ahd(disposed, Ahead, Span) /\ tail' = Ahd(e, Ahead, Span)
      /\ head = Ahd(disposed, x, Span) /\ head' = Ahd(e, y, Span)
  BY <1>1, <1>2, <1>3 DEF Ahd
<1>6. /\ (tail' - tail) % Span = in /\ (head' - head) % Span = out
      /\ (tail - head) % Span = was /\ (next' - next) % Span = left
      /\ (head' - next') % Span = Dist(Ahd(e, y, Span), Ahd(e, o, Span), Span)
      /\ (next' - head') % Span = Dist(Ahd(e, o, Span), Ahd(e, y, Span), Span)
  BY <1>1, <1>2, <1>3, <1>5 DEF Dist
<1>7. \/ (head' - next') % Span <= Ring
      \/ head' % Ring = 0 /\ (next' - head') % Span < MostFrames(rate)
  <2>1. Span \in Nat \ {0} /\ y \in 0 .. Span - 1 /\ o \in 0 .. Span - 1
    <3> HIDE DEF Ring, Span, Ahead, HeadOffset, Out
    <3>1. QED
      BY <1>1, <1>3
  <2>2. /\ Dist(Ahd(e, y, Span), Ahd(e, o, Span), Span)
             = IF y >= o THEN y - o ELSE y - o + Span
        /\ Dist(Ahd(e, o, Span), Ahd(e, y, Span), Span)
             = IF o >= y THEN o - y ELSE o - y + Span
    <3> HIDE DEF Ring, Span, Ahead, HeadOffset, Out, e
    <3>1. e \in 0 .. Span - 1
      BY <1>3 DEF e
    <3>2. QED
      BY <2>1, <3>1, AhdGap
  <2>3. CASE o <= y
    <3> HIDE DEF Ring, Span, Ahead, HeadOffset, Out, e, head
    <3>1. y \in 0 .. Ahead
      BY <1>3
    <3>2. o \in 0 .. Ahead /\ Ahead \in 0 .. Ring /\ Ring \in Nat
      BY <1>1, <1>3
    <3>3. y - o <= Ring
      BY <3>1, <3>2, Within, Zenon
    <3>4. (head' - next') % Span = y - o
      BY <1>6, <2>2, <2>3
    <3>5. QED
      BY <3>3, <3>4
  <2>4. CASE ~(o <= y)
    <3>1. AtEnd'
      BY <1>2, <2>4, LeftOrEndNext
    <3>3. Ahd(e, y, Span) % Ring = 0 /\ o - y \in 1 .. MostFrames(rate) - 1
      BY <1>2, <3>1 DEF AtEnd
    <3>4. o - y < MostFrames(rate) /\ o >= y
      <4>1. MostFrames(rate) \in {6, 12}
        BY MostRange
      <4>2. y \in 0 .. Ahead /\ o \in 0 .. Ahead
        BY <1>3
      <4>3. Ahead \in Nat
        <5> HIDE DEF Ahead, Ring
        <5>1. Ahead \in 0 .. Ring
          BY <1>1
        <5>2. QED
          BY <5>1
      <4>4. QED
        BY <3>3, <4>1, <4>2, <4>3, FewAgain, Zenon
    <3> HIDE DEF Ring, Span, Ahead, HeadOffset, Out, e, head
    <3>5. QED
      BY <1>5, <1>6, <2>2, <3>3, <3>4
  <2>5. QED
    BY <2>3, <2>4
<1>8. /\ in <= Ring /\ out <= was + in /\ was + in - out <= Ring /\ left <= Ring
  <2> HIDE DEF Ring, Span, Ahead, HeadOffset, Out, in, out, was, left
  <2>1. /\ y \in 0 .. Ahead /\ x \in 0 .. Ahead /\ o \in 0 .. Ahead
        /\ Out \in 0 .. Ahead /\ Ahead \in 0 .. Ring /\ Ring \in Nat
        /\ a \in 0 .. Ring /\ a + o <= Ring
    BY <1>1, <1>3
  <2> HIDE DEF x
  <2>2. /\ a <= Ring /\ a + y - x <= Ahead - x + a
        /\ Ahead - x + a - (a + y - x) <= Ring /\ a + o - Out <= Ring
    BY <2>1, Balance, Zenon
  <2>3. QED
    BY <1>4, <2>2, Zenon
<1>9. {head', next', tail'} \subseteq 0 .. Span - 1
  <2> HIDE DEF Ring, Span, Ahead, HeadOffset, Out, e
  <2>1. /\ y \in 0 .. Span /\ Ahead \in 0 .. Span /\ o \in 0 .. Span
        /\ Span \in Nat \ {0} /\ e \in 0 .. Span - 1
    <3>1. y \in 0 .. Ahead /\ e \in 0 .. Span - 1
      BY <1>3 DEF e
    <3>2. QED
      BY <1>1, <1>3, <3>1
  <2>2. /\ Ahd(e, y, Span) \in 0 .. Span - 1 /\ Ahd(e, Ahead, Span) \in 0 .. Span - 1
        /\ Ahd(e, o, Span) \in 0 .. Span - 1
    BY <2>1, AhdIs
  <2>3. next' = Ahd(e, o, Span)
    BY <1>3 DEF e
  <2> HIDE DEF head, tail
  <2>4. QED
    BY <1>5, <2>2, <2>3
<1>10. Queue!Span = Span
  BY <1>1 DEF Queue!Span
<1> HIDE DEF Ring, Ahead, HeadOffset, Out, e, x, in, out, was, left, Span
<1>11. /\ (IF "pb" \in active THEN head ELSE 0) = head
       /\ (IF "pb" \in active' THEN head' ELSE 0) = head'
       /\ (IF "pb" \in active THEN tail ELSE 0) = tail
       /\ (IF "pb" \in active' THEN tail' ELSE 0) = tail'
       /\ (IF "pb" \in active THEN next ELSE 0) = next
       /\ (IF "pb" \in active' THEN next' ELSE 0) = next'
  BY <1>2
<1>12. Queue!Fill = was
  BY <1>6, <1>10, <1>11 DEF Queue!Fill
<1> HIDE DEF head, tail
<1>13. QED
  BY <1>2, <1>6, <1>7, <1>8, <1>9, <1>10, <1>11, <1>12 DEF Queue!Move, head, tail

\* A packet takes frames at the head.
LEMMA QueueFill ==
    ASSUME Roomy, RingInv, RingInv', "pb" \in active, StartFill \/ Refill
    PROVE  Queue!Move
<1> SUFFICES ASSUME NEW y \in Int, y = HeadOffset', NEW o \in Int, o = Out'
             PROVE  Queue!Move
  <2>1. "pb" \in active'
    BY DEF StartFill, Refill, Intr
  <2>2. HeadOffset' \in Int /\ Out' \in Int
    BY <2>1, MoveRangeNext, OffsetsInt
  <2>3. QED
    BY <2>2
<1>1. /\ UNCHANGED <<rate, active, disposed>>
      /\ o >= Out /\ y >= HeadOffset
  BY RingFills DEF RingInv
<1>2. /\ HeadOffset \in 0 .. Ahead /\ Out \in 0 .. Ahead
      /\ Ahead \in 0 .. Ring /\ Ring \in Nat \ {0} /\ Span = 4 * Ring
      /\ disposed \in 0 .. Span - 1
  BY MoveRange DEF Offsets
<1>3. /\ Ring' = Ring /\ Ahead' = Ahead /\ "pb" \in active'
  BY <1>1 DEF Ring, Ahead
<1>4. y \in 0 .. Ahead /\ o \in 0 .. Ahead
  BY <1>3, MoveRangeNext DEF Offsets
<1> HIDE DEF Ring, Ahead, Span, HeadOffset, Out
<1>5. /\ 0 \in 0 .. Ring /\ 0 \in 0 .. Span /\ Span \in Nat \ {0}
      /\ 0 + y >= HeadOffset /\ 0 + o >= Out /\ 0 + o <= Ring
  <2>1. /\ o >= Out /\ y >= HeadOffset /\ Ring \in Nat \ {0} /\ Span = 4 * Ring
        /\ Ahead \in 0 .. Ring /\ y \in 0 .. Ahead /\ o \in 0 .. Ahead
        /\ HeadOffset \in 0 .. Ahead /\ Out \in 0 .. Ahead
    BY <1>1, <1>2, <1>4
  <2>2. QED
    BY <2>1, NoneEnters, Zenon
<1>6. disposed' = Ahd(disposed, 0, Span)
  BY <1>1, <1>2, <1>5, AhdIs
<1>7. QED
  BY <1>1, <1>5, <1>6, QueueMove

\* The interrupt moves the frames it disposes of out of the ring.
LEMMA QueueIntr ==
    ASSUME Roomy, RingInv, RingInv', Intr
    PROVE  Queue!Move
<1> SUFFICES ASSUME NEW y \in Int, y = HeadOffset', NEW o \in Int, o = Out'
             PROVE  Queue!Move
  <2>1. "pb" \in active'
    BY DEF StartFill, Refill, Intr
  <2>2. HeadOffset' \in Int /\ Out' \in Int
    BY <2>1, MoveRangeNext, OffsetsInt
  <2>3. QED
    BY <2>2
<1>1. "pb" \in active /\ UNCHANGED <<rate, active>>
  BY DEF Intr
<1>2. /\ disposed' = Ahd(disposed, Amount, Span)
      /\ Amount \in 0 .. Ahead
      /\ Amount + o >= Out /\ Amount + o <= Ahead
      /\ Amount + y >= HeadOffset
  BY <1>1, RingIntr DEF RingInv
<1>3. /\ Ahead \in 0 .. Ring /\ Ring \in Nat \ {0} /\ Ahead' = Ahead
  BY <1>1, MoveRange DEF Offsets, Ahead
<1>4. o \in 0 .. Ahead
  BY <1>1, <1>3, MoveRangeNext DEF Offsets
<1> HIDE DEF Ring, Ahead, Span, HeadOffset, Out, Amount
<1>5. Amount \in 0 .. Ring /\ Amount + o <= Ring
  <2>1. /\ Amount \in 0 .. Ahead /\ Amount + o <= Ahead /\ o \in 0 .. Ahead
        /\ Ahead \in 0 .. Ring /\ Ring \in Nat
    BY <1>2, <1>3, <1>4
  <2>2. QED
    BY <2>1, SomeEnter, Zenon
<1>6. QED
  BY <1>1, <1>2, <1>5, QueueMove

LEMMA QueueInit == Init => Queue!Init
<1> SUFFICES ASSUME Init PROVE Queue!Init
  OBVIOUS
<1>1. Ring \in Nat \ {0} /\ MostFrames(rate) \in Nat \ {0}
  BY Geometry DEF Init, MostFrames
<1>2. QED
  BY <1>1 DEF Init, Queue!Init

LEMMA QueueNext ==
    ASSUME Roomy, RingInv, RingInv', [Next]_vars
    PROVE  [Queue!Next]_Queue!vars
<1> DEFINE Idle == /\ UNCHANGED <<rate, hwptr, rp, ready, disposed, next>>
                   /\ ("pb" \in active') = ("pb" \in active)
<1>1. ASSUME Idle PROVE UNCHANGED Queue!vars
  <2>1. Ring' = Ring /\ Span' = Span /\ MostFrames(rate)' = MostFrames(rate)
    BY <1>1 DEF Ring, Span
  <2>2. Pending' = Pending
    BY <1>1, <2>1 DEF Pending
  <2>3. Head' = Head
    BY <1>1, <2>2 DEF Head
  <2>4. QED
    BY <1>1, <2>1, <2>3 DEF Queue!vars
<1>2. ASSUME NEW d \in Dirs, Start(d) PROVE [Queue!Next]_Queue!vars
  <2>1. CASE d = "pb"
    <3>1. /\ "pb" \notin active /\ "pb" \in active' /\ rate' = rate
          /\ hwptr' = 0 /\ rp' = 0 /\ disposed' = 0 /\ next' = 0 /\ ready' = Ahead
      BY <1>2, <2>1 DEF Start, Prefilled
    <3>2. Ring' = Ring /\ Span' = Span /\ MostFrames(rate)' = MostFrames(rate)
      BY <3>1 DEF Ring, Span
    <3>3. /\ Ring \in Nat \ {0} /\ Span = 4 * Ring /\ Ahead \in 0 .. Ring
      BY RingSizes DEF RingInv, TypeOK
    <3>4. Pending' = 0 % Ring
      BY <3>1, <3>2 DEF Pending
    <3> HIDE DEF Ring, Span, Ahead
    <3>5. 0 % Ring = 0 /\ 0 % Span = 0 /\ Ahead % Span = Ahead
      BY <3>3
    <3>6. Head' = 0
      BY <3>1, <3>3, <3>4, <3>5 DEF Head
    <3>7. 0 + Ahead = Ahead
      BY <3>3
    <3>8. Queue!Start
      BY <3>1, <3>2, <3>3, <3>5, <3>6, <3>7 DEF Queue!Start
    <3>9. QED
      BY <3>8 DEF Queue!Next
  <2>2. CASE d # "pb"
    <3>1. Idle
      BY <1>2, <2>2 DEF Start, sndbuf, stream
    <3>2. QED
      BY <1>1, <3>1
  <2>3. QED
    BY <2>1, <2>2
<1>3. ASSUME NEW d \in Dirs, Stop(d) PROVE [Queue!Next]_Queue!vars
  <2>1. CASE d = "pb"
    <3>1. "pb" \in active /\ ~("pb" \in active') /\ rate' = rate
      BY <1>3, <2>1 DEF Stop
    <3>2. Queue!Stop
      BY <3>1 DEF Queue!Stop, Ring
    <3>3. QED
      BY <3>2 DEF Queue!Next
  <2>2. CASE d # "pb"
    <3>1. Idle
      BY <1>3, <2>2 DEF Stop, sndbuf, stream
    <3>2. QED
      BY <1>1, <3>1
  <2>3. QED
    BY <2>1, <2>2
<1>4. ASSUME StartFill \/ Refill PROVE [Queue!Next]_Queue!vars
  <2>1. CASE "pb" \in active
    BY <1>4, <2>1, QueueFill DEF Queue!Next
  <2>2. CASE "pb" \notin active
    <3>1. /\ "pb" \notin active' /\ rate' = rate
      BY <1>4, <2>2 DEF StartFill, Refill
    <3>2. Ring' = Ring /\ MostFrames(rate)' = MostFrames(rate)
      BY <3>1 DEF Ring
    <3>3. QED
      BY <2>2, <3>1, <3>2 DEF Queue!vars
  <2>3. QED
    BY <2>1, <2>2
<1>5. ASSUME Intr PROVE [Queue!Next]_Queue!vars
  BY <1>5, QueueIntr DEF Queue!Next
<1>6. ASSUME UNCHANGED vars PROVE [Queue!Next]_Queue!vars
  <2>1. Idle
    BY <1>6 DEF vars, sndbuf, stream
  <2>2. QED
    BY <1>1, <2>1
<1>7. QED
  BY <1>2, <1>3, <1>4, <1>5, <1>6 DEF Next

(***************************************************************************)
(* The playback ring is a queue: a frame is sent or lost once, in order,   *)
(* and only after it has been written, whatever the fills of the transmit  *)
(* callback and the interrupts of the sound layer do to hwptr and to the   *)
(* ring's pointers, however many packets are late, and up to the frames    *)
(* taken again at the end of the ring.                                     *)
(***************************************************************************)
THEOREM PlaybackIsQueue == Roomy => (Spec => PlaysQueue)
<1> SUFFICES ASSUME Roomy PROVE Spec => PlaysQueue
  OBVIOUS
<1>1. Init => RingInv /\ Queue!Init
  BY RingInit, QueueInit
<1>2. RingInv /\ [Next]_vars => RingInv'
  BY RingNext
<1>3. RingInv /\ RingInv' /\ [Next]_vars => [Queue!Next]_Queue!vars
  BY QueueNext
<1>4. QED
  BY <1>1, <1>2, <1>3, PTL DEF Spec, PlaysQueue, Queue!Spec
=============================================================================
