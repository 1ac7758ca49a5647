-------------------------- MODULE HdspStreamProofs --------------------------
(***************************************************************************)
(* Proofs about HdspStream: the life of the feeder callout, the state of a *)
(* stream that is open alone, and the order in which playback alone is     *)
(* heard, for every period, number of laps and set of directions.          *)
(***************************************************************************)
EXTENDS HdspStream, TLAPS

\* The types that the invariants below rest on.
ControlTypeOK ==
    /\ open \in OpenSets
    /\ pc \in [Streams -> {"idle", "params", "start", "stop", "relock"}]
    /\ started \in [Streams -> BOOLEAN]
    /\ stream \in [Streams -> {"IDLE", "RUNNING", "STOPPED"}]
    /\ running \in BOOLEAN
    /\ drv \in {"up", "draining", "drained", "gone"}

\* A direction that is not open does nothing, one that is being started has
\* not been, and one that is being stopped has.
PathInv ==
    /\ \A d \in Streams \ open : pc[d] = "idle" /\ ~started[d]
    /\ \A d \in Streams : pc[d] = "start" => ~started[d]
    /\ \A d \in Streams : pc[d] = "stop" => started[d]

\* The engine runs for a started direction.
EngineInv == running => \E d \in Streams : started[d]

\* From the beginning of detach nothing starts the engine or the feeder.
DetachInv == drv # "up" => Closed /\ co = "off"

\* A feeder that has been drained has returned.
DrainedInv == drv \in {"drained", "gone"} => cpc = "idle"

\* The engine runs exactly while the only direction is started.
SoloInv ==
    open # Streams => \A d \in open : started[d] <=> running

FeederInv ==
    /\ ControlTypeOK /\ PathInv /\ EngineInv
    /\ DetachInv /\ DrainedInv /\ SoloInv
    /\ FeederAlive /\ SoloRunning

-----------------------------------------------------------------------------
\* In the initial state nothing runs.
LEMMA InitFeeder == Init => FeederInv
<1> SUFFICES ASSUME Init
             PROVE  FeederInv
  OBVIOUS
<1> USE DEF Init
<1>1. ControlTypeOK
  BY DEF ControlTypeOK
<1>2. PathInv
  BY OpenAssumption DEF PathInv
<1>3. EngineInv /\ DetachInv /\ DrainedInv /\ FeederAlive
  BY DEF EngineInv, DetachInv, DrainedInv, FeederAlive
<1>4. SoloInv
  BY OpenAssumption DEF SoloInv
<1>5. SoloRunning
  BY DEF SoloRunning, RunningIsStarted
<1> QED
  BY <1>1, <1>2, <1>3, <1>4, <1>5 DEF FeederInv

\* Unless both directions are open, the one that is open is the only one.
LEMMA OnlyOne ==
    ASSUME open \in OpenSets, open # Streams, NEW d \in open
    PROVE  open = {d}
  BY OpenAssumption DEF Streams

\* No step of Next breaks the invariant.
LEMMA NextFeeder == FeederInv /\ [Next]_vars => FeederInv'
<1> SUFFICES ASSUME FeederInv, [Next]_vars
             PROVE  FeederInv'
  OBVIOUS
<1> USE DEF FeederInv
<1>1. ASSUME NEW d \in Streams, TriggerStart(d)
      PROVE  FeederInv'
  <2> USE <1>1 DEF TriggerStart, Goto
  <2>1. ControlTypeOK'
    BY DEF ControlTypeOK
  <2>2. PathInv'
    BY DEF ControlTypeOK, PathInv
  <2>3. EngineInv' /\ DetachInv' /\ DrainedInv'
    BY DEF ControlTypeOK, EngineInv, DetachInv, DrainedInv, Closed
  <2>4. SoloInv'
    <3> SUFFICES ASSUME open # Streams
                 PROVE  \A e \in open : started'[e] <=> running'
      BY DEF SoloInv
    <3>1. d \in open
      BY DEF PathInv
    <3>2. open = {d}
      BY <3>1, OnlyOne DEF ControlTypeOK
    <3>3. started'[d] /\ running'
      BY DEF ControlTypeOK
    <3> QED
      BY <3>2, <3>3
  <2>5. FeederAlive' /\ SoloRunning'
    BY DEF ControlTypeOK, FeederAlive, SoloRunning, RunningIsStarted
  <2> QED
    BY <2>1, <2>2, <2>3, <2>4, <2>5
<1>2. ASSUME NEW d \in Streams, TriggerStop(d)
      PROVE  FeederInv'
  <2> USE <1>2 DEF TriggerStop, Goto
  <2>1. ControlTypeOK'
    BY DEF ControlTypeOK
  <2>2. PathInv'
    BY DEF ControlTypeOK, PathInv
  <2>3. EngineInv' /\ DetachInv' /\ DrainedInv' /\ FeederAlive'
    BY DEF ControlTypeOK, EngineInv, DetachInv, DrainedInv, Closed, FeederAlive
  <2>4. SoloInv' /\ SoloRunning'
    <3> SUFFICES ASSUME open # Streams
                 PROVE  /\ \A e \in open : started'[e] <=> running'
                        /\ RunningIsStarted'
      BY DEF SoloInv, SoloRunning
    <3>1. d \in open
      BY DEF PathInv
    <3>2. open = {d} /\ running
      BY <3>1, OnlyOne DEF ControlTypeOK, PathInv, SoloInv
    <3>3. ~started'[d] /\ ~running' /\ stream'[d] = "STOPPED"
      BY <3>2 DEF ControlTypeOK
    <3>4. RunningIsStarted'
      BY <3>3 DEF ControlTypeOK, SoloRunning, RunningIsStarted
    <3> QED
      BY <3>2, <3>3, <3>4
  <2> QED
    BY <2>1, <2>2, <2>3, <2>4
<1>3. ASSUME NEW d \in Streams,
             SetBlocksize(d) \/ BeginStart(d) \/ BeginStop(d) \/ HwParams(d)
               \/ Relock(d)
      PROVE  FeederInv'
  <2> USE <1>3 DEF SetBlocksize, BeginStart, BeginStop, HwParams, Relock, Goto,
                   locks, engine, oss, buffers, callout, isr
  <2>1. ControlTypeOK' /\ EngineInv' /\ SoloInv' /\ FeederAlive' /\ SoloRunning'
    BY DEF ControlTypeOK, EngineInv, SoloInv, FeederAlive, SoloRunning,
           RunningIsStarted
  <2>2. PathInv'
    BY DEF ControlTypeOK, PathInv
  <2>3. DetachInv' /\ DrainedInv'
    BY DEF ControlTypeOK, DetachInv, DrainedInv, Closed
  <2> QED
    BY <2>1, <2>2, <2>3
<1>4. ASSUME HwTick \/ Interrupt
      PROVE  FeederInv'
  <2>1. UNCHANGED <<app, running, stream, callout, drv>>
    BY <1>4 DEF HwTick, Interrupt, IsrEnter, IsrConfirm, IsrCapture, IsrRefill,
                IsrTest, IsrElapsed, engine
  <2> QED
    BY <2>1 DEF app, callout, ControlTypeOK, PathInv, EngineInv, DetachInv,
                DrainedInv, SoloInv, FeederAlive, SoloRunning,
                RunningIsStarted, Closed
<1>5. ASSUME CalloutStep
      PROVE  FeederInv'
  <2>1. UNCHANGED <<app, running, stream, drv>>
    BY <1>5 DEF CalloutStep, CalloutFire, CalloutCheck, CalloutTest,
                CalloutElapsed, CalloutRearm, engine
  <2>2. ControlTypeOK' /\ PathInv' /\ EngineInv' /\ SoloInv' /\ SoloRunning'
    BY <2>1 DEF app, ControlTypeOK, PathInv, EngineInv, SoloInv, SoloRunning,
                RunningIsStarted
  <2> DEFINE Feeder == DetachInv /\ DrainedInv /\ FeederAlive
  <2>a. running => drv = "up"
    BY DEF EngineInv, DetachInv, Closed
  <2>b. UNCHANGED Closed
    BY <2>1 DEF app, Closed
  <2>c. ASSUME CalloutFire PROVE Feeder'
    BY <2>1, <2>b, <2>c DEF CalloutFire, DetachInv, DrainedInv, FeederAlive
  <2>d. ASSUME CalloutCheck PROVE Feeder'
    BY <2>1, <2>b, <2>d DEF CalloutCheck, DetachInv, DrainedInv, FeederAlive
  <2>e. ASSUME CalloutRearm PROVE Feeder'
    BY <2>1, <2>a, <2>b, <2>e
       DEF ControlTypeOK, CalloutRearm, DetachInv, DrainedInv, FeederAlive
  <2>f. ASSUME cpc # "idle", cpc' # "idle", UNCHANGED co PROVE Feeder'
    BY <2>1, <2>b, <2>f DEF DetachInv, DrainedInv, FeederAlive
  <2>g. \/ CalloutFire \/ CalloutCheck \/ CalloutRearm
        \/ /\ cpc # "idle" /\ cpc' # "idle"
           /\ UNCHANGED co
    BY <1>5 DEF CalloutStep, CalloutTest, CalloutElapsed
  <2>3. DetachInv' /\ DrainedInv' /\ FeederAlive'
    BY <2>c, <2>d, <2>e, <2>f, <2>g
  <2> QED
    BY <2>2, <2>3
<1>6. ASSUME DetachDrain \/ DetachDrained \/ DetachRest
      PROVE  FeederInv'
  BY <1>6 DEF DetachDrain, DetachDrained, DetachRest, app, engine, callout,
              ControlTypeOK, PathInv, EngineInv, DetachInv, DrainedInv, SoloInv,
              FeederAlive, SoloRunning, RunningIsStarted, Closed
<1>7. ASSUME UNCHANGED vars
      PROVE  FeederInv'
  BY <1>7 DEF vars, app, engine, callout, ControlTypeOK, PathInv, EngineInv,
              DetachInv, DrainedInv, SoloInv, FeederAlive, SoloRunning,
              RunningIsStarted, Closed
<1> QED
  BY <1>1, <1>2, <1>3, <1>4, <1>5, <1>6, <1>7 DEF Next, AppStep

\* The invariant holds in every reachable state.
LEMMA FeederInvariant == Spec => []FeederInv
  BY InitFeeder, NextFeeder, PTL DEF Spec

-----------------------------------------------------------------------------
(***************************************************************************)
(* The running engine always has its feeder (hdsp_main.c:301-317): a       *)
(* handler that STOP could not cancel arms the callout again only when     *)
(* START has set running in the meantime, or finds it armed.               *)
(***************************************************************************)
THEOREM FeederAlwaysAlive == Spec => []FeederAlive
<1>1. FeederInv => FeederAlive
  BY DEF FeederInv
<1> QED
  BY <1>1, FeederInvariant, PTL

(***************************************************************************)
(* After callout_drain has returned the feeder neither runs nor is armed   *)
(* (hdsp_bsd.c:173-175).                                                   *)
(***************************************************************************)
THEOREM FeederAlwaysDrained == Spec => []FeederDrained
<1>1. FeederInv => FeederDrained
  BY DEF FeederInv, DetachInv, DrainedInv, FeederDrained
<1> QED
  BY <1>1, FeederInvariant, PTL

(***************************************************************************)
(* With one direction in use its stream is RUNNING only while its channel  *)
(* is started (hdsp_main.c:251-258).                                       *)
(***************************************************************************)
THEOREM SoloAlwaysRunning == Spec => []SoloRunning
<1>1. FeederInv => SoloRunning
  BY DEF FeederInv
<1> QED
  BY <1>1, FeederInvariant, PTL
-----------------------------------------------------------------------------
(* Positions on rings                                                      *)

\* A quotient and a remainder are the only ones.
LEMMA DivUnique ==
    ASSUME NEW n \in Nat \ {0}, NEW q \in Int, NEW s \in 0 .. n - 1
    PROVE  /\ (n * q + s) % n = s
           /\ n * q + s \in Nat => (n * q + s) \div n = q
<1> DEFINE y == n * q + s
<1>1. n \in Int /\ n > 0 /\ y \in Int
  OBVIOUS
<1>2. PICK p \in Int, t \in 0 .. n - 1 :
        y = n * p + t /\ y % n = t /\ (y \in Nat => y \div n = p)
  <2>1. y % n \in 0 .. n - 1
    BY <1>1
  <2>2. y = n * (y \div n) + (y % n)
    BY <1>1
  <2>3. y \div n \in Int
    BY <1>1
  <2>4. QED
    BY <2>1, <2>2, <2>3
<1>3. n * (p - q) = s - t
  <2>1. \A a, b, c \in Int : a * (b - c) = a * b - a * c
    OBVIOUS
  <2>2. n * p \in Int /\ n * q \in Int
    BY <1>1, <1>2
  <2>3. QED
    BY <1>1, <1>2, <2>1, <2>2
<1> HIDE DEF y
<1>4. p - q = 0
  <2> DEFINE k == p - q
  <2>1. k \in Int /\ n * k = s - t
    BY <1>2, <1>3
  <2> HIDE DEF k
  <2>2. ~(k >= 1)
    <3>1. ASSUME k >= 1 PROVE n * k >= n
      BY <1>1, <2>1, <3>1
    <3>2. QED
      BY <1>1, <1>2, <2>1, <3>1
  <2>3. ~(k <= -1)
    <3>1. ASSUME k <= -1 PROVE n * k <= -n
      BY <1>1, <2>1, <3>1
    <3>2. QED
      BY <1>1, <1>2, <2>1, <3>1
  <2>4. k = 0
    BY <2>1, <2>2, <2>3
  <2>5. QED
    BY <2>4 DEF k
<1>5. p = q /\ t = s
  <2>1. n * p = n * q
    BY <1>2, <1>4
  <2>2. QED
    BY <1>1, <1>2, <1>4, <2>1 DEF y
<1>6. QED
  BY <1>2, <1>5 DEF y

LEMMA DivOf ==
    ASSUME NEW n \in Nat \ {0}, NEW y \in Nat
    PROVE  \E q \in Nat, s \in 0 .. n - 1 : y = n * q + s /\ y % n = s
<1>1. n \in Int /\ n > 0
  OBVIOUS
<1>2. y % n \in 0 .. n - 1
  BY <1>1
<1>3. y = n * (y \div n) + (y % n)
  BY <1>1
<1>4. y \div n \in Nat
  <2>1. y \div n \in Int
    BY <1>1
  <2>2. y \div n >= 0
    BY <1>1, SMTT(30)
  <2>3. QED
    BY <2>1, <2>2
<1>5. QED
  BY <1>2, <1>3, <1>4

\* A span of l rings of n slots.
RingOf(n, l, s) == n \in Nat \ {0} /\ l \in Nat \ {0} /\ s = l * n

LEMMA SpanIs ==
    ASSUME NEW n, NEW l, NEW s, RingOf(n, l, s)
    PROVE  s \in Nat /\ s >= n
<1>1. n \in Nat /\ n > 0 /\ l \in Nat /\ l >= 1 /\ s = l * n
  BY DEF RingOf
<1>2. s \in Nat /\ s >= n
  BY <1>1
<1>3. QED
  BY <1>2

\* Where the frame k behind frame h has its slot.
LEMMA SlotAhead ==
    ASSUME NEW n, NEW l, NEW s, RingOf(n, l, s),
           NEW h \in 0 .. s - 1, NEW k \in 0 .. n
    PROVE  /\ h % n \in 0 .. n - 1
           /\ ((h + k) % s) % n = IF (h % n) + k < n THEN (h % n) + k
                                                    ELSE (h % n) + k - n
<1>1. n \in Nat \ {0} /\ l \in Nat \ {0} /\ s = l * n /\ s \in Nat /\ s >= n /\ h \in Nat
      /\ k \in Nat /\ k <= n /\ h < s
  BY SpanIs DEF RingOf
<1>2. PICK q \in Nat, x \in 0 .. n - 1 : h = n * q + x /\ h % n = x
  BY <1>1, DivOf
<1>3. \E r \in Int : (h + k) % s = n * r + (x + k)
  <2>1. CASE h + k < s
    <3>1. (h + k) % s = h + k
      BY <1>1, <2>1
    <3>2. h + k = n * q + (x + k)
      BY <1>1, <1>2
    <3>3. QED
      BY <3>1, <3>2
  <2>2. CASE h + k >= s
    <3>1. (h + k) % s = h + k - s
      BY <1>1, <2>2
    <3>2. n * (q - l) = n * q - l * n
      BY <1>1
    <3>3. n * q \in Int /\ l * n \in Int
      BY <1>1
    <3>4. h + k - s = n * (q - l) + (x + k)
      BY <1>1, <1>2, <3>2, <3>3
    <3>5. q - l \in Int
      BY <1>1
    <3>6. QED
      BY <3>1, <3>4, <3>5
  <2>3. QED
    BY <1>1, <2>1, <2>2
<1>4. PICK r \in Int : (h + k) % s = n * r + (x + k)
  BY <1>3
<1>5. CASE x + k < n
  <2>1. x + k \in 0 .. n - 1
    BY <1>1, <1>5
  <2>2. (n * r + (x + k)) % n = x + k
    BY <1>1, <2>1, DivUnique
  <2>3. QED
    BY <1>2, <1>4, <1>5, <2>2
<1>6. CASE x + k >= n
  <2>1. x + k - n \in 0 .. n - 1 /\ r + 1 \in Int
    BY <1>1, <1>6
  <2>2. (n * (r + 1) + (x + k - n)) % n = x + k - n
    BY <1>1, <2>1, DivUnique
  <2>3. n * (r + 1) = n * r + n /\ n * r \in Int
    BY <1>1
  <2>4. n * (r + 1) + (x + k - n) = n * r + (x + k)
    BY <1>1, <2>3
  <2>5. ((h + k) % s) % n = x + k - n
    BY <1>4, <2>2, <2>4
  <2>6. ~(x + k < n)
    BY <1>1, <1>6
  <2>7. QED
    BY <1>2, <2>5, <2>6
<1>7. QED
  BY <1>1, <1>2, <1>5, <1>6

\* How far slot i is ahead of the slot of frame h.
LEMMA SlotGap ==
    ASSUME NEW n \in Nat \ {0}, NEW h \in Nat, NEW i \in 0 .. n - 1
    PROVE  (i - h) % n = IF i >= h % n THEN i - (h % n) ELSE i - (h % n) + n
<1>1. PICK q \in Nat, x \in 0 .. n - 1 : h = n * q + x /\ h % n = x
  BY DivOf
<1>2. n * q \in Int /\ n * (-q) = -(n * q) /\ n * (-q - 1) = -(n * q) - n /\ -q \in Int
      /\ -q - 1 \in Int
  OBVIOUS
<1>3. CASE i >= x
  <2>1. i - h = n * (-q) + (i - x) /\ i - x \in 0 .. n - 1
    BY <1>1, <1>2, <1>3
  <2>2. QED
    BY <1>1, <1>2, <1>3, <2>1, DivUnique
<1>4. CASE i < x
  <2>1. i - h = n * (-q - 1) + (i - x + n) /\ i - x + n \in 0 .. n - 1
    BY <1>1, <1>2, <1>4
  <2>2. (n * (-q - 1) + (i - x + n)) % n = i - x + n
    BY <1>2, <2>1, DivUnique
  <2>3. (i - h) % n = i - x + n
    BY <2>1, <2>2
  <2>4. QED
    BY <1>1, <1>4, <2>3
<1>5. QED
  BY <1>1, <1>3, <1>4

\* A ring is two periods; the end of one is where a multiple of it is reached.
LEMMA PeriodEnds ==
    ASSUME NEW p \in Nat \ {0}, NEW h \in Nat
    PROVE  LET x == h % (2 * p)
           IN  /\ (h + 1) % p = 0 <=> x + 1 \in {p, 2 * p}
               /\ x \div p = IF x < p THEN 0 ELSE 1
<1>1. 2 * p \in Nat \ {0}
  OBVIOUS
<1>2. PICK q \in Nat, x \in 0 .. 2 * p - 1 : h = (2 * p) * q + x /\ h % (2 * p) = x
  BY <1>1, DivOf
<1>3. (2 * p) * q = p * (2 * q) /\ 2 * q \in Int /\ p * (2 * q) \in Int
      /\ p * (2 * q + 1) = p * (2 * q) + p /\ p * (2 * q + 2) = p * (2 * q) + 2 * p
      /\ p * 1 = p /\ p * 0 = 0
  OBVIOUS
<1>4. (h + 1) % p = 0 <=> x + 1 \in {p, 2 * p}
  <2>1. CASE x + 1 < p
    <3>1. h + 1 = p * (2 * q) + (x + 1) /\ x + 1 \in 0 .. p - 1
      BY <1>2, <1>3, <2>1
    <3>2. (p * (2 * q) + (x + 1)) % p = x + 1
      BY <1>3, <3>1, DivUnique
    <3>3. (h + 1) % p = x + 1
      BY <3>1, <3>2
    <3>4. QED
      BY <1>2, <2>1, <3>3
  <2>2. CASE p <= x + 1 /\ x + 1 < 2 * p
    <3>1. h + 1 = p * (2 * q + 1) + (x + 1 - p) /\ x + 1 - p \in 0 .. p - 1
          /\ 2 * q + 1 \in Int
      BY <1>2, <1>3, <2>2
    <3>2. (p * (2 * q + 1) + (x + 1 - p)) % p = x + 1 - p
      BY <1>3, <3>1, DivUnique
    <3>3. (h + 1) % p = x + 1 - p
      BY <3>1, <3>2
    <3>4. QED
      BY <1>2, <2>2, <3>3
  <2>3. CASE x + 1 = 2 * p
    <3>1. h + 1 = p * (2 * q + 2) + 0 /\ 0 \in 0 .. p - 1 /\ 2 * q + 2 \in Int
      BY <1>2, <1>3, <2>3
    <3>2. (p * (2 * q + 2) + 0) % p = 0
      BY <1>3, <3>1, DivUnique
    <3>3. (h + 1) % p = 0
      BY <3>1, <3>2
    <3>4. QED
      BY <2>3, <3>3
  <2>4. QED
    BY <1>2, <2>1, <2>2, <2>3
<1>5. x \div p = IF x < p THEN 0 ELSE 1
  <2>1. CASE x < p
    <3>1. x = p * 0 + x /\ x \in 0 .. p - 1 /\ x \in Nat
      BY <1>2, <1>3, <2>1
    <3>2. QED
      BY <2>1, <3>1, DivUnique
  <2>2. CASE x >= p
    <3>1. x = p * 1 + (x - p) /\ x - p \in 0 .. p - 1 /\ x \in Nat
      BY <1>2, <1>3, <2>2
    <3>2. QED
      BY <2>2, <3>1, DivUnique
  <2>3. QED
    BY <1>2, <2>1, <2>2
<1>6. QED
  BY <1>2, <1>4, <1>5

\* The frame that the slot i of a ring has next, seen from frame h.
Upcoming(h, i, n, s) == (h + ((i - h) % n)) % s

LEMMA Around ==
    ASSUME NEW s \in Nat \ {0}, NEW a \in 0 .. s - 1, NEW b \in 0 .. s - 1
    PROVE  /\ (a - b) % s = IF a >= b THEN a - b ELSE a - b + s
           /\ (a - b) % s \in 0 .. s - 1
           /\ (a + b) % s = IF a + b < s THEN a + b ELSE a + b - s
OBVIOUS

\* The frame at slot h % n is h itself.
LEMMA UpcomingHere ==
    ASSUME NEW n, NEW l, NEW s, RingOf(n, l, s), NEW h \in 0 .. s - 1
    PROVE  Upcoming(h, h % n, n, s) = h
<1> DEFINE x == h % n
<1>1. n \in Nat \ {0} /\ x \in 0 .. n - 1 /\ s \in Nat /\ h \in Nat /\ 0 \in 0 .. n
  BY SpanIs, SlotAhead DEF RingOf
<1>2. (x - h) % n = 0
  <2>1. (x - h) % n = IF x >= h % n THEN x - (h % n) ELSE x - (h % n) + n
    <3> HIDE DEF x
    <3>1. QED
      BY <1>1, SlotGap
  <2>2. x = h % n /\ x \in Int
    BY <1>1
  <2> HIDE DEF x
  <2>3. QED
    BY <2>1, <2>2
<1>3. (h + 0) % s = h
  BY <1>1
<1> HIDE DEF x
<1>4. Upcoming(h, x, n, s) = h
  BY <1>2, <1>3 DEF Upcoming
<1>5. QED
  BY <1>4 DEF x

\* It is known from how far the slot is ahead.
LEMMA UpcomingIs ==
    ASSUME NEW n, NEW l, NEW s, RingOf(n, l, s), NEW h \in 0 .. s - 1,
           NEW i \in 0 .. n - 1
    PROVE  LET t == IF i >= h % n THEN i - (h % n) ELSE i - (h % n) + n
           IN  /\ t \in 0 .. n - 1
               /\ Upcoming(h, i, n, s) = IF h + t < s THEN h + t ELSE h + t - s
<1> DEFINE t == IF i >= h % n THEN i - (h % n) ELSE i - (h % n) + n
<1>1. n \in Nat \ {0} /\ h % n \in 0 .. n - 1 /\ s \in Nat /\ s >= n /\ h \in Nat /\ 0 \in 0 .. n
  BY SpanIs, SlotAhead DEF RingOf
<1>2. (i - h) % n = t /\ t \in 0 .. n - 1
  <2>1. (i - h) % n = t
    BY <1>1, SlotGap
  <2>2. t \in 0 .. n - 1
    BY <1>1
  <2>3. QED
    BY <2>1, <2>2
<1> HIDE DEF t
<1>3. (h + t) % s = IF h + t < s THEN h + t ELSE h + t - s
  <2>1. s \in Nat \ {0} /\ t \in 0 .. s - 1
    BY <1>1, <1>2
  <2>2. QED
    BY <2>1, Around
<1>4. Upcoming(h, i, n, s) = (h + t) % s
  BY <1>2 DEF Upcoming
<1>5. QED
  BY <1>2, <1>3, <1>4 DEF t

\* When the engine goes on, only the slot it leaves gets another frame.
LEMMA UpcomingStays ==
    ASSUME NEW n, NEW l, NEW s, RingOf(n, l, s), NEW h \in 0 .. s - 1,
           NEW i \in 0 .. n - 1, i # h % n
    PROVE  Upcoming((h + 1) % s, i, n, s) = Upcoming(h, i, n, s)
<1> DEFINE g == (h + 1) % s
           x == h % n
           y == g % n
<1>1. n \in Nat \ {0} /\ x \in 0 .. n - 1 /\ s \in Nat /\ s >= n /\ h \in Nat /\ 1 \in 0 .. n
  BY SpanIs, SlotAhead DEF RingOf
<1>2. y = IF x + 1 < n THEN x + 1 ELSE x + 1 - n
  BY <1>1, SlotAhead
<1>3. g = (IF h + 1 < s THEN h + 1 ELSE h + 1 - s) /\ g \in 0 .. s - 1
  BY <1>1
<1> HIDE DEF g, x
<1>4. Upcoming(h, i, n, s) = LET t == IF i >= x THEN i - x ELSE i - x + n
                             IN  IF h + t < s THEN h + t ELSE h + t - s
  BY UpcomingIs DEF x
<1>5. Upcoming(g, i, n, s) = LET t == IF i >= y THEN i - y ELSE i - y + n
                             IN  IF g + t < s THEN g + t ELSE g + t - s
  BY <1>3, UpcomingIs
<1> HIDE DEF y
<1>6. i # x
  BY DEF x
<1>7. Upcoming(g, i, n, s) = Upcoming(h, i, n, s)
  <2> DEFINE t == IF i >= x THEN i - x ELSE i - x + n
             u == IF i >= y THEN i - y ELSE i - y + n
  <2>1. u = t - 1 /\ t \in 1 .. n - 1
    BY <1>1, <1>2, <1>6
  <2>2. Upcoming(h, i, n, s) = IF h + t < s THEN h + t ELSE h + t - s
    BY <1>4
  <2>3. Upcoming(g, i, n, s) = IF g + u < s THEN g + u ELSE g + u - s
    BY <1>5
  <2> HIDE DEF t, u
  <2>4. QED
    BY <1>1, <1>3, <2>1, <2>2, <2>3
<1>8. QED
  BY <1>7 DEF g

\* Somebody who is g frames behind agrees about every slot that is not among
\* those g.
LEMMA UpcomingBehind ==
    ASSUME NEW n, NEW l, NEW s, RingOf(n, l, s),
           NEW h \in 0 .. s - 1, NEW d \in 0 .. s - 1, NEW i \in 0 .. n - 1,
           (IF i >= h % n THEN i - (h % n) ELSE i - (h % n) + n) + ((h - d) % s) < n
    PROVE  Upcoming(d, i, n, s) = Upcoming(h, i, n, s)
<1> DEFINE g == (h - d) % s
           x == h % n
           y == d % n
           t == IF i >= x THEN i - x ELSE i - x + n
           u == IF i >= y THEN i - y ELSE i - y + n
<1>1. n \in Nat \ {0} /\ x \in 0 .. n - 1 /\ s \in Nat /\ s >= n /\ y \in 0 .. n - 1
      /\ 0 \in 0 .. n
  BY SpanIs, SlotAhead DEF RingOf
<1>2. g = (IF h >= d THEN h - d ELSE h - d + s) /\ g \in 0 .. s - 1
  <2>1. s \in Nat \ {0}
    BY <1>1
  <2>2. QED
    BY <2>1, Around
<1>3. t + g < n
  OBVIOUS
<1>4. Upcoming(h, i, n, s) = (IF h + t < s THEN h + t ELSE h + t - s) /\ t \in 0 .. n - 1
  BY UpcomingIs
<1>5. Upcoming(d, i, n, s) = (IF d + u < s THEN d + u ELSE d + u - s) /\ u \in 0 .. n - 1
  BY UpcomingIs
<1>6. x = IF y + g < n THEN y + g ELSE y + g - n
  <2> HIDE DEF g, x, y, t
  <2>1. g \in 0 .. n
    BY <1>1, <1>2, <1>3, <1>4
  <2>2. (d + g) % s = h
    BY <1>1, <1>2
  <2>3. QED
    BY <2>1, <2>2, SlotAhead DEF x, y
<1>7. u = t + g
  <2> HIDE DEF g, x, y
  <2>1. QED
    BY <1>1, <1>2, <1>3, <1>4, <1>6
<1> HIDE DEF g, x, y, t, u
<1>8. QED
  BY <1>1, <1>2, <1>3, <1>4, <1>5, <1>7

\* From the slots alone the OSS layer finds how far it is behind.
LEMMA CatchUp ==
    ASSUME NEW n, NEW l, NEW s, RingOf(n, l, s),
           NEW h \in 0 .. s - 1, NEW d \in 0 .. s - 1, (h - d) % s < n
    PROVE  /\ (n + (h % n) - (d % n)) % n = (h - d) % s
           /\ (d + ((h - d) % s)) % s = h
<1> DEFINE g == (h - d) % s
           x == h % n
           y == d % n
<1>1. n \in Nat \ {0} /\ x \in 0 .. n - 1 /\ s \in Nat /\ s >= n /\ y \in 0 .. n - 1
      /\ 0 \in 0 .. n
  BY SpanIs, SlotAhead DEF RingOf
<1>2. g = (IF h >= d THEN h - d ELSE h - d + s) /\ g \in 0 .. s - 1 /\ g < n
  BY <1>1, Around
<1> HIDE DEF g
<1>3. (d + g) % s = h
  BY <1>1, <1>2
<1>4. x = IF y + g < n THEN y + g ELSE y + g - n
  <2>1. g \in 0 .. n
    BY <1>1, <1>2
  <2>2. ((d + g) % s) % n = IF (d % n) + g < n THEN (d % n) + g ELSE (d % n) + g - n
    BY <2>1, SlotAhead
  <2>3. QED
    BY <1>3, <2>2
<1> HIDE DEF x, y
<1>5. (n + x - y) % n = g
  BY <1>1, <1>2, <1>4
<1>6. QED
  BY <1>3, <1>5 DEF g, x, y

\* With each frame it is one more behind.
LEMMA FallBack ==
    ASSUME NEW s \in Nat \ {0}, NEW h \in 0 .. s - 1, NEW d \in 0 .. s - 1,
           ((h - d) % s) + 1 < s
    PROVE  (((h + 1) % s) - d) % s = ((h - d) % s) + 1
<1> DEFINE g == (h - d) % s
           k == (h + 1) % s
<1>1. g = (IF h >= d THEN h - d ELSE h - d + s) /\ g + 1 < s
  BY Around
<1>2. k = (IF h + 1 < s THEN h + 1 ELSE h + 1 - s) /\ k \in 0 .. s - 1
  OBVIOUS
<1> HIDE DEF g, k
<1>3. (k - d) % s = IF k >= d THEN k - d ELSE k - d + s
  BY <1>2, Around
<1>4. QED
  BY <1>1, <1>2, <1>3 DEF g, k

-----------------------------------------------------------------------------
(* The frames that are played                                              *)

\* The slot the engine comes to next, and its place in the period.
At == hw % Ring
Within == IF At < Period THEN At ELSE At - Period

\* The period that the engine is not in.
Away == IF At < Period THEN 1 ELSE 0

\* How far the OSS layer is behind the engine.
Lag == (hw - done["pb"]) % Span

\* The frame that slot i is played with when the engine comes to it next, and
\* that the slot holds it.
NextOf(i) == (hw + ((i - hw) % Ring)) % Span
Ready(i) == planar["pb"][i] = Frame(NextOf(i))

InAway(i) == (i < Period) # (At < Period)

PlayTypes ==
    /\ hw \in 0 .. Span - 1
    /\ done["pb"] \in 0 .. Span - 1 /\ hp["pb"] \in 0 .. Ring - 1
    /\ DOMAIN done = Streams /\ DOMAIN hp = Streams /\ DOMAIN planar = Streams
    /\ finished \in {0, 1}
    /\ irq => ipc \in {"idle", "confirm"}

\* Between sessions the pointers are set back, and a session serves its stream.
Sessions ==
    /\ ~running => hw = 0
    /\ running => stream["pb"] = "RUNNING"
    /\ pc["pb"] = "start" => hp["pb"] = 0 /\ done["pb"] = 0

\* The OSS layer is less than a ring behind, and within the engine's period
\* unless an interrupt is pending or has not told it yet.
Followed ==
    /\ hp["pb"] = done["pb"] % Ring
    /\ Lag <= Period + Within
    /\ ~irq /\ ipc \in {"idle", "copypb"} => Lag <= Within

\* The rest of the engine's period is ready, and the other period is so too
\* unless its refill is still to come.
Filled ==
    /\ \A i \in Slots : ~InAway(i) /\ At <= i => Ready(i)
    /\ \/ \A i \in Slots : InAway(i) => Ready(i)
       \/ irq /\ ipc = "idle"
       \/ ipc # "idle" /\ finished = Away

PlayInv ==
    open = {"pb"} =>
        PlayTypes /\ Sessions /\ (running => Followed /\ Filled)

LEMMA RingFacts ==
    ASSUME open \in OpenSets
    PROVE  /\ Period \in Nat \ {0} /\ Ring = 2 * Period /\ Slots = 0 .. Ring - 1
           /\ RingOf(Ring, LapsOf[open], Span) /\ Span \in Nat \ {0} /\ Span >= Ring
           /\ Half(0) = 0 .. Period - 1 /\ Half(1) = Period .. Ring - 1
<1>1. Period \in Nat \ {0} /\ LapsOf[open] \in Nat \ {0} /\ Ring = 2 * Period
  BY PeriodAssumption, LapsAssumption DEF Period, Ring
<1>2. Ring \in Nat \ {0}
  BY <1>1
<1>3. RingOf(Ring, LapsOf[open], Span)
  BY <1>1, <1>2 DEF RingOf, Span
<1>4. Span \in Nat \ {0} /\ Span >= Ring
  BY <1>2, <1>3, SpanIs
<1>5. Half(0) = 0 .. Period - 1
  BY <1>1 DEF Half
<1>6. Half(1) = Period .. Ring - 1
  BY <1>1 DEF Half
<1>7. QED
  BY <1>1, <1>3, <1>4, <1>5, <1>6 DEF Slots

LEMMA RingStays ==
    ASSUME open' = open
    PROVE  /\ Period' = Period /\ Ring' = Ring /\ Span' = Span /\ Slots' = Slots
           /\ \A f : Frame(f)' = Frame(f)
BY DEF Period, Ring, Span, Slots, Frame

LEMMA OpenStays == ASSUME [Next]_vars PROVE open' = open
<1>1. CASE \E d \in Streams : SetBlocksize(d) \/ BeginStart(d) \/ BeginStop(d) \/ AppStep(d)
  BY <1>1 DEF SetBlocksize, BeginStart, BeginStop, AppStep, HwParams, TriggerStart,
     TriggerStop, Relock
<1>2. CASE HwTick
  BY <1>2 DEF HwTick, app
<1>3. CASE Interrupt
  BY <1>3 DEF Interrupt, IsrEnter, IsrConfirm, IsrCapture, IsrRefill, IsrTest, IsrElapsed, app
<1>4. CASE CalloutStep
  BY <1>4 DEF CalloutStep, CalloutFire, CalloutCheck, CalloutRearm, CalloutTest,
     CalloutElapsed, app
<1>5. CASE DetachDrain \/ DetachDrained \/ DetachRest
  BY <1>5 DEF DetachDrain, DetachDrained, DetachRest, app
<1>6. CASE UNCHANGED vars
  BY <1>6 DEF vars, app
<1>7. QED
  BY <1>1, <1>2, <1>3, <1>4, <1>5, <1>6 DEF Next

\* Where the engine is, for short.
LEMMA Place ==
    ASSUME open \in OpenSets, hw \in 0 .. Span - 1
    PROVE  /\ At \in 0 .. Ring - 1 /\ Within \in 0 .. Period - 1 /\ Away \in {0, 1}
           /\ FinishedPeriod = Away
           /\ (hw + 1) % Period = 0 <=> At + 1 \in {Period, Ring}
           /\ \A i \in Slots : NextOf(i) = Upcoming(hw, i, Ring, Span)
<1>1. /\ Period \in Nat \ {0} /\ Ring = 2 * Period /\ Slots = 0 .. Ring - 1
      /\ RingOf(Ring, LapsOf[open], Span) /\ Span \in Nat
  BY RingFacts
<1>2. At \in 0 .. Ring - 1
  <2>1. 0 \in 0 .. Ring
    BY <1>1
  <2>2. QED
    BY <1>1, <2>1, SlotAhead DEF At
<1>3. Within \in 0 .. Period - 1 /\ Away \in {0, 1}
  BY <1>1, <1>2 DEF Within, Away
<1>4. /\ (hw + 1) % Period = 0 <=> At + 1 \in {Period, Ring}
      /\ At \div Period = IF At < Period THEN 0 ELSE 1
  <2>1. hw \in Nat
    BY <1>1
  <2>2. QED
    BY <1>1, <2>1, PeriodEnds DEF At
<1>5. FinishedPeriod = Away
  <2>1. FinishedPeriod = 1 - (At \div Period)
    BY DEF FinishedPeriod, At
  <2>2. QED
    BY <1>4, <2>1 DEF Away
<1>6. QED
  BY <1>2, <1>3, <1>4, <1>5 DEF NextOf, Upcoming

\* A step that moves neither the engine nor the pointers of playback.
LEMMA StandStill ==
    ASSUME PlayInv, open = {"pb"}, open' = open,
           UNCHANGED <<hw, running, stream>>,
           DOMAIN done' = Streams, DOMAIN hp' = Streams, DOMAIN planar' = Streams,
           done'["pb"] = done["pb"], hp'["pb"] = hp["pb"], planar'["pb"] = planar["pb"],
           pc'["pb"] = "start" => pc["pb"] = "start",
           finished' \in {0, 1},
           irq' => irq /\ ipc' \in {"idle", "confirm"},
           running /\ ~irq' /\ ipc' \in {"idle", "copypb"} =>
               ~irq /\ ipc \in {"idle", "copypb"},
           irq /\ ipc = "idle" =>
               (irq' /\ ipc' = "idle") \/ (ipc' # "idle" /\ finished' = Away),
           ipc # "idle" /\ finished = Away => ipc' # "idle" /\ finished' = Away
    PROVE  PlayInv'
<1>1. PlayTypes /\ Sessions /\ (running => Followed /\ Filled)
  BY DEF PlayInv
<1>2. Period' = Period /\ Ring' = Ring /\ Span' = Span /\ Slots' = Slots
      /\ \A f : Frame(f)' = Frame(f)
  BY RingStays
<1>3. At' = At /\ Within' = Within /\ Away' = Away /\ Lag' = Lag
  BY <1>2 DEF At, Within, Away, Lag
<1>4. \A i : (Ready(i)' <=> Ready(i)) /\ (InAway(i)' <=> InAway(i))
  BY <1>2, <1>3 DEF Ready, NextOf, InAway
<1>5. PlayTypes'
  BY <1>1, <1>2 DEF PlayTypes
<1>6. Sessions'
  BY <1>1 DEF Sessions
<1>7. ASSUME running PROVE Followed'
  BY <1>1, <1>2, <1>3, <1>7 DEF Followed
<1>8. ASSUME running PROVE Filled'
  BY <1>1, <1>2, <1>3, <1>4, <1>8 DEF Filled
<1>9. QED
  BY <1>5, <1>6, <1>7, <1>8 DEF PlayInv

\* chn_intr of playback takes the OSS layer to where the engine is.
LEMMA Told ==
    ASSUME PlayInv, open = {"pb"}, open \in OpenSets, ChnIntr("pb"),
           pc["pb"] = "start" => ~running,
           open' = open, UNCHANGED <<hw, running, stream, planar, pc, irq, finished>>,
           ipc' = ipc \/ (ipc = "intrpb" /\ ipc' = "copypb")
    PROVE  PlayInv'
<1>1. PlayTypes /\ Sessions /\ (running => Followed /\ Filled)
  BY DEF PlayInv
<1>2. Period' = Period /\ Ring' = Ring /\ Span' = Span /\ Slots' = Slots
      /\ \A f : Frame(f)' = Frame(f)
  BY RingStays
<1>3. At' = At /\ Within' = Within /\ Away' = Away
  BY <1>2 DEF At, Within, Away
<1>4. \A i : (Ready(i)' <=> Ready(i)) /\ (InAway(i)' <=> InAway(i))
  BY <1>2, <1>3 DEF Ready, NextOf, InAway
<1>5. /\ Period \in Nat \ {0} /\ Ring = 2 * Period /\ Slots = 0 .. Ring - 1
      /\ RingOf(Ring, LapsOf[open], Span) /\ Span \in Nat \ {0} /\ Span >= Ring
  BY RingFacts
<1>6. /\ At \in 0 .. Ring - 1 /\ Within \in 0 .. Period - 1
  BY <1>1, Place DEF PlayTypes
<1>7. /\ hp' = [hp EXCEPT !["pb"] = Pointer]
      /\ done' = [done EXCEPT !["pb"] =
                    (done["pb"] + ((Ring + Pointer - hp["pb"]) % Ring)) % Span]
  BY DEF ChnIntr
<1>8. /\ DOMAIN hp' = Streams /\ DOMAIN done' = Streams
      /\ hp'["pb"] = Pointer
      /\ done'["pb"] = (done["pb"] + ((Ring + Pointer - hp["pb"]) % Ring)) % Span
  BY <1>1, <1>7 DEF PlayTypes, Streams
<1>9. Pointer = IF running THEN At ELSE 0
  BY DEF Pointer, At
<1>10. PlayTypes'
  <2>1. hp'["pb"] \in 0 .. Ring - 1
    BY <1>5, <1>6, <1>8, <1>9
  <2>2. done'["pb"] \in 0 .. Span - 1
    <3>1. (Ring + Pointer - hp["pb"]) % Ring \in 0 .. Ring - 1
      <4>1. Ring + Pointer - hp["pb"] \in Int /\ Ring > 0 /\ Ring \in Int
        BY <1>1, <1>5, <1>6, <1>9 DEF PlayTypes
      <4>2. QED
        BY <4>1
    <3>2. done["pb"] \in Int
      BY <1>1, <1>5 DEF PlayTypes
    <3> DEFINE g == (Ring + Pointer - hp["pb"]) % Ring
    <3> HIDE DEF g
    <3>3. g \in Int
      BY <1>5, <3>1 DEF g
    <3>4. (done["pb"] + g) % Span \in 0 .. Span - 1
      BY <1>5, <3>2, <3>3
    <3>5. QED
      BY <1>8, <3>4 DEF g
  <2>3. irq' => ipc' \in {"idle", "confirm"}
    BY <1>1 DEF PlayTypes
  <2>4. QED
    BY <1>1, <1>2, <1>8, <2>1, <2>2, <2>3 DEF PlayTypes
<1>11. Sessions'
  <2>1. ASSUME pc["pb"] = "start", ~running PROVE hp'["pb"] = 0 /\ done'["pb"] = 0
    <3>1. hp["pb"] = 0 /\ done["pb"] = 0 /\ Pointer = 0
      BY <1>1, <1>9, <2>1 DEF Sessions
    <3>2. (Ring + 0 - 0) % Ring = 0 /\ (0 + 0) % Span = 0
      BY <1>5
    <3>3. QED
      BY <1>8, <3>1, <3>2
  <2>2. QED
    BY <1>1, <2>1 DEF Sessions
<1>12. ASSUME running PROVE Followed' /\ Filled'
  <2>1. done'["pb"] = hw /\ hp'["pb"] = hw % Ring
    <3>1. hp["pb"] = done["pb"] % Ring /\ Lag <= Period + Within
      BY <1>1, <1>12 DEF Followed
    <3>2. (hw - done["pb"]) % Span < Ring
      <4>1. Lag \in Int
        BY <1>1, <1>5 DEF PlayTypes, Lag
      <4>2. QED
        BY <1>5, <1>6, <3>1, <4>1 DEF Lag
    <3>3. hw \in 0 .. Span - 1 /\ done["pb"] \in 0 .. Span - 1
      BY <1>1 DEF PlayTypes
    <3>4. /\ (Ring + (hw % Ring) - (done["pb"] % Ring)) % Ring = (hw - done["pb"]) % Span
          /\ (done["pb"] + ((hw - done["pb"]) % Span)) % Span = hw
      BY <1>5, <3>2, <3>3, CatchUp
    <3>5. Pointer = hw % Ring
      BY <1>12 DEF Pointer
    <3>6. QED
      BY <1>8, <3>1, <3>4, <3>5
  <2>2. Lag' = 0
    <3>1. (hw - hw) % Span = 0
      BY <1>1, <1>5 DEF PlayTypes
    <3>2. QED
      BY <1>2, <2>1, <3>1 DEF Lag
  <2>3. Followed'
    BY <1>2, <1>3, <1>5, <1>6, <2>1, <2>2 DEF Followed
  <2>4. Filled'
    BY <1>1, <1>2, <1>3, <1>4, <1>12 DEF Filled
  <2>5. QED
    BY <2>3, <2>4
<1>13. QED
  BY <1>10, <1>11, <1>12 DEF PlayInv

\* The refill of a period puts into each of its slots the frame it has next,
\* unless the engine has passed it since the OSS layer was told.
LEMMA Refilled ==
    ASSUME PlayInv, open = {"pb"}, open \in OpenSets, ipc = "copypb", IsrRefill
    PROVE  PlayInv'
<1>1. PlayTypes /\ Sessions /\ (running => Followed /\ Filled)
  BY DEF PlayInv
<1>2. /\ UNCHANGED <<open, pc, hw, running, stream, hp, done, irq, finished>>
      /\ ipc' = "idle"
      /\ planar' = IF stream["pb"] = "RUNNING" THEN Deinterleaved(Half(finished))
                   ELSE planar
  BY DEF IsrRefill, app, engine, oss
<1>3. Period' = Period /\ Ring' = Ring /\ Span' = Span /\ Slots' = Slots
      /\ \A f : Frame(f)' = Frame(f)
  BY <1>2, RingStays
<1>4. At' = At /\ Within' = Within /\ Away' = Away /\ Lag' = Lag
  BY <1>2, <1>3 DEF At, Within, Away, Lag
<1>5. \A i : NextOf(i)' = NextOf(i) /\ (InAway(i)' <=> InAway(i))
  BY <1>2, <1>3, <1>4 DEF NextOf, InAway
<1>6. DOMAIN planar' = Streams
  BY <1>1, <1>2 DEF PlayTypes, Deinterleaved
<1>7. PlayTypes' /\ Sessions'
  BY <1>1, <1>2, <1>3, <1>6 DEF PlayTypes, Sessions
<1>8. ASSUME running PROVE Followed' /\ Filled'
  <2>1. Followed /\ Filled /\ stream["pb"] = "RUNNING" /\ ~irq
    BY <1>1, <1>8 DEF Sessions, PlayTypes
  <2>2. Lag <= Within
    BY <2>1 DEF Followed
  <2>3. Followed'
    BY <1>2, <1>3, <1>4, <2>1, <2>2 DEF Followed
  <2>4. /\ Period \in Nat \ {0} /\ Ring = 2 * Period /\ Slots = 0 .. Ring - 1
        /\ RingOf(Ring, LapsOf[open], Span) /\ Span \in Nat \ {0} /\ Span >= Ring
        /\ Half(0) = 0 .. Period - 1 /\ Half(1) = Period .. Ring - 1
    BY RingFacts
  <2>5. /\ At \in 0 .. Ring - 1 /\ Within \in 0 .. Period - 1 /\ Away \in {0, 1}
        /\ \A i \in Slots : NextOf(i) = Upcoming(hw, i, Ring, Span)
    BY <1>1, Place DEF PlayTypes
  <2>6. hw \in 0 .. Span - 1 /\ done["pb"] \in 0 .. Span - 1 /\ finished \in {0, 1}
    BY <1>1 DEF PlayTypes
  <2>7. Lag \in Int
    BY <2>4, <2>6 DEF Lag
  <2>8. ASSUME NEW i \in Slots
        PROVE  planar'["pb"][i] = IF i \in Half(finished) THEN Playing(i) ELSE planar["pb"][i]
    BY <1>1, <1>2, <2>1, <2>8 DEF Deinterleaved, PlayTypes, Streams
  <2>9. ASSUME NEW i \in Slots, InAway(i) \/ At <= i
        PROVE  Playing(i) = Frame(NextOf(i))
    <3>1. (IF i >= At THEN i - At ELSE i - At + Ring) + Lag < Ring
      BY <2>2, <2>4, <2>5, <2>7, <2>9 DEF InAway, Within
    <3>2. (IF i >= hw % Ring THEN i - (hw % Ring) ELSE i - (hw % Ring) + Ring)
             + ((hw - done["pb"]) % Span) < Ring
      BY <3>1 DEF At, Lag
    <3>3. i \in 0 .. Ring - 1
      BY <2>4
    <3>4. ASSUME NEW d, d = done["pb"]
          PROVE  Upcoming(d, i, Ring, Span) = Upcoming(hw, i, Ring, Span)
      <4>1. d \in 0 .. Span - 1
        BY <2>6, <3>4
      <4>2. (IF i >= hw % Ring THEN i - (hw % Ring) ELSE i - (hw % Ring) + Ring)
               + ((hw - d) % Span) < Ring
        BY <3>2, <3>4
      <4>3. RingOf(Ring, LapsOf[open], Span) /\ hw \in 0 .. Span - 1
        BY <2>4, <2>6
      <4> HIDE DEF Ring, Span
      <4>4. QED
        BY <3>3, <4>1, <4>2, <4>3, UpcomingBehind, Zenon
    <3>5. QED
      BY <2>5, <3>4 DEF Playing, Upcoming
  <2>10. ASSUME NEW i \in Slots, InAway(i) \/ At <= i,
                i \in Half(finished) \/ Ready(i)
         PROVE  Ready(i)'
    <3>1. planar'["pb"][i] = Frame(NextOf(i))
      BY <2>8, <2>9, <2>10 DEF Ready
    <3>2. QED
      BY <1>3, <1>5, <3>1 DEF Ready
  <2>11. \A i \in Slots : ~InAway(i) /\ At <= i => Ready(i)'
    BY <2>1, <2>10 DEF Filled
  <2>12. \A i \in Slots : InAway(i) => Ready(i)'
    <3>1. CASE \A i \in Slots : InAway(i) => Ready(i)
      BY <2>10, <3>1
    <3>2. CASE finished = Away
      <4>1. \A i \in Slots : InAway(i) => i \in Half(finished)
        BY <2>4, <2>5, <3>2 DEF InAway, Away
      <4>2. QED
        BY <2>10, <4>1
    <3>3. QED
      BY <2>1, <3>1, <3>2 DEF Filled
  <2>13. Filled'
    BY <1>3, <1>4, <1>5, <2>11, <2>12 DEF Filled
  <2>14. QED
    BY <2>3, <2>13
<1>9. QED
  BY <1>2, <1>7, <1>8 DEF PlayInv

\* The engine goes on, into the other period only when that has been refilled.
LEMMA Ticked ==
    ASSUME PlayInv, open = {"pb"}, open \in OpenSets, HwTick
    PROVE  PlayInv'
<1>1. PlayTypes /\ Sessions /\ Followed /\ Filled /\ running
  BY DEF PlayInv, HwTick
<1>2. /\ UNCHANGED <<open, pc, running, stream, hp, done, ipc, finished>>
      /\ (hw + 1) % Period = 0 => ~irq /\ ipc = "idle"
      /\ hw' = (hw + 1) % Span
      /\ irq' = (irq \/ (hw + 1) % Period = 0)
      /\ DOMAIN planar' = Streams /\ planar'["pb"] = planar["pb"]
  BY <1>1 DEF HwTick, app, oss, isr, PlayTypes, Streams
<1>3. Period' = Period /\ Ring' = Ring /\ Span' = Span /\ Slots' = Slots
      /\ \A f : Frame(f)' = Frame(f)
  BY <1>2, RingStays
<1>4. /\ Period \in Nat \ {0} /\ Ring = 2 * Period /\ Slots = 0 .. Ring - 1
      /\ RingOf(Ring, LapsOf[open], Span) /\ Span \in Nat \ {0} /\ Span >= Ring
  BY RingFacts
<1>5. /\ At \in 0 .. Ring - 1 /\ Within \in 0 .. Period - 1
      /\ (hw + 1) % Period = 0 <=> At + 1 \in {Period, Ring}
      /\ \A i \in Slots : NextOf(i) = Upcoming(hw, i, Ring, Span)
  BY <1>1, Place DEF PlayTypes
<1>6. hw \in 0 .. Span - 1 /\ done["pb"] \in 0 .. Span - 1 /\ hw' \in 0 .. Span - 1
  <2>1. hw \in 0 .. Span - 1 /\ done["pb"] \in 0 .. Span - 1
    BY <1>1 DEF PlayTypes
  <2>2. (hw + 1) % Span \in 0 .. Span - 1
    BY <1>4, <2>1
  <2>3. QED
    BY <1>2, <2>1, <2>2
<1>7. At' = IF At + 1 < Ring THEN At + 1 ELSE 0
  <2>1. ((hw + 1) % Span) % Ring = IF (hw % Ring) + 1 < Ring THEN (hw % Ring) + 1
                                                            ELSE (hw % Ring) + 1 - Ring
    <3>1. 1 \in 0 .. Ring
      BY <1>4
    <3>2. RingOf(Ring, LapsOf[open], Span) /\ hw \in 0 .. Span - 1
      BY <1>4, <1>6
    <3> HIDE DEF Ring, Span
    <3>3. QED
      BY <3>1, <3>2, SlotAhead, Zenon
  <2>2. At' = ((hw + 1) % Span) % Ring
    BY <1>2, <1>3 DEF At
  <2>3. At' = IF At + 1 < Ring THEN At + 1 ELSE At + 1 - Ring
    BY <2>1, <2>2 DEF At
  <2>4. QED
    BY <1>4, <1>5, <2>3
<1>8. ASSUME NEW i \in Slots, i # At PROVE Ready(i)' <=> Ready(i)
  <2>1. NextOf(i)' = Upcoming(hw', i, Ring, Span)
    BY <1>3 DEF NextOf, Upcoming
  <2>2. Upcoming(hw', i, Ring, Span) = Upcoming(hw, i, Ring, Span)
    BY <1>2, <1>4, <1>6, <1>8, UpcomingStays DEF At
  <2>3. NextOf(i)' = NextOf(i)
    BY <1>5, <2>1, <2>2
  <2>4. QED
    BY <1>2, <1>3, <2>3 DEF Ready
<1>9. PlayTypes'
  BY <1>1, <1>2, <1>3, <1>6 DEF PlayTypes
<1>10. Sessions'
  BY <1>1, <1>2 DEF Sessions
<1>11. Lag' = Lag + 1 /\ Lag \in Nat /\ Lag <= Period + Within
       /\ (~irq /\ ipc \in {"idle", "copypb"} => Lag <= Within)
  <2>1. Lag <= Period + Within /\ (~irq /\ ipc \in {"idle", "copypb"} => Lag <= Within)
    BY <1>1 DEF Followed
  <2>2. Lag \in Nat
    BY <1>4, <1>6 DEF Lag
  <2>3. Lag + 1 < Span
    <3>1. CASE At + 1 \in {Period, Ring}
      <4>1. Lag <= Within
        BY <1>2, <1>5, <2>1, <3>1
      <4>2. Lag + 1 <= Period
        BY <1>4, <1>5, <2>2, <4>1
      <4>3. QED
        BY <1>4, <2>2, <4>2
    <3>2. CASE At + 1 \notin {Period, Ring}
      <4>1. Within + 1 < Period
        BY <1>4, <1>5, <3>2 DEF Within
      <4>2. QED
        BY <1>4, <1>5, <2>1, <2>2, <4>1
    <3>3. QED
      BY <3>1, <3>2
  <2>4. ((((hw + 1) % Span) - done["pb"]) % Span) = ((hw - done["pb"]) % Span) + 1
    BY <1>4, <1>6, <2>3, FallBack DEF Lag
  <2>5. Lag' = Lag + 1
    BY <1>2, <1>3, <2>4 DEF Lag
  <2>6. QED
    BY <2>1, <2>2, <2>5
<1>12. CASE At + 1 \notin {Period, Ring}
  <2>1. At' = At + 1 /\ Within' = Within + 1 /\ Away' = Away /\ (irq' <=> irq)
    <3>1. At' = At + 1 /\ (At + 1 < Period <=> At < Period)
      BY <1>4, <1>5, <1>7, <1>12
    <3>2. Within' = Within + 1 /\ Away' = Away
      BY <1>3, <1>4, <1>5, <3>1 DEF Within, Away
    <3>3. irq' <=> irq
      <4>1. ~((hw + 1) % Period = 0)
        BY <1>5, <1>12
      <4>2. QED
        BY <1>2, <4>1, Zenon
    <3>4. QED
      BY <3>1, <3>2, <3>3
  <2>2. Followed'
    <3>1. Lag' <= Period' + Within'
      BY <1>3, <1>4, <1>5, <1>11, <2>1
    <3>2. ~irq' /\ ipc' \in {"idle", "copypb"} => Lag' <= Within'
      BY <1>2, <1>4, <1>5, <1>11, <2>1
    <3>3. hp'["pb"] = done'["pb"] % Ring'
      BY <1>1, <1>2, <1>3 DEF Followed
    <3>4. QED
      BY <3>1, <3>2, <3>3 DEF Followed
  <2>3. \A i \in Slots : InAway(i)' <=> InAway(i)
    BY <1>3, <1>4, <1>5, <1>12, <2>1 DEF InAway
  <2>4. \A i \in Slots : InAway(i) => i # At
    BY DEF InAway
  <2>5. \A i \in Slots : At + 1 <= i => At <= i /\ i # At
    BY <1>4, <1>5
  <2>6. Filled'
    BY <1>1, <1>2, <1>3, <1>8, <2>1, <2>3, <2>4, <2>5 DEF Filled
  <2>7. QED
    BY <1>9, <1>10, <2>2, <2>6 DEF PlayInv
<1>13. CASE At + 1 \in {Period, Ring}
  <2>1. ~irq /\ ipc = "idle" /\ irq'
    BY <1>2, <1>5, <1>13
  <2>2. Within = Period - 1 /\ Within' = 0
    BY <1>3, <1>4, <1>5, <1>7, <1>13 DEF Within
  <2>3. Followed'
    BY <1>1, <1>2, <1>3, <1>4, <1>11, <2>1, <2>2 DEF Followed
  <2>4. \A i \in Slots : ~InAway(i)' => InAway(i) /\ i # At
    BY <1>3, <1>4, <1>5, <1>7, <1>13 DEF InAway
  <2>5. \A i \in Slots : InAway(i) => Ready(i)
    BY <1>1, <2>1 DEF Filled
  <2>6. Filled'
    BY <1>2, <1>3, <1>8, <2>1, <2>4, <2>5 DEF Filled
  <2>7. QED
    BY <1>9, <1>10, <2>3, <2>6 DEF PlayInv
<1>14. QED
  BY <1>12, <1>13

\* A START fills both periods with the first frames.
LEMMA Begun ==
    ASSUME PlayInv, open = {"pb"}, open \in OpenSets, TriggerStart("pb"), ~running,
           DOMAIN stream = Streams, DOMAIN pc = Streams
    PROVE  PlayInv'
<1>1. PlayTypes /\ hw = 0 /\ hp["pb"] = 0 /\ done["pb"] = 0
  BY DEF PlayInv, Sessions, TriggerStart
<1>2. /\ UNCHANGED <<open, hw, hp, done, ipc, finished, irq>>
      /\ stream'["pb"] = "RUNNING" /\ running' /\ pc'["pb"] # "start"
      /\ planar' = Deinterleaved(Slots)
  <2>1. /\ UNCHANGED <<open, hw, hp, done, ipc, finished, irq>>
        /\ running' /\ planar' = Deinterleaved(Slots)
    BY DEF TriggerStart, oss, isr
  <2>2. stream'["pb"] = "RUNNING"
    BY DEF TriggerStart, Streams
  <2>3. pc'["pb"] # "start"
    BY DEF TriggerStart, Goto, Streams
  <2>4. QED
    BY <2>1, <2>2, <2>3
<1>3. Period' = Period /\ Ring' = Ring /\ Span' = Span /\ Slots' = Slots
      /\ \A f : Frame(f)' = Frame(f)
  BY <1>2, RingStays
<1>4. /\ Period \in Nat \ {0} /\ Ring = 2 * Period /\ Slots = 0 .. Ring - 1
      /\ Span \in Nat \ {0} /\ Span >= Ring
  BY RingFacts
<1>5. DOMAIN planar' = Streams
  BY <1>1, <1>2 DEF PlayTypes, Deinterleaved
<1>6. PlayTypes'
  BY <1>1, <1>2, <1>3, <1>5 DEF PlayTypes
<1>7. Sessions'
  BY <1>2 DEF Sessions
<1>8. At' = 0 /\ Within' = 0 /\ Lag' = 0
  <2>1. 0 % Ring = 0 /\ (0 - 0) % Span = 0
    BY <1>4
  <2>2. At' = 0 /\ Lag' = 0
    BY <1>1, <1>2, <1>3, <2>1 DEF At, Lag
  <2>3. QED
    BY <1>3, <1>4, <2>2 DEF Within
<1>9. Followed'
  <2>1. 0 % Ring = 0
    BY <1>4
  <2>2. QED
    BY <1>1, <1>2, <1>3, <1>4, <1>8, <2>1 DEF Followed
<1>10. ASSUME NEW i \in Slots PROVE Ready(i)'
  <2>1. planar'["pb"][i] = Playing(i)
    BY <1>1, <1>2 DEF Deinterleaved, PlayTypes, Streams
  <2>2. Playing(i) = Frame((0 + ((i - 0) % Ring)) % Span)
    BY <1>1 DEF Playing
  <2>3. NextOf(i)' = (0 + ((i - 0) % Ring)) % Span
    BY <1>1, <1>2, <1>3 DEF NextOf
  <2>4. QED
    BY <1>3, <2>1, <2>2, <2>3 DEF Ready
<1>11. Filled'
  BY <1>3, <1>10 DEF Filled
<1>12. QED
  BY <1>6, <1>7, <1>9, <1>11 DEF PlayInv

LEMMA Ended ==
    ASSUME PlayInv, open = {"pb"}, open \in OpenSets, TriggerStop("pb"), running,
           DOMAIN pc = Streams
    PROVE  PlayInv'
<1>1. PlayTypes
  BY DEF PlayInv
<1>2. /\ UNCHANGED <<open, hp, done, ipc, finished, irq>>
      /\ ~running' /\ hw' = 0 /\ pc'["pb"] # "start"
      /\ planar' = [s \in Streams |-> [i \in Slots |-> Stale]]
  BY DEF TriggerStop, Goto, oss, isr, Streams
<1>3. Period' = Period /\ Ring' = Ring /\ Span' = Span
  BY <1>2, RingStays
<1>4. Span \in Nat \ {0}
  BY RingFacts
<1>5. PlayTypes'
  BY <1>1, <1>2, <1>3, <1>4 DEF PlayTypes
<1>6. Sessions'
  BY <1>2 DEF Sessions
<1>7. QED
  BY <1>2, <1>5, <1>6 DEF PlayInv

LEMMA PlayInit == Init => PlayInv
<1> SUFFICES ASSUME Init, open = {"pb"} PROVE PlayTypes /\ Sessions
  BY DEF Init, PlayInv
<1>1. Period \in Nat \ {0} /\ Ring = 2 * Period /\ Span \in Nat \ {0}
  BY RingFacts DEF Init
<1>2. PlayTypes
  <2>1. 0 \in 0 .. Ring - 1 /\ 0 \in 0 .. Span - 1
    BY <1>1
  <2>2. hw = 0 /\ finished = 0 /\ ipc = "idle"
    BY DEF Init
  <2>3. /\ DOMAIN done = Streams /\ DOMAIN hp = Streams /\ DOMAIN planar = Streams
        /\ done["pb"] = 0 /\ hp["pb"] = 0
    BY DEF Init, Streams
  <2>4. QED
    BY <2>1, <2>2, <2>3 DEF PlayTypes
<1>3. Sessions
  <2>1. ~running /\ hw = 0
    BY DEF Init
  <2>2. pc["pb"] = "idle"
    BY DEF Init, Streams
  <2>3. QED
    BY <2>1, <2>2 DEF Sessions
<1>4. QED
  BY <1>2, <1>3

LEMMA PlayNext == ASSUME FeederInv, PlayInv, [Next]_vars PROVE PlayInv'
<1>1. open' = open
  BY OpenStays
<1>2. SUFFICES ASSUME open = {"pb"} PROVE PlayInv'
  BY <1>1 DEF PlayInv
<1>3. /\ open \in OpenSets /\ DOMAIN stream = Streams /\ DOMAIN pc = Streams
      /\ PlayTypes /\ Sessions
  BY <1>2 DEF FeederInv, ControlTypeOK, PlayInv
<1>4. /\ pc["cap"] = "idle" /\ ~started["cap"]
      /\ pc["pb"] = "start" => ~running
      /\ pc["pb"] = "stop" => running
      /\ started["pb"] <=> running
  BY <1>2 DEF FeederInv, PathInv, SoloInv, Streams
<1>5. FinishedPeriod = Away
  BY <1>3, Place DEF PlayTypes
<1>6. ASSUME NEW d \in Streams, SetBlocksize(d) \/ HwParams(d) \/ Relock(d) \/ BeginStop(d)
      PROVE  PlayInv'
  <2>1. UNCHANGED <<hw, running, stream, done, hp, planar, ipc, irq, finished>>
    BY <1>6 DEF SetBlocksize, HwParams, Relock, BeginStop, engine, oss, buffers, isr
  <2>2. pc'["pb"] = "start" => pc["pb"] = "start"
    BY <1>3, <1>6 DEF SetBlocksize, HwParams, Relock, BeginStop, Goto, Streams
  <2>3. QED
    BY <1>1, <1>2, <1>3, <2>1, <2>2, StandStill DEF PlayTypes
<1>7. ASSUME NEW d \in Streams, BeginStart(d) PROVE PlayInv'
  <2>1. d = "pb" /\ ~running
    BY <1>2, <1>4, <1>7 DEF BeginStart, Streams
  <2>2. /\ UNCHANGED <<hw, running, stream, planar, ipc, irq, finished>>
        /\ hp' = [hp EXCEPT !["pb"] = 0] /\ done' = [done EXCEPT !["pb"] = 0]
    BY <1>7, <2>1 DEF BeginStart, engine, isr
  <2>3. Period' = Period /\ Ring' = Ring /\ Span' = Span
    BY <1>1, RingStays
  <2>4. 0 \in 0 .. Ring - 1 /\ 0 \in 0 .. Span - 1
    BY <1>3, RingFacts
  <2>5. PlayTypes'
    BY <1>3, <2>2, <2>3, <2>4 DEF PlayTypes, Streams
  <2>6. Sessions'
    BY <1>3, <2>1, <2>2 DEF Sessions, PlayTypes, Streams
  <2>7. QED
    BY <2>1, <2>2, <2>5, <2>6 DEF PlayInv
<1>8. ASSUME NEW d \in Streams, TriggerStart(d) PROVE PlayInv'
  <2>1. d = "pb" /\ ~running
    BY <1>4, <1>8 DEF TriggerStart, Streams
  <2>2. QED
    BY <1>2, <1>3, <1>8, <2>1, Begun
<1>9. ASSUME NEW d \in Streams, TriggerStop(d) PROVE PlayInv'
  <2>1. d = "pb" /\ running
    BY <1>4, <1>9 DEF TriggerStop, Streams
  <2>2. QED
    BY <1>2, <1>3, <1>9, <2>1, Ended
<1>10. CASE HwTick
  BY <1>2, <1>3, <1>10, Ticked
<1>11. ASSUME IsrEnter PROVE PlayInv'
  <2>1. /\ UNCHANGED <<hw, running, stream, done, hp, planar, irq, pc>>
        /\ irq /\ ipc = "idle" /\ ipc' = "confirm" /\ finished' = FinishedPeriod
    BY <1>11 DEF IsrEnter, engine, oss, buffers, app
  <2>2. finished' \in {0, 1}
    BY <1>5, <2>1 DEF Away
  <2>3. QED
    BY <1>1, <1>2, <1>3, <1>5, <2>1, <2>2, StandStill DEF PlayTypes
<1>12. ASSUME IsrConfirm PROVE PlayInv'
  <2>1. /\ UNCHANGED <<hw, running, stream, done, hp, planar, finished, pc>>
        /\ ~irq' /\ ipc = "confirm" /\ ipc' = "copycap"
    BY <1>12 DEF IsrConfirm, oss, buffers, app
  <2>2. QED
    BY <1>1, <1>2, <1>3, <2>1, StandStill DEF PlayTypes
<1>13. ASSUME IsrCapture PROVE PlayInv'
  <2>1. /\ UNCHANGED <<hw, running, stream, done, hp, planar, irq, finished, pc>>
        /\ ipc = "copycap" /\ ipc' = "testcap"
    BY <1>13 DEF IsrCapture, engine, oss, app
  <2>2. QED
    BY <1>1, <1>2, <1>3, <2>1, StandStill DEF PlayTypes
<1>14. ASSUME IsrTest("cap", "testcap", "intrcap", "testpb") PROVE PlayInv'
  <2>1. /\ UNCHANGED <<hw, running, stream, done, hp, planar, irq, finished, pc>>
        /\ ipc = "testcap" /\ ipc' \in {"intrcap", "testpb"}
    BY <1>14 DEF IsrTest, engine, oss, buffers, app
  <2>2. QED
    BY <1>1, <1>2, <1>3, <2>1, StandStill DEF PlayTypes
<1>15. ASSUME IsrTest("pb", "testpb", "intrpb", "copypb") PROVE PlayInv'
  <2>1. /\ UNCHANGED <<hw, running, stream, done, hp, planar, irq, finished, pc>>
        /\ ipc = "testpb" /\ ipc' \in {"intrpb", "copypb"}
        /\ ipc' = "copypb" => stream["pb"] # "RUNNING"
    BY <1>15 DEF IsrTest, engine, oss, buffers, app
  <2>2. ipc' = "copypb" => ~running
    BY <1>3, <2>1 DEF Sessions
  <2>3. QED
    BY <1>1, <1>2, <1>3, <2>1, <2>2, StandStill DEF PlayTypes
<1>16. ASSUME IsrElapsed("cap", "intrcap", "testpb") PROVE PlayInv'
  <2>1. /\ UNCHANGED <<hw, running, stream, planar, irq, finished, pc>>
        /\ ipc = "intrcap" /\ ipc' = "testpb"
    BY <1>16 DEF IsrElapsed, engine, buffers, app
  <2>2. /\ DOMAIN hp' = Streams /\ DOMAIN done' = Streams
        /\ hp'["pb"] = hp["pb"] /\ done'["pb"] = done["pb"]
    BY <1>3, <1>16 DEF IsrElapsed, ChnIntr, PlayTypes, Streams
  <2>3. QED
    BY <1>1, <1>2, <1>3, <2>1, <2>2, StandStill DEF PlayTypes
<1>17. ASSUME IsrElapsed("pb", "intrpb", "copypb") PROVE PlayInv'
  <2>1. /\ UNCHANGED <<hw, running, stream, planar, irq, finished, pc>>
        /\ ipc = "intrpb" /\ ipc' = "copypb" /\ ChnIntr("pb")
    BY <1>17 DEF IsrElapsed, engine, buffers, app
  <2>2. QED
    BY <1>1, <1>2, <1>3, <1>4, <2>1, Told
<1>18. ASSUME IsrRefill PROVE PlayInv'
  BY <1>2, <1>3, <1>18, Refilled DEF IsrRefill
<1>19. ASSUME CalloutElapsed("pb", "intrpb", "testcap") PROVE PlayInv'
  <2>1. /\ UNCHANGED <<hw, running, stream, planar, irq, finished, pc, ipc>>
        /\ ChnIntr("pb")
    BY <1>19 DEF CalloutElapsed, engine, buffers, app, isr
  <2>2. QED
    BY <1>1, <1>2, <1>3, <1>4, <2>1, Told
<1>20. ASSUME CalloutElapsed("cap", "intrcap", "rearm") PROVE PlayInv'
  <2>1. UNCHANGED <<hw, running, stream, planar, irq, finished, pc, ipc>>
    BY <1>20 DEF CalloutElapsed, engine, buffers, app, isr
  <2>2. /\ DOMAIN hp' = Streams /\ DOMAIN done' = Streams
        /\ hp'["pb"] = hp["pb"] /\ done'["pb"] = done["pb"]
    BY <1>3, <1>20 DEF CalloutElapsed, ChnIntr, PlayTypes, Streams
  <2>3. QED
    BY <1>1, <1>2, <1>3, <2>1, <2>2, StandStill DEF PlayTypes
<1>21. ASSUME \/ CalloutFire \/ CalloutCheck \/ CalloutRearm
              \/ CalloutTest("pb", "testpb", "intrpb", "testcap")
              \/ CalloutTest("cap", "testcap", "intrcap", "rearm")
              \/ DetachDrain \/ DetachDrained \/ DetachRest \/ UNCHANGED vars
       PROVE  PlayInv'
  <2>1. UNCHANGED <<hw, running, stream, done, hp, planar, ipc, irq, finished, pc>>
    BY <1>21 DEF CalloutFire, CalloutCheck, CalloutRearm, CalloutTest, DetachDrain,
       DetachDrained, DetachRest, vars, app, engine, oss, buffers, isr
  <2>2. QED
    BY <1>1, <1>2, <1>3, <2>1, StandStill DEF PlayTypes
<1>22. QED
  BY <1>6, <1>7, <1>8, <1>9, <1>10, <1>11, <1>12, <1>13, <1>14, <1>15, <1>16, <1>17,
     <1>18, <1>19, <1>20, <1>21 DEF Next, AppStep, Interrupt, CalloutStep

(***************************************************************************)
(* With playback alone the engine plays every frame once and in order, for *)
(* every period and in every interleaving of the interrupt, the feeder and *)
(* the application's START and STOP, those that come in the middle of an   *)
(* interrupt included (hdsp_main.c:233-238, 623-624, 701-702).             *)
(***************************************************************************)
THEOREM PlaysInOrder == Spec => []PlaybackInOrder
<1>1. FeederInv /\ PlayInv => PlaybackInOrder
  <2> SUFFICES ASSUME FeederInv, PlayInv, open = {"pb"}, running
               PROVE  planar["pb"][hw % Ring] = Frame(hw)
    BY DEF PlaybackInOrder
  <2>1. open \in OpenSets /\ hw \in 0 .. Span - 1 /\ Filled
    BY DEF FeederInv, ControlTypeOK, PlayInv, PlayTypes
  <2>2. RingOf(Ring, LapsOf[open], Span) /\ Period \in Nat \ {0} /\ Ring = 2 * Period
        /\ Slots = 0 .. Ring - 1
    BY <2>1, RingFacts
  <2>3. At \in Slots /\ ~InAway(At) /\ At <= At
        /\ NextOf(At) = Upcoming(hw, At, Ring, Span)
    BY <2>1, <2>2, Place DEF InAway
  <2>4. Upcoming(hw, At, Ring, Span) = hw
    BY <2>1, <2>2, UpcomingHere DEF At
  <2>5. Ready(At)
    BY <2>1, <2>3 DEF Filled
  <2>6. QED
    BY <2>3, <2>4, <2>5 DEF Ready, At
<1>2. PlayInv /\ FeederInv /\ [Next]_vars => PlayInv'
  BY PlayNext
<1>3. QED
  BY <1>1, <1>2, PlayInit, InitFeeder, NextFeeder, PTL DEF Spec

=============================================================================
