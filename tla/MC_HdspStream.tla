--------------------------- MODULE MC_HdspStream ---------------------------
(* Instances of HdspStream for TLC.                                        *)
EXTENDS HdspStream

PlaybackOnly == {{"pb"}}
CaptureOnly  == {{"cap"}}
AnyOpen      == PlaybackOnly \cup CaptureOnly \cup {Streams}

AnyAlone == PlaybackOnly \cup CaptureOnly

Solo(o) == IF o = {"pb"} THEN 2 ELSE 1
OfAny     == [o \in AnyOpen |-> Solo(o)]
OfCapture == [o \in CaptureOnly |-> 2]
============================================================================
