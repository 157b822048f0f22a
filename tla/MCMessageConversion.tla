------------------------- MODULE MCMessageConversion -------------------------
(* Model checking of MessageConversion: the first instants, and those on both sides *)
(* of the end of sec.                                                              *)
EXTENDS MessageConversion

SomeInstants == (0 .. 3) \cup (11 .. 15)
=============================================================================
