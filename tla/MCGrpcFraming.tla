--------------------------- MODULE MCGrpcFraming ---------------------------
(* Two-bit bytes: payloads of 2 and of 4 bytes need longer varints, and one *)
(* of the payloads reads like a frame itself; the frame of the longest is   *)
(* larger than MaxFrame.                                                    *)
EXTENDS GrpcFraming

Data(d) == [kind |-> "data", data |-> d]

MCMessages ==
  {Data(<<>>), Data(<<3>>), Data(<<0, 0>>), Data(<<0, 0, 0, 0, 1, 2>>),
   Data(<<2, 1, 0, 1, 2, 3, 0, 1, 0, 1>>),
   [kind |-> "bare", data |-> <<>>], [kind |-> "other", data |-> <<2, 0>>]}
=============================================================================
