------------------------------ MODULE FrameIds ------------------------------
(***************************************************************************)
(* Frame identifiers and their truncated form on the wire.                  *)
(*                                                                          *)
(* A FrameId is a 64-bit counter that starts at first() = 0; leader() = -1  *)
(* is "the frame before the first".  RTP and RTCP packets only carry its    *)
(* lower 8 bits; the peer re-creates the full value from a reference value  *)
(* it holds itself (ExpandedValueBase).  Width is the number of values the  *)
(* truncated field can take: 256 in the code, less in small instances.      *)
(***************************************************************************)
EXTENDS Integers

CONSTANT Width

ASSUME WidthAssumption == Width \in Nat \ {0}

\* FrameId::first() and FrameId::leader().
first == 0
leader == -1

\* lower_8_bits(): what is left of a value in a packet.
LowerBits(value) == value % Width

\* The greatest value <= the reference whose lower bits are x.  Keeping the
\* reference's upper bits and pasting x below them may exceed the reference;
\* then the upper bits are decremented by one.
ExpandLessThanOrEqual(value, x) ==
  LET result == value - (value % Width) + x
  IN  IF result > value THEN result - Width ELSE result

\* The smallest value > the reference whose lower bits are x.
ExpandGreaterThan(value, x) == ExpandLessThanOrEqual(value + Width, x)

\* max_distance_for_expansion(): short_max / 2.
MaxDistanceForExpansion == (Width - 1) \div 2

\* The value closest to the reference whose lower bits are x.
Expand(value, x) == ExpandLessThanOrEqual(value + MaxDistanceForExpansion, x)
=============================================================================
