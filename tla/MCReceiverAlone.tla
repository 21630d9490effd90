-------------------------- MODULE MCReceiverAlone ---------------------------
(***************************************************************************)
(* A Receiver with a queue of three frames, fed with packets of frames of   *)
(* every kind: one and two packets, with and without a delay change, key,   *)
(* independent and dependent.                                               *)
(***************************************************************************)
EXTENDS ReceiverAlone

MCStream ==
  << [dependency |-> kKeyFrame,    packets |-> 1, delay |-> 0],
     [dependency |-> kDependent,   packets |-> 2, delay |-> 100],
     [dependency |-> kKeyFrame,    packets |-> 1, delay |-> 200],
     [dependency |-> kDependent,   packets |-> 2, delay |-> 0],
     [dependency |-> kIndependent, packets |-> 1, delay |-> 100],
     [dependency |-> kDependent,   packets |-> 1, delay |-> 0],
     [dependency |-> kKeyFrame,    packets |-> 1, delay |-> 200] >>

MCPacketsOf(frames) ==
  UNION {{[frame_id |-> LowerBits(f), packet_id |-> p,
           max_packet_id |-> MCStream[f + 1].packets - 1,
           dependency |-> MCStream[f + 1].dependency,
           new_playout_delay |-> IF p = 0 THEN MCStream[f + 1].delay ELSE 0] :
             p \in 0 .. (MCStream[f + 1].packets - 1)} : f \in frames}

\* Frame 3 also arrives with a packet count that contradicts the others.
MCPackets ==
  MCPacketsOf(0 .. MaxFrame)
    \cup {[frame_id |-> LowerBits(3), packet_id |-> 0, max_packet_id |-> 0,
           dependency |-> kDependent, new_playout_delay |-> 0]}
=============================================================================
