-------------------------- MODULE MCCastStreaming ---------------------------
(***************************************************************************)
(* Small instances of a Sender and a Receiver.  With Width = 5 frame IDs    *)
(* wrap around as they do with 8 bits: kMaxUnackedFrames = 2 is to          *)
(* MaxDistanceForExpansion = 2 what 120 is to 127.                          *)
(***************************************************************************)
EXTENDS CastStreaming

MCFrame(packets, dependency, delay) ==
  [packets |-> packets, dependency |-> dependency,
   new_playout_delay |-> delay]

\* Frame 1 has two packets, and is followed by a frame that depends on it unless
\* a key frame is asked for.  Two frames change the playout delay.
MCFrameChoices ==
  [f \in 0 .. MaxFrame |->
     {MCFrame(IF f = 1 THEN 2 ELSE 1,
              IF f = 4 THEN kIndependent ELSE kDependent,
              IF f \in {1, 3} THEN 100 + f ELSE 0)}]

\* Frames of one packet; the second may be a key frame although none is asked for.
MCShortFrameChoices ==
  [f \in 0 .. MaxFrame |->
     {MCFrame(1, dependency, 0) :
        dependency \in IF f = 1 THEN {kKeyFrame, kDependent} ELSE {kDependent}}]
=============================================================================
