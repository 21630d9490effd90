--------------------------- MODULE MCNegotiation ---------------------------
(***************************************************************************)
(* Negotiation with configurations of at most two streams a kind: codecs    *)
(* the receiver prefers, accepts or does not know, and a config that        *)
(* Negotiate() refuses.                                                     *)
(***************************************************************************)
EXTENDS Negotiation

CONSTANTS s1, s2

MCSenders == {s1, s2}

\* One sender negotiates several times, and the other one interferes.
MCMaxSequence == (s1 :> 2) @@ (s2 :> 1)

Config(codec, parameter) ==
  [codec |-> codec, parameter |-> parameter, valid |-> TRUE]

opus == Config("opus", none)
aac == Config("aac", "unsupported")
vp8 == Config("vp8", none)
vp9 == Config("vp9", "supported")
hevc == Config("hevc", none)

\* Of two video codecs the second is chosen; of the audio codecs the first has
\* a parameter the receiver does not support; nothing at all; hevc, which no
\* receiver has; and arguments that are refused.
MCMirroringConfigs ==
  {[audio |-> <<aac, opus>>, video |-> <<vp8, vp9>>],
   [audio |-> <<>>, video |-> <<hevc>>],
   [audio |-> <<>>, video |-> <<>>],
   [audio |-> <<[opus EXCEPT !.valid = FALSE]>>, video |-> <<vp8>>]}

MCRemotingConfigs == {[audio |-> opus, video |-> vp8]}

MCCodecs == [audio |-> <<"aac", "opus">>, video |-> <<"vp9", "vp8">>]
=============================================================================
