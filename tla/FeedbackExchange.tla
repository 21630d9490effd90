-------------------------- MODULE FeedbackExchange --------------------------
(***************************************************************************)
(* One Cast Feedback message on its way: what a Receiver has to report is   *)
(* written by CompoundRtcpBuilder and read by CompoundRtcpParser, at a      *)
(* Sender that may have enqueued more frames meanwhile.                     *)
(***************************************************************************)
EXTENDS RtcpFeedback

CONSTANTS
  Checkpoints,   \* checkpoint frames of the Receiver
  Losses,        \* sets of NACKs, frames being relative to the checkpoint
  Arrivals,      \* sets of frames to ACK, relative to the checkpoint
  Rooms,         \* 32-bit words for feedback in the packet
  Enqueued       \* how far the Sender's last frame is beyond the checkpoint

VARIABLES
  given,    \* checkpoint, nacks, acks and room at the Receiver
  wire,     \* the message, once it is built
  parsed    \* what the Sender gets to know, once it is parsed

vars == <<given, wire, parsed>>

Init ==
  /\ \E c \in Checkpoints, loss \in Losses, arrived \in Arrivals, r \in Rooms :
       given = [checkpoint |-> c, room |-> r,
                nacks |-> {<<c + n[1], n[2]>> : n \in loss},
                acks |-> {c + d : d \in arrived}]
  /\ wire = {}
  /\ parsed = {}

Build ==
  /\ wire = {}
  /\ wire' = {BuildFeedback(given.checkpoint, given.nacks, given.acks,
                            given.room)}
  /\ UNCHANGED <<given, parsed>>

Parse ==
  /\ parsed = {}
  /\ \E message \in wire, d \in Enqueued :
       parsed' = {ParseFeedback(message, given.checkpoint + d)}
  /\ UNCHANGED <<given, wire>>

Next == Build \/ Parse

Spec == Init /\ [][Next]_vars

-----------------------------------------------------------------------------
(* Properties *)

\* What the Sender reads is what the Receiver meant: the same checkpoint, no
\* packet requested that is not missing, no frame ACKed that has not arrived,
\* although frame IDs are cut to 8 bits on the wire.
FeedbackSound ==
  \A read \in parsed :
    /\ read.checkpoint = given.checkpoint
    /\ read.nacks \subseteq given.nacks
    /\ read.acks \subseteq given.acks

\* The least number of loss fields, each covering a packet and the kPidBits
\* after it, that cover all NACKs.
FieldsNeeded ==
  LET frames == {n[1] : n \in given.nacks}
      missing(f) == {n[2] : n \in {m \in given.nacks : m[1] = f}}
      covers(S, f) == \A p \in missing(f) : \E s \in S : s <= p /\ p <= s + kPidBits
  IN  FoldSet(LAMBDA f, n :
                n + Min({Cardinality(S) : S \in {T \in SUBSET missing(f) :
                                                   covers(T, f)}}),
              0, frames)

\* With room for the loss fields and for the bit vector, nothing is left out but
\* the ACK of the frame right after the checkpoint, which cannot be expressed
\* (and makes the checkpoint move instead).
FeedbackComplete ==
  given.room >= FieldsNeeded + 6 =>
    \A read \in parsed :
      /\ read.nacks = given.nacks
      /\ read.acks = given.acks \ {given.checkpoint + 1}

\* What arrives is right, and with room enough it is all there is to tell.
FeedbackExact == FeedbackSound /\ FeedbackComplete

\* If some NACKs do not fit, those of the oldest packets are the ones sent.
OldestNacksFirst ==
  \A read \in parsed :
    \A n \in read.nacks, m \in given.nacks \ read.nacks :
      n[1] < m[1] \/ (n[1] = m[1] /\ n[2] < m[2])
=============================================================================
