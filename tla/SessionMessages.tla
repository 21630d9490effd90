-------------------------- MODULE SessionMessages --------------------------
(***************************************************************************)
(* What a SenderSession and a ReceiverSession say to each other: OFFER and  *)
(* ANSWER, GET_CAPABILITIES and CAPABILITIES_RESPONSE, and RPC messages.    *)
(* The message ports in between deliver in order and lose nothing: they run *)
(* over one TLS connection per sender.                                      *)
(*                                                                          *)
(* A stream is reduced to what negotiation compares: its index, codec and   *)
(* codec parameter, its SSRC and whether it suggests DSCP.  The random SSRC *)
(* of a stream is a number no other stream of its sender has, and the one   *)
(* that follows it is left to the Receiver of the stream.                   *)
(***************************************************************************)
EXTENDS Optional, Sequences

CONSTANTS
  Senders,       \* the source ids of the SenderSessions
  MaxSequence    \* bound: the messages each SenderSession numbers

ASSUME SendersAssumption ==
  /\ none \notin Senders
  /\ \A s \in Senders : MaxSequence[s] \in Nat

VARIABLES
  toReceiver,    \* for each sender, its messages under way to the receiver
  toSender       \* for each sender, the messages under way to it

channels == <<toReceiver, toSender>>

Kinds == {"audio", "video"}

kMirroring == "mirroring"
kRemoting == "remoting"
kNotSpecified == "kNotSpecified"

Post(channel, s, message) == [channel EXCEPT ![s] = Append(@, message)]

Consumed(channel, s) == [channel EXCEPT ![s] = Tail(@)]

\* An ANSWER that is an error, as SendErrorAnswerReply() makes it.
ErrorAnswer(sequence, code) ==
  [type |-> "kAnswer", sequence_number |-> sequence, valid |-> FALSE,
   body |-> code]

ChannelsInit ==
  /\ toReceiver = [s \in Senders |-> <<>>]
  /\ toSender = [s \in Senders |-> <<>>]
=============================================================================
