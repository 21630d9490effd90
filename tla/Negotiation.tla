---------------------------- MODULE Negotiation ----------------------------
(***************************************************************************)
(* SenderSessions that negotiate with one ReceiverSession.  A client is      *)
(* patient when it calls Negotiate() only while no ANSWER is awaited, which  *)
(* is how the agents of this repository use the session.                     *)
(***************************************************************************)
EXTENDS SenderSession, ReceiverSession

\* What is a stream, an OFFER that waits, a Receiver or a Sender is not `none'.
Streams ==
  [index : Nat, codec : ConfigCodecs \union {kNotSpecified},
   parameter : ConfigParameters, ssrc : Nat, dscp : {none, "kAF41", "kEF"}]

PendingOffers ==
  [sender : Senders, sequence_number : Nat, mode : {kMirroring, kRemoting},
   selected : [Kinds -> Streams \union {none}]]

ReceiverConfigs ==
  [sender_ssrc : Nat, receiver_ssrc : Nat,
   codec : ConfigCodecs \union {kNotSpecified}]

SenderConfigs == [ssrc : Nat, receiver_ssrc : Nat, config : Configs]

ASSUME NoneAssumption ==
  none \notin PendingOffers \union ReceiverConfigs \union SenderConfigs
                 \union {"port", "OnNegotiated", "kRemotingNotSupported",
                         "kNoStreamSelected"}

vars == <<senderVars, receiverVars, channels>>

Init == ChannelsInit /\ SenderSessionInit /\ ReceiverSessionInit

Patient(s) == \A r \in session[s].awaiting : r.reply_type # "kAnswer"

StartNegotiating(s) == Negotiate(s) \/ NegotiateRemoting(s)

SenderAct(s) ==
  \/ RequestCapabilities(s)
  \/ SenderSendRpc(s)
  \/ SenderOnMessage(s)
  \/ ReplyIfTimedOut(s)

ReceiverAct ==
  \/ \E s \in Senders : ReceiverOnMessage(s)
  \/ OnSocketReady
  \/ OnSocketInvalid
  \/ ReceiverSendRpc
  \/ DestroyReceiverSession

\* Clients that wait for the outcome of a negotiation before the next one.
Next ==
  \/ \E s \in Senders :
       /\ (Patient(s) /\ StartNegotiating(s)) \/ SenderAct(s)
       /\ UNCHANGED receiverVars
  \/ ReceiverAct /\ UNCHANGED senderVars

Spec == Init /\ [][Next]_vars

-----------------------------------------------------------------------------
OfferUnderWay(s, n) ==
  \E i \in DOMAIN toReceiver[s] :
    toReceiver[s][i].type = "kOffer" /\ toReceiver[s][i].sequence_number = n

IsPending(s, n) ==
  pending # none /\ pending.sender = s /\ pending.sequence_number = n

\* The numbers of the OFFERs a sender has made.
OffersOf(s) ==
  {n \in 1 .. session[s].sequence :
     \/ \E r \in session[s].awaiting : r = [sequence |-> n, reply_type |-> "kAnswer"]
     \/ \E i \in DOMAIN callbacks[s][n] :
          callbacks[s][n][i].reply_type = "kAnswer"}

\* Every OFFER is replied to once: it is either under way, or waits for the
\* socket, or one ANSWER was sent, whether it was accepted, refused, or
\* interrupted by another OFFER while the socket was being bound. Only a session
\* that is destroyed leaves OFFERs without a reply.
OffersAnsweredOnce ==
  \A s \in Senders : \A n \in OffersOf(s) :
    LET count == answers[s][n] + (IF OfferUnderWay(s, n) THEN 1 ELSE 0)
                               + (IF IsPending(s, n) THEN 1 ELSE 0)
    IN  IF alive THEN count = 1 ELSE count <= 1

\* A reply or a timeout runs the callback of a request, never both and never
\* twice, and the reply is of the type that was asked for; OnAnswer() and
\* OnCapabilitiesResponse() check-fail on a valid reply of another type.
RequestsSettledOnce ==
  \A s \in Senders : \A n \in 1 .. MaxSequence[s] :
    LET ran == callbacks[s][n]
    IN  /\ Len(ran) <= 1
        /\ \A r \in session[s].awaiting : r.sequence = n => ran = <<>>
        /\ \A i \in DOMAIN ran : ran[i].how \in {ran[i].reply_type, "timeout"}

\* "When we get an answer from the receiver we can line up the selected streams
\* with the original configuration": a Sender is made for the stream whose
\* Receiver it addresses.
AnswersLinedUp ==
  \A s \in Senders : \A kind \in Kinds :
    LET sender == session[s].senders[kind]
    IN  sender # none => sender.receiver_ssrc = sender.ssrc + 1

\* No negotiation of the sender is under way.
Settled(s) ==
  /\ Patient(s)
  /\ \A n \in 1 .. session[s].sequence : ~OfferUnderWay(s, n) /\ ~IsPending(s, n)

\* Once its negotiations are over, a sender that was told it has negotiated, and
\* that no other sender has supplanted, has a Sender for each Receiver and no
\* other, with the same two SSRCs, and knows where to send to. An ANSWER that
\* comes after its timeout does not confuse the negotiation that follows.
EndsAgree ==
  \A s \in Senders :
    /\ alive /\ negotiated = s
    /\ Settled(s) /\ session[s].told = "OnNegotiated"
    => /\ session[s].endpoint # none
       /\ session[s].state =
            IF accepted.mode = kRemoting THEN "kRemoting" ELSE "kStreaming"
       /\ \A kind \in Kinds :
            LET sender == session[s].senders[kind]
                receiver == receivers[kind]
            IN  /\ (sender = none) = (receiver = none)
                /\ sender # none =>
                     /\ sender.ssrc = receiver.sender_ssrc
                     /\ sender.receiver_ssrc = receiver.receiver_ssrc
                     /\ accepted.mode = kMirroring =>
                          sender.config.codec = receiver.codec

\* The RpcMessenger is that of the negotiation the Receivers were made for: RPC
\* messages of a sender that was supplanted find none, and renegotiating from
\* remoting to mirroring takes it away.
RemotingCurrent ==
  rpcMessenger # none =>
    /\ negotiated = rpcMessenger.sender
    /\ accepted = [sender |-> negotiated, mode |-> kRemoting,
                   sequence_number |-> rpcMessenger.sequence_number]
=============================================================================
