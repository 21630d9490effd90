-------------------------- MODULE ReceiverSession --------------------------
(***************************************************************************)
(* ReceiverSession with its ReceiverSessionMessenger and the state of the   *)
(* UDP socket in its Environment.  It chooses streams from an OFFER, makes  *)
(* their Receivers, and answers; while the socket is still being bound the  *)
(* OFFER waits.  Any sender may send an OFFER, and the last one wins.       *)
(***************************************************************************)
EXTENDS SessionMessages

CONSTANTS
  Codecs,               \* constraints_.audio_codecs and .video_codecs
  SupportedParameters,  \* those SupportsCodecParameter() is true of
  RemotingEnabled,      \* whether constraints_.remoting is set
  ReceiverDscp          \* constraints_.enable_dscp

ASSUME RemotingAssumption == RemotingEnabled \in BOOLEAN

VARIABLES
  socket,          \* the environment's socket_state()
  alive,           \* whether the session has not been destroyed
  pending,         \* pending_offer_
  receivers,       \* current_audio_receiver_ and current_video_receiver_
  negotiated,      \* negotiated_sender_id_
  rpcMessenger,    \* rpc_messenger_: none, or the negotiation it is for
  receiverDscp,    \* the DSCP mode of the environment's socket
  accepted,        \* history: the OFFER the Receivers were made for
  answers          \* history: how many replies each OFFER got

receiverVars == <<socket, alive, pending, receivers, negotiated, rpcMessenger,
                  receiverDscp, accepted, answers>>

NoReceivers == [kind \in Kinds |-> none]

ReceiverSessionInit ==
  /\ socket \in {"kStarting", "kReady", "kInvalid"}
  /\ alive = TRUE
  /\ pending = none
  /\ receivers = NoReceivers
  /\ negotiated = none
  /\ rpcMessenger = none
  /\ receiverDscp = none
  /\ accepted = none
  /\ answers = [s \in Senders |-> [n \in 1 .. MaxSequence[s] |-> 0]]

-----------------------------------------------------------------------------
\* SelectStream(): the first of the preferred codecs that some stream has, and
\* the first stream that has it.
SelectStream(preferred, streams) ==
  LET matches == {m \in (DOMAIN preferred) \X (DOMAIN streams) :
                    /\ streams[m[2]].codec = preferred[m[1]]
                    /\ streams[m[2]].parameter \in SupportedParameters \union {none}}
      earlier(m, n) == m[1] < n[1] \/ (m[1] = n[1] /\ m[2] < n[2])
      first == {m \in matches : \A n \in matches : ~earlier(n, m)}
  IN  IF first = {} THEN none ELSE streams[(CHOOSE m \in first : TRUE)[2]]

SelectStreams(offer) ==
  [kind \in Kinds |->
     IF offer.cast_mode = kMirroring
       THEN SelectStream(Codecs[kind], offer[kind])
       ELSE IF Len(offer[kind]) = 1 THEN offer[kind][1] ELSE none]

\* PendingOffer, made of an OFFER and where it came from.
PendingOffer(s, message) ==
  [sender |-> s, sequence_number |-> message.sequence_number,
   mode |-> message.body.cast_mode, selected |-> SelectStreams(message.body)]

\* The streams that are selected, audio first.
Selected(properties) ==
  LET present(stream) == IF stream = none THEN <<>> ELSE <<stream>>
  IN  present(properties.selected["audio"])
        \o present(properties.selected["video"])

\* The indexes of the selected streams that suggest DSCP.
DscpIndexes(properties) ==
  LET marked(stream) == IF stream = none \/ stream.dscp = none THEN <<>>
                        ELSE <<stream.index>>
  IN  marked(properties.selected["audio"]) \o marked(properties.selected["video"])

\* Mutant: the SSRCs are listed with that of the video stream first.
ConstructAnswerSwapped(properties) ==
  LET streams == Selected(properties)
  IN  [udp_port |-> "port",
       send_indexes |-> [i \in DOMAIN streams |-> streams[i].index],
       ssrcs |-> [i \in DOMAIN streams |->
                    streams[Len(streams) + 1 - i].ssrc + 1],
       receiver_rtcp_dscp |-> <<>>]

\* ConstructAnswer().
ConstructAnswer(properties) ==
  LET streams == Selected(properties)
  IN  [udp_port |-> "port",
       send_indexes |-> [i \in DOMAIN streams |-> streams[i].index],
       ssrcs |-> [i \in DOMAIN streams |-> streams[i].ssrc + 1],
       receiver_rtcp_dscp |-> IF ReceiverDscp THEN DscpIndexes(properties)
                              ELSE <<>>]

\* ConstructReceiver().
ConstructReceiver(properties, kind) ==
  LET stream == properties.selected[kind]
  IN  IF stream = none THEN none
      ELSE [sender_ssrc |-> stream.ssrc, receiver_ssrc |-> stream.ssrc + 1,
            codec |-> stream.codec]

\* MaybeSetDscp(): the suggestion of the audio stream, else that of the video.
DscpOf(properties) ==
  IF ReceiverDscp /\ Head(Selected(properties)).dscp # none
    THEN Head(Selected(properties)).dscp ELSE receiverDscp

\* SendMessage() for a reply to an OFFER, which is an addressee and a message,
\* and what it makes of the messages under way and of the count of replies.
NoReply == [to |-> none]

Delivered(channel, reply) ==
  IF reply = NoReply THEN channel ELSE Post(channel, reply.to, reply.message)

Counted(counts, reply) ==
  IF reply = NoReply THEN counts
  ELSE [counts EXCEPT ![reply.to][reply.message.sequence_number] = @ + 1]

\* Up to two replies, one after the other.
SendAnswers(first, second) ==
  /\ toSender' = Delivered(Delivered(toSender, first), second)
  /\ answers' = Counted(Counted(answers, first), second)

\* Mutant: a Receiver that is there already is not replaced.
SpawnMissingReceivers(properties) ==
  [kind \in Kinds |-> IF receivers[kind] # none THEN receivers[kind]
                      ELSE ConstructReceiver(properties, kind)]

SpawnReceivers(properties) ==
  [kind \in Kinds |-> ConstructReceiver(properties, kind)]

\* Mutant: ResetReceivers() leaves the RpcMessenger alone.
RpcMessengerKept(properties) ==
  IF properties.mode = kRemoting
    THEN [sender |-> properties.sender,
          sequence_number |-> properties.sequence_number]
    ELSE rpcMessenger

\* ResetReceivers() takes the RpcMessenger away if there were Receivers, and
\* remoting makes a new one.
RpcMessengerFor(properties) ==
  IF properties.mode = kRemoting
    THEN [sender |-> properties.sender,
          sequence_number |-> properties.sequence_number]
    ELSE IF receivers # NoReceivers THEN none ELSE rpcMessenger

InitializeSession(properties) ==
  /\ receivers' = SpawnReceivers(properties)
  /\ rpcMessenger' = RpcMessengerFor(properties)
  /\ negotiated' = properties.sender
  /\ receiverDscp' = DscpOf(properties)
  /\ accepted' = [sender |-> properties.sender, mode |-> properties.mode,
                  sequence_number |-> properties.sequence_number]

Refusal(s, sequence, code) ==
  [to |-> s, message |-> ErrorAnswer(sequence, code)]

Answer(properties) ==
  [to |-> properties.sender,
   message |-> [type |-> "kAnswer",
                sequence_number |-> properties.sequence_number,
                valid |-> TRUE, body |-> ConstructAnswer(properties)]]

negotiationVars ==
  <<receivers, rpcMessenger, negotiated, receiverDscp, accepted>>

\* Mutant: the OFFER that waits is forgotten.
NoInterruption == NoReply

\* An OFFER that waits for the socket is answered when another one takes over.
Interruption ==
  IF pending = none THEN NoReply
  ELSE Refusal(pending.sender, pending.sequence_number, "kInterrupted")

\* OnOffer(), for an OFFER as a SenderSession makes it: its number is positive
\* and its body can be parsed.
OnOffer(s, message) ==
  LET properties == PendingOffer(s, message)
      refuse(code) == Refusal(s, message.sequence_number, code)
      reason ==
        IF properties.mode = kRemoting /\ ~RemotingEnabled
          THEN "kRemotingNotSupported"
          ELSE IF properties.selected = NoReceivers
                 THEN "kNoStreamSelected" ELSE none
  IN  \/ /\ reason # none
         /\ SendAnswers(NoReply, refuse(reason))
         /\ UNCHANGED <<pending, negotiationVars>>
      \/ /\ reason = none /\ socket = "kInvalid"
         /\ SendAnswers(Interruption, refuse("kSocketClosedFailure"))
         /\ pending' = none
         /\ UNCHANGED negotiationVars
      \/ /\ reason = none /\ socket = "kReady"
         /\ SendAnswers(Interruption, Answer(properties))
         /\ pending' = none
         /\ InitializeSession(properties)
      \/ /\ reason = none /\ socket = "kStarting"
         /\ SendAnswers(Interruption, NoReply)
         /\ pending' = properties
         /\ UNCHANGED negotiationVars

\* OnCapabilitiesRequest().
OnCapabilitiesRequest(s, message) ==
  /\ toSender' = Post(toSender, s,
       [type |-> "kCapabilitiesResponse",
        sequence_number |-> message.sequence_number,
        valid |-> RemotingEnabled])
  /\ UNCHANGED <<pending, negotiationVars, answers>>

\* OnRpcMessage(): it is dropped, or handed to the RpcMessenger.
OnRpcMessage(s) == UNCHANGED <<pending, negotiationVars, answers, toSender>>

\* ReceiverSessionMessenger::OnMessage(); nobody listens after the session.
ReceiverOnMessage(s) ==
  /\ toReceiver[s] # <<>>
  /\ LET message == Head(toReceiver[s])
     IN  \/ /\ ~alive
            /\ UNCHANGED <<pending, negotiationVars, answers, toSender>>
         \/ alive /\ message.type = "kOffer" /\ OnOffer(s, message)
         \/ /\ alive /\ message.type = "kGetCapabilities"
            /\ OnCapabilitiesRequest(s, message)
         \/ alive /\ message.type = "kRpc" /\ OnRpcMessage(s)
  /\ toReceiver' = Consumed(toReceiver, s)
  /\ UNCHANGED <<socket, alive>>

\* Environment::OnBound() and ReceiverSession::OnSocketReady().
OnSocketReady ==
  /\ alive
  /\ socket = "kStarting"
  /\ socket' = "kReady"
  /\ pending' = none
  /\ IF pending # none
       THEN SendAnswers(NoReply, Answer(pending)) /\ InitializeSession(pending)
       ELSE UNCHANGED <<toSender, answers, negotiationVars>>
  /\ UNCHANGED <<alive, toReceiver>>

\* Environment::OnError() and ReceiverSession::OnSocketInvalid().
OnSocketInvalid ==
  /\ alive
  /\ socket' = "kInvalid"
  /\ pending' = none
  /\ IF pending # none
       THEN SendAnswers(NoReply, Refusal(pending.sender,
                                         pending.sequence_number,
                                         "kSocketFailure"))
       ELSE UNCHANGED <<toSender, answers>>
  /\ UNCHANGED <<alive, negotiationVars, toReceiver>>

\* SendRpcMessage(), which the RpcMessenger of a negotiation calls.
ReceiverSendRpc ==
  /\ rpcMessenger # none
  /\ negotiated # none
  /\ \A i \in DOMAIN toSender[negotiated] :
       toSender[negotiated][i].type # "kRpc"    \* bound: one under way
  /\ toSender' = Post(toSender, negotiated, [type |-> "kRpc"])
  /\ UNCHANGED <<receiverVars, toReceiver>>

\* ~ReceiverSession(): the messenger first, then ResetReceivers().  The client
\* destroys the environment with it, so the socket has no more events.
DestroyReceiverSession ==
  /\ alive
  /\ alive' = FALSE
  /\ pending' = none
  /\ receivers' = NoReceivers
  /\ rpcMessenger' = none
  /\ UNCHANGED <<socket, negotiated, receiverDscp, accepted, answers, channels>>
=============================================================================
