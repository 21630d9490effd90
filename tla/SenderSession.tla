--------------------------- MODULE SenderSession ---------------------------
(***************************************************************************)
(* SenderSession with its SenderSessionMessenger: it offers streams to a    *)
(* receiver, waits for the reply that carries the number of the request or  *)
(* for the timeout, and makes Senders for the streams the receiver chose.   *)
(* The client, which owns the Senders, gives them up when it calls          *)
(* Negotiate(), as the method asks of it.                                   *)
(***************************************************************************)
EXTENDS SessionMessages, FiniteSetsExt, Functions, TLC

CONSTANTS
  MirroringConfigs,  \* the arguments of Negotiate(): two sequences of configs
  RemotingConfigs,   \* the arguments of NegotiateRemoting(): two configs
  SenderDscp         \* config_.enable_dscp

Configs ==
  {c.audio : c \in RemotingConfigs} \union {c.video : c \in RemotingConfigs}
    \union (UNION {Range(c.audio) \union Range(c.video) : c \in MirroringConfigs})

ConfigCodecs == {config.codec : config \in Configs}
ConfigParameters == {config.parameter : config \in Configs}

ASSUME ConfigsAssumption ==
  /\ \A c \in MirroringConfigs : c.audio \in Seq(Configs) /\ c.video \in Seq(Configs)
  /\ Configs \subseteq [codec : ConfigCodecs, parameter : ConfigParameters,
                        valid : BOOLEAN]

VARIABLES
  session,           \* the SenderSession of each sender
  callbacks          \* history: the callbacks of each request that have run

senderVars == <<session, callbacks>>

NoSenders == [kind \in Kinds |-> none]

SenderSessionInit ==
  /\ session = [s \in Senders |->
                  [sequence |-> 0,        \* current_sequence_number_
                   negotiation |-> none,  \* current_negotiation_
                   awaiting |-> {},       \* messenger_.awaiting_replies_
                   state |-> "kIdle",     \* state_
                   senders |-> NoSenders, \* the Senders the client holds
                   told |-> none,         \* the last call of the client
                   endpoint |-> none,     \* the environment's remote endpoint
                   dscp |-> none]]        \* and the DSCP mode of its socket
  /\ callbacks = [s \in Senders |-> [n \in 1 .. MaxSequence[s] |-> <<>>]]

-----------------------------------------------------------------------------
\* GetDscpSuggestion() and ToWire().
DscpSuggestion(audio, video) ==
  IF ~SenderDscp THEN none ELSE IF video # <<>> THEN "kAF41" ELSE "kEF"

\* CreateStream() and GenerateSsrc() for the offer with this sequence number.
CreateStream(index, config, sequence, dscp) ==
  [index |-> index, codec |-> config.codec, parameter |-> config.parameter,
   ssrc |-> 2 * (10 * sequence + index) + 1, dscp |-> dscp]

CreateStreamList(offset, configs, sequence, dscp) ==
  [i \in DOMAIN configs |->
     CreateStream(offset + i - 1, configs[i], sequence, dscp)]

\* Audio streams have the indexes from zero, video streams the ones that follow.
CreateMirroringOffer(audio, video, sequence) ==
  LET dscp == DscpSuggestion(audio, video)
  IN  [cast_mode |-> kMirroring,
       audio |-> CreateStreamList(0, audio, sequence, dscp),
       video |-> CreateStreamList(Len(audio), video, sequence, dscp)]

CreateRemotingOffer(audio, video, sequence) ==
  LET dscp == DscpSuggestion(<<audio>>, <<video>>)
      unspecified(config) == [config EXCEPT !.codec = kNotSpecified]
  IN  [cast_mode |-> kRemoting,
       audio |-> CreateStreamList(0, <<unspecified(audio)>>, sequence, dscp),
       video |-> CreateStreamList(1, <<unspecified(video)>>, sequence, dscp)]

AreAllValid(audio, video) ==
  /\ \A i \in DOMAIN audio : audio[i].valid
  /\ \A i \in DOMAIN video : video[i].valid

\* SendRequest() with the next sequence number: the session it leaves behind.
Requested(this, reply_type) ==
  LET request == [sequence |-> this.sequence + 1, reply_type |-> reply_type]
  IN  [this EXCEPT !.sequence = request.sequence,
                   !.awaiting = @ \union {request}]

StartNegotiation(s, audio, video, offer) ==
  /\ session' = [session EXCEPT ![s] =
       [Requested(session[s], "kAnswer") EXCEPT
          !.negotiation = [offer |-> offer, audio_configs |-> audio,
                           video_configs |-> video],
          !.senders = NoSenders, !.told = none]]
  /\ toReceiver' = Post(toReceiver, s,
       [type |-> "kOffer", sequence_number |-> session[s].sequence + 1,
        body |-> offer])
  /\ UNCHANGED <<toSender, callbacks>>

\* Negotiate(); arguments it refuses change nothing.
Negotiate(s) ==
  /\ session[s].sequence < MaxSequence[s]
  /\ \E c \in MirroringConfigs :
       /\ c.audio # <<>> \/ c.video # <<>>
       /\ AreAllValid(c.audio, c.video)
       /\ StartNegotiation(s, c.audio, c.video,
            CreateMirroringOffer(c.audio, c.video, session[s].sequence + 1))

NegotiateRemoting(s) ==
  /\ session[s].sequence < MaxSequence[s]
  /\ \E c \in RemotingConfigs :
       /\ c.audio.valid /\ c.video.valid
       /\ StartNegotiation(s, <<c.audio>>, <<c.video>>,
            CreateRemotingOffer(c.audio, c.video, session[s].sequence + 1))

RequestCapabilities(s) ==
  /\ session[s].sequence < MaxSequence[s]
  /\ session' = [session EXCEPT ![s] = Requested(@, "kCapabilitiesResponse")]
  /\ toReceiver' = Post(toReceiver, s,
       [type |-> "kGetCapabilities",
        sequence_number |-> session[s].sequence + 1])
  /\ UNCHANGED <<toSender, callbacks>>

\* SendRpcMessage(), which the RpcMessenger calls; it takes a number too.
SenderSendRpc(s) ==
  /\ session[s].sequence < MaxSequence[s]
  /\ session' = [session EXCEPT ![s].sequence = @ + 1]
  /\ toReceiver' = Post(toReceiver, s,
       [type |-> "kRpc", sequence_number |-> session[s].sequence + 1])
  /\ UNCHANGED <<toSender, callbacks>>

-----------------------------------------------------------------------------
\* MaybeSetDscp(): only if the receiver wants it for every stream it chose.
NegotiatedDscp(offer, answer) ==
  IF answer.send_indexes = <<>> \/ answer.receiver_rtcp_dscp = <<>>
       \/ SortSeq(answer.send_indexes, <) # SortSeq(answer.receiver_rtcp_dscp, <)
    THEN none
    ELSE Head(offer.audio \o offer.video).dscp

\* SpawnAudioSender() and SpawnVideoSender(): the Sender for the stream of this
\* kind that the answer chose, the last one if it chose several.
SpawnSender(negotiation, kind, answer) ==
  LET streams == negotiation.offer[kind]
      chosen == {i \in DOMAIN answer.send_indexes :
                   \E j \in DOMAIN streams :
                     streams[j].index = answer.send_indexes[i]}
  IN  IF chosen = {} THEN none
      ELSE LET i == Max(chosen)
               index == answer.send_indexes[i]
           IN  [ssrc |-> (CHOOSE stream \in Range(streams) :
                            stream.index = index).ssrc,
                receiver_ssrc |-> answer.ssrcs[i],
                config |-> (negotiation.audio_configs
                              \o negotiation.video_configs)[index + 1]]

\* SelectSenders(), with the effects it has on the environment.
SelectSenders(this, answer) ==
  LET dscp == IF SenderDscp
                THEN NegotiatedDscp(this.negotiation.offer, answer) ELSE none
  IN  [this EXCEPT
         !.endpoint = answer.udp_port,
         !.dscp = IF dscp = none THEN @ ELSE dscp,
         !.senders = [kind \in Kinds |->
                        SpawnSender(this.negotiation, kind, answer)]]

\* OnAnswer(). A negotiation that fails leaves the state of the session alone.
OnAnswer(this, message) ==
  IF ~message.valid THEN [this EXCEPT !.told = message.body]
  ELSE LET selected == SelectSenders(this, message.body)
       IN  IF selected.senders = NoSenders
             THEN [selected EXCEPT !.senders = this.senders,
                                   !.told = "kNoStreamSelected"]
             ELSE [selected EXCEPT
                     !.state = IF this.negotiation.offer.cast_mode = kMirroring
                                 THEN "kStreaming" ELSE "kRemoting",
                     !.told = "OnNegotiated"]

\* OnCapabilitiesResponse() calls the client and changes nothing.
OnReply(this, message) ==
  IF message.type = "kAnswer" THEN OnAnswer(this, message) ELSE this

\* The reply to the request is not awaited any longer.
Unawaited(this, request) == [this EXCEPT !.awaiting = @ \ {request}]

\* The callback of a request runs; `how' is the reply, or the timeout.
Settle(s, request, how) ==
  callbacks' = [callbacks EXCEPT ![s][request.sequence] =
                  Append(@, [reply_type |-> request.reply_type, how |-> how])]

\* SenderSessionMessenger::OnMessage(). A reply nobody waits for is dropped.
SenderOnMessage(s) ==
  /\ toSender[s] # <<>>
  /\ LET message == Head(toSender[s])
         awaited == {r \in session[s].awaiting :
                       /\ message.type # "kRpc"
                       /\ r.sequence = message.sequence_number}
     IN  IF awaited = {} THEN UNCHANGED senderVars
         ELSE \E request \in awaited :
                /\ session' = [session EXCEPT ![s] =
                     OnReply(Unawaited(@, request), message)]
                /\ Settle(s, request, message.type)
  /\ toSender' = Consumed(toSender, s)
  /\ UNCHANGED toReceiver

\* Mutant: the request stays among those that await a reply.
ReplyIfTimedOutAgain(s) ==
  \E request \in session[s].awaiting :
    /\ callbacks[s][request.sequence] = <<>>
    /\ session' = [session EXCEPT ![s].told = "kAnswerTimeout"]
    /\ Settle(s, request, "timeout")
    /\ UNCHANGED channels

\* ReplyIfTimedOut(): the delays are all the same, so the oldest request that
\* is still awaited is the first to time out.
ReplyIfTimedOut(s) ==
  \E request \in session[s].awaiting :
    /\ \A r \in session[s].awaiting : request.sequence <= r.sequence
    /\ session' = [session EXCEPT ![s] =
         [Unawaited(session[s], request) EXCEPT
            !.told = IF request.reply_type = "kAnswer"
                       THEN "kAnswerTimeout" ELSE @]]
    /\ Settle(s, request, "timeout")
    /\ UNCHANGED channels
=============================================================================
