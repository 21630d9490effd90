---------------------- MODULE NegotiationSenderProofs ----------------------
(***************************************************************************)
(* The inductive invariant of Negotiation, for any number of senders,       *)
(* requests and configurations, and that the steps of the sender sessions   *)
(* keep it.                                                                 *)
(***************************************************************************)
EXTENDS Negotiation, TLAPS

\* The types of reply that SenderSession asks for.
Replies == {"kAnswer", "kCapabilitiesResponse"}

\* The entry of awaiting for request n.
Request(n, type) == [sequence |-> n, reply_type |-> type]

\* The entries of awaiting, for requests up to the last one made.
Requests(last) == [sequence : 1 .. last, reply_type : Replies]

\* What a callback is called with: the reply it asked for, or the timeout.
Runs ==
  {r \in [reply_type : Replies, how : Replies \cup {"timeout"}] :
     r.how \in {r.reply_type, "timeout"}}

\* d has the fields of a session.
IsSession(d) ==
  d = [sequence |-> d.sequence, negotiation |-> d.negotiation,
       awaiting |-> d.awaiting, state |-> d.state, senders |-> d.senders,
       told |-> d.told, endpoint |-> d.endpoint, dscp |-> d.dscp]

\* Session d has asked for a reply of this type with request n; runs is what the
\* callbacks of its requests have been called with.
Asked(d, runs, n, type) ==
  \/ Request(n, type) \in d.awaiting
  \/ \E i \in DOMAIN runs[n] : runs[n][i].reply_type = type

\* A number is that of one request at most, which is awaited or has run.  While
\* an ANSWER is awaited no later OFFER is made.
Numbered(d, runs, max) ==
  /\ IsSession(d)
  /\ d.sequence \in 0 .. max
  /\ d.awaiting \subseteq Requests(d.sequence)
  /\ \A q, r \in d.awaiting : q.sequence = r.sequence => q = r
  /\ runs \in [1 .. max -> {<<>>} \cup {<<r>> : r \in Runs}]
  /\ \A n \in 1 .. max : n > d.sequence => runs[n] = <<>>
  /\ \A r \in d.awaiting : runs[r.sequence] = <<>>
  /\ \A m, n \in 1 .. max :
       Request(m, "kAnswer") \in d.awaiting /\ Asked(d, runs, n, "kAnswer") => n <= m

\* The indexes of an offer's streams follow each other, audio first.
Offers ==
  {o \in [cast_mode : {kMirroring, kRemoting}, audio : Seq(Streams), video : Seq(Streams)] :
     /\ \A i \in DOMAIN o.audio : o.audio[i].index = i - 1
     /\ \A i \in DOMAIN o.video : o.video[i].index = Len(o.audio) + i - 1}

\* The messages a SenderSession sends.
ReceiverMail ==
  [type : {"kOffer"}, sequence_number : Nat, body : Offers]
    \cup [type : {"kGetCapabilities", "kRpc"}, sequence_number : Nat]

\* The errors a ReceiverSession answers an OFFER with.
Codes ==
  {"kRemotingNotSupported", "kNoStreamSelected", "kSocketClosedFailure",
   "kSocketFailure", "kInterrupted"}

\* The messages a ReceiverSession sends.
SenderMail ==
  [type : {"kAnswer"}, sequence_number : Nat, valid : {TRUE},
   body : {ConstructAnswer(p) : p \in PendingOffers}]
    \cup [type : {"kAnswer"}, sequence_number : Nat, valid : {FALSE}, body : Codes]
    \cup [type : {"kCapabilitiesResponse"}, sequence_number : Nat, valid : BOOLEAN]
    \cup [type : {"kRpc"}]

\* Messages q to the receiver are in the order of their numbers, and the OFFERs
\* and requests among them were made.
Posted(q, d, runs) ==
  /\ \A i \in DOMAIN q :
       /\ q[i].sequence_number \in 1 .. d.sequence
       /\ q[i].type = "kOffer" => Asked(d, runs, q[i].sequence_number, "kAnswer")
       /\ q[i].type = "kGetCapabilities" =>
            Asked(d, runs, q[i].sequence_number, "kCapabilitiesResponse")
  /\ \A i, j \in DOMAIN q : i < j => q[i].sequence_number < q[j].sequence_number

\* Replies q answer what was asked.
Replied(q, d, runs) ==
  \A i \in DOMAIN q :
    q[i].type # "kRpc" =>
      /\ q[i].sequence_number \in 1 .. d.sequence
      /\ Asked(d, runs, q[i].sequence_number, q[i].type)

\* An OFFER that waits is one that was made, and was made before those under way.
Waits ==
  pending # none =>
    LET s == pending.sender
        n == pending.sequence_number
    IN  /\ pending \in PendingOffers /\ pending.selected # NoReceivers
        /\ n \in 1 .. session[s].sequence
        /\ Asked(session[s], callbacks[s], n, "kAnswer")
        /\ \A i \in DOMAIN toReceiver[s] : toReceiver[s][i].sequence_number > n

\* What is under way to the senders are messages of a ReceiverSession.
SenderTyped == toSender \in [Senders -> Seq(SenderMail)]

\* The numbers of requests, and of the messages and replies they led to, agree.
RequestsInv ==
  /\ session = [s \in Senders |-> session[s]]
  /\ callbacks = [s \in Senders |-> callbacks[s]]
  /\ toReceiver \in [Senders -> Seq(ReceiverMail)]
  /\ \A s \in Senders :
       /\ Numbered(session[s], callbacks[s], MaxSequence[s])
       /\ Posted(toReceiver[s], session[s], callbacks[s])
       /\ Replied(toSender[s], session[s], callbacks[s])
  /\ Waits

\* OffersAnsweredOnce, and no answer counted of an OFFER that was not made.
CountsInv ==
  /\ answers = [s \in Senders |-> answers[s]]
  /\ \A s \in Senders :
       /\ answers[s] \in [1 .. MaxSequence[s] -> Nat]
       /\ \A n \in 1 .. MaxSequence[s] : n > session[s].sequence => answers[s][n] = 0
  /\ OffersAnsweredOnce

\* Negotiation c: the configs it was made with, and the offer made of them.
Sensible(c) ==
  /\ c = [offer |-> c.offer, audio_configs |-> c.audio_configs,
          video_configs |-> c.video_configs]
  /\ c.offer \in Offers
  /\ c.audio_configs \in Seq(Configs) /\ Len(c.audio_configs) = Len(c.offer.audio)
  /\ c.video_configs \in Seq(Configs) /\ Len(c.video_configs) = Len(c.offer.video)
  /\ c.offer.cast_mode = kMirroring =>
       /\ \A i \in DOMAIN c.offer.audio : c.offer.audio[i].codec = c.audio_configs[i].codec
       /\ \A i \in DOMAIN c.offer.video : c.offer.video[i].codec = c.video_configs[i].codec

\* What ReceiverSession makes of an OFFER.
Properties(s, n, offer) == PendingOffer(s, [sequence_number |-> n, body |-> offer])

\* The OFFER of the negotiation under way, wherever it is, is the current one.
Current(s) ==
  \A n \in 1 .. session[s].sequence : Request(n, "kAnswer") \in session[s].awaiting =>
    LET c == session[s].negotiation
    IN  /\ Sensible(c)
        /\ \A i \in DOMAIN toReceiver[s] :
             toReceiver[s][i].type = "kOffer" /\ toReceiver[s][i].sequence_number = n
               => toReceiver[s][i].body = c.offer
        /\ pending # none /\ pending.sender = s /\ pending.sequence_number = n
             => pending = Properties(s, n, c.offer)
        /\ \A i \in DOMAIN toSender[s] :
             /\ toSender[s][i].type = "kAnswer" /\ toSender[s][i].valid
             /\ toSender[s][i].sequence_number = n
             => toSender[s][i].body = ConstructAnswer(Properties(s, n, c.offer))

\* Sender x is the one for the stream that was selected.
Fits(x, stream, mode) ==
  IF stream = none THEN x = none
  ELSE /\ x # none
       /\ x.ssrc = stream.ssrc /\ x.receiver_ssrc = stream.ssrc + 1
       /\ mode = kMirroring => x.config.codec = stream.codec

\* What a sender that has negotiated knows.
Negotiated(s) ==
  session[s].told = "OnNegotiated" =>
    LET d == session[s]
        offer == session[s].negotiation.offer
    IN  /\ offer \in Offers
        /\ \A n \in 1 .. d.sequence : Request(n, "kAnswer") \notin d.awaiting
        /\ d.endpoint = "port"
        /\ d.state = IF offer.cast_mode = kMirroring THEN "kStreaming" ELSE "kRemoting"
        /\ \A kind \in Kinds :
             Fits(d.senders[kind], SelectStreams(offer)[kind], offer.cast_mode)

\* AnswersLinedUp, and an ANSWER under way fits the negotiation it is for.
AnswersInv ==
  /\ \A s \in Senders : Current(s) /\ Negotiated(s)
  /\ AnswersLinedUp

\* Sender s was told OnNegotiated(), or will be when the ANSWER comes.
Answered(s) ==
  \/ session[s].told = "OnNegotiated"
  \/ \E i \in DOMAIN toSender[s] :
       /\ toSender[s][i].type = "kAnswer" /\ toSender[s][i].valid
       /\ Request(toSender[s][i].sequence_number, "kAnswer") \in session[s].awaiting

\* A sender whose OFFER was accepted has no other OFFER, and if the session is
\* still negotiated with it then the Receivers are those of its OFFER.
Agreed(s) ==
  Answered(s) =>
    /\ \A i \in DOMAIN toReceiver[s] : toReceiver[s][i].type # "kOffer"
    /\ pending = none \/ pending.sender # s
    /\ alive /\ negotiated = s =>
         LET p == Properties(s, 0, session[s].negotiation.offer)
         IN  /\ accepted.mode = p.mode
             /\ receivers = [kind \in Kinds |-> ConstructReceiver(p, kind)]

\* Every sender whose OFFER was accepted agrees with the ReceiverSession.
AgreedInv == \A s \in Senders : Agreed(s)

\* RemotingCurrent, and there is an RpcMessenger only beside Receivers.
RemotingInv ==
  /\ RemotingCurrent
  /\ rpcMessenger # none => receivers # NoReceivers

\* The session is negotiated with one of the senders, or with none.
Partner == negotiated \in Senders \cup {none}

\* The inductive invariant: each part needs those before it, and the answers, the
\* agreement and the RpcMessenger need all of the bookkeeping.
NegotiationInv ==
  RequestsInv /\ SenderTyped /\ Partner /\ CountsInv /\ AnswersInv /\ AgreedInv /\ RemotingInv

-----------------------------------------------------------------------------
(* The streams that are offered and selected *)

\* SelectStreams() takes a stream of each kind from those offered, or none.
LEMMA SelectStreamsFacts ==
  \A offer \in Offers :
    LET selected == SelectStreams(offer)
    IN  /\ selected \in [Kinds -> Streams \cup {none}]
        /\ \A kind \in Kinds :
             selected[kind] # none =>
               \E i \in DOMAIN offer[kind] : selected[kind] = offer[kind][i]

\* SelectStream() finds nothing, or one of the streams.
<1>SelectStreamFacts.
  ASSUME NEW preferred, NEW streams
  PROVE  LET stream == SelectStream(preferred, streams)
         IN  stream # none => \E i \in DOMAIN streams : stream = streams[i]
  <2>. DEFINE matches == {m \in (DOMAIN preferred) \X (DOMAIN streams) :
                            /\ streams[m[2]].codec = preferred[m[1]]
                            /\ streams[m[2]].parameter \in SupportedParameters \union {none}}
              earlier(m, n) == m[1] < n[1] \/ (m[1] = n[1] /\ m[2] < n[2])
              first == {m \in matches : \A n \in matches : ~earlier(n, m)}
              found == CHOOSE m \in first : TRUE
  <2>1. \A m \in first : m[2] \in DOMAIN streams
    <3>1. \A m \in (DOMAIN preferred) \X (DOMAIN streams) : m[2] \in DOMAIN streams
      BY Zenon
    <3>. QED
      BY <3>1, Zenon
  <2>2. SelectStream(preferred, streams) = IF first = {} THEN none ELSE streams[found[2]]
    BY Zenon DEF SelectStream
  <2>. HIDE DEF first
  <2>. QED
    BY <2>1, <2>2, Zenon

<1>. SUFFICES ASSUME NEW offer \in Offers
              PROVE  LET selected == SelectStreams(offer)
                     IN  /\ selected \in [Kinds -> Streams \cup {none}]
                         /\ \A kind \in Kinds :
                              selected[kind] # none =>
                                \E i \in DOMAIN offer[kind] : selected[kind] = offer[kind][i]
  BY Zenon
<1>1. offer.audio \in Seq(Streams) /\ offer.video \in Seq(Streams)
  BY Zenon DEF Offers
<1>2. ASSUME NEW kind \in Kinds
      PROVE  LET stream == SelectStreams(offer)[kind]
             IN  /\ stream \in Streams \cup {none}
                 /\ stream # none => \E i \in DOMAIN offer[kind] : stream = offer[kind][i]
  <2>. DEFINE streams == offer[kind]
              stream == SelectStreams(offer)[kind]
  <2>1. streams \in Seq(Streams)
    BY <1>1, Zenon DEF Kinds
  <2>2. \/ stream = SelectStream(Codecs[kind], streams)
        \/ stream = none
        \/ Len(streams) = 1 /\ stream = streams[1]
    BY Zenon DEF SelectStreams
  <2>. HIDE DEF streams, stream
  <2>4. stream # none => \E i \in DOMAIN streams : stream = streams[i]
    <3>1. CASE stream = SelectStream(Codecs[kind], streams)
      BY <3>1, <1>SelectStreamFacts, Zenon
    <3>2. CASE Len(streams) = 1 /\ stream = streams[1]
      BY <2>1, <3>2
    <3>. QED
      BY <2>2, <3>1, <3>2, Zenon
  <2>5. stream \in Streams \cup {none}
    BY <2>1, <2>4
  <2>. QED
    BY <2>4, <2>5, Zenon DEF stream, streams
<1>3. SelectStreams(offer) = [kind \in Kinds |-> SelectStreams(offer)[kind]]
  BY Zenon DEF SelectStreams
<1>. QED
  BY <1>2, <1>3, Zenon

\* The configs that a Sender may have, the one of remoting included.
AnyConfig ==
  [codec : ConfigCodecs \cup {kNotSpecified}, parameter : ConfigParameters,
   valid : BOOLEAN]

\* The Sender of a kind is that of the stream that was selected.
LEMMA SpawnSenderFits ==
  \A c, p : \A kind \in Kinds :
    /\ Sensible(c)
    /\ p.selected = SelectStreams(c.offer)
    => Fits(SpawnSender(c, kind, ConstructAnswer(p)), p.selected[kind], c.offer.cast_mode)

\* What a concatenation holds.
<1>ConcatFacts.
  ASSUME NEW S, NEW p \in Seq(S), NEW q \in Seq(S)
  PROVE  /\ p \o q \in Seq(S) /\ Len(p \o q) = Len(p) + Len(q)
         /\ \A i \in 1 .. Len(p) : (p \o q)[i] = p[i] /\ p[i] \in S
         /\ \A i \in 1 .. Len(q) : (p \o q)[Len(p) + i] = q[i] /\ q[i] \in S
  OBVIOUS

\* The place of a selected stream in the ANSWER.
<1>SelectedFacts.
  ASSUME NEW p, p.selected \in [Kinds -> Streams \cup {none}]
  PROVE  LET a == p.selected["audio"]
             v == p.selected["video"]
             streams == Selected(p)
         IN  \/ a = none /\ v = none /\ streams = <<>>
             \/ a # none /\ v = none /\ streams = <<a>>
             \/ a = none /\ v # none /\ streams = <<v>>
             \/ a # none /\ v # none /\ streams = <<a, v>>
  <2>. USE <1>SelectedFacts
  <2>. DEFINE a == p.selected["audio"]
              v == p.selected["video"]
  <2>1. \A x, y : /\ <<>> \o <<>> = <<>> /\ <<x>> \o <<>> = <<x>> /\ <<>> \o <<y>> = <<y>>
                  /\ <<x>> \o <<y>> = <<x, y>>
    <3>. SUFFICES ASSUME NEW x, NEW y
                  PROVE  /\ <<>> \o <<>> = <<>> /\ <<x>> \o <<>> = <<x>> /\ <<>> \o <<y>> = <<y>>
                         /\ <<x>> \o <<y>> = <<x, y>>
      BY Zenon
    <3>1. /\ <<>> \in Seq({x, y}) /\ <<x>> \in Seq({x, y}) /\ <<y>> \in Seq({x, y})
          /\ <<x, y>> \in Seq({x, y})
      OBVIOUS
    <3>2. <<>> \o <<>> = <<>> /\ <<x>> \o <<>> = <<x>> /\ <<>> \o <<y>> = <<y>>
      BY <3>1
    <3>3. <<x>> \o <<y>> = <<x, y>>
      <4>. DEFINE r == <<x>> \o <<y>>
      <4>1. r \in Seq({x, y}) /\ Len(r) = 2 /\ r[1] = x /\ r[2] = y
        BY <3>1
      <4>. HIDE DEF r
      <4>2. r = <<x, y>>
        BY <3>1, <4>1
      <4>. QED
        BY <4>2, Zenon DEF r
    <3>. QED
      BY <3>2, <3>3, Zenon
  <2>2. Selected(p) = (IF a = none THEN <<>> ELSE <<a>>) \o (IF v = none THEN <<>> ELSE <<v>>)
    BY Zenon DEF Selected
  <2>. HIDE DEF a, v
  <2>. QED
    BY <2>1, <2>2, Zenon DEF a, v

\* The selected streams have the indexes of their kinds.
<1>IndexFacts.
  ASSUME NEW offer \in Offers, NEW kind \in Kinds
  PROVE  /\ offer[kind] \in Seq(Streams)
         /\ \A i, j \in DOMAIN offer[kind] :
              offer[kind][i].index = offer[kind][j].index => i = j
         /\ \A i \in DOMAIN offer["audio"], j \in DOMAIN offer["video"] :
              offer["audio"][i].index < offer["video"][j].index
  <2>. DEFINE audio == offer["audio"]
              video == offer["video"]
  <2>1. audio \in Seq(Streams) /\ video \in Seq(Streams)
    BY Zenon DEF Offers
  <2>2. /\ \A i \in DOMAIN audio : audio[i].index = i - 1
        /\ \A i \in DOMAIN video : video[i].index = Len(audio) + i - 1
    BY Zenon DEF Offers
  <2>3. kind = "audio" \/ kind = "video"
    BY Zenon DEF Kinds
  <2>. HIDE DEF audio, video
  <2>4. /\ \A i, j \in DOMAIN audio : audio[i].index = audio[j].index => i = j
        /\ \A i, j \in DOMAIN video : video[i].index = video[j].index => i = j
        /\ \A i \in DOMAIN audio, j \in DOMAIN video : audio[i].index < video[j].index
    BY <2>1, <2>2
  <2>. QED
    BY <2>1, <2>3, <2>4, Zenon DEF audio, video

\* The one of the chosen streams that is of a kind.
<1>ChosenFacts.
  ASSUME NEW offer \in Offers, NEW p, p.selected = SelectStreams(offer), NEW kind \in Kinds
  PROVE  LET streams == Selected(p)
             stream == p.selected[kind]
             chosen == {i \in DOMAIN streams :
                          \E j \in DOMAIN offer[kind] : offer[kind][j].index = streams[i].index}
         IN  IF stream = none THEN chosen = {}
             ELSE \E k \in {1, 2} : k \in DOMAIN streams /\ streams[k] = stream /\ chosen = {k}
  <2>. USE <1>ChosenFacts
  <2>. DEFINE streams == Selected(p)
              a == p.selected["audio"]
              v == p.selected["video"]
              chosen(of) == {i \in DOMAIN streams :
                               \E j \in DOMAIN offer[of] : offer[of][j].index = streams[i].index}
  <2>0. "audio" \in Kinds /\ "video" \in Kinds /\ (kind = "audio" \/ kind = "video")
    BY Zenon DEF Kinds
  <2>1. p.selected \in [Kinds -> Streams \cup {none}]
    BY SelectStreamsFacts, Zenon
  <2>2. /\ a # none => \E i \in DOMAIN offer["audio"] : a = offer["audio"][i]
        /\ v # none => \E i \in DOMAIN offer["video"] : v = offer["video"][i]
    BY <2>0, SelectStreamsFacts
  <2>3. /\ offer["audio"] \in Seq(Streams) /\ offer["video"] \in Seq(Streams)
        /\ \A i \in DOMAIN offer["audio"], j \in DOMAIN offer["video"] :
             offer["audio"][i].index < offer["video"][j].index
    BY <2>0, <1>IndexFacts, Zenon
  <2>4. /\ \A i \in DOMAIN offer["audio"] : offer["audio"][i].index \in Nat
        /\ \A i \in DOMAIN offer["video"] : offer["video"][i].index \in Nat
    <3>1. \A list \in Seq(Streams) : \A i \in DOMAIN list : list[i].index \in Nat
      <4>1. \A list \in Seq(Streams) : \A i \in DOMAIN list : list[i] \in Streams
        OBVIOUS
      <4>. QED
        BY <4>1, Zenon DEF Streams
    <3>. QED
      BY <2>3, <3>1, Zenon
  <2>5. /\ a # none => /\ \E j \in DOMAIN offer["audio"] : offer["audio"][j].index = a.index
                       /\ ~ \E j \in DOMAIN offer["video"] : offer["video"][j].index = a.index
        /\ v # none => /\ \E j \in DOMAIN offer["video"] : offer["video"][j].index = v.index
                       /\ ~ \E j \in DOMAIN offer["audio"] : offer["audio"][j].index = v.index
    BY <2>2, <2>3, <2>4
  <2>6. \/ a = none /\ v = none /\ streams = <<>>
        \/ a # none /\ v = none /\ streams = <<a>>
        \/ a = none /\ v # none /\ streams = <<v>>
        \/ a # none /\ v # none /\ streams = <<a, v>>
    BY <2>1, <1>SelectedFacts, Zenon
  <2>. HIDE DEF streams, a, v
  <2>7. IF a = none THEN chosen("audio") = {}
        ELSE 1 \in DOMAIN streams /\ streams[1] = a /\ chosen("audio") = {1}
    <3>1. CASE streams = <<>>
      BY <2>6, <3>1
    <3>2. CASE a # none /\ streams = <<a>>
      BY <2>5, <3>2
    <3>3. CASE a = none /\ v # none /\ streams = <<v>>
      BY <2>5, <3>3
    <3>4. CASE a # none /\ v # none /\ streams = <<a, v>>
      BY <2>5, <3>4
    <3>. QED
      BY <2>6, <3>1, <3>2, <3>3, <3>4, Zenon
  <2>8. IF v = none THEN chosen("video") = {}
        ELSE \E k \in {1, 2} :
               k \in DOMAIN streams /\ streams[k] = v /\ chosen("video") = {k}
    <3>1. CASE streams = <<>>
      BY <2>6, <3>1
    <3>2. CASE a # none /\ v = none /\ streams = <<a>>
      BY <2>5, <3>2
    <3>3. CASE a = none /\ v # none /\ streams = <<v>>
      <4>1. 1 \in DOMAIN streams /\ streams[1] = v /\ chosen("video") = {1}
        BY <2>5, <3>3
      <4>. QED
        BY <3>3, <4>1, Zenon
    <3>4. CASE a # none /\ v # none /\ streams = <<a, v>>
      <4>1. 2 \in DOMAIN streams /\ streams[2] = v /\ chosen("video") = {2}
        BY <2>5, <3>4
      <4>. QED
        BY <3>4, <4>1, Zenon
    <3>. QED
      BY <2>6, <3>1, <3>2, <3>3, <3>4, Zenon
  <2>. QED
    BY <2>0, <2>7, <2>8 DEF streams, a, v

<1>. SUFFICES ASSUME NEW c, Sensible(c), NEW p, p.selected = SelectStreams(c.offer), NEW kind \in Kinds
              PROVE  Fits(SpawnSender(c, kind, ConstructAnswer(p)), p.selected[kind], c.offer.cast_mode)
  BY Zenon
<1>. DEFINE offer == c.offer
            list == offer[kind]
            answer == ConstructAnswer(p)
            streams == Selected(p)
            stream == p.selected[kind]
            x == SpawnSender(c, kind, answer)
            chosen == {i \in DOMAIN answer.send_indexes :
                         \E j \in DOMAIN list : list[j].index = answer.send_indexes[i]}
<1>1. /\ offer \in Offers /\ list \in Seq(Streams)
      /\ \A i, j \in DOMAIN list : list[i].index = list[j].index => i = j
  BY <1>IndexFacts, Zenon DEF Sensible
<1>2. /\ answer.send_indexes = [i \in DOMAIN streams |-> streams[i].index]
      /\ answer.ssrcs = [i \in DOMAIN streams |-> streams[i].ssrc + 1]
  BY Zenon DEF ConstructAnswer
<1>3. chosen = {i \in DOMAIN streams : \E j \in DOMAIN list : list[j].index = streams[i].index}
  BY <1>2, Zenon
<1>. HIDE DEF answer
<1>4. CASE stream = none
  <2>1. chosen = {}
    BY <1>1, <1>3, <1>4, <1>ChosenFacts, Zenon
  <2>2. x = none
    BY <2>1, Zenon DEF SpawnSender
  <2>. QED
    BY <1>4, <2>2, Zenon DEF Fits, answer
<1>5. CASE stream # none
  <2>1. PICK k \in {1, 2} : k \in DOMAIN streams /\ streams[k] = stream /\ chosen = {k}
    BY <1>1, <1>3, <1>5, <1>ChosenFacts, SMTT(60)
  <2>2. PICK m \in DOMAIN list : stream = list[m]
    BY <1>1, <1>5, SelectStreamsFacts
  <2>3. Max(chosen) = k
    BY <2>1 DEF Max
  <2>4. answer.send_indexes[k] = stream.index /\ answer.ssrcs[k] = stream.ssrc + 1
    BY <1>2, <2>1
  <2>5. (CHOOSE st \in Range(list) : st.index = stream.index) = stream
    <3>1. \A st \in Range(list) : st.index = stream.index => st = stream
      BY <1>1, <2>2, Zenon DEF Range
    <3>2. stream \in Range(list)
      BY <2>2, Zenon DEF Range
    <3>. QED
      BY <3>1, <3>2, Zenon
  <2>. DEFINE config == (c.audio_configs \o c.video_configs)[stream.index + 1]
  <2>6. x = [ssrc |-> stream.ssrc, receiver_ssrc |-> stream.ssrc + 1, config |-> config]
    <3>1. chosen # {}
      BY <2>1, Zenon
    <3>. HIDE DEF chosen, list, stream, streams
    <3>. QED
      BY <2>3, <2>4, <2>5, <3>1, Zenon DEF SpawnSender, chosen, list
  <2>7. config \in Configs /\ (offer.cast_mode = kMirroring => config.codec = stream.codec)
    <3>. DEFINE audio == c.audio_configs
                video == c.video_configs
    <3>1. /\ audio \in Seq(Configs) /\ Len(audio) = Len(offer["audio"])
          /\ video \in Seq(Configs) /\ Len(video) = Len(offer["video"])
          /\ offer["audio"] \in Seq(Streams) /\ offer["video"] \in Seq(Streams)
      BY Zenon DEF Sensible, Offers
    <3>2. CASE kind = "audio"
      <4>1. m \in 1 .. Len(audio) /\ stream.index + 1 = m
        BY <1>1, <2>2, <3>1, <3>2 DEF Offers
      <4>2. (audio \o video)[m] = audio[m] /\ audio[m] \in Configs
        <5>. HIDE DEF audio, video
        <5>. QED
          BY <3>1, <4>1, <1>ConcatFacts
      <4>3. offer.cast_mode = kMirroring => stream.codec = audio[m].codec
        BY <2>2, <3>2, Zenon DEF Sensible
      <4>. HIDE DEF audio, video, stream
      <4>. QED
        BY <4>1, <4>2, <4>3, Zenon DEF audio, video
    <3>3. CASE kind = "video"
      <4>1. m \in 1 .. Len(video) /\ stream.index + 1 = Len(audio) + m
        BY <1>1, <2>2, <3>1, <3>3 DEF Offers
      <4>2. (audio \o video)[Len(audio) + m] = video[m] /\ video[m] \in Configs
        BY <3>1, <4>1, <1>ConcatFacts, Zenon
      <4>3. offer.cast_mode = kMirroring => stream.codec = video[m].codec
        BY <2>2, <3>3, Zenon DEF Sensible
      <4>. HIDE DEF audio, video, stream
      <4>. QED
        BY <4>1, <4>2, <4>3, Zenon DEF audio, video
    <3>. QED
      BY <3>2, <3>3, Zenon DEF Kinds
  <2>8. x # none
    <3>0. stream \in Streams
      BY <1>1, <2>2
    <3>1. stream.ssrc \in Nat /\ stream.ssrc + 1 \in Nat
      BY <3>0 DEF Streams
    <3>. HIDE DEF x, config, stream
    <3>2. x \in SenderConfigs
      BY <2>6, <2>7, <3>1, Zenon DEF SenderConfigs
    <3>. QED
      BY <3>2, NoneAssumption, Zenon
  <2>. QED
    <3>. HIDE DEF x, stream, config, offer
    <3>1. Fits(x, stream, offer.cast_mode)
      BY <1>5, <2>6, <2>7, <2>8, Zenon DEF Fits
    <3>. QED
      BY <3>1, Zenon DEF x, stream, answer, offer
<1>. QED
  BY <1>4, <1>5, Zenon

-----------------------------------------------------------------------------
(* Requests *)

\* What session d0 asked for is what session d has asked for, too.
Keeps(d0, runs0, d, runs) ==
  /\ d0.sequence <= d.sequence
  /\ \A n \in 1 .. d0.sequence : \A type :
       Asked(d0, runs0, n, type) => Asked(d, runs, n, type)

-----------------------------------------------------------------------------
(* Messages under way *)

\* A channel after a message is posted.
LEMMA AppendFacts ==
  ASSUME NEW S, NEW q \in Seq(S), NEW m \in S
  PROVE  /\ Append(q, m) \in Seq(S) /\ Len(q) \in Nat /\ DOMAIN q = 1 .. Len(q)
         /\ DOMAIN Append(q, m) = 1 .. Len(q) + 1
         /\ \A i \in DOMAIN q : Append(q, m)[i] = q[i] /\ q[i] \in S
         /\ Append(q, m)[Len(q) + 1] = m
OBVIOUS

\* A channel after its first message is taken.
LEMMA TailFacts ==
  ASSUME NEW S, NEW q \in Seq(S), q # <<>>
  PROVE  /\ Tail(q) \in Seq(S) /\ Len(q) \in Nat \ {0} /\ DOMAIN q = 1 .. Len(q)
         /\ DOMAIN Tail(q) = 1 .. Len(q) - 1
         /\ \A i \in DOMAIN Tail(q) : i + 1 \in DOMAIN q /\ Tail(q)[i] = q[i + 1]
         /\ 1 \in DOMAIN q /\ Head(q) = q[1] /\ Head(q) \in S
OBVIOUS

\* A step of the sender s.
SenderMoves(s, d, runs, q, r) ==
  /\ session' = [session EXCEPT ![s] = d]
  /\ callbacks' = [callbacks EXCEPT ![s] = runs]
  /\ toReceiver' = [toReceiver EXCEPT ![s] = q]
  /\ toSender' = [toSender EXCEPT ![s] = r]

-----------------------------------------------------------------------------
(* The steps of a sender *)

\* The fields of a session, one by one.
Session(sequence, negotiation, awaiting, state, senders, told, endpoint, dscp) ==
  [sequence |-> sequence, negotiation |-> negotiation, awaiting |-> awaiting,
   state |-> state, senders |-> senders, told |-> told, endpoint |-> endpoint, dscp |-> dscp]

\* The fields of a session.
LEMMA SessionFields ==
  ASSUME NEW a, NEW b, NEW c, NEW d, NEW e, NEW f, NEW g, NEW h
  PROVE  LET x == Session(a, b, c, d, e, f, g, h)
         IN  /\ IsSession(x) /\ x.sequence = a /\ x.negotiation = b /\ x.awaiting = c
             /\ x.state = d /\ x.senders = e /\ x.told = f /\ x.endpoint = g /\ x.dscp = h
BY Zenon DEF Session, IsSession

\* The sender s makes the OFFER of negotiation c and becomes d.
Offering(s, d, c) ==
  /\ IsSession(d) /\ d.sequence = session[s].sequence + 1
  /\ d.awaiting = session[s].awaiting \cup {Request(session[s].sequence + 1, "kAnswer")}
  /\ d.negotiation = c /\ d.told = none
  /\ \A kind \in Kinds : d.senders[kind] = none
  /\ SenderMoves(s, d, callbacks[s],
       Append(toReceiver[s], [type |-> "kOffer",
                              sequence_number |-> session[s].sequence + 1,
                              body |-> c.offer]),
       toSender[s])

\* The session is left alone but for its requests.
SameSession(d0, d) ==
  /\ IsSession(d) /\ d.negotiation = d0.negotiation /\ d.senders = d0.senders
  /\ d.told = d0.told /\ d.endpoint = d0.endpoint /\ d.state = d0.state

\* The sender s asks for capabilities, or sends an RPC message.
Posting(s, d, type) ==
  /\ SameSession(session[s], d) /\ d.sequence = session[s].sequence + 1
  /\ \/ /\ type = "kGetCapabilities"
        /\ d.awaiting = session[s].awaiting
             \cup {Request(session[s].sequence + 1, "kCapabilitiesResponse")}
     \/ type = "kRpc" /\ d.awaiting = session[s].awaiting
  /\ SenderMoves(s, d, callbacks[s],
       Append(toReceiver[s], [type |-> type, sequence_number |-> session[s].sequence + 1]),
       toSender[s])

\* A request of the sender s is settled, and the session becomes d.
Settling(s, d, request, how, r) ==
  /\ request \in session[s].awaiting /\ how \in {request.reply_type, "timeout"}
  /\ IsSession(d) /\ d.sequence = session[s].sequence
  /\ d.awaiting = session[s].awaiting \ {request}
  /\ d.negotiation = session[s].negotiation
  /\ SenderMoves(s, d,
       [callbacks[s] EXCEPT ![request.sequence] =
          Append(callbacks[s][request.sequence],
                 [reply_type |-> request.reply_type, how |-> how])],
       toReceiver[s], r)

\* What an ANSWER or another reply m makes of session d0.
Heard(d0, d, m) ==
  \/ m.type # "kAnswer" /\ SameSession(d0, d)
  \/ m.type = "kAnswer" /\ ~m.valid /\ d.told = m.body /\ d.senders = d0.senders
  \/ /\ m.type = "kAnswer" /\ m.valid
     /\ d.told = "kNoStreamSelected" /\ d.senders = d0.senders
  \/ /\ m.type = "kAnswer" /\ m.valid
     /\ d.told = "OnNegotiated" /\ d.endpoint = m.body.udp_port
     /\ d.senders = [kind \in Kinds |-> SpawnSender(d0.negotiation, kind, m.body)]
     /\ d.state = IF d0.negotiation.offer.cast_mode = kMirroring
                    THEN "kStreaming" ELSE "kRemoting"

\* The sender s drops a message that it does not wait for.
Dropping(s) ==
  LET m == Head(toSender[s])
  IN  /\ toSender[s] # <<>>
      /\ m.type = "kRpc" \/ \A r \in session[s].awaiting : r.sequence # m.sequence_number
      /\ SenderMoves(s, session[s], callbacks[s], toReceiver[s], Tail(toSender[s]))

\* The sender s hears the reply to a request.
Hearing(s, d) ==
  LET m == Head(toSender[s])
  IN  /\ toSender[s] # <<>> /\ m.type \in Replies
      /\ Settling(s, d, Request(m.sequence_number, m.type), m.type, Tail(toSender[s]))
      /\ Heard(session[s], d, m)

\* A request of the sender s times out.
TimingOut(s, d, request) ==
  /\ Settling(s, d, request, "timeout", toSender[s])
  /\ d.senders = session[s].senders /\ d.endpoint = session[s].endpoint
  /\ d.state = session[s].state
  /\ d.told = IF request.reply_type = "kAnswer" THEN "kAnswerTimeout" ELSE session[s].told

-----------------------------------------------------------------------------
(* RequestsInv: what is asked and replied *)

\* The type of the messages to the senders, a state later.
LEMMA TypedNext ==
  ASSUME toSender' \in [Senders -> Seq(SenderMail)]
  PROVE  SenderTyped'
<1>1. SenderMail' = SenderMail
  BY Zenon DEF SenderMail, Codes, PendingOffers, Streams, Kinds, ConfigCodecs, ConfigParameters,
               Configs, ConstructAnswer, Selected, DscpIndexes, kMirroring, kRemoting,
               kNotSpecified
<1>. QED
  BY <1>1, Zenon DEF SenderTyped

\* The facts about one sender that RequestsInv holds.
LEMMA SenderBasics ==
  ASSUME RequestsInv, SenderTyped, NEW s \in Senders
  PROVE  /\ Numbered(session[s], callbacks[s], MaxSequence[s]) /\ IsSession(session[s])
         /\ MaxSequence[s] \in Nat /\ session[s].sequence \in Nat
         /\ session[s].sequence <= MaxSequence[s]
         /\ toReceiver[s] \in Seq(ReceiverMail) /\ toSender[s] \in Seq(SenderMail)
         /\ Posted(toReceiver[s], session[s], callbacks[s])
         /\ Replied(toSender[s], session[s], callbacks[s])
         /\ pending # none /\ pending.sender = s =>
              /\ pending.sequence_number \in 1 .. session[s].sequence
              /\ \A i \in DOMAIN toReceiver[s] :
                   toReceiver[s][i].sequence_number > pending.sequence_number
BY SendersAssumption DEF RequestsInv, SenderTyped, Numbered, Waits

\* A reply to an OFFER that was made, or none.
Proper(reply) ==
  \/ reply = NoReply
  \/ /\ reply = [to |-> reply.to, message |-> reply.message]
     /\ reply.to \in Senders
     /\ reply.message \in SenderMail /\ reply.message.type = "kAnswer"
     /\ reply.message.sequence_number \in 1 .. session[reply.to].sequence
     /\ Asked(session[reply.to], callbacks[reply.to], reply.message.sequence_number, "kAnswer")

\* What is under way is what was and the message that was added.
Extends(channel, to, message, new) ==
  \A t \in Senders : \A i \in DOMAIN new[t] :
    \/ i \in DOMAIN channel[t] /\ new[t][i] = channel[t][i]
    \/ t = to /\ new[t][i] = message

-----------------------------------------------------------------------------
(* The steps of the receiver *)

\* The receiver takes the next message of sender s.
Consuming(s) ==
  /\ toReceiver[s] # <<>>
  /\ toReceiver' = [toReceiver EXCEPT ![s] = Tail(toReceiver[s])]

\* The OFFER that comes next from sender s.
OfferNext(s) ==
  alive /\ toReceiver[s] # <<>> /\ Head(toReceiver[s]).type = "kOffer"

\* What it makes of that message, if it is an OFFER.
Taken(s) == PendingOffer(s, Head(toReceiver[s]))

\* The error reply to OFFER p.
Refused(p, code) == Refusal(p.sender, p.sequence_number, code)

\* OnOffer() in its four outcomes.
Refusing(s, code) ==
  /\ OfferNext(s) /\ Consuming(s)
  /\ SendAnswers(NoReply, Refused(Taken(s), code))
  /\ UNCHANGED <<socket, alive, pending, negotiationVars>>

\* The OFFER comes when the socket is closed.
Closed(s) ==
  /\ OfferNext(s) /\ Consuming(s)
  /\ SendAnswers(Interruption, Refused(Taken(s), "kSocketClosedFailure"))
  /\ pending' = none
  /\ UNCHANGED <<socket, alive, negotiationVars>>

\* The OFFER is accepted at once.
Accepting(s) ==
  /\ OfferNext(s) /\ Consuming(s)
  /\ Taken(s).selected # NoReceivers
  /\ SendAnswers(Interruption, Answer(Taken(s)))
  /\ pending' = none
  /\ InitializeSession(Taken(s))
  /\ UNCHANGED <<socket, alive>>

\* The OFFER waits for the socket.
Postponing(s) ==
  /\ OfferNext(s) /\ Consuming(s)
  /\ Taken(s).selected # NoReceivers
  /\ SendAnswers(Interruption, NoReply)
  /\ pending' = Taken(s)
  /\ UNCHANGED <<socket, alive, negotiationVars>>

\* A message that is not an OFFER, or that nobody listens to.
Passing(s) ==
  /\ Consuming(s) /\ ~OfferNext(s)
  /\ \/ toSender' = toSender
     \/ /\ alive /\ Head(toReceiver[s]).type = "kGetCapabilities"
        /\ toSender' = Post(toSender, s,
             [type |-> "kCapabilitiesResponse",
              sequence_number |-> Head(toReceiver[s]).sequence_number,
              valid |-> RemotingEnabled])
  /\ UNCHANGED <<socket, alive, pending, negotiationVars, answers>>

\* The end of the wait for the socket.
Ready ==
  /\ alive /\ pending # none /\ pending' = none
  /\ SendAnswers(NoReply, Answer(pending))
  /\ InitializeSession(pending)
  /\ UNCHANGED <<alive, toReceiver>>

\* The socket fails, and so does the OFFER that waits.
Failed ==
  /\ alive /\ pending # none /\ pending' = none
  /\ SendAnswers(NoReply, Refused(pending, "kSocketFailure"))
  /\ UNCHANGED <<alive, toReceiver, negotiationVars>>

\* The socket changes, and no OFFER waits for it.
SocketOnly ==
  UNCHANGED <<alive, pending, toReceiver, toSender, negotiationVars, answers>>

\* Offer p was made by its sender.
Made(p) ==
  /\ p \in PendingOffers
  /\ p.sequence_number \in 1 .. session[p.sender].sequence
  /\ Asked(session[p.sender], callbacks[p.sender], p.sequence_number, "kAnswer")

-----------------------------------------------------------------------------
(* CountsInv: every OFFER is answered once *)

\* How often an OFFER is there: each OFFER is replied to once if this is one.
Ones(P) == IF P THEN 1 ELSE 0

\* How often OFFER n of sender s has been answered, is under way or waits.
Count(s, n) == answers[s][n] + Ones(OfferUnderWay(s, n)) + Ones(IsPending(s, n))

\* a counts the answers, none of an OFFER that was not made.
AnswersTyped(a) ==
  /\ a = [s \in Senders |-> a[s]]
  /\ \A s \in Senders :
       /\ a[s] \in [1 .. MaxSequence[s] -> Nat]
       /\ \A n \in 1 .. MaxSequence[s] : n > session[s].sequence => a[s][n] = 0

\* OffersOf() in terms of what was asked.
LEMMA OffersOfFacts ==
  ASSUME NEW s, NEW n
  PROVE  n \in OffersOf(s) <=>
           n \in 1 .. session[s].sequence /\ Asked(session[s], callbacks[s], n, "kAnswer")
BY Zenon DEF OffersOf, Asked, Request

\* CountsInv, written with Count.
LEMMA CountsInvFacts ==
  CountsInv <=>
    /\ AnswersTyped(answers)
    /\ \A s \in Senders : \A n \in OffersOf(s) :
         IF alive THEN Count(s, n) = 1 ELSE Count(s, n) <= 1
<1>1. OffersAnsweredOnce <=>
        \A s \in Senders : \A n \in OffersOf(s) :
          IF alive THEN Count(s, n) = 1 ELSE Count(s, n) <= 1
  BY Zenon DEF OffersAnsweredOnce, Count, Ones
<1>. QED
  BY <1>1, Zenon DEF CountsInv, AnswersTyped

\* CountsInv a state later, written with Count.
LEMMA CountsInvNext ==
  ASSUME AnswersTyped(answers)',
         \A s \in Senders : \A n \in OffersOf(s)' :
           (IF alive THEN Count(s, n) = 1 ELSE Count(s, n) <= 1)'
  PROVE  CountsInv'
<1>1. OffersAnsweredOnce'
  BY Zenon DEF OffersAnsweredOnce, Count, Ones
<1>. QED
  BY <1>1, Zenon DEF CountsInv, AnswersTyped

\* The reply is one to OFFER n of sender t.
Hits(reply, t, n) ==
  reply # NoReply /\ reply.to = t /\ reply.message.sequence_number = n

-----------------------------------------------------------------------------
(* AnswersInv: the ANSWER is to the negotiation under way *)

\* A Sender addresses the Receiver of its stream.
LinedUp(d) ==
  \A kind \in Kinds :
    d.senders[kind] # none => d.senders[kind].receiver_ssrc = d.senders[kind].ssrc + 1

\* AnswersInv, sender by sender.
LEMMA AnswersInvFacts ==
  AnswersInv <=> \A s \in Senders : Current(s) /\ Negotiated(s) /\ LinedUp(session[s])
BY Zenon DEF AnswersInv, AnswersLinedUp, LinedUp

\* AnswersInv a state later, sender by sender.
LEMMA AnswersInvNext ==
  ASSUME \A s \in Senders : Current(s)' /\ Negotiated(s)' /\ LinedUp(session[s])'
  PROVE  AnswersInv'
BY Zenon DEF AnswersInv, AnswersLinedUp, LinedUp

\* The offer of a negotiation stays where it is, or goes where it should.
CurrentOf(s, d, p, q, r) ==
  \A n \in 1 .. d.sequence : Request(n, "kAnswer") \in d.awaiting =>
    /\ Sensible(d.negotiation)
    /\ \A i \in DOMAIN q :
         q[i].type = "kOffer" /\ q[i].sequence_number = n => q[i].body = d.negotiation.offer
    /\ p # none /\ p.sender = s /\ p.sequence_number = n
         => p = Properties(s, n, d.negotiation.offer)
    /\ \A i \in DOMAIN r :
         r[i].type = "kAnswer" /\ r[i].valid /\ r[i].sequence_number = n
           => r[i].body = ConstructAnswer(Properties(s, n, d.negotiation.offer))

\* An ANSWER names the port.
LEMMA AnswerPort ==
  \A properties : ConstructAnswer(properties).udp_port = "port"
BY DEF ConstructAnswer

\* Current() in terms of its state.
LEMMA CurrentFacts ==
  ASSUME NEW s
  PROVE  Current(s) <=> CurrentOf(s, session[s], pending, toReceiver[s], toSender[s])
BY Zenon DEF Current, CurrentOf

\* Current() a state later.
LEMMA CurrentNext ==
  ASSUME NEW s, CurrentOf(s, session'[s], pending', toReceiver'[s], toSender'[s])
  PROVE  Current(s)'
<1>1. \A c : Sensible(c)' <=> Sensible(c)
  BY Zenon DEF Sensible, Offers, Streams, ConfigCodecs, ConfigParameters, Configs,
               kMirroring, kRemoting, kNotSpecified
<1>2. \A n, o : Properties(s, n, o)' = Properties(s, n, o)
  BY ZenonT(60) DEF Properties, PendingOffer, SelectStreams, SelectStream, Kinds, kMirroring
<1>3. \A p : ConstructAnswer(p)' = ConstructAnswer(p)
  BY Zenon DEF ConstructAnswer, Selected, DscpIndexes
<1>. QED
  BY <1>1, <1>2, <1>3, Zenon DEF Current, CurrentOf, Request

\* What Negotiated(s) says of the session d.
NegotiatedOf(d) ==
  d.told = "OnNegotiated" =>
    /\ d.negotiation.offer \in Offers
    /\ \A n \in 1 .. d.sequence : Request(n, "kAnswer") \notin d.awaiting
    /\ d.endpoint = "port"
    /\ d.state = IF d.negotiation.offer.cast_mode = kMirroring THEN "kStreaming" ELSE "kRemoting"
    /\ \A kind \in Kinds :
         Fits(d.senders[kind], SelectStreams(d.negotiation.offer)[kind],
              d.negotiation.offer.cast_mode)

\* Negotiated() in terms of its state.
LEMMA NegotiatedFacts ==
  ASSUME NEW s
  PROVE  Negotiated(s) <=> NegotiatedOf(session[s])
BY Zenon DEF Negotiated, NegotiatedOf

\* Negotiated() a state later.
LEMMA NegotiatedNext ==
  ASSUME NEW s, NegotiatedOf(session'[s])
  PROVE  Negotiated(s)'
<1>1. \A o : SelectStreams(o)' = SelectStreams(o)
  BY Zenon DEF SelectStreams, SelectStream, Kinds, kMirroring
<1>2. \A x, stream, mode : Fits(x, stream, mode)' <=> Fits(x, stream, mode)
  BY Zenon DEF Fits, kMirroring
<1>3. Offers' = Offers
  BY Zenon DEF Offers, Streams, ConfigCodecs, ConfigParameters, Configs,
               kMirroring, kRemoting, kNotSpecified
<1>. QED
  BY <1>1, <1>2, <1>3, Zenon DEF Negotiated, NegotiatedOf, Request, Kinds, kMirroring

\* The facts about one sender that AnswersInv holds.
LEMMA AnswersOf ==
  ASSUME AnswersInv, NEW s \in Senders
  PROVE  /\ CurrentOf(s, session[s], pending, toReceiver[s], toSender[s])
         /\ NegotiatedOf(session[s]) /\ LinedUp(session[s])
BY AnswersInvFacts, CurrentFacts, NegotiatedFacts, Zenon

\* What is left was there.
LEMMA TailWithin ==
  ASSUME NEW S, NEW q \in Seq(S), q # <<>>
  PROVE  \A i \in DOMAIN Tail(q) : \E j \in DOMAIN q : Tail(q)[i] = q[j]
<1>1. \A i \in DOMAIN Tail(q) : i + 1 \in DOMAIN q /\ Tail(q)[i] = q[i + 1]
  BY TailFacts, Zenon
<1>. QED
  BY <1>1, Zenon

\* p is what the OFFER of the negotiation under way asks for.
Genuine(p) ==
  Request(p.sequence_number, "kAnswer") \in session[p.sender].awaiting =>
    p = Properties(p.sender, p.sequence_number, session[p.sender].negotiation.offer)

\* Reply m to sender t is no acceptance, or that of a genuine OFFER.
Honest(t, m) ==
  \/ m.type # "kAnswer" \/ ~m.valid
  \/ \E p : /\ Genuine(p) /\ p.sender = t /\ p.sequence_number = m.sequence_number
            /\ m.body = ConstructAnswer(p)

-----------------------------------------------------------------------------
(* AgreedInv: the two ends agree *)

\* The Receivers are those of the negotiation of sender s.
ReceiversOf(s, c, mode, made) ==
  LET p == Properties(s, 0, c.offer)
  IN  mode = p.mode /\ made = [kind \in Kinds |-> ConstructReceiver(p, kind)]

\* Agreed() in terms of its state.
LEMMA AgreedFacts ==
  ASSUME NEW s
  PROVE  Agreed(s) <=>
           (Answered(s) =>
              /\ \A i \in DOMAIN toReceiver[s] : toReceiver[s][i].type # "kOffer"
              /\ pending = none \/ pending.sender # s
              /\ alive /\ negotiated = s =>
                   ReceiversOf(s, session[s].negotiation, accepted.mode, receivers))
BY Zenon DEF Agreed, ReceiversOf

\* Agreed() a state later.
LEMMA AgreedNext ==
  ASSUME NEW s,
         Answered(s)' =>
           /\ \A i \in DOMAIN toReceiver'[s] : toReceiver'[s][i].type # "kOffer"
           /\ pending' = none \/ pending'.sender # s
           /\ alive' /\ negotiated' = s =>
                ReceiversOf(s, session'[s].negotiation, accepted'.mode, receivers')
  PROVE  Agreed(s)'
<1>2. (alive' /\ negotiated' = s =>
         ReceiversOf(s, session[s].negotiation, accepted.mode, receivers)')
       <=> (alive' /\ negotiated' = s =>
              ReceiversOf(s, session'[s].negotiation, accepted'.mode, receivers'))
  BY Zenon DEF ReceiversOf, Properties, PendingOffer, SelectStreams, SelectStream, Kinds,
               kMirroring, ConstructReceiver
<1>3. Agreed(s)' <=>
           (Answered(s)' =>
              /\ \A i \in DOMAIN toReceiver'[s] : toReceiver'[s][i].type # "kOffer"
              /\ pending' = none \/ pending'.sender # s
              /\ alive' /\ negotiated' = s =>
                   ReceiversOf(s, session[s].negotiation, accepted.mode, receivers)')
  BY Zenon DEF Agreed, ReceiversOf
<1>. QED
  BY <1>2, <1>3, Zenon

\* What Answered(s) says of the session d and the replies r.
AnsweredOf(d, r) ==
  \/ d.told = "OnNegotiated"
  \/ \E i \in DOMAIN r :
       /\ r[i].type = "kAnswer" /\ r[i].valid
       /\ Request(r[i].sequence_number, "kAnswer") \in d.awaiting

\* Answered() in terms of its state, in both states of a step.
LEMMA AnsweredFacts ==
  ASSUME NEW s
  PROVE  /\ Answered(s) <=> AnsweredOf(session[s], toSender[s])
         /\ Answered(s)' <=> AnsweredOf(session'[s], toSender'[s])
BY Zenon DEF Answered, AnsweredOf, Request

-----------------------------------------------------------------------------
(* The steps of a sender keep the invariant *)

\* A step of a sender keeps the invariant.
LEMMA SenderKeeps ==
  \A s \in Senders :
    /\ NegotiationInv
    /\ UNCHANGED receiverVars
    /\ (Patient(s) /\ StartNegotiating(s)) \/ SenderAct(s)
    => NegotiationInv'

\* Sequences with one callback run at most.
<1>RunsFacts.
  ASSUME NEW run
  PROVE  /\ DOMAIN <<>> = {} /\ DOMAIN <<run>> = {1} /\ <<run>>[1] = run
         /\ Append(<<>>, run) = <<run>>
  <2>1. DOMAIN <<>> = {} /\ DOMAIN <<run>> = {1} /\ <<run>>[1] = run
    OBVIOUS
  <2>2. Append(<<>>, run) = <<run>>
    OBVIOUS
  <2>. QED
    BY <2>1, <2>2, Zenon

\* What was asked for has a number that was used, and is of one type.
<1>AskedFacts.
  ASSUME NEW d, NEW runs, NEW max \in Nat, Numbered(d, runs, max),
         NEW n \in 1 .. max, NEW type, Asked(d, runs, n, type)
  PROVE  /\ n <= d.sequence /\ type \in Replies
         /\ \A other : Asked(d, runs, n, other) => other = type
         /\ \A r \in d.awaiting : r.sequence = n => r = Request(n, type)
  <2>. USE <1>AskedFacts
  <2>1. d.sequence \in Nat /\ d.awaiting \subseteq Requests(d.sequence)
    BY DEF Numbered
  <2>2. \A r \in d.awaiting : r.sequence \in 1 .. d.sequence /\ r.reply_type \in Replies
    BY <2>1, Zenon DEF Requests
  <2>3. CASE Request(n, type) \in d.awaiting
    <3>1. Request(n, type).sequence = n /\ Request(n, type).reply_type = type
      BY Zenon DEF Request
    <3>2. n <= d.sequence /\ type \in Replies
      BY <2>1, <2>2, <2>3, <3>1
    <3>3. runs[n] = <<>> /\ \A r \in d.awaiting : r.sequence = n => r = Request(n, type)
      BY <2>3, <3>1, Zenon DEF Numbered
    <3>4. DOMAIN runs[n] = {}
      BY <3>3
    <3>5. \A other : Request(n, other).sequence = n /\ Request(n, other).reply_type = other
      BY Zenon DEF Request
    <3>6. \A other : Asked(d, runs, n, other) => other = type
      BY <3>1, <3>3, <3>4, <3>5, Zenon DEF Asked
    <3>. QED
      BY <3>2, <3>3, <3>6, Zenon
  <2>4. CASE Request(n, type) \notin d.awaiting
    <3>1. PICK i \in DOMAIN runs[n] : runs[n][i].reply_type = type
      BY <2>4, Zenon DEF Asked
    <3>2. runs[n] # <<>>
      BY <3>1, <1>RunsFacts, Zenon
    <3>3. PICK run \in Runs : runs[n] = <<run>>
      BY <3>2, ZenonT(60) DEF Numbered
    <3>4. run.reply_type = type /\ run.reply_type \in Replies
      BY <3>1, <3>3, <1>RunsFacts, Zenon DEF Runs
    <3>5. n <= d.sequence /\ \A r \in d.awaiting : r.sequence # n
      BY <2>1, <3>2 DEF Numbered
    <3>6. \A other : Request(n, other).sequence = n
      BY Zenon DEF Request
    <3>7. \A other : Asked(d, runs, n, other) => other = type
      BY <3>3, <3>4, <3>5, <3>6, <1>RunsFacts, Zenon DEF Asked
    <3>. QED
      BY <3>4, <3>5, <3>7, Zenon
  <2>. QED
    BY <2>3, <2>4, Zenon

\* A step of one sender leaves the others' state alone.
<1>SenderMovesFacts.
  ASSUME RequestsInv, SenderTyped, NEW s \in Senders, NEW d, NEW runs, NEW q, NEW r,
         SenderMoves(s, d, runs, q, r)
  PROVE  /\ session'[s] = d /\ callbacks'[s] = runs /\ toReceiver'[s] = q /\ toSender'[s] = r
         /\ \A t \in Senders \ {s} :
              /\ session'[t] = session[t] /\ callbacks'[t] = callbacks[t]
              /\ toReceiver'[t] = toReceiver[t] /\ toSender'[t] = toSender[t]
         /\ session' = [t \in Senders |-> session'[t]]
         /\ callbacks' = [t \in Senders |-> callbacks'[t]]
  <2>. USE <1>SenderMovesFacts
  <2>1. /\ session = [t \in Senders |-> session[t]] /\ callbacks = [t \in Senders |-> callbacks[t]]
        /\ toReceiver \in [Senders -> Seq(ReceiverMail)] /\ toSender \in [Senders -> Seq(SenderMail)]
    BY Zenon DEF RequestsInv, SenderTyped
  <2>2. DOMAIN session = Senders /\ DOMAIN callbacks = Senders
    BY <2>1, Zenon
  <2>. QED
    BY <2>1, <2>2, Zenon DEF SenderMoves

\* Writing a value that is there changes nothing.
<1>Unchanging.
  ASSUME RequestsInv, SenderTyped, NEW s \in Senders
  PROVE  /\ session = [session EXCEPT ![s] = session[s]]
         /\ callbacks = [callbacks EXCEPT ![s] = callbacks[s]]
         /\ toReceiver = [toReceiver EXCEPT ![s] = toReceiver[s]]
         /\ toSender = [toSender EXCEPT ![s] = toSender[s]]
  <2>. USE <1>Unchanging
  <2>1. /\ session = [t \in Senders |-> session[t]] /\ callbacks = [t \in Senders |-> callbacks[t]]
        /\ toReceiver \in [Senders -> Seq(ReceiverMail)] /\ toSender \in [Senders -> Seq(SenderMail)]
    BY Zenon DEF RequestsInv, SenderTyped
  <2>2. \A f : f = [t \in Senders |-> f[t]] => f = [f EXCEPT ![s] = f[s]]
    BY Zenon
  <2>3. /\ toReceiver = [toReceiver EXCEPT ![s] = toReceiver[s]]
        /\ toSender = [toSender EXCEPT ![s] = toSender[s]]
    BY <2>1, Zenon
  <2>. QED
    BY <2>1, <2>2, <2>3, Zenon

\* SendRequest() takes the next number and awaits its reply.
<1>RequestedSession.
  ASSUME NEW a, NEW b, NEW c, NEW d, NEW e, NEW f, NEW g, NEW h, NEW type
  PROVE  Requested(Session(a, b, c, d, e, f, g, h), type)
           = Session(a + 1, b, c \cup {Request(a + 1, type)}, d, e, f, g, h)
  <2>. DEFINE x == Session(a, b, c, d, e, f, g, h)
              q == Request(x.sequence + 1, type)
              y == [x EXCEPT !.sequence = q.sequence]
              z == [y EXCEPT !.awaiting = x.awaiting \cup {q}]
  <2>1. x.sequence = a /\ x.awaiting = c
    BY SessionFields
  <2>2. q = Request(a + 1, type) /\ q.sequence = a + 1
    BY <2>1, Zenon DEF Request
  <2>3. Requested(x, type) = z
    BY Zenon DEF Requested, Request
  <2>. HIDE DEF x, q
  <2>4. y = Session(a + 1, b, c, d, e, f, g, h)
    BY <2>2 DEF x, Session
  <2>. HIDE DEF y
  <2>5. z = Session(a + 1, b, x.awaiting \cup {q}, d, e, f, g, h)
    BY <2>4 DEF Session
  <2>. QED
    BY <2>1, <2>2, <2>3, <2>5, Zenon DEF x

\* Negotiate() and NegotiateRemoting() make an OFFER of sensible configs.
<1>NegotiateFacts.
  \A s \in Senders :
    /\ RequestsInv
    /\ SenderTyped
    /\ StartNegotiating(s)
    => /\ session[s].sequence < MaxSequence[s]
       /\ \E d, c : Sensible(c) /\ Offering(s, d, c)
  \* CreateStreamList() makes one stream for each config, with indexes from the offset.
  <2>CreateStreamListFacts.
    ASSUME NEW offset \in Nat, NEW configs \in Seq(AnyConfig), NEW n \in Nat,
           NEW dscp \in {none, "kAF41", "kEF"}
    PROVE  LET list == CreateStreamList(offset, configs, n, dscp)
           IN  /\ list \in Seq(Streams) /\ Len(list) = Len(configs)
               /\ \A i \in DOMAIN list :
                    list[i].index = offset + i - 1 /\ list[i].codec = configs[i].codec
    <3>. DEFINE list == CreateStreamList(offset, configs, n, dscp)
                made(i) == CreateStream(offset + i - 1, configs[i], n, dscp)
    <3>1. list = [i \in 1 .. Len(configs) |-> made(i)]
      BY DEF CreateStreamList
    <3>2. ASSUME NEW i \in 1 .. Len(configs)
          PROVE  /\ made(i) \in Streams /\ made(i).index = offset + i - 1
                 /\ made(i).codec = configs[i].codec
      <4>1. configs[i] \in AnyConfig /\ offset + i - 1 \in Nat
        OBVIOUS
      <4>2. /\ configs[i].codec \in ConfigCodecs \cup {kNotSpecified}
            /\ configs[i].parameter \in ConfigParameters
        BY <4>1, Zenon DEF AnyConfig
      <4>3. \A k \in Nat : 2 * (10 * n + k) + 1 \in Nat
        OBVIOUS
      <4>. QED
        BY <4>1, <4>2, <4>3, Zenon DEF CreateStream, Streams
    <3>. HIDE DEF list, made
    <3>3. list \in Seq(Streams) /\ Len(list) = Len(configs)
      BY <3>1, <3>2
    <3>. QED
      BY <3>1, <3>2, <3>3, Zenon DEF list

  \* Negotiate() makes an offer that fits its arguments.
  <2>MirroringOffer.
    ASSUME NEW audio \in Seq(Configs), NEW video \in Seq(Configs), NEW n \in Nat
    PROVE  Sensible([offer |-> CreateMirroringOffer(audio, video, n),
                     audio_configs |-> audio, video_configs |-> video])
    <3>. DEFINE dscp == DscpSuggestion(audio, video)
                a == CreateStreamList(0, audio, n, dscp)
                v == CreateStreamList(Len(audio), video, n, dscp)
                o == CreateMirroringOffer(audio, video, n)
    <3>1. dscp \in {none, "kAF41", "kEF"}
      BY Zenon DEF DscpSuggestion
    <3>2. Configs \subseteq AnyConfig
      BY ConfigsAssumption, Zenon DEF AnyConfig
    <3>3. audio \in Seq(AnyConfig) /\ video \in Seq(AnyConfig) /\ Len(audio) \in Nat
      BY <3>2
    <3>4. o = [cast_mode |-> kMirroring, audio |-> a, video |-> v]
      BY Zenon DEF CreateMirroringOffer
    <3>. HIDE DEF dscp
    <3>5. /\ a \in Seq(Streams) /\ Len(a) = Len(audio)
          /\ \A i \in DOMAIN a : a[i].index = 0 + i - 1 /\ a[i].codec = audio[i].codec
      BY <3>1, <3>3, <2>CreateStreamListFacts
    <3>6. /\ v \in Seq(Streams) /\ Len(v) = Len(video)
          /\ \A i \in DOMAIN v : v[i].index = Len(audio) + i - 1 /\ v[i].codec = video[i].codec
      BY <3>1, <3>3, <2>CreateStreamListFacts
    <3>. HIDE DEF a, v, o
    <3>7. o.audio = a /\ o.video = v /\ o.cast_mode = kMirroring
      BY <3>4, Zenon
    <3>8. o \in Offers
      BY <3>4, <3>5, <3>6, <3>7 DEF Offers
    <3>9. Sensible([offer |-> o, audio_configs |-> audio, video_configs |-> video])
      BY <3>5, <3>6, <3>7, <3>8, Zenon DEF Sensible
    <3>. QED
      BY <3>9, Zenon DEF o

  \* The offer of NegotiateRemoting() has one stream for each config.
  <2>RemotingOffer.
    ASSUME NEW audio \in Configs, NEW video \in Configs, NEW n \in Nat
    PROVE  Sensible([offer |-> CreateRemotingOffer(audio, video, n),
                     audio_configs |-> <<audio>>, video_configs |-> <<video>>])
    <3>. DEFINE dscp == DscpSuggestion(<<audio>>, <<video>>)
                unspecified(config) == [config EXCEPT !.codec = kNotSpecified]
                audios == <<unspecified(audio)>>
                videos == <<unspecified(video)>>
                a == CreateStreamList(0, audios, n, dscp)
                v == CreateStreamList(1, videos, n, dscp)
                o == CreateRemotingOffer(audio, video, n)
    <3>1. dscp \in {none, "kAF41", "kEF"}
      BY Zenon DEF DscpSuggestion
    <3>2. /\ audio \in [codec : ConfigCodecs, parameter : ConfigParameters, valid : BOOLEAN]
          /\ video \in [codec : ConfigCodecs, parameter : ConfigParameters, valid : BOOLEAN]
      BY ConfigsAssumption, Zenon
    <3>3. unspecified(audio) \in AnyConfig /\ unspecified(video) \in AnyConfig
      BY <3>2, Zenon DEF AnyConfig
    <3>4. o = [cast_mode |-> kRemoting, audio |-> a, video |-> v]
      BY Zenon DEF CreateRemotingOffer
    <3>. HIDE DEF dscp, unspecified
    <3>5. audios \in Seq(AnyConfig) /\ videos \in Seq(AnyConfig) /\ Len(audios) = 1 /\ Len(videos) = 1
      BY <3>3
    <3>. HIDE DEF audios, videos
    <3>. DEFINE Single(list, offset) ==
                  /\ list \in Seq(Streams) /\ Len(list) = 1
                  /\ \A i \in DOMAIN list : list[i].index = offset + i - 1
    <3>Made. ASSUME NEW offset \in Nat, NEW configs \in Seq(AnyConfig), Len(configs) = 1
             PROVE  Single(CreateStreamList(offset, configs, n, dscp), offset)
      BY ONLY <3>1, <3>Made, <2>CreateStreamListFacts, n \in Nat, SMTT(30)
    <3>. HIDE DEF Single
    <3>Naturals. 0 \in Nat /\ 1 \in Nat
      OBVIOUS
    <3>Lists. Single(a, 0) /\ Single(v, 1)
      BY ONLY <3>5, <3>Made, <3>Naturals, Zenon
    <3>6. a \in Seq(Streams) /\ Len(a) = 1 /\ \A i \in DOMAIN a : a[i].index = 0 + i - 1
      BY ONLY <3>Lists, Zenon DEF Single
    <3>7. v \in Seq(Streams) /\ Len(v) = 1 /\ \A i \in DOMAIN v : v[i].index = 1 + i - 1
      BY ONLY <3>Lists, Zenon DEF Single
    <3>. HIDE DEF a, v, o
    <3>8. o.audio = a /\ o.video = v /\ o.cast_mode = kRemoting /\ kRemoting # kMirroring
      BY <3>4, Zenon DEF kRemoting, kMirroring
    <3>9. o \in Offers
      <4>1. /\ \A i \in DOMAIN o.audio : o.audio[i].index = i - 1
            /\ \A i \in DOMAIN o.video : o.video[i].index = Len(o.audio) + i - 1
        <5>1. \A i \in DOMAIN a : i \in Int /\ 0 + i - 1 = i - 1
          BY <3>6
        <5>. QED
          BY <3>6, <3>7, <3>8, <5>1, Zenon
      <4>2. o \in [cast_mode : {kMirroring, kRemoting}, audio : Seq(Streams),
                  video : Seq(Streams)]
        BY <3>4, <3>6, <3>7, Zenon
      <4>. QED
        BY <4>1, <4>2, Zenon DEF Offers
    <3>10. Sensible([offer |-> o, audio_configs |-> <<audio>>, video_configs |-> <<video>>])
      <4>1. <<audio>> \in Seq(Configs) /\ <<video>> \in Seq(Configs)
        OBVIOUS
      <4>2. Len(<<audio>>) = Len(o.audio) /\ Len(<<video>>) = Len(o.video)
        BY <3>6, <3>7, <3>8, Zenon
      <4>. QED
        BY <3>8, <3>9, <4>1, <4>2, Zenon DEF Sensible
    <3>. QED
      BY <3>10, Zenon DEF o

  \* StartNegotiation() keeps the negotiation and sends its OFFER.
  <2>StartNegotiationFacts.
    ASSUME RequestsInv, SenderTyped, NEW s \in Senders, NEW audio, NEW video, NEW offer,
           StartNegotiation(s, audio, video, offer)
    PROVE  \E d : Offering(s, d, [offer |-> offer, audio_configs |-> audio,
                                  video_configs |-> video])
    <3>. USE <2>StartNegotiationFacts
    <3>. DEFINE d0 == session[s]
                c == [offer |-> offer, audio_configs |-> audio, video_configs |-> video]
                r == Requested(d0, "kAnswer")
                d == [r EXCEPT !.negotiation = c, !.senders = NoSenders, !.told = none]
                m == [type |-> "kOffer", sequence_number |-> d0.sequence + 1, body |-> offer]
    <3>1. PICK a1, a2, a3, a4, a5, a6, a7, a8 : d0 = Session(a1, a2, a3, a4, a5, a6, a7, a8)
      BY DEF RequestsInv, Numbered, IsSession, Session
    <3>2. r = Session(a1 + 1, a2, a3 \cup {Request(a1 + 1, "kAnswer")}, a4, a5, a6, a7, a8)
      BY <3>1, <1>RequestedSession
    <3>3. d = Session(a1 + 1, c, a3 \cup {Request(a1 + 1, "kAnswer")}, a4, NoSenders, none, a7, a8)
      <4>. DEFINE x == [r EXCEPT !.negotiation = c]
                  y == [x EXCEPT !.senders = NoSenders]
                  z == [y EXCEPT !.told = none]
      <4>1. d = z
        BY Zenon
      <4>. HIDE DEF r, c
      <4>2. x = Session(a1 + 1, c, a3 \cup {Request(a1 + 1, "kAnswer")}, a4, a5, a6, a7, a8)
        BY <3>2 DEF Session
      <4>. HIDE DEF x
      <4>3. y = Session(a1 + 1, c, a3 \cup {Request(a1 + 1, "kAnswer")}, a4, NoSenders, a6, a7, a8)
        BY <4>2 DEF Session
      <4>. HIDE DEF y
      <4>4. z = Session(a1 + 1, c, a3 \cup {Request(a1 + 1, "kAnswer")}, a4, NoSenders, none, a7, a8)
        BY <4>3 DEF Session
      <4>. QED
        BY <4>1, <4>4, Zenon
    <3>4. /\ session' = [session EXCEPT ![s] = d]
          /\ toReceiver' = [toReceiver EXCEPT ![s] = Append(toReceiver[s], m)]
          /\ UNCHANGED <<toSender, callbacks>>
      BY Zenon DEF StartNegotiation, Post
    <3>. HIDE DEF d, c
    <3>5. SenderMoves(s, d, callbacks[s], Append(toReceiver[s], m), toSender[s])
      BY <3>4, <1>Unchanging, Zenon DEF SenderMoves
    <3>6. c.offer = offer
      BY Zenon DEF c
    <3>7. d0.sequence = a1 /\ d0.awaiting = a3
      BY <3>1, SessionFields, SMTT(60)
    <3>8. /\ IsSession(d) /\ d.sequence = d0.sequence + 1 /\ d.negotiation = c
          /\ d.awaiting = d0.awaiting \cup {Request(d0.sequence + 1, "kAnswer")}
          /\ d.senders = NoSenders /\ d.told = none
      BY <3>3, <3>7, SessionFields
    <3>9. Offering(s, d, c)
      BY <3>5, <3>6, <3>8, Zenon DEF Offering, NoSenders
    <3>. QED
      BY <3>9, Zenon DEF c

  <2>. SUFFICES ASSUME RequestsInv, SenderTyped, NEW s \in Senders, StartNegotiating(s)
                PROVE  /\ session[s].sequence < MaxSequence[s]
                       /\ \E d, c : Sensible(c) /\ Offering(s, d, c)
    BY Zenon
  <2>. DEFINE n == session[s].sequence + 1
  <2>1. n \in Nat
    BY SendersAssumption DEF RequestsInv, Numbered
  <2>2. CASE Negotiate(s)
    <3>1. PICK c \in MirroringConfigs :
            StartNegotiation(s, c.audio, c.video, CreateMirroringOffer(c.audio, c.video, n))
      BY <2>2, Zenon DEF Negotiate
    <3>2. c.audio \in Seq(Configs) /\ c.video \in Seq(Configs)
      BY ConfigsAssumption, Zenon
    <3>. HIDE DEF n
    <3>3. Sensible([offer |-> CreateMirroringOffer(c.audio, c.video, n),
                    audio_configs |-> c.audio, video_configs |-> c.video])
      BY <2>1, <3>2, <2>MirroringOffer, Zenon
    <3>. QED
      BY <2>2, <3>1, <3>3, <2>StartNegotiationFacts, Zenon DEF Negotiate
  <2>3. CASE NegotiateRemoting(s)
    <3>1. PICK c \in RemotingConfigs :
            StartNegotiation(s, <<c.audio>>, <<c.video>>, CreateRemotingOffer(c.audio, c.video, n))
      BY <2>3, Zenon DEF NegotiateRemoting
    <3>2. c.audio \in Configs /\ c.video \in Configs
      <4>1. \A x : x \in {y.audio : y \in RemotingConfigs} => x \in Configs
        BY Zenon DEF Configs
      <4>2. \A x : x \in {y.video : y \in RemotingConfigs} => x \in Configs
        BY Zenon DEF Configs
      <4>. QED
        BY <4>1, <4>2, Zenon
    <3>. HIDE DEF n
    <3>3. Sensible([offer |-> CreateRemotingOffer(c.audio, c.video, n),
                    audio_configs |-> <<c.audio>>, video_configs |-> <<c.video>>])
      BY <2>1, <3>2, <2>RemotingOffer, Zenon
    <3>. QED
      BY <2>3, <3>1, <3>3, <2>StartNegotiationFacts, Zenon DEF NegotiateRemoting
  <2>. QED
    BY <2>2, <2>3, Zenon DEF StartNegotiating

\* The other messages a sender sends.
<1>PostingFacts.
  ASSUME RequestsInv, SenderTyped, NEW s \in Senders, RequestCapabilities(s) \/ SenderSendRpc(s)
  PROVE  /\ session[s].sequence < MaxSequence[s]
         /\ \E d : \E type \in {"kGetCapabilities", "kRpc"} : Posting(s, d, type)
  <2>. USE <1>PostingFacts
  <2>. DEFINE d0 == session[s]
              m(type) == [type |-> type, sequence_number |-> d0.sequence + 1]
  <2>0. PICK a1, a2, a3, a4, a5, a6, a7, a8 : d0 = Session(a1, a2, a3, a4, a5, a6, a7, a8)
    BY DEF RequestsInv, Numbered, IsSession, Session
  <2>. DEFINE d(a) == Session(d0.sequence + 1, a2, a, a4, a5, a6, a7, a8)
              wanted == d0.awaiting \cup {Request(d0.sequence + 1, "kCapabilitiesResponse")}
  <2>1. /\ d0.sequence = a1 /\ d0.negotiation = a2 /\ d0.awaiting = a3
        /\ d0.state = a4 /\ d0.senders = a5 /\ d0.told = a6 /\ d0.endpoint = a7
    BY <2>0, SessionFields
  <2>2. \A a : SameSession(d0, d(a)) /\ d(a).sequence = d0.sequence + 1 /\ d(a).awaiting = a
    <3>. SUFFICES ASSUME NEW a
                  PROVE  SameSession(d0, d(a)) /\ d(a).sequence = d0.sequence + 1
                         /\ d(a).awaiting = a
      BY ZenonT(60)
    <3>. DEFINE x == d(a)
    <3>1. /\ IsSession(x) /\ x.sequence = d0.sequence + 1 /\ x.negotiation = a2 /\ x.awaiting = a
          /\ x.state = a4 /\ x.senders = a5 /\ x.told = a6 /\ x.endpoint = a7
      BY SessionFields
    <3>. HIDE DEF x
    <3>2. SameSession(d0, x)
      BY <2>1, <3>1, Zenon DEF SameSession
    <3>. QED
      BY <3>1, <3>2, Zenon DEF x
  <2>3. CASE RequestCapabilities(s)
    <3>1. /\ session' = [session EXCEPT ![s] = Requested(d0, "kCapabilitiesResponse")]
          /\ toReceiver' = [toReceiver EXCEPT ![s] = Append(toReceiver[s], m("kGetCapabilities"))]
          /\ UNCHANGED <<toSender, callbacks>>
      BY <2>3, ZenonT(60) DEF RequestCapabilities, Post
    <3>2. Requested(d0, "kCapabilitiesResponse") = d(wanted)
      BY <2>0, <2>1, <1>RequestedSession
    <3>. HIDE DEF d, wanted
    <3>3. SenderMoves(s, d(wanted), callbacks[s],
                      Append(toReceiver[s], m("kGetCapabilities")), toSender[s])
      BY <3>1, <3>2, <1>Unchanging, Zenon DEF SenderMoves
    <3>4. Posting(s, d(wanted), "kGetCapabilities")
      BY <2>2, <3>3, Zenon DEF Posting, wanted
    <3>. QED
      BY <2>3, <3>4, Zenon DEF RequestCapabilities
  <2>4. CASE SenderSendRpc(s)
    <3>1. /\ session' = [session EXCEPT ![s] = [d0 EXCEPT !.sequence = d0.sequence + 1]]
          /\ toReceiver' = [toReceiver EXCEPT ![s] = Append(toReceiver[s], m("kRpc"))]
          /\ UNCHANGED <<toSender, callbacks>>
      BY <2>4, Zenon DEF SenderSendRpc, Post
    <3>2. [d0 EXCEPT !.sequence = d0.sequence + 1] = d(d0.awaiting)
      BY <2>0, <2>1 DEF Session
    <3>. HIDE DEF d
    <3>3. SenderMoves(s, d(d0.awaiting), callbacks[s], Append(toReceiver[s], m("kRpc")), toSender[s])
      BY <3>1, <3>2, <1>Unchanging, Zenon DEF SenderMoves
    <3>4. Posting(s, d(d0.awaiting), "kRpc")
      BY <2>2, <3>3, Zenon DEF Posting
    <3>. QED
      BY <2>4, <3>4, Zenon DEF SenderSendRpc
  <2>. QED
    BY <2>3, <2>4, ZenonT(60)

\* OnMessage() of a sender drops the message or runs the callback it is for.
<1>SenderOnMessageFacts.
  \A s \in Senders :
    /\ RequestsInv
    /\ SenderTyped
    /\ SenderOnMessage(s)
    => Dropping(s) \/ \E d : Hearing(s, d)
  \* A reply's callback changes neither the numbers nor the other awaited replies.
  <2>OnReplyFacts.
    ASSUME NEW d0, IsSession(d0), NEW request, NEW m, m.valid \in BOOLEAN
    PROVE  LET d == OnReply(Unawaited(d0, request), m)
           IN  /\ IsSession(d) /\ d.sequence = d0.sequence /\ d.negotiation = d0.negotiation
               /\ d.awaiting = d0.awaiting \ {request} /\ Heard(d0, d, m)
    <3>. USE <2>OnReplyFacts
    <3>. DEFINE this == Unawaited(d0, request)
                d == OnReply(this, m)
    <3>1. PICK a1, a2, a3, a4, a5, a6, a7, a8 : d0 = Session(a1, a2, a3, a4, a5, a6, a7, a8)
      BY Zenon DEF IsSession, Session
    <3>2. /\ d0.sequence = a1 /\ d0.negotiation = a2 /\ d0.awaiting = a3
          /\ d0.state = a4 /\ d0.senders = a5 /\ d0.told = a6 /\ d0.endpoint = a7
      BY <3>1, SessionFields
    <3>3. this = Session(a1, a2, a3 \ {request}, a4, a5, a6, a7, a8)
      BY <3>1 DEF Session, Unawaited
    <3>. HIDE DEF this
    <3>4. /\ this.negotiation = a2 /\ this.senders = a5 /\ this.dscp = a8
      BY <3>3, SessionFields, SMTT(60)
    <3>. DEFINE spawned == [kind \in Kinds |-> SpawnSender(a2, kind, m.body)]
    <3>5. CASE m.type # "kAnswer"
      <4>1. d = this
        BY <3>5, Zenon DEF OnReply
      <4>2. SameSession(d0, this)
        BY <3>2, <3>3, SessionFields DEF SameSession
      <4>. QED
        BY <3>2, <3>3, <3>5, <4>1, <4>2, SessionFields, SMTT(30) DEF Heard, this
    <3>6. CASE m.type = "kAnswer" /\ ~m.valid
      <4>. DEFINE e == [this EXCEPT !.told = m.body]
      <4>1. d = e
        BY <3>6, Zenon DEF OnReply, OnAnswer
      <4>2. e = Session(a1, a2, a3 \ {request}, a4, a5, m.body, a7, a8)
        BY <3>3, SMTT(60) DEF Session
      <4>. HIDE DEF e, d
      <4>3. Heard(d0, d, m)
        BY <3>2, <3>6, <4>1, <4>2, SessionFields DEF Heard
      <4>. QED
        BY <3>2, <4>1, <4>2, <4>3, SessionFields DEF d, this
    <3>7. CASE m.type = "kAnswer" /\ m.valid
      <4>. DEFINE sel == SelectSenders(this, m.body)
      <4>1. PICK v : sel = Session(a1, a2, a3 \ {request}, a4, spawned, a6, m.body.udp_port, v)
        <5>. DEFINE dscp == IF SenderDscp THEN NegotiatedDscp(this.negotiation.offer, m.body) ELSE none
                    v == IF dscp = none THEN this.dscp ELSE dscp
                    x == [this EXCEPT !.endpoint = m.body.udp_port]
                    y == [x EXCEPT !.dscp = v]
                    z == [y EXCEPT !.senders = spawned]
        <5>1. sel = z
          BY <3>3, <3>4 DEF SelectSenders, Session
        <5>. HIDE DEF v, spawned
        <5>2. x = Session(a1, a2, a3 \ {request}, a4, a5, a6, m.body.udp_port, a8)
          BY <3>3 DEF Session
        <5>. HIDE DEF x
        <5>3. y = Session(a1, a2, a3 \ {request}, a4, a5, a6, m.body.udp_port, v)
          BY <5>2 DEF Session
        <5>. HIDE DEF y
        <5>4. z = Session(a1, a2, a3 \ {request}, a4, spawned, a6, m.body.udp_port, v)
          BY <5>3, SMTT(60) DEF Session
        <5>. QED
          BY <5>1, <5>4, Zenon
      <4>. HIDE DEF sel, spawned
      <4>2. CASE sel.senders = NoSenders
        <5>. DEFINE x == [sel EXCEPT !.senders = this.senders]
                    y == [x EXCEPT !.told = "kNoStreamSelected"]
        <5>1. d = y
          BY <3>7, <4>2, Zenon DEF OnReply, OnAnswer, sel
        <5>2. x = Session(a1, a2, a3 \ {request}, a4, this.senders, a6, m.body.udp_port, v)
          BY <4>1, SMTT(60) DEF Session
        <5>. HIDE DEF x
        <5>3. y = Session(a1, a2, a3 \ {request}, a4, a5, "kNoStreamSelected", m.body.udp_port, v)
          BY <3>4, <5>2 DEF Session
        <5>. HIDE DEF y, d
        <5>4. Heard(d0, d, m)
          BY <3>2, <3>7, <5>1, <5>3, SessionFields, SMTT(60) DEF Heard
        <5>. QED
          BY <3>2, <5>1, <5>3, <5>4, SessionFields DEF d, this
      <4>3. CASE sel.senders # NoSenders
        <5>. DEFINE st == IF this.negotiation.offer.cast_mode = kMirroring
                            THEN "kStreaming" ELSE "kRemoting"
                    x == [sel EXCEPT !.state = st]
                    y == [x EXCEPT !.told = "OnNegotiated"]
        <5>1. d = y
          BY <3>7, <4>3, Zenon DEF OnReply, OnAnswer, sel
        <5>2. st = IF a2.offer.cast_mode = kMirroring THEN "kStreaming" ELSE "kRemoting"
          BY <3>4, Zenon
        <5>. HIDE DEF st
        <5>3. x = Session(a1, a2, a3 \ {request}, st, spawned, a6, m.body.udp_port, v)
          BY <4>1 DEF Session
        <5>. HIDE DEF x
        <5>4. y = Session(a1, a2, a3 \ {request}, st, spawned, "OnNegotiated", m.body.udp_port, v)
          BY <5>3, SMTT(60) DEF Session
        <5>. HIDE DEF y, d
        <5>5. Heard(d0, d, m)
          BY <3>2, <3>7, <5>1, <5>2, <5>4, SessionFields, SMTT(30) DEF Heard, spawned
        <5>. QED
          BY <3>2, <5>1, <5>4, <5>5, SessionFields DEF d, this
      <4>. QED
        BY <4>2, <4>3, Zenon
    <3>. QED
      BY <3>5, <3>6, <3>7, Zenon

  \* What a reply has.
  <2>MailFacts.
    ASSUME NEW m \in SenderMail, m.type # "kRpc"
    PROVE  m.type \in Replies /\ m.valid \in BOOLEAN /\ m.sequence_number \in Nat
    <3>. USE <2>MailFacts
    <3>1. CASE m \in [type : {"kAnswer"}, sequence_number : Nat, valid : {TRUE},
                      body : {ConstructAnswer(p) : p \in PendingOffers}]
      BY <3>1, Zenon DEF Replies
    <3>2. CASE m \in [type : {"kAnswer"}, sequence_number : Nat, valid : {FALSE}, body : Codes]
      BY <3>2, Zenon DEF Replies
    <3>3. CASE m \in [type : {"kCapabilitiesResponse"}, sequence_number : Nat, valid : BOOLEAN]
      BY <3>3, Zenon DEF Replies
    <3>. QED
      BY <3>1, <3>2, <3>3, Zenon DEF SenderMail

  <2>. SUFFICES ASSUME RequestsInv, SenderTyped, NEW s \in Senders, SenderOnMessage(s)
                PROVE  Dropping(s) \/ \E d : Hearing(s, d)
    BY Zenon
  <2>. DEFINE m == Head(toSender[s])
              d0 == session[s]
              awaited == {r \in d0.awaiting : m.type # "kRpc" /\ r.sequence = m.sequence_number}
  <2>1. /\ toSender[s] # <<>> /\ toSender' = [toSender EXCEPT ![s] = Tail(toSender[s])]
        /\ UNCHANGED toReceiver
    BY Zenon DEF SenderOnMessage, Consumed
  <2>2. toSender[s] \in Seq(SenderMail)
    BY Zenon DEF SenderTyped
  <2>3. m \in SenderMail /\ 1 \in DOMAIN toSender[s] /\ m = toSender[s][1]
    BY <2>1, <2>2, TailFacts, Zenon
  <2>4. CASE awaited = {}
    <3>1. UNCHANGED senderVars
      BY <2>4, Zenon DEF SenderOnMessage
    <3>2. SenderMoves(s, session[s], callbacks[s], toReceiver[s], Tail(toSender[s]))
      BY <2>1, <3>1, <1>Unchanging, Zenon DEF SenderMoves, senderVars
    <3>3. m.type = "kRpc" \/ \A r \in session[s].awaiting : r.sequence # m.sequence_number
      BY <2>4, Zenon
    <3>. QED
      BY <2>1, <3>2, <3>3, Zenon DEF Dropping
  <2>5. CASE awaited # {}
    <3>1. PICK request \in awaited :
            /\ session' = [session EXCEPT ![s] = OnReply(Unawaited(session[s], request), m)]
            /\ Settle(s, request, m.type)
      BY <2>5, Zenon DEF SenderOnMessage
    <3>. DEFINE d == OnReply(Unawaited(d0, request), m)
    <3>2. m.type \in Replies /\ m.valid \in BOOLEAN /\ m.type # "kRpc"
      BY <2>3, <3>1, <2>MailFacts, Zenon
    <3>3. Numbered(d0, callbacks[s], MaxSequence[s]) /\ IsSession(d0) /\ MaxSequence[s] \in Nat
      BY SendersAssumption, Zenon DEF RequestsInv, Numbered
    <3>4. /\ m.sequence_number \in 1 .. d0.sequence
          /\ Asked(d0, callbacks[s], m.sequence_number, m.type)
      BY <2>3, <3>2, ZenonT(60) DEF RequestsInv, Replied
    <3>5. m.sequence_number \in 1 .. MaxSequence[s]
      BY <3>3, <3>4, SMTT(60) DEF Numbered
    <3>6. request = Request(m.sequence_number, m.type)
      BY <3>1, <3>3, <3>4, <3>5, <1>AskedFacts
    <3>7. request.reply_type = m.type
      BY <3>6, ZenonT(60) DEF Request
    <3>8. /\ IsSession(d) /\ d.sequence = d0.sequence /\ d.negotiation = d0.negotiation
          /\ d.awaiting = d0.awaiting \ {request} /\ Heard(d0, d, m)
      BY <3>2, <3>3, <2>OnReplyFacts
    <3>. DEFINE run == [reply_type |-> request.reply_type, how |-> m.type]
    <3>9. callbacks' = [callbacks EXCEPT ![s] = [callbacks[s] EXCEPT ![request.sequence] =
                          Append(callbacks[s][request.sequence], run)]]
      BY <3>1, Zenon DEF Settle
    <3>. HIDE DEF d
    <3>10. Settling(s, d, request, m.type, Tail(toSender[s]))
      <4>1. session' = [session EXCEPT ![s] = d]
        BY <3>1, Zenon DEF d
      <4>2. toReceiver' = [toReceiver EXCEPT ![s] = toReceiver[s]]
        BY <2>1, <1>Unchanging, Zenon
      <4>. HIDE DEF run
      <4>3. SenderMoves(s, d, [callbacks[s] EXCEPT ![request.sequence] =
                                 Append(callbacks[s][request.sequence], run)],
                        toReceiver[s], Tail(toSender[s]))
        BY <2>1, <3>9, <4>1, <4>2, Zenon DEF SenderMoves
      <4>. QED
        BY <3>1, <3>7, <3>8, <4>3, Zenon DEF Settling, run
    <3>11. Hearing(s, d)
      BY <2>1, <3>2, <3>6, <3>8, <3>10, Zenon DEF Hearing
    <3>. QED
      BY <3>11, Zenon
  <2>. QED
    BY <2>4, <2>5, Zenon

\* A timeout settles a request that was awaited.
<1>ReplyIfTimedOutFacts.
  ASSUME RequestsInv, SenderTyped, NEW s \in Senders, ReplyIfTimedOut(s)
  PROVE  \E d, request : TimingOut(s, d, request)
  <2>. USE <1>ReplyIfTimedOutFacts
  <2>. DEFINE d0 == session[s]
  <2>1. PICK request \in d0.awaiting :
          /\ session' = [session EXCEPT ![s] = [Unawaited(d0, request) EXCEPT
                !.told = IF request.reply_type = "kAnswer" THEN "kAnswerTimeout" ELSE @]]
          /\ Settle(s, request, "timeout")
          /\ UNCHANGED channels
    BY Zenon DEF ReplyIfTimedOut
  <2>. DEFINE this == Unawaited(d0, request)
              d == [this EXCEPT !.told = IF request.reply_type = "kAnswer"
                                           THEN "kAnswerTimeout" ELSE this.told]
              run == [reply_type |-> request.reply_type, how |-> "timeout"]
  <2>2. PICK a1, a2, a3, a4, a5, a6, a7, a8 : d0 = Session(a1, a2, a3, a4, a5, a6, a7, a8)
    BY ZenonT(60) DEF RequestsInv, Numbered, IsSession, Session
  <2>3. /\ d0.sequence = a1 /\ d0.negotiation = a2 /\ d0.awaiting = a3
        /\ d0.state = a4 /\ d0.senders = a5 /\ d0.told = a6 /\ d0.endpoint = a7
    BY <2>2, SessionFields
  <2>4. this = Session(a1, a2, a3 \ {request}, a4, a5, a6, a7, a8)
    BY <2>2 DEF Session, Unawaited
  <2>5. session' = [session EXCEPT ![s] = d]
    BY <2>1, ZenonT(60)
  <2>. HIDE DEF this
  <2>6. this.told = a6
    BY <2>4, SessionFields
  <2>. DEFINE told == IF request.reply_type = "kAnswer" THEN "kAnswerTimeout" ELSE a6
  <2>7. d = Session(a1, a2, a3 \ {request}, a4, a5, told, a7, a8)
    BY <2>4, <2>6 DEF Session
  <2>8. callbacks' = [callbacks EXCEPT ![s] = [callbacks[s] EXCEPT ![request.sequence] =
                        Append(callbacks[s][request.sequence], run)]]
    BY <2>1, Zenon DEF Settle
  <2>. HIDE DEF d, run
  <2>9. /\ toReceiver' = [toReceiver EXCEPT ![s] = toReceiver[s]]
        /\ toSender' = [toSender EXCEPT ![s] = toSender[s]]
    BY <2>1, <1>Unchanging, Zenon DEF channels
  <2>10. SenderMoves(s, d, [callbacks[s] EXCEPT ![request.sequence] =
                              Append(callbacks[s][request.sequence], run)],
                     toReceiver[s], toSender[s])
    BY <2>5, <2>8, <2>9, ZenonT(60) DEF SenderMoves
  <2>. HIDE DEF told
  <2>11. /\ IsSession(d) /\ d.sequence = d0.sequence /\ d.negotiation = d0.negotiation
         /\ d.awaiting = d0.awaiting \ {request} /\ d.senders = d0.senders
         /\ d.endpoint = d0.endpoint /\ d.state = d0.state /\ d.told = told
    BY <2>3, <2>7, SessionFields
  <2>12. Settling(s, d, request, "timeout", toSender[s])
    BY <2>10, <2>11, Zenon DEF Settling, run
  <2>13. TimingOut(s, d, request)
    BY <2>3, <2>11, <2>12, Zenon DEF TimingOut, told
  <2>. QED
    BY <2>13, Zenon

\* A step of a sender keeps RequestsInv.
<1>SenderRequests.
  \A s \in Senders :
    /\ RequestsInv
    /\ SenderTyped
    /\ UNCHANGED receiverVars
    /\ (Patient(s) /\ StartNegotiating(s)) \/ SenderAct(s)
    => RequestsInv' /\ SenderTyped'
  \* SendRequest() with the next number.
  <2>RequestedNumbered.
    ASSUME NEW d0, NEW runs, NEW max \in Nat, Numbered(d0, runs, max), d0.sequence < max,
           NEW type \in Replies, NEW d, IsSession(d), d.sequence = d0.sequence + 1,
           d.awaiting = d0.awaiting \cup {Request(d0.sequence + 1, type)},
           type = "kAnswer" => \A n \in 1 .. d0.sequence : Request(n, "kAnswer") \notin d0.awaiting
    PROVE  /\ Numbered(d, runs, max) /\ Keeps(d0, runs, d, runs)
           /\ Asked(d, runs, d.sequence, type)
    <3>. USE <2>RequestedNumbered
    <3>. DEFINE n0 == d0.sequence + 1
                new == Request(n0, type)
    <3>1. d0.sequence \in 0 .. max /\ n0 \in 1 .. max /\ d.sequence \in 0 .. max
      BY DEF Numbered
    <3>2. new.sequence = n0 /\ new.reply_type = type /\ new \in Requests(d.sequence)
      BY <3>1 DEF Request, Requests
    <3>3. \A r \in d0.awaiting :
            r.sequence \in 1 .. d0.sequence /\ r.reply_type \in Replies /\ r \in Requests(d.sequence)
      BY <3>1 DEF Numbered, Requests
    <3>4. \A r \in d.awaiting : r \in d0.awaiting \/ r = new
      BY Zenon
    <3>5. runs \in [1 .. max -> {<<>>} \cup {<<r>> : r \in Runs}]
      BY Zenon DEF Numbered
    <3>6. \A n \in 1 .. max : n > d0.sequence => runs[n] = <<>>
      BY Zenon DEF Numbered
    <3>. HIDE DEF new
    <3>7. d.awaiting \subseteq Requests(d.sequence)
      BY <3>2, <3>3, <3>4, Zenon
    <3>8. \A q, r \in d.awaiting : q.sequence = r.sequence => q = r
      <4>1. \A q, r \in d0.awaiting : q.sequence = r.sequence => q = r
        BY Zenon DEF Numbered
      <4>2. \A r \in d0.awaiting : r.sequence # new.sequence
        BY <3>1, <3>2, <3>3
      <4>. QED
        BY <3>4, <4>1, <4>2, Zenon
    <3>9. \A n \in 1 .. max : n > d.sequence => runs[n] = <<>>
      BY <3>1, <3>6
    <3>10. \A r \in d.awaiting : runs[r.sequence] = <<>>
      <4>1. \A r \in d0.awaiting : runs[r.sequence] = <<>>
        BY Zenon DEF Numbered
      <4>2. runs[n0] = <<>>
        BY <3>1, <3>6
      <4>. QED
        BY <3>2, <3>4, <4>1, <4>2, Zenon
    <3>11. ASSUME NEW m \in 1 .. max, NEW n \in 1 .. max,
                  Request(m, "kAnswer") \in d.awaiting, Asked(d, runs, n, "kAnswer")
           PROVE  n <= m
      <4>1. Request(m, "kAnswer").sequence = m /\ Request(m, "kAnswer").reply_type = "kAnswer"
            /\ Request(n, "kAnswer").sequence = n /\ Request(n, "kAnswer").reply_type = "kAnswer"
        BY Zenon DEF Request
      <4>2. Asked(d0, runs, n, "kAnswer") \/ Request(n, "kAnswer") = new
        BY <3>4, <3>11, Zenon DEF Asked
      <4>3. n <= d.sequence
        <5>1. Asked(d0, runs, n, "kAnswer") => n <= d0.sequence
          BY <1>AskedFacts, Zenon
        <5>. QED
          BY <3>1, <3>2, <4>1, <4>2, <5>1
      <4>4. CASE Request(m, "kAnswer") = new
        BY <3>1, <3>2, <4>1, <4>3, <4>4, Zenon
      <4>5. CASE Request(m, "kAnswer") \in d0.awaiting
        <5>1. type # "kAnswer"
          BY <3>3, <4>1, <4>5, Zenon
        <5>2. Asked(d0, runs, n, "kAnswer")
          BY <3>2, <4>1, <4>2, <5>1, Zenon
        <5>. QED
          BY <4>5, <5>2, Zenon DEF Numbered
      <4>. QED
        BY <3>4, <3>11, <4>4, <4>5, Zenon
    <3>12. Numbered(d, runs, max)
      BY <3>1, <3>5, <3>7, <3>8, <3>9, <3>10, <3>11, ZenonT(60) DEF Numbered
    <3>13. Asked(d, runs, d.sequence, type) /\ Keeps(d0, runs, d, runs)
      BY <3>1 DEF Asked, Keeps, new
    <3>. QED
      BY <3>12, <3>13, ZenonT(60)

  \* A message without a reply takes a number, too.
  <2>UnaskedNumbered.
    ASSUME NEW d0, NEW runs, NEW max \in Nat, Numbered(d0, runs, max), d0.sequence < max,
           NEW d, IsSession(d), d.sequence = d0.sequence + 1, d.awaiting = d0.awaiting
    PROVE  Numbered(d, runs, max) /\ Keeps(d0, runs, d, runs)
    <3>. USE <2>UnaskedNumbered
    <3>1. d0.sequence \in 0 .. max /\ d.sequence \in 0 .. max
      BY DEF Numbered
    <3>2. d.awaiting \subseteq Requests(d.sequence)
      BY <3>1 DEF Numbered, Requests
    <3>3. \A n, type : Asked(d, runs, n, type) <=> Asked(d0, runs, n, type)
      BY Zenon DEF Asked
    <3>4. \A n \in 1 .. max : n > d.sequence => runs[n] = <<>>
      BY <3>1 DEF Numbered
    <3>. QED
      BY <3>1, <3>2, <3>3, <3>4 DEF Numbered, Keeps

  \* A callback runs.
  <2>SettledNumbered.
    ASSUME NEW d0, NEW runs0, NEW max \in Nat, Numbered(d0, runs0, max), NEW request \in d0.awaiting,
           NEW how \in {request.reply_type, "timeout"}, NEW d, IsSession(d),
           d.sequence = d0.sequence, d.awaiting = d0.awaiting \ {request},
           NEW runs, runs = [runs0 EXCEPT ![request.sequence] =
              Append(runs0[request.sequence], [reply_type |-> request.reply_type, how |-> how])]
    PROVE  Numbered(d, runs, max) /\ Keeps(d0, runs0, d, runs)
    <3>. USE <2>SettledNumbered
    <3>. DEFINE k == request.sequence
                run == [reply_type |-> request.reply_type, how |-> how]
    <3>1. d0.sequence \in 0 .. max /\ k \in 1 .. d0.sequence /\ request.reply_type \in Replies
      BY Zenon DEF Numbered, Requests
    <3>2. run \in Runs /\ run.reply_type = request.reply_type
      BY <3>1, Zenon DEF Runs
    <3>. HIDE DEF run
    <3>3. runs0[k] = <<>> /\ runs0 \in [1 .. max -> {<<>>} \cup {<<r>> : r \in Runs}]
      BY Zenon DEF Numbered
    <3>4. k \in 1 .. max /\ runs = [runs0 EXCEPT ![k] = <<run>>]
      BY <3>1, <3>3, <1>RunsFacts DEF run
    <3>5. runs[k] = <<run>> /\ \A n \in 1 .. max : n # k => runs[n] = runs0[n]
      BY <3>3, <3>4, Zenon
    <3>6. runs \in [1 .. max -> {<<>>} \cup {<<r>> : r \in Runs}]
      BY <3>2, <3>3, <3>4, SMTT(60)
    <3>7. \A n \in 1 .. max : n > d.sequence => runs[n] = <<>>
      BY <3>1, <3>5, SMTT(60) DEF Numbered
    <3>8. \A r \in d.awaiting : r.sequence # k /\ r.sequence \in 1 .. max
      BY <3>1 DEF Numbered, Requests
    <3>9. \A r \in d.awaiting : runs[r.sequence] = <<>>
      BY <3>5, <3>8, Zenon DEF Numbered
    <3>10. request = Request(k, request.reply_type)
      BY Zenon DEF Numbered, Requests, Request
    <3>11. \A n \in 1 .. max : \A type : Asked(d, runs, n, type) <=> Asked(d0, runs0, n, type)
      <4>. SUFFICES ASSUME NEW n \in 1 .. max, NEW type
                    PROVE  Asked(d, runs, n, type) <=> Asked(d0, runs0, n, type)
        BY Zenon
      <4>1. Request(n, type).sequence = n /\ Request(n, type).reply_type = type
        BY Zenon DEF Request
      <4>2. CASE n # k
        <5>1. Request(n, type) \in d.awaiting <=> Request(n, type) \in d0.awaiting
          BY <4>1, <4>2, Zenon
        <5>. QED
          BY <3>5, <4>2, <5>1, Zenon DEF Asked
      <4>3. CASE n = k
        <5>1. Asked(d, runs, n, type) <=> type = request.reply_type
          BY <3>2, <3>5, <3>8, <4>1, <4>3, <1>RunsFacts DEF Asked
        <5>2. Asked(d0, runs0, k, request.reply_type)
          BY <3>10, Zenon DEF Asked
        <5>3. \A other : Asked(d0, runs0, k, other) => other = request.reply_type
          BY <3>4, <5>2, <1>AskedFacts, Zenon
        <5>. QED
          BY <4>3, <5>1, <5>2, <5>3, ZenonT(60)
      <4>. QED
        BY <4>2, <4>3, Zenon
    <3>12. \A m, n \in 1 .. max :
            Request(m, "kAnswer") \in d.awaiting /\ Asked(d, runs, n, "kAnswer") => n <= m
      BY <3>11, Zenon DEF Numbered
    <3>13. d.awaiting \subseteq Requests(d.sequence)
           /\ \A q, r \in d.awaiting : q.sequence = r.sequence => q = r
      BY Zenon DEF Numbered
    <3>14. Numbered(d, runs, max)
      <4>. HIDE DEF run
      <4>. QED
        BY <3>1, <3>6, <3>7, <3>9, <3>12, <3>13, ZenonT(60) DEF Numbered
    <3>15. Keeps(d0, runs0, d, runs)
      <4>1. \A n \in 1 .. d0.sequence : n \in 1 .. max
        BY <3>1
      <4>2. d0.sequence <= d.sequence
        BY <3>1
      <4>. QED
        BY <3>11, <4>1, <4>2, ZenonT(60) DEF Keeps
    <3>. QED
      BY <3>14, <3>15, Zenon

  \* A session that forgets no request keeps its messages posted.
  <2>KeptPosted.
    ASSUME NEW d0, NEW runs0, NEW d, NEW runs, Keeps(d0, runs0, d, runs), d0.sequence \in Nat,
           d.sequence \in Nat, NEW q, Posted(q, d0, runs0)
    PROVE  Posted(q, d, runs)
    <3>. USE <2>KeptPosted
    <3>1. \A n \in 1 .. d0.sequence : n \in 1 .. d.sequence
      BY DEF Keeps
    <3>. QED
      BY <3>1, Zenon DEF Posted, Keeps

  \* A session that forgets no request keeps its replies asked for.
  <2>KeptReplied.
    ASSUME NEW d0, NEW runs0, NEW d, NEW runs, Keeps(d0, runs0, d, runs), d0.sequence \in Nat,
           d.sequence \in Nat, NEW q, Replied(q, d0, runs0)
    PROVE  Replied(q, d, runs)
    <3>. USE <2>KeptReplied
    <3>1. \A n \in 1 .. d0.sequence : n \in 1 .. d.sequence
      BY DEF Keeps
    <3>. QED
      BY <3>1, Zenon DEF Replied, Keeps

  \* SendOutboundMessage() numbers each message above the earlier ones.
  <2>PostedAppended.
    ASSUME NEW d0, NEW runs0, NEW d, NEW runs, Keeps(d0, runs0, d, runs), d0.sequence \in Nat,
           d.sequence = d0.sequence + 1, NEW q \in Seq(ReceiverMail), Posted(q, d0, runs0),
           NEW m \in ReceiverMail, m.sequence_number = d.sequence,
           m.type = "kOffer" => Asked(d, runs, d.sequence, "kAnswer"),
           m.type = "kGetCapabilities" => Asked(d, runs, d.sequence, "kCapabilitiesResponse")
    PROVE  Append(q, m) \in Seq(ReceiverMail) /\ Posted(Append(q, m), d, runs)
    <3>. USE <2>PostedAppended
    <3>. DEFINE r == Append(q, m)
    <3>1. /\ r \in Seq(ReceiverMail) /\ Len(q) \in Nat /\ DOMAIN q = 1 .. Len(q)
          /\ DOMAIN r = 1 .. Len(q) + 1 /\ \A i \in DOMAIN q : r[i] = q[i]
          /\ r[Len(q) + 1] = m
      BY AppendFacts, SMTT(30)
    <3>. HIDE DEF r
    <3>2. Posted(q, d, runs)
      BY <2>KeptPosted
    <3>3. \A i \in DOMAIN q : q[i].sequence_number < d.sequence
      BY SMTT(60) DEF Posted
    <3>4. \A i \in DOMAIN r : i \in DOMAIN q \/ i = Len(q) + 1
      BY <3>1
    <3>5. ASSUME NEW i \in DOMAIN r
          PROVE  /\ r[i].sequence_number \in 1 .. d.sequence
                 /\ r[i].type = "kOffer" => Asked(d, runs, r[i].sequence_number, "kAnswer")
                 /\ r[i].type = "kGetCapabilities" =>
                      Asked(d, runs, r[i].sequence_number, "kCapabilitiesResponse")
      <4>1. CASE i \in DOMAIN q
        BY <3>1, <3>2, <4>1, ZenonT(60) DEF Posted
      <4>2. CASE i = Len(q) + 1
        BY <3>1, <4>2
      <4>. QED
        BY <3>4, <4>1, <4>2, Zenon
    <3>6. ASSUME NEW i \in DOMAIN r, NEW j \in DOMAIN r, i < j
          PROVE  r[i].sequence_number < r[j].sequence_number
      <4>1. i \in DOMAIN q
        BY <3>1, <3>6
      <4>2. CASE j \in DOMAIN q
        BY <3>1, <3>2, <3>6, <4>1, <4>2, Zenon DEF Posted
      <4>3. CASE j = Len(q) + 1
        BY <3>1, <3>3, <4>1, <4>3, Zenon
      <4>. QED
        BY <3>4, <4>2, <4>3, ZenonT(60)
    <3>. QED
      BY <3>1, <3>5, <3>6, ZenonT(60) DEF Posted, r

  \* Taking the first reply leaves replies that were asked for.
  <2>RepliedTail.
    ASSUME NEW d, NEW runs, NEW q \in Seq(SenderMail), Replied(q, d, runs), q # <<>>
    PROVE  Replied(Tail(q), d, runs)
    <3>. USE <2>RepliedTail
    <3>1. \A i \in DOMAIN Tail(q) : i + 1 \in DOMAIN q /\ Tail(q)[i] = q[i + 1]
      BY TailFacts, Zenon
    <3>. QED
      BY <3>1, Zenon DEF Replied

  \* What a step of a sender has to establish to keep RequestsInv.
  <2>SenderStepRequests.
    ASSUME RequestsInv, SenderTyped, NEW s \in Senders, NEW d, NEW runs,
           NEW q \in Seq(ReceiverMail), NEW r, SenderMoves(s, d, runs, q, r), UNCHANGED pending,
           Numbered(d, runs, MaxSequence[s]), Keeps(session[s], callbacks[s], d, runs),
           Posted(q, d, runs), Replied(r, d, runs),
           pending # none /\ pending.sender = s =>
             \A i \in DOMAIN q : q[i].sequence_number > pending.sequence_number
    PROVE  RequestsInv'
    <3>. USE <2>SenderStepRequests
    <3>1. /\ session'[s] = d /\ callbacks'[s] = runs /\ toReceiver'[s] = q /\ toSender'[s] = r
          /\ \A t \in Senders \ {s} :
               /\ session'[t] = session[t] /\ callbacks'[t] = callbacks[t]
               /\ toReceiver'[t] = toReceiver[t] /\ toSender'[t] = toSender[t]
          /\ session' = [t \in Senders |-> session'[t]]
          /\ callbacks' = [t \in Senders |-> callbacks'[t]]
      BY <1>SenderMovesFacts, Zenon
    <3>2. toReceiver' \in [Senders -> Seq(ReceiverMail)]
      BY Zenon DEF RequestsInv, SenderMoves
    <3>3. ASSUME NEW t \in Senders
          PROVE  /\ Numbered(session'[t], callbacks'[t], MaxSequence[t])
                 /\ Posted(toReceiver'[t], session'[t], callbacks'[t])
                 /\ Replied(toSender'[t], session'[t], callbacks'[t])
      <4>1. CASE t = s
        BY <3>1, <4>1, Zenon
      <4>2. CASE t # s
        BY <3>1, <4>2, Zenon DEF RequestsInv
      <4>. QED
        BY <4>1, <4>2, Zenon
    <3>4. Waits'
      <4>. SUFFICES ASSUME pending # none
                    PROVE  LET t == pending.sender
                               n == pending.sequence_number
                           IN  /\ pending \in PendingOffers /\ pending.selected # NoReceivers
                               /\ n \in 1 .. session'[t].sequence
                               /\ Asked(session'[t], callbacks'[t], n, "kAnswer")
                               /\ \A i \in DOMAIN toReceiver'[t] :
                                    toReceiver'[t][i].sequence_number > n
        BY Zenon DEF Waits, PendingOffers, NoReceivers, Streams, ConfigCodecs, ConfigParameters, Configs
      <4>. DEFINE t == pending.sender
                  n == pending.sequence_number
      <4>1. /\ pending \in PendingOffers /\ pending.selected # NoReceivers
            /\ n \in 1 .. session[t].sequence
            /\ Asked(session[t], callbacks[t], n, "kAnswer")
            /\ \A i \in DOMAIN toReceiver[t] : toReceiver[t][i].sequence_number > n
        BY Zenon DEF RequestsInv, Waits
      <4>2. t \in Senders
        BY <4>1, Zenon DEF PendingOffers
      <4>. HIDE DEF t, n
      <4>3. CASE t # s
        BY <3>1, <4>1, <4>2, <4>3, Zenon DEF t, n
      <4>4. CASE t = s
        <5>1. n \in 1 .. d.sequence /\ Asked(d, runs, n, "kAnswer")
          <6>1. session[s].sequence \in Nat /\ d.sequence \in Nat
            BY SendersAssumption DEF RequestsInv, Numbered
          <6>. QED
            BY <4>1, <4>4, <6>1, SMTT(30) DEF Keeps
        <5>. QED
          BY <3>1, <4>1, <4>4, <5>1, ZenonT(60) DEF t, n
      <4>. QED
        BY <4>3, <4>4, Zenon
    <3>. QED
      BY <3>1, <3>2, <3>3, <3>4, ZenonT(60) DEF RequestsInv, ReceiverMail, Offers, Streams, ConfigCodecs,
                                    ConfigParameters, Configs, Numbered, Posted, Replied, Asked

  \* A message with the next number comes after the OFFER that waits.
  <2>WaitsAppended.
    ASSUME RequestsInv, SenderTyped, NEW s \in Senders, NEW m \in ReceiverMail,
           m.sequence_number = session[s].sequence + 1, pending # none, pending.sender = s
    PROVE  \A i \in DOMAIN Append(toReceiver[s], m) :
             Append(toReceiver[s], m)[i].sequence_number > pending.sequence_number
    <3>. USE <2>WaitsAppended
    <3>. DEFINE q == toReceiver[s]
                r == Append(q, m)
    <3>1. q \in Seq(ReceiverMail) /\ session[s].sequence \in Nat
          /\ pending.sequence_number \in 1 .. session[s].sequence
          /\ \A i \in DOMAIN q : q[i].sequence_number > pending.sequence_number
      BY SenderBasics, ZenonT(60)
    <3>2. /\ Len(q) \in Nat /\ DOMAIN q = 1 .. Len(q) /\ DOMAIN r = 1 .. Len(q) + 1
          /\ \A i \in DOMAIN q : r[i] = q[i] 
          /\ r[Len(q) + 1] = m
      BY <3>1, AppendFacts
    <3>. HIDE DEF r, q
    <3>3. \A i \in DOMAIN r : i \in DOMAIN q \/ i = Len(q) + 1
      BY <3>2
    <3>4. \A i \in DOMAIN r : r[i].sequence_number > pending.sequence_number
      BY <3>1, <3>2, <3>3
    <3>. QED
      BY <3>4, Zenon DEF r, q

  \* Sending an OFFER keeps RequestsInv: no other ANSWER is awaited.
  <2>OfferingRequests.
    ASSUME RequestsInv, SenderTyped, UNCHANGED pending, NEW s \in Senders, Patient(s),
           session[s].sequence < MaxSequence[s], NEW d, NEW c, Sensible(c), Offering(s, d, c)
    PROVE  RequestsInv' /\ SenderTyped'
    <3>. USE <2>OfferingRequests
    <3>. DEFINE d0 == session[s]
                m == [type |-> "kOffer", sequence_number |-> d0.sequence + 1, body |-> c.offer]
                q == Append(toReceiver[s], m)
    <3>1. /\ Numbered(d0, callbacks[s], MaxSequence[s]) /\ MaxSequence[s] \in Nat
          /\ d0.sequence \in Nat /\ toReceiver[s] \in Seq(ReceiverMail)
          /\ Posted(toReceiver[s], d0, callbacks[s]) /\ Replied(toSender[s], d0, callbacks[s])
      BY SenderBasics, ZenonT(60)
    <3>2. m \in ReceiverMail /\ m.type = "kOffer" /\ m.sequence_number = d0.sequence + 1
      BY <3>1 DEF ReceiverMail, Sensible
    <3>3. \A n \in 1 .. d0.sequence : Request(n, "kAnswer") \notin d0.awaiting
      BY Zenon DEF Patient, Request
    <3>4. /\ IsSession(d) /\ d.sequence = d0.sequence + 1
          /\ d.awaiting = d0.awaiting \cup {Request(d0.sequence + 1, "kAnswer")}
          /\ SenderMoves(s, d, callbacks[s], q, toSender[s])
      BY Zenon DEF Offering
    <3>5. /\ Numbered(d, callbacks[s], MaxSequence[s]) /\ Keeps(d0, callbacks[s], d, callbacks[s])
          /\ Asked(d, callbacks[s], d.sequence, "kAnswer")
      <4>1. "kAnswer" \in Replies
        BY Zenon DEF Replies
      <4>. QED
        BY <3>1, <3>3, <3>4, <4>1, <2>RequestedNumbered, ZenonT(60)
    <3>. HIDE DEF m
    <3>6. q \in Seq(ReceiverMail) /\ Posted(q, d, callbacks[s])
      BY <3>1, <3>2, <3>4, <3>5, <2>PostedAppended, ZenonT(60)
    <3>7. Replied(toSender[s], d, callbacks[s])
      <4>1. d.sequence \in Nat
        BY ONLY <3>1, <3>4
      <4>. QED
        BY <3>1, <3>5, <4>1, <2>KeptReplied, ZenonT(60)
    <3>8. pending # none /\ pending.sender = s =>
            \A i \in DOMAIN q : q[i].sequence_number > pending.sequence_number
      BY <3>2, <2>WaitsAppended, Zenon
    <3>. HIDE DEF q
    <3>9. RequestsInv'
      BY <3>4, <3>5, <3>6, <3>7, <3>8, <2>SenderStepRequests, ZenonT(60)
    <3>10. toSender' \in [Senders -> Seq(SenderMail)]
      BY <3>4, <1>Unchanging, Zenon DEF SenderMoves, SenderTyped
    <3>. QED
      BY <3>9, <3>10, TypedNext, Zenon

  \* Sending another message keeps RequestsInv.
  <2>PostingRequests.
    ASSUME RequestsInv, SenderTyped, UNCHANGED pending, NEW s \in Senders,
           session[s].sequence < MaxSequence[s], NEW d,
           NEW type \in {"kGetCapabilities", "kRpc"}, Posting(s, d, type)
    PROVE  RequestsInv' /\ SenderTyped'
    <3>. USE <2>PostingRequests
    <3>. DEFINE d0 == session[s]
                m == [type |-> type, sequence_number |-> d0.sequence + 1]
                q == Append(toReceiver[s], m)
    <3>1. /\ Numbered(d0, callbacks[s], MaxSequence[s]) /\ MaxSequence[s] \in Nat
          /\ d0.sequence \in Nat /\ toReceiver[s] \in Seq(ReceiverMail)
          /\ Posted(toReceiver[s], d0, callbacks[s]) /\ Replied(toSender[s], d0, callbacks[s])
      BY SenderBasics, ZenonT(60)
    <3>2. m \in ReceiverMail /\ m.type = type /\ m.sequence_number = d0.sequence + 1
      BY <3>1 DEF ReceiverMail
    <3>3. /\ IsSession(d) /\ d.sequence = d0.sequence + 1
          /\ SenderMoves(s, d, callbacks[s], q, toSender[s])
      BY Zenon DEF Posting, SameSession
    <3>4. /\ Numbered(d, callbacks[s], MaxSequence[s]) /\ Keeps(d0, callbacks[s], d, callbacks[s])
          /\ type = "kGetCapabilities" =>
               Asked(d, callbacks[s], d.sequence, "kCapabilitiesResponse")
      <4>1. CASE /\ type = "kGetCapabilities"
                 /\ d.awaiting = d0.awaiting
                      \cup {Request(d0.sequence + 1, "kCapabilitiesResponse")}
        <5>1. "kCapabilitiesResponse" \in Replies /\ "kCapabilitiesResponse" # "kAnswer"
          BY Zenon DEF Replies
        <5>. QED
          BY <3>1, <3>3, <4>1, <5>1, <2>RequestedNumbered, ZenonT(60)
      <4>2. CASE type = "kRpc" /\ d.awaiting = d0.awaiting
        <5>1. "kRpc" # "kGetCapabilities"
          BY Zenon
        <5>. QED
          BY <3>1, <3>3, <4>2, <5>1, <2>UnaskedNumbered, ZenonT(60)
      <4>. QED
        BY <4>1, <4>2, Zenon DEF Posting
    <3>5. type # "kOffer"
      BY Zenon
    <3>. HIDE DEF m
    <3>6. q \in Seq(ReceiverMail) /\ Posted(q, d, callbacks[s])
      BY <3>1, <3>2, <3>3, <3>4, <3>5, <2>PostedAppended, ZenonT(60)
    <3>7. Replied(toSender[s], d, callbacks[s])
      BY <3>1, <3>3, <3>4, <2>KeptReplied, SMTT(30)
    <3>8. pending # none /\ pending.sender = s =>
            \A i \in DOMAIN q : q[i].sequence_number > pending.sequence_number
      BY <3>2, <2>WaitsAppended, Zenon
    <3>. HIDE DEF q
    <3>9. RequestsInv'
      BY <3>3, <3>4, <3>6, <3>7, <3>8, <2>SenderStepRequests, ZenonT(60)
    <3>10. toSender' \in [Senders -> Seq(SenderMail)]
      BY <3>3, <1>Unchanging, Zenon DEF SenderMoves, SenderTyped
    <3>. QED
      BY <3>9, <3>10, TypedNext, ZenonT(60)

  \* Dropping a message, such as a reply after its timeout, keeps RequestsInv.
  <2>DroppingRequests.
    ASSUME RequestsInv, SenderTyped, UNCHANGED pending, NEW s \in Senders, Dropping(s)
    PROVE  RequestsInv' /\ SenderTyped'
    <3>. USE <2>DroppingRequests
    <3>. DEFINE d0 == session[s]
    <3>1. /\ Numbered(d0, callbacks[s], MaxSequence[s]) /\ d0.sequence \in Nat
          /\ toReceiver[s] \in Seq(ReceiverMail) /\ toSender[s] \in Seq(SenderMail)
          /\ Posted(toReceiver[s], d0, callbacks[s]) /\ Replied(toSender[s], d0, callbacks[s])
          /\ pending # none /\ pending.sender = s =>
               \A i \in DOMAIN toReceiver[s] :
                 toReceiver[s][i].sequence_number > pending.sequence_number
      BY SenderBasics, Zenon
    <3>2. /\ toSender[s] # <<>>
          /\ SenderMoves(s, d0, callbacks[s], toReceiver[s], Tail(toSender[s]))
      BY ZenonT(60) DEF Dropping
    <3>3. Keeps(d0, callbacks[s], d0, callbacks[s])
      BY <3>1, SMTT(30) DEF Keeps
    <3>4. Replied(Tail(toSender[s]), d0, callbacks[s]) /\ Tail(toSender[s]) \in Seq(SenderMail)
      BY <3>1, <3>2, <2>RepliedTail, TailFacts, ZenonT(60)
    <3>5. RequestsInv'
      BY <3>1, <3>2, <3>3, <3>4, <2>SenderStepRequests, ZenonT(60)
    <3>6. toSender' \in [Senders -> Seq(SenderMail)]
      BY <3>2, <3>4, Zenon DEF SenderTyped, SenderMoves
    <3>. QED
      BY <3>5, <3>6, TypedNext, Zenon

  \* Running the callback of an awaited request keeps RequestsInv.
  <2>SettlingRequests.
    ASSUME RequestsInv, SenderTyped, UNCHANGED pending, NEW s \in Senders, NEW d, NEW request,
           NEW how, NEW r, Settling(s, d, request, how, r),
           r = toSender[s] \/ (toSender[s] # <<>> /\ r = Tail(toSender[s]))
    PROVE  RequestsInv' /\ SenderTyped'
    <3>. USE <2>SettlingRequests
    <3>. DEFINE d0 == session[s]
                runs == [callbacks[s] EXCEPT ![request.sequence] =
                           Append(callbacks[s][request.sequence],
                                  [reply_type |-> request.reply_type, how |-> how])]
    <3>1. /\ Numbered(d0, callbacks[s], MaxSequence[s]) /\ MaxSequence[s] \in Nat
          /\ d0.sequence \in Nat
          /\ toReceiver[s] \in Seq(ReceiverMail) /\ toSender[s] \in Seq(SenderMail)
          /\ Posted(toReceiver[s], d0, callbacks[s]) /\ Replied(toSender[s], d0, callbacks[s])
          /\ pending # none /\ pending.sender = s =>
               \A i \in DOMAIN toReceiver[s] :
                 toReceiver[s][i].sequence_number > pending.sequence_number
      BY SenderBasics, Zenon
    <3>2. /\ request \in d0.awaiting /\ how \in {request.reply_type, "timeout"}
          /\ IsSession(d) /\ d.sequence = d0.sequence /\ d.awaiting = d0.awaiting \ {request}
          /\ SenderMoves(s, d, runs, toReceiver[s], r)
      BY Zenon DEF Settling
    <3>3. Numbered(d, runs, MaxSequence[s]) /\ Keeps(d0, callbacks[s], d, runs)
      BY <3>1, <3>2, <2>SettledNumbered, ZenonT(60)
    <3>. HIDE DEF runs
    <3>4. Replied(r, d0, callbacks[s]) /\ r \in Seq(SenderMail)
      <4>1. CASE r = toSender[s]
        BY <3>1, <4>1, Zenon
      <4>2. CASE toSender[s] # <<>> /\ r = Tail(toSender[s])
        BY <3>1, <4>2, <2>RepliedTail, TailFacts, Zenon
      <4>. QED
        BY <4>1, <4>2, Zenon
    <3>5. Replied(r, d, runs) /\ Posted(toReceiver[s], d, runs)
      BY <3>1, <3>2, <3>3, <3>4, <2>KeptReplied, <2>KeptPosted, ZenonT(60)
    <3>6. RequestsInv'
      BY <3>1, <3>2, <3>3, <3>5, <2>SenderStepRequests, ZenonT(60)
    <3>7. toSender' \in [Senders -> Seq(SenderMail)]
      BY <3>2, <3>4, Zenon DEF SenderTyped, SenderMoves
    <3>. QED
      BY <3>6, <3>7, TypedNext, Zenon

  <2>. SUFFICES ASSUME RequestsInv, SenderTyped, UNCHANGED receiverVars, NEW s \in Senders,
                       (Patient(s) /\ StartNegotiating(s)) \/ SenderAct(s)
                PROVE  RequestsInv' /\ SenderTyped'
    BY Zenon
  <2>0. UNCHANGED pending
    BY Zenon DEF receiverVars
  <2>1. CASE Patient(s) /\ StartNegotiating(s)
    BY <2>0, <2>1, <1>NegotiateFacts, <2>OfferingRequests, Zenon
  <2>2. CASE RequestCapabilities(s) \/ SenderSendRpc(s)
    BY <2>0, <2>2, <1>PostingFacts, <2>PostingRequests, Zenon
  <2>3. CASE SenderOnMessage(s)
    <3>1. CASE Dropping(s)
      BY <2>0, <3>1, <2>DroppingRequests, Zenon
    <3>2. ASSUME NEW d, Hearing(s, d)
          PROVE  RequestsInv' /\ SenderTyped'
      BY <2>0, <3>2, <2>SettlingRequests, Zenon DEF Hearing
    <3>. QED
      BY <2>3, <3>1, <3>2, <1>SenderOnMessageFacts, Zenon
  <2>4. CASE ReplyIfTimedOut(s)
    <3>1. ASSUME NEW d, NEW request, TimingOut(s, d, request)
          PROVE  RequestsInv' /\ SenderTyped'
      BY <2>0, <3>1, <2>SettlingRequests, Zenon DEF TimingOut
    <3>. QED
      BY <2>4, <3>1, <1>ReplyIfTimedOutFacts, Zenon
  <2>. QED
    BY <2>1, <2>2, <2>3, <2>4, Zenon DEF SenderAct

\* A step of a sender keeps CountsInv.
<1>SenderCounts.
  \A s \in Senders :
    /\ RequestsInv
    /\ SenderTyped
    /\ CountsInv
    /\ UNCHANGED receiverVars
    /\ StartNegotiating(s) \/ SenderAct(s)
    => CountsInv'
  \* A step of the sender s in which at most one request is made, and its OFFER, if
  \* it is one, is under way.
  <2>SenderStepCounts.
    ASSUME RequestsInv, SenderTyped, CountsInv, UNCHANGED receiverVars, NEW s \in Senders,
           NEW d, NEW runs, NEW q, NEW r, SenderMoves(s, d, runs, q, r),
           d.sequence \in {session[s].sequence, session[s].sequence + 1},
           d.sequence <= MaxSequence[s],
           \A n \in 1 .. session[s].sequence :
             Asked(d, runs, n, "kAnswer") => Asked(session[s], callbacks[s], n, "kAnswer"),
           \A n \in 1 .. session[s].sequence :
             (\E i \in DOMAIN q : q[i].type = "kOffer" /\ q[i].sequence_number = n)
                <=> OfferUnderWay(s, n),
           d.sequence = session[s].sequence + 1 /\ Asked(d, runs, d.sequence, "kAnswer") =>
             \E i \in DOMAIN q : q[i].type = "kOffer" /\ q[i].sequence_number = d.sequence
    PROVE  CountsInv'
    <3>. USE <2>SenderStepCounts
    <3>1. /\ session'[s] = d /\ callbacks'[s] = runs /\ toReceiver'[s] = q
          /\ \A t \in Senders \ {s} :
               /\ session'[t] = session[t] /\ callbacks'[t] = callbacks[t]
               /\ toReceiver'[t] = toReceiver[t]
      BY <1>SenderMovesFacts
    <3>2. /\ answers' = answers /\ pending' = pending /\ alive' = alive
      BY Zenon DEF receiverVars
    <3>3. AnswersTyped(answers)
      BY CountsInvFacts, Zenon
    <3>4. session[s].sequence \in Nat /\ MaxSequence[s] \in Nat
      BY SenderBasics, Zenon
    <3>5. AnswersTyped(answers)'
      <4>1. \A t \in Senders : \A n \in 1 .. MaxSequence[t] :
              n > session'[t].sequence => answers[t][n] = 0
        BY <3>1, <3>3, <3>4, SMTT(60) DEF AnswersTyped
      <4>. QED
        BY <3>2, <3>3, <4>1, ZenonT(60) DEF AnswersTyped
    <3>6. ASSUME NEW t \in Senders, NEW n \in OffersOf(t)'
          PROVE  (IF alive THEN Count(t, n) = 1 ELSE Count(t, n) <= 1)'
      <4>1. n \in 1 .. session'[t].sequence /\ Asked(session'[t], callbacks'[t], n, "kAnswer")
        BY <3>6, Zenon DEF OffersOf, Asked, Request
      <4>2. CASE t # s \/ n <= session[s].sequence
        <5>1. n \in OffersOf(t)
          <6>1. CASE t # s
            BY <3>1, <4>1, <6>1, OffersOfFacts, Zenon
          <6>2. CASE t = s /\ n <= session[s].sequence
            <7>1. n \in 1 .. session[s].sequence /\ Asked(d, runs, n, "kAnswer")
              BY <3>1, <3>4, <4>1, <6>2, SMTT(30)
            <7>. QED
              BY <6>2, <7>1, OffersOfFacts, ZenonT(60)
          <6>. QED
            BY <4>2, <6>1, <6>2, Zenon
        <5>2. OfferUnderWay(t, n)' <=> OfferUnderWay(t, n)
          <6>1. CASE t # s
            BY <3>1, <6>1 DEF OfferUnderWay
          <6>2. CASE t = s /\ n <= session[s].sequence
            <7>1. n \in 1 .. session[s].sequence
              BY <3>4, <5>1, <6>2, OffersOfFacts, Zenon
            <7>. QED
              BY <3>1, <6>2, <7>1, Zenon DEF OfferUnderWay
          <6>. QED
            BY <4>2, <6>1, <6>2, ZenonT(60)
        <5>3. IsPending(t, n)' <=> IsPending(t, n)
          BY <3>2, Zenon DEF IsPending
        <5>4. Count(t, n)' = Count(t, n)
          BY <3>2, <5>2, <5>3, Zenon DEF Count, Ones
        <5>5. IF alive THEN Count(t, n) = 1 ELSE Count(t, n) <= 1
          BY <5>1, CountsInvFacts, ZenonT(60)
        <5>. QED
          BY <3>2, <5>4, <5>5, Zenon
      <4>3. CASE t = s /\ n > session[s].sequence
        <5>1. n = session[s].sequence + 1 /\ d.sequence = n
          BY <3>1, <3>4, <4>1, <4>3
        <5>2. OfferUnderWay(s, n)'
          BY <3>1, <4>1, <4>3, <5>1, ZenonT(60) DEF OfferUnderWay
        <5>3. answers'[s][n] = 0
          BY <3>2, <3>3, <3>4, <4>3, <5>1, SMTT(60) DEF AnswersTyped
        <5>4. ~IsPending(s, n)
          <6>1. SUFFICES ASSUME pending # none, pending.sender = s, pending.sequence_number = n
                         PROVE  FALSE
            BY Zenon DEF IsPending
          <6>2. n \in 1 .. session[s].sequence
            BY <6>1, SenderBasics, Zenon
          <6>. QED
            BY <3>4, <5>1, <6>2
        <5>5. ~IsPending(s, n)'
          BY <3>2, <5>4, ZenonT(60) DEF IsPending
        <5>. HIDE DEF OfferUnderWay, IsPending
        <5>6. Count(s, n)' = 1
          BY <5>2, <5>3, <5>5, SMTT(60) DEF Count, Ones
        <5>. QED
          BY <4>3, <5>6, SMTT(60)
      <4>4. n \in Int
        BY <4>1
      <4>. QED
        BY <3>4, <4>2, <4>3, <4>4
    <3>. QED
      BY <3>5, <3>6, CountsInvNext, ZenonT(60)

  \* A message that is posted is none of the earlier OFFERs.
  <2>AppendedUnderWay.
    ASSUME RequestsInv, SenderTyped, NEW s \in Senders, NEW m \in ReceiverMail,
           m.sequence_number = session[s].sequence + 1
    PROVE  LET q == Append(toReceiver[s], m)
           IN  /\ \A n \in 1 .. session[s].sequence :
                    (\E i \in DOMAIN q : q[i].type = "kOffer" /\ q[i].sequence_number = n)
                       <=> OfferUnderWay(s, n)
               /\ \E i \in DOMAIN q : q[i] = m
    <3>. USE <2>AppendedUnderWay
    <3>. DEFINE q0 == toReceiver[s]
                q == Append(q0, m)
    <3>1. q0 \in Seq(ReceiverMail) /\ session[s].sequence \in Nat
      BY SenderBasics, Zenon
    <3>2. /\ Len(q0) \in Nat /\ DOMAIN q0 = 1 .. Len(q0) /\ DOMAIN q = 1 .. Len(q0) + 1
          /\ \A i \in DOMAIN q0 : q[i] = q0[i]
          /\ q[Len(q0) + 1] = m
      BY <3>1, AppendFacts
    <3>. HIDE DEF q
    <3>3. /\ \A i \in DOMAIN q : i \in DOMAIN q0 \/ i = Len(q0) + 1
          /\ \A i \in DOMAIN q0 : i \in DOMAIN q
          /\ Len(q0) + 1 \in DOMAIN q
      BY <3>2
    <3>4. ASSUME NEW n \in 1 .. session[s].sequence
          PROVE  (\E i \in DOMAIN q : q[i].type = "kOffer" /\ q[i].sequence_number = n)
                     <=> (\E i \in DOMAIN q0 : q0[i].type = "kOffer" /\ q0[i].sequence_number = n)
      <4>1. m.sequence_number # n
        BY <3>1, SMTT(60)
      <4>. HIDE DEF q0
      <4>. QED
        BY <3>2, <3>3, <4>1, Zenon
    <3>. QED
      BY <3>2, <3>3, <3>4, Zenon DEF OfferUnderWay, q

  \* A new OFFER is under way, and no ANSWER to it was sent.
  <2>OfferingCounts.
    ASSUME RequestsInv, SenderTyped, CountsInv, UNCHANGED receiverVars, NEW s \in Senders,
           session[s].sequence < MaxSequence[s], NEW d, NEW c, Sensible(c), Offering(s, d, c)
    PROVE  CountsInv'
    <3>. USE <2>OfferingCounts
    <3>. DEFINE d0 == session[s]
                m == [type |-> "kOffer", sequence_number |-> d0.sequence + 1, body |-> c.offer]
                q == Append(toReceiver[s], m)
    <3>1. d0.sequence \in Nat /\ MaxSequence[s] \in Nat
      BY SenderBasics, ZenonT(60)
    <3>2. m \in ReceiverMail /\ m.type = "kOffer" /\ m.sequence_number = d0.sequence + 1
      BY <3>1 DEF ReceiverMail, Sensible
    <3>3. /\ d.sequence = d0.sequence + 1
          /\ d.awaiting = d0.awaiting \cup {Request(d0.sequence + 1, "kAnswer")}
          /\ SenderMoves(s, d, callbacks[s], q, toSender[s])
      BY Zenon DEF Offering
    <3>. HIDE DEF m
    <3>4. /\ \A n \in 1 .. d0.sequence :
               (\E i \in DOMAIN q : q[i].type = "kOffer" /\ q[i].sequence_number = n)
                  <=> OfferUnderWay(s, n)
          /\ \E i \in DOMAIN q : q[i] = m
      BY <3>2, <2>AppendedUnderWay, Zenon
    <3>5. ASSUME NEW n \in 1 .. d0.sequence, Asked(d, callbacks[s], n, "kAnswer")
          PROVE  Asked(d0, callbacks[s], n, "kAnswer")
      <4>1. n # d0.sequence + 1
        BY <3>1
      <4>2. Request(n, "kAnswer") # Request(d0.sequence + 1, "kAnswer")
        BY <4>1, Zenon DEF Request
      <4>. QED
        BY <3>3, <3>5, <4>2, ZenonT(60) DEF Asked
    <3>6. \E i \in DOMAIN q : q[i].type = "kOffer" /\ q[i].sequence_number = d.sequence
      BY <3>2, <3>3, <3>4, ZenonT(60)
    <3>. HIDE DEF q
    <3>. QED
      BY <3>1, <3>3, <3>4, <3>5, <3>6, <2>SenderStepCounts, SMTT(30)

  \* Another message is no OFFER.
  <2>PostingCounts.
    ASSUME RequestsInv, SenderTyped, CountsInv, UNCHANGED receiverVars, NEW s \in Senders,
           session[s].sequence < MaxSequence[s], NEW d,
           NEW type \in {"kGetCapabilities", "kRpc"}, Posting(s, d, type)
    PROVE  CountsInv'
    <3>. USE <2>PostingCounts
    <3>. DEFINE d0 == session[s]
                m == [type |-> type, sequence_number |-> d0.sequence + 1]
                q == Append(toReceiver[s], m)
    <3>1. d0.sequence \in Nat /\ MaxSequence[s] \in Nat
          /\ Numbered(d0, callbacks[s], MaxSequence[s])
      BY SenderBasics, ZenonT(60)
    <3>2. m \in ReceiverMail /\ m.sequence_number = d0.sequence + 1
      BY <3>1 DEF ReceiverMail
    <3>3. /\ d.sequence = d0.sequence + 1
          /\ SenderMoves(s, d, callbacks[s], q, toSender[s])
          /\ d.awaiting \subseteq d0.awaiting \cup {Request(d0.sequence + 1, "kCapabilitiesResponse")}
      BY Zenon DEF Posting
    <3>. HIDE DEF m
    <3>4. /\ \A n \in 1 .. d0.sequence :
               (\E i \in DOMAIN q : q[i].type = "kOffer" /\ q[i].sequence_number = n)
                  <=> OfferUnderWay(s, n)
      BY <3>2, <2>AppendedUnderWay, ZenonT(60)
    <3>5. ASSUME NEW n, Asked(d, callbacks[s], n, "kAnswer")
          PROVE  Asked(d0, callbacks[s], n, "kAnswer")
      <4>1. Request(n, "kAnswer") # Request(d0.sequence + 1, "kCapabilitiesResponse")
        BY ZenonT(60) DEF Request
      <4>. QED
        BY <3>3, <3>5, <4>1, Zenon DEF Asked
    <3>6. ~Asked(d, callbacks[s], d.sequence, "kAnswer")
      <4>1. SUFFICES ASSUME Asked(d0, callbacks[s], d0.sequence + 1, "kAnswer")
                     PROVE  FALSE
        BY <3>3, <3>5, ZenonT(60)
      <4>2. d0.sequence + 1 \in 1 .. MaxSequence[s]
        BY <3>1, SMTT(60)
      <4>3. d0.sequence + 1 <= d0.sequence
        BY <3>1, <4>1, <4>2, <1>AskedFacts
      <4>. QED
        BY <3>1, <4>3
    <3>. HIDE DEF q
    <3>. QED
      BY <3>1, <3>3, <3>4, <3>5, <3>6, <2>SenderStepCounts, SMTT(30)

  \* Dropping a message changes no count.
  <2>DroppingCounts.
    ASSUME RequestsInv, SenderTyped, CountsInv, UNCHANGED receiverVars, NEW s \in Senders,
           Dropping(s)
    PROVE  CountsInv'
    <3>. USE <2>DroppingCounts
    <3>1. /\ session[s].sequence \in Nat /\ MaxSequence[s] \in Nat
          /\ session[s].sequence <= MaxSequence[s]
      BY SenderBasics, Zenon
    <3>2. SenderMoves(s, session[s], callbacks[s], toReceiver[s], Tail(toSender[s]))
      BY Zenon DEF Dropping
    <3>3. session[s].sequence # session[s].sequence + 1
      BY <3>1
    <3>4. \A n : (\E i \in DOMAIN toReceiver[s] :
                    toReceiver[s][i].type = "kOffer" /\ toReceiver[s][i].sequence_number = n)
                  <=> OfferUnderWay(s, n)
      BY Zenon DEF OfferUnderWay
    <3>. QED
      BY <3>1, <3>2, <3>3, <3>4, <2>SenderStepCounts, ZenonT(60)

  \* Running a callback changes no count: an OFFER stays one of those made.
  <2>SettlingCounts.
    ASSUME RequestsInv, SenderTyped, CountsInv, UNCHANGED receiverVars, NEW s \in Senders,
           NEW d, NEW request, NEW how, NEW r, Settling(s, d, request, how, r)
    PROVE  CountsInv'
    <3>. USE <2>SettlingCounts
    <3>. DEFINE d0 == session[s]
                run == [reply_type |-> request.reply_type, how |-> how]
                runs == [callbacks[s] EXCEPT ![request.sequence] =
                           Append(callbacks[s][request.sequence], run)]
    <3>1. /\ session[s].sequence \in Nat /\ MaxSequence[s] \in Nat
          /\ session[s].sequence <= MaxSequence[s]
          /\ Numbered(d0, callbacks[s], MaxSequence[s])
      BY SenderBasics, Zenon
    <3>2. /\ request \in d0.awaiting /\ d.sequence = d0.sequence
          /\ d.awaiting = d0.awaiting \ {request}
          /\ SenderMoves(s, d, runs, toReceiver[s], r)
      BY ZenonT(60) DEF Settling
    <3>3. session[s].sequence # session[s].sequence + 1
      BY <3>1
    <3>4. \A n : (\E i \in DOMAIN toReceiver[s] :
                    toReceiver[s][i].type = "kOffer" /\ toReceiver[s][i].sequence_number = n)
                  <=> OfferUnderWay(s, n)
      BY Zenon DEF OfferUnderWay
    <3>5. /\ callbacks[s][request.sequence] = <<>> /\ request \in Requests(d0.sequence)
          /\ DOMAIN callbacks[s] = 1 .. MaxSequence[s]
      BY <3>1, <3>2, Zenon DEF Numbered
    <3>6. request.sequence \in 1 .. d0.sequence
          /\ request = Request(request.sequence, request.reply_type)
      BY <3>5, Zenon DEF Requests, Request
    <3>7. ASSUME NEW n \in 1 .. d0.sequence, Asked(d, runs, n, "kAnswer")
          PROVE  Asked(d0, callbacks[s], n, "kAnswer")
      <4>1. n \in DOMAIN callbacks[s] /\ request.sequence \in DOMAIN callbacks[s]
        BY <3>1, <3>5, <3>6
      <4>2. CASE Request(n, "kAnswer") \in d.awaiting
        BY <3>2, <4>2, Zenon DEF Asked
      <4>3. CASE n # request.sequence /\ Request(n, "kAnswer") \notin d.awaiting
        <5>1. runs[n] = callbacks[s][n]
          BY <4>1, <4>3, Zenon
        <5>. HIDE DEF runs
        <5>. QED
          BY <3>7, <4>3, <5>1, Zenon DEF Asked
      <4>4. CASE n = request.sequence /\ Request(n, "kAnswer") \notin d.awaiting
        <5>1. runs[n] = <<run>>
          BY <3>5, <4>1, <4>4, <1>RunsFacts, ZenonT(60)
        <5>. HIDE DEF runs, run
        <5>2. run.reply_type = "kAnswer"
          BY <3>7, <4>4, <5>1, <1>RunsFacts DEF Asked
        <5>3. request.reply_type = "kAnswer"
          BY <5>2, Zenon DEF run
        <5>. QED
          BY <3>2, <3>6, <4>4, <5>3, ZenonT(60) DEF Asked
      <4>. QED
        BY <4>2, <4>3, <4>4, ZenonT(60)
    <3>. HIDE DEF runs
    <3>. QED
      BY <3>1, <3>2, <3>3, <3>4, <3>7, <2>SenderStepCounts, ZenonT(60)

  <2>. SUFFICES ASSUME RequestsInv, SenderTyped, CountsInv, UNCHANGED receiverVars, NEW s \in Senders,
                       StartNegotiating(s) \/ SenderAct(s)
                PROVE  CountsInv'
    BY Zenon
  <2>1. CASE StartNegotiating(s)
    BY <2>1, <1>NegotiateFacts, <2>OfferingCounts, Zenon
  <2>2. CASE RequestCapabilities(s) \/ SenderSendRpc(s)
    BY <2>2, <1>PostingFacts, <2>PostingCounts, Zenon
  <2>3. CASE SenderOnMessage(s)
    BY <2>3, <1>SenderOnMessageFacts, <2>DroppingCounts, <2>SettlingCounts, Zenon DEF Hearing
  <2>4. CASE ReplyIfTimedOut(s)
    BY <2>4, <1>ReplyIfTimedOutFacts, <2>SettlingCounts, Zenon DEF TimingOut
  <2>. QED
    BY <2>1, <2>2, <2>3, <2>4, Zenon DEF SenderAct

\* A step of a sender keeps AnswersInv.
<1>SenderAnswers.
  \A s \in Senders :
    /\ RequestsInv
    /\ SenderTyped
    /\ AnswersInv
    /\ UNCHANGED receiverVars
    /\ (Patient(s) /\ StartNegotiating(s)) \/ SenderAct(s)
    => AnswersInv'
  \* A step of the sender s that leaves the others alone.
  <2>SenderStepAnswers.
    ASSUME RequestsInv, SenderTyped, AnswersInv, UNCHANGED receiverVars, NEW s \in Senders,
           NEW d, NEW runs, NEW q, NEW r, SenderMoves(s, d, runs, q, r),
           CurrentOf(s, d, pending, q, r), NegotiatedOf(d), LinedUp(d)
    PROVE  AnswersInv'
    <3>. USE <2>SenderStepAnswers
    <3>1. /\ session'[s] = d /\ toReceiver'[s] = q /\ toSender'[s] = r
          /\ \A t \in Senders \ {s} :
               /\ session'[t] = session[t]
               /\ toReceiver'[t] = toReceiver[t] /\ toSender'[t] = toSender[t]
      BY <1>SenderMovesFacts
    <3>2. pending' = pending
      BY Zenon DEF receiverVars
    <3>3. ASSUME NEW t \in Senders
          PROVE  Current(t)' /\ Negotiated(t)' /\ LinedUp(session[t])'
      <4>1. /\ CurrentOf(t, session[t], pending, toReceiver[t], toSender[t])
            /\ NegotiatedOf(session[t]) /\ LinedUp(session[t])
        BY AnswersInvFacts, CurrentFacts, NegotiatedFacts, Zenon
      <4>2. /\ CurrentOf(t, session'[t], pending', toReceiver'[t], toSender'[t])
            /\ NegotiatedOf(session'[t]) /\ LinedUp(session'[t])
        <5>1. CASE t = s
          BY <3>1, <3>2, <5>1, Zenon
        <5>2. CASE t # s
          BY <3>1, <3>2, <4>1, <5>2, Zenon
        <5>. QED
          BY <5>1, <5>2, Zenon
      <4>3. LinedUp(session[t])'
        BY <4>2, Zenon DEF LinedUp, Kinds
      <4>. QED
        BY <4>2, <4>3, CurrentNext, NegotiatedNext, Zenon
    <3>. QED
      BY <3>3, AnswersInvNext, ZenonT(60)

  \* No new OFFER and no new reply.
  <2>CurrentKept.
    ASSUME NEW s, NEW d0, NEW q0, NEW r0, CurrentOf(s, d0, pending, q0, r0), NEW d, NEW q, NEW r,
           \A n \in 1 .. d.sequence :
             Request(n, "kAnswer") \in d.awaiting =>
               n \in 1 .. d0.sequence /\ Request(n, "kAnswer") \in d0.awaiting,
           d.negotiation = d0.negotiation,
           \A i \in DOMAIN q : q[i].type = "kOffer" => \E j \in DOMAIN q0 : q[i] = q0[j],
           \A i \in DOMAIN r : \E j \in DOMAIN r0 : r[i] = r0[j]
    PROVE  CurrentOf(s, d, pending, q, r)
    <3>. USE <2>CurrentKept
    <3>1. ASSUME NEW n \in 1 .. d.sequence, Request(n, "kAnswer") \in d.awaiting
          PROVE  /\ Sensible(d.negotiation)
                 /\ \A i \in DOMAIN q :
                      q[i].type = "kOffer" /\ q[i].sequence_number = n
                        => q[i].body = d.negotiation.offer
                 /\ pending # none /\ pending.sender = s /\ pending.sequence_number = n
                      => pending = Properties(s, n, d.negotiation.offer)
                 /\ \A i \in DOMAIN r :
                      r[i].type = "kAnswer" /\ r[i].valid /\ r[i].sequence_number = n
                        => r[i].body = ConstructAnswer(Properties(s, n, d.negotiation.offer))
      <4>1. n \in 1 .. d0.sequence /\ Request(n, "kAnswer") \in d0.awaiting
        BY <3>1, Zenon
      <4>2. /\ Sensible(d0.negotiation)
            /\ \A i \in DOMAIN q0 :
                 q0[i].type = "kOffer" /\ q0[i].sequence_number = n
                   => q0[i].body = d0.negotiation.offer
            /\ pending # none /\ pending.sender = s /\ pending.sequence_number = n
                 => pending = Properties(s, n, d0.negotiation.offer)
            /\ \A i \in DOMAIN r0 :
                 r0[i].type = "kAnswer" /\ r0[i].valid /\ r0[i].sequence_number = n
                   => r0[i].body = ConstructAnswer(Properties(s, n, d0.negotiation.offer))
        BY <4>1, Zenon DEF CurrentOf
      <4>3. \A i \in DOMAIN q :
              q[i].type = "kOffer" /\ q[i].sequence_number = n => q[i].body = d.negotiation.offer
        BY <4>2, ZenonT(60)
      <4>4. \A i \in DOMAIN r :
              r[i].type = "kAnswer" /\ r[i].valid /\ r[i].sequence_number = n
                => r[i].body = ConstructAnswer(Properties(s, n, d.negotiation.offer))
        BY <4>2
      <4>. QED
        BY <4>2, <4>3, <4>4, Zenon
    <3>. QED
      BY <3>1, Zenon DEF CurrentOf

  \* A new OFFER is that of the current negotiation; the Senders are gone.
  <2>OfferingAnswers.
    ASSUME RequestsInv, SenderTyped, AnswersInv, UNCHANGED receiverVars, NEW s \in Senders,
           Patient(s), NEW d, NEW c, Sensible(c), Offering(s, d, c)
    PROVE  AnswersInv'
    <3>. USE <2>OfferingAnswers
    <3>. DEFINE d0 == session[s]
                q0 == toReceiver[s]
                r == toSender[s]
                k == d0.sequence + 1
                m == [type |-> "kOffer", sequence_number |-> k, body |-> c.offer]
                q == Append(q0, m)
    <3>1. /\ d0.sequence \in Nat /\ q0 \in Seq(ReceiverMail)
          /\ Posted(q0, d0, callbacks[s]) /\ Replied(r, d0, callbacks[s])
          /\ pending # none /\ pending.sender = s => pending.sequence_number \in 1 .. d0.sequence
      BY SenderBasics, Zenon
    <3>2. /\ d.sequence = k /\ d.awaiting = d0.awaiting \cup {Request(k, "kAnswer")}
          /\ d.negotiation = c /\ d.told = none /\ \A kind \in Kinds : d.senders[kind] = none
          /\ SenderMoves(s, d, callbacks[s], q, r)
      BY ZenonT(60) DEF Offering
    <3>3. m \in ReceiverMail /\ m.sequence_number = k /\ m.body = c.offer
      BY <3>1 DEF ReceiverMail, Sensible
    <3>4. NegotiatedOf(d) /\ LinedUp(d)
      BY <3>2, NoneAssumption, ZenonT(60) DEF NegotiatedOf, LinedUp
    <3>5. /\ Len(q0) \in Nat /\ DOMAIN q0 = 1 .. Len(q0) /\ DOMAIN q = 1 .. Len(q0) + 1
          /\ \A i \in DOMAIN q0 : q[i] = q0[i]
          /\ q[Len(q0) + 1] = m
      BY <3>1, <3>3, AppendFacts, SMTT(30)
    <3>. HIDE DEF q, m
    <3>6. \A i \in DOMAIN q : q[i].sequence_number = k => q[i] = m
      <4>1. \A i \in DOMAIN q0 : q0[i].sequence_number \in 1 .. d0.sequence
        BY <3>1, ZenonT(60) DEF Posted
      <4>2. ASSUME NEW i \in DOMAIN q, q[i].sequence_number = k
            PROVE  q[i] = m
        <5>1. i \notin DOMAIN q0
          BY <3>1, <3>5, <4>1, <4>2, SMTT(30)
        <5>. QED
          BY <3>5, <5>1, SMTT(60)
      <4>. QED
        BY <4>2, Zenon
    <3>7. \A i \in DOMAIN r : r[i].type = "kAnswer" => r[i].sequence_number # k
      BY <3>1, SMTT(60) DEF Replied
    <3>8. ASSUME NEW n \in 1 .. d.sequence, Request(n, "kAnswer") \in d.awaiting
          PROVE  n = k
      <4>1. Request(n, "kAnswer") \notin d0.awaiting
        BY ZenonT(60) DEF Patient, Request
      <4>. QED
        BY <3>2, <3>8, <4>1 DEF Request
    <3>9. pending # none /\ pending.sender = s => pending.sequence_number # k
      BY <3>1
    <3>. HIDE DEF k
    <3>10. CurrentOf(s, d, pending, q, r)
      BY <3>2, <3>3, <3>6, <3>7, <3>8, <3>9, ZenonT(60) DEF CurrentOf
    <3>. QED
      BY <3>2, <3>4, <3>10, <2>SenderStepAnswers, ZenonT(60)

  \* Another message keeps AnswersInv.
  <2>PostingAnswers.
    ASSUME RequestsInv, SenderTyped, AnswersInv, UNCHANGED receiverVars, NEW s \in Senders,
           NEW d, NEW type \in {"kGetCapabilities", "kRpc"}, Posting(s, d, type)
    PROVE  AnswersInv'
    <3>. USE <2>PostingAnswers
    <3>. DEFINE d0 == session[s]
                q0 == toReceiver[s]
                r == toSender[s]
                k == d0.sequence + 1
                m == [type |-> type, sequence_number |-> k]
                q == Append(q0, m)
    <3>1. /\ d0.sequence \in Nat /\ q0 \in Seq(ReceiverMail)
          /\ Numbered(d0, callbacks[s], MaxSequence[s])
      BY SenderBasics, Zenon
    <3>2. /\ SameSession(d0, d) /\ d.sequence = k
          /\ d.awaiting \subseteq d0.awaiting \cup {Request(k, "kCapabilitiesResponse")}
          /\ SenderMoves(s, d, callbacks[s], q, r)
      BY ZenonT(60) DEF Posting
    <3>3. m \in ReceiverMail /\ m.type # "kOffer"
      BY <3>1, SMTT(60) DEF ReceiverMail
    <3>4. /\ Len(q0) \in Nat /\ DOMAIN q0 = 1 .. Len(q0) /\ DOMAIN q = 1 .. Len(q0) + 1
          /\ \A i \in DOMAIN q0 : q[i] = q0[i]
          /\ q[Len(q0) + 1] = m
      BY <3>1, <3>3, AppendFacts
    <3>5. CurrentOf(s, d0, pending, q0, r) /\ NegotiatedOf(d0) /\ LinedUp(d0)
      BY AnswersOf, Zenon
    <3>. HIDE DEF q, m
    <3>6. \A i \in DOMAIN q : q[i].type = "kOffer" => \E j \in DOMAIN q0 : q[i] = q0[j]
      <4>1. \A i \in DOMAIN q : i \in DOMAIN q0 \/ i = Len(q0) + 1
        BY <3>4
      <4>. QED
        BY <3>3, <3>4, <4>1, ZenonT(60)
    <3>7. ASSUME NEW n, Request(n, "kAnswer") \in d.awaiting
          PROVE  Request(n, "kAnswer") \in d0.awaiting /\ n \in 1 .. d0.sequence
      <4>1. Request(n, "kAnswer") # Request(k, "kCapabilitiesResponse")
        BY Zenon DEF Request
      <4>2. Request(n, "kAnswer") \in d0.awaiting
        BY <3>2, <3>7, <4>1, Zenon
      <4>3. Request(n, "kAnswer") \in Requests(d0.sequence)
        BY <3>1, <4>2, Zenon DEF Numbered
      <4>. QED
        BY <4>2, <4>3, Zenon DEF Request, Requests
    <3>8. d.negotiation = d0.negotiation
      BY <3>2, Zenon DEF SameSession
    <3>9. CurrentOf(s, d, pending, q, r)
      BY <3>5, <3>6, <3>7, <3>8, <2>CurrentKept, ZenonT(60)
    <3>10. NegotiatedOf(d) /\ LinedUp(d)
      BY <3>2, <3>5, <3>7, Zenon DEF NegotiatedOf, LinedUp, SameSession
    <3>. QED
      BY <3>2, <3>9, <3>10, <2>SenderStepAnswers, Zenon

  \* Dropping a message keeps AnswersInv.
  <2>DroppingAnswers.
    ASSUME RequestsInv, SenderTyped, AnswersInv, UNCHANGED receiverVars, NEW s \in Senders,
           Dropping(s)
    PROVE  AnswersInv'
    <3>. USE <2>DroppingAnswers
    <3>. DEFINE d0 == session[s]
                q0 == toReceiver[s]
                r0 == toSender[s]
    <3>1. /\ r0 # <<>> /\ r0 \in Seq(SenderMail)
          /\ SenderMoves(s, d0, callbacks[s], q0, Tail(r0))
      BY SenderBasics, Zenon DEF Dropping
    <3>2. CurrentOf(s, d0, pending, q0, r0) /\ NegotiatedOf(d0) /\ LinedUp(d0)
      BY AnswersOf, Zenon
    <3>3. \A i \in DOMAIN Tail(r0) : \E j \in DOMAIN r0 : Tail(r0)[i] = r0[j]
      BY <3>1, TailWithin, Zenon
    <3>. HIDE DEF d0, q0, r0
    <3>4. CurrentOf(s, d0, pending, q0, Tail(r0))
      BY <3>2, <3>3, <2>CurrentKept, ZenonT(60)
    <3>. QED
      BY <3>1, <3>2, <3>4, <2>SenderStepAnswers, ZenonT(60)

  \* An ANSWER that is awaited is the only one.
  <2>OneAnswerAwaited.
    ASSUME NEW d0, NEW runs, NEW max \in Nat, Numbered(d0, runs, max),
           NEW k, NEW n, Request(k, "kAnswer") \in d0.awaiting, Request(n, "kAnswer") \in d0.awaiting
    PROVE  k = n
    <3>. USE <2>OneAnswerAwaited
    <3>1. d0.sequence \in Nat /\ d0.sequence <= max /\ d0.awaiting \subseteq Requests(d0.sequence)
      BY DEF Numbered
    <3>2. k \in 1 .. d0.sequence /\ n \in 1 .. d0.sequence
      BY <3>1, Zenon DEF Requests, Request
    <3>3. k \in 1 .. max /\ n \in 1 .. max
      BY <3>1, <3>2
    <3>4. Asked(d0, runs, k, "kAnswer") /\ Asked(d0, runs, n, "kAnswer")
      BY Zenon DEF Asked
    <3>5. k <= n /\ n <= k
      BY <3>3, <3>4, Zenon DEF Numbered
    <3>. QED
      BY <3>2, <3>5, SMTT(60)

  \* Running a callback keeps AnswersInv if what it leaves is lined up.
  <2>SettlingAnswers.
    ASSUME RequestsInv, SenderTyped, AnswersInv, UNCHANGED receiverVars, NEW s \in Senders,
           NEW d, NEW request, NEW how, NEW r, Settling(s, d, request, how, r),
           r = toSender[s] \/ (toSender[s] # <<>> /\ r = Tail(toSender[s])),
           NegotiatedOf(d), LinedUp(d)
    PROVE  AnswersInv'
    <3>. USE <2>SettlingAnswers
    <3>. DEFINE d0 == session[s]
                q0 == toReceiver[s]
                r0 == toSender[s]
    <3>1. r0 \in Seq(SenderMail)
      BY SenderBasics, Zenon
    <3>2. CurrentOf(s, d0, pending, q0, r0)
      BY AnswersOf, Zenon
    <3>3. \A i \in DOMAIN r : \E j \in DOMAIN r0 : r[i] = r0[j]
      <4>1. CASE r = r0
        BY <4>1, Zenon
      <4>2. CASE r0 # <<>> /\ r = Tail(r0)
        BY <3>1, <4>2, TailWithin, Zenon
      <4>. QED
        BY <4>1, <4>2, Zenon
    <3>4. /\ d.sequence = d0.sequence /\ d.awaiting \subseteq d0.awaiting
          /\ d.negotiation = d0.negotiation
          /\ \E runs : SenderMoves(s, d, runs, q0, r)
      BY Zenon DEF Settling
    <3>. HIDE DEF d0, q0, r0
    <3>5. CurrentOf(s, d, pending, q0, r)
      BY <3>2, <3>3, <3>4, <2>CurrentKept, ZenonT(60)
    <3>. QED
      BY <3>4, <3>5, <2>SenderStepAnswers, ZenonT(60)

  \* A timeout leaves no Senders, and a negotiation that is over.
  <2>TimingOutAnswers.
    ASSUME RequestsInv, SenderTyped, AnswersInv, UNCHANGED receiverVars, NEW s \in Senders,
           NEW d, NEW request, TimingOut(s, d, request)
    PROVE  AnswersInv'
    <3>. USE <2>TimingOutAnswers
    <3>. DEFINE d0 == session[s]
    <3>1. NegotiatedOf(d0) /\ LinedUp(d0)
      BY AnswersOf, Zenon
    <3>2. /\ Settling(s, d, request, "timeout", toSender[s])
          /\ d.sequence = d0.sequence /\ d.awaiting \subseteq d0.awaiting
          /\ d.negotiation = d0.negotiation /\ d.senders = d0.senders
          /\ d.endpoint = d0.endpoint /\ d.state = d0.state
          /\ d.told \in {d0.told, "kAnswerTimeout"}
      BY Zenon DEF TimingOut, Settling
    <3>3. LinedUp(d)
      BY <3>1, <3>2, Zenon DEF LinedUp
    <3>4. NegotiatedOf(d)
      <4>1. CASE d.told = d0.told
        BY <3>1, <3>2, <4>1, Zenon DEF NegotiatedOf
      <4>2. CASE d.told = "kAnswerTimeout"
        BY <4>2, Zenon DEF NegotiatedOf
      <4>. QED
        BY <3>2, <4>1, <4>2, Zenon
    <3>. QED
      BY <3>2, <3>3, <3>4, <2>SettlingAnswers, Zenon

  \* The ANSWER that OnAnswer() is called with is that to the current negotiation.
  <2>HearingAnswers.
    ASSUME RequestsInv, SenderTyped, AnswersInv, UNCHANGED receiverVars, NEW s \in Senders,
           NEW d, Hearing(s, d)
    PROVE  AnswersInv'
    <3>. USE <2>HearingAnswers
    <3>. DEFINE d0 == session[s]
                r0 == toSender[s]
                m == Head(r0)
                n == m.sequence_number
                c == d0.negotiation
                request == Request(n, m.type)
    <3>1. /\ r0 \in Seq(SenderMail) /\ Numbered(d0, callbacks[s], MaxSequence[s])
          /\ MaxSequence[s] \in Nat /\ d0.sequence \in Nat
      BY SenderBasics, Zenon
    <3>2. CurrentOf(s, d0, pending, toReceiver[s], r0) /\ NegotiatedOf(d0) /\ LinedUp(d0)
      BY AnswersOf, Zenon
    <3>3. /\ r0 # <<>> /\ m.type \in Replies
          /\ Settling(s, d, request, m.type, Tail(r0)) /\ Heard(d0, d, m)
      BY Zenon DEF Hearing
    <3>4. /\ request \in d0.awaiting /\ d.sequence = d0.sequence
          /\ d.awaiting = d0.awaiting \ {request} /\ d.negotiation = c
      BY <3>3, Zenon DEF Settling
    <3>5. 1 \in DOMAIN r0 /\ m = r0[1] /\ m \in SenderMail
      BY <3>1, <3>3, TailFacts, Zenon
    <3>6. n \in 1 .. d0.sequence
      BY <3>1, <3>4, Zenon DEF Numbered, Requests, Request
    <3>7. NegotiatedOf(d) /\ LinedUp(d)
      <4>1. CASE m.type # "kAnswer" /\ SameSession(d0, d)
        BY <3>2, <3>4, <4>1, Zenon DEF NegotiatedOf, LinedUp, SameSession
      <4>2. CASE m.type = "kAnswer" /\ ~m.valid /\ d.told = m.body /\ d.senders = d0.senders
        <5>1. m.body \in Codes
          BY <3>5, <4>2, Zenon DEF SenderMail
        <5>2. d.told # "OnNegotiated"
          BY <4>2, <5>1, Zenon DEF Codes
        <5>. QED
          BY <3>2, <4>2, <5>2, Zenon DEF NegotiatedOf, LinedUp
      <4>3. CASE d.told = "kNoStreamSelected" /\ d.senders = d0.senders
        BY <3>2, <4>3, Zenon DEF NegotiatedOf, LinedUp
      <4>4. CASE /\ m.type = "kAnswer" /\ m.valid
                 /\ d.told = "OnNegotiated" /\ d.endpoint = m.body.udp_port
                 /\ d.senders = [kind \in Kinds |-> SpawnSender(c, kind, m.body)]
                 /\ d.state = IF c.offer.cast_mode = kMirroring THEN "kStreaming" ELSE "kRemoting"
        <5>. DEFINE p == Properties(s, n, c.offer)
        <5>1. Sensible(c) /\ m.body = ConstructAnswer(p)
          <6>1. m.sequence_number = n
            BY Zenon
          <6>2. Request(n, "kAnswer") \in d0.awaiting
            BY <3>4, <4>4, Zenon
          <6>. HIDE DEF m, n, c, d0, request
          <6>. QED
            BY <3>2, <3>5, <3>6, <4>4, <6>1, <6>2, ZenonT(30) DEF CurrentOf, c
        <5>2. p.selected = SelectStreams(c.offer)
          BY Zenon DEF Properties, PendingOffer
        <5>3. m.body.udp_port = "port"
          BY <5>1, AnswerPort, Zenon
        <5>4. c.offer \in Offers /\ c.offer.cast_mode \in {kMirroring, kRemoting}
          BY <5>1, ZenonT(60) DEF Sensible, Offers
        <5>. HIDE DEF p, m, c
        <5>5. \A kind \in Kinds :
                Fits(d.senders[kind], SelectStreams(c.offer)[kind], c.offer.cast_mode)
          BY <4>4, <5>1, <5>2, SpawnSenderFits
        <5>6. \A k \in 1 .. d.sequence : Request(k, "kAnswer") \notin d.awaiting
          BY <3>1, <3>4, <4>4, <2>OneAnswerAwaited, ZenonT(60)
        <5>7. NegotiatedOf(d)
          BY <3>4, <4>4, <5>3, <5>4, <5>5, <5>6, ZenonT(60) DEF NegotiatedOf
        <5>8. LinedUp(d)
          BY <5>5, Zenon DEF LinedUp, Fits
        <5>. QED
          BY <5>7, <5>8, Zenon
      <4>. QED
        BY <3>3, <4>1, <4>2, <4>3, <4>4, ZenonT(60) DEF Heard
    <3>. HIDE DEF m
    <3>. QED
      BY <3>3, <3>7, <2>SettlingAnswers, Zenon

  <2>. SUFFICES ASSUME RequestsInv, SenderTyped, AnswersInv, UNCHANGED receiverVars, NEW s \in Senders,
                       (Patient(s) /\ StartNegotiating(s)) \/ SenderAct(s)
                PROVE  AnswersInv'
    BY Zenon
  <2>1. CASE Patient(s) /\ StartNegotiating(s)
    BY <2>1, <1>NegotiateFacts, <2>OfferingAnswers, Zenon
  <2>2. CASE RequestCapabilities(s) \/ SenderSendRpc(s)
    BY <2>2, <1>PostingFacts, <2>PostingAnswers, Zenon
  <2>3. CASE SenderOnMessage(s)
    BY <2>3, <1>SenderOnMessageFacts, <2>DroppingAnswers, <2>HearingAnswers, Zenon
  <2>4. CASE ReplyIfTimedOut(s)
    BY <2>4, <1>ReplyIfTimedOutFacts, <2>TimingOutAnswers, ZenonT(60)
  <2>. QED
    BY <2>1, <2>2, <2>3, <2>4, Zenon DEF SenderAct

\* A step of a sender keeps AgreedInv.
<1>SenderAgreed.
  \A s \in Senders :
    /\ RequestsInv
    /\ SenderTyped
    /\ AgreedInv
    /\ UNCHANGED receiverVars
    /\ (Patient(s) /\ StartNegotiating(s)) \/ SenderAct(s)
    => AgreedInv'
  \* A step of the sender s: the others are left alone.
  <2>SenderStepAgreed.
    ASSUME RequestsInv, SenderTyped, AgreedInv, UNCHANGED receiverVars, NEW s \in Senders,
           NEW d, NEW runs, NEW q, NEW r, SenderMoves(s, d, runs, q, r),
           AnsweredOf(d, r) =>
             /\ Answered(s) /\ d.negotiation = session[s].negotiation
             /\ \A i \in DOMAIN q : q[i].type = "kOffer" => \E j \in DOMAIN toReceiver[s] :
                                                              q[i] = toReceiver[s][j]
    PROVE  AgreedInv'
    <3>. USE <2>SenderStepAgreed
    <3>1. /\ session'[s] = d /\ toReceiver'[s] = q /\ toSender'[s] = r
          /\ \A t \in Senders \ {s} :
               /\ session'[t] = session[t]
               /\ toReceiver'[t] = toReceiver[t] /\ toSender'[t] = toSender[t]
      BY <1>SenderMovesFacts
    <3>2. /\ pending' = pending /\ alive' = alive /\ negotiated' = negotiated
          /\ accepted' = accepted /\ receivers' = receivers
      BY Zenon DEF receiverVars
    <3>3. ASSUME NEW t \in Senders
          PROVE  Agreed(t)'
      <4>1. Answered(t) =>
              /\ \A i \in DOMAIN toReceiver[t] : toReceiver[t][i].type # "kOffer"
              /\ pending = none \/ pending.sender # t
              /\ alive /\ negotiated = t =>
                   ReceiversOf(t, session[t].negotiation, accepted.mode, receivers)
        BY AgreedFacts, Zenon DEF AgreedInv
      <4>2. Answered(t)' =>
              /\ Answered(t) /\ session'[t].negotiation = session[t].negotiation
              /\ \A i \in DOMAIN toReceiver'[t] :
                   toReceiver'[t][i].type = "kOffer" =>
                     \E j \in DOMAIN toReceiver[t] : toReceiver'[t][i] = toReceiver[t][j]
        <5>1. CASE t = s
          BY <3>1, <5>1, AnsweredFacts, Zenon
        <5>2. CASE t # s
          BY <3>1, <5>2, AnsweredFacts, Zenon
        <5>. QED
          BY <5>1, <5>2, Zenon
      <4>3. Answered(t)' => \A i \in DOMAIN toReceiver'[t] : toReceiver'[t][i].type # "kOffer"
        BY <4>1, <4>2, Zenon
      <4>4. Answered(t)' =>
              /\ \A i \in DOMAIN toReceiver'[t] : toReceiver'[t][i].type # "kOffer"
              /\ pending' = none \/ pending'.sender # t
              /\ alive' /\ negotiated' = t =>
                   ReceiversOf(t, session'[t].negotiation, accepted'.mode, receivers')
        BY <3>2, <4>1, <4>2, <4>3, ZenonT(60)
      <4>. QED
        BY <4>4, AgreedNext, Zenon
    <3>. QED
      BY <3>3, ZenonT(60) DEF AgreedInv

  \* A sender that makes an OFFER is told nothing yet and awaits no older ANSWER.
  <2>OfferingAgreed.
    ASSUME RequestsInv, SenderTyped, AgreedInv, UNCHANGED receiverVars, NEW s \in Senders,
           Patient(s), NEW d, NEW c, Offering(s, d, c)
    PROVE  AgreedInv'
    <3>. USE <2>OfferingAgreed
    <3>. DEFINE d0 == session[s]
                r == toSender[s]
                k == d0.sequence + 1
    <3>1. d0.sequence \in Nat /\ Replied(r, d0, callbacks[s])
      BY SenderBasics, Zenon
    <3>2. /\ d.awaiting = d0.awaiting \cup {Request(k, "kAnswer")} /\ d.told = none
          /\ \E q : SenderMoves(s, d, callbacks[s], q, r)
      BY Zenon DEF Offering
    <3>3. \A n : Request(n, "kAnswer") \in d.awaiting => n = k
      <4>1. \A n : Request(n, "kAnswer") \notin d0.awaiting
        BY ZenonT(60) DEF Patient, Request
      <4>. QED
        BY <3>2, <4>1, Zenon DEF Request
    <3>4. \A i \in DOMAIN r : r[i].type = "kAnswer" => r[i].sequence_number # k
      BY <3>1, SMTT(30) DEF Replied
    <3>5. ~AnsweredOf(d, r)
      BY <3>2, <3>3, <3>4, NoneAssumption, Zenon DEF AnsweredOf
    <3>. QED
      BY <3>2, <3>5, <2>SenderStepAgreed, Zenon

  \* Another message keeps AgreedInv.
  <2>PostingAgreed.
    ASSUME RequestsInv, SenderTyped, AgreedInv, UNCHANGED receiverVars, NEW s \in Senders,
           NEW d, NEW type \in {"kGetCapabilities", "kRpc"}, Posting(s, d, type)
    PROVE  AgreedInv'
    <3>. USE <2>PostingAgreed
    <3>. DEFINE d0 == session[s]
                q0 == toReceiver[s]
                r == toSender[s]
                k == d0.sequence + 1
                m == [type |-> type, sequence_number |-> k]
                q == Append(q0, m)
    <3>1. d0.sequence \in Nat /\ q0 \in Seq(ReceiverMail)
      BY SenderBasics, Zenon
    <3>2. /\ SameSession(d0, d)
          /\ d.awaiting \subseteq d0.awaiting \cup {Request(k, "kCapabilitiesResponse")}
          /\ SenderMoves(s, d, callbacks[s], q, r)
      BY Zenon DEF Posting
    <3>3. m \in ReceiverMail /\ m.type # "kOffer"
      BY <3>1, SMTT(30) DEF ReceiverMail
    <3>4. /\ Len(q0) \in Nat /\ DOMAIN q0 = 1 .. Len(q0) /\ DOMAIN q = 1 .. Len(q0) + 1
          /\ \A i \in DOMAIN q0 : q[i] = q0[i]
          /\ q[Len(q0) + 1] = m
      BY <3>1, <3>3, AppendFacts, SMTT(30)
    <3>. HIDE DEF q, m
    <3>5. \A i \in DOMAIN q : q[i].type = "kOffer" => \E j \in DOMAIN q0 : q[i] = q0[j]
      <4>1. \A i \in DOMAIN q : i \in DOMAIN q0 \/ i = Len(q0) + 1
        BY <3>4
      <4>. QED
        BY <3>3, <3>4, <4>1
    <3>6. \A n : Request(n, "kAnswer") \in d.awaiting => Request(n, "kAnswer") \in d0.awaiting
      <4>1. \A n : Request(n, "kAnswer") # Request(k, "kCapabilitiesResponse")
        BY Zenon DEF Request
      <4>. QED
        BY <3>2, <4>1, Zenon
    <3>7. AnsweredOf(d, r) => Answered(s)
      <4>1. AnsweredOf(d, r) => AnsweredOf(d0, r)
        BY <3>2, <3>6, Zenon DEF AnsweredOf, SameSession
      <4>. QED
        BY <4>1, AnsweredFacts, Zenon
    <3>8. d.negotiation = d0.negotiation
      BY <3>2, Zenon DEF SameSession
    <3>. QED
      BY <3>2, <3>5, <3>7, <3>8, <2>SenderStepAgreed, ZenonT(60)

  \* Dropping a message keeps AgreedInv.
  <2>DroppingAgreed.
    ASSUME RequestsInv, SenderTyped, AgreedInv, UNCHANGED receiverVars, NEW s \in Senders,
           Dropping(s)
    PROVE  AgreedInv'
    <3>. USE <2>DroppingAgreed
    <3>. DEFINE d0 == session[s]
                r0 == toSender[s]
    <3>1. /\ r0 # <<>> /\ r0 \in Seq(SenderMail)
          /\ SenderMoves(s, d0, callbacks[s], toReceiver[s], Tail(r0))
      BY SenderBasics, Zenon DEF Dropping
    <3>2. \A i \in DOMAIN Tail(r0) : \E j \in DOMAIN r0 : Tail(r0)[i] = r0[j]
      BY <3>1, TailWithin, Zenon
    <3>3. AnsweredOf(d0, Tail(r0)) => AnsweredOf(d0, r0)
      BY <3>2, Zenon DEF AnsweredOf
    <3>. QED
      BY <3>1, <3>3, AnsweredFacts, <2>SenderStepAgreed, ZenonT(60)

  \* Running a callback keeps AgreedInv if OnNegotiated() is called for a valid ANSWER only.
  <2>SettlingAgreed.
    ASSUME RequestsInv, SenderTyped, AgreedInv, UNCHANGED receiverVars, NEW s \in Senders,
           NEW d, NEW request, NEW how, NEW r, Settling(s, d, request, how, r),
           r = toSender[s] \/ (toSender[s] # <<>> /\ r = Tail(toSender[s])),
           d.told = "OnNegotiated" => Answered(s)
    PROVE  AgreedInv'
    <3>. USE <2>SettlingAgreed
    <3>. DEFINE d0 == session[s]
                r0 == toSender[s]
    <3>1. r0 \in Seq(SenderMail)
      BY SenderBasics, Zenon
    <3>2. \A i \in DOMAIN r : \E j \in DOMAIN r0 : r[i] = r0[j]
      <4>1. CASE r = r0
        BY <4>1, Zenon
      <4>2. CASE r0 # <<>> /\ r = Tail(r0)
        BY <3>1, <4>2, TailWithin, ZenonT(60)
      <4>. QED
        BY <4>1, <4>2, Zenon
    <3>3. /\ d.awaiting \subseteq d0.awaiting /\ d.negotiation = d0.negotiation
          /\ \E runs : SenderMoves(s, d, runs, toReceiver[s], r)
      BY Zenon DEF Settling
    <3>4. AnsweredOf(d, r) => Answered(s)
      <4>1. AnsweredOf(d, r) => d.told = "OnNegotiated" \/ AnsweredOf(d0, r0)
        BY <3>2, <3>3, Zenon DEF AnsweredOf
      <4>. QED
        BY <4>1, AnsweredFacts, ZenonT(60)
    <3>. QED
      BY <3>3, <3>4, <2>SenderStepAgreed, Zenon

  \* OnNegotiated() is called for a valid ANSWER that is awaited.
  <2>HearingAgreed.
    ASSUME RequestsInv, SenderTyped, AgreedInv, UNCHANGED receiverVars, NEW s \in Senders,
           NEW d, Hearing(s, d)
    PROVE  AgreedInv'
    <3>. USE <2>HearingAgreed
    <3>. DEFINE d0 == session[s]
                r0 == toSender[s]
                m == Head(r0)
                request == Request(m.sequence_number, m.type)
    <3>1. /\ r0 # <<>> /\ r0 \in Seq(SenderMail) /\ m.type \in Replies
          /\ Settling(s, d, request, m.type, Tail(r0)) /\ Heard(d0, d, m)
      BY SenderBasics, Zenon DEF Hearing
    <3>2. 1 \in DOMAIN r0 /\ m = r0[1] /\ m \in SenderMail
      BY <3>1, TailFacts, Zenon
    <3>3. request \in d0.awaiting
      BY <3>1, Zenon DEF Settling
    <3>4. d.told = "OnNegotiated" => AnsweredOf(d0, r0)
      <4>1. CASE m.type # "kAnswer" /\ SameSession(d0, d)
        BY <4>1, Zenon DEF SameSession, AnsweredOf
      <4>2. CASE m.type = "kAnswer" /\ ~m.valid /\ d.told = m.body
        <5>1. m.body \in Codes
          BY <3>2, <4>2, Zenon DEF SenderMail
        <5>. QED
          BY <4>2, <5>1, Zenon DEF Codes
      <4>3. CASE d.told = "kNoStreamSelected"
        BY <4>3, Zenon
      <4>4. CASE m.type = "kAnswer" /\ m.valid
        BY <3>2, <3>3, <4>4, ZenonT(60) DEF AnsweredOf
      <4>. QED
        BY <3>1, <4>1, <4>2, <4>3, <4>4, ZenonT(60) DEF Heard
    <3>. HIDE DEF m
    <3>. QED
      BY <3>1, <3>4, AnsweredFacts, <2>SettlingAgreed, ZenonT(60)

  <2>. SUFFICES ASSUME RequestsInv, SenderTyped, AgreedInv, UNCHANGED receiverVars, NEW s \in Senders,
                       (Patient(s) /\ StartNegotiating(s)) \/ SenderAct(s)
                PROVE  AgreedInv'
    OBVIOUS
  <2>1. CASE Patient(s) /\ StartNegotiating(s)
    BY <2>1, <1>NegotiateFacts, <2>OfferingAgreed, ZenonT(60)
  <2>2. CASE RequestCapabilities(s) \/ SenderSendRpc(s)
    BY <2>2, <1>PostingFacts, <2>PostingAgreed
  <2>3. CASE SenderOnMessage(s)
    BY <2>3, <1>SenderOnMessageFacts, <2>DroppingAgreed, <2>HearingAgreed, SMTT(60)
  <2>4. CASE ReplyIfTimedOut(s)
    <3>1. ASSUME NEW d, NEW request, TimingOut(s, d, request)
          PROVE  AgreedInv'
      <4>1. d.told = "OnNegotiated" => Answered(s)
        BY <3>1, Zenon DEF TimingOut, Answered
      <4>. QED
        BY <3>1, <4>1, <2>SettlingAgreed, Zenon DEF TimingOut
    <3>. QED
      BY <2>4, <3>1, <1>ReplyIfTimedOutFacts, Zenon
  <2>. QED
    BY <2>1, <2>2, <2>3, <2>4 DEF SenderAct

<1>. SUFFICES ASSUME NEW s \in Senders, NegotiationInv, UNCHANGED receiverVars,
                     (Patient(s) /\ StartNegotiating(s)) \/ SenderAct(s)
              PROVE  NegotiationInv'
  BY Zenon
<1>1. RequestsInv /\ SenderTyped /\ Partner /\ CountsInv /\ AnswersInv /\ AgreedInv /\ RemotingInv
  BY Zenon DEF NegotiationInv
<1>2. RequestsInv' /\ SenderTyped'
  BY <1>1, <1>SenderRequests, Zenon
<1>3. CountsInv'
  BY <1>1, <1>SenderCounts, Zenon
<1>4. AnswersInv'
  BY <1>1, <1>SenderAnswers, Zenon
<1>5. AgreedInv'
  BY <1>1, <1>SenderAgreed, Zenon
<1>6. RemotingInv' /\ Partner'
  BY <1>1, Zenon DEF receiverVars, RemotingInv, RemotingCurrent, Partner, kRemoting, NoReceivers, Kinds
<1>. QED
  BY <1>2, <1>3, <1>4, <1>5, <1>6, Zenon DEF NegotiationInv
=============================================================================
