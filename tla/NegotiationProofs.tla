------------------------- MODULE NegotiationProofs -------------------------
(***************************************************************************)
(* The invariants of Negotiation for any number of senders, requests and    *)
(* configurations: the steps of the receiver session keep the invariant     *)
(* that the sender sessions keep.                                           *)
(***************************************************************************)
EXTENDS NegotiationSenderProofs

-----------------------------------------------------------------------------
(* The steps of the receiver keep the invariant *)

\* A step of the receiver, or one in which nothing happens, keeps the invariant.
LEMMA ReceiverKeeps ==
  /\ NegotiationInv
  /\ UNCHANGED senderVars
  /\ ReceiverAct \/ UNCHANGED vars
  => NegotiationInv'

\* Taking the first message leaves the later ones in order.
<1>PostedTail.
  ASSUME NEW d, NEW runs, NEW q \in Seq(ReceiverMail), Posted(q, d, runs), q # <<>>
  PROVE  /\ Tail(q) \in Seq(ReceiverMail) /\ Posted(Tail(q), d, runs)
         /\ \A i \in DOMAIN Tail(q) :
              Tail(q)[i].sequence_number > Head(q).sequence_number
  <2>. USE <1>PostedTail
  <2>. DEFINE r == Tail(q)
  <2>1. /\ r \in Seq(ReceiverMail) /\ Len(q) \in Nat \ {0} /\ DOMAIN q = 1 .. Len(q)
        /\ DOMAIN r = 1 .. Len(q) - 1 /\ 1 \in DOMAIN q /\ Head(q) = q[1]
        /\ \A i \in DOMAIN r : i + 1 \in DOMAIN q /\ r[i] = q[i + 1]
    BY TailFacts, Zenon
  <2>. HIDE DEF r
  <2>2. \A i \in DOMAIN r : r[i].sequence_number > Head(q).sequence_number
    <3>1. \A i \in DOMAIN q : q[i].sequence_number \in Int
      BY DEF Posted
    <3>2. \A i \in DOMAIN r : i + 1 > 1
      BY <2>1
    <3>. QED
      BY <2>1, <3>1, <3>2, Zenon DEF Posted
  <2>3. \A i, j \in DOMAIN r : i < j => r[i].sequence_number < r[j].sequence_number
    <3>1. \A i, j \in DOMAIN r : i < j => i + 1 < j + 1
      BY <2>1
    <3>. QED
      BY <2>1, <3>1, Zenon DEF Posted
  <2>4. Posted(r, d, runs)
    BY <2>1, <2>3, Zenon DEF Posted
  <2>. QED
    BY <2>1, <2>2, <2>4, Zenon DEF r

\* A message to a sender joins those under way to it, and no others.
<1>PostedReply.
  \A channel \in [Senders -> Seq(SenderMail)] : \A s \in Senders : \A m \in SenderMail :
    /\ \A t \in Senders : Replied(channel[t], session[t], callbacks[t])
    /\ m.type # "kRpc" =>
         /\ m.sequence_number \in 1 .. session[s].sequence
         /\ Asked(session[s], callbacks[s], m.sequence_number, m.type)
    => LET new == Post(channel, s, m)
       IN  /\ new \in [Senders -> Seq(SenderMail)]
           /\ \A t \in Senders : Replied(new[t], session[t], callbacks[t])
           /\ Extends(channel, s, m, new)
           /\ \A t \in Senders : \A i \in DOMAIN channel[t] :
                i \in DOMAIN new[t] /\ new[t][i] = channel[t][i]
           /\ \E i \in DOMAIN new[s] : new[s][i] = m
  \* A reply to what was asked joins the others.
  <2>RepliedAppended.
    ASSUME NEW d, NEW runs, NEW q \in Seq(SenderMail), Replied(q, d, runs), NEW m \in SenderMail,
           m.type # "kRpc" =>
             /\ m.sequence_number \in 1 .. d.sequence
             /\ Asked(d, runs, m.sequence_number, m.type)
    PROVE  Append(q, m) \in Seq(SenderMail) /\ Replied(Append(q, m), d, runs)
    <3>. USE <2>RepliedAppended
    <3>. DEFINE r == Append(q, m)
    <3>1. /\ r \in Seq(SenderMail) /\ Len(q) \in Nat /\ DOMAIN q = 1 .. Len(q)
          /\ DOMAIN r = 1 .. Len(q) + 1 /\ \A i \in DOMAIN q : r[i] = q[i]
          /\ r[Len(q) + 1] = m
      BY AppendFacts
    <3>. HIDE DEF r
    <3>2. \A i \in DOMAIN r : i \in DOMAIN q \/ i = Len(q) + 1
      BY <3>1
    <3>3. Replied(r, d, runs)
      BY <3>1, <3>2, Zenon DEF Replied
    <3>. QED
      BY <3>1, <3>3, Zenon DEF r

  <2>. TAKE channel \in [Senders -> Seq(SenderMail)]
  <2>. TAKE s \in Senders
  <2>. TAKE m \in SenderMail
  <2>. HAVE /\ \A t \in Senders : Replied(channel[t], session[t], callbacks[t])
            /\ m.type # "kRpc" =>
                 /\ m.sequence_number \in 1 .. session[s].sequence
                 /\ Asked(session[s], callbacks[s], m.sequence_number, m.type)
  <2>. DEFINE new == Post(channel, s, m)
              q == Append(channel[s], m)
  <2>1. new = [channel EXCEPT ![s] = q]
    BY Zenon DEF Post
  <2>2. q \in Seq(SenderMail) /\ Replied(q, session[s], callbacks[s])
    BY <2>RepliedAppended, Zenon
  <2>3. /\ Len(channel[s]) \in Nat /\ DOMAIN channel[s] = 1 .. Len(channel[s])
        /\ DOMAIN q = 1 .. Len(channel[s]) + 1
        /\ \A i \in DOMAIN channel[s] : q[i] = channel[s][i]
        /\ q[Len(channel[s]) + 1] = m
    BY AppendFacts
  <2>. HIDE DEF q, new
  <2>4. \A i \in DOMAIN q : (i \in DOMAIN channel[s] /\ q[i] = channel[s][i]) \/ q[i] = m
    BY <2>3
  <2>5. \A i \in DOMAIN channel[s] : i \in DOMAIN q /\ q[i] = channel[s][i]
    BY <2>3
  <2>6. Len(channel[s]) + 1 \in DOMAIN q
    BY <2>3
  <2>7. /\ new \in [Senders -> Seq(SenderMail)] /\ new[s] = q
        /\ \A t \in Senders \ {s} : new[t] = channel[t]
    BY <2>1, <2>2, Zenon
  <2>8. Extends(channel, s, m, new)
    BY <2>4, <2>7, Zenon DEF Extends
  <2>9. \A t \in Senders : Replied(new[t], session[t], callbacks[t])
    BY <2>2, <2>7, Zenon
  <2>10. \A t \in Senders : \A i \in DOMAIN channel[t] :
           i \in DOMAIN new[t] /\ new[t][i] = channel[t][i]
    BY <2>5, <2>7, Zenon
  <2>11. \E i \in DOMAIN new[s] : new[s][i] = m
    BY <2>3, <2>6, <2>7, Zenon
  <2>. QED
    BY <2>7, <2>8, <2>9, <2>10, <2>11, Zenon DEF new

\* The replies of a step, one after the other.
<1>SendAnswersFacts.
  \A first, second :
    /\ RequestsInv
    /\ SenderTyped
    /\ Proper(first)
    /\ Proper(second)
    /\ SendAnswers(first, second)
    => /\ toSender' \in [Senders -> Seq(SenderMail)]
       /\ \A t \in Senders : Replied(toSender'[t], session[t], callbacks[t])
       /\ \A t \in Senders : \A i \in DOMAIN toSender'[t] :
            \/ i \in DOMAIN toSender[t] /\ toSender'[t][i] = toSender[t][i]
            \/ first # NoReply /\ t = first.to /\ toSender'[t][i] = first.message
            \/ second # NoReply /\ t = second.to /\ toSender'[t][i] = second.message
       /\ \A t \in Senders : \A i \in DOMAIN toSender[t] :
            i \in DOMAIN toSender'[t] /\ toSender'[t][i] = toSender[t][i]
  \* SendMessage() of one reply.
  <2>DeliveredFacts.
    ASSUME NEW channel \in [Senders -> Seq(SenderMail)],
           \A t \in Senders : Replied(channel[t], session[t], callbacks[t]),
           NEW reply, Proper(reply)
    PROVE  LET new == Delivered(channel, reply)
           IN  /\ new \in [Senders -> Seq(SenderMail)]
               /\ \A t \in Senders : Replied(new[t], session[t], callbacks[t])
               /\ \A t \in Senders : \A i \in DOMAIN new[t] :
                    \/ i \in DOMAIN channel[t] /\ new[t][i] = channel[t][i]
                    \/ reply # NoReply /\ t = reply.to /\ new[t][i] = reply.message
               /\ \A t \in Senders : \A i \in DOMAIN channel[t] :
                    i \in DOMAIN new[t] /\ new[t][i] = channel[t][i]
               /\ reply # NoReply => \E i \in DOMAIN new[reply.to] : new[reply.to][i] = reply.message
    <3>. USE <2>DeliveredFacts
    <3>1. CASE reply = NoReply
      BY <3>1, Zenon DEF Delivered
    <3>2. CASE reply # NoReply
      <4>. DEFINE s == reply.to
                  m == reply.message
                  new == Post(channel, s, m)
      <4>1. /\ s \in Senders /\ m \in SenderMail /\ m.type = "kAnswer"
            /\ m.sequence_number \in 1 .. session[s].sequence
            /\ Asked(session[s], callbacks[s], m.sequence_number, "kAnswer")
        BY <3>2, Zenon DEF Proper
      <4>. HIDE DEF s, m, new
      <4>2. Delivered(channel, reply) = new
        BY <3>2, Zenon DEF Delivered, new, s, m
      <4>3. /\ new \in [Senders -> Seq(SenderMail)]
            /\ \A t \in Senders : Replied(new[t], session[t], callbacks[t])
            /\ Extends(channel, s, m, new)
            /\ \A t \in Senders : \A i \in DOMAIN channel[t] :
                 i \in DOMAIN new[t] /\ new[t][i] = channel[t][i]
            /\ \E i \in DOMAIN new[s] : new[s][i] = m
        BY <4>1, <1>PostedReply, ZenonT(60) DEF new
      <4>. QED
        BY <3>2, <4>2, <4>3, ZenonT(60) DEF Extends, s, m
    <3>. QED
      BY <3>1, <3>2, Zenon

  <2>. SUFFICES ASSUME RequestsInv, SenderTyped, NEW first, NEW second, Proper(first), Proper(second),
                       SendAnswers(first, second)
                PROVE  /\ toSender' \in [Senders -> Seq(SenderMail)]
                       /\ \A t \in Senders : Replied(toSender'[t], session[t], callbacks[t])
                       /\ \A t \in Senders : \A i \in DOMAIN toSender'[t] :
                            \/ i \in DOMAIN toSender[t] /\ toSender'[t][i] = toSender[t][i]
                            \/ first # NoReply /\ t = first.to /\ toSender'[t][i] = first.message
                            \/ second # NoReply /\ t = second.to /\ toSender'[t][i] = second.message
                       /\ \A t \in Senders : \A i \in DOMAIN toSender[t] :
                            i \in DOMAIN toSender'[t] /\ toSender'[t][i] = toSender[t][i]
    BY Zenon
  <2>. DEFINE half == Delivered(toSender, first)
              new == Delivered(half, second)
  <2>1. /\ toSender \in [Senders -> Seq(SenderMail)]
        /\ \A t \in Senders : Replied(toSender[t], session[t], callbacks[t])
    BY Zenon DEF RequestsInv, SenderTyped
  <2>2. toSender' = new
    BY Zenon DEF SendAnswers
  <2>. HIDE DEF new, half
  <2>3. /\ half \in [Senders -> Seq(SenderMail)]
        /\ \A t \in Senders : Replied(half[t], session[t], callbacks[t])
        /\ \A t \in Senders : \A i \in DOMAIN half[t] :
             \/ i \in DOMAIN toSender[t] /\ half[t][i] = toSender[t][i]
             \/ first # NoReply /\ t = first.to /\ half[t][i] = first.message
        /\ \A t \in Senders : \A i \in DOMAIN toSender[t] :
             i \in DOMAIN half[t] /\ half[t][i] = toSender[t][i]
    BY <2>1, <2>DeliveredFacts, SMTT(30) DEF half
  <2>4. /\ new \in [Senders -> Seq(SenderMail)]
        /\ \A t \in Senders : Replied(new[t], session[t], callbacks[t])
        /\ \A t \in Senders : \A i \in DOMAIN new[t] :
             \/ i \in DOMAIN half[t] /\ new[t][i] = half[t][i]
             \/ second # NoReply /\ t = second.to /\ new[t][i] = second.message
        /\ \A t \in Senders : \A i \in DOMAIN half[t] :
             i \in DOMAIN new[t] /\ new[t][i] = half[t][i]
    BY <2>3, <2>DeliveredFacts, SMTT(30) DEF new
  <2>. QED
    BY <2>2, <2>3, <2>4, SMTT(30)

\* A step of the receiver is one of those described above.
<1>ReceiverActFacts.
  ReceiverAct =>
    \/ \E s \in Senders :
         \/ \E code \in Codes : Refusing(s, code)
         \/ Closed(s) \/ Accepting(s) \/ Postponing(s) \/ Passing(s)
    \/ Ready \/ Failed \/ SocketOnly \/ ReceiverSendRpc \/ DestroyReceiverSession
  \* OnOffer() refuses, answers or postpones the OFFER.
  <2>OnOfferFacts.
    ASSUME NEW s \in Senders, alive, toReceiver[s] # <<>>, Head(toReceiver[s]).type = "kOffer",
           OnOffer(s, Head(toReceiver[s])), toReceiver' = Consumed(toReceiver, s),
           UNCHANGED <<socket, alive>>
    PROVE  \/ \E code \in Codes : Refusing(s, code)
           \/ Closed(s) \/ Accepting(s) \/ Postponing(s)
    <3>. USE <2>OnOfferFacts
    <3>. DEFINE m == Head(toReceiver[s])
                p == PendingOffer(s, m)
                reason == IF p.mode = kRemoting /\ ~RemotingEnabled
                            THEN "kRemotingNotSupported"
                            ELSE IF p.selected = NoReceivers
                                   THEN "kNoStreamSelected" ELSE none
    <3>1. \/ /\ reason # none
             /\ SendAnswers(NoReply, Refusal(s, m.sequence_number, reason))
             /\ UNCHANGED <<pending, negotiationVars>>
          \/ /\ reason = none /\ socket = "kInvalid"
             /\ SendAnswers(Interruption, Refusal(s, m.sequence_number, "kSocketClosedFailure"))
             /\ pending' = none
             /\ UNCHANGED negotiationVars
          \/ /\ reason = none /\ socket = "kReady"
             /\ SendAnswers(Interruption, Answer(p))
             /\ pending' = none
             /\ InitializeSession(p)
          \/ /\ reason = none /\ socket = "kStarting"
             /\ SendAnswers(Interruption, NoReply)
             /\ pending' = p
             /\ UNCHANGED negotiationVars
      BY Zenon DEF OnOffer
    <3>2. OfferNext(s) /\ Consuming(s) /\ Taken(s) = p
      BY Zenon DEF OfferNext, Consuming, Consumed, Taken
    <3>3. p.sender = s /\ p.sequence_number = m.sequence_number
      BY Zenon DEF PendingOffer
    <3>4. reason # none => reason \in Codes
      BY Zenon DEF Codes
    <3>5. reason = none => p.selected # NoReceivers
      BY NoneAssumption, Zenon
    <3>6. \A code : Refused(p, code) = Refusal(s, m.sequence_number, code)
      BY <3>3, Zenon DEF Refused
    <3>. HIDE DEF reason, p
    <3>. QED
      BY <3>1, <3>2, <3>4, <3>5, <3>6, Zenon DEF Refusing, Closed, Accepting, Postponing

  <2>. SUFFICES ASSUME ReceiverAct
                PROVE  \/ \E s \in Senders :
                            \/ \E code \in Codes : Refusing(s, code)
                            \/ Closed(s) \/ Accepting(s) \/ Postponing(s) \/ Passing(s)
                       \/ Ready \/ Failed \/ SocketOnly \/ ReceiverSendRpc \/ DestroyReceiverSession
    BY Zenon
  <2>1. ASSUME NEW s \in Senders, ReceiverOnMessage(s)
        PROVE  \/ \E code \in Codes : Refusing(s, code)
               \/ Closed(s) \/ Accepting(s) \/ Postponing(s) \/ Passing(s)
    <3>. DEFINE m == Head(toReceiver[s])
    <3>1. /\ toReceiver[s] # <<>> /\ toReceiver' = Consumed(toReceiver, s)
          /\ UNCHANGED <<socket, alive>>
          /\ \/ /\ ~alive
                /\ UNCHANGED <<pending, negotiationVars, answers, toSender>>
             \/ alive /\ m.type = "kOffer" /\ OnOffer(s, m)
             \/ /\ alive /\ m.type = "kGetCapabilities"
                /\ OnCapabilitiesRequest(s, m)
             \/ alive /\ m.type = "kRpc" /\ OnRpcMessage(s)
      BY <2>1, Zenon DEF ReceiverOnMessage
    <3>2. Consuming(s)
      BY <3>1, Zenon DEF Consuming, Consumed
    <3>3. CASE ~alive /\ UNCHANGED <<pending, negotiationVars, answers, toSender>>
      BY <3>1, <3>2, <3>3, Zenon DEF Passing, OfferNext
    <3>4. CASE alive /\ m.type = "kOffer" /\ OnOffer(s, m)
      BY <3>1, <3>4, <2>OnOfferFacts, Zenon
    <3>5. CASE alive /\ m.type = "kGetCapabilities" /\ OnCapabilitiesRequest(s, m)
      <4>1. ~OfferNext(s)
        BY <3>5, Zenon DEF OfferNext
      <4>. QED
        BY <3>1, <3>2, <3>5, <4>1, Zenon DEF Passing, OnCapabilitiesRequest
    <3>6. CASE alive /\ m.type = "kRpc" /\ OnRpcMessage(s)
      <4>1. ~OfferNext(s)
        BY <3>6, Zenon DEF OfferNext
      <4>. QED
        BY <3>1, <3>2, <3>6, <4>1, Zenon DEF Passing, OnRpcMessage
    <3>. QED
      BY <3>1, <3>3, <3>4, <3>5, <3>6, Zenon
  <2>2. CASE OnSocketReady
    BY <2>2, Zenon DEF OnSocketReady, Ready, SocketOnly
  <2>3. CASE OnSocketInvalid
    BY <2>3, Zenon DEF OnSocketInvalid, Failed, SocketOnly, Refused
  <2>. QED
    BY <2>1, <2>2, <2>3, Zenon DEF ReceiverAct

\* The fields of an OFFER that waits.
<1>PendingFacts.
  ASSUME NEW p \in PendingOffers
  PROVE  /\ p.sender \in Senders /\ p.sequence_number \in Nat
         /\ p.mode \in {kMirroring, kRemoting}
         /\ p.selected \in [Kinds -> Streams \cup {none}]
  BY Zenon DEF PendingOffers

\* The OFFER the receiver takes is one its sender made.
<1>TakenFacts.
  ASSUME RequestsInv, SenderTyped, NEW s \in Senders, OfferNext(s)
  PROVE  LET m == Head(toReceiver[s])
             p == Taken(s)
         IN  /\ m.body \in Offers /\ Made(p)
             /\ p.sender = s /\ p.sequence_number = m.sequence_number
             /\ p = Properties(s, m.sequence_number, m.body)
  <2>. USE <1>TakenFacts
  <2>. DEFINE m == Head(toReceiver[s])
              p == Taken(s)
  <2>1. /\ toReceiver[s] # <<>> /\ toReceiver[s] \in Seq(ReceiverMail)
        /\ Posted(toReceiver[s], session[s], callbacks[s])
        /\ m.type = "kOffer"
    BY SenderBasics, Zenon DEF OfferNext
  <2>2. /\ 1 \in DOMAIN toReceiver[s] /\ m = toReceiver[s][1] /\ m \in ReceiverMail
    BY <2>1, TailFacts, Zenon
  <2>3. /\ m.sequence_number \in 1 .. session[s].sequence
        /\ Asked(session[s], callbacks[s], m.sequence_number, "kAnswer")
    BY <2>1, <2>2, Zenon DEF Posted
  <2>. HIDE DEF m
  <2>4. m.body \in Offers /\ m.sequence_number \in Nat
    BY <2>1, <2>2, Zenon DEF ReceiverMail
  <2>5. p = [sender |-> s, sequence_number |-> m.sequence_number,
             mode |-> m.body.cast_mode, selected |-> SelectStreams(m.body)]
    BY Zenon DEF Taken, PendingOffer, m
  <2>6. p = Properties(s, m.sequence_number, m.body)
    BY <2>5, Zenon DEF Properties, PendingOffer
  <2>7. m.body.cast_mode \in {kMirroring, kRemoting}
    BY <2>4, Zenon DEF Offers
  <2>8. SelectStreams(m.body) \in [Kinds -> Streams \cup {none}]
    BY <2>4, SelectStreamsFacts, Zenon
  <2>. HIDE DEF p
  <2>9. p \in PendingOffers
    BY <2>4, <2>5, <2>7, <2>8, Zenon DEF PendingOffers
  <2>10. p.sender = s /\ p.sequence_number = m.sequence_number
    BY <2>5, Zenon
  <2>. QED
    BY <2>3, <2>4, <2>6, <2>9, <2>10, Zenon DEF Made, m, p

\* An ANSWER to an OFFER that was made, positive or not, is one that was asked for.
<1>ProperReplies.
  ASSUME NEW p, Made(p)
  PROVE  /\ Proper(Answer(p)) /\ Answer(p) # NoReply
         /\ Answer(p).to = p.sender
         /\ Answer(p).message.sequence_number = p.sequence_number
         /\ Answer(p).message.type = "kAnswer" /\ Answer(p).message.valid
         /\ Answer(p).message.body = ConstructAnswer(p)
         /\ \A code \in Codes :
              /\ Proper(Refused(p, code)) /\ Refused(p, code) # NoReply
              /\ Refused(p, code).to = p.sender
              /\ Refused(p, code).message.sequence_number = p.sequence_number
              /\ ~Refused(p, code).message.valid
  <2>. USE <1>ProperReplies
  <2>1. /\ p \in PendingOffers /\ p.sender \in Senders /\ p.sequence_number \in Nat
        /\ p.sequence_number \in 1 .. session[p.sender].sequence
        /\ Asked(session[p.sender], callbacks[p.sender], p.sequence_number, "kAnswer")
    BY <1>PendingFacts, Zenon DEF Made
  <2>2. none \notin Senders
    BY SendersAssumption, Zenon
  <2>3. ASSUME NEW m \in SenderMail, m.type = "kAnswer",
               m.sequence_number = p.sequence_number, NEW r, r = [to |-> p.sender, message |-> m]
        PROVE  Proper(r) /\ r # NoReply
    <3>1. r.to = p.sender /\ r.message = m
      BY <2>3, Zenon
    <3>2. r = [to |-> r.to, message |-> r.message]
      BY <2>3, Zenon
    <3>3. NoReply.to = none
      BY Zenon DEF NoReply
    <3>. QED
      BY <2>1, <2>2, <2>3, <3>1, <3>2, <3>3, Zenon DEF Proper
  <2>4. /\ Proper(Answer(p)) /\ Answer(p) # NoReply
        /\ Answer(p).to = p.sender
        /\ Answer(p).message.sequence_number = p.sequence_number
        /\ Answer(p).message.type = "kAnswer" /\ Answer(p).message.valid
        /\ Answer(p).message.body = ConstructAnswer(p)
    <3>. DEFINE m == [type |-> "kAnswer", sequence_number |-> p.sequence_number,
                      valid |-> TRUE, body |-> ConstructAnswer(p)]
    <3>1. Answer(p) = [to |-> p.sender, message |-> m]
      BY Zenon DEF Answer
    <3>2. m \in SenderMail
      BY <2>1, Zenon DEF SenderMail
    <3>3. /\ m.type = "kAnswer" /\ m.sequence_number = p.sequence_number
          /\ m.valid /\ m.body = ConstructAnswer(p)
      BY Zenon
    <3>. HIDE DEF m
    <3>4. Answer(p).to = p.sender /\ Answer(p).message = m
      BY <3>1
    <3>5. Proper(Answer(p)) /\ Answer(p) # NoReply
      BY <2>3, <3>1, <3>2, <3>3, Zenon
    <3>. QED
      BY <3>3, <3>4, <3>5, Zenon
  <2>5. ASSUME NEW code \in Codes
        PROVE  /\ Proper(Refused(p, code)) /\ Refused(p, code) # NoReply
               /\ Refused(p, code).to = p.sender
               /\ Refused(p, code).message.sequence_number = p.sequence_number
               /\ ~Refused(p, code).message.valid
    <3>. DEFINE m == [type |-> "kAnswer", sequence_number |-> p.sequence_number,
                      valid |-> FALSE, body |-> code]
    <3>1. Refused(p, code) = [to |-> p.sender, message |-> m]
      BY Zenon DEF Refused, Refusal, ErrorAnswer
    <3>2. m \in SenderMail
      BY <2>1, Zenon DEF SenderMail
    <3>3. m.type = "kAnswer" /\ m.sequence_number = p.sequence_number /\ ~m.valid
      BY Zenon
    <3>. HIDE DEF m
    <3>4. Refused(p, code).to = p.sender /\ Refused(p, code).message = m
      BY <3>1
    <3>5. Proper(Refused(p, code)) /\ Refused(p, code) # NoReply
      BY <2>3, <3>1, <3>2, <3>3, Zenon
    <3>. QED
      BY <3>3, <3>4, <3>5, Zenon
  <2>. QED
    BY <2>4, <2>5, Zenon

\* The OFFER that waits for the socket was made, and a stream of it was selected.
<1>WaitingFacts.
  ASSUME RequestsInv, pending # none
  PROVE  Made(pending) /\ pending.selected # NoReceivers
  BY <1>WaitingFacts, Zenon DEF RequestsInv, Waits, Made

\* The OFFER that waits is refused when another one comes.
<1>InterruptionFacts.
  ASSUME RequestsInv
  PROVE  /\ Proper(Interruption)
         /\ pending = none => Interruption = NoReply
         /\ pending # none => Interruption = Refused(pending, "kInterrupted")
  BY <1>InterruptionFacts, <1>WaitingFacts, <1>ProperReplies, ZenonT(60) DEF Interruption, Refused, Proper, Codes

\* A step of the receiver that replies properly and takes OFFERs in their order.
<1>ReceiverStepRequests.
  ASSUME RequestsInv, SenderTyped, UNCHANGED senderVars,
         toSender' \in [Senders -> Seq(SenderMail)],
         \A t \in Senders : Replied(toSender'[t], session[t], callbacks[t]),
         \/ toReceiver' = toReceiver /\ pending' \in {none, pending}
         \/ \E s \in Senders :
              /\ Consuming(s)
              /\ \/ pending' \in {none, pending}
                 \/ OfferNext(s) /\ pending' = Taken(s) /\ Taken(s).selected # NoReceivers
  PROVE  RequestsInv' /\ SenderTyped'
  <2>. USE <1>ReceiverStepRequests
  <2>1. session' = session /\ callbacks' = callbacks
    BY Zenon DEF senderVars
  <2>2. /\ toReceiver' \in [Senders -> Seq(ReceiverMail)]
        /\ \A t \in Senders : Posted(toReceiver'[t], session[t], callbacks[t])
        /\ \A t \in Senders : \A i \in DOMAIN toReceiver'[t] :
             \E j \in DOMAIN toReceiver[t] : toReceiver'[t][i] = toReceiver[t][j]
    <3>1. CASE toReceiver' = toReceiver
      BY <3>1, Zenon DEF RequestsInv
    <3>2. ASSUME NEW s \in Senders, Consuming(s)
          PROVE  /\ toReceiver' \in [Senders -> Seq(ReceiverMail)]
                 /\ \A t \in Senders : Posted(toReceiver'[t], session[t], callbacks[t])
                 /\ \A t \in Senders : \A i \in DOMAIN toReceiver'[t] :
                      \E j \in DOMAIN toReceiver[t] : toReceiver'[t][i] = toReceiver[t][j]
      <4>. DEFINE q == Tail(toReceiver[s])
      <4>1. /\ toReceiver \in [Senders -> Seq(ReceiverMail)]
            /\ \A t \in Senders : Posted(toReceiver[t], session[t], callbacks[t])
        BY Zenon DEF RequestsInv
      <4>2. q \in Seq(ReceiverMail) /\ Posted(q, session[s], callbacks[s])
        BY <3>2, <4>1, <1>PostedTail, Zenon DEF Consuming
      <4>3. \A i \in DOMAIN q : i + 1 \in DOMAIN toReceiver[s] /\ q[i] = toReceiver[s][i + 1]
        BY <3>2, <4>1, TailFacts, SMTT(30) DEF Consuming
      <4>4. toReceiver' = [toReceiver EXCEPT ![s] = q]
        BY <3>2, Zenon DEF Consuming
      <4>. HIDE DEF q
      <4>5. \A t \in Senders : toReceiver'[t] = IF t = s THEN q ELSE toReceiver[t]
        BY <4>1, <4>4, Zenon
      <4>6. toReceiver' \in [Senders -> Seq(ReceiverMail)]
        BY <4>1, <4>2, <4>4, Zenon
      <4>7. \A t \in Senders : Posted(toReceiver'[t], session[t], callbacks[t])
        BY <4>1, <4>2, <4>5, Zenon
      <4>8. \A t \in Senders : \A i \in DOMAIN toReceiver'[t] :
              \E j \in DOMAIN toReceiver[t] : toReceiver'[t][i] = toReceiver[t][j]
        BY <4>3, <4>5, Zenon
      <4>. QED
        BY <4>6, <4>7, <4>8, Zenon
    <3>. QED
      BY <3>1, <3>2, Zenon
  <2>3. Waits'
    <3>1. CASE pending' = none
      BY <3>1, Zenon DEF Waits
    <3>2. CASE pending' = pending /\ pending # none
      <4>1. /\ pending \in PendingOffers /\ pending.selected # NoReceivers
            /\ pending.sequence_number \in 1 .. session[pending.sender].sequence
            /\ Asked(session[pending.sender], callbacks[pending.sender],
                     pending.sequence_number, "kAnswer")
            /\ \A i \in DOMAIN toReceiver[pending.sender] :
                 toReceiver[pending.sender][i].sequence_number > pending.sequence_number
            /\ pending.sender \in Senders
        BY <3>2, <1>PendingFacts, Zenon DEF RequestsInv, Waits
      <4>2. \A i \in DOMAIN toReceiver'[pending.sender] :
                 toReceiver'[pending.sender][i].sequence_number > pending.sequence_number
        BY <2>2, <4>1, Zenon
      <4>3. /\ (pending \in PendingOffers)' /\ (NoReceivers)' = NoReceivers
        BY <3>2, <4>1, Zenon DEF PendingOffers, Streams, Kinds, ConfigCodecs, ConfigParameters,
                 Configs, kMirroring, kRemoting, kNotSpecified, NoReceivers
      <4>. QED
        BY <2>1, <3>2, <4>1, <4>2, <4>3, ZenonT(60) DEF Waits, Asked, Request
    <3>3. ASSUME NEW s \in Senders, Consuming(s), OfferNext(s), pending' = Taken(s),
                 Taken(s).selected # NoReceivers
          PROVE  Waits'
      <4>. DEFINE p == Taken(s)
                  m == Head(toReceiver[s])
      <4>1. /\ p \in PendingOffers /\ p.sender = s /\ p.sequence_number = m.sequence_number
            /\ p.sequence_number \in 1 .. session[s].sequence
            /\ Asked(session[s], callbacks[s], p.sequence_number, "kAnswer")
        BY <3>3, <1>TakenFacts, Zenon DEF Made
      <4>2. toReceiver[s] \in Seq(ReceiverMail) /\ Posted(toReceiver[s], session[s], callbacks[s])
        BY Zenon DEF RequestsInv
      <4>3. toReceiver'[s] = Tail(toReceiver[s])
        BY <3>3, Zenon DEF Consuming, RequestsInv
      <4>4. \A i \in DOMAIN toReceiver'[s] :
              toReceiver'[s][i].sequence_number > m.sequence_number
        <5>1. toReceiver[s] # <<>>
          BY <3>3, Zenon DEF Consuming
        <5>2. \A i \in DOMAIN Tail(toReceiver[s]) :
                Tail(toReceiver[s])[i].sequence_number > m.sequence_number
          BY <4>2, <5>1, <1>PostedTail, Zenon
        <5>. QED
          BY <4>3, <5>2, Zenon
      <4>. HIDE DEF p, m
      <4>5. pending' = p /\ p.selected # NoReceivers
        BY <3>3, Zenon DEF p
      <4>6. /\ (pending \in PendingOffers)' /\ (NoReceivers)' = NoReceivers
        BY <4>1, <4>5, Zenon DEF PendingOffers, Streams, Kinds, ConfigCodecs, ConfigParameters,
                 Configs, kMirroring, kRemoting, kNotSpecified, NoReceivers
      <4>. QED
        BY <2>1, <4>1, <4>4, <4>5, <4>6, Zenon DEF Waits, Asked, Request
    <3>. QED
      BY <3>1, <3>2, <3>3, Zenon
  <2>4. SenderTyped'
    BY TypedNext, Zenon
  <2>5. RequestsInv'
    <3>1. /\ session = [s \in Senders |-> session[s]]
          /\ callbacks = [s \in Senders |-> callbacks[s]]
          /\ \A s \in Senders : Numbered(session[s], callbacks[s], MaxSequence[s])
      BY Zenon DEF RequestsInv
    <3>2. ReceiverMail' = ReceiverMail
      BY Zenon DEF ReceiverMail, Offers, Streams, ConfigCodecs, ConfigParameters, Configs,
                   kMirroring, kRemoting, kNotSpecified
    <3>3. ASSUME NEW s \in Senders
          PROVE  /\ Numbered(session[s], callbacks[s], MaxSequence[s])'
                 /\ Posted(toReceiver[s], session[s], callbacks[s])'
                 /\ Replied(toSender[s], session[s], callbacks[s])'
      <4>1. Numbered(session[s], callbacks[s], MaxSequence[s])'
        BY <2>1, <3>1, Zenon DEF Numbered, IsSession, Requests, Replies, Runs, Asked, Request
      <4>2. Posted(toReceiver[s], session[s], callbacks[s])'
        BY <2>1, <2>2, ZenonT(60) DEF Posted, Asked, Request
      <4>3. Replied(toSender[s], session[s], callbacks[s])'
        BY <2>1, Zenon DEF Replied, Asked, Request
      <4>. QED
        BY <4>1, <4>2, <4>3, Zenon
    <3>. QED
      BY <2>1, <2>2, <2>3, <3>1, <3>2, <3>3 DEF RequestsInv
  <2>. QED
    BY <2>4, <2>5, Zenon

\* A single message the receiver sends to s.
<1>PostingOne.
  ASSUME RequestsInv, SenderTyped, NEW s \in Senders, NEW m \in SenderMail,
         m.type # "kRpc" =>
           /\ m.sequence_number \in 1 .. session[s].sequence
           /\ Asked(session[s], callbacks[s], m.sequence_number, m.type),
         toSender' = Post(toSender, s, m)
  PROVE  /\ toSender' \in [Senders -> Seq(SenderMail)]
         /\ \A t \in Senders : Replied(toSender'[t], session[t], callbacks[t])
         /\ Extends(toSender, s, m, toSender')
         /\ \A t \in Senders : \A i \in DOMAIN toSender[t] :
              i \in DOMAIN toSender'[t] /\ toSender'[t][i] = toSender[t][i]
  <2>. USE <1>PostingOne
  <2>1. /\ toSender \in [Senders -> Seq(SenderMail)]
        /\ \A t \in Senders : Replied(toSender[t], session[t], callbacks[t])
    BY Zenon DEF RequestsInv, SenderTyped
  <2>. QED
    BY <2>1, <1>PostedReply, SMTT(30)

\* A message that is passed over leaves at most a reply to a request.
<1>PassingFacts.
  ASSUME RequestsInv, SenderTyped, NEW s \in Senders, Passing(s)
  PROVE  /\ toSender' \in [Senders -> Seq(SenderMail)]
         /\ \A t \in Senders : Replied(toSender'[t], session[t], callbacks[t])
         /\ \A t \in Senders : \A i \in DOMAIN toSender'[t] :
              \/ i \in DOMAIN toSender[t] /\ toSender'[t][i] = toSender[t][i]
              \/ toSender'[t][i].type # "kAnswer"
         /\ \A t \in Senders : \A i \in DOMAIN toSender[t] :
              i \in DOMAIN toSender'[t] /\ toSender'[t][i] = toSender[t][i]
  <2>. USE <1>PassingFacts
  <2>1. CASE toSender' = toSender
    BY <2>1, Zenon DEF RequestsInv, SenderTyped
  <2>2. CASE /\ alive /\ Head(toReceiver[s]).type = "kGetCapabilities"
             /\ toSender' = Post(toSender, s,
                  [type |-> "kCapabilitiesResponse",
                   sequence_number |-> Head(toReceiver[s]).sequence_number,
                   valid |-> RemotingEnabled])
    <3>. DEFINE n == Head(toReceiver[s]).sequence_number
                m == [type |-> "kCapabilitiesResponse", sequence_number |-> n,
                      valid |-> RemotingEnabled]
    <3>1. /\ toReceiver[s] # <<>> /\ toReceiver[s] \in Seq(ReceiverMail)
          /\ Posted(toReceiver[s], session[s], callbacks[s])
      BY SenderBasics, Zenon DEF Passing, Consuming
    <3>2. 1 \in DOMAIN toReceiver[s] /\ Head(toReceiver[s]) = toReceiver[s][1]
      BY <3>1, TailFacts, Zenon
    <3>3. n \in 1 .. session[s].sequence /\ Asked(session[s], callbacks[s], n, "kCapabilitiesResponse")
      BY <2>2, <3>1, <3>2, Zenon DEF Posted
    <3>4. session[s].sequence \in Nat
      BY SenderBasics, Zenon
    <3>5. m \in SenderMail /\ m.type = "kCapabilitiesResponse" /\ m.sequence_number = n
      <4>. DEFINE e == RemotingEnabled
      <4>1. n \in Nat /\ e \in BOOLEAN
        BY <3>3, <3>4, RemotingAssumption
      <4>. HIDE DEF n, e
      <4>2. m \in [type : {"kCapabilitiesResponse"}, sequence_number : Nat, valid : BOOLEAN]
        BY <4>1, Zenon DEF e
      <4>3. m \in SenderMail
        BY <4>2, Zenon DEF SenderMail
      <4>. QED
        BY <4>3, Zenon
    <3>. HIDE DEF m, n
    <3>6. toSender' = Post(toSender, s, m)
      BY <2>2, Zenon DEF m, n
    <3>7. /\ toSender' \in [Senders -> Seq(SenderMail)]
          /\ \A t \in Senders : Replied(toSender'[t], session[t], callbacks[t])
          /\ Extends(toSender, s, m, toSender')
          /\ \A t \in Senders : \A i \in DOMAIN toSender[t] :
               i \in DOMAIN toSender'[t] /\ toSender'[t][i] = toSender[t][i]
      BY <3>3, <3>5, <3>6, <1>PostingOne, Zenon
    <3>. QED
      BY <3>5, <3>7, Zenon DEF Extends
  <2>. QED
    BY <2>1, <2>2, Zenon DEF Passing

\* An RPC message goes to the sender negotiated with, and is no ANSWER.
<1>SendingRpcFacts.
  ASSUME RequestsInv, SenderTyped, Partner, ReceiverSendRpc
  PROVE  /\ toSender' \in [Senders -> Seq(SenderMail)]
         /\ \A t \in Senders : Replied(toSender'[t], session[t], callbacks[t])
         /\ \A t \in Senders : \A i \in DOMAIN toSender'[t] :
              \/ i \in DOMAIN toSender[t] /\ toSender'[t][i] = toSender[t][i]
              \/ toSender'[t][i].type # "kAnswer"
         /\ \A t \in Senders : \A i \in DOMAIN toSender[t] :
              i \in DOMAIN toSender'[t] /\ toSender'[t][i] = toSender[t][i]
  <2>. USE <1>SendingRpcFacts
  <2>. DEFINE m == [type |-> "kRpc"]
  <2>1. m \in SenderMail /\ m.type = "kRpc"
    BY Zenon DEF SenderMail
  <2>2. negotiated \in Senders /\ toSender' = Post(toSender, negotiated, m)
    BY Zenon DEF Partner, ReceiverSendRpc
  <2>. HIDE DEF m
  <2>3. /\ toSender' \in [Senders -> Seq(SenderMail)]
        /\ \A t \in Senders : Replied(toSender'[t], session[t], callbacks[t])
        /\ Extends(toSender, negotiated, m, toSender')
        /\ \A t \in Senders : \A i \in DOMAIN toSender[t] :
             i \in DOMAIN toSender'[t] /\ toSender'[t][i] = toSender[t][i]
    BY <2>1, <2>2, <1>PostingOne, Zenon
  <2>. QED
    BY <2>1, <2>3, Zenon DEF Extends

\* The replies each outcome of OnOffer() and of the wait sends are proper.
<1>RepliesProper.
  ASSUME RequestsInv, SenderTyped
  PROVE  /\ Proper(NoReply) /\ Proper(Interruption)
         /\ \A s \in Senders : OfferNext(s) =>
              /\ Proper(Answer(Taken(s)))
              /\ \A code \in Codes : Proper(Refused(Taken(s), code))
         /\ pending # none =>
              /\ Proper(Answer(pending))
              /\ \A code \in Codes : Proper(Refused(pending, code))
  <2>. USE <1>RepliesProper
  <2>1. Proper(NoReply)
    BY Zenon DEF Proper
  <2>2. Proper(Interruption)
    BY <1>InterruptionFacts, Zenon
  <2>3. ASSUME NEW s \in Senders, OfferNext(s)
        PROVE  /\ Proper(Answer(Taken(s)))
               /\ \A code \in Codes : Proper(Refused(Taken(s), code))
    <3>1. Made(Taken(s))
      BY <2>3, <1>TakenFacts, Zenon
    <3>. QED
      BY <3>1, <1>ProperReplies, Zenon
  <2>4. ASSUME pending # none
        PROVE  /\ Proper(Answer(pending))
               /\ \A code \in Codes : Proper(Refused(pending, code))
    BY <2>4, <1>WaitingFacts, <1>ProperReplies, Zenon
  <2>. QED
    BY <2>1, <2>2, <2>3, <2>4, ZenonT(60)

\* A step of the receiver keeps RequestsInv: it replies only to what was asked.
<1>ReceiverRequests.
  ASSUME RequestsInv, SenderTyped, Partner, ReceiverAct, UNCHANGED senderVars
  PROVE  RequestsInv' /\ SenderTyped'
  <2>. USE <1>ReceiverRequests
  <2>0. /\ "kSocketClosedFailure" \in Codes /\ "kSocketFailure" \in Codes
    BY Zenon DEF Codes
  <2>1. ASSUME NEW s \in Senders, NEW code \in Codes, Refusing(s, code)
        PROVE  RequestsInv' /\ SenderTyped'
    <3>1. SendAnswers(NoReply, Refused(Taken(s), code)) /\ Proper(NoReply)
          /\ Proper(Refused(Taken(s), code))
      BY <2>1, <1>RepliesProper, Zenon DEF Refusing
    <3>2. /\ toSender' \in [Senders -> Seq(SenderMail)]
          /\ \A t \in Senders : Replied(toSender'[t], session[t], callbacks[t])
      BY <3>1, <1>SendAnswersFacts, Zenon
    <3>. QED
      BY <2>1, <3>2, <1>ReceiverStepRequests, Zenon DEF Refusing
  <2>2. ASSUME NEW s \in Senders, Closed(s)
        PROVE  RequestsInv' /\ SenderTyped'
    <3>1. SendAnswers(Interruption, Refused(Taken(s), "kSocketClosedFailure"))
          /\ Proper(Interruption) /\ Proper(Refused(Taken(s), "kSocketClosedFailure"))
      BY <2>0, <2>2, <1>RepliesProper, Zenon DEF Closed
    <3>2. /\ toSender' \in [Senders -> Seq(SenderMail)]
          /\ \A t \in Senders : Replied(toSender'[t], session[t], callbacks[t])
      BY <3>1, <1>SendAnswersFacts, Zenon
    <3>. QED
      BY <2>2, <3>2, <1>ReceiverStepRequests, Zenon DEF Closed
  <2>3. ASSUME NEW s \in Senders, Accepting(s)
        PROVE  RequestsInv' /\ SenderTyped'
    <3>1. SendAnswers(Interruption, Answer(Taken(s)))
          /\ Proper(Interruption) /\ Proper(Answer(Taken(s)))
      BY <2>3, <1>RepliesProper, Zenon DEF Accepting
    <3>2. /\ toSender' \in [Senders -> Seq(SenderMail)]
          /\ \A t \in Senders : Replied(toSender'[t], session[t], callbacks[t])
      BY <3>1, <1>SendAnswersFacts, Zenon
    <3>. QED
      BY <2>3, <3>2, <1>ReceiverStepRequests, Zenon DEF Accepting
  <2>4. ASSUME NEW s \in Senders, Postponing(s)
        PROVE  RequestsInv' /\ SenderTyped'
    <3>1. SendAnswers(Interruption, NoReply) /\ Proper(Interruption) /\ Proper(NoReply)
      BY <2>4, <1>RepliesProper, Zenon DEF Postponing
    <3>2. /\ toSender' \in [Senders -> Seq(SenderMail)]
          /\ \A t \in Senders : Replied(toSender'[t], session[t], callbacks[t])
      BY <3>1, <1>SendAnswersFacts, Zenon
    <3>. QED
      BY <2>4, <3>2, <1>ReceiverStepRequests, Zenon DEF Postponing
  <2>5. ASSUME NEW s \in Senders, Passing(s)
        PROVE  RequestsInv' /\ SenderTyped'
    <3>1. /\ toSender' \in [Senders -> Seq(SenderMail)]
          /\ \A t \in Senders : Replied(toSender'[t], session[t], callbacks[t])
      BY <2>5, <1>PassingFacts, Zenon
    <3>2. Consuming(s) /\ pending' = pending
      BY <2>5, Zenon DEF Passing
    <3>. QED
      BY <3>1, <3>2, <1>ReceiverStepRequests, Zenon
  <2>6. CASE Ready
    <3>1. SendAnswers(NoReply, Answer(pending)) /\ Proper(NoReply) /\ Proper(Answer(pending))
      BY <2>6, <1>RepliesProper, Zenon DEF Ready
    <3>2. /\ toSender' \in [Senders -> Seq(SenderMail)]
          /\ \A t \in Senders : Replied(toSender'[t], session[t], callbacks[t])
      BY <3>1, <1>SendAnswersFacts, Zenon
    <3>. QED
      BY <2>6, <3>2, <1>ReceiverStepRequests, Zenon DEF Ready
  <2>7. CASE Failed
    <3>1. SendAnswers(NoReply, Refused(pending, "kSocketFailure"))
          /\ Proper(NoReply) /\ Proper(Refused(pending, "kSocketFailure"))
      BY <2>0, <2>7, <1>RepliesProper, Zenon DEF Failed
    <3>2. /\ toSender' \in [Senders -> Seq(SenderMail)]
          /\ \A t \in Senders : Replied(toSender'[t], session[t], callbacks[t])
      BY <3>1, <1>SendAnswersFacts, Zenon
    <3>. QED
      BY <2>7, <3>2, <1>ReceiverStepRequests, Zenon DEF Failed
  <2>8. ASSUME toSender' = toSender, toReceiver' = toReceiver, pending' \in {none, pending}
        PROVE  RequestsInv' /\ SenderTyped'
    <3>1. /\ toSender' \in [Senders -> Seq(SenderMail)]
          /\ \A t \in Senders : Replied(toSender'[t], session[t], callbacks[t])
      BY <2>8, Zenon DEF RequestsInv, SenderTyped
    <3>. QED
      BY <2>8, <3>1, <1>ReceiverStepRequests, Zenon
  <2>9. CASE SocketOnly
    BY <2>8, <2>9, Zenon DEF SocketOnly
  <2>10. CASE ReceiverSendRpc
    <3>1. /\ toSender' \in [Senders -> Seq(SenderMail)]
          /\ \A t \in Senders : Replied(toSender'[t], session[t], callbacks[t])
      BY <2>10, <1>SendingRpcFacts, Zenon
    <3>2. toReceiver' = toReceiver /\ pending' = pending
      BY <2>10, Zenon DEF ReceiverSendRpc, receiverVars
    <3>. QED
      BY <3>1, <3>2, <1>ReceiverStepRequests, Zenon
  <2>11. CASE DestroyReceiverSession
    BY <2>8, <2>11, Zenon DEF DestroyReceiverSession, channels
  <2>. QED
    BY <2>1, <2>2, <2>3, <2>4, <2>5, <2>6, <2>7, <2>9, <2>10, <2>11, <1>ReceiverActFacts, ZenonT(60)

\* The ANSWERs to an OFFER are counted.
<1>CountNat.
  ASSUME RequestsInv, SenderTyped, CountsInv, NEW s \in Senders, NEW n \in OffersOf(s)
  PROVE  /\ n \in 1 .. session[s].sequence /\ n \in 1 .. MaxSequence[s]
         /\ answers[s][n] \in Nat
  <2>. USE <1>CountNat
  <2>1. /\ n \in 1 .. session[s].sequence
    BY OffersOfFacts, Zenon
  <2>2. /\ MaxSequence[s] \in Nat /\ session[s].sequence \in Nat
        /\ session[s].sequence <= MaxSequence[s]
    BY SenderBasics, Zenon
  <2>3. n \in 1 .. MaxSequence[s]
    BY <2>1, <2>2
  <2>. QED
    BY <2>1, <2>3, Zenon DEF CountsInv

\* A step of the receiver that leaves every OFFER there as often as it was.
<1>ReceiverStepCounts.
  ASSUME RequestsInv, SenderTyped, CountsInv, UNCHANGED senderVars, AnswersTyped(answers'),
         alive' => alive,
         \A t \in Senders : \A n \in OffersOf(t) :
           IF alive' THEN Count(t, n)' = Count(t, n)
                     ELSE Count(t, n)' \in Nat /\ Count(t, n)' <= Count(t, n)
  PROVE  CountsInv'
  <2>. USE <1>ReceiverStepCounts
  <2>1. session' = session /\ callbacks' = callbacks
    BY Zenon DEF senderVars
  <2>2. AnswersTyped(answers)'
    BY <2>1, Zenon DEF AnswersTyped
  <2>3. ASSUME NEW t \in Senders, NEW n \in OffersOf(t)'
        PROVE  (IF alive THEN Count(t, n) = 1 ELSE Count(t, n) <= 1)'
    <3>1. n \in OffersOf(t)
      BY <2>1, <2>3, Zenon DEF OffersOf
    <3>2. IF alive THEN Count(t, n) = 1 ELSE Count(t, n) <= 1
      BY <3>1, CountsInvFacts, Zenon
    <3>3. Count(t, n) \in Nat
      BY <3>1, <1>CountNat, SMTT(30) DEF Count, Ones
    <3>. QED
      BY <3>1, <3>2, <3>3
  <2>. QED
    BY <2>2, <2>3, CountsInvNext, Zenon

\* Nothing is replied to; OFFERs are lost only when the session is destroyed.
<1>SilentCounts.
  ASSUME RequestsInv, SenderTyped, CountsInv, UNCHANGED senderVars, UNCHANGED answers,
         alive' => alive,
         alive' => \A t \in Senders : \A n \in OffersOf(t) :
           /\ OfferUnderWay(t, n)' <=> OfferUnderWay(t, n)
           /\ IsPending(t, n)' <=> IsPending(t, n),
         \A t \in Senders : \A n \in OffersOf(t) :
           /\ OfferUnderWay(t, n)' => OfferUnderWay(t, n)
           /\ IsPending(t, n)' => IsPending(t, n)
  PROVE  CountsInv'
  <2>. USE <1>SilentCounts
  <2>1. AnswersTyped(answers')
    BY CountsInvFacts, Zenon
  <2>2. ASSUME NEW t \in Senders, NEW n \in OffersOf(t)
        PROVE  IF alive' THEN Count(t, n)' = Count(t, n)
                         ELSE Count(t, n)' \in Nat /\ Count(t, n)' <= Count(t, n)
    <3>1. answers[t][n] \in Nat
      BY <2>2, <1>CountNat, Zenon
    <3>2. CASE alive'
      BY <3>2, Zenon DEF Count, Ones
    <3>3. CASE ~alive'
      <4>1. Count(t, n)' = answers[t][n] + Ones(OfferUnderWay(t, n)') + Ones(IsPending(t, n)')
        BY Zenon DEF Count, Ones
      <4>2. /\ OfferUnderWay(t, n)' => OfferUnderWay(t, n)
            /\ IsPending(t, n)' => IsPending(t, n)
        BY Zenon
      <4>. HIDE DEF OfferUnderWay, IsPending
      <4>. QED
        BY <3>1, <3>3, <4>1, <4>2, SMTT(30) DEF Count, Ones
    <3>. QED
      BY <3>2, <3>3, Zenon
  <2>. QED
    BY <2>1, <2>2, <1>ReceiverStepCounts, Zenon

\* A step of the receiver keeps CountsInv: it answers what it takes, or lets it wait.
<1>ReceiverCounts.
  /\ RequestsInv
  /\ SenderTyped
  /\ Partner
  /\ CountsInv
  /\ ReceiverAct
  /\ UNCHANGED senderVars
  => CountsInv'
  \* A reply adds one to the ANSWERs to its OFFER.
  <2>CountedFacts.
    ASSUME RequestsInv, SenderTyped, NEW a, AnswersTyped(a), NEW reply, Proper(reply)
    PROVE  /\ AnswersTyped(Counted(a, reply))
           /\ \A t \in Senders : \A n \in 1 .. MaxSequence[t] :
                Counted(a, reply)[t][n] = a[t][n] + Ones(Hits(reply, t, n))
    <3>. USE <2>CountedFacts
    <3>1. CASE reply = NoReply
      <4>1. Counted(a, reply) = a
        BY <3>1, Zenon DEF Counted
      <4>2. \A t, n : ~Hits(reply, t, n)
        BY <3>1, Zenon DEF Hits
      <4>3. \A t \in Senders : \A n \in 1 .. MaxSequence[t] : a[t][n] \in Nat
        BY Zenon DEF AnswersTyped
      <4>. QED
        BY <4>1, <4>2, <4>3 DEF Ones
    <3>2. CASE reply # NoReply
      <4>. DEFINE s == reply.to
                  k == reply.message.sequence_number
                  b == [a[s] EXCEPT ![k] = a[s][k] + 1]
                  new == Counted(a, reply)
      <4>1. s \in Senders /\ k \in 1 .. session[s].sequence
        BY <3>2, Zenon DEF Proper
      <4>2. new = [a EXCEPT ![s] = b]
        BY <3>2, Zenon DEF Counted
      <4>. HIDE DEF s, k, new
      <4>3. /\ MaxSequence[s] \in Nat /\ session[s].sequence \in Nat
            /\ session[s].sequence <= MaxSequence[s]
        BY <4>1, SenderBasics, Zenon
      <4>4. k \in 1 .. MaxSequence[s] /\ k <= session[s].sequence
        BY <4>1, <4>3
      <4>5. /\ a = [t \in Senders |-> a[t]]
            /\ \A t \in Senders :
                 /\ a[t] \in [1 .. MaxSequence[t] -> Nat]
                 /\ \A n \in 1 .. MaxSequence[t] : n > session[t].sequence => a[t][n] = 0
        BY Zenon DEF AnswersTyped
      <4>6. /\ b \in [1 .. MaxSequence[s] -> Nat]
            /\ \A n \in 1 .. MaxSequence[s] : b[n] = a[s][n] + (IF n = k THEN 1 ELSE 0)
        <5>. DEFINE f == a[s]
                    max == MaxSequence[s]
        <5>1. f \in [1 .. max -> Nat] /\ k \in 1 .. max
          BY <4>1, <4>4, <4>5, Zenon
        <5>. HIDE DEF f, max
        <5>2. b = [f EXCEPT ![k] = f[k] + 1]
          BY Zenon DEF f
        <5>. HIDE DEF b
        <5>3. b \in [1 .. max -> Nat]
          BY <5>1, <5>2
        <5>4. \A n \in 1 .. max : b[n] = f[n] + (IF n = k THEN 1 ELSE 0)
          BY <5>1, <5>2
        <5>. QED
          BY <5>3, <5>4, Zenon DEF f, max
      <4>7. \A n \in 1 .. MaxSequence[s] : n > session[s].sequence => b[n] = 0
        BY <4>1, <4>3, <4>4, <4>5, <4>6
      <4>. HIDE DEF b
      <4>8. /\ new = [t \in Senders |-> new[t]] /\ new[s] = b
            /\ \A t \in Senders \ {s} : new[t] = a[t]
        BY <4>1, <4>2, <4>5, Zenon
      <4>9. AnswersTyped(new)
        BY <4>5, <4>6, <4>7, <4>8, ZenonT(60) DEF AnswersTyped
      <4>10. ASSUME NEW t \in Senders, NEW n \in 1 .. MaxSequence[t]
             PROVE  new[t][n] = a[t][n] + Ones(Hits(reply, t, n))
        <5>1. Hits(reply, t, n) <=> t = s /\ n = k
          BY <3>2, Zenon DEF Hits, s, k
        <5>2. a[t][n] \in Nat
          BY <4>5, Zenon
        <5>3. CASE t = s
          BY <4>6, <4>8, <5>1, <5>3, Zenon DEF Ones
        <5>4. CASE t # s
          BY <4>8, <5>1, <5>2, <5>4 DEF Ones
        <5>. QED
          BY <5>3, <5>4, Zenon
      <4>. QED
        BY <4>9, <4>10, Zenon DEF new
    <3>. QED
      BY <3>1, <3>2, Zenon

  \* Two replies add one each to the ANSWERs to their OFFERs.
  <2>SendAnswersCounts.
    ASSUME RequestsInv, SenderTyped, CountsInv, NEW first, NEW second,
           Proper(first), Proper(second), SendAnswers(first, second)
    PROVE  /\ AnswersTyped(answers')
           /\ \A t \in Senders : \A n \in 1 .. MaxSequence[t] :
                answers'[t][n] = answers[t][n] + Ones(Hits(first, t, n)) + Ones(Hits(second, t, n))
    <3>. USE <2>SendAnswersCounts
    <3>. DEFINE half == Counted(answers, first)
                new == Counted(half, second)
    <3>1. AnswersTyped(answers) /\ answers' = new
      BY CountsInvFacts, Zenon DEF SendAnswers
    <3>. HIDE DEF new, half
    <3>2. /\ AnswersTyped(half)
          /\ \A t \in Senders : \A n \in 1 .. MaxSequence[t] :
               half[t][n] = answers[t][n] + Ones(Hits(first, t, n))
      BY <3>1, <2>CountedFacts, Zenon DEF half
    <3>3. /\ AnswersTyped(new)
          /\ \A t \in Senders : \A n \in 1 .. MaxSequence[t] :
               new[t][n] = half[t][n] + Ones(Hits(second, t, n))
      BY <3>2, <2>CountedFacts, ZenonT(60) DEF new
    <3>. QED
      BY <3>1, <3>2, <3>3, Zenon

  \* The OFFER that is taken is no longer under way; every other one still is.
  <2>ConsumingUnderWay.
    ASSUME RequestsInv, SenderTyped, NEW s \in Senders, Consuming(s),
           NEW t \in Senders, NEW n
    PROVE  OfferUnderWay(t, n)' <=>
             /\ OfferUnderWay(t, n)
             /\ ~(t = s /\ Head(toReceiver[s]).type = "kOffer"
                        /\ Head(toReceiver[s]).sequence_number = n)
    <3>. USE <2>ConsumingUnderWay
    <3>. DEFINE q0 == toReceiver[s]
                q == Tail(q0)
                m == Head(q0)
                offer(x) == x.type = "kOffer" /\ x.sequence_number = n
    <3>1. /\ toReceiver \in [Senders -> Seq(ReceiverMail)] /\ q0 \in Seq(ReceiverMail)
          /\ q0 # <<>> /\ toReceiver' = [toReceiver EXCEPT ![s] = q]
          /\ Posted(q0, session[s], callbacks[s]) /\ session[s].sequence \in Nat
      BY SenderBasics, Zenon DEF RequestsInv, Consuming
    <3>2. /\ Len(q0) \in Nat \ {0} /\ DOMAIN q0 = 1 .. Len(q0)
          /\ DOMAIN q = 1 .. Len(q0) - 1 /\ 1 \in DOMAIN q0 /\ m = q0[1]
          /\ \A i \in DOMAIN q : i + 1 \in DOMAIN q0 /\ q[i] = q0[i + 1]
      BY <3>1, TailFacts, Zenon
    <3>3. \A i \in DOMAIN q : q[i].sequence_number > m.sequence_number
      BY <3>1, <1>PostedTail, Zenon
    <3>4. \A i \in DOMAIN q0 : q0[i].sequence_number \in 1 .. session[s].sequence
      BY <3>1, Zenon DEF Posted
    <3>. HIDE DEF q, m
    <3>5. \A i \in DOMAIN q : q[i].sequence_number # m.sequence_number
      <4>1. ASSUME NEW i \in DOMAIN q
            PROVE  q[i].sequence_number # m.sequence_number
        <5>1. q[i].sequence_number \in Int /\ m.sequence_number \in Int
          BY <3>2, <3>4, SMTT(30)
        <5>. QED
          BY <3>3, <5>1
      <4>. QED
        BY <4>1, Zenon
    <3>6. \A i \in DOMAIN q0 : i = 1 \/ (i - 1 \in DOMAIN q /\ q[i - 1] = q0[i])
      BY <3>2, SMTT(60)
    <3>7. (\E i \in DOMAIN q : offer(q[i])) <=> (\E i \in DOMAIN q0 : offer(q0[i])) /\ ~offer(m)
      <4>1. ASSUME NEW i \in DOMAIN q, offer(q[i])
            PROVE  (\E j \in DOMAIN q0 : offer(q0[j])) /\ ~offer(m)
        BY <3>2, <3>5, <4>1, Zenon
      <4>2. ASSUME NEW i \in DOMAIN q0, offer(q0[i]), ~offer(m)
            PROVE  \E j \in DOMAIN q : offer(q[j])
        BY <3>2, <3>6, <4>2, Zenon
      <4>. QED
        BY <4>1, <4>2, Zenon
    <3>8. CASE t = s
      <4>1. toReceiver'[s] = q
        BY <3>1, Zenon
      <4>. QED
        BY <3>7, <3>8, <4>1, Zenon DEF OfferUnderWay, m
    <3>9. CASE t # s
      <4>1. toReceiver'[t] = toReceiver[t]
        BY <3>1, <3>9, Zenon
      <4>. QED
        BY <3>9, <4>1, Zenon DEF OfferUnderWay
    <3>. QED
      BY <3>8, <3>9, Zenon

  \* OnOffer(): the OFFER that was under way is replied to or waits, and the one that
  \* waited is replied to if it does not wait any more.
  <2>OfferCounts.
    ASSUME RequestsInv, SenderTyped, CountsInv, UNCHANGED senderVars, NEW s \in Senders,
           OfferNext(s), Consuming(s), UNCHANGED alive,
           NEW first, NEW second, Proper(first), Proper(second), SendAnswers(first, second),
           \A t \in Senders : \A n \in OffersOf(t) :
             /\ Hits(first, t, n) <=> IsPending(t, n) /\ pending' # pending
             /\ Ones(Hits(second, t, n)) + Ones(IsPending(t, n)')
                  = Ones(t = s /\ n = Taken(s).sequence_number)
                      + Ones(IsPending(t, n) /\ pending' = pending)
    PROVE  CountsInv'
    <3>. USE <2>OfferCounts
    <3>1. /\ AnswersTyped(answers')
          /\ \A t \in Senders : \A n \in 1 .. MaxSequence[t] :
               answers'[t][n] = answers[t][n] + Ones(Hits(first, t, n)) + Ones(Hits(second, t, n))
      BY <2>SendAnswersCounts, SMTT(30)
    <3>2. alive /\ Head(toReceiver[s]).type = "kOffer" /\ toReceiver[s] # <<>>
      BY Zenon DEF OfferNext
    <3>3. Taken(s).sequence_number = Head(toReceiver[s]).sequence_number
      BY <1>TakenFacts, ZenonT(60)
    <3>4. ASSUME NEW t \in Senders, NEW n \in OffersOf(t)
          PROVE  Count(t, n)' = Count(t, n)
      <4>. DEFINE here == t = s /\ n = Taken(s).sequence_number
                  u == Ones(OfferUnderWay(t, n))
                  v == Ones(OfferUnderWay(t, n)')
                  w == Ones(IsPending(t, n))
                  x == Ones(IsPending(t, n)')
                  f == Ones(Hits(first, t, n))
                  g == Ones(Hits(second, t, n))
                  a == answers[t][n]
      <4>1. n \in 1 .. MaxSequence[t] /\ a \in Nat
        BY <3>4, <1>CountNat, Zenon
      <4>2. answers'[t][n] = a + f + g
        BY <3>1, <4>1, Zenon
      <4>3. OfferUnderWay(t, n)' <=> OfferUnderWay(t, n) /\ ~here
        BY <3>2, <3>3, <2>ConsumingUnderWay, ZenonT(60)
      <4>4. here => OfferUnderWay(t, n)
        <5>1. toReceiver[s] \in Seq(ReceiverMail)
          BY SenderBasics, Zenon
        <5>2. 1 \in DOMAIN toReceiver[s] /\ Head(toReceiver[s]) = toReceiver[s][1]
          BY <3>2, <5>1, TailFacts, ZenonT(60)
        <5>. QED
          BY <3>2, <3>3, <5>2, Zenon DEF OfferUnderWay
      <4>5. u = v + Ones(here)
        BY <4>3, <4>4 DEF Ones
      <4>6. w = f + Ones(IsPending(t, n) /\ pending' = pending)
        BY DEF Ones
      <4>7. g + x = Ones(here) + Ones(IsPending(t, n) /\ pending' = pending)
        BY Zenon
      <4>8. /\ u \in Nat /\ v \in Nat /\ w \in Nat /\ x \in Nat /\ f \in Nat /\ g \in Nat
            /\ Ones(here) \in Nat /\ Ones(IsPending(t, n) /\ pending' = pending) \in Nat
        BY Zenon DEF Ones
      <4>9. Count(t, n) = a + u + w
        BY Zenon DEF Count
      <4>10. Count(t, n)' = answers'[t][n] + v + x
        BY Zenon DEF Count, Ones
      <4>. HIDE DEF u, v, w, x, f, g, a, here
      <4>. QED
        BY ONLY <4>1, <4>2, <4>5, <4>6, <4>7, <4>8, <4>9, <4>10, SMTT(30)
    <3>. QED
      BY <3>1, <3>2, <3>4, <1>ReceiverStepCounts, ZenonT(60)

  \* The OFFER that waited is replied to.
  <2>WaitEndsCounts.
    ASSUME RequestsInv, SenderTyped, CountsInv, UNCHANGED senderVars, UNCHANGED toReceiver,
           alive, UNCHANGED alive, pending # none, pending' = none,
           NEW reply, Proper(reply), reply # NoReply, reply.to = pending.sender,
           reply.message.sequence_number = pending.sequence_number, SendAnswers(NoReply, reply)
    PROVE  CountsInv'
    <3>. USE <2>WaitEndsCounts
    <3>1. Proper(NoReply)
      BY Zenon DEF Proper
    <3>2. /\ AnswersTyped(answers')
          /\ \A t \in Senders : \A n \in 1 .. MaxSequence[t] :
               answers'[t][n] = answers[t][n] + Ones(Hits(NoReply, t, n)) + Ones(Hits(reply, t, n))
      BY <3>1, <2>SendAnswersCounts, ZenonT(60)
    <3>3. ASSUME NEW t \in Senders, NEW n \in OffersOf(t)
          PROVE  Count(t, n)' = Count(t, n)
      <4>. DEFINE w == Ones(IsPending(t, n))
                  u == Ones(OfferUnderWay(t, n))
                  a == answers[t][n]
      <4>1. n \in 1 .. MaxSequence[t] /\ a \in Nat
        BY <3>3, <1>CountNat, Zenon
      <4>2. Hits(reply, t, n) <=> IsPending(t, n)
        BY Zenon DEF Hits, IsPending
      <4>3. Ones(Hits(NoReply, t, n)) = 0
        BY Zenon DEF Ones, Hits
      <4>4. answers'[t][n] = a + 0 + w
        BY <3>2, <4>1, <4>2, <4>3, Zenon DEF Ones
      <4>5. OfferUnderWay(t, n)' <=> OfferUnderWay(t, n)
        BY Zenon DEF OfferUnderWay
      <4>6. ~IsPending(t, n)'
        BY Zenon DEF IsPending
      <4>7. u \in Nat /\ w \in Nat
        BY Zenon DEF Ones
      <4>8. Count(t, n) = a + u + w
        BY Zenon DEF Count
      <4>9. Count(t, n)' = answers'[t][n] + u + 0
        BY <4>5, <4>6, Zenon DEF Count, Ones
      <4>. HIDE DEF u, w, a
      <4>. QED
        BY <4>1, <4>4, <4>7, <4>8, <4>9
    <3>. QED
      BY <3>2, <3>3, <1>ReceiverStepCounts, ZenonT(60)

  \* The OFFER that comes next is not the one that waits.
  <2>TakenIsNew.
    ASSUME RequestsInv, SenderTyped, NEW s \in Senders, OfferNext(s)
    PROVE  Taken(s) # none /\ Taken(s) # pending
    <3>. USE <2>TakenIsNew
    <3>1. /\ Taken(s) \in PendingOffers /\ Taken(s).sender = s
          /\ Taken(s).sequence_number = Head(toReceiver[s]).sequence_number
          /\ Taken(s).sequence_number \in Nat
      BY <1>TakenFacts, <1>PendingFacts, Zenon DEF Made
    <3>2. Taken(s) # none
      BY <3>1, NoneAssumption, Zenon
    <3>3. ASSUME Taken(s) = pending
          PROVE  FALSE
      <4>1. toReceiver[s] \in Seq(ReceiverMail) /\ toReceiver[s] # <<>>
        BY SenderBasics, Zenon DEF OfferNext
      <4>2. 1 \in DOMAIN toReceiver[s] /\ Head(toReceiver[s]) = toReceiver[s][1]
        BY <4>1, TailFacts, Zenon
      <4>3. pending # none /\ pending.sender = s
        BY <3>1, <3>2, <3>3, Zenon
      <4>4. toReceiver[s][1].sequence_number > pending.sequence_number
        BY <4>2, <4>3, SenderBasics, Zenon
      <4>. QED
        BY <3>1, <3>3, <4>2, <4>4
    <3>. QED
      BY <3>2, <3>3, Zenon

  \* The OFFER a reply is for.
  <2>HitsFacts.
    ASSUME NEW p, Made(p), NEW t, NEW n
    PROVE  /\ Hits(Answer(p), t, n) <=> t = p.sender /\ n = p.sequence_number
           /\ \A code \in Codes :
                Hits(Refused(p, code), t, n) <=> t = p.sender /\ n = p.sequence_number
           /\ ~Hits(NoReply, t, n)
    BY <2>HitsFacts, <1>ProperReplies, Zenon DEF Hits

  \* The interruption answers the OFFER that was waiting.
  <2>InterruptionHits.
    ASSUME RequestsInv, NEW t, NEW n
    PROVE  Hits(Interruption, t, n) <=> IsPending(t, n)
    <3>. USE <2>InterruptionHits
    <3>1. CASE pending = none
      BY <3>1, <1>InterruptionFacts, Zenon DEF Hits, IsPending
    <3>2. CASE pending # none
      <4>1. Made(pending)
        BY <3>2, <1>WaitingFacts, Zenon
      <4>2. "kInterrupted" \in Codes
        BY Zenon DEF Codes
      <4>3. Hits(Refused(pending, "kInterrupted"), t, n)
              <=> t = pending.sender /\ n = pending.sequence_number
        BY <4>1, <4>2, <2>HitsFacts, Zenon
      <4>. QED
        BY <3>2, <4>3, <1>InterruptionFacts, ZenonT(60) DEF IsPending
    <3>. QED
      BY <3>1, <3>2, Zenon

  <2>. SUFFICES ASSUME RequestsInv, SenderTyped, Partner, CountsInv, ReceiverAct, UNCHANGED senderVars
                PROVE  CountsInv'
    BY Zenon
  <2>0. /\ "kSocketClosedFailure" \in Codes /\ "kSocketFailure" \in Codes
        /\ Proper(NoReply) /\ Proper(Interruption) /\ \A t, n : ~Hits(NoReply, t, n)
    BY <1>RepliesProper, Zenon DEF Codes, Hits
  <2>1. ASSUME NEW s \in Senders, NEW code \in Codes, Refusing(s, code)
        PROVE  CountsInv'
    <3>. DEFINE p == Taken(s)
                reply == Refused(p, code)
    <3>1. /\ OfferNext(s) /\ Consuming(s) /\ alive' = alive /\ SendAnswers(NoReply, reply)
          /\ pending' = pending
      BY <2>1, Zenon DEF Refusing
    <3>2. Made(p) /\ p.sender = s /\ Proper(reply)
      BY <3>1, <1>TakenFacts, <1>RepliesProper, ZenonT(60)
    <3>. HIDE DEF p
    <3>3. \A t, n : Hits(reply, t, n) <=> t = s /\ n = p.sequence_number
      BY <3>2, <2>HitsFacts, Zenon
    <3>. HIDE DEF reply
    <3>4. \A t \in Senders : \A n \in OffersOf(t) :
            /\ Hits(NoReply, t, n) <=> IsPending(t, n) /\ pending' # pending
            /\ Ones(Hits(reply, t, n)) + Ones(IsPending(t, n)')
                 = Ones(t = s /\ n = p.sequence_number)
                     + Ones(IsPending(t, n) /\ pending' = pending)
      BY <2>0, <3>1, <3>3, ZenonT(60) DEF Ones, IsPending
    <3>. QED
      BY <2>0, <3>1, <3>2, <3>4, <2>OfferCounts, SMTT(60) DEF p
  <2>2. ASSUME NEW s \in Senders, OfferNext(s), Consuming(s), alive' = alive, pending' = none,
               NEW reply, SendAnswers(Interruption, reply), Proper(reply),
               \A t, n : Hits(reply, t, n) <=> t = s /\ n = Taken(s).sequence_number
        PROVE  CountsInv'
    <3>. DEFINE p == Taken(s)
    <3>1. \A t, n : Hits(Interruption, t, n) <=> IsPending(t, n)
      BY <2>InterruptionHits, Zenon
    <3>2. \A t, n : ~IsPending(t, n)' /\ ~(IsPending(t, n) /\ pending' = pending)
      BY <2>2, Zenon DEF IsPending
    <3>. HIDE DEF p
    <3>3. \A t, n : Hits(reply, t, n) <=> t = s /\ n = p.sequence_number
      BY <2>2, Zenon DEF p
    <3>4. \A t \in Senders : \A n \in OffersOf(t) :
            /\ Hits(Interruption, t, n) <=> IsPending(t, n) /\ pending' # pending
            /\ Ones(Hits(reply, t, n)) + Ones(IsPending(t, n)')
                 = Ones(t = s /\ n = p.sequence_number)
                     + Ones(IsPending(t, n) /\ pending' = pending)
      BY <3>1, <3>2, <3>3 DEF Ones
    <3>. QED
      BY <2>0, <2>2, <3>4, <2>OfferCounts, ZenonT(60) DEF p
  <2>3. ASSUME NEW s \in Senders, Closed(s)
        PROVE  CountsInv'
    <3>. DEFINE reply == Refused(Taken(s), "kSocketClosedFailure")
    <3>1. /\ OfferNext(s) /\ Consuming(s) /\ alive' = alive /\ pending' = none
          /\ SendAnswers(Interruption, reply)
      BY <2>3, Zenon DEF Closed
    <3>2. Made(Taken(s)) /\ Taken(s).sender = s /\ Proper(reply)
      BY <2>0, <3>1, <1>TakenFacts, <1>RepliesProper, ZenonT(60)
    <3>3. \A t, n : Hits(reply, t, n) <=> t = s /\ n = Taken(s).sequence_number
      BY <2>0, <3>2, <2>HitsFacts, ZenonT(60)
    <3>. HIDE DEF reply
    <3>. QED
      BY <2>2, <3>1, <3>2, <3>3, ZenonT(60)
  <2>4. ASSUME NEW s \in Senders, Accepting(s)
        PROVE  CountsInv'
    <3>. DEFINE reply == Answer(Taken(s))
    <3>1. /\ OfferNext(s) /\ Consuming(s) /\ alive' = alive /\ pending' = none
          /\ SendAnswers(Interruption, reply)
      BY <2>4, Zenon DEF Accepting
    <3>2. Made(Taken(s)) /\ Taken(s).sender = s /\ Proper(reply)
      BY <3>1, <1>TakenFacts, <1>RepliesProper, ZenonT(60)
    <3>3. \A t, n : Hits(reply, t, n) <=> t = s /\ n = Taken(s).sequence_number
      BY <3>2, <2>HitsFacts, ZenonT(60)
    <3>. HIDE DEF reply
    <3>. QED
      BY <2>2, <3>1, <3>2, <3>3
  <2>5. ASSUME NEW s \in Senders, Postponing(s)
        PROVE  CountsInv'
    <3>. DEFINE p == Taken(s)
    <3>1. /\ OfferNext(s) /\ Consuming(s) /\ alive' = alive /\ SendAnswers(Interruption, NoReply)
          /\ pending' = p
      BY <2>5, Zenon DEF Postponing
    <3>2. p # none /\ p # pending /\ p.sender = s
      BY <3>1, <1>TakenFacts, <2>TakenIsNew, ZenonT(60)
    <3>. HIDE DEF p
    <3>3. \A t, n : Hits(Interruption, t, n) <=> IsPending(t, n)
      BY <2>InterruptionHits
    <3>4. \A t, n : IsPending(t, n)' <=> t = s /\ n = p.sequence_number
      BY <3>1, <3>2, ZenonT(60) DEF IsPending
    <3>5. \A t \in Senders : \A n \in OffersOf(t) :
            /\ Hits(Interruption, t, n) <=> IsPending(t, n) /\ pending' # pending
            /\ Ones(Hits(NoReply, t, n)) + Ones(IsPending(t, n)')
                 = Ones(t = s /\ n = p.sequence_number)
                     + Ones(IsPending(t, n) /\ pending' = pending)
      BY <2>0, <3>1, <3>2, <3>3, <3>4, SMTT(60) DEF Ones
    <3>. QED
      BY <2>0, <3>1, <3>5, <2>OfferCounts, SMTT(60) DEF p
  <2>6. ASSUME NEW s \in Senders, Passing(s)
        PROVE  CountsInv'
    <3>1. /\ Consuming(s) /\ ~OfferNext(s) /\ answers' = answers /\ alive' = alive
          /\ pending' = pending /\ toReceiver[s] # <<>>
      BY <2>6, Zenon DEF Passing, Consuming
    <3>2. \A t \in Senders : \A n :
            OfferUnderWay(t, n)' <=>
              /\ OfferUnderWay(t, n)
              /\ ~(t = s /\ Head(toReceiver[s]).type = "kOffer"
                         /\ Head(toReceiver[s]).sequence_number = n)
      BY <3>1, <2>ConsumingUnderWay, Zenon
    <3>3. alive => Head(toReceiver[s]).type # "kOffer"
      BY <3>1, Zenon DEF OfferNext
    <3>4. \A t, n : IsPending(t, n)' <=> IsPending(t, n)
      BY <3>1, Zenon DEF IsPending
    <3>. QED
      BY <3>1, <3>2, <3>3, <3>4, <1>SilentCounts, ZenonT(60)
  <2>7. CASE Ready
    <3>1. /\ alive /\ alive' = alive /\ pending # none /\ pending' = none
          /\ SendAnswers(NoReply, Answer(pending)) /\ toReceiver' = toReceiver
      BY <2>7, Zenon DEF Ready
    <3>2. Made(pending)
      BY <3>1, <1>WaitingFacts, Zenon
    <3>3. /\ Proper(Answer(pending)) /\ Answer(pending) # NoReply
          /\ Answer(pending).to = pending.sender
          /\ Answer(pending).message.sequence_number = pending.sequence_number
      BY <3>2, <1>ProperReplies, Zenon
    <3>. QED
      BY <3>1, <3>3, <2>WaitEndsCounts, ZenonT(60)
  <2>8. CASE Failed
    <3>. DEFINE reply == Refused(pending, "kSocketFailure")
    <3>1. /\ alive /\ alive' = alive /\ pending # none /\ pending' = none
          /\ SendAnswers(NoReply, reply) /\ toReceiver' = toReceiver
      BY <2>8, Zenon DEF Failed
    <3>2. Made(pending)
      BY <3>1, <1>WaitingFacts, Zenon
    <3>3. /\ Proper(reply) /\ reply # NoReply /\ reply.to = pending.sender
          /\ reply.message.sequence_number = pending.sequence_number
      BY <2>0, <3>2, <1>ProperReplies, ZenonT(60)
    <3>. HIDE DEF reply
    <3>. QED
      BY <3>1, <3>3, <2>WaitEndsCounts, Zenon
  <2>9. ASSUME answers' = answers, alive' => alive, toReceiver' = toReceiver,
               pending' = pending \/ (~alive' /\ pending' = none)
        PROVE  CountsInv'
    <3>1. \A t, n : OfferUnderWay(t, n)' <=> OfferUnderWay(t, n)
      BY <2>9, Zenon DEF OfferUnderWay
    <3>2. \A t, n : /\ IsPending(t, n)' => IsPending(t, n)
                    /\ alive' => (IsPending(t, n)' <=> IsPending(t, n))
      BY <2>9, Zenon DEF IsPending
    <3>. QED
      BY <2>9, <3>1, <3>2, <1>SilentCounts, ZenonT(60)
  <2>10. CASE SocketOnly
    BY <2>9, <2>10, Zenon DEF SocketOnly
  <2>11. CASE ReceiverSendRpc
    BY <2>9, <2>11, Zenon DEF ReceiverSendRpc, receiverVars
  <2>12. CASE DestroyReceiverSession
    BY <2>9, <2>12, Zenon DEF DestroyReceiverSession, channels
  <2>. QED
    BY <2>1, <2>3, <2>4, <2>5, <2>6, <2>7, <2>8, <2>10, <2>11, <2>12, <1>ReceiverActFacts, ZenonT(60)

\* An OFFER that is taken, if awaited, is that of the current negotiation.
<1>TakenGenuine.
  ASSUME RequestsInv, SenderTyped, AnswersInv, NEW s \in Senders, OfferNext(s)
  PROVE  Genuine(Taken(s))
  <2>. USE <1>TakenGenuine
  <2>. DEFINE m == Head(toReceiver[s])
  <2>1. /\ Taken(s) = Properties(s, m.sequence_number, m.body) /\ Taken(s).sender = s
        /\ Taken(s).sequence_number = m.sequence_number
        /\ m.sequence_number \in 1 .. session[s].sequence
    BY <1>TakenFacts, Zenon DEF Made
  <2>2. toReceiver[s] \in Seq(ReceiverMail) /\ toReceiver[s] # <<>> /\ m.type = "kOffer"
    BY SenderBasics, Zenon DEF OfferNext
  <2>3. 1 \in DOMAIN toReceiver[s] /\ m = toReceiver[s][1]
    BY <2>2, TailFacts, Zenon
  <2>4. CurrentOf(s, session[s], pending, toReceiver[s], toSender[s])
    BY AnswersOf, Zenon
  <2>. HIDE DEF m
  <2>5. Request(m.sequence_number, "kAnswer") \in session[s].awaiting =>
          m.body = session[s].negotiation.offer
    BY <2>1, <2>2, <2>3, <2>4, ZenonT(60) DEF CurrentOf
  <2>. QED
    BY <2>1, <2>5, Zenon DEF Genuine

\* An OFFER that waits, if awaited, is that of the current negotiation.
<1>WaitingGenuine.
  ASSUME RequestsInv, SenderTyped, AnswersInv, pending # none
  PROVE  Genuine(pending)
  <2>. USE <1>WaitingGenuine
  <2>1. /\ pending.sender \in Senders
        /\ pending.sequence_number \in 1 .. session[pending.sender].sequence
    BY <1>WaitingFacts, <1>PendingFacts, Zenon DEF Made
  <2>2. CurrentOf(pending.sender, session[pending.sender], pending, toReceiver[pending.sender],
                  toSender[pending.sender])
    BY <2>1, AnswersOf, Zenon
  <2>. QED
    BY <2>1, <2>2, ZenonT(60) DEF CurrentOf, Genuine

\* What a step of the receiver has to establish to keep AnswersInv.
<1>ReceiverStepAnswers.
  ASSUME RequestsInv, SenderTyped, AnswersInv, UNCHANGED senderVars,
         toReceiver' = toReceiver \/ \E s \in Senders : Consuming(s),
         pending' \in {none, pending} \/ Genuine(pending'),
         \A t \in Senders : \A i \in DOMAIN toSender'[t] :
           \/ \E j \in DOMAIN toSender[t] : toSender'[t][i] = toSender[t][j]
           \/ Honest(t, toSender'[t][i])
  PROVE  AnswersInv'
  <2>. USE <1>ReceiverStepAnswers
  <2>1. session' = session
    BY Zenon DEF senderVars
  <2>2. ASSUME NEW t \in Senders
        PROVE  \A i \in DOMAIN toReceiver'[t] :
                 \E j \in DOMAIN toReceiver[t] : toReceiver'[t][i] = toReceiver[t][j]
    <3>1. CASE toReceiver' = toReceiver
      BY <3>1, Zenon
    <3>2. ASSUME NEW s \in Senders, Consuming(s)
          PROVE  \A i \in DOMAIN toReceiver'[t] :
                   \E j \in DOMAIN toReceiver[t] : toReceiver'[t][i] = toReceiver[t][j]
      <4>1. /\ toReceiver \in [Senders -> Seq(ReceiverMail)] /\ toReceiver[s] # <<>>
            /\ toReceiver' = [toReceiver EXCEPT ![s] = Tail(toReceiver[s])]
        BY <3>2, Zenon DEF RequestsInv, Consuming
      <4>2. \A i \in DOMAIN Tail(toReceiver[s]) :
              \E j \in DOMAIN toReceiver[s] : Tail(toReceiver[s])[i] = toReceiver[s][j]
        BY <4>1, TailWithin
      <4>3. toReceiver'[t] = IF t = s THEN Tail(toReceiver[s]) ELSE toReceiver[t]
        BY <4>1, Zenon
      <4>. QED
        BY <4>2, <4>3, Zenon
    <3>. QED
      BY <3>1, <3>2, Zenon
  <2>3. ASSUME NEW t \in Senders
        PROVE  Current(t)' /\ Negotiated(t)' /\ LinedUp(session[t])'
    <3>. DEFINE d == session[t]
    <3>1. /\ CurrentOf(t, d, pending, toReceiver[t], toSender[t])
          /\ NegotiatedOf(d) /\ LinedUp(d)
      BY AnswersOf, Zenon
    <3>2. ASSUME NEW n \in 1 .. d.sequence, Request(n, "kAnswer") \in d.awaiting
          PROVE  /\ Sensible(d.negotiation)
                 /\ \A i \in DOMAIN toReceiver'[t] :
                      toReceiver'[t][i].type = "kOffer" /\ toReceiver'[t][i].sequence_number = n
                        => toReceiver'[t][i].body = d.negotiation.offer
                 /\ pending' # none /\ pending'.sender = t /\ pending'.sequence_number = n
                      => pending' = Properties(t, n, d.negotiation.offer)
                 /\ \A i \in DOMAIN toSender'[t] :
                      /\ toSender'[t][i].type = "kAnswer" /\ toSender'[t][i].valid
                      /\ toSender'[t][i].sequence_number = n
                      => toSender'[t][i].body = ConstructAnswer(Properties(t, n, d.negotiation.offer))
      <4>1. /\ Sensible(d.negotiation)
            /\ \A i \in DOMAIN toReceiver[t] :
                 toReceiver[t][i].type = "kOffer" /\ toReceiver[t][i].sequence_number = n
                   => toReceiver[t][i].body = d.negotiation.offer
            /\ pending # none /\ pending.sender = t /\ pending.sequence_number = n
                 => pending = Properties(t, n, d.negotiation.offer)
            /\ \A i \in DOMAIN toSender[t] :
                 toSender[t][i].type = "kAnswer" /\ toSender[t][i].valid
                     /\ toSender[t][i].sequence_number = n
                   => toSender[t][i].body = ConstructAnswer(Properties(t, n, d.negotiation.offer))
        BY <3>1, <3>2, Zenon DEF CurrentOf
      <4>2. \A p : Genuine(p) /\ p.sender = t /\ p.sequence_number = n
                     => p = Properties(t, n, d.negotiation.offer)
        BY <3>2, ZenonT(60) DEF Genuine
      <4>3. \A i \in DOMAIN toReceiver'[t] :
              toReceiver'[t][i].type = "kOffer" /\ toReceiver'[t][i].sequence_number = n
                => toReceiver'[t][i].body = d.negotiation.offer
        BY <2>2, <4>1, SMTT(30)
      <4>4. pending' # none /\ pending'.sender = t /\ pending'.sequence_number = n
              => pending' = Properties(t, n, d.negotiation.offer)
        BY <4>1, <4>2, ZenonT(60)
      <4>5. ASSUME NEW i \in DOMAIN toSender'[t], toSender'[t][i].type = "kAnswer",
                   toSender'[t][i].valid, toSender'[t][i].sequence_number = n
            PROVE  toSender'[t][i].body = ConstructAnswer(Properties(t, n, d.negotiation.offer))
        BY <4>1, <4>2, <4>5, SMTT(30) DEF Honest
      <4>. QED
        BY <4>1, <4>3, <4>4, <4>5, ZenonT(60)
    <3>3. CurrentOf(t, session'[t], pending', toReceiver'[t], toSender'[t])
      BY <2>1, <3>2, Zenon DEF CurrentOf
    <3>4. LinedUp(session[t])'
      BY <2>1, <3>1, ZenonT(60) DEF LinedUp, Kinds
    <3>. QED
      BY <2>1, <3>1, <3>3, <3>4, CurrentNext, NegotiatedNext, ZenonT(60)
  <2>. QED
    BY <2>3, AnswersInvNext, Zenon

\* A step of the receiver keeps AnswersInv.
<1>ReceiverAnswers.
  /\ RequestsInv
  /\ SenderTyped
  /\ Partner
  /\ AnswersInv
  /\ ReceiverAct
  /\ UNCHANGED senderVars
  => AnswersInv'
  \* Refusals say nothing of the streams; an ANSWER to the current OFFER is made from it.
  <2>HonestReplies.
    ASSUME NEW p, Made(p)
    PROVE  /\ \A code \in Codes : Honest(p.sender, Refused(p, code).message)
           /\ Genuine(p) => Honest(p.sender, Answer(p).message)
    BY <2>HonestReplies, <1>ProperReplies, Zenon DEF Honest

  \* A step of the receiver that replies to OFFERs.
  <2>ReplyingAnswers.
    ASSUME RequestsInv, SenderTyped, AnswersInv, UNCHANGED senderVars,
           toReceiver' = toReceiver \/ \E s \in Senders : Consuming(s),
           pending' \in {none, pending} \/ Genuine(pending'),
           NEW first, NEW second, Proper(first), Proper(second), SendAnswers(first, second),
           first # NoReply => Honest(first.to, first.message),
           second # NoReply => Honest(second.to, second.message)
    PROVE  AnswersInv'
    <3>. USE <2>ReplyingAnswers
    <3>1. \A t \in Senders : \A i \in DOMAIN toSender'[t] :
            \/ i \in DOMAIN toSender[t] /\ toSender'[t][i] = toSender[t][i]
            \/ first # NoReply /\ t = first.to /\ toSender'[t][i] = first.message
            \/ second # NoReply /\ t = second.to /\ toSender'[t][i] = second.message
      BY <1>SendAnswersFacts, SMTT(30)
    <3>2. \A t \in Senders : \A i \in DOMAIN toSender'[t] :
            \/ \E j \in DOMAIN toSender[t] : toSender'[t][i] = toSender[t][j]
            \/ Honest(t, toSender'[t][i])
      BY <3>1, Zenon
    <3>. QED
      BY <3>2, <1>ReceiverStepAnswers, ZenonT(60)

  <2>. SUFFICES ASSUME RequestsInv, SenderTyped, Partner, AnswersInv, ReceiverAct, UNCHANGED senderVars
                PROVE  AnswersInv'
    OBVIOUS
  <2>0. /\ "kSocketClosedFailure" \in Codes /\ "kSocketFailure" \in Codes /\ "kInterrupted" \in Codes
        /\ Proper(NoReply) /\ Proper(Interruption)
    BY <1>RepliesProper, Zenon DEF Codes
  <2>1. Interruption # NoReply => Honest(Interruption.to, Interruption.message)
    <3>1. SUFFICES ASSUME pending # none
                   PROVE  Honest(Interruption.to, Interruption.message)
      BY <1>InterruptionFacts, Zenon
    <3>2. Made(pending) /\ Interruption = Refused(pending, "kInterrupted")
      BY <3>1, <1>WaitingFacts, <1>InterruptionFacts, Zenon
    <3>. QED
      BY <2>0, <3>2, <1>ProperReplies, <2>HonestReplies, ZenonT(60)
  <2>2. ASSUME NEW s \in Senders, OfferNext(s)
        PROVE  LET p == Taken(s)
               IN  /\ Genuine(p)
                   /\ Proper(Answer(p)) /\ Honest(Answer(p).to, Answer(p).message)
                   /\ \A code \in Codes :
                        /\ Proper(Refused(p, code))
                        /\ Honest(Refused(p, code).to, Refused(p, code).message)
    <3>. DEFINE p == Taken(s)
    <3>1. Made(p) /\ Genuine(p)
      BY <2>2, <1>TakenFacts, <1>TakenGenuine, Zenon
    <3>. HIDE DEF p
    <3>2. /\ Proper(Answer(p)) /\ Honest(Answer(p).to, Answer(p).message)
          /\ \A code \in Codes :
               Proper(Refused(p, code)) /\ Honest(Refused(p, code).to, Refused(p, code).message)
      BY <3>1, <1>ProperReplies, <2>HonestReplies, Zenon
    <3>. QED
      BY <3>1, <3>2, Zenon DEF p
  <2>3. ASSUME NEW s \in Senders, NEW code \in Codes, Refusing(s, code)
        PROVE  AnswersInv'
    BY <2>0, <2>2, <2>3, <2>ReplyingAnswers, ZenonT(60) DEF Refusing
  <2>4. ASSUME NEW s \in Senders, Closed(s)
        PROVE  AnswersInv'
    BY <2>0, <2>1, <2>2, <2>4, <2>ReplyingAnswers, ZenonT(60) DEF Closed
  <2>5. ASSUME NEW s \in Senders, Accepting(s)
        PROVE  AnswersInv'
    BY <2>0, <2>1, <2>2, <2>5, <2>ReplyingAnswers, ZenonT(60) DEF Accepting
  <2>6. ASSUME NEW s \in Senders, Postponing(s)
        PROVE  AnswersInv'
    BY <2>0, <2>1, <2>2, <2>6, <2>ReplyingAnswers, ZenonT(60) DEF Postponing
  <2>7. ASSUME pending # none
        PROVE  LET p == pending
               IN  /\ Proper(Answer(p)) /\ Honest(Answer(p).to, Answer(p).message)
                   /\ \A code \in Codes :
                        /\ Proper(Refused(p, code))
                        /\ Honest(Refused(p, code).to, Refused(p, code).message)
    BY <2>7, <1>WaitingFacts, <1>WaitingGenuine, <1>ProperReplies, <2>HonestReplies, ZenonT(60)
  <2>8. CASE Ready
    BY <2>0, <2>7, <2>8, <2>ReplyingAnswers, ZenonT(60) DEF Ready
  <2>9. CASE Failed
    BY <2>0, <2>7, <2>9, <2>ReplyingAnswers, ZenonT(60) DEF Failed
  <2>10. ASSUME NEW s \in Senders, Passing(s)
         PROVE  AnswersInv'
    <3>1. \A t \in Senders : \A i \in DOMAIN toSender'[t] :
            \/ \E j \in DOMAIN toSender[t] : toSender'[t][i] = toSender[t][j]
            \/ Honest(t, toSender'[t][i])
      BY <2>10, <1>PassingFacts, Zenon DEF Honest
    <3>. QED
      BY <2>10, <3>1, <1>ReceiverStepAnswers, ZenonT(60) DEF Passing
  <2>11. CASE ReceiverSendRpc
    <3>1. \A t \in Senders : \A i \in DOMAIN toSender'[t] :
            \/ \E j \in DOMAIN toSender[t] : toSender'[t][i] = toSender[t][j]
            \/ Honest(t, toSender'[t][i])
      BY <2>11, <1>SendingRpcFacts, Zenon DEF Honest
    <3>. QED
      BY <2>11, <3>1, <1>ReceiverStepAnswers, ZenonT(60) DEF ReceiverSendRpc, receiverVars
  <2>12. ASSUME toSender' = toSender, toReceiver' = toReceiver, pending' \in {none, pending}
         PROVE  AnswersInv'
    BY <2>12, <1>ReceiverStepAnswers, Zenon
  <2>13. CASE SocketOnly
    BY <2>12, <2>13, Zenon DEF SocketOnly
  <2>14. CASE DestroyReceiverSession
    BY <2>12, <2>14, Zenon DEF DestroyReceiverSession, channels
  <2>. QED
    BY <2>3, <2>4, <2>5, <2>6, <2>8, <2>9, <2>10, <2>11, <2>13, <2>14, <1>ReceiverActFacts, ZenonT(60)

\* A step of the receiver that accepts no OFFER.
<1>ReceiverStepAgreed.
  ASSUME RequestsInv, SenderTyped, AgreedInv, UNCHANGED senderVars,
         UNCHANGED <<negotiated, receivers, accepted>> \/ ~alive', alive' => alive,
         \A t \in Senders : Answered(t)' => Answered(t),
         toReceiver' = toReceiver \/ \E s \in Senders : Consuming(s),
         \/ pending' \in {none, pending}
         \/ \E s \in Senders : pending'.sender = s /\ ~Answered(s)
  PROVE  AgreedInv'
  <2>. USE <1>ReceiverStepAgreed
  <2>1. session' = session
    BY Zenon DEF senderVars
  <2>2. ASSUME NEW t \in Senders
        PROVE  \A i \in DOMAIN toReceiver'[t] :
                 \E j \in DOMAIN toReceiver[t] : toReceiver'[t][i] = toReceiver[t][j]
    <3>1. CASE toReceiver' = toReceiver
      BY <3>1, Zenon
    <3>2. ASSUME NEW s \in Senders, Consuming(s)
          PROVE  \A i \in DOMAIN toReceiver'[t] :
                   \E j \in DOMAIN toReceiver[t] : toReceiver'[t][i] = toReceiver[t][j]
      <4>1. /\ toReceiver \in [Senders -> Seq(ReceiverMail)] /\ toReceiver[s] # <<>>
            /\ toReceiver' = [toReceiver EXCEPT ![s] = Tail(toReceiver[s])]
        BY <3>2, ZenonT(60) DEF RequestsInv, Consuming
      <4>2. \A i \in DOMAIN Tail(toReceiver[s]) :
              \E j \in DOMAIN toReceiver[s] : Tail(toReceiver[s])[i] = toReceiver[s][j]
        <5>1. PICK q \in Seq(ReceiverMail) : q = toReceiver[s] /\ q # <<>>
          BY <4>1, Zenon
        <5>2. \A i \in DOMAIN Tail(q) : \E j \in DOMAIN q : Tail(q)[i] = q[j]
          BY <5>1, TailWithin, Zenon
        <5>. QED
          BY ONLY <5>1, <5>2, Zenon
      <4>3. toReceiver'[t] = IF t = s THEN Tail(toReceiver[s]) ELSE toReceiver[t]
        BY <4>1, Zenon
      <4>. QED
        BY <4>2, <4>3, Zenon
    <3>. QED
      BY <3>1, <3>2, Zenon
  <2>3. ASSUME NEW t \in Senders
        PROVE  Agreed(t)'
    <3>1. SUFFICES ASSUME Answered(t)'
                   PROVE  /\ \A i \in DOMAIN toReceiver'[t] : toReceiver'[t][i].type # "kOffer"
                          /\ pending' = none \/ pending'.sender # t
                          /\ alive' /\ negotiated' = t =>
                               ReceiversOf(t, session'[t].negotiation, accepted'.mode, receivers')
      BY AgreedNext, Zenon
    <3>2. /\ Answered(t)
          /\ \A i \in DOMAIN toReceiver[t] : toReceiver[t][i].type # "kOffer"
          /\ pending = none \/ pending.sender # t
          /\ alive /\ negotiated = t =>
               ReceiversOf(t, session[t].negotiation, accepted.mode, receivers)
      BY <3>1, AgreedFacts, Zenon DEF AgreedInv
    <3>Same. \A i \in DOMAIN toReceiver'[t] :
               \E j \in DOMAIN toReceiver[t] : toReceiver'[t][i] = toReceiver[t][j]
      BY <2>2, Zenon
    <3>NoOffer. \A i \in DOMAIN toReceiver[t] : toReceiver[t][i].type # "kOffer"
      BY <3>2, Zenon
    <3>3. \A i \in DOMAIN toReceiver'[t] : toReceiver'[t][i].type # "kOffer"
      BY ONLY <3>Same, <3>NoOffer, Zenon
    <3>4. pending' = none \/ pending'.sender # t
      BY <3>2, Zenon
    <3>5. alive' /\ negotiated' = t =>
            ReceiversOf(t, session'[t].negotiation, accepted'.mode, receivers')
      BY <2>1, <3>2, Zenon
    <3>. QED
      BY <3>3, <3>4, <3>5, Zenon
  <2>. QED
    BY <2>3, Zenon DEF AgreedInv

\* No reply accepts an OFFER: nobody is answered that was not before.
<1>NobodyAnswered.
  ASSUME RequestsInv, UNCHANGED senderVars, NEW t \in Senders,
         \A i \in DOMAIN toSender'[t] :
           \/ i \in DOMAIN toSender[t] /\ toSender'[t][i] = toSender[t][i]
           \/ toSender'[t][i].type # "kAnswer"
           \/ ~toSender'[t][i].valid
  PROVE  Answered(t)' => Answered(t)
  <2>. USE <1>NobodyAnswered
  <2>1. session' = session
    BY Zenon DEF senderVars
  <2>2. AnsweredOf(session'[t], toSender'[t]) => AnsweredOf(session[t], toSender[t])
    BY <2>1, Zenon DEF AnsweredOf
  <2>. QED
    BY <2>2, AnsweredFacts, Zenon

\* A step of the receiver keeps AgreedInv: Receivers are made with the ANSWER.
<1>ReceiverAgreed.
  /\ RequestsInv
  /\ SenderTyped
  /\ Partner
  /\ AnswersInv
  /\ AgreedInv
  /\ ReceiverAct
  /\ UNCHANGED senderVars
  => AgreedInv'
  \* OFFER p of a sender is accepted: p is an OFFER that was not replied to.
  <2>AcceptingAgreed.
    ASSUME RequestsInv, SenderTyped, AgreedInv, UNCHANGED senderVars,
           NEW p, Made(p), Genuine(p), ~Answered(p.sender), pending' = none,
           NEW first, Proper(first), first # NoReply => ~first.message.valid,
           SendAnswers(first, Answer(p)), InitializeSession(p), alive, UNCHANGED alive,
           \/ UNCHANGED toReceiver
           \/ Consuming(p.sender) /\ Head(toReceiver[p.sender]).type = "kOffer",
           \A i \in DOMAIN toReceiver'[p.sender] :
             toReceiver'[p.sender][i].sequence_number > p.sequence_number,
           \A i \in DOMAIN toReceiver'[p.sender] :
             \E j \in DOMAIN toReceiver[p.sender] :
               toReceiver'[p.sender][i] = toReceiver[p.sender][j]
    PROVE  AgreedInv'
    <3>. USE <2>AcceptingAgreed
    <3>. DEFINE s == p.sender
                n == p.sequence_number
    <3>1. session' = session
      BY Zenon DEF senderVars
    <3>2. /\ s \in Senders /\ n \in 1 .. session[s].sequence /\ Proper(Answer(p))
          /\ Answer(p) # NoReply /\ Answer(p).to = s
          /\ Answer(p).message.sequence_number = n
      BY <1>PendingFacts, <1>ProperReplies, ZenonT(60) DEF Made
    <3>3. \A t \in Senders : \A i \in DOMAIN toSender'[t] :
            \/ i \in DOMAIN toSender[t] /\ toSender'[t][i] = toSender[t][i]
            \/ first # NoReply /\ t = first.to /\ toSender'[t][i] = first.message
            \/ Answer(p) # NoReply /\ t = Answer(p).to /\ toSender'[t][i] = Answer(p).message
      <4>1. PICK second : second = Answer(p)
        BY Zenon
      <4>2. /\ RequestsInv /\ SenderTyped /\ Proper(first) /\ Proper(second)
            /\ SendAnswers(first, second)
        BY <3>2, <4>1, Zenon
      <4>3. \A t \in Senders : \A i \in DOMAIN toSender'[t] :
              \/ i \in DOMAIN toSender[t] /\ toSender'[t][i] = toSender[t][i]
              \/ first # NoReply /\ t = first.to /\ toSender'[t][i] = first.message
              \/ second # NoReply /\ t = second.to /\ toSender'[t][i] = second.message
        BY ONLY <4>2, <1>SendAnswersFacts, SMTT(30)
      <4>. QED
        BY ONLY <4>1, <4>3, Zenon
    <3>4. negotiated' = s /\ accepted'.mode = p.mode
          /\ receivers' = [kind \in Kinds |-> ConstructReceiver(p, kind)]
      BY Zenon DEF InitializeSession, SpawnReceivers
    <3>5. ASSUME NEW t \in Senders, t # s
          PROVE  Agreed(t)'
      <4>1. SUFFICES ASSUME Answered(t)'
                     PROVE  \A i \in DOMAIN toReceiver'[t] : toReceiver'[t][i].type # "kOffer"
        BY <3>4, <3>5, AgreedNext, ZenonT(60)
      <4>2. \A i \in DOMAIN toSender'[t] :
              \/ i \in DOMAIN toSender[t] /\ toSender'[t][i] = toSender[t][i]
              \/ ~toSender'[t][i].valid
        BY <3>2, <3>3, <3>5, ZenonT(60)
      <4>3. Answered(t)
        BY <4>1, <4>2, <1>NobodyAnswered, ZenonT(60)
      <4>4. \A i \in DOMAIN toReceiver[t] : toReceiver[t][i].type # "kOffer"
        BY <4>3, AgreedFacts, Zenon DEF AgreedInv
      <4>5. toReceiver'[t] = toReceiver[t]
        BY <3>2, <3>5, Zenon DEF Consuming, RequestsInv
      <4>. QED
        BY <4>4, <4>5, Zenon
    <3>6. Agreed(s)'
      <4>1. SUFFICES ASSUME Answered(s)'
                     PROVE  /\ \A i \in DOMAIN toReceiver'[s] : toReceiver'[s][i].type # "kOffer"
                            /\ ReceiversOf(s, session'[s].negotiation, accepted'.mode, receivers')
        BY AgreedNext, Zenon
      <4>2. Request(n, "kAnswer") \in session[s].awaiting
        <5>1. AnsweredOf(session[s], toSender'[s]) /\ ~AnsweredOf(session[s], toSender[s])
          BY <3>1, <4>1, AnsweredFacts, ZenonT(60)
        <5>2. session[s].told # "OnNegotiated"
          BY <5>1, Zenon DEF AnsweredOf
        <5>3. PICK i \in DOMAIN toSender'[s] :
                /\ toSender'[s][i].type = "kAnswer" /\ toSender'[s][i].valid
                /\ Request(toSender'[s][i].sequence_number, "kAnswer") \in session[s].awaiting
          BY <5>1, <5>2, Zenon DEF AnsweredOf
        <5>4. ~(i \in DOMAIN toSender[s] /\ toSender'[s][i] = toSender[s][i])
          BY <5>1, <5>3, Zenon DEF AnsweredOf
        <5>5. toSender'[s][i] = Answer(p).message
          BY <3>2, <3>3, <5>3, <5>4, ZenonT(60)
        <5>. QED
          BY <3>2, <5>3, <5>5, Zenon
      <4>3. p = Properties(s, n, session[s].negotiation.offer)
        BY <4>2, Zenon DEF Genuine
      <4>4. ReceiversOf(s, session'[s].negotiation, accepted'.mode, receivers')
        <5>. DEFINE o == session[s].negotiation.offer
                    z == Properties(s, 0, o)
        <5>1. z.mode = o.cast_mode /\ z.selected = SelectStreams(o)
          BY ZenonT(60) DEF Properties, PendingOffer
        <5>2. p.mode = o.cast_mode /\ p.selected = SelectStreams(o)
          BY <4>3 DEF Properties, PendingOffer
        <5>. HIDE DEF z, o
        <5>3. \A kind : ConstructReceiver(p, kind) = ConstructReceiver(z, kind)
          BY <5>1, <5>2, Zenon DEF ConstructReceiver
        <5>4. [kind \in Kinds |-> ConstructReceiver(p, kind)]
                = [kind \in Kinds |-> ConstructReceiver(z, kind)]
          BY <5>3, ZenonT(60)
        <5>. QED
          BY <3>1, <3>4, <5>1, <5>2, <5>4, ZenonT(60) DEF ReceiversOf, z, o
      <4>5. ASSUME NEW i \in DOMAIN toReceiver'[s], toReceiver'[s][i].type = "kOffer"
            PROVE  FALSE
        <5>. DEFINE k == toReceiver'[s][i].sequence_number
        <5>1. PICK j \in DOMAIN toReceiver[s] : toReceiver'[s][i] = toReceiver[s][j]
          BY <4>5, Zenon
        <5>2. /\ Posted(toReceiver[s], session[s], callbacks[s]) /\ MaxSequence[s] \in Nat
              /\ Numbered(session[s], callbacks[s], MaxSequence[s])
              /\ session[s].sequence \in Nat /\ session[s].sequence <= MaxSequence[s]
          BY <3>2, SenderBasics, Zenon
        <5>3. k \in 1 .. session[s].sequence /\ Asked(session[s], callbacks[s], k, "kAnswer")
          BY <4>5, <5>1, <5>2, ZenonT(60) DEF Posted
        <5>4. k > n
          BY <4>5, ZenonT(60)
        <5>. HIDE DEF k
        <5>5. k \in 1 .. MaxSequence[s] /\ n \in 1 .. MaxSequence[s]
          <6>1. /\ session[s].sequence \in Nat /\ session[s].sequence <= MaxSequence[s]
                /\ MaxSequence[s] \in Nat
                /\ k \in 1 .. session[s].sequence /\ n \in 1 .. session[s].sequence
            BY <3>2, <5>2, <5>3, Zenon
          <6>. QED
            BY ONLY <6>1
        <5>6. k <= n
          BY <4>2, <5>2, <5>3, <5>5, ZenonT(60) DEF Numbered
        <5>. QED
          BY <5>4, <5>5, <5>6, SMTT(30)
      <4>. QED
        BY <4>4, <4>5, Zenon
    <3>. QED
      BY <3>5, <3>6, ZenonT(60) DEF AgreedInv

  \* An OFFER that comes next, or waits, was not replied to.
  <2>NotAnswered.
    ASSUME RequestsInv, SenderTyped, AgreedInv
    PROVE  /\ \A s \in Senders : OfferNext(s) => ~Answered(s)
           /\ pending # none => ~Answered(pending.sender)
    <3>. USE <2>NotAnswered
    <3>1. ASSUME NEW s \in Senders, OfferNext(s), Answered(s)
          PROVE  FALSE
      <4>1. \A i \in DOMAIN toReceiver[s] : toReceiver[s][i].type # "kOffer"
        BY <3>1, AgreedFacts, Zenon DEF AgreedInv
      <4>2. toReceiver[s] \in Seq(ReceiverMail) /\ toReceiver[s] # <<>>
            /\ Head(toReceiver[s]).type = "kOffer"
        BY <3>1, SenderBasics, Zenon DEF OfferNext
      <4>3. 1 \in DOMAIN toReceiver[s] /\ Head(toReceiver[s]) = toReceiver[s][1]
        BY <4>2, TailFacts, Zenon
      <4>. QED
        BY <4>1, <4>2, <4>3, ZenonT(60)
    <3>2. ASSUME pending # none, Answered(pending.sender)
          PROVE  FALSE
      <4>1. pending.sender \in Senders
        BY <3>2, <1>WaitingFacts, <1>PendingFacts, Zenon DEF Made
      <4>. QED
        BY <3>2, <4>1, AgreedFacts, Zenon DEF AgreedInv
    <3>. QED
      BY <3>1, <3>2, Zenon

  \* Replies that are refusals.
  <2>RefusalsAgreed.
    ASSUME RequestsInv, SenderTyped, AgreedInv, UNCHANGED senderVars,
           NEW first, NEW second, Proper(first), Proper(second), SendAnswers(first, second),
           first # NoReply => ~first.message.valid, second # NoReply => ~second.message.valid,
           UNCHANGED <<alive, negotiated, receivers, accepted>>,
           toReceiver' = toReceiver \/ \E s \in Senders : Consuming(s),
           \/ pending' \in {none, pending}
           \/ \E s \in Senders : pending'.sender = s /\ ~Answered(s)
    PROVE  AgreedInv'
    <3>. USE <2>RefusalsAgreed
    <3>1. \A t \in Senders : \A i \in DOMAIN toSender'[t] :
            \/ i \in DOMAIN toSender[t] /\ toSender'[t][i] = toSender[t][i]
            \/ first # NoReply /\ t = first.to /\ toSender'[t][i] = first.message
            \/ second # NoReply /\ t = second.to /\ toSender'[t][i] = second.message
      BY <1>SendAnswersFacts, ZenonT(60)
    <3>2. \A t \in Senders : Answered(t)' => Answered(t)
      BY <3>1, <1>NobodyAnswered, Zenon
    <3>. QED
      BY <3>2, <1>ReceiverStepAgreed, ZenonT(60)

  <2>. SUFFICES ASSUME RequestsInv, SenderTyped, Partner, AnswersInv, AgreedInv, ReceiverAct,
                       UNCHANGED senderVars
                PROVE  AgreedInv'
    BY Zenon
  <2>0. /\ "kSocketClosedFailure" \in Codes /\ "kSocketFailure" \in Codes /\ "kInterrupted" \in Codes
        /\ Proper(NoReply) /\ Proper(Interruption)
    BY <1>RepliesProper, Zenon DEF Codes
  <2>1. Interruption # NoReply => ~Interruption.message.valid
    BY <2>0, <1>WaitingFacts, <1>InterruptionFacts, <1>ProperReplies, ZenonT(60)
  <2>2. ASSUME NEW s \in Senders, OfferNext(s)
        PROVE  LET p == Taken(s)
               IN  /\ Made(p) /\ Genuine(p) /\ p.sender = s /\ ~Answered(s)
                   /\ \A code \in Codes :
                        Proper(Refused(p, code)) /\ ~Refused(p, code).message.valid
    BY <2>2, <1>TakenFacts, <1>TakenGenuine, <2>NotAnswered, <1>ProperReplies, ZenonT(60)
  <2>3. ASSUME NEW s \in Senders, NEW code \in Codes, Refusing(s, code)
        PROVE  AgreedInv'
    BY <2>0, <2>2, <2>3, <2>RefusalsAgreed, ZenonT(60) DEF Refusing, negotiationVars
  <2>4. ASSUME NEW s \in Senders, Closed(s)
        PROVE  AgreedInv'
    BY <2>0, <2>1, <2>2, <2>4, <2>RefusalsAgreed, ZenonT(60) DEF Closed, negotiationVars
  <2>5. ASSUME NEW s \in Senders, Postponing(s)
        PROVE  AgreedInv'
    BY <2>0, <2>1, <2>2, <2>5, <2>RefusalsAgreed, ZenonT(60) DEF Postponing, negotiationVars
  <2>6. ASSUME NEW s \in Senders, Accepting(s)
        PROVE  AgreedInv'
    <3>. DEFINE p == Taken(s)
    <3>1. /\ OfferNext(s) /\ Consuming(s) /\ SendAnswers(Interruption, Answer(p))
          /\ pending' = none /\ InitializeSession(p) /\ alive' = alive
      BY <2>6, Zenon DEF Accepting
    <3>2. /\ alive /\ Head(toReceiver[s]).type = "kOffer" /\ toReceiver[s] # <<>>
      BY <3>1, Zenon DEF OfferNext
    <3>3. Made(p) /\ Genuine(p) /\ p.sender = s /\ ~Answered(s)
          /\ p.sequence_number = Head(toReceiver[s]).sequence_number
      BY <2>2, <3>1, <1>TakenFacts, ZenonT(60)
    <3>4. /\ toReceiver[s] \in Seq(ReceiverMail)
          /\ Posted(toReceiver[s], session[s], callbacks[s])
          /\ toReceiver'[s] = Tail(toReceiver[s])
      BY <3>1, SenderBasics, ZenonT(60) DEF Consuming, RequestsInv
    <3>5. \A i \in DOMAIN Tail(toReceiver[s]) :
            /\ Tail(toReceiver[s])[i].sequence_number > Head(toReceiver[s]).sequence_number
            /\ \E j \in DOMAIN toReceiver[s] : Tail(toReceiver[s])[i] = toReceiver[s][j]
      BY <3>2, <3>4, <1>PostedTail, TailWithin, ZenonT(60)
    <3>6. \A i \in DOMAIN toReceiver'[s] :
            /\ toReceiver'[s][i].sequence_number > p.sequence_number
            /\ \E j \in DOMAIN toReceiver[s] : toReceiver'[s][i] = toReceiver[s][j]
      BY <3>3, <3>4, <3>5, ZenonT(60)
    <3>. HIDE DEF p
    <3>. QED
      BY <2>0, <2>1, <3>1, <3>2, <3>3, <3>6, <2>AcceptingAgreed, ZenonT(60)
  <2>7. CASE Ready
    <3>. DEFINE p == pending
    <3>1. /\ p # none /\ SendAnswers(NoReply, Answer(p)) /\ toReceiver' = toReceiver
          /\ pending' = none /\ InitializeSession(p) /\ alive /\ alive' = alive
      BY <2>7, Zenon DEF Ready
    <3>2. Made(p) /\ Genuine(p) /\ ~Answered(p.sender)
      BY <3>1, <1>WaitingFacts, <1>WaitingGenuine, <2>NotAnswered, ZenonT(60)
    <3>3. p.sender \in Senders
      BY <3>2, <1>PendingFacts, Zenon DEF Made
    <3>4. \A i \in DOMAIN toReceiver[p.sender] :
            toReceiver[p.sender][i].sequence_number > p.sequence_number
      BY <3>1, <3>3, SenderBasics, ZenonT(60)
    <3>5. \A i \in DOMAIN toReceiver'[p.sender] :
            /\ toReceiver'[p.sender][i].sequence_number > p.sequence_number
            /\ \E j \in DOMAIN toReceiver[p.sender] :
                 toReceiver'[p.sender][i] = toReceiver[p.sender][j]
      BY <3>1, <3>4, Zenon
    <3>. QED
      BY <2>0, <3>1, <3>2, <3>5, <2>AcceptingAgreed, ZenonT(60)
  <2>8. CASE Failed
    <3>1. /\ pending # none /\ SendAnswers(NoReply, Refused(pending, "kSocketFailure"))
          /\ pending' = none /\ UNCHANGED <<alive, toReceiver, negotiationVars>>
      BY <2>8, Zenon DEF Failed
    <3>2. /\ Proper(Refused(pending, "kSocketFailure"))
          /\ ~Refused(pending, "kSocketFailure").message.valid
      BY <2>0, <3>1, <1>WaitingFacts, <1>ProperReplies, ZenonT(60)
    <3>. QED
      BY <2>0, <3>1, <3>2, <2>RefusalsAgreed, ZenonT(60) DEF negotiationVars
  <2>9. ASSUME NEW s \in Senders, Passing(s)
        PROVE  AgreedInv'
    <3>1. \A t \in Senders : Answered(t)' => Answered(t)
      BY <2>9, <1>PassingFacts, <1>NobodyAnswered, ZenonT(60)
    <3>. QED
      BY <2>9, <3>1, <1>ReceiverStepAgreed, ZenonT(60) DEF Passing, negotiationVars
  <2>10. CASE ReceiverSendRpc
    <3>1. \A t \in Senders : Answered(t)' => Answered(t)
      BY <2>10, <1>SendingRpcFacts, <1>NobodyAnswered, ZenonT(60)
    <3>. QED
      BY <2>10, <3>1, <1>ReceiverStepAgreed, ZenonT(60) DEF ReceiverSendRpc, receiverVars
  <2>11. ASSUME toSender' = toSender, toReceiver' = toReceiver, pending' \in {none, pending},
                UNCHANGED <<negotiated, receivers, accepted>> \/ ~alive', alive' => alive
         PROVE  AgreedInv'
    <3>1. \A t \in Senders : Answered(t)' => Answered(t)
      BY <2>11, <1>NobodyAnswered, Zenon
    <3>. QED
      BY <2>11, <3>1, <1>ReceiverStepAgreed, ZenonT(60)
  <2>12. CASE SocketOnly
    BY <2>11, <2>12, Zenon DEF SocketOnly, negotiationVars
  <2>13. CASE DestroyReceiverSession
    BY <2>11, <2>13, Zenon DEF DestroyReceiverSession, channels
  <2>. QED
    BY <2>3, <2>4, <2>5, <2>6, <2>7, <2>8, <2>9, <2>10, <2>12, <2>13, <1>ReceiverActFacts

\* A step of the receiver keeps RemotingInv.
<1>ReceiverRemoting.
  /\ RequestsInv
  /\ SenderTyped
  /\ Partner
  /\ RemotingInv
  /\ ReceiverAct
  => RemotingInv' /\ Partner'
  \* There are Receivers for an OFFER of which a stream was selected.
  <2>ReceiversMade.
    ASSUME NEW p \in PendingOffers, p.selected # NoReceivers
    PROVE  SpawnReceivers(p) # NoReceivers
    <3>. USE <2>ReceiversMade
    <3>1. p.selected \in [Kinds -> Streams \cup {none}]
      BY <1>PendingFacts, Zenon
    <3>2. PICK kind \in Kinds : p.selected[kind] # none
      BY <3>1, Zenon DEF NoReceivers
    <3>. DEFINE stream == p.selected[kind]
    <3>3. stream \in Streams /\ stream # none
      BY <3>1, <3>2, Zenon
    <3>. HIDE DEF stream
    <3>4. /\ stream.ssrc \in Nat /\ stream.ssrc + 1 \in Nat
          /\ stream.codec \in ConfigCodecs \union {kNotSpecified}
      BY <3>3 DEF Streams
    <3>5. ConstructReceiver(p, kind) = [sender_ssrc |-> stream.ssrc,
            receiver_ssrc |-> stream.ssrc + 1, codec |-> stream.codec]
      BY <3>3, ZenonT(60) DEF ConstructReceiver, stream
    <3>6. ConstructReceiver(p, kind) \in ReceiverConfigs
      BY <3>4, <3>5 DEF ReceiverConfigs
    <3>7. ConstructReceiver(p, kind) # none
      BY <3>6, NoneAssumption, Zenon
    <3>. QED
      BY <3>7, Zenon DEF SpawnReceivers, NoReceivers

  \* InitializeSession() takes the RpcMessenger of an earlier negotiation away.
  <2>AcceptingRemoting.
    ASSUME RemotingInv, NEW p, Made(p), p.selected # NoReceivers, InitializeSession(p)
    PROVE  RemotingInv' /\ Partner'
    <3>. USE <2>AcceptingRemoting
    <3>1. /\ p \in PendingOffers /\ p.sender \in Senders
      BY <1>PendingFacts, Zenon DEF Made
    <3>2. /\ receivers' # NoReceivers /\ negotiated' = p.sender
          /\ accepted' = [sender |-> p.sender, mode |-> p.mode, sequence_number |-> p.sequence_number]
          /\ rpcMessenger' = RpcMessengerFor(p)
      BY <3>1, <2>ReceiversMade, Zenon DEF InitializeSession
    <3>3. rpcMessenger' # none =>
            /\ p.mode = kRemoting
            /\ rpcMessenger' = [sender |-> p.sender, sequence_number |-> p.sequence_number]
      BY <3>2, Zenon DEF RpcMessengerFor, RemotingInv
    <3>4. rpcMessenger' # none =>
            rpcMessenger'.sender = p.sender /\ rpcMessenger'.sequence_number = p.sequence_number
      BY <3>3
    <3>5. RemotingCurrent'
      BY <3>2, <3>3, <3>4, ZenonT(60) DEF RemotingCurrent, kRemoting
    <3>6. NoReceivers' = NoReceivers
      BY Zenon DEF NoReceivers, Kinds
    <3>. QED
      BY <3>1, <3>2, <3>5, <3>6, ZenonT(60) DEF RemotingInv, Partner

  <2>. SUFFICES ASSUME RequestsInv, SenderTyped, Partner, RemotingInv, ReceiverAct
                PROVE  RemotingInv' /\ Partner'
    BY Zenon
  <2>1. ASSUME UNCHANGED negotiationVars
        PROVE  RemotingInv' /\ Partner'
    BY <2>1, Zenon DEF negotiationVars, RemotingInv, RemotingCurrent, Partner, kRemoting, NoReceivers, Kinds
  <2>2. ASSUME NEW s \in Senders, Accepting(s)
        PROVE  RemotingInv' /\ Partner'
    BY <2>2, <1>TakenFacts, <2>AcceptingRemoting, Zenon DEF Accepting
  <2>3. CASE Ready
    BY <2>3, <1>WaitingFacts, <2>AcceptingRemoting, Zenon DEF Ready
  <2>4. CASE DestroyReceiverSession
    BY <2>4, Zenon DEF DestroyReceiverSession, RemotingInv, RemotingCurrent, Partner
  <2>5. CASE ReceiverSendRpc
    BY <2>1, <2>5, Zenon DEF ReceiverSendRpc, receiverVars, negotiationVars
  <2>. QED
    BY <2>1, <2>2, <2>3, <2>4, <2>5, <1>ReceiverActFacts, ZenonT(60)
       DEF Refusing, Closed, Postponing, Passing, Failed, SocketOnly

<1>. SUFFICES ASSUME NegotiationInv, UNCHANGED senderVars, ReceiverAct \/ UNCHANGED vars
              PROVE  NegotiationInv'
  BY Zenon
<1>1. RequestsInv /\ SenderTyped /\ Partner /\ CountsInv /\ AnswersInv /\ AgreedInv /\ RemotingInv
  BY Zenon DEF NegotiationInv
<1>2. CASE ReceiverAct
  <2>1. RequestsInv' /\ SenderTyped'
    BY <1>1, <1>2, <1>ReceiverRequests, ZenonT(60)
  <2>2. CountsInv'
    BY <1>1, <1>2, <1>ReceiverCounts, ZenonT(60)
  <2>3. AnswersInv'
    BY <1>1, <1>2, <1>ReceiverAnswers, Zenon
  <2>4. AgreedInv'
    BY <1>1, <1>2, <1>ReceiverAgreed, Zenon
  <2>5. RemotingInv' /\ Partner'
    BY <1>1, <1>2, <1>ReceiverRemoting, ZenonT(60)
  <2>. QED
    BY <2>1, <2>2, <2>3, <2>4, <2>5, ZenonT(60) DEF NegotiationInv
<1>3. CASE UNCHANGED vars
  <2>1. /\ UNCHANGED negotiationVars
        /\ toSender' = toSender /\ toReceiver' = toReceiver /\ pending' = pending
        /\ alive' = alive /\ answers' = answers
    BY <1>3, Zenon DEF vars, senderVars, receiverVars, channels, negotiationVars
  <2>3. RequestsInv' /\ SenderTyped'
    <3>1. /\ toSender' \in [Senders -> Seq(SenderMail)]
          /\ \A t \in Senders : Replied(toSender'[t], session[t], callbacks[t])
      BY <1>1, <2>1, ZenonT(60) DEF RequestsInv, SenderTyped
    <3>. QED
      BY <1>1, <2>1, <3>1, <1>ReceiverStepRequests, ZenonT(60)
  <2>4. CountsInv'
    <3>1. \A t, n : (OfferUnderWay(t, n)' <=> OfferUnderWay(t, n))
                    /\ (IsPending(t, n)' <=> IsPending(t, n))
      BY <2>1, Zenon DEF OfferUnderWay, IsPending
    <3>. QED
      BY <1>1, <2>1, <3>1, <1>SilentCounts, ZenonT(60)
  <2>5. AnswersInv'
    BY <1>1, <2>1, <1>ReceiverStepAnswers, ZenonT(60)
  <2>6. AgreedInv'
    <3>1. \A t \in Senders : Answered(t)' => Answered(t)
      BY <1>1, <2>1, <1>NobodyAnswered, Zenon
    <3>. QED
      BY <1>1, <2>1, <3>1, <1>ReceiverStepAgreed, ZenonT(60) DEF negotiationVars
  <2>7. RemotingInv' /\ Partner'
    BY <1>1, <2>1, Zenon DEF negotiationVars, RemotingInv, RemotingCurrent, Partner, kRemoting,
                      NoReceivers, Kinds
  <2>. QED
    BY <2>3, <2>4, <2>5, <2>6, <2>7, SMTT(60) DEF NegotiationInv
<1>. QED
  BY <1>2, <1>3, Zenon

-----------------------------------------------------------------------------
(* The first state, and every step *)

\* The invariant holds before anything is sent.
LEMMA InitNegotiation == Init => NegotiationInv
<1>1. SUFFICES ASSUME Init PROVE NegotiationInv
  BY Zenon
<1>2. /\ toReceiver = [s \in Senders |-> <<>>] /\ toSender = [s \in Senders |-> <<>>]
      /\ callbacks = [s \in Senders |-> [n \in 1 .. MaxSequence[s] |-> <<>>]]
      /\ session = [s \in Senders |-> Session(0, none, {}, "kIdle", NoSenders, none, none, none)]
      /\ alive /\ pending = none /\ receivers = NoReceivers /\ negotiated = none
      /\ rpcMessenger = none
      /\ answers = [s \in Senders |-> [n \in 1 .. MaxSequence[s] |-> 0]]
  BY <1>1, ZenonT(60) DEF Init, ChannelsInit, SenderSessionInit, ReceiverSessionInit, Session
<1>3. ASSUME NEW s \in Senders
      PROVE  /\ IsSession(session[s]) /\ session[s].sequence = 0 /\ session[s].awaiting = {}
             /\ session[s].told = none /\ session[s].senders = NoSenders
             /\ toReceiver[s] = <<>> /\ toSender[s] = <<>>
             /\ MaxSequence[s] \in Nat /\ callbacks[s] = [n \in 1 .. MaxSequence[s] |-> <<>>]
  BY <1>2, SessionFields, SendersAssumption, SMTT(30)
<1>4. DOMAIN <<>> = {}
  OBVIOUS
<1>5. ASSUME NEW s \in Senders
      PROVE  /\ Numbered(session[s], callbacks[s], MaxSequence[s])
             /\ Posted(toReceiver[s], session[s], callbacks[s])
             /\ Replied(toSender[s], session[s], callbacks[s])
  <2>. DEFINE d == session[s]
              runs == callbacks[s]
              max == MaxSequence[s]
  <2>1. /\ IsSession(d) /\ d.sequence = 0 /\ d.awaiting = {} /\ max \in Nat
        /\ runs = [n \in 1 .. max |-> <<>>]
    BY <1>3, Zenon
  <2>. HIDE DEF d, runs, max
  <2>2. runs \in [1 .. max -> {<<>>} \cup {<<r>> : r \in Runs}]
    BY <2>1, ZenonT(60)
  <2>3. Numbered(d, runs, max)
    BY ONLY <2>1, <2>2 DEF Numbered
  <2>. QED
    BY <1>3, <1>4, <2>3, Zenon DEF Posted, Replied, d, runs, max
<1>6. RequestsInv
  <2>1. session = [s \in Senders |-> session[s]] /\ callbacks = [s \in Senders |-> callbacks[s]]
    BY <1>2, Zenon
  <2>2. toReceiver \in [Senders -> Seq(ReceiverMail)]
    BY <1>2
  <2>. QED
    BY <1>2, <1>5, <2>1, <2>2, Zenon DEF RequestsInv, Waits
<1>7. SenderTyped
  BY <1>2 DEF SenderTyped
<1>8. Partner
  BY <1>2, Zenon DEF Partner
<1>9. CountsInv
  <2>1. AnswersTyped(answers)
    <3>1. answers = [s \in Senders |-> answers[s]]
      BY <1>2, Zenon
    <3>2. ASSUME NEW s \in Senders
          PROVE  /\ answers[s] \in [1 .. MaxSequence[s] -> Nat]
                 /\ \A n \in 1 .. MaxSequence[s] : answers[s][n] = 0
      BY <1>2, Zenon
    <3>. QED
      BY <3>1, <3>2, Zenon DEF AnswersTyped
  <2>2. ASSUME NEW s \in Senders
        PROVE  OffersOf(s) = {}
    <3>1. session[s].sequence = 0
      BY <1>3, Zenon
    <3>2. 1 .. 0 = {}
      OBVIOUS
    <3>. QED
      BY <3>1, <3>2, Zenon DEF OffersOf
  <2>. QED
    BY <2>1, <2>2, CountsInvFacts, Zenon
<1>10. AnswersInv
  <2>1. ASSUME NEW s \in Senders
        PROVE  Current(s) /\ Negotiated(s) /\ LinedUp(session[s])
    <3>1. Current(s)
      BY <1>3, Zenon DEF Current
    <3>2. Negotiated(s)
      BY <1>3, NoneAssumption, Zenon DEF Negotiated
    <3>3. LinedUp(session[s])
      BY <1>3, ZenonT(60) DEF LinedUp, NoSenders
    <3>. QED
      BY <3>1, <3>2, <3>3, Zenon
  <2>. QED
    BY <2>1, AnswersInvFacts, Zenon
<1>11. AgreedInv
  <2>1. \A s \in Senders : ~Answered(s)
    BY <1>3, <1>4, NoneAssumption, Zenon DEF Answered
  <2>. QED
    BY <2>1, Zenon DEF AgreedInv, Agreed
<1>12. RemotingInv
  BY <1>2, Zenon DEF RemotingInv, RemotingCurrent
<1>. QED
  BY <1>6, <1>7, <1>8, <1>9, <1>10, <1>11, <1>12, ZenonT(60) DEF NegotiationInv

\* Every step keeps the invariant.
LEMMA NextNegotiation == NegotiationInv /\ [Next]_vars => NegotiationInv'
<1>1. SUFFICES ASSUME NegotiationInv, [Next]_vars PROVE NegotiationInv'
  BY Zenon
<1>2. ASSUME NEW s \in Senders, (Patient(s) /\ StartNegotiating(s)) \/ SenderAct(s),
             UNCHANGED receiverVars
      PROVE  NegotiationInv'
  BY <1>1, <1>2, SenderKeeps, Zenon
<1>3. ASSUME ReceiverAct, UNCHANGED senderVars
      PROVE  NegotiationInv'
  BY <1>1, <1>3, ReceiverKeeps, Zenon
<1>4. ASSUME UNCHANGED vars
      PROVE  NegotiationInv'
  <2>1. UNCHANGED senderVars
    BY <1>4, Zenon DEF vars
  <2>. QED
    BY <1>1, <1>4, <2>1, ReceiverKeeps, Zenon
<1>. QED
  BY <1>1, <1>2, <1>3, <1>4, Zenon DEF Next

-----------------------------------------------------------------------------
(* The invariant, and what follows from it *)

\* A request's callback has run at most once, with its own type of reply or a timeout.
LEMMA RequestsSettled == RequestsInv => RequestsSettledOnce
<1>1. SUFFICES ASSUME RequestsInv, NEW s \in Senders, NEW n \in 1 .. MaxSequence[s]
               PROVE  LET ran == callbacks[s][n]
                      IN  /\ Len(ran) <= 1
                          /\ \A r \in session[s].awaiting : r.sequence = n => ran = <<>>
                          /\ \A i \in DOMAIN ran : ran[i].how \in {ran[i].reply_type, "timeout"}
  BY Zenon DEF RequestsSettledOnce
<1>2. Numbered(session[s], callbacks[s], MaxSequence[s])
  BY <1>1, Zenon DEF RequestsInv
<1>3. \/ callbacks[s][n] = <<>>
      \/ \E r \in Runs : callbacks[s][n] = <<r>>
  <2>1. callbacks[s] \in [1 .. MaxSequence[s] -> {<<>>} \cup {<<r>> : r \in Runs}]
    BY <1>2, Zenon DEF Numbered
  <2>2. callbacks[s][n] \in {<<>>} \cup {<<r>> : r \in Runs}
    BY <1>1, <2>1, Zenon
  <2>. QED
    BY <2>2, Zenon
<1>4. \A r \in session[s].awaiting : r.sequence = n => callbacks[s][n] = <<>>
  BY <1>2, Zenon DEF Numbered
<1>5. CASE callbacks[s][n] = <<>>
  BY <1>4, <1>5
<1>6. ASSUME NEW r \in Runs, callbacks[s][n] = <<r>>
      PROVE  /\ Len(callbacks[s][n]) <= 1
             /\ \A i \in DOMAIN callbacks[s][n] :
                  callbacks[s][n][i].how \in {callbacks[s][n][i].reply_type, "timeout"}
  <2>1. r.how \in {r.reply_type, "timeout"}
    BY Zenon DEF Runs
  <2>2. /\ Len(callbacks[s][n]) = 1
        /\ \A i \in DOMAIN callbacks[s][n] : callbacks[s][n][i] = r
    BY <1>6
  <2>. QED
    BY <2>1, <2>2
<1>. QED
  BY <1>3, <1>4, <1>5, <1>6, Zenon

\* A sender that was told OnNegotiated has the Senders that match the Receivers.
LEMMA PartnersAgree == AnswersInv /\ AgreedInv => EndsAgree
<1>1. SUFFICES ASSUME AnswersInv, AgreedInv, NEW s \in Senders,
                      alive, negotiated = s, session[s].told = "OnNegotiated"
               PROVE  /\ session[s].endpoint # none
                      /\ session[s].state =
                           IF accepted.mode = kRemoting THEN "kRemoting" ELSE "kStreaming"
                      /\ \A kind \in Kinds :
                           LET sender == session[s].senders[kind]
                               receiver == receivers[kind]
                           IN  /\ (sender = none) = (receiver = none)
                               /\ sender # none =>
                                    /\ sender.ssrc = receiver.sender_ssrc
                                    /\ sender.receiver_ssrc = receiver.receiver_ssrc
                                    /\ accepted.mode = kMirroring =>
                                         sender.config.codec = receiver.codec
  BY Zenon DEF EndsAgree
<1>. DEFINE offer == session[s].negotiation.offer
            p == Properties(s, 0, offer)
            sender(kind) == session[s].senders[kind]
<1>2. /\ offer \in Offers /\ session[s].endpoint = "port"
      /\ session[s].state = IF offer.cast_mode = kMirroring THEN "kStreaming" ELSE "kRemoting"
      /\ \A kind \in Kinds :
           Fits(sender(kind), SelectStreams(offer)[kind], offer.cast_mode)
  BY <1>1, Zenon DEF AnswersInv, Negotiated
<1>3. /\ accepted.mode = p.mode
      /\ receivers = [kind \in Kinds |-> ConstructReceiver(p, kind)]
  BY <1>1, Zenon DEF AgreedInv, Agreed, Answered
<1>4. p.mode = offer.cast_mode /\ p.selected = SelectStreams(offer)
  BY Zenon DEF Properties, PendingOffer
<1>. HIDE DEF p, sender, offer
<1>5. offer.cast_mode \in {kMirroring, kRemoting} /\ kMirroring # kRemoting
  BY <1>2, Zenon DEF Offers, kMirroring, kRemoting
<1>6. "port" # none
  BY NoneAssumption, Zenon
<1>7. ASSUME NEW kind \in Kinds
      PROVE  /\ (sender(kind) = none) = (receivers[kind] = none)
             /\ sender(kind) # none =>
                  /\ sender(kind).ssrc = receivers[kind].sender_ssrc
                  /\ sender(kind).receiver_ssrc = receivers[kind].receiver_ssrc
                  /\ accepted.mode = kMirroring =>
                       sender(kind).config.codec = receivers[kind].codec
  <2>. DEFINE stream == SelectStreams(offer)[kind]
              receiver == receivers[kind]
              x == sender(kind)
  <2>1. Fits(x, stream, offer.cast_mode)
    BY <1>2, Zenon
  <2>2. receiver = ConstructReceiver(p, kind) /\ p.selected[kind] = stream
    BY <1>3, <1>4, Zenon
  <2>3. SelectStreams(offer) \in [Kinds -> Streams \cup {none}]
    BY <1>2, SelectStreamsFacts, Zenon
  <2>4. stream \in Streams \cup {none}
    BY <2>3, Zenon
  <2>. HIDE DEF stream, receiver, x
  <2>5. CASE stream = none
    <3>1. receiver = none /\ x = none
      BY <2>1, <2>2, <2>5, Zenon DEF ConstructReceiver, Fits
    <3>. QED
      BY <3>1, Zenon DEF receiver, x
  <2>6. CASE stream # none
    <3>1. /\ stream.ssrc \in Nat /\ stream.ssrc + 1 \in Nat
          /\ stream.codec \in ConfigCodecs \union {kNotSpecified}
      BY <2>4, <2>6 DEF Streams
    <3>2. receiver = [sender_ssrc |-> stream.ssrc, receiver_ssrc |-> stream.ssrc + 1,
                      codec |-> stream.codec]
      BY <2>2, <2>6, Zenon DEF ConstructReceiver
    <3>3. receiver # none
      BY <3>1, <3>2, NoneAssumption DEF ReceiverConfigs
    <3>4. /\ x # none /\ x.ssrc = stream.ssrc /\ x.receiver_ssrc = stream.ssrc + 1
          /\ offer.cast_mode = kMirroring => x.config.codec = stream.codec
      BY <2>1, <2>6, Zenon DEF Fits
    <3>5. /\ (x = none) = (receiver = none)
          /\ x.ssrc = receiver.sender_ssrc /\ x.receiver_ssrc = receiver.receiver_ssrc
          /\ accepted.mode = kMirroring => x.config.codec = receiver.codec
      BY <1>3, <1>4, <3>2, <3>3, <3>4, ZenonT(60)
    <3>. QED
      BY <3>5, Zenon DEF receiver, x
  <2>. QED
    BY <2>5, <2>6, Zenon
<1>8. session[s].state = IF accepted.mode = kRemoting THEN "kRemoting" ELSE "kStreaming"
  BY <1>2, <1>3, <1>4, <1>5
<1>. QED
  BY <1>2, <1>6, <1>7, <1>8, Zenon DEF sender

\* The conjunction of the five invariants is kept by Negotiate(), the ANSWERs,
\* the timeouts, the socket's callbacks and the destruction of the ReceiverSession.
THEOREM NegotiationInvariant == Spec => []NegotiationInv
BY InitNegotiation, NextNegotiation, PTL DEF Spec

\* SenderSessionMessenger settles each request once: the reply or the timeout runs
\* its callback, never both, and a late reply finds none.
THEOREM RequestsSettle == Spec => []RequestsSettledOnce
<1>1. NegotiationInv => RequestsSettledOnce
  BY RequestsSettled, Zenon DEF NegotiationInv
<1>. QED
  BY <1>1, NegotiationInvariant, PTL

\* ReceiverSession answers each OFFER once, also the one whose socket was not ready
\* when another OFFER came.
THEOREM OffersAreAnswered == Spec => []OffersAnsweredOnce
<1>1. NegotiationInv => OffersAnsweredOnce
  BY Zenon DEF NegotiationInv, CountsInv
<1>. QED
  BY <1>1, NegotiationInvariant, PTL

\* The ANSWER a SenderSession spawns Senders from is that to the configs it kept.
THEOREM AnswersLineUp == Spec => []AnswersLinedUp
<1>1. NegotiationInv => AnswersLinedUp
  BY Zenon DEF NegotiationInv, AnswersInv
<1>. QED
  BY <1>1, NegotiationInvariant, PTL

\* After OnNegotiated(), and while no other sender has taken the session over, the
\* Senders of the one end and the Receivers of the other have the same SSRCs and codecs.
THEOREM EndsWillAgree == Spec => []EndsAgree
<1>1. NegotiationInv => EndsAgree
  BY PartnersAgree, Zenon DEF NegotiationInv
<1>. QED
  BY <1>1, NegotiationInvariant, PTL

\* The RpcMessenger belongs to the negotiation the ReceiverSession is in.
THEOREM RemotingStaysCurrent == Spec => []RemotingCurrent
<1>1. NegotiationInv => RemotingCurrent
  BY Zenon DEF NegotiationInv, RemotingInv
<1>. QED
  BY <1>1, NegotiationInvariant, PTL
=============================================================================
