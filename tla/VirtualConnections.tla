------------------------- MODULE VirtualConnections -------------------------
(***************************************************************************)
(* Cast channels: one TLS connection per sender, the messages that cross it, *)
(* and the table of virtual connections a VirtualConnectionRouter keeps.     *)
(*                                                                           *)
(* A virtual connection joins a local and a remote id over one socket.  Ids  *)
(* are integers in the order of the code's strings: the platform's id        *)
(* ("receiver-0", "sender-0") is the least of its device; the ids that       *)
(* MakeUniqueSessionId() counts up ("streaming_receiver-10000", ...) follow. *)
(*                                                                           *)
(* Every namespace the agents use counts as a transport namespace to         *)
(* IsTransportNamespace(), which asks only that the first character of a     *)
(* long enough name occur in the prefix.  So neither Send() nor OnMessage()  *)
(* of the router asks for a virtual connection in these models.              *)
(***************************************************************************)
EXTENDS Optional, Sequences

CONSTANT Sockets  \* the sockets, one per sender

VARIABLES
  ends,         \* the ends of each socket that are open
  toReceiver,   \* the messages under way on each socket, to the receiver
  toSender      \* ... and to the sender

channelVars == <<ends, toReceiver, toSender>>

kPlatformId == 0

Connection(local, peer, socket) ==
  [local_id |-> local, peer_id |-> peer, socket_id |-> socket]

\* The code compares the result of its search among the entries of one local
\* id with the end of the map of the whole socket: nothing is added while the
\* socket has an entry with a greater local id.
AddConnection(connections, c) ==
  IF \E d \in connections :
       /\ d.socket_id = c.socket_id
       /\ d = c \/ d.local_id > c.local_id
    THEN connections
    ELSE connections \union {c}

RemoveConnectionsByLocalId(connections, local) ==
  {c \in connections : c.local_id # local}

RemoveConnectionsBySocketId(connections, socket) ==
  {c \in connections : c.socket_id # socket}

\* What is written to a socket whose other end is closed is lost.
Sent(s, messages) == IF "receiver" \in ends[s] THEN messages ELSE <<>>

Replied(s, messages) == IF "sender" \in ends[s] THEN messages ELSE <<>>

Message(type, source, destination, body) ==
  [type |-> type, source_id |-> source, destination_id |-> destination,
   body |-> body]

ChannelInit ==
  /\ ends = [s \in Sockets |-> {}]
  /\ toReceiver = [s \in Sockets |-> <<>>]
  /\ toSender = [s \in Sockets |-> <<>>]

=============================================================================
