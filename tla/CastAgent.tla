----------------------------- MODULE CastAgent -----------------------------
(***************************************************************************)
(* The sender side of a Cast channel: a LoopingFileCastAgent with its        *)
(* SenderSocketFactory, router, ConnectionNamespaceHandler and message port. *)
(* It connects, authenticates the receiver, opens a virtual connection to    *)
(* the platform, launches the mirroring application, opens another to the    *)
(* application and negotiates a session with it.                             *)
(*                                                                           *)
(* The local ids of an agent are kPlatformId and kStreamingSender.  A        *)
(* message that a closing socket has not written yet is lost with it.        *)
(***************************************************************************)
EXTENDS VirtualConnections

CONSTANT StreamingAppIds  \* for each agent, the app ids it may be set to launch

VARIABLE cast             \* for each socket, the agent that uses it

kStreamingSender == 1

CastInit ==
  \E ids \in [Sockets -> UNION {StreamingAppIds[s] : s \in Sockets}] :
    /\ \A s \in Sockets : ids[s] \in StreamingAppIds[s]
    /\ cast = [s \in Sockets |->
         [state |-> "idle", app_id |-> ids[s], platform |-> none,
          remote |-> none, pending |-> {}, connections |-> {},
          has_launched |-> FALSE, app_session_id |-> none,
          session |-> FALSE, streaming |-> FALSE]]

-----------------------------------------------------------------------------
(* Sending, and closing.                                                     *)

\* The agent becomes c and sends the messages.
Go(s, c, messages) ==
  /\ cast' = [cast EXCEPT ![s] = c]
  /\ toReceiver' = [toReceiver EXCEPT ![s] = @ \o Sent(s, messages)]

\* CloseRemoteConnection(): a CLOSE for a connection that is open or pending.
CloseMessages(c, connection) ==
  IF connection # none /\ connection \in c.connections \union c.pending
    THEN <<Message("CLOSE", connection.local_id, connection.peer_id, none)>>
    ELSE <<>>

\* Resetting the session takes the port's client, and with it the
\* connections of its id, before the connections are closed.
Unsessioned(c) ==
  IF c.session
    THEN [c EXCEPT !.session = FALSE, !.streaming = FALSE,
                   !.connections = RemoveConnectionsByLocalId(@, kStreamingSender)]
    ELSE c

StopMessages(c) ==
  IF c.app_session_id = none
    THEN <<>>
    ELSE <<Message("STOP", kPlatformId, kPlatformId, c.app_session_id)>>

\* What Shutdown() writes.  A pending request for the platform connection is
\* answered from within, and its callback checks platform_remote_connection_,
\* which Shutdown() has already reset: the process ends there.
FailsCheck(c) == c.platform # none /\ c.platform \in c.pending

ShutdownMessages(c) ==
  LET u == Unsessioned(c)
  IN  IF FailsCheck(c)
        THEN <<>>
        ELSE CloseMessages(u, u.platform) \o CloseMessages(u, u.remote)
               \o StopMessages(u)

ShutdownState(c) ==
  [c EXCEPT !.state = IF FailsCheck(c) THEN "aborted" ELSE "down",
            !.platform = none, !.remote = none, !.pending = {},
            !.connections = {}, !.app_session_id = none, !.session = FALSE,
            !.streaming = FALSE]

\* writable: the router still has the socket.
Shutdown(s, c, writable) ==
  LET written == IF writable THEN Sent(s, ShutdownMessages(c)) ELSE <<>>
  IN  \E n \in 0 .. Len(written) :
        /\ cast' = [cast EXCEPT ![s] = ShutdownState(c)]
        /\ toReceiver' = [toReceiver EXCEPT ![s] = @ \o SubSeq(written, 1, n)]
        /\ toSender' = [toSender EXCEPT ![s] = <<>>]
        /\ ends' = [ends EXCEPT ![s] = @ \ {"sender"}]

-----------------------------------------------------------------------------
(* Connecting.  The receiver accepts as the TLS connection comes about.      *)

FactoryOnConnected(s) ==
  /\ cast[s].state = "idle"
  /\ cast' = [cast EXCEPT ![s].state = "authenticating"]
  /\ toReceiver' = [toReceiver EXCEPT ![s] =
       <<Message("AUTH", kPlatformId, kPlatformId, none)>>]
  /\ UNCHANGED toSender

FactoryOnConnectionFailed(s) ==
  /\ cast[s].state = "idle"
  /\ Shutdown(s, cast[s], FALSE)

\* OpenRemoteConnection(): the request is pending, and a CONNECT is sent.
Opening(c, connection) == [c EXCEPT !.pending = @ \union {connection}]

ConnectMessage(connection) ==
  Message("CONNECT", connection.local_id, connection.peer_id, none)

\* The reply to the challenge is judged; another message fails the socket.
FactoryOnMessage(s) ==
  LET c == cast[s]
      platform == Connection(kPlatformId, kPlatformId, s)
  IN  /\ c.state = "authenticating"
      /\ toSender[s] # <<>>
      /\ \/ /\ Head(toSender[s]).type = "AUTH"
            /\ Go(s, [Opening(c, platform) EXCEPT !.state = "up",
                                                  !.platform = platform],
                  <<ConnectMessage(platform)>>)
            /\ toSender' = [toSender EXCEPT ![s] = Tail(@)]
            /\ UNCHANGED ends
         \/ Shutdown(s, c, FALSE)

-----------------------------------------------------------------------------
(* Messages.                                                                 *)

Reading(s, type) ==
  /\ cast[s].state = "up"
  /\ toSender[s] # <<>>
  /\ Head(toSender[s]).type = type

Read(s) ==
  /\ toSender' = [toSender EXCEPT ![s] = Tail(@)]
  /\ UNCHANGED ends

Addressed(s) ==
  LET m == Head(toSender[s])
  IN  Connection(m.destination_id, m.source_id, s)

\* CreateAndStartSession(): the session becomes the port's client and posts
\* an OFFER, for which the port adds the connection if there is none.
Opened(c, connection) ==
  LET d == [c EXCEPT !.pending = @ \ {connection},
                     !.connections = AddConnection(@, connection)]
  IN  IF connection = c.platform
        THEN d
        ELSE [d EXCEPT !.session = TRUE]

\* OnReceiverMessagingOpened(true) and OnRemoteMessagingOpened(true).
OpenedMessage(c, connection) ==
  IF connection = c.platform
    THEN Message("LAUNCH", kPlatformId, kPlatformId, c.app_id)
    ELSE Message("OFFER", connection.local_id, connection.peer_id, none)

\* The receiver answers a CONNECT once, and the request is pending until then.
\* A CLOSE that refuses the application's connection is never read: the
\* application has changed, and the RECEIVER_STATUS that says so came first
\* and has shut the agent down.
HandleConnectedResponse(s) ==
  LET c == cast[s]
  IN  /\ Reading(s, "CONNECTED")
      /\ Addressed(s) \in c.pending
      /\ Go(s, Opened(c, Addressed(s)), <<OpenedMessage(c, Addressed(s))>>)
      /\ Read(s)

\* The agent waits for its application, follows it, and shuts down when it
\* has gone or another session of it runs.
HandleReceiverStatus(s) ==
  LET c == cast[s]
      details == Head(toSender[s]).body
      running == details.app_id = c.app_id
      other == c.app_session_id \notin {none, details.session_id}
      launched == [c EXCEPT !.has_launched = TRUE,
                            !.app_session_id = details.session_id]
      remote == Connection(kStreamingSender, details.transport_id, s)
  IN  /\ Reading(s, "RECEIVER_STATUS")
      /\ \/ /\ ~running /\ ~c.has_launched
            /\ Go(s, c, <<>>)
            /\ Read(s)
         \/ /\ IF running THEN other ELSE c.has_launched
            /\ Shutdown(s, c, TRUE)
         \/ /\ running /\ ~other /\ c.remote # none
            /\ Go(s, launched, <<>>)
            /\ Read(s)
         \/ /\ running /\ ~other /\ c.remote = none
            /\ Go(s, [Opening(launched, remote) EXCEPT !.remote = remote],
                  <<ConnectMessage(remote)>>)
            /\ Read(s)

HandleLaunchError(s) ==
  /\ Reading(s, "LAUNCH_ERROR")
  /\ Shutdown(s, cast[s], TRUE)

\* The port hands it to the session, which calls OnNegotiated() or OnError().
HandleAnswer(s) ==
  LET c == cast[s]
  IN  /\ Reading(s, "ANSWER")
      /\ \/ c.session /\ Head(toSender[s]).body
              /\ Go(s, [c EXCEPT !.streaming = TRUE], <<>>) /\ Read(s)
         \/ c.session /\ ~Head(toSender[s]).body /\ Shutdown(s, c, TRUE)

CastOnMessage(s) ==
  \/ FactoryOnMessage(s)
  \/ HandleConnectedResponse(s)
  \/ HandleReceiverStatus(s)
  \/ HandleLaunchError(s)
  \/ HandleAnswer(s)

-----------------------------------------------------------------------------
(* The socket fails, or the agent is destroyed.                              *)

\* Both OnError()s of a socket: the router or the factory has dropped it.
CastOnSocketError(s) ==
  /\ cast[s].state \in {"authenticating", "up"}
  /\ Shutdown(s, cast[s], FALSE)

\* The session's own OnError(), as when no ANSWER comes.
OnSessionError(s) ==
  /\ cast[s].session
  /\ Shutdown(s, cast[s], TRUE)

DestroyCastAgent(s) ==
  /\ cast[s].state \in {"authenticating", "up"}
  /\ Shutdown(s, cast[s], cast[s].state = "up")

=============================================================================
