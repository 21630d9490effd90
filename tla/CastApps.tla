------------------------------ MODULE CastApps ------------------------------
(***************************************************************************)
(* Cast agents that launch and use the applications of one receiver.         *)
(***************************************************************************)
EXTENDS ApplicationAgent, CastAgent

vars == <<agent, cast, channelVars>>

Init == ChannelInit /\ AgentInit /\ CastInit

\* The TLS handshake is over: both socket factories are told.
Connect(s) ==
  /\ agent.up
  /\ FactoryOnConnected(s)
  /\ ends' = [ends EXCEPT ![s] = {"sender", "receiver"}]
  /\ UNCHANGED agent

ReceiverAct ==
  \/ \E app \in Apps :
       \/ RegisterApplication(app)
       \/ UnregisterApplication(app)
       \/ StopApplicationIfRunning(app)
  \/ \E s \in Sockets : AgentOnSocketError(s) \/ AgentOnMessage(s)

SenderAct(s) ==
  \/ FactoryOnConnectionFailed(s)
  \/ CastOnMessage(s)
  \/ CastOnSocketError(s)
  \/ OnSessionError(s)
  \/ DestroyCastAgent(s)

Next ==
  \/ \E s \in Sockets : Connect(s)
  \/ ReceiverAct /\ UNCHANGED cast
  \/ \E s \in Sockets : SenderAct(s) /\ UNCHANGED agent

Spec == Init /\ [][Next]_vars

-----------------------------------------------------------------------------
\* The virtual connections of the receiver lead somewhere: each is on an open
\* socket, to the platform or to the application that runs now.  None is left
\* of an application that was stopped or replaced (ResetClient()), or of a
\* socket that is gone (RemoveConnectionsBySocketId()).
ConnectionsLive ==
  agent.up =>
    \A c \in agent.connections :
      /\ c.socket_id \in OpenSockets
      /\ c.local_id \in {kPlatformId, agent.source_id}

\* An application other than the idle screen runs for a socket that is open:
\* whoever launched it, in whatever order sockets fail, applications are
\* switched, stopped and unregistered and Launch() fails, none is left running
\* without a sender.
NoAppOrphaned ==
  agent.up /\ agent.launched_app \notin {none, agent.idle_screen_app} =>
    agent.socket \in OpenSockets

\* A sender that knows an application session, and has read all it was sent,
\* knows the session that runs: every switch was announced to it, and a sender
\* whose session was replaced or stopped has shut down.
SendersKnowSession ==
  \A s \in OpenSockets :
    cast[s].app_session_id # none /\ toSender[s] = <<>> =>
      cast[s].app_session_id = agent.session
=============================================================================
