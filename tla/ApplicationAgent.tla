-------------------------- MODULE ApplicationAgent --------------------------
(***************************************************************************)
(* The receiver's ApplicationAgent with its VirtualConnectionRouter,         *)
(* ConnectionNamespaceHandler and CastSocketMessagePort: applications are    *)
(* registered, launched on behalf of a socket, stopped and replaced, and all *)
(* senders are told of each change with a RECEIVER_STATUS.                   *)
(*                                                                           *)
(* An Application is a client of the agent: its Launch() may fail, and one   *)
(* that takes messages becomes the port's client under a fresh session id.   *)
(* agent.up is FALSE once an OSP_CHECK has failed, which ends the process.   *)
(***************************************************************************)
EXTENDS VirtualConnections, Functions

CONSTANTS
  Apps,            \* the applications
  AppIds,          \* for each application, the sequence of its app ids
  MessagingApps,   \* those that call SetClient() in Launch()
  IdleScreenApps,  \* those registered with auto_launch_for_idle_screen
  MaxSessions,     \* bound: launches of messaging applications
  MaxUnread        \* bound: messages a sender has not read as the receiver acts

AllAppIds == UNION {Range(AppIds[app]) : app \in Apps}

\* RegisterApplication() checks that no app id is empty, or belongs to two
\* applications.
ASSUME AppsAssumption ==
  /\ none \notin Int /\ none \notin Sockets /\ none \notin Apps
  /\ none \notin AllAppIds
  /\ AppIds \in [Apps -> Seq(AllAppIds) \ {<<>>}]
  /\ \A a, b \in Apps : Range(AppIds[a]) \intersect Range(AppIds[b]) # {} => a = b
  /\ MessagingApps \subseteq Apps /\ IdleScreenApps \subseteq Apps
  /\ MaxSessions \in Nat /\ MaxUnread \in Nat

VARIABLE agent

AgentInit ==
  agent = [up |-> TRUE, registered |-> {}, idle_screen_app |-> none,
           launched_app |-> none, launched_via |-> none, session |-> none,
           socket |-> none, source_id |-> none, connections |-> {},
           sessions |-> 0]

-----------------------------------------------------------------------------
(* The message port.                                                         *)

\* Mutant: the connections of the client outlive it.
ResetClientOnly(a) == [a EXCEPT !.source_id = none]

ResetClient(a) ==
  [a EXCEPT !.source_id = none,
            !.connections = RemoveConnectionsByLocalId(@, a.source_id)]

SetSocket(a, socket) == [ResetClient(a) EXCEPT !.socket = socket]

-----------------------------------------------------------------------------
(* Switching applications.  The operators return the set of states that the  *)
(* outcomes of Launch() lead to.                                             *)

StopLaunched(a) ==
  IF a.launched_app = none
    THEN a
    ELSE [SetSocket(a, none) EXCEPT !.launched_app = none,
                                    !.launched_via = none, !.session = none]

Launch(a, app, id) ==
  IF app \notin MessagingApps
    THEN {[a EXCEPT !.launched_app = app, !.launched_via = id]}
    ELSE {[a EXCEPT !.launched_app = app, !.launched_via = id,
                    !.session = n, !.source_id = n, !.sessions = n] :
            n \in {a.sessions + 1} \intersect (1 .. MaxSessions)}

GetFirstAppId(app) == IF app = none THEN none ELSE Head(AppIds[app])

Registered(a, id) == {app \in a.registered : id \in Range(AppIds[app])}

Outcome(a, error, changed) == [agent |-> a, error |-> error, changed |-> changed]

\* With its fallback, an application is always given to switch to.
LaunchOrFallBack(a, desired, id, socket) ==
  LET ready == IF socket = none THEN a ELSE SetSocket(a, socket)
      failed == SetSocket(ready, none)
      fallback == IF desired = a.idle_screen_app THEN none ELSE a.idle_screen_app
      fallen == IF fallback = none
                  THEN {}
                  ELSE Launch(failed, fallback, GetFirstAppId(fallback))
  IN  {Outcome(b, FALSE, TRUE) : b \in Launch(ready, desired, id)}
        \union {Outcome(b, TRUE, TRUE) : b \in fallen \union {failed}}

SwitchToApplication(a, id, socket) ==
  CASE id # none /\ Registered(a, id) = {} ->
         {Outcome(a, TRUE, FALSE)}
    [] id # none /\ Registered(a, id) = {a.launched_app} ->
         {Outcome(a, FALSE, FALSE)}
    [] id = none ->
         {Outcome(StopLaunched(a), FALSE, a.launched_app # none)}
    [] OTHER ->
         UNION {LaunchOrFallBack(StopLaunched(a), app, id, socket) :
                  app \in Registered(a, id)}

GoIdle(a) == SwitchToApplication(a, GetFirstAppId(a.idle_screen_app), none)

ReceiverStatus(a) ==
  Message("RECEIVER_STATUS", kPlatformId, kPlatformId,
          [app_id |-> a.launched_via, session_id |-> a.session,
           transport_id |-> a.source_id])

\* Mutant: only a switch that went well is announced.
BroadcastReceiverStatusOnSuccess(outcome, sockets) ==
  [s \in Sockets |->
     IF outcome.changed /\ ~outcome.error /\ s \in sockets
       THEN Replied(s, <<ReceiverStatus(outcome.agent)>>)
       ELSE <<>>]

\* SwitchToApplication() ends with BroadcastReceiverStatus() once it has
\* stopped or launched anything.  The sockets are those left open.
BroadcastReceiverStatus(outcome, sockets) ==
  [s \in Sockets |->
     IF outcome.changed /\ s \in sockets
       THEN Replied(s, <<ReceiverStatus(outcome.agent)>>)
       ELSE <<>>]

OpenSockets == {s \in Sockets : "receiver" \in ends[s]}

Announce(outcome, sockets) ==
  LET news == BroadcastReceiverStatus(outcome, sockets)
  IN  /\ agent' = outcome.agent
      /\ toSender' = [s \in Sockets |-> toSender[s] \o news[s]]

-----------------------------------------------------------------------------
(* What the receiver's own code does with the agent.                         *)

\* Bound: the receiver leaves its senders the time to read.
AtEase == agent.up /\ \A s \in Sockets : Len(toSender[s]) < MaxUnread

RegisterApplication(app) ==
  /\ AtEase
  /\ app \notin agent.registered
  /\ app \in IdleScreenApps => agent.idle_screen_app = none
  /\ LET a == [agent EXCEPT !.registered = @ \union {app},
                            !.idle_screen_app =
                               IF app \in IdleScreenApps THEN app ELSE @]
     IN  IF app \in IdleScreenApps /\ a.launched_app = none
           THEN \E o \in GoIdle(a) : Announce(o, OpenSockets)
           ELSE agent' = a /\ UNCHANGED toSender
  /\ UNCHANGED <<ends, toReceiver>>

UnregisterApplication(app) ==
  /\ AtEase
  /\ app \in agent.registered
  /\ LET a == [agent EXCEPT !.registered = @ \ {app},
                            !.idle_screen_app = IF @ = app THEN none ELSE @]
     IN  IF a.launched_app = app
           THEN \E o \in GoIdle(a) : Announce(o, OpenSockets)
           ELSE agent' = a /\ UNCHANGED toSender
  /\ UNCHANGED <<ends, toReceiver>>

StopApplicationIfRunning(app) ==
  /\ AtEase
  /\ agent.launched_app = app
  /\ \E o \in GoIdle(agent) : Announce(o, OpenSockets)
  /\ UNCHANGED <<ends, toReceiver>>

-----------------------------------------------------------------------------
(* Sockets.                                                                  *)

\* Mutant: the agent goes idle while the port no longer knows its socket.
AgentOnSocketErrorLate(s) ==
  /\ agent.up
  /\ s \in OpenSockets
  /\ ends' = [ends EXCEPT ![s] = @ \ {"receiver"}]
  /\ toReceiver' = [toReceiver EXCEPT ![s] = <<>>]
  /\ agent' = [agent EXCEPT !.connections = RemoveConnectionsBySocketId(@, s),
                            !.socket = IF @ = s THEN none ELSE @]
  /\ UNCHANGED toSender

\* OnClose() and OnError(): the router has forgotten the socket before it
\* calls the agent, and the port's weak pointer is dead after it returns.
AgentOnSocketError(s) ==
  /\ agent.up
  /\ s \in OpenSockets
  /\ ends' = [ends EXCEPT ![s] = @ \ {"receiver"}]
  /\ toReceiver' = [toReceiver EXCEPT ![s] = <<>>]
  /\ LET a == [agent EXCEPT !.connections = RemoveConnectionsBySocketId(@, s)]
     IN  IF a.socket = s
           THEN \E o \in GoIdle(a) :
                  Announce([o EXCEPT !.agent.socket = IF @ = s THEN none ELSE @],
                           OpenSockets \ {s})
           ELSE agent' = a /\ UNCHANGED toSender

-----------------------------------------------------------------------------
(* Messages.  Each handler takes the head of toReceiver[s].                  *)

Take(s, type) ==
  /\ agent.up
  /\ toReceiver[s] # <<>>
  /\ Head(toReceiver[s]).type = type
  /\ toReceiver' = [toReceiver EXCEPT ![s] = Tail(@)]
  /\ UNCHANGED ends

Reply(s, type, m, body) ==
  toSender' = [toSender EXCEPT ![s] = @ \o
    Replied(s, <<Message(type, m.destination_id, m.source_id, body)>>)]

HandleAuthChallenge(s) ==
  /\ Take(s, "AUTH")
  /\ Reply(s, "AUTH", Head(toReceiver[s]), none)
  /\ UNCHANGED agent

IsConnectionAllowed(local) ==
  \/ local = kPlatformId
  \/ /\ agent.launched_app # none
     /\ agent.source_id # none
     /\ local = agent.source_id

HandleConnect(s) ==
  LET m == Head(toReceiver[s])
  IN  /\ Take(s, "CONNECT")
      /\ \/ /\ ~IsConnectionAllowed(m.destination_id)
            /\ Reply(s, "CLOSE", m, none)
            /\ UNCHANGED agent
         \/ /\ IsConnectionAllowed(m.destination_id)
            /\ Reply(s, "CONNECTED", m, none)
            /\ agent' = [agent EXCEPT !.connections =
                 AddConnection(@, Connection(m.destination_id, m.source_id, s))]

\* The receiver opens no remote connection: it has no pending request.
HandleClose(s) ==
  LET m == Head(toReceiver[s])
  IN  /\ Take(s, "CLOSE")
      /\ agent' = [agent EXCEPT !.connections =
           @ \ {Connection(m.destination_id, m.source_id, s)}]
      /\ UNCHANGED toSender

\* The LAUNCH_STATUS of a success is left out: senders do not read it.
HandleLaunch(s) ==
  LET m == Head(toReceiver[s])
  IN  /\ Take(s, "LAUNCH")
      /\ \E o \in SwitchToApplication(agent, m.body, s) :
           LET response == IF o.error
                 THEN Message("LAUNCH_ERROR", kPlatformId, m.source_id, none)
                 ELSE [ReceiverStatus(o.agent) EXCEPT !.destination_id = m.source_id]
               news == BroadcastReceiverStatus(o, OpenSockets)
           IN  /\ agent' = o.agent
               /\ toSender' = [t \in Sockets |->
                    toSender[t] \o news[t] \o
                      (IF t = s THEN Replied(s, <<response>>) ELSE <<>>)]

\* The INVALID_REQUEST that answers another session's STOP is left out.
HandleStop(s) ==
  LET m == Head(toReceiver[s])
  IN  /\ Take(s, "STOP")
      /\ \/ /\ agent.launched_app # none
            /\ agent.session = m.body
            /\ \E o \in GoIdle(agent) : Announce(o, OpenSockets)
         \/ /\ agent.launched_app = none \/ agent.session # m.body
            /\ UNCHANGED <<agent, toSender>>

\* A failed OSP_CHECK ends the process, and with it all its sockets.
AbortAgent ==
  /\ agent' = [agent EXCEPT !.up = FALSE]
  /\ ends' = [s \in Sockets |-> ends[s] \ {"receiver"}]
  /\ toReceiver' = [s \in Sockets |-> <<>>]
  /\ UNCHANGED toSender

\* A message for the application: its port checks the socket, and its client
\* answers through PostMessage(), which adds the connection it finds missing.
PortOnMessage(s) ==
  LET m == Head(toReceiver[s])
  IN  \/ /\ Take(s, "OFFER")
         /\ m.destination_id # agent.source_id
         /\ UNCHANGED <<agent, toSender>>
      \/ /\ Take(s, "OFFER")
         /\ m.destination_id = agent.source_id
         /\ agent.socket = s
         /\ agent' = [agent EXCEPT !.connections =
              AddConnection(@, Connection(m.destination_id, m.source_id, s))]
         /\ \E accepted \in BOOLEAN : Reply(s, "ANSWER", m, accepted)
      \/ /\ agent.up
         /\ toReceiver[s] # <<>>
         /\ m.type = "OFFER"
         /\ m.destination_id = agent.source_id
         /\ agent.socket # s
         /\ AbortAgent

AgentOnMessage(s) ==
  \/ HandleAuthChallenge(s)
  \/ HandleConnect(s)
  \/ HandleClose(s)
  \/ HandleLaunch(s)
  \/ HandleStop(s)
  \/ PortOnMessage(s)

=============================================================================
