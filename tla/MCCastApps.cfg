CONSTANTS
  none = none
  Sockets = {1, 2}
  Apps <- MCApps
  AppIds <- MCAppIds
  MessagingApps <- MCMessagingApps
  IdleScreenApps <- MCIdleScreenApps
  StreamingAppIds <- MCStreamingAppIds
  MaxSessions = 2
  MaxUnread = 1
SPECIFICATION Spec
INVARIANTS
  ConnectionsLive
  NoAppOrphaned
  SendersKnowSession
CHECK_DEADLOCK FALSE
