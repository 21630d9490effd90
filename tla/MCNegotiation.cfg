\* The system may stop: the receiver session is destroyed, and the senders have
\* used up their numbers.
SPECIFICATION Spec
CONSTANTS
  none = none
  s1 = s1
  s2 = s2
  Senders <- MCSenders
  MaxSequence <- MCMaxSequence
  MirroringConfigs <- MCMirroringConfigs
  RemotingConfigs <- MCRemotingConfigs
  SenderDscp = TRUE
  Codecs <- MCCodecs
  SupportedParameters = {"supported"}
  RemotingEnabled = TRUE
  ReceiverDscp = TRUE
INVARIANTS
  OffersAnsweredOnce
  RequestsSettledOnce
  AnswersLinedUp
  EndsAgree
  RemotingCurrent
CHECK_DEADLOCK FALSE
