\* Ticks of a third of 250 ms, the delay between queries; 1 s after a tie-break.
SPECIFICATION DnsSdSpec
CONSTANTS
  Hosts = {1, 2}
  none = none
  ProbeQueries = 3
  ProbeDelay = 3
  PostponeDelay = 12
  NetworkDelay = 1
  MaxLost = 1
  MaxCopied = 1
  MaxRegister = 2
INVARIANTS
  OneOwner
  PassedNamesOwned
  PublisherServed
PROPERTIES
  EveryProbeConcludes
CHECK_DEADLOCK FALSE
