SPECIFICATION Spec
CONSTANTS
  Width = 256
  Checkpoints <- MCCheckpoints
  Losses <- MCLosses
  Arrivals <- MCArrivals
  Rooms <- MCRooms
  Enqueued <- MCEnqueued
CHECK_DEADLOCK FALSE
INVARIANTS
  FeedbackExact
  OldestNacksFirst
