SPECIFICATION Spec
CONSTANTS
  MaxTimeouts = 2
  k1 = k1
  k2 = k2
  Keys = {k1, k2}
  QueueLimit = 1
  MaxFrames = 3
  MaxToggles = 2
  a = a
  b = b
  Transfers = {a, b}
  Rates = {0, 1, 2}
  MaxTime = 5
  MaxChanges = 2
INVARIANTS
  LinkTypeOK
  HandshakeSound
  StreamInStep
  ActiveIsQueued
PROPERTIES
  OnlyWantedSent
  RequestsAnswered
  RateKept
CHECK_DEADLOCK FALSE
