SPECIFICATION FairSpec
CONSTANTS
  NoTransport = NoTransport
  Transports = {A}
  MaxArrivals = 3
  MaxSends = 3
INVARIANTS TypeOK WaitsConserved NoMissedWake
PROPERTY Drained
CHECK_DEADLOCK FALSE
