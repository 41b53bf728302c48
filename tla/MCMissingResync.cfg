CONSTANTS
  Publishers = {p1}
  Clients = {c1}
  ReplayCapacity = 2
  RingCapacity = 2
  MaxEvents = 4
  MaxChannels = 1
  MaxConnects = 2
SPECIFICATION EventsSpec
INVARIANTS TooOldIsTold
CHECK_DEADLOCK FALSE
