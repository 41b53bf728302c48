CONSTANTS
  Capacity = 5
  MaxLen = 5
  MaxRead = 2
  Publishers = {p1, p2}
  Clients = {c1}
  ReplayCapacity = 2
  RingCapacity = 2
  MaxEvents = 4
  MaxChannels = 2
  MaxConnects = 2
  Checks = {h1, h2}
  PerMinute = 2
  Interval = 2
  Expiry = 3
  MaxDelay = 1
SPECIFICATION MCSpec
INVARIANTS TurnInv EventsInv RateInv
PROPERTIES ImplementsProtocol TurnEnds ChannelDelivers NobodyIsLockedOut
CHECK_DEADLOCK FALSE
