\* Two sequence numbers for three pings, so one is used again.
CONSTANTS
  c1 = c1
  c2 = c2
  Pings = {1, 2, 3}
  Collectors = {c1, c2}
  ColOf <- Owners
  NoPing = NoPing
  SeqSpace = 2
  MaxFails = 0
SPECIFICATION SocketSpec
CHECK_DEADLOCK FALSE
INVARIANTS StampsAreOwn
