CONSTANTS
  Rooms = {1, 2, 3}
  Slots = 2
  MaxLevel = 1
  MaxCount = 1
  Freqs = {5}
  Ips = {"a"}
  IpOf <- OneIp
  MaxConns = 1
  MaxDrops = 0
  MaxCheckouts = 1
  MaxModeChanges = 0
  MaxFreqChanges = 0
SPECIFICATION CheckoutSpec
INVARIANTS Settled BlowsWhenSelected
PROPERTIES SharesFairly
CHECK_DEADLOCK FALSE
