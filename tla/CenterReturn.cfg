CONSTANTS
  Rooms = {1}
  Slots = 2
  MaxLevel = 1
  MaxCount = 1
  Freqs = {5, 6}
  Ips = {"a"}
  IpOf <- OneIp
  MaxConns = 2
  MaxDrops = 1
  MaxCheckouts = 2
  MaxModeChanges = 1
  MaxFreqChanges = 1
SPECIFICATION ReturnSpec
INVARIANTS OnWhileQueued  InformedOfChange
CHECK_DEADLOCK FALSE
