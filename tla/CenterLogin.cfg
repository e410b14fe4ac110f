CONSTANTS
  Rooms = {1, 2}
  Slots = 2
  MaxLevel = 1
  MaxCount = 2
  Freqs = {5}
  Ips = {"a"}
  IpOf <- OneIp
  MaxConns = 1
  MaxDrops = 0
  MaxCheckouts = 0
  MaxModeChanges = 0
  MaxFreqChanges = 0
SPECIFICATION FairSpec
INVARIANTS TypeOK DispatcherLives
PROPERTIES RotationSteps EveryFlagAnswered StopReaches StartReaches
