CONSTANTS
  Levels = {1, 2}
  Hasty = FALSE
  MaxConns = 2
  MaxStarts = 3
  MaxChanges = 1
  MaxTicks = 4
  MaxDrops = 1
  MaxCheckouts = 1
SPECIFICATION ChoiceSpec
INVARIANTS Conserved FareIsForUse  SoundUntilCheckout
CHECK_DEADLOCK FALSE
