CONSTANTS
  Rooms = {1, 2, 3, 4, 5}
  Slots = 3
  WaitBound = 2
SPECIFICATION WaitSpec
INVARIANTS TypeOK ServedOnce BoundedWait
PROPERTIES SharesSafely ServedWhenQuiet ServedWhenPrompt
