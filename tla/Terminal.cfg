SPECIFICATION Spec
CONSTANTS
    MaxHandles = 4
    Users = {u1}
    NoUser = NoUser
    Retries = 1
    MaxLosses = 2
    MaxLogins = 3
INVARIANTS TypeOK LoginIsGranted NoOldAgentServer OneReader
PROPERTY Recovers
CHECK_DEADLOCK FALSE
