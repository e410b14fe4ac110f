SPECIFICATION Spec
CONSTANTS
    MaxHandles = 4
    Users = {u1}
    NoUser = NoUser
    Retries = 1
    MaxLosses = 1
    MaxLogins = 1
PROPERTY AlwaysRecovers
CHECK_DEADLOCK FALSE
