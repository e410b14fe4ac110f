SPECIFICATION Spec
CONSTANTS
    Names <- MCNames
    Threads = {t1, t2}
    Values <- MCValues
    Docs <- Carried
    Text <- Printed
    MaxSends = 2
INVARIANTS  FieldsArrive
PROPERTY EachArrives
CHECK_DEADLOCK FALSE
