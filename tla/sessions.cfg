SPECIFICATION Spec
CONSTANTS
    Browsers = {laptop, phone}
    Home = laptop
    Orderly = {laptop}
    Requests = {r1, r2}
    Codes = {c1, c2}
    MaxSessions = 2
    MaxTokens = 2
    Nothing = Nothing
INVARIANTS
    CInv
    SessionsNeedProof
    OneSessionPerDevice
    NoFalseAlarm
PROPERTIES
    ImplementsCredential
CHECK_DEADLOCK FALSE
SYMMETRY Symmetry
