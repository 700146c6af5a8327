SPECIFICATION Spec
CONSTANTS
    ada = ada
    bob = bob
    profile1 = profile1
    profile2 = profile2
    Addresses = {ada, bob}
    Careful = {ada}
    Profiles = {profile1, profile2}
    ProfileEmail <- KnownAs
    Vouched = {profile1}
    Requests = {r1, r2}
    Digits = {d1, d2}
    MaxCodes = 2
    MaxAttempts = 2
    MaxSecrets = 2
    Nothing = Nothing
INVARIANTS
    AInv
    OneAccountPerAddress
    LockHolds
    OneLiveCode
SYMMETRY Symmetry
CHECK_DEADLOCK FALSE
