SPECIFICATION Spec
CONSTANTS
    Calls = {call1, call2}
    Offered = {"createInvite"}
    Watched = {"invites"}
    Home = {"dashboard", "invites", "landing"}
    MaxTokens = 2
    MaxWrites = 1
    None = none
SYMMETRY Symmetry
INVARIANTS WInv NoTokenReplayed OwnWritesShown CarriedOutOnce
PROPERTIES ImplementsCredential
CHECK_DEADLOCK FALSE
