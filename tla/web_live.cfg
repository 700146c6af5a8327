SPECIFICATION Spec
CONSTANTS
    Calls = {call1, call2}
    Offered = {"createInvite"}
    Watched = {"invites"}
    Home = {"dashboard", "invites"}
    MaxTokens = 2
    MaxWrites = 0
    None = none
PROPERTY CallsEnd
CHECK_DEADLOCK FALSE
