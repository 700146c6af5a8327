CONSTANTS
    MaxMembers = 3
    MaxContributed = 3
    Amounts = {1, 3, 10, 49, 100, 999}
SPECIFICATION Spec
INVARIANTS PartsFollowShares FewGetNoDebt
