CONSTANTS
    r1 = r1  r2 = r2  c1 = c1  c2 = c2  main = main  w1 = w1  w2 = w2
    Free = Free  EveryMember = EveryMember  NoContribution = NoContribution
    Requests = {r1, r2}
    Members = {1, 2}
    Vaults = {main, w1, w2}
    Pocket <- TwoPockets
    Contributions = {c1, c2}
    Contributor <- TwoContributors
    Contributed <- OddAmounts
    Rules <- SomeRules
    Given <- SomeSources
    Amounts = {1}
    MaxRows = 5
SYMMETRY Symmetry
SPECIFICATION Spec
INVARIANTS LInv DInv CachedBalance ContributionsWhole NoneUndistributed
PROPERTIES EntriesCovered ImplementsJournal
