CONSTANTS
    r1 = r1  r2 = r2  r3 = r3  m1 = m1  m2 = m2  p1 = p1  p2 = p2
    v1 = v1  v2 = v2  v3 = v3  main = main  works = works
    Free = Free  Nothing = Nothing  NoVault = NoVault
    Requests = {r1, r2}
    Members = {m1}
    Votes = {v1, v2}
    Projects = {p1}
    Vaults = {main, works}
    Subject <- OneSubject
    Source <- OneSource
    Payout <- OnePayout
    Budget <- OneBudget
    MinQuorum = 1
    Threshold = 50
    MinBalance <- LowestBalance
    MaxBalance = 1
SYMMETRY Symmetry
SPECIFICATION Spec
INVARIANT PaidAtMostOnce
