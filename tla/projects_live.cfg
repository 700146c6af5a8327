CONSTANTS
    r1 = r1  r2 = r2  m1 = m1  p1 = p1  v1 = v1  v2 = v2  main = main  works = works
    Free = Free  Nothing = Nothing  NoVault = NoVault
    Requests = {r1, r2}
    Members = {m1}
    Votes = {v1, v2}
    Projects = {p1}
    Vaults = {main}
    Subject <- LiveSubject
    Source <- LiveSource
    Payout <- LivePayout
    Budget <- LiveBudget
    MinQuorum = 1
    Threshold = 50
    MinBalance = 0
    MaxBalance = 1
SPECIFICATION LiveSpec
PROPERTIES TransactionsEnd FundedProjectActivates DueVoteCloses
