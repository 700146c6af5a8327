CONSTANTS
    r1 = r1  r2 = r2  i1 = i1  i2 = i2  founder = founder  v1 = v1
    ada = ada  bob = bob  cleo = cleo
    Nothing = Nothing
    Requests = {r1, r2}
    Invites = {i1, i2}
    Founder = founder
    Users = {ada, bob, cleo}
    Creator = ada
    Invited = {bob, cleo}
    Votes = {v1}
    Quorums = {1, 2}
    Thresholds = {40, 50}
    Answers = {"FOR", "AGAINST"}
SYMMETRY Symmetry
SPECIFICATION Spec
INVARIANTS MInv
PROPERTIES ImplementsRoster OnlyPendingAdmits RemovedByOthers
CHECK_DEADLOCK FALSE
