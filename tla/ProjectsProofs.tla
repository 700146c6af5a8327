----------------------------- MODULE ProjectsProofs -----------------------------
(***************************************************************************)
(* Theorems about Projects, for every value of its constants: its          *)
(* inductive invariant, that it implements Funding, what follows for the   *)
(* committed data, and what votes and the audit log say of it.             *)
(***************************************************************************)
EXTENDS ProjectsInvariant, FiniteSetTheorems, TLAPS

\* A vote is decided one of three ways, whatever was answered.
LEMMA DecisionRange ==
    ASSUME NEW answers, NEW quorum, NEW threshold
    PROVE  Decision(answers, quorum, threshold) \in Decisions
BY DEF Decision, Decisions

\* What commit and rollback leave in the rows stays within the columns' types.
LEMMA RowTypes ==
    ASSUME TypeOK, NEW r \in Requests
    PROVE  /\ AfterCommit(vote, newVote, voteLock, r) \in [Votes -> VoteStatuses]
           /\ AfterRollback(vote, newVote, voteLock, r) \in [Votes -> VoteStatuses]
           /\ Released(voteLock, r) \in [Votes -> Requests \cup {Free}]
           /\ AfterCommit(project, newProject, projectLock, r)
                \in [Projects -> ProjectStatuses]
           /\ AfterRollback(project, newProject, projectLock, r)
                \in [Projects -> ProjectStatuses]
           /\ Released(projectLock, r) \in [Projects -> Requests \cup {Free}]
           /\ AfterCommit(balance, newBalance, vaultLock, r) \in [Vaults -> Int]
           /\ AfterRollback(balance, newBalance, vaultLock, r) \in [Vaults -> Int]
           /\ Released(vaultLock, r) \in [Vaults -> Requests \cup {Free}]
           /\ \A x \in Vaults : Visible(balance, newBalance, vaultLock, x, r) \in Int
BY DEF TypeOK, AfterCommit, AfterRollback, Released, Visible

\* The project of a request that works on something is a project.
LEMMA ProjectOfType ==
    ASSUME TypeOK, NEW r \in Requests, target[r] \in Votes \cup Projects
    PROVE  ProjectOf(r) \in Projects
BY ProjectsAssumption DEF TypeOK, ProjectOf

-----------------------------------------------------------------------------
\* The typing of the variables, with what each location works on.
Typed == TypeOK /\ Targets

\* Every step of every request keeps the types, and leaves the request at a
\* location whose target it has.
LEMMA TypedStep ==
    ASSUME Typed, [Next]_vars
    PROVE  Typed'
<1> SUFFICES TypeOK' /\ Targets'
  BY DEF Typed
<1> TypeOK /\ Targets
  BY DEF Typed
<1> USE DEF VoteStatuses, ProjectStatuses, Locations, Goto, Return, UnchangedRows,
            voteRows, projectRows, vaultRows, history
<1>0. Votes \cap Projects = {} /\ Nothing \notin Votes \cup Projects
  BY ProjectsAssumption
<1>a. ASSUME NEW r \in Requests, target[r] \in Votes \cup Projects
       PROVE /\ ProjectOf(r) \in Projects
             /\ Source[ProjectOf(r)] \in Vaults
             /\ Budget[ProjectOf(r)] \in Int /\ -Budget[ProjectOf(r)] \in Int
             /\ Payout[ProjectOf(r)] # NoVault => Payout[ProjectOf(r)] \in Vaults
  BY <1>a, ProjectOfType, ProjectsAssumption
<1>1. ASSUME NEW r \in Requests, Begin(r) PROVE TypeOK' /\ Targets'
  <2>1. PICK t \in Votes \cup Projects, l \in {"reopen", "respond", "count", "debit"} :
           /\ Start(r, t, l) /\ UnchangedRows
           /\ l \in {"respond", "count"} => t \in Votes
           /\ l = "reopen" => t \in Projects
    BY <1>1 DEF Begin, StartReopen, StartRetry, StartRespond, StartClose
  <2>2. TypeOK'
    BY <2>1 DEF Start, TypeOK
  <2>3. Targets'
    BY <2>1 DEF Start, TypeOK, Targets, ProjectOf
  <2>4. QED
    BY <2>2, <2>3
<1>2. ASSUME NEW r \in Requests, CheckNoOpenVote(r) PROVE TypeOK' /\ Targets'
  <2>1. CASE Return(r)
    BY <1>2, <2>1 DEF CheckNoOpenVote, TypeOK, Targets, ProjectOf
  <2>2. CASE Goto(r, "open") /\ UNCHANGED <<target, decision>>
    BY <1>2, <2>2 DEF CheckNoOpenVote, TypeOK, Targets, ProjectOf
  <2>3. QED
    BY <1>2, <2>1, <2>2 DEF CheckNoOpenVote
<1>3. ASSUME NEW r \in Requests, NEW v \in Votes, OpenVote(r, v)
      PROVE TypeOK' /\ Targets'
  BY <1>3 DEF OpenVote, TypeOK, Targets, ProjectOf
<1>4. ASSUME NEW r \in Requests, NEW m \in Members, NEW c \in Choices,
             CreateResponse(r, m, c)
      PROVE TypeOK' /\ Targets'
  BY <1>4 DEF CreateResponse, TypeOK, Targets, ProjectOf
<1>5. ASSUME NEW r \in Requests, CountResponses(r) PROVE TypeOK' /\ Targets'
  BY <1>5, DecisionRange DEF CountResponses, TypeOK, Targets, ProjectOf
<1>6. ASSUME NEW r \in Requests, CloseVote(r) PROVE TypeOK' /\ Targets'
  <2>1. target[r] \in Votes
    BY <1>6 DEF CloseVote, Targets, ProjectOf
  <2>2. decision[r] \in Decisions
    BY <1>6 DEF CloseVote, Targets, ProjectOf
  <2>3. PICK l \in {"reject", "approve", "commit"} : pc' = [pc EXCEPT ![r] = l]
    BY <1>6, <2>2 DEF CloseVote, Decisions
  <2>4. TypeOK'
    BY <1>6, <2>1, <2>2, <2>3 DEF CloseVote, TypeOK
  <2>5. Targets'
    BY <1>6, <2>1, <2>3 DEF CloseVote, TypeOK, Targets, ProjectOf
  <2>6. QED
    BY <2>4, <2>5
<1>7. ASSUME NEW r \in Requests, NEW s \in {"REJECTED", "APPROVED", "ACTIVE"},
             NEW l \in {"commit", "debit", "credit", "paid"},
             SetProject(r, s, l), target[r] \in Votes \cup Projects,
             l = "credit" => Payout[ProjectOf(r)] \in Vaults
      PROVE TypeOK' /\ Targets'
  <2>1. TypeOK'
    BY <1>7 DEF SetProject, TypeOK
  <2>2. Targets'
    BY <1>7 DEF SetProject, TypeOK, Targets, ProjectOf
  <2>3. QED
    BY <2>1, <2>2
<1>8. ASSUME NEW r \in Requests, RejectProject(r) PROVE TypeOK' /\ Targets'
  BY <1>7, <1>8 DEF RejectProject, Targets, ProjectOf
<1>9. ASSUME NEW r \in Requests, ApproveProject(r) PROVE TypeOK' /\ Targets'
  BY <1>7, <1>9 DEF ApproveProject, Targets, ProjectOf
<1>10. ASSUME NEW r \in Requests, ClaimProject(r) PROVE TypeOK' /\ Targets'
  BY <1>7, <1>a, <1>10 DEF ClaimProject, Targets, ProjectOf
<1>11. ASSUME NEW r \in Requests, NEW x \in Vaults, NEW d \in Int,
              NEW l \in {"claim", "commit", "paid"},
              AddToVault(r, x, d), Goto(r, l), target[r] \in Votes \cup Projects
       PROVE TypeOK' /\ Targets'
  <2>2. TypeOK'
    BY <1>11, RowTypes DEF AddToVault, TypeOK
  <2>3. Targets'
    BY <1>11 DEF AddToVault, TypeOK, Targets, ProjectOf
  <2>4. QED
    BY <2>2, <2>3
<1>13. ASSUME NEW r \in Requests, DebitSource(r) PROVE TypeOK' /\ Targets'
  BY <1>11, <1>a, <1>13 DEF DebitSource, Targets, ProjectOf
<1>14. ASSUME NEW r \in Requests, DebitRefused(r) \/ ClaimLost(r)
       PROVE TypeOK' /\ Targets'
  BY <1>14 DEF DebitRefused, ClaimLost, TypeOK, Targets, ProjectOf
<1>15. ASSUME NEW r \in Requests, UndoDebit(r) PROVE TypeOK' /\ Targets'
  BY <1>11, <1>a, <1>15 DEF UndoDebit, Targets, ProjectOf
<1>16. ASSUME NEW r \in Requests, CreditPayout(r) PROVE TypeOK' /\ Targets'
  BY <1>11, <1>a, <1>16 DEF CreditPayout, Targets, ProjectOf
<1>17. ASSUME NEW r \in Requests, Commit(r) PROVE TypeOK' /\ Targets'
  <2>1. target[r] \in Votes \cup Projects
    BY <1>17 DEF Commit, Targets
  <2>2. approvals' \in [Projects -> Nat]
    <3>1. \/ approvals' = approvals
          \/ approvals' = [approvals EXCEPT ![ProjectOf(r)] = approvals[ProjectOf(r)] + 1]
      BY <1>17 DEF Commit
    <3>2. QED
      BY <1>a, <2>1, <3>1 DEF TypeOK
  <2>3. payouts' \in [Projects -> Nat] /\ ledger' \in [Vaults -> Int]
    <3>1. \A x \in Vaults : ledger[x] + PayoutRows(ProjectOf(r), x) \in Int
      BY <1>a, <2>1 DEF PayoutRows, TypeOK
    <3>2. CASE pc[r] = "paid"
      BY <1>17, <3>1, <3>2 DEF Commit, TypeOK
    <3>3. CASE pc[r] # "paid"
      BY <1>17, <3>3 DEF Commit, TypeOK
    <3>4. QED
      BY <3>2, <3>3
  <2>4. /\ pc' \in [Requests -> Locations]
        /\ target' \in [Requests -> Votes \cup Projects \cup {Nothing}]
        /\ decision' \in [Requests -> Decisions \cup {"NONE"}]
    <3>1. CASE pc[r] = "paid"
      BY <1>17, <3>1 DEF Commit, TypeOK
    <3>2. CASE pc[r] # "paid"
      BY <1>17, <3>2 DEF Commit, TypeOK
    <3>3. QED
      BY <3>1, <3>2
  <2>5. /\ vote' \in [Votes -> VoteStatuses]
        /\ voteLock' \in [Votes -> Requests \cup {Free}]
        /\ project' \in [Projects -> ProjectStatuses]
        /\ projectLock' \in [Projects -> Requests \cup {Free}]
        /\ balance' \in [Vaults -> Int]
        /\ vaultLock' \in [Vaults -> Requests \cup {Free}]
    BY <1>17, RowTypes DEF Commit
  <2>6. TypeOK'
    BY <1>17, <2>2, <2>3, <2>4, <2>5 DEF Commit, TypeOK
  <2>7. Targets'
    <3>1. CASE pc[r] = "paid"
      BY <1>17, <2>1, <3>1 DEF Commit, TypeOK, Targets, ProjectOf
    <3>2. CASE pc[r] # "paid"
      BY <1>17, <3>2 DEF Commit, TypeOK, Targets, ProjectOf
    <3>3. QED
      BY <3>1, <3>2
  <2>8. QED
    BY <2>6, <2>7
<1>18. ASSUME NEW r \in Requests, LogPayout(r) PROVE TypeOK' /\ Targets'
  BY <1>a, <1>18 DEF LogPayout, TypeOK, Targets, ProjectOf
<1>19. ASSUME NEW r \in Requests, Abort(r) PROVE TypeOK' /\ Targets'
  <2>4. TypeOK'
    BY <1>19, RowTypes DEF Abort, TypeOK
  <2>5. Targets'
    BY <1>19 DEF Abort, TypeOK, Targets, ProjectOf
  <2>6. QED
    BY <2>4, <2>5
<1>20. ASSUME Environment PROVE TypeOK' /\ Targets'
  <2>1. ASSUME NEW p \in Projects, NEW v \in Votes, Submit(p, v)
        PROVE TypeOK' /\ Targets'
    BY <2>1 DEF Submit, TypeOK, Targets, ProjectOf
  <2>2. ASSUME NEW p \in Projects, CloseProject(p) PROVE TypeOK' /\ Targets'
    BY <2>2 DEF CloseProject, TypeOK, Targets, ProjectOf
  <2>3. ASSUME NEW v \in Votes, Expire(v) PROVE TypeOK' /\ Targets'
    BY <2>3 DEF Expire, TypeOK, Targets, ProjectOf
  <2>4. ASSUME NEW x \in Vaults, NEW d \in {-1, 1}, OtherEntry(x, d)
        PROVE TypeOK' /\ Targets'
    BY <2>4 DEF OtherEntry, TypeOK, Targets, ProjectOf
  <2>5. QED
    BY <1>20, <2>1, <2>2, <2>3, <2>4 DEF Environment
<1>21. CASE UNCHANGED vars
  BY <1>21 DEF vars, TypeOK, Targets, ProjectOf
<1>22. QED
  BY <1>1, <1>2, <1>3, <1>4, <1>5, <1>6, <1>8, <1>9, <1>10, <1>13, <1>14, <1>15,
     <1>16, <1>17, <1>18, <1>19, <1>20, <1>21 DEF Next, Continue

\* The variables of Projects stay within their types: statuses, lock owners,
\* balances and locations.
THEOREM TypedAlways == Spec => []Typed
<1>1. Init => Typed
  BY ProjectsAssumption
  DEF Init, Typed, TypeOK, Targets, VoteStatuses, ProjectStatuses, Locations
<1>2. Typed /\ [Next]_vars => Typed'
  BY TypedStep
<1>3. QED
  BY <1>1, <1>2, PTL DEF Spec

-----------------------------------------------------------------------------
\* What open transactions hold and have written.
TransactionInv ==
    /\ CleanRows
    /\ VoteLockOwner /\ ProjectLockOwner /\ VaultLockOwner
    /\ Existing
    /\ ResolutionWrites /\ RetryWrites /\ ActivationWrites

\* No statement disturbs the locks and the pending writes of another request's
\* transaction, and each leaves its own as the next statement expects them.
LEMMA TransactionStep ==
    ASSUME TypeOK, Targets, TransactionInv, [Next]_vars
    PROVE  TransactionInv'
<1> CleanRows /\ VoteLockOwner /\ ProjectLockOwner /\ VaultLockOwner
  BY DEF TransactionInv
<1> Existing /\ ResolutionWrites /\ RetryWrites /\ ActivationWrites
  BY DEF TransactionInv
<1> TypeOK' /\ Targets'
  BY TypedStep DEF Typed
<1> USE DEF Goto, Return, UnchangedRows, voteRows, projectRows, vaultRows, history
<1>a. ASSUME NEW r \in Requests, target[r] \in Votes \cup Projects
      PROVE  ProjectOf(r) \in Projects /\ Source[ProjectOf(r)] \in Vaults
  BY <1>a, ProjectsAssumption DEF ProjectOf
<1>1. ASSUME NEW r \in Requests, NEW p \in Projects, StartReopen(r, p)
      PROVE  TransactionInv'
  <2>1. CleanRows' /\ VoteLockOwner' /\ ProjectLockOwner' /\ VaultLockOwner'
    BY <1>1, ProjectsAssumption
    DEF StartReopen, Start, TypeOK, CleanRows, Targets, VoteLockOwner, ProjectLockOwner,
        ProjectOf, VaultLockOwner
  <2>2. Existing' /\ RetryWrites'
    BY <1>1, ProjectsAssumption
    DEF StartReopen, Start, TypeOK, Targets, Existing, ProjectOf, ProjectLockOwner,
        RetryWrites
  <2>3. ResolutionWrites'
    BY <1>1, ProjectsAssumption
    DEF StartReopen, Start, TypeOK, Targets, VoteLockOwner, ProjectLockOwner,
        ResolutionWrites, ResolutionOf, Resolving, ProjectOf
  <2>4. ActivationWrites'
    <3>1. ASSUME NEW s \in Requests, s # r PROVE (ActivationOf(s))'
      BY <3>1, <1>1, ProjectsAssumption
      DEF StartReopen, Start, TypeOK, Targets, ProjectLockOwner, VaultLockOwner,
          ActivationWrites, ActivationOf, ProjectOf
    <3>2. (ActivationOf(r))'
      BY <1>1, ProjectsAssumption
      DEF StartReopen, Start, TypeOK, Targets, ProjectLockOwner, VaultLockOwner,
          ActivationWrites, ActivationOf, ProjectOf
    <3>3. QED
      BY <3>1, <3>2 DEF ActivationWrites
  <2>5. QED
    BY <2>1, <2>2, <2>3, <2>4 DEF TransactionInv
<1>2. ASSUME NEW r \in Requests, NEW p \in Projects, StartRetry(r, p)
      PROVE  TransactionInv'
  <2>1. CleanRows' /\ VoteLockOwner' /\ ProjectLockOwner' /\ VaultLockOwner'
    BY <1>2, ProjectsAssumption
    DEF StartRetry, Start, TypeOK, CleanRows, Targets, VoteLockOwner, ProjectLockOwner,
        ProjectOf, VaultLockOwner
  <2>2. Existing' /\ RetryWrites'
    BY <1>2, ProjectsAssumption
    DEF StartRetry, Start, TypeOK, Targets, Existing, ProjectOf, ProjectLockOwner,
        RetryWrites
  <2>3. ResolutionWrites'
    BY <1>2, ProjectsAssumption
    DEF StartRetry, Start, TypeOK, Targets, VoteLockOwner, ProjectLockOwner,
        ResolutionWrites, ResolutionOf, Resolving, ProjectOf
  <2>4. ActivationWrites'
    <3>1. ASSUME NEW s \in Requests, s # r PROVE (ActivationOf(s))'
      BY <3>1, <1>2, ProjectsAssumption
      DEF StartRetry, Start, TypeOK, Targets, ProjectLockOwner, VaultLockOwner,
          ActivationWrites, ActivationOf, ProjectOf
    <3>2. (ActivationOf(r))'
      BY <1>2, ProjectsAssumption
      DEF StartRetry, Start, TypeOK, Targets, ProjectLockOwner, VaultLockOwner,
          ActivationWrites, ActivationOf, ProjectOf
    <3>3. QED
      BY <3>1, <3>2 DEF ActivationWrites
  <2>5. QED
    BY <2>1, <2>2, <2>3, <2>4 DEF TransactionInv
<1>3. ASSUME NEW r \in Requests, NEW v \in Votes, StartRespond(r, v)
      PROVE  TransactionInv'
  <2>1. CleanRows' /\ VoteLockOwner' /\ ProjectLockOwner' /\ VaultLockOwner'
    BY <1>3, ProjectsAssumption
    DEF StartRespond, Start, TypeOK, CleanRows, Targets, VoteLockOwner,
        ProjectLockOwner, ProjectOf, VaultLockOwner
  <2>2. Existing' /\ RetryWrites'
    BY <1>3, ProjectsAssumption
    DEF StartRespond, Start, TypeOK, Targets, Existing, ProjectOf, ProjectLockOwner,
        RetryWrites
  <2>3. ResolutionWrites'
    BY <1>3, ProjectsAssumption
    DEF StartRespond, Start, TypeOK, Targets, VoteLockOwner, ProjectLockOwner,
        ResolutionWrites, ResolutionOf, Resolving, ProjectOf
  <2>4. ActivationWrites'
    <3>1. ASSUME NEW s \in Requests, s # r PROVE (ActivationOf(s))'
      BY <3>1, <1>3, ProjectsAssumption
      DEF StartRespond, Start, TypeOK, Targets, ProjectLockOwner, VaultLockOwner,
          ActivationWrites, ActivationOf, ProjectOf
    <3>2. (ActivationOf(r))'
      BY <1>3, ProjectsAssumption
      DEF StartRespond, Start, TypeOK, Targets, ProjectLockOwner, VaultLockOwner,
          ActivationWrites, ActivationOf, ProjectOf
    <3>3. QED
      BY <3>1, <3>2 DEF ActivationWrites
  <2>5. QED
    BY <2>1, <2>2, <2>3, <2>4 DEF TransactionInv
<1>4. ASSUME NEW r \in Requests, NEW v \in Votes, StartClose(r, v)
      PROVE  TransactionInv'
  <2>1. CleanRows' /\ VoteLockOwner' /\ ProjectLockOwner' /\ VaultLockOwner'
    BY <1>4, ProjectsAssumption
    DEF StartClose, Start, TypeOK, CleanRows, Targets, VoteLockOwner, ProjectLockOwner,
        ProjectOf, VaultLockOwner
  <2>2. Existing' /\ RetryWrites'
    BY <1>4, ProjectsAssumption
    DEF StartClose, Start, TypeOK, Targets, Existing, ProjectOf, ProjectLockOwner,
        RetryWrites
  <2>3. ResolutionWrites'
    BY <1>4, ProjectsAssumption
    DEF StartClose, Start, TypeOK, Targets, VoteLockOwner, ProjectLockOwner,
        ResolutionWrites, ResolutionOf, Resolving, ProjectOf
  <2>4. ActivationWrites'
    <3>1. ASSUME NEW s \in Requests, s # r PROVE (ActivationOf(s))'
      BY <3>1, <1>4, ProjectsAssumption
      DEF StartClose, Start, TypeOK, Targets, ProjectLockOwner, VaultLockOwner,
          ActivationWrites, ActivationOf, ProjectOf
    <3>2. (ActivationOf(r))'
      BY <1>4, ProjectsAssumption
      DEF StartClose, Start, TypeOK, Targets, ProjectLockOwner, VaultLockOwner,
          ActivationWrites, ActivationOf, ProjectOf
    <3>3. QED
      BY <3>1, <3>2 DEF ActivationWrites
  <2>5. QED
    BY <2>1, <2>2, <2>3, <2>4 DEF TransactionInv
<1>5. ASSUME NEW r \in Requests, CheckNoOpenVote(r)
      PROVE  TransactionInv'
  <2>1. CleanRows'
    <3>1. CASE Return(r)
      BY <3>1, <1>5, ProjectsAssumption DEF CheckNoOpenVote, TypeOK, CleanRows
    <3>2. CASE Goto(r, "open") /\ UNCHANGED <<target, decision>>
      BY <3>2, <1>5, ProjectsAssumption DEF CheckNoOpenVote, TypeOK, CleanRows
    <3>3. QED
      BY <1>5, <3>1, <3>2 DEF CheckNoOpenVote
  <2>2. VoteLockOwner'
    <3>1. CASE Return(r)
      BY <3>1, <1>5, ProjectsAssumption
      DEF CheckNoOpenVote, TypeOK, Targets, VoteLockOwner
    <3>2. CASE Goto(r, "open") /\ UNCHANGED <<target, decision>>
      BY <3>2, <1>5, ProjectsAssumption
      DEF CheckNoOpenVote, TypeOK, Targets, VoteLockOwner
    <3>3. QED
      BY <1>5, <3>1, <3>2 DEF CheckNoOpenVote
  <2>3. ProjectLockOwner'
    <3>1. CASE Return(r)
      BY <3>1, <1>5, ProjectsAssumption
      DEF CheckNoOpenVote, TypeOK, Targets, ProjectLockOwner, ProjectOf
    <3>2. CASE Goto(r, "open") /\ UNCHANGED <<target, decision>>
      BY <3>2, <1>5, ProjectsAssumption
      DEF CheckNoOpenVote, TypeOK, Targets, ProjectLockOwner, ProjectOf
    <3>3. QED
      BY <1>5, <3>1, <3>2 DEF CheckNoOpenVote
  <2>4. VaultLockOwner'
    <3>1. CASE Return(r)
      BY <3>1, <1>5, ProjectsAssumption
      DEF CheckNoOpenVote, TypeOK, Targets, VaultLockOwner, ProjectOf
    <3>2. CASE Goto(r, "open") /\ UNCHANGED <<target, decision>>
      BY <3>2, <1>5, ProjectsAssumption
      DEF CheckNoOpenVote, TypeOK, Targets, VaultLockOwner, ProjectOf
    <3>3. QED
      BY <1>5, <3>1, <3>2 DEF CheckNoOpenVote
  <2>5. Existing'
    <3>1. CASE Return(r)
      BY <3>1, <1>5, ProjectsAssumption
      DEF CheckNoOpenVote, TypeOK, Targets, Existing, ProjectOf
    <3>2. CASE Goto(r, "open") /\ UNCHANGED <<target, decision>>
      BY <3>2, <1>5, ProjectsAssumption
      DEF CheckNoOpenVote, TypeOK, Targets, Existing, ProjectOf
    <3>3. QED
      BY <1>5, <3>1, <3>2 DEF CheckNoOpenVote
  <2>6. ResolutionWrites'
    <3>1. CASE Return(r)
      BY <3>1, <1>5, ProjectsAssumption
      DEF CheckNoOpenVote, TypeOK, Targets, VoteLockOwner, ProjectLockOwner,
          ResolutionWrites, ResolutionOf, Resolving, ProjectOf
    <3>2. CASE Goto(r, "open") /\ UNCHANGED <<target, decision>>
      BY <3>2, <1>5, ProjectsAssumption
      DEF CheckNoOpenVote, TypeOK, Targets, VoteLockOwner, ProjectLockOwner,
          ResolutionWrites, ResolutionOf, Resolving, ProjectOf
    <3>3. QED
      BY <1>5, <3>1, <3>2 DEF CheckNoOpenVote
  <2>7. RetryWrites'
    <3>1. CASE Return(r)
      BY <3>1, <1>5, ProjectsAssumption
      DEF CheckNoOpenVote, TypeOK, Targets, ProjectLockOwner, RetryWrites, ProjectOf
    <3>2. CASE Goto(r, "open") /\ UNCHANGED <<target, decision>>
      BY <3>2, <1>5, ProjectsAssumption
      DEF CheckNoOpenVote, TypeOK, Targets, ProjectLockOwner, RetryWrites, ProjectOf
    <3>3. QED
      BY <1>5, <3>1, <3>2 DEF CheckNoOpenVote
  <2>8. ActivationWrites'
    <3>1. CASE Return(r)
      <4>1. ASSUME NEW s \in Requests, s # r PROVE ActivationOf(s)'
        BY <3>1, <4>1, <1>5, ProjectsAssumption
        DEF CheckNoOpenVote, TypeOK, Targets, ProjectLockOwner, VaultLockOwner,
            ActivationWrites, ActivationOf, ProjectOf
      <4>2. ActivationOf(r)'
        BY <3>1, <1>5, ProjectsAssumption
        DEF CheckNoOpenVote, TypeOK, Targets, ProjectLockOwner, VaultLockOwner,
            ActivationWrites, ActivationOf, ProjectOf
      <4>3. QED
        BY <4>1, <4>2 DEF ActivationWrites
    <3>2. CASE Goto(r, "open") /\ UNCHANGED <<target, decision>>
      BY <3>2, <1>5, ProjectsAssumption
      DEF CheckNoOpenVote, TypeOK, Targets, ProjectLockOwner, VaultLockOwner,
          ActivationWrites, ActivationOf, ProjectOf
    <3>3. QED
      BY <1>5, <3>1, <3>2 DEF CheckNoOpenVote
  <2>9. QED
    BY <2>1, <2>2, <2>3, <2>4, <2>5, <2>6, <2>7, <2>8 DEF TransactionInv
<1>6. ASSUME NEW r \in Requests, NEW v \in Votes, OpenVote(r, v)
      PROVE  TransactionInv'
  <2>1. CleanRows' /\ VoteLockOwner' /\ ProjectLockOwner' /\ VaultLockOwner'
    BY <1>6, ProjectsAssumption
    DEF OpenVote, TypeOK, CleanRows, Targets, VoteLockOwner, ProjectLockOwner,
        ProjectOf, VaultLockOwner
  <2>2. Existing' /\ RetryWrites'
    BY <1>6, ProjectsAssumption
    DEF OpenVote, TypeOK, Targets, Existing, ProjectOf, ProjectLockOwner, RetryWrites
  <2>3. ResolutionWrites'
    BY <1>6, ProjectsAssumption
    DEF OpenVote, TypeOK, Targets, VoteLockOwner, ProjectLockOwner, ResolutionWrites,
        ResolutionOf, Resolving, ProjectOf, Existing
  <2>4. ActivationWrites'
    <3>1. ASSUME NEW s \in Requests, s # r PROVE (ActivationOf(s))'
      BY <3>1, <1>6, ProjectsAssumption
      DEF OpenVote, TypeOK, Targets, ProjectLockOwner, VaultLockOwner, ActivationWrites,
          ActivationOf, ProjectOf, Existing
    <3>2. (ActivationOf(r))'
      BY <1>6, ProjectsAssumption
      DEF OpenVote, TypeOK, Targets, ProjectLockOwner, VaultLockOwner, ActivationWrites,
          ActivationOf, ProjectOf, Existing
    <3>3. QED
      BY <3>1, <3>2 DEF ActivationWrites
  <2>5. QED
    BY <2>1, <2>2, <2>3, <2>4 DEF TransactionInv
<1>7. ASSUME NEW r \in Requests, NEW m \in Members, NEW c \in Choices, CreateResponse(r, m, c)
      PROVE  TransactionInv'
  <2>1. CleanRows' /\ VoteLockOwner' /\ ProjectLockOwner' /\ VaultLockOwner'
    BY <1>7, ProjectsAssumption
    DEF CreateResponse, TypeOK, CleanRows, Targets, VoteLockOwner, ProjectLockOwner,
        ProjectOf, VaultLockOwner
  <2>2. Existing' /\ RetryWrites'
    BY <1>7, ProjectsAssumption
    DEF CreateResponse, TypeOK, Targets, Existing, ProjectOf, ProjectLockOwner,
        RetryWrites
  <2>3. ResolutionWrites'
    BY <1>7, ProjectsAssumption
    DEF CreateResponse, TypeOK, Targets, VoteLockOwner, ProjectLockOwner,
        ResolutionWrites, ResolutionOf, Resolving, ProjectOf
  <2>4. ActivationWrites'
    <3>1. ASSUME NEW s \in Requests, s # r PROVE (ActivationOf(s))'
      BY <3>1, <1>7, ProjectsAssumption
      DEF CreateResponse, TypeOK, Targets, ProjectLockOwner, VaultLockOwner,
          ActivationWrites, ActivationOf, ProjectOf
    <3>2. (ActivationOf(r))'
      BY <1>7, ProjectsAssumption
      DEF CreateResponse, TypeOK, Targets, ProjectLockOwner, VaultLockOwner,
          ActivationWrites, ActivationOf, ProjectOf
    <3>3. QED
      BY <3>1, <3>2 DEF ActivationWrites
  <2>5. QED
    BY <2>1, <2>2, <2>3, <2>4 DEF TransactionInv
<1>8. ASSUME NEW r \in Requests, CountResponses(r)
      PROVE  TransactionInv'
  <2>1. CleanRows' /\ VoteLockOwner' /\ ProjectLockOwner' /\ VaultLockOwner'
    BY <1>8, ProjectsAssumption
    DEF CountResponses, TypeOK, CleanRows, Targets, VoteLockOwner, ProjectLockOwner,
        ProjectOf, VaultLockOwner
  <2>2. Existing' /\ RetryWrites'
    BY <1>8, ProjectsAssumption
    DEF CountResponses, TypeOK, Targets, Existing, ProjectOf, ProjectLockOwner,
        RetryWrites
  <2>3. ResolutionWrites'
    BY <1>8, ProjectsAssumption
    DEF CountResponses, TypeOK, Targets, VoteLockOwner, ProjectLockOwner,
        ResolutionWrites, ResolutionOf, Resolving, ProjectOf
  <2>4. ActivationWrites'
    BY <1>8, ProjectsAssumption
    DEF CountResponses, TypeOK, Targets, ProjectLockOwner, VaultLockOwner,
        ActivationWrites, ActivationOf, ProjectOf
  <2>5. QED
    BY <2>1, <2>2, <2>3, <2>4 DEF TransactionInv
<1>9. ASSUME NEW r \in Requests, CloseVote(r)
      PROVE  TransactionInv'
  <2>1. CleanRows' /\ VoteLockOwner' /\ ProjectLockOwner' /\ VaultLockOwner'
    BY <1>9, ProjectsAssumption
    DEF CloseVote, Lockable, Decisions, TypeOK, CleanRows, Targets, VoteLockOwner,
        ProjectLockOwner, ProjectOf, VaultLockOwner
  <2>2. Existing' /\ RetryWrites'
    BY <1>9, ProjectsAssumption
    DEF CloseVote, Lockable, Decisions, TypeOK, Targets, Existing, ProjectOf,
        ProjectLockOwner, RetryWrites
  <2>3. ResolutionWrites'
    <3>1. ASSUME NEW s \in Requests, s # r PROVE (Resolving(s) => ResolutionOf(s))'
      BY <3>1, <1>9, ProjectsAssumption
      DEF CloseVote, Lockable, Decisions, TypeOK, Targets, VoteLockOwner,
          ProjectLockOwner, ResolutionWrites, ResolutionOf, Resolving, ProjectOf
    <3>2. target[r] \in Votes /\ decision[r] \in Decisions
      BY <1>9 DEF CloseVote, Targets
    <3>3. pc'[r] \in {"reject", "approve", "commit"} /\ target' = target
      BY <1>9, <3>2 DEF CloseVote, Decisions, TypeOK
    <3>4. (Resolving(r) => ResolutionOf(r))'
      <4>1. CASE decision[r] = "REJECTED"
        BY <4>1, <3>2, <1>9, ProjectsAssumption
        DEF CloseVote, Lockable, Decisions, TypeOK, Targets, VoteLockOwner,
            ProjectLockOwner, ResolutionWrites, ResolutionOf, Resolving, ProjectOf
      <4>2. CASE decision[r] = "APPROVED"
        BY <4>2, <3>2, <1>9, ProjectsAssumption
        DEF CloseVote, Lockable, Decisions, TypeOK, Targets, VoteLockOwner,
            ProjectLockOwner, ResolutionWrites, ResolutionOf, Resolving, ProjectOf
      <4>3. CASE decision[r] = "INVALID"
        <5>1. projectLock[Subject[target[r]]] # r
          BY <1>9, <3>2, ProjectsAssumption DEF CloseVote, ProjectLockOwner
        <5>2. /\ pc'[r] = "commit" /\ newVote'[target[r]] = "INVALID"
              /\ voteLock'[target[r]] = r
              /\ UNCHANGED <<projectLock, target>>
          BY <1>9, <3>2, <4>3 DEF CloseVote, TypeOK
        <5>3. QED
          BY <5>1, <5>2 DEF ResolutionOf
      <4>4. QED
        BY <3>2, <4>1, <4>2, <4>3 DEF Decisions
    <3>5. QED
      BY <3>1, <3>4 DEF ResolutionWrites
  <2>4. ActivationWrites'
    <3>1. ASSUME NEW s \in Requests, s # r PROVE (ActivationOf(s))'
      BY <3>1, <1>9, ProjectsAssumption
      DEF CloseVote, Lockable, Decisions, TypeOK, Targets, ProjectLockOwner,
          VaultLockOwner, ActivationWrites, ActivationOf, ProjectOf
    <3>2. target[r] \in Votes /\ decision[r] \in Decisions
      BY <1>9 DEF CloseVote, Targets
    <3>3. pc'[r] \in {"reject", "approve", "commit"} /\ target' = target
      BY <1>9, <3>2 DEF CloseVote, Decisions, TypeOK
    <3>4. (ActivationOf(r))'
      <4>1. target[r] \in Votes /\ pc[r] \notin {"claim", "undo", "credit", "commit", "paid"}
        BY <1>9 DEF CloseVote, Targets
      <4>2. vaultLock[Source[ProjectOf(r)]] # r
        BY <1>a, <4>1 DEF VaultLockOwner
      <4>3. UNCHANGED <<vaultLock, target>> /\ pc'[r] \in {"reject", "approve", "commit"}
        BY <1>9, <3>3 DEF CloseVote, SetProject, TypeOK
      <4>4. QED
        BY <4>2, <4>3 DEF ActivationOf, ProjectOf
    <3>5. QED
      BY <3>1, <3>4 DEF ActivationWrites
  <2>5. QED
    BY <2>1, <2>2, <2>3, <2>4 DEF TransactionInv
<1>10. ASSUME NEW r \in Requests, RejectProject(r)
      PROVE  TransactionInv'
  <2>1. CleanRows' /\ VoteLockOwner' /\ ProjectLockOwner' /\ VaultLockOwner'
    BY <1>10, ProjectsAssumption
    DEF RejectProject, SetProject, Lockable, TypeOK, CleanRows, Targets, VoteLockOwner,
        ProjectLockOwner, ProjectOf, VaultLockOwner
  <2>2. Existing' /\ RetryWrites'
    BY <1>10, ProjectsAssumption
    DEF RejectProject, SetProject, Lockable, TypeOK, Targets, Existing, ProjectOf,
        ProjectLockOwner, RetryWrites
  <2>3. ResolutionWrites'
    BY <1>10, ProjectsAssumption
    DEF RejectProject, SetProject, Lockable, TypeOK, Targets, VoteLockOwner,
        ProjectLockOwner, ResolutionWrites, ResolutionOf, Resolving, ProjectOf
  <2>4. ActivationWrites'
    <3>1. ASSUME NEW s \in Requests, s # r PROVE (ActivationOf(s))'
      BY <3>1, <1>10, ProjectsAssumption
      DEF RejectProject, SetProject, Lockable, TypeOK, Targets, ProjectLockOwner,
          VaultLockOwner, ActivationWrites, ActivationOf, ProjectOf
    <3>2. (ActivationOf(r))'
      <4>1. target[r] \in Votes /\ pc[r] \notin {"claim", "undo", "credit", "commit", "paid"}
        BY <1>10 DEF RejectProject, Targets
      <4>2. vaultLock[Source[ProjectOf(r)]] # r
        BY <1>a, <4>1 DEF VaultLockOwner
      <4>3. UNCHANGED <<vaultLock, target>> /\ pc'[r] \in {"reject", "approve", "commit"}
        BY <1>10 DEF RejectProject, SetProject, TypeOK
      <4>4. QED
        BY <4>2, <4>3 DEF ActivationOf, ProjectOf
    <3>3. QED
      BY <3>1, <3>2 DEF ActivationWrites
  <2>5. QED
    BY <2>1, <2>2, <2>3, <2>4 DEF TransactionInv
<1>11. ASSUME NEW r \in Requests, ApproveProject(r)
      PROVE  TransactionInv'
  <2>1. CleanRows' /\ VoteLockOwner' /\ ProjectLockOwner' /\ VaultLockOwner'
    BY <1>11, ProjectsAssumption
    DEF ApproveProject, SetProject, Lockable, TypeOK, CleanRows, Targets, VoteLockOwner,
        ProjectLockOwner, ProjectOf, VaultLockOwner
  <2>2. Existing' /\ RetryWrites'
    BY <1>11, ProjectsAssumption
    DEF ApproveProject, SetProject, Lockable, TypeOK, Targets, Existing, ProjectOf,
        ProjectLockOwner, RetryWrites
  <2>3. ResolutionWrites'
    BY <1>11, ProjectsAssumption
    DEF ApproveProject, SetProject, Lockable, TypeOK, Targets, VoteLockOwner,
        ProjectLockOwner, ResolutionWrites, ResolutionOf, Resolving, ProjectOf
  <2>4. ActivationWrites'
    BY <1>11, ProjectsAssumption
    DEF ApproveProject, SetProject, Lockable, TypeOK, Targets, ProjectLockOwner,
        VaultLockOwner, ActivationWrites, ActivationOf, ProjectOf
  <2>5. QED
    BY <2>1, <2>2, <2>3, <2>4 DEF TransactionInv
<1>12. ASSUME NEW r \in Requests, DebitSource(r)
      PROVE  TransactionInv'
  <2>1. CleanRows' /\ VoteLockOwner' /\ ProjectLockOwner' /\ VaultLockOwner'
    BY <1>12, ProjectsAssumption
    DEF DebitSource, AddToVault, Covered, Lockable, Visible, TypeOK, CleanRows, Targets,
        VoteLockOwner, ProjectLockOwner, ProjectOf, VaultLockOwner
  <2>2. Existing' /\ RetryWrites'
    BY <1>12, ProjectsAssumption
    DEF DebitSource, AddToVault, Covered, Lockable, Visible, TypeOK, Targets, Existing,
        ProjectOf, ProjectLockOwner, RetryWrites
  <2>3. ResolutionWrites'
    BY <1>12, ProjectsAssumption
    DEF DebitSource, AddToVault, Covered, Lockable, Visible, TypeOK, Targets,
        VoteLockOwner, ProjectLockOwner, ResolutionWrites, ResolutionOf, Resolving,
        ProjectOf
  <2>4. ActivationWrites'
    BY <1>12, ProjectsAssumption
    DEF DebitSource, AddToVault, Covered, Lockable, Visible, TypeOK, Targets,
        ProjectLockOwner, VaultLockOwner, ActivationWrites, ActivationOf, ProjectOf
  <2>5. QED
    BY <2>1, <2>2, <2>3, <2>4 DEF TransactionInv
<1>13. ASSUME NEW r \in Requests, DebitRefused(r)
      PROVE  TransactionInv'
  <2>1. CleanRows' /\ VoteLockOwner' /\ ProjectLockOwner' /\ VaultLockOwner'
    BY <1>13, ProjectsAssumption
    DEF DebitRefused, TypeOK, CleanRows, Targets, VoteLockOwner, ProjectLockOwner,
        ProjectOf, VaultLockOwner
  <2>2. Existing' /\ RetryWrites'
    BY <1>13, ProjectsAssumption
    DEF DebitRefused, TypeOK, Targets, Existing, ProjectOf, ProjectLockOwner,
        RetryWrites
  <2>3. ResolutionWrites'
    BY <1>13, ProjectsAssumption
    DEF DebitRefused, TypeOK, Targets, VoteLockOwner, ProjectLockOwner,
        ResolutionWrites, ResolutionOf, Resolving, ProjectOf
  <2>4. ActivationWrites'
    BY <1>13, ProjectsAssumption
    DEF DebitRefused, TypeOK, Targets, ProjectLockOwner, VaultLockOwner,
        ActivationWrites, ActivationOf, ProjectOf
  <2>5. QED
    BY <2>1, <2>2, <2>3, <2>4 DEF TransactionInv
<1>14. ASSUME NEW r \in Requests, ClaimProject(r)
      PROVE  TransactionInv'
  <2>1. CleanRows' /\ VoteLockOwner' /\ ProjectLockOwner' /\ VaultLockOwner'
    BY <1>14, ProjectsAssumption
    DEF ClaimProject, SetProject, StillApproved, Lockable, Visible, TypeOK, CleanRows,
        Targets, VoteLockOwner, ProjectLockOwner, ProjectOf, VaultLockOwner
  <2>2. Existing' /\ RetryWrites'
    BY <1>14, ProjectsAssumption
    DEF ClaimProject, SetProject, StillApproved, Lockable, Visible, TypeOK, Targets,
        Existing, ProjectOf, ProjectLockOwner, RetryWrites
  <2>3. ResolutionWrites'
    BY <1>14, ProjectsAssumption
    DEF ClaimProject, SetProject, StillApproved, Lockable, Visible, TypeOK, Targets,
        VoteLockOwner, ProjectLockOwner, ResolutionWrites, ResolutionOf, Resolving,
        ProjectOf
  <2>4. ActivationWrites'
    BY <1>14, ProjectsAssumption
    DEF ClaimProject, SetProject, StillApproved, Lockable, Visible, TypeOK, Targets,
        ProjectLockOwner, VaultLockOwner, ActivationWrites, ActivationOf, ProjectOf
  <2>5. QED
    BY <2>1, <2>2, <2>3, <2>4 DEF TransactionInv
<1>15. ASSUME NEW r \in Requests, ClaimLost(r)
      PROVE  TransactionInv'
  <2>1. CleanRows' /\ VoteLockOwner' /\ ProjectLockOwner' /\ VaultLockOwner'
    BY <1>15, ProjectsAssumption
    DEF ClaimLost, StillApproved, Visible, TypeOK, CleanRows, Targets, VoteLockOwner,
        ResolutionWrites, ResolutionOf, Resolving, ProjectOf, ProjectLockOwner,
        RetryWrites, VaultLockOwner
  <2>2. Existing' /\ RetryWrites'
    BY <1>15, ProjectsAssumption
    DEF ClaimLost, StillApproved, Visible, TypeOK, Targets, Existing, ProjectOf,
        ProjectLockOwner, RetryWrites
  <2>3. ResolutionWrites'
    BY <1>15, ProjectsAssumption
    DEF ClaimLost, StillApproved, Visible, TypeOK, Targets, VoteLockOwner,
        ProjectLockOwner, ResolutionWrites, ResolutionOf, Resolving, ProjectOf
  <2>4. ActivationWrites'
    BY <1>15, ProjectsAssumption
    DEF ClaimLost, StillApproved, Visible, TypeOK, Targets, ProjectLockOwner,
        VaultLockOwner, ActivationWrites, ActivationOf, ProjectOf
  <2>5. QED
    BY <2>1, <2>2, <2>3, <2>4 DEF TransactionInv
<1>16. ASSUME NEW r \in Requests, UndoDebit(r)
      PROVE  TransactionInv'
  <2>1. CleanRows' /\ VoteLockOwner' /\ ProjectLockOwner' /\ VaultLockOwner'
    BY <1>16, ProjectsAssumption
    DEF UndoDebit, AddToVault, Visible, TypeOK, CleanRows, Targets, VoteLockOwner,
        ProjectLockOwner, ProjectOf, VaultLockOwner
  <2>2. Existing' /\ RetryWrites'
    BY <1>16, ProjectsAssumption
    DEF UndoDebit, AddToVault, Visible, TypeOK, Targets, Existing, ProjectOf,
        ProjectLockOwner, RetryWrites
  <2>3. ResolutionWrites'
    BY <1>16, ProjectsAssumption
    DEF UndoDebit, AddToVault, Visible, TypeOK, Targets, VoteLockOwner,
        ProjectLockOwner, ResolutionWrites, ResolutionOf, Resolving, ProjectOf
  <2>4. ActivationWrites'
    BY <1>16, ProjectsAssumption
    DEF UndoDebit, AddToVault, Visible, TypeOK, Targets, ProjectLockOwner,
        VaultLockOwner, ActivationWrites, ActivationOf, ProjectOf
  <2>5. QED
    BY <2>1, <2>2, <2>3, <2>4 DEF TransactionInv
<1>17. ASSUME NEW r \in Requests, CreditPayout(r)
      PROVE  TransactionInv'
  <2>1. CleanRows' /\ VoteLockOwner' /\ ProjectLockOwner' /\ VaultLockOwner'
    BY <1>17, ProjectsAssumption
    DEF CreditPayout, AddToVault, Lockable, Visible, TypeOK, CleanRows, Targets,
        VoteLockOwner, ProjectLockOwner, ProjectOf, VaultLockOwner
  <2>2. Existing' /\ RetryWrites'
    BY <1>17, ProjectsAssumption
    DEF CreditPayout, AddToVault, Lockable, Visible, TypeOK, Targets, Existing,
        ProjectOf, ProjectLockOwner, RetryWrites
  <2>3. ResolutionWrites'
    BY <1>17, ProjectsAssumption
    DEF CreditPayout, AddToVault, Lockable, Visible, TypeOK, Targets, VoteLockOwner,
        ProjectLockOwner, ResolutionWrites, ResolutionOf, Resolving, ProjectOf
  <2>4. ActivationWrites'
    BY <1>17, ProjectsAssumption
    DEF CreditPayout, AddToVault, Lockable, Visible, TypeOK, Targets, ProjectLockOwner,
        VaultLockOwner, ActivationWrites, ActivationOf, ProjectOf
  <2>5. QED
    BY <2>1, <2>2, <2>3, <2>4 DEF TransactionInv
<1>18. ASSUME NEW r \in Requests, Commit(r)
      PROVE  TransactionInv'
  <2>1. CleanRows' /\ VoteLockOwner' /\ ProjectLockOwner' /\ VaultLockOwner'
    BY <1>18, ProjectsAssumption
    DEF Commit, AfterCommit, Released, TypeOK, CleanRows, Targets, VoteLockOwner,
        ProjectLockOwner, ProjectOf, VaultLockOwner
  <2>2. Existing'
    <3>1. pc[r] \in {"commit", "paid"} /\ target[r] \in Votes \cup Projects
      BY <1>18 DEF Commit, Targets
    <3>2. \A v \in Votes : vote'[v] # "NONE" <=> vote[v] # "NONE"
      <4>1. ASSUME NEW v \in Votes, voteLock[v] = r
            PROVE  vote[v] # "NONE" /\ newVote[v] # "NONE"
        BY <3>1, <4>1
        DEF VoteLockOwner, Existing, ResolutionWrites, ResolutionOf, Resolving
      <4>2. QED
        BY <1>18, <4>1 DEF Commit, AfterCommit, TypeOK
    <3>3. \A p \in Projects : project'[p] # "NONE" <=> project[p] # "NONE"
      <4>1. ASSUME NEW p \in Projects, projectLock[p] = r
            PROVE  project[p] # "NONE" /\ newProject[p] # "NONE"
        <5>1. ProjectOf(r) = p
          BY <4>1 DEF ProjectLockOwner
        <5>2. project[p] # "NONE"
          BY <3>1, <5>1 DEF Existing, ProjectOf
        <5>3. newProject[p] # "NONE"
          BY <3>1, <4>1, <5>1
          DEF ResolutionWrites, ResolutionOf, Resolving, RetryWrites, ActivationWrites,
              ActivationOf, ProjectOf
        <5>4. QED
          BY <5>2, <5>3
      <4>2. QED
        BY <1>18, <4>1 DEF Commit, AfterCommit, TypeOK
    <3>4. \A s \in Requests : target'[s] = target[s] \/ target'[s] = Nothing
      BY <1>18 DEF Commit, TypeOK
    <3>5. QED
      BY <3>2, <3>3, <3>4, ProjectsAssumption DEF Existing
  <2>3. ResolutionWrites'
    BY <1>18, ProjectsAssumption
    DEF Commit, AfterCommit, Released, TypeOK, Targets, VoteLockOwner, ProjectLockOwner,
        ResolutionWrites, ResolutionOf, Resolving, ProjectOf
  <2>4. RetryWrites'
    BY <1>18, ProjectsAssumption
    DEF Commit, AfterCommit, Released, TypeOK, Targets, ProjectLockOwner, RetryWrites,
        ProjectOf, ActivationWrites, ActivationOf
  <2>5. ActivationWrites'
    BY <1>18, ProjectsAssumption
    DEF Commit, AfterCommit, Released, TypeOK, Targets, ProjectLockOwner, VaultLockOwner,
        ActivationWrites, ActivationOf, ProjectOf
  <2>6. QED
    BY <2>1, <2>2, <2>3, <2>4, <2>5 DEF TransactionInv
<1>19. ASSUME NEW r \in Requests, LogPayout(r)
      PROVE  TransactionInv'
  <2>1. CleanRows' /\ VoteLockOwner' /\ ProjectLockOwner' /\ VaultLockOwner'
    BY <1>19, ProjectsAssumption
    DEF LogPayout, TypeOK, CleanRows, Targets, VoteLockOwner, ProjectLockOwner,
        ProjectOf, VaultLockOwner
  <2>2. Existing' /\ RetryWrites'
    BY <1>19, ProjectsAssumption
    DEF LogPayout, TypeOK, Targets, Existing, ProjectOf, ProjectLockOwner, RetryWrites
  <2>3. ResolutionWrites'
    BY <1>19, ProjectsAssumption
    DEF LogPayout, TypeOK, Targets, VoteLockOwner, ProjectLockOwner, ResolutionWrites,
        ResolutionOf, Resolving, ProjectOf
  <2>4. ActivationWrites'
    <3>1. ASSUME NEW s \in Requests, s # r PROVE (ActivationOf(s))'
      BY <3>1, <1>19, ProjectsAssumption
      DEF LogPayout, TypeOK, Targets, ProjectLockOwner, VaultLockOwner,
          ActivationWrites, ActivationOf, ProjectOf
    <3>2. (ActivationOf(r))'
      BY <1>19, ProjectsAssumption
      DEF LogPayout, TypeOK, Targets, ProjectLockOwner, VaultLockOwner,
          ActivationWrites, ActivationOf, ProjectOf
    <3>3. QED
      BY <3>1, <3>2 DEF ActivationWrites
  <2>5. QED
    BY <2>1, <2>2, <2>3, <2>4 DEF TransactionInv
<1>20. ASSUME NEW r \in Requests, Abort(r)
      PROVE  TransactionInv'
  <2>1. CleanRows' /\ VoteLockOwner' /\ ProjectLockOwner' /\ VaultLockOwner'
    BY <1>20, ProjectsAssumption
    DEF Abort, AfterRollback, Released, TypeOK, CleanRows, Targets, VoteLockOwner,
        ProjectLockOwner, ProjectOf, VaultLockOwner
  <2>2. Existing' /\ RetryWrites'
    BY <1>20, ProjectsAssumption
    DEF Abort, AfterRollback, Released, TypeOK, Targets, Existing, ProjectOf,
        ProjectLockOwner, RetryWrites
  <2>3. ResolutionWrites'
    BY <1>20, ProjectsAssumption
    DEF Abort, AfterRollback, Released, TypeOK, Targets, VoteLockOwner,
        ProjectLockOwner, ResolutionWrites, ResolutionOf, Resolving, ProjectOf
  <2>4. ActivationWrites'
    <3>1. ASSUME NEW s \in Requests, s # r PROVE (ActivationOf(s))'
      BY <3>1, <1>20, ProjectsAssumption
      DEF Abort, AfterRollback, Released, TypeOK, Targets, ProjectLockOwner,
          VaultLockOwner, ActivationWrites, ActivationOf, ProjectOf
    <3>2. (ActivationOf(r))'
      BY <1>20, ProjectsAssumption
      DEF Abort, AfterRollback, Released, TypeOK, Targets, ProjectLockOwner,
          VaultLockOwner, ActivationWrites, ActivationOf, ProjectOf
    <3>3. QED
      BY <3>1, <3>2 DEF ActivationWrites
  <2>5. QED
    BY <2>1, <2>2, <2>3, <2>4 DEF TransactionInv
<1>21. ASSUME NEW p \in Projects, NEW v \in Votes, Submit(p, v)
      PROVE  TransactionInv'
  <2>1. CleanRows' /\ VoteLockOwner' /\ ProjectLockOwner' /\ VaultLockOwner'
    BY <1>21, ProjectsAssumption
    DEF Submit, TypeOK, CleanRows, Targets, VoteLockOwner, ProjectLockOwner, ProjectOf,
        VaultLockOwner
  <2>2. Existing' /\ RetryWrites'
    BY <1>21, ProjectsAssumption
    DEF Submit, TypeOK, Targets, Existing, ProjectOf, ProjectLockOwner, RetryWrites
  <2>3. ResolutionWrites'
    BY <1>21, ProjectsAssumption
    DEF Submit, TypeOK, Targets, VoteLockOwner, ProjectLockOwner, ResolutionWrites,
        ResolutionOf, Resolving, ProjectOf, Existing, CleanRows
  <2>4. ActivationWrites'
    BY <1>21, ProjectsAssumption
    DEF Submit, TypeOK, Targets, ProjectLockOwner, VaultLockOwner, ActivationWrites,
        ActivationOf, ProjectOf, Existing
  <2>5. QED
    BY <2>1, <2>2, <2>3, <2>4 DEF TransactionInv
<1>22. ASSUME NEW p \in Projects, CloseProject(p)
      PROVE  TransactionInv'
  <2>1. CleanRows' /\ VoteLockOwner' /\ ProjectLockOwner' /\ VaultLockOwner'
    BY <1>22, ProjectsAssumption
    DEF CloseProject, TypeOK, CleanRows, Targets, VoteLockOwner, ProjectLockOwner,
        ProjectOf, VaultLockOwner
  <2>2. Existing' /\ RetryWrites'
    BY <1>22, ProjectsAssumption
    DEF CloseProject, TypeOK, Targets, Existing, ProjectOf, ProjectLockOwner,
        RetryWrites
  <2>3. ResolutionWrites'
    BY <1>22, ProjectsAssumption
    DEF CloseProject, TypeOK, Targets, VoteLockOwner, ProjectLockOwner,
        ResolutionWrites, ResolutionOf, Resolving, ProjectOf
  <2>4. ActivationWrites'
    BY <1>22, ProjectsAssumption
    DEF CloseProject, TypeOK, Targets, ProjectLockOwner, VaultLockOwner,
        ActivationWrites, ActivationOf, ProjectOf
  <2>5. QED
    BY <2>1, <2>2, <2>3, <2>4 DEF TransactionInv
<1>23. ASSUME NEW v \in Votes, Expire(v)
      PROVE  TransactionInv'
  <2>1. CleanRows' /\ VoteLockOwner' /\ ProjectLockOwner' /\ VaultLockOwner' /\ Existing' /\ ResolutionWrites' /\ RetryWrites' /\ ActivationWrites'
    BY <1>23, ProjectsAssumption
    DEF Expire, TypeOK, CleanRows, Targets, VoteLockOwner, ProjectLockOwner, ProjectOf,
        VaultLockOwner, Existing, ResolutionWrites, ResolutionOf, Resolving,
        RetryWrites, ActivationWrites, ActivationOf
  <2>2. QED
    BY <2>1 DEF TransactionInv
<1>24. ASSUME NEW x \in Vaults, NEW d \in {-1, 1}, OtherEntry(x, d)
      PROVE  TransactionInv'
  <2>1. CleanRows' /\ VoteLockOwner' /\ ProjectLockOwner' /\ VaultLockOwner'
    BY <1>24, ProjectsAssumption
    DEF OtherEntry, TypeOK, CleanRows, Targets, VoteLockOwner, ProjectLockOwner,
        ProjectOf, VaultLockOwner
  <2>2. Existing' /\ RetryWrites'
    BY <1>24, ProjectsAssumption
    DEF OtherEntry, TypeOK, Targets, Existing, ProjectOf, ProjectLockOwner, RetryWrites
  <2>3. ResolutionWrites'
    BY <1>24, ProjectsAssumption
    DEF OtherEntry, TypeOK, Targets, VoteLockOwner, ProjectLockOwner, ResolutionWrites,
        ResolutionOf, Resolving, ProjectOf
  <2>4. ActivationWrites'
    BY <1>24, ProjectsAssumption
    DEF OtherEntry, TypeOK, Targets, ProjectLockOwner, VaultLockOwner, ActivationWrites,
        ActivationOf, ProjectOf
  <2>5. QED
    BY <2>1, <2>2, <2>3, <2>4 DEF TransactionInv
<1>98. CASE UNCHANGED vars
  BY <1>98 DEF vars, TransactionInv, CleanRows, VoteLockOwner, ProjectLockOwner,
     VaultLockOwner, Existing, ResolutionWrites, ResolutionOf, Resolving, RetryWrites,
     ActivationWrites, ActivationOf, ProjectOf
<1>99. QED
  BY <1>1, <1>2, <1>3, <1>4, <1>5, <1>6, <1>7, <1>8, <1>9, <1>10, <1>11, <1>12, <1>13,
     <1>14, <1>15, <1>16, <1>17, <1>18, <1>19, <1>20, <1>21, <1>22, <1>23, <1>24, <1>98
  DEF Next, Begin, Continue, Environment

\* The inductive invariant holds in every reachable state, for any number of
\* requests, votes, projects and vaults.
THEOREM InvariantAlways == Spec => []IInv
<1>1. Init => IInv
  <2>1. Init => Typed
    BY ProjectsAssumption
    DEF Init, Typed, TypeOK, Targets, VoteStatuses, ProjectStatuses, Locations
  <2>2. Init => TransactionInv
    BY ProjectsAssumption
    DEF Init, TransactionInv, CleanRows, VoteLockOwner, ProjectLockOwner,
        VaultLockOwner, Existing, ResolutionWrites, ResolutionOf, Resolving, RetryWrites,
        ActivationWrites, ActivationOf, ProjectOf
  <2>3. QED
    BY <2>1, <2>2 DEF Typed, TransactionInv, IInv
<1>2. IInv /\ [Next]_vars => IInv'
  BY TypedStep, TransactionStep DEF IInv, Typed, TransactionInv
<1>3. QED
  BY <1>1, <1>2, PTL DEF Spec

-----------------------------------------------------------------------------
(* Projects implements Funding, and what votes and the audit log say of it *)


\* A transaction that ends without paying leaves every balance as it was, also
\* when it debited the source and undid the debit.
LEMMA UnpaidCommit ==
    ASSUME IInv, NEW r \in Requests, Commit(r), pc[r] = "commit"
    PROVE  balance' = balance
<1>1. ASSUME NEW x \in Vaults, vaultLock[x] = r PROVE newBalance[x] = balance[x]
  BY <1>1 DEF IInv, VaultLockOwner, ActivationWrites, ActivationOf
<1>2. QED
  BY <1>1 DEF Commit, AfterCommit, IInv, TypeOK

\* A transaction that pays commits exactly its Transaction rows.
LEMMA PaidCommit ==
    ASSUME IInv, NEW r \in Requests, Commit(r), pc[r] = "paid"
    PROVE  /\ ProjectOf(r) \in Projects
           /\ \A x \in Vaults : balance'[x] = balance[x] + PayoutRows(ProjectOf(r), x)
           /\ balance[Source[ProjectOf(r)]] >= Budget[ProjectOf(r)]
<1> DEFINE p == ProjectOf(r)
<1>1. p \in Projects
  BY ProjectOfType DEF IInv, Targets
<1>2. /\ Source[p] \in Vaults /\ Budget[p] \in Nat
      /\ Payout[p] \in Vaults \cup {NoVault} /\ Payout[p] # Source[p]
      /\ NoVault \notin Vaults
  BY <1>1, ProjectsAssumption
<1>3. ActivationOf(r)
  BY DEF IInv, ActivationWrites
<1>4. /\ vaultLock[Source[p]] = r
      /\ newBalance[Source[p]] = balance[Source[p]] - Budget[p]
      /\ newBalance[Source[p]] >= 0
  BY <1>3 DEF ActivationOf
<1>5. ASSUME Payout[p] \in Vaults
      PROVE  /\ vaultLock[Payout[p]] = r
             /\ newBalance[Payout[p]] = balance[Payout[p]] + Budget[p]
  BY <1>3, <1>5 DEF ActivationOf
<1>6. \A x \in Vaults : balance[x] \in Int
  BY DEF IInv, TypeOK
<1>7. ASSUME NEW x \in Vaults PROVE balance'[x] = balance[x] + PayoutRows(p, x)
  <2>1. balance'[x] = IF vaultLock[x] = r THEN newBalance[x] ELSE balance[x]
    BY DEF Commit, AfterCommit, IInv, TypeOK
  <2>2. CASE x = Source[p]
    BY <1>2, <1>4, <1>6, <2>1, <2>2 DEF PayoutRows
  <2>3. CASE x = Payout[p]
    BY <1>2, <1>5, <1>6, <2>1, <2>3 DEF PayoutRows
  <2>4. CASE x # Source[p] /\ x # Payout[p]
    <3>1. vaultLock[x] # r
      BY <2>4 DEF IInv, VaultLockOwner
    <3>2. QED
      BY <1>6, <2>1, <2>4, <3>1 DEF PayoutRows
  <2>5. QED
    BY <2>2, <2>3, <2>4
<1>8. balance[Source[p]] >= Budget[p]
  BY <1>2, <1>4, <1>6
<1>9. QED
  BY <1>1, <1>7, <1>8

\* What a commit does to the project statuses and to the approvals.
LEMMA CommitProject ==
    ASSUME IInv, NEW r \in Requests, Commit(r)
    PROVE  LET p == ProjectOf(r)
           IN  /\ p \in Projects
               /\ \/ project' = project
                  \/ project' = [project EXCEPT ![p] = newProject[p]]
               /\ pc[r] = "paid" => project' = [project EXCEPT ![p] = "ACTIVE"]
               /\ Resolving(r) /\ pc[r] = "commit" =>
                    \/ project' = project /\ approvals' = approvals
                    \/ /\ project' = [project EXCEPT ![p] = "REJECTED"]
                       /\ approvals' = approvals
                    \/ /\ project' = [project EXCEPT ![p] = "APPROVED"]
                       /\ approvals' = [approvals EXCEPT ![p] = @ + 1]
               /\ Resolving(r) /\ pc[r] = "paid"
                    => approvals' = [approvals EXCEPT ![p] = @ + 1]
               /\ ~Resolving(r) => approvals' = approvals
               /\ ~Resolving(r) /\ pc[r] = "commit" => project' = project
               /\ ~Resolving(r) /\ pc[r] = "paid" => project[p] = "APPROVED"
<1> DEFINE p == ProjectOf(r)
<1>0. TypeOK /\ Targets /\ ProjectLockOwner
  BY DEF IInv
<1>1. p \in Projects /\ pc[r] \in {"commit", "paid"}
  BY <1>0, ProjectOfType DEF Commit, Targets
<1>2. project' = [q \in Projects |-> IF projectLock[q] = r THEN newProject[q] ELSE project[q]]
  BY <1>0 DEF Commit, AfterCommit, TypeOK
<1>3. \A q \in Projects : projectLock[q] = r => q = p
  BY <1>0 DEF ProjectLockOwner
<1>4. projectLock[p] = r => project' = [project EXCEPT ![p] = newProject[p]]
  BY <1>0, <1>1, <1>2, <1>3 DEF TypeOK
<1>5. projectLock[p] # r => project' = project
  BY <1>0, <1>1, <1>2, <1>3 DEF TypeOK
<1>6. pc[r] = "paid" => projectLock[p] = r /\ newProject[p] = "ACTIVE"
  BY DEF IInv, ActivationWrites, ActivationOf
<1>7. Resolving(r) => ResolutionOf(r) /\ p = Subject[target[r]]
  BY DEF IInv, ResolutionWrites, Resolving, ProjectOf
<1>8. approvals' = IF Resolving(r) /\ newVote[target[r]] = "APPROVED"
                   THEN [approvals EXCEPT ![p] = @ + 1] ELSE approvals
  BY DEF Commit
<1>9. Resolving(r) /\ pc[r] = "commit" =>
        \/ projectLock[p] # r /\ newVote[target[r]] = "INVALID"
        \/ projectLock[p] = r /\ newVote[target[r]] = "REJECTED" /\ newProject[p] = "REJECTED"
        \/ projectLock[p] = r /\ newVote[target[r]] = "APPROVED" /\ newProject[p] = "APPROVED"
  BY <1>7 DEF ResolutionOf
<1>10. Resolving(r) /\ pc[r] = "paid" => newVote[target[r]] = "APPROVED"
  BY <1>7 DEF ResolutionOf
<1>11. ~Resolving(r) => p = target[r] /\ target[r] \in Projects
  BY <1>1 DEF Resolving, ProjectOf
<1>12. ~Resolving(r) /\ pc[r] = "commit" => projectLock[p] # r
  BY <1>11 DEF IInv, RetryWrites
<1>13. ~Resolving(r) /\ pc[r] = "paid" => project[p] = "APPROVED"
  BY <1>11 DEF IInv, RetryWrites
<1>14. QED
  BY <1>1, <1>4, <1>5, <1>6, <1>8, <1>9, <1>10, <1>12, <1>13

-----------------------------------------------------------------------------
\* Every step of Projects is a step of Funding on the committed columns, or
\* leaves them alone.
LEMMA StepImplements ==
    ASSUME IInv, [Next]_vars
    PROVE  [F!Next]_(F!vars)
<1> USE DEF UnchangedRows, Return, Goto, vaultRows, projectRows, voteRows, history
<1> SUFFICES F!Next \/ UNCHANGED <<project, balance, approvals, payouts>>
  BY DEF F!vars
<1>1. ASSUME NEW r \in Requests, Begin(r)
      PROVE  UNCHANGED <<project, balance, approvals, payouts>>
  BY <1>1 DEF Begin, StartReopen, StartRetry, StartRespond, StartClose
<1>2. ASSUME NEW r \in Requests, Continue(r), ~Commit(r)
      PROVE  UNCHANGED <<project, balance, approvals, payouts>>
  BY <1>2 DEF Continue, CheckNoOpenVote, OpenVote, CreateResponse, CountResponses,
     CloseVote, RejectProject, ApproveProject, SetProject, DebitSource, DebitRefused,
     AddToVault, ClaimProject, ClaimLost, UndoDebit, CreditPayout, LogPayout
<1>3. ASSUME NEW r \in Requests, Commit(r)
      PROVE  F!Next \/ UNCHANGED <<project, balance, approvals, payouts>>
  <2> DEFINE p == ProjectOf(r)
  <2>1. p \in Projects
    BY <1>3, CommitProject
  <2>2. CASE pc[r] = "paid"
    <3>1. payouts' = [payouts EXCEPT ![p] = @ + 1]
      BY <1>3, <2>2 DEF Commit
    <3>2. project' = [project EXCEPT ![p] = "ACTIVE"]
      BY <1>3, <2>2, CommitProject
    <3>3. /\ balance[Source[p]] >= Budget[p]
          /\ \A x \in Vaults : balance'[x] = balance[x] + PayoutRows(p, x)
      BY <1>3, <2>2, PaidCommit
    <3>4. balance' = [x \in Vaults |->
                        IF x = Source[p] THEN balance[x] - Budget[p]
                        ELSE IF x = Payout[p] THEN balance[x] + Budget[p]
                        ELSE balance[x]]
      <4>1. balance' \in [Vaults -> Int] /\ balance \in [Vaults -> Int]
        BY <1>3, RowTypes DEF IInv, Commit, TypeOK
      <4>2. Budget[p] \in Int
        BY <2>1, ProjectsAssumption
      <4>3. QED
        BY <3>3, <4>1, <4>2 DEF PayoutRows
    <3>5. F!Pay(p)
      BY <3>1, <3>2, <3>3, <3>4 DEF F!Pay
    <3>6. CASE Resolving(r)
      <4>1. approvals' = [approvals EXCEPT ![p] = @ + 1]
        BY <1>3, <2>2, <3>6, CommitProject
      <4>2. QED
        BY <2>1, <3>5, <4>1 DEF F!ApproveAndPay, F!Next
    <3>7. CASE ~Resolving(r)
      <4>1. approvals' = approvals /\ project[p] = "APPROVED"
        BY <1>3, <2>2, <3>7, CommitProject
      <4>2. QED
        BY <2>1, <3>5, <4>1 DEF F!PayApproved, F!Next
    <3>8. QED
      BY <3>6, <3>7
  <2>3. CASE pc[r] = "commit"
    <3>1. UNCHANGED <<balance, payouts>>
      BY <1>3, <2>3, UnpaidCommit DEF Commit
    <3>2. CASE Resolving(r)
      <4>1. \/ project' = project /\ approvals' = approvals
            \/ /\ project' = [project EXCEPT ![p] = "REJECTED"]
               /\ approvals' = approvals
            \/ /\ project' = [project EXCEPT ![p] = "APPROVED"]
               /\ approvals' = [approvals EXCEPT ![p] = @ + 1]
        BY <1>3, <2>3, <3>2, CommitProject
      <4>2. QED
        BY <2>1, <3>1, <4>1 DEF F!Reject, F!Approve, F!Next
    <3>3. CASE ~Resolving(r)
      BY <1>3, <2>3, <3>1, <3>3, CommitProject
    <3>4. QED
      BY <3>2, <3>3
  <2>4. QED
    BY <1>3, <2>2, <2>3 DEF Commit
<1>4. ASSUME NEW r \in Requests, Abort(r)
      PROVE  UNCHANGED <<project, balance, approvals, payouts>>
  BY <1>4 DEF Abort
<1>5. ASSUME Environment
      PROVE  F!Next \/ UNCHANGED <<project, balance, approvals, payouts>>
  <2>1. ASSUME NEW p \in Projects, NEW v \in Votes, Submit(p, v) PROVE F!Next
    BY <2>1 DEF Submit, F!Submit, F!Next
  <2>2. ASSUME NEW p \in Projects, CloseProject(p) PROVE F!Next
    BY <2>2 DEF CloseProject, F!Close, F!Next
  <2>3. ASSUME NEW x \in Vaults, NEW d \in {-1, 1}, OtherEntry(x, d) PROVE F!Next
    BY <2>3 DEF OtherEntry, F!OtherEntry, F!Next
  <2>4. QED
    BY <1>5, <2>1, <2>2, <2>3 DEF Environment, Expire
<1>6. CASE UNCHANGED vars
  BY <1>6 DEF vars
<1>7. QED
  BY <1>1, <1>2, <1>3, <1>4, <1>5, <1>6 DEF Next

\* Projects implements Funding: whatever the interleaving of resolutions,
\* retries, closes and aborted transactions, the committed statuses, balances,
\* approvals and payouts move as the atomic specification says.
THEOREM FundingImplemented == Spec => ImplementsFunding
<1>1. Init => F!Init
  BY DEF Init, F!Init
<1>2. IInv /\ [Next]_vars => [F!Next]_(F!vars)
  BY StepImplements
<1>3. QED
  BY <1>1, <1>2, InvariantAlways, PTL DEF Spec, F!Spec, ImplementsFunding

-----------------------------------------------------------------------------
\* No step of Funding lets the payouts of a project outrun its approvals.
LEMMA FundingStepOwed ==
    ASSUME TypeOK, PayoutsOwedToApprovals, [F!Next]_(F!vars)
    PROVE  PayoutsOwedToApprovals'
<1> USE DEF PayoutsOwedToApprovals, TypeOK
<1>1. ASSUME NEW p \in Projects, F!Submit(p) PROVE PayoutsOwedToApprovals'
  BY <1>1 DEF F!Submit
<1>2. ASSUME NEW p \in Projects, F!Approve(p) PROVE PayoutsOwedToApprovals'
  BY <1>2 DEF F!Approve
<1>3. ASSUME NEW p \in Projects, F!Reject(p) PROVE PayoutsOwedToApprovals'
  BY <1>3 DEF F!Reject
<1>4. ASSUME NEW p \in Projects, F!ApproveAndPay(p) PROVE PayoutsOwedToApprovals'
  BY <1>4 DEF F!ApproveAndPay, F!Pay
<1>5. ASSUME NEW p \in Projects, F!PayApproved(p) PROVE PayoutsOwedToApprovals'
  BY <1>5 DEF F!PayApproved, F!Pay
<1>6. ASSUME NEW p \in Projects, F!Close(p) PROVE PayoutsOwedToApprovals'
  BY <1>6 DEF F!Close
<1>7. ASSUME NEW x \in Vaults, NEW d \in {-1, 1}, F!OtherEntry(x, d)
      PROVE  PayoutsOwedToApprovals'
  BY <1>7 DEF F!OtherEntry
<1>8. CASE UNCHANGED F!vars
  BY <1>8 DEF F!vars
<1>9. QED
  BY <1>1, <1>2, <1>3, <1>4, <1>5, <1>6, <1>7, <1>8 DEF F!Next

\* Every payout is owed to a resolution of its own: retries of an approved
\* project, however many race, pay its budget once per approval.
THEOREM PayoutsOwed == Spec => []PayoutsOwedToApprovals
<1>1. Init => PayoutsOwedToApprovals
  BY DEF Init, PayoutsOwedToApprovals
<1>2. IInv /\ PayoutsOwedToApprovals /\ [Next]_vars => PayoutsOwedToApprovals'
  BY StepImplements, FundingStepOwed DEF IInv
<1>3. QED
  BY <1>1, <1>2, InvariantAlways, PTL DEF Spec

\* A project is ACTIVE or CLOSED only after a committed payout of its own.
THEOREM ActiveWasPaid == Spec => []ActiveMeansPaid
<1>1. Init => ActiveMeansPaid
  BY DEF Init, ActiveMeansPaid
<1>2. IInv /\ ActiveMeansPaid /\ [Next]_vars => ActiveMeansPaid'
  <2> SUFFICES ASSUME IInv, ActiveMeansPaid, [F!Next]_(F!vars) PROVE ActiveMeansPaid'
    BY StepImplements
  <2> TypeOK
    BY DEF IInv
  <2> QED
    BY DEF TypeOK, ActiveMeansPaid, F!Next, F!vars, F!Submit, F!Approve, F!Reject, F!Pay,
           F!ApproveAndPay, F!PayApproved, F!Close, F!OtherEntry
<1>3. QED
  BY <1>1, <1>2, InvariantAlways, PTL DEF Spec

\* The cached balance of a vault always equals the net of its Transaction rows,
\* also after a debit undone or rolled back.
THEOREM LedgerBalanced == Spec => []BalanceMatchesLedger
<1>1. Init => BalanceMatchesLedger
  BY DEF Init, BalanceMatchesLedger
<1>2. IInv /\ BalanceMatchesLedger /\ [Next]_vars => BalanceMatchesLedger'
  <2> SUFFICES ASSUME IInv, BalanceMatchesLedger, [Next]_vars PROVE BalanceMatchesLedger'
    OBVIOUS
  <2> USE DEF UnchangedRows, Return, Goto, vaultRows, projectRows, voteRows, history
  <2>1. ASSUME NEW r \in Requests, Commit(r) PROVE BalanceMatchesLedger'
    <3>1. CASE pc[r] = "paid"
      <4>1. \A x \in Vaults : ledger'[x] = ledger[x] + PayoutRows(ProjectOf(r), x)
        BY <2>1, <3>1 DEF Commit
      <4>2. \A x \in Vaults : balance'[x] = balance[x] + PayoutRows(ProjectOf(r), x)
        BY <2>1, <3>1, PaidCommit
      <4>3. QED
        BY <4>1, <4>2 DEF BalanceMatchesLedger
    <3>2. CASE pc[r] = "commit"
      BY <2>1, <3>2, UnpaidCommit DEF Commit, BalanceMatchesLedger
    <3>3. QED
      BY <2>1, <3>1, <3>2 DEF Commit
  <2>2. ASSUME NEW x \in Vaults, NEW d \in {-1, 1}, OtherEntry(x, d)
        PROVE  BalanceMatchesLedger'
    BY <2>2 DEF OtherEntry, BalanceMatchesLedger, IInv, TypeOK
  <2>3. CASE UNCHANGED <<balance, ledger>>
    BY <2>3 DEF BalanceMatchesLedger
  <2>4. QED
    BY <2>1, <2>2, <2>3 DEF Next, Begin, StartReopen, StartRetry, StartRespond,
       StartClose, Start, Continue, CheckNoOpenVote, OpenVote, CreateResponse,
       CountResponses, CloseVote, RejectProject, ApproveProject, SetProject, DebitSource,
       DebitRefused, AddToVault, ClaimProject, ClaimLost, UndoDebit, CreditPayout,
       LogPayout, Abort, Environment, Submit, CloseProject, Expire, vars
<1>3. QED
  BY <1>1, <1>2, InvariantAlways, PTL DEF Spec

\* A payout never takes its source vault below zero.
THEOREM PayoutCovered == Spec => PayoutNeverOverdraws
<1>1. IInv /\ [Next]_vars =>
        [\A p \in Projects : payouts'[p] # payouts[p] => balance'[Source[p]] >= 0]_vars
  <2> SUFFICES ASSUME IInv, [F!Next]_(F!vars), NEW p \in Projects, payouts'[p] # payouts[p]
               PROVE  balance'[Source[p]] >= 0
    BY StepImplements
  <2>1. TypeOK /\ Source[p] \in Vaults /\ Budget[p] \in Int
    BY ProjectsAssumption DEF IInv
  <2>2. F!Pay(p)
    BY <2>1 DEF TypeOK, F!Next, F!vars, F!Submit, F!Approve, F!Reject, F!Pay,
           F!ApproveAndPay, F!PayApproved, F!Close, F!OtherEntry
  <2>3. QED
    BY <2>1, <2>2 DEF F!Pay, TypeOK
<1>2. QED
  BY <1>1, InvariantAlways, PTL DEF Spec, PayoutNeverOverdraws

-----------------------------------------------------------------------------
(* Votes and the projects they decide *)

\* Only four operations, and the commit, change the committed votes and projects.
LEMMA OnlyCommits ==
    ASSUME [Next]_vars
    PROVE  \/ UNCHANGED <<vote, project>>
           \/ \E r \in Requests : Commit(r)
           \/ \E p \in Projects, v \in Votes : Submit(p, v)
           \/ \E r \in Requests, v \in Votes : OpenVote(r, v)
           \/ \E p \in Projects : CloseProject(p)
BY DEF Next, Begin, StartReopen, StartRetry, StartRespond, StartClose, Start, Continue,
   CheckNoOpenVote, CreateResponse, CountResponses, CloseVote, RejectProject, ApproveProject,
   SetProject, DebitSource, DebitRefused, AddToVault, ClaimProject, ClaimLost, UndoDebit,
   CreditPayout, LogPayout, Abort, Environment, Expire, OtherEntry, vars, UnchangedRows,
   voteRows, projectRows

\* A decision and the status of its project become visible together: whoever sees a project
\* PENDING finds no vote on it decided otherwise than INVALID.
THEOREM PendingUndecided == Spec => []PendingMeansUndecided
<1>1. Init => PendingMeansUndecided
  BY DEF Init, PendingMeansUndecided
<1>2. ASSUME IInv, PendingMeansUndecided, [Next]_vars
      PROVE  PendingMeansUndecided'
  <2>0. TypeOK /\ Subject \in [Votes -> Projects]
    BY <1>2, ProjectsAssumption DEF IInv
  <2>1. ASSUME NEW r \in Requests, Commit(r) PROVE PendingMeansUndecided'
    <3> DEFINE p == ProjectOf(r)
    <3>1. \A v \in Votes : vote'[v] = IF voteLock[v] = r THEN newVote[v] ELSE vote[v]
      BY <2>0, <2>1 DEF Commit, AfterCommit, TypeOK
    <3>2. \A v \in Votes : voteLock[v] = r => target[r] = v
      BY <1>2 DEF IInv, VoteLockOwner
    <3>3. project' = project \/ project' = [project EXCEPT ![p] = newProject[p]]
      BY <1>2, <2>1, CommitProject
    <3>4. CASE \A v \in Votes : voteLock[v] # r
      <4>1. vote' = vote \/ \A v \in Votes : vote'[v] = vote[v]
        BY <3>1, <3>4
      <4>2. ~Resolving(r)
        <5>1. pc[r] \in {"commit", "paid"}
          BY <2>1 DEF Commit
        <5>2. Resolving(r) => ResolutionOf(r)
          BY <1>2 DEF IInv, ResolutionWrites
        <5> QED
          BY <3>4, <5>1, <5>2 DEF ResolutionOf, Resolving
      <4>3. project' = project \/ project' = [project EXCEPT ![p] = "ACTIVE"]
        BY <1>2, <2>1, <4>2, CommitProject DEF Commit
      <4> QED
        BY <1>2, <2>0, <4>1, <4>3 DEF PendingMeansUndecided, TypeOK
    <3>5. ASSUME NEW v \in Votes, voteLock[v] = r PROVE PendingMeansUndecided'
      <4>1. /\ target[r] = v /\ Resolving(r) /\ p = Subject[v]
            /\ \A w \in Votes \ {v} : vote'[w] = vote[w]
            /\ vote'[v] = newVote[v]
        BY <3>1, <3>2, <3>5 DEF Resolving, ProjectOf
      <4>2. ResolutionOf(r) /\ pc[r] \in {"commit", "paid"}
        BY <1>2, <2>1, <4>1 DEF IInv, ResolutionWrites, Commit
      <4>3. CASE newVote[v] = "INVALID"
        <5>1. project' = project \/ project' = [project EXCEPT ![p] = "ACTIVE"]
              \/ project' = [project EXCEPT ![p] = "APPROVED"]
              \/ project' = [project EXCEPT ![p] = "REJECTED"]
          BY <1>2, <2>1, <4>1, <4>2, CommitProject
        <5> QED
          BY <1>2, <2>0, <4>1, <4>3, <5>1 DEF PendingMeansUndecided, TypeOK
      <4>4. CASE newVote[v] # "INVALID"
        <5>1. project'[p] \in {"ACTIVE", "APPROVED", "REJECTED"}
              /\ \A q \in Projects \ {p} : project'[q] = project[q]
          <6>1. CASE pc[r] = "paid"
            BY <1>2, <2>0, <2>1, <4>1, <6>1, CommitProject DEF TypeOK
          <6>2. CASE pc[r] = "commit"
            <7>1. projectLock[p] = r /\ newProject[p] \in {"APPROVED", "REJECTED"}
              BY <4>1, <4>2, <4>4, <6>2 DEF ResolutionOf
            <7>2. project'[p] = newProject[p]
              BY <2>0, <2>1, <4>1, <7>1 DEF Commit, AfterCommit, TypeOK
            <7> QED
              BY <2>0, <3>3, <7>1, <7>2 DEF TypeOK
          <6> QED
            BY <4>2, <6>1, <6>2
        <5> QED
          BY <1>2, <2>0, <4>1, <5>1 DEF PendingMeansUndecided, TypeOK
      <4> QED
        BY <4>3, <4>4
    <3> QED
      BY <3>4, <3>5
  <2>2. ASSUME NEW p \in Projects, NEW v \in Votes, Submit(p, v) PROVE PendingMeansUndecided'
    <3>1. \A w \in Votes : Subject[w] = p => vote[w] = "NONE"
      BY <1>2, <2>2 DEF Submit, IInv, Existing
    <3> QED
      BY <1>2, <2>0, <2>2, <3>1 DEF Submit, PendingMeansUndecided, TypeOK
  <2>3. ASSUME NEW r \in Requests, NEW v \in Votes, OpenVote(r, v) PROVE PendingMeansUndecided'
    BY <1>2, <2>0, <2>3 DEF OpenVote, PendingMeansUndecided, TypeOK, projectRows
  <2>4. ASSUME NEW p \in Projects, CloseProject(p) PROVE PendingMeansUndecided'
    BY <1>2, <2>0, <2>4 DEF CloseProject, PendingMeansUndecided, TypeOK, voteRows
  <2>5. CASE UNCHANGED <<vote, project>>
    BY <1>2, <2>5 DEF PendingMeansUndecided
  <2> QED
    BY <1>2, <2>1, <2>2, <2>3, <2>4, <2>5, OnlyCommits
<1> QED
  BY <1>1, <1>2, InvariantAlways, PTL DEF Spec

\* The commit of a resolution sets the vote, the project and the payout together.
LEMMA ResolutionCommits ==
    ASSUME IInv, NEW r \in Requests, Commit(r), Resolving(r)
    PROVE  /\ CommitsResolution(r, target[r])
           /\ project' # project => vote'[target[r]] # "INVALID"
<1> DEFINE v == target[r]
           p == Subject[target[r]]
<1>0. TypeOK /\ v \in Votes /\ p \in Projects /\ ProjectOf(r) = p
  BY ProjectsAssumption DEF IInv, Resolving, ProjectOf
<1>1. pc[r] \in {"commit", "paid"} /\ ResolutionOf(r)
  BY DEF IInv, ResolutionWrites, Commit
<1>2. voteLock[v] = r
  BY <1>1 DEF ResolutionOf
<1>3. vote'[v] = newVote[v]
  BY <1>0, <1>2 DEF Commit, AfterCommit, TypeOK
<1>4. CASE pc[r] = "paid"
  <2>1. vote'[v] = "APPROVED"
    BY <1>1, <1>3, <1>4 DEF ResolutionOf
  <2>2. project'[p] = "ACTIVE"
    BY <1>0, <1>4, CommitProject DEF TypeOK
  <2>3. payouts'[p] = payouts[p] + 1
    BY <1>0, <1>4 DEF Commit, TypeOK
  <2> QED
    BY <1>4, <2>1, <2>2, <2>3 DEF CommitsResolution
<1>5. CASE pc[r] = "commit"
  <2>0. payouts' = payouts
    BY <1>5 DEF Commit
  <2>1. CASE newVote[v] = "INVALID" /\ projectLock[p] # r
    <3>1. project' = project
      <4>1. \A q \in Projects : projectLock[q] # r
        BY <1>0, <2>1 DEF IInv, ProjectLockOwner
      <4>2. project' = [q \in Projects |-> project[q]]
        BY <1>0, <4>1 DEF Commit, AfterCommit, TypeOK
      <4> QED
        BY <1>0, <4>2 DEF TypeOK
    <3> QED
      BY <1>0, <1>3, <1>5, <2>0, <2>1, <3>1 DEF CommitsResolution, TypeOK
  <2>2. CASE /\ newVote[v] \in {"APPROVED", "REJECTED"}
             /\ projectLock[p] = r /\ newProject[p] = newVote[v]
    <3>1. project'[p] = newVote[v]
      BY <1>0, <2>2 DEF Commit, AfterCommit, TypeOK
    <3> QED
      BY <1>0, <1>3, <1>5, <2>0, <2>2, <3>1 DEF CommitsResolution, TypeOK
  <2> QED
    BY <1>1, <1>5, <2>1, <2>2 DEF ResolutionOf
<1> QED
  BY <1>1, <1>4, <1>5

\* A decided vote changes, and a project that is REJECTED or CLOSED moves, only by the
\* commit of a vote resolution, which sets vote, project and payout to match.
THEOREM SettledStays == Spec => SettledOnlyRevote
<1> DEFINE VotesKept == \A v \in Votes : vote[v] \in Decisions /\ vote'[v] # vote[v]
                            => \E r \in Requests : CommitsResolution(r, v)
           ProjectsKept == \A p \in Projects :
                project[p] \in {"REJECTED", "CLOSED"} /\ project'[p] # project[p]
                    => \E r \in Requests, v \in Votes :
                         Subject[v] = p /\ vote'[v] # "INVALID" /\ CommitsResolution(r, v)
<1>1. ASSUME IInv, [Next]_vars PROVE VotesKept
  <2> SUFFICES ASSUME NEW v \in Votes, vote[v] \in Decisions, vote'[v] # vote[v]
               PROVE  \E r \in Requests : CommitsResolution(r, v)
    OBVIOUS
  <2>1. TypeOK
    BY <1>1 DEF IInv
  <2>2. PICK r \in Requests : Commit(r)
    <3>0. vote[v] # "NONE"
      BY DEF Decisions
    <3>1. ~\E q \in Projects, w \in Votes : Submit(q, w)
      BY <2>1, <3>0 DEF Submit, TypeOK
    <3>2. ~\E q \in Projects : CloseProject(q)
      BY DEF CloseProject, voteRows
    <3>3. ~\E q \in Requests, w \in Votes : OpenVote(q, w)
      BY <2>1, <3>0 DEF OpenVote, TypeOK
    <3> QED
      BY <1>1, <3>1, <3>2, <3>3, OnlyCommits
  <2>3. voteLock[v] = r
    BY <2>1, <2>2 DEF Commit, AfterCommit, TypeOK
  <2>4. target[r] = v
    BY <1>1, <2>3 DEF IInv, VoteLockOwner
  <2> QED
    BY <1>1, <2>2, <2>4, ResolutionCommits DEF Resolving
<1>2. ASSUME IInv, [Next]_vars PROVE ProjectsKept
  <2> SUFFICES ASSUME NEW p \in Projects,
                      project[p] \in {"REJECTED", "CLOSED"}, project'[p] # project[p]
               PROVE  \E r \in Requests, v \in Votes :
                         Subject[v] = p /\ vote'[v] # "INVALID" /\ CommitsResolution(r, v)
    OBVIOUS
  <2>1. TypeOK
    BY <1>2 DEF IInv
  <2>2. PICK r \in Requests : Commit(r)
    <3>1. ~\E q \in Projects, v \in Votes : Submit(q, v)
      BY <2>1 DEF Submit, TypeOK
    <3>2. ~\E q \in Projects : CloseProject(q)
      BY <2>1 DEF CloseProject, TypeOK
    <3>3. ~\E q \in Requests, v \in Votes : OpenVote(q, v)
      BY DEF OpenVote, projectRows
    <3> QED
      BY <1>2, <3>1, <3>2, <3>3, OnlyCommits
  <2>3. pc[r] \in {"commit", "paid"}
    BY <2>2 DEF Commit
  <2>4. ProjectOf(r) = p
    <3>1. project' = project \/ project' = [project EXCEPT ![ProjectOf(r)] = newProject[ProjectOf(r)]]
      BY <1>2, <2>2, CommitProject
    <3> QED
      BY <2>1, <3>1 DEF TypeOK
  <2>5. Resolving(r)
    BY <1>2, <2>2, <2>3, <2>4, CommitProject
  <2>6. target[r] \in Votes /\ Subject[target[r]] = p
    BY <2>4, <2>5 DEF Resolving, ProjectOf
  <2> QED
    BY <1>2, <2>2, <2>5, <2>6, ResolutionCommits
<1>3. IInv /\ [Next]_vars => [VotesKept /\ ProjectsKept]_vars
  BY <1>1, <1>2
<1> QED
  BY <1>3, InvariantAlways, PTL DEF Spec, SettledOnlyRevote

-----------------------------------------------------------------------------
(* The audit log *)

\* The requests that have committed a payout of p and not logged it yet.
Unlogged(p) == {r \in Requests : pc[r] = "audit" /\ ProjectOf(r) = p}

\* A step that neither pays nor logs lets nobody join the requests that have paid.
LEMMA NobodyElsePaid ==
    ASSUME IInv, [Next]_vars,
           \A r \in Requests : ~LogPayout(r) /\ ~(Commit(r) /\ pc[r] = "paid")
    PROVE  /\ UNCHANGED <<issued, payouts>>
           /\ \A p \in Projects : Unlogged(p)' \subseteq Unlogged(p)
<1> USE DEF Goto, Return, Unlogged, ProjectOf
<1>0. TypeOK /\ Targets
  BY DEF IInv
<1>1. ASSUME NEW r \in Requests, NEW l, pc' = [pc EXCEPT ![r] = l], l # "audit",
             target' = target \/ \E t : target' = [target EXCEPT ![r] = t]
      PROVE  \A p \in Projects : Unlogged(p)' \subseteq Unlogged(p)
  <2> SUFFICES ASSUME NEW p \in Projects, NEW q \in Requests, pc'[q] = "audit", ProjectOf(q)' = p
               PROVE  pc[q] = "audit" /\ ProjectOf(q) = p
    OBVIOUS
  <2>1. q # r /\ pc'[q] = pc[q] /\ target'[q] = target[q]
    BY <1>0, <1>1 DEF TypeOK
  <2> QED
    BY <2>1
<1>2. ASSUME NEW r \in Requests, Begin(r)
      PROVE  /\ UNCHANGED <<issued, payouts>>
             /\ \A p \in Projects : Unlogged(p)' \subseteq Unlogged(p)
  <2>1. PICK t \in Votes \cup Projects, l \in {"reopen", "respond", "count", "debit"} :
          Start(r, t, l) /\ UnchangedRows
    BY <1>2 DEF Begin, StartReopen, StartRetry, StartRespond, StartClose
  <2> QED
    BY <1>1, <2>1 DEF Start, UnchangedRows, history
<1>3. ASSUME NEW r \in Requests, Continue(r) \/ Abort(r)
      PROVE  /\ UNCHANGED <<issued, payouts>>
             /\ \A p \in Projects : Unlogged(p)' \subseteq Unlogged(p)
  <2>1. UNCHANGED <<issued, payouts>>
    BY <1>3 DEF Continue, CheckNoOpenVote, OpenVote, CreateResponse, CountResponses, CloseVote,
       RejectProject, ApproveProject, SetProject, DebitSource, DebitRefused, AddToVault,
       ClaimProject, ClaimLost, UndoDebit, CreditPayout, Commit, Abort, UnchangedRows, history
  <2>2. PICK l : pc' = [pc EXCEPT ![r] = l] /\ l # "audit"
    <3>1. CASE CloseVote(r)
      <4>1. PICK l \in {"reject", "approve", "commit"} : pc' = [pc EXCEPT ![r] = l]
        BY <3>1 DEF CloseVote
      <4> QED
        BY <4>1
    <3>2. CASE ClaimProject(r)
      <4>1. PICK l \in {"paid", "credit"} : pc' = [pc EXCEPT ![r] = l]
        BY <3>2 DEF ClaimProject, SetProject
      <4> QED
        BY <4>1
    <3>3. CASE Commit(r)
      BY <3>3 DEF Commit
    <3>4. CASE CheckNoOpenVote(r)
      BY <3>4 DEF CheckNoOpenVote
    <3>5. CASE Abort(r) \/ CountResponses(r) \/ \E v \in Votes : OpenVote(r, v)
      BY <3>5 DEF Abort, CountResponses, OpenVote
    <3>6. CASE \E m \in Members, c \in Choices : CreateResponse(r, m, c)
      BY <3>6 DEF CreateResponse
    <3>7. CASE \/ RejectProject(r) \/ ApproveProject(r) \/ DebitSource(r) \/ DebitRefused(r)
               \/ ClaimLost(r) \/ UndoDebit(r) \/ CreditPayout(r)
      BY <3>7 DEF RejectProject, ApproveProject, SetProject, DebitSource, DebitRefused,
         AddToVault, ClaimLost, UndoDebit, CreditPayout
    <3> QED
      BY <1>3, <3>1, <3>2, <3>3, <3>4, <3>5, <3>6, <3>7 DEF Continue
  <2>3. target' = target \/ \E t : target' = [target EXCEPT ![r] = t]
    BY <1>3 DEF Continue, CheckNoOpenVote, OpenVote, CreateResponse, CountResponses, CloseVote,
       RejectProject, ApproveProject, SetProject, DebitSource, DebitRefused, AddToVault,
       ClaimProject, ClaimLost, UndoDebit, CreditPayout, Commit, Abort
  <2> QED
    BY <1>1, <2>1, <2>2, <2>3
<1>4. CASE Environment \/ UNCHANGED vars
  BY <1>4 DEF Environment, Submit, CloseProject, Expire, OtherEntry, vars, history
<1> QED
  BY <1>2, <1>3, <1>4 DEF Next

\* The audit log announces only payouts that were committed, each of them once.
THEOREM AnnouncedHappened == Spec => []AnnouncedPayoutsHappened
<1> USE DEF AnnouncedPayoutsHappened
<1>0. IsFiniteSet(Requests)
  BY RequestsFinite
<1>1. Init => AnnouncedPayoutsHappened
  <2> SUFFICES ASSUME Init, NEW p \in Projects
               PROVE  issued[p] + Cardinality(Unlogged(p)) <= payouts[p]
    BY DEF Unlogged
  <2>1. Unlogged(p) = {}
    BY DEF Init, Unlogged
  <2> QED
    BY <2>1, FS_EmptySet DEF Init
<1>2. ASSUME IInv, AnnouncedPayoutsHappened, [Next]_vars
      PROVE  AnnouncedPayoutsHappened'
  <2> SUFFICES ASSUME NEW p \in Projects
               PROVE  issued'[p] + Cardinality(Unlogged(p)') <= payouts'[p]
    BY DEF Unlogged
  <2>0. TypeOK /\ Targets
    BY <1>2 DEF IInv
  <2>1. IsFiniteSet(Unlogged(p)) /\ IsFiniteSet(Unlogged(p)')
    BY <1>0, FS_Subset DEF Unlogged
  <2>2. /\ Cardinality(Unlogged(p)) \in Nat /\ Cardinality(Unlogged(p)') \in Nat
        /\ issued[p] \in Nat /\ payouts[p] \in Nat
        /\ issued[p] + Cardinality(Unlogged(p)) <= payouts[p]
    BY <1>2, <2>0, <2>1, FS_CardinalityType DEF TypeOK, Unlogged
  <2>3. ASSUME NEW r \in Requests, LogPayout(r)
        PROVE  issued'[p] + Cardinality(Unlogged(p)') <= payouts'[p]
    <3>1. /\ pc[r] = "audit" /\ pc' = [pc EXCEPT ![r] = "idle"]
          /\ target' = [target EXCEPT ![r] = Nothing]
          /\ issued' = [issued EXCEPT ![ProjectOf(r)] = @ + 1] /\ payouts' = payouts
      BY <2>3 DEF LogPayout, Return, Goto
    <3>2. Unlogged(p)' = Unlogged(p) \ {r}
      <4>1. \A q \in Requests : /\ q # r => pc'[q] = pc[q] /\ target'[q] = target[q]
                                /\ q = r => pc'[q] # "audit"
        BY <2>0, <3>1 DEF TypeOK
      <4>2. \A q \in Requests \ {r} : ProjectOf(q)' = ProjectOf(q)
        BY <4>1 DEF ProjectOf
      <4>3. \A q \in Requests : q \in Unlogged(p)' <=> q \in Unlogged(p) \ {r}
        BY <4>1, <4>2 DEF Unlogged
      <4> QED
        BY <4>3 DEF Unlogged
    <3>3. Cardinality(Unlogged(p)') = IF r \in Unlogged(p) THEN Cardinality(Unlogged(p)) - 1
                                                         ELSE Cardinality(Unlogged(p))
      BY <2>1, <3>2, FS_RemoveElement
    <3>4. issued'[p] = IF r \in Unlogged(p) THEN issued[p] + 1 ELSE issued[p]
      BY <2>0, <3>1 DEF Unlogged, TypeOK
    <3> QED
      BY <2>2, <3>1, <3>3, <3>4
  <2>4. ASSUME NEW r \in Requests, Commit(r), pc[r] = "paid"
        PROVE  issued'[p] + Cardinality(Unlogged(p)') <= payouts'[p]
    <3>1. /\ pc' = [pc EXCEPT ![r] = "audit"] /\ target' = target
          /\ payouts' = [payouts EXCEPT ![ProjectOf(r)] = @ + 1] /\ issued' = issued
      BY <2>4 DEF Commit, Goto
    <3>2. r \notin Unlogged(p)
      BY <2>4 DEF Unlogged
    <3>3. Unlogged(p)' = IF ProjectOf(r) = p THEN Unlogged(p) \cup {r} ELSE Unlogged(p)
      <4>1. \A q \in Requests : pc'[q] = IF q = r THEN "audit" ELSE pc[q]
        BY <2>0, <3>1 DEF TypeOK
      <4> QED
        BY <3>1, <3>2, <4>1 DEF Unlogged, ProjectOf
    <3>4. Cardinality(Unlogged(p)') = IF ProjectOf(r) = p THEN Cardinality(Unlogged(p)) + 1
                                                       ELSE Cardinality(Unlogged(p))
      BY <2>1, <3>2, <3>3, FS_AddElement
    <3>5. payouts'[p] = IF ProjectOf(r) = p THEN payouts[p] + 1 ELSE payouts[p]
      BY <2>0, <3>1 DEF TypeOK
    <3> QED
      BY <2>2, <3>1, <3>4, <3>5
  <2>5. CASE \A r \in Requests : ~LogPayout(r) /\ ~(Commit(r) /\ pc[r] = "paid")
    <3>1. UNCHANGED <<issued, payouts>> /\ Unlogged(p)' \subseteq Unlogged(p)
      BY <1>2, <2>5, NobodyElsePaid
    <3>2. Cardinality(Unlogged(p)') <= Cardinality(Unlogged(p))
      BY <2>1, <3>1, FS_Subset
    <3> QED
      BY <2>2, <3>1, <3>2
  <2> QED
    BY <2>3, <2>4, <2>5
<1> QED
  BY <1>1, <1>2, InvariantAlways, PTL DEF Spec
=============================================================================
