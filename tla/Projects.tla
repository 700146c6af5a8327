------------------------------- MODULE Projects -------------------------------
(***************************************************************************)
(* Project votes and project activation: votes.service.ts,                 *)
(* project-vote.resolver.ts, project-activation.service.ts and the project *)
(* operations of projects.service.ts and project-entries.service.ts that   *)
(* change a project's status.                                              *)
(*                                                                         *)
(* An HTTP request is a process of Requests.  One action of a request is   *)
(* one database statement (or a read and the local computation on it), so  *)
(* requests interleave between any two statements.  The transactions of    *)
(* closeVote and of retryIfApproved hold row locks from their first write  *)
(* to their commit; ReadCommitted says what the other requests see and     *)
(* when they wait.                                                         *)
(***************************************************************************)
EXTENDS Integers, FiniteSets, ReadCommitted, VoteRules

CONSTANTS
    Requests,   \* concurrent HTTP requests
    Members,    \* active members of the group, who respond to votes
    Votes,      \* vote ids
    Projects,   \* project ids
    Vaults,     \* vault ids
    Subject,    \* the project a vote id is opened for
    Source,     \* sourceVaultId of a project
    Payout,     \* payoutVaultId of a project, or NoVault
    NoVault,
    Budget,     \* requestedBudget of a project
    MinQuorum, Threshold,   \* the group's vote configuration
    Nothing,    \* the target of an idle request
    MaxBalance, MinBalance  \* bounds on what the rest of the ledger does to a vault

ASSUME ProjectsAssumption ==
    /\ Free \notin Requests
    /\ Nothing \notin Votes \cup Projects
    /\ Votes \cap Projects = {}
    /\ NoVault \notin Vaults
    /\ Subject \in [Votes -> Projects]
    /\ Source \in [Projects -> Vaults]
    /\ Payout \in [Projects -> Vaults \cup {NoVault}]
    \* a source is a GROUP vault, a payout vault a PROJECT vault
    /\ \A p, q \in Projects : Source[p] # Payout[q]
    /\ Budget \in [Projects -> Nat \ {0}]
    /\ MinQuorum \in Nat \ {0}
    /\ Threshold \in 0..100
    /\ MinBalance \in Int
    /\ MaxBalance \in Int

\* finitely many requests are in flight at once; only counting them needs it
ASSUME RequestsFinite == IsFiniteSet(Requests)

VARIABLES
    vote, newVote, voteLock,            \* Vote.status
    project, newProject, projectLock,   \* Project.status
    balance, newBalance, vaultLock,     \* Vault.cachedBalance
    due,        \* the open votes past their scheduledCloseAt
    responses,  \* VoteResponse rows
    ledger,     \* per vault, committed CREDIT minus DEBIT Transaction rows
    payouts,    \* per project, committed PROJECT_PAYOUT debits of its source
    issued,     \* per project, PROJECT_PAYOUT_ISSUED rows of the audit log
    approvals,  \* history: per project, committed resolutions as APPROVED
    pc,         \* where each request is
    target,     \* the vote or project it works on
    decision    \* the decision closeVote computed before its transaction

voteRows == <<vote, newVote, voteLock>>
projectRows == <<project, newProject, projectLock>>
vaultRows == <<balance, newBalance, vaultLock>>
history == <<ledger, payouts, issued, approvals>>
vars == <<voteRows, projectRows, vaultRows, due, responses, history,
          pc, target, decision>>

VoteStatuses == {"NONE", "OPEN"} \cup Decisions
ProjectStatuses == {"NONE", "PENDING", "APPROVED", "REJECTED", "ACTIVE", "CLOSED"}
Locations == {"idle", "respond", "count", "close", "reject", "approve", "debit",
              "claim", "undo", "credit", "commit", "paid", "audit", "reopen", "open"}

TypeOK ==
    /\ vote \in [Votes -> VoteStatuses]
    /\ newVote \in [Votes -> VoteStatuses]
    /\ voteLock \in [Votes -> Requests \cup {Free}]
    /\ project \in [Projects -> ProjectStatuses]
    /\ newProject \in [Projects -> ProjectStatuses]
    /\ projectLock \in [Projects -> Requests \cup {Free}]
    /\ balance \in [Vaults -> Int]
    /\ newBalance \in [Vaults -> Int]
    /\ vaultLock \in [Vaults -> Requests \cup {Free}]
    /\ due \subseteq Votes
    /\ responses \in [Votes -> [Members -> Choices \cup {"NONE"}]]
    /\ ledger \in [Vaults -> Int]
    /\ payouts \in [Projects -> Nat]
    /\ issued \in [Projects -> Nat]
    /\ approvals \in [Projects -> Nat]
    /\ pc \in [Requests -> Locations]
    /\ target \in [Requests -> Votes \cup Projects \cup {Nothing}]
    /\ decision \in [Requests -> Decisions \cup {"NONE"}]

Init ==
    /\ vote = [v \in Votes |-> "NONE"] /\ newVote = vote
    /\ voteLock = [v \in Votes |-> Free]
    /\ project = [p \in Projects |-> "NONE"] /\ newProject = project
    /\ projectLock = [p \in Projects |-> Free]
    /\ balance = [x \in Vaults |-> 0] /\ newBalance = balance
    /\ vaultLock = [x \in Vaults |-> Free]
    /\ due = {}
    /\ responses = [v \in Votes |-> [m \in Members |-> "NONE"]]
    /\ ledger = [x \in Vaults |-> 0]
    /\ payouts = [p \in Projects |-> 0]
    /\ issued = [p \in Projects |-> 0]
    /\ approvals = [p \in Projects |-> 0]
    /\ pc = [r \in Requests |-> "idle"]
    /\ target = [r \in Requests |-> Nothing]
    /\ decision = [r \in Requests |-> "NONE"]

-----------------------------------------------------------------------------
\* The project request r works on, and whether it resolves a vote on it.
ProjectOf(r) == IF target[r] \in Votes THEN Subject[target[r]] ELSE target[r]
Resolving(r) == target[r] \in Votes

Goto(r, l) == pc' = [pc EXCEPT ![r] = l]

\* Request r returns (or dies): nothing of it is left in memory.
Return(r) ==
    /\ Goto(r, "idle")
    /\ target' = [target EXCEPT ![r] = Nothing]
    /\ decision' = [decision EXCEPT ![r] = "NONE"]

\* r starts an operation on t.
Start(r, t, l) ==
    /\ pc[r] = "idle"
    /\ Goto(r, l)
    /\ target' = [target EXCEPT ![r] = t]
    /\ UNCHANGED decision

UnchangedRows == UNCHANGED <<voteRows, projectRows, vaultRows, due, responses, history>>

-----------------------------------------------------------------------------
(* projects.service.ts: submit, reopenVote; project-entries.service.ts: close *)

\* submit: one transaction creates the PENDING project, its vaults and its OPEN
\* vote; nothing else can see or lock the new rows before it commits.
Submit(p, v) ==
    /\ project[p] = "NONE"
    /\ Subject[v] = p /\ vote[v] = "NONE"
    /\ project' = [project EXCEPT ![p] = "PENDING"]
    /\ newProject' = [newProject EXCEPT ![p] = "PENDING"]
    /\ vote' = [vote EXCEPT ![v] = "OPEN"]
    /\ newVote' = [newVote EXCEPT ![v] = "OPEN"]
    /\ UNCHANGED <<voteLock, projectLock, vaultRows, due, responses, history,
                   pc, target, decision>>

\* reopenVote, first read: the project must be PENDING.
StartReopen(r, p) ==
    /\ project[p] = "PENDING"
    /\ Start(r, p, "reopen")
    /\ UnchangedRows

\* reopenVote, second read: refused while an OPEN vote of the project exists.
CheckNoOpenVote(r) ==
    /\ pc[r] = "reopen"
    /\ IF \E v \in Votes : Subject[v] = target[r] /\ vote[v] = "OPEN"
       THEN Return(r)
       ELSE Goto(r, "open") /\ UNCHANGED <<target, decision>>
    /\ UnchangedRows

\* VotesService.open on its own, from reopenVote.
OpenVote(r, v) ==
    /\ pc[r] = "open"
    /\ Subject[v] = target[r] /\ vote[v] = "NONE"
    /\ vote' = [vote EXCEPT ![v] = "OPEN"]
    /\ newVote' = [newVote EXCEPT ![v] = "OPEN"]
    /\ Return(r)
    /\ UNCHANGED <<voteLock, projectRows, vaultRows, due, responses, history>>

\* Variant: close without its status condition.
CloseProjectAnyStatus(p) ==
    /\ project[p] # "NONE" /\ projectLock[p] = Free
    /\ project' = [project EXCEPT ![p] = "CLOSED"]
    /\ newProject' = [newProject EXCEPT ![p] = "CLOSED"]
    /\ UNCHANGED <<voteRows, projectLock, vaultRows, due, responses, history,
                   pc, target, decision>>

\* close: a single UPDATE ... WHERE status = 'ACTIVE', waiting for the row lock.
CloseProject(p) ==
    /\ project[p] = "ACTIVE" /\ projectLock[p] = Free
    /\ project' = [project EXCEPT ![p] = "CLOSED"]
    /\ newProject' = [newProject EXCEPT ![p] = "CLOSED"]
    /\ UNCHANGED <<voteRows, projectLock, vaultRows, due, responses, history,
                   pc, target, decision>>

-----------------------------------------------------------------------------
(* votes.service.ts: respond, resolveVote, closeVote *)

\* The clock passes scheduledCloseAt.
Expire(v) ==
    /\ vote[v] = "OPEN" /\ v \notin due
    /\ due' = due \cup {v}
    /\ UNCHANGED <<voteRows, projectRows, vaultRows, responses, history,
                   pc, target, decision>>

\* respond on a vote that resolveVote read as OPEN and not yet due.
StartRespond(r, v) ==
    /\ vote[v] = "OPEN" /\ v \notin due
    /\ Start(r, v, "respond")
    /\ UnchangedRows

\* The response is inserted whatever happened to the vote since it was read;
\* @@unique([voteId, memberId]) refuses a second one of the same member.
CreateResponse(r, m, c) ==
    /\ pc[r] = "respond"
    /\ responses' = IF responses[target[r]][m] = "NONE"
                    THEN [responses EXCEPT ![target[r]][m] = c]
                    ELSE responses
    /\ Return(r)
    /\ UNCHANGED <<voteRows, projectRows, vaultRows, due, history>>

\* Variant: the comparison with the clock reversed.
StartCloseReversed(r, v) ==
    /\ vote[v] = "OPEN" /\ v \notin due
    /\ Start(r, v, "count")
    /\ UnchangedRows

\* get or respond on a vote that resolveVote read as OPEN and due: closeVote.
StartClose(r, v) ==
    /\ vote[v] = "OPEN" /\ v \in due
    /\ Start(r, v, "count")
    /\ UnchangedRows

\* closeVote reads the responses and decides, outside its transaction.
CountResponses(r) ==
    /\ pc[r] = "count"
    /\ decision' = [decision EXCEPT
                      ![r] = Decision(responses[target[r]], MinQuorum, Threshold)]
    /\ Goto(r, "close")
    /\ UNCHANGED target
    /\ UnchangedRows

\* Variant: the vote is updated before the transaction, on its own.
CloseVoteAlone(r) ==
    /\ pc[r] = "close"
    /\ vote' = [vote EXCEPT ![target[r]] = decision[r]]
    /\ newVote' = [newVote EXCEPT ![target[r]] = decision[r]]
    /\ Goto(r, CASE decision[r] = "REJECTED" -> "reject"
                 [] decision[r] = "APPROVED" -> "approve"
                 [] OTHER -> "commit")
    /\ UNCHANGED <<voteLock, projectRows, vaultRows, due, responses, history,
                   target, decision>>

\* The first statement of the transaction: vote.update where { id }, on whatever
\* status the vote has by now.
CloseVote(r) ==
    /\ pc[r] = "close"
    /\ Lockable(voteLock, target[r], r)
    /\ voteLock' = [voteLock EXCEPT ![target[r]] = r]
    /\ newVote' = [newVote EXCEPT ![target[r]] = decision[r]]
    /\ Goto(r, CASE decision[r] = "REJECTED" -> "reject"
                 [] decision[r] = "APPROVED" -> "approve"
                 [] OTHER -> "commit")
    /\ UNCHANGED <<vote, projectRows, vaultRows, due, responses, history,
                   target, decision>>

-----------------------------------------------------------------------------
(* project-vote.resolver.ts: onResolved, inside closeVote's transaction *)

\* project.update where { id } to status s, on whatever status it has by now.
SetProject(r, s, l) ==
    /\ Lockable(projectLock, ProjectOf(r), r)
    /\ projectLock' = [projectLock EXCEPT ![ProjectOf(r)] = r]
    /\ newProject' = [newProject EXCEPT ![ProjectOf(r)] = s]
    /\ Goto(r, l)
    /\ UNCHANGED <<voteRows, project, vaultRows, due, responses, history,
                   target, decision>>

RejectProject(r) == pc[r] = "reject" /\ SetProject(r, "REJECTED", "commit")

\* The update and the re-read of the row r now holds, then attempt.
ApproveProject(r) == pc[r] = "approve" /\ SetProject(r, "APPROVED", "debit")

-----------------------------------------------------------------------------
(* project-activation.service.ts: attempt, retryIfApproved *)

\* GET of a project read as APPROVED: retryIfApproved opens its transaction.
StartRetry(r, p) ==
    /\ project[p] = "APPROVED"
    /\ Start(r, p, "debit")
    /\ UnchangedRows

\* Request r adds d to vault x in its transaction.
AddToVault(r, x, d) ==
    /\ vaultLock' = [vaultLock EXCEPT ![x] = r]
    /\ newBalance' = [newBalance EXCEPT
                        ![x] = Visible(balance, newBalance, vaultLock, x, r) + d]
    /\ UNCHANGED <<voteRows, projectRows, balance, due, responses, history,
                   target, decision>>

\* Variants: no balance condition; one that lets the balance fall one unit short;
\* a strict one.
CoveredAlways(r) == TRUE

CoveredAlmost(r) ==
    LET x == Source[ProjectOf(r)]
    IN  Visible(balance, newBalance, vaultLock, x, r) >= Budget[ProjectOf(r)] - 1

CoveredStrictly(r) ==
    LET x == Source[ProjectOf(r)]
    IN  Visible(balance, newBalance, vaultLock, x, r) > Budget[ProjectOf(r)]

\* The WHERE clause of the debit.
Covered(r) ==
    LET x == Source[ProjectOf(r)]
    IN  Visible(balance, newBalance, vaultLock, x, r) >= Budget[ProjectOf(r)]

\* Debit the source where its balance covers the budget.
DebitSource(r) ==
    /\ pc[r] = "debit" /\ Covered(r)
    /\ Lockable(vaultLock, Source[ProjectOf(r)], r)
    /\ AddToVault(r, Source[ProjectOf(r)], -Budget[ProjectOf(r)])
    /\ Goto(r, "claim")

\* Insufficient funds: the project stays APPROVED.
DebitRefused(r) ==
    /\ pc[r] = "debit" /\ ~Covered(r)
    /\ Goto(r, "commit")
    /\ UNCHANGED <<target, decision>>
    /\ UnchangedRows

\* Variants: no status condition; one read outside the transaction.
StillApprovedAlways(r) == TRUE

StillApprovedOutside(r) == project[ProjectOf(r)] = "APPROVED"

\* The WHERE clause of the claim.
StillApproved(r) ==
    Visible(project, newProject, projectLock, ProjectOf(r), r) = "APPROVED"

\* Move the project to ACTIVE where it still reads APPROVED; then the debit's
\* Transaction row (counted at commit).
ClaimProject(r) ==
    /\ pc[r] = "claim" /\ StillApproved(r)
    /\ SetProject(r, "ACTIVE",
                  IF Payout[ProjectOf(r)] = NoVault THEN "paid" ELSE "credit")

\* Variant: a lost claim that forgets the debit.
ClaimLostKeepsDebit(r) ==
    /\ pc[r] = "claim" /\ ~StillApproved(r)
    /\ Goto(r, "commit")
    /\ UNCHANGED <<target, decision>>
    /\ UnchangedRows

\* Another activation moved the project first.
ClaimLost(r) ==
    /\ pc[r] = "claim" /\ ~StillApproved(r)
    /\ Goto(r, "undo")
    /\ UNCHANGED <<target, decision>>
    /\ UnchangedRows

\* Variant: undo the debit and attempt the activation once more.
UndoDebitRetry(r) ==
    /\ pc[r] = "undo"
    /\ AddToVault(r, Source[ProjectOf(r)], Budget[ProjectOf(r)])
    /\ Goto(r, "debit")

\* Undo the optimistic debit.
UndoDebit(r) ==
    /\ pc[r] = "undo"
    /\ AddToVault(r, Source[ProjectOf(r)], Budget[ProjectOf(r)])
    /\ Goto(r, "commit")

CreditPayout(r) ==
    /\ pc[r] = "credit"
    /\ Lockable(vaultLock, Payout[ProjectOf(r)], r)
    /\ AddToVault(r, Payout[ProjectOf(r)], Budget[ProjectOf(r)])
    /\ Goto(r, "paid")

-----------------------------------------------------------------------------
(* The end of a transaction *)

\* The Transaction rows of an activation of project p, net per vault.
PayoutRows(p, x) ==
    IF x = Source[p] THEN -Budget[p] ELSE IF x = Payout[p] THEN Budget[p] ELSE 0

Commit(r) ==
    LET p == ProjectOf(r)
        paid == pc[r] = "paid"
        approved == Resolving(r) /\ newVote[target[r]] = "APPROVED"
    IN  /\ pc[r] \in {"commit", "paid"}
        /\ vote' = AfterCommit(vote, newVote, voteLock, r)
        /\ project' = AfterCommit(project, newProject, projectLock, r)
        /\ balance' = AfterCommit(balance, newBalance, vaultLock, r)
        /\ voteLock' = Released(voteLock, r)
        /\ projectLock' = Released(projectLock, r)
        /\ vaultLock' = Released(vaultLock, r)
        /\ approvals' = IF approved THEN [approvals EXCEPT ![p] = @ + 1] ELSE approvals
        /\ IF paid
           THEN /\ payouts' = [payouts EXCEPT ![p] = @ + 1]
                /\ ledger' = [x \in Vaults |-> ledger[x] + PayoutRows(p, x)]
                /\ Goto(r, "audit") /\ UNCHANGED <<target, decision>>
           ELSE UNCHANGED <<payouts, ledger>> /\ Return(r)
        /\ UNCHANGED <<newVote, newProject, newBalance, due, responses, issued>>

\* Variant: the audit entry is written again after an error.
LogPayoutAgain(r) ==
    /\ pc[r] = "audit"
    /\ issued' = [issued EXCEPT ![ProjectOf(r)] = @ + 1]
    /\ UNCHANGED <<voteRows, projectRows, vaultRows, due, responses,
                   ledger, payouts, approvals, pc, target, decision>>

\* audit.log of PROJECT_PAYOUT_ISSUED, after the commit.
LogPayout(r) ==
    /\ pc[r] = "audit"
    /\ issued' = [issued EXCEPT ![ProjectOf(r)] = @ + 1]
    /\ Return(r)
    /\ UNCHANGED <<voteRows, projectRows, vaultRows, due, responses,
                   ledger, payouts, approvals>>

\* The request ends early, and an open transaction with it: an interactive
\* transaction past its timeout, a deadlock victim, a lost connection, a crash.
Abort(r) ==
    /\ pc[r] # "idle"
    /\ newVote' = AfterRollback(vote, newVote, voteLock, r)
    /\ newProject' = AfterRollback(project, newProject, projectLock, r)
    /\ newBalance' = AfterRollback(balance, newBalance, vaultLock, r)
    /\ voteLock' = Released(voteLock, r)
    /\ projectLock' = Released(projectLock, r)
    /\ vaultLock' = Released(vaultLock, r)
    /\ Return(r)
    /\ UNCHANGED <<vote, project, balance, due, responses, history>>

-----------------------------------------------------------------------------
(* The rest of the ledger: a committed entry of another request on vault x. *)
(* Contribution credits add to a vault; reversals take from it unguarded.   *)
OtherEntry(x, d) ==
    /\ vaultLock[x] = Free
    /\ balance[x] + d \in MinBalance..MaxBalance
    /\ balance' = [balance EXCEPT ![x] = @ + d]
    /\ newBalance' = [newBalance EXCEPT ![x] = balance[x] + d]
    /\ ledger' = [ledger EXCEPT ![x] = @ + d]
    /\ UNCHANGED <<voteRows, projectRows, vaultLock, due, responses,
                   payouts, issued, approvals, pc, target, decision>>

-----------------------------------------------------------------------------
\* The steps of a request once started.
Continue(r) ==
    \/ CheckNoOpenVote(r)
    \/ \E v \in Votes : OpenVote(r, v)
    \/ \E m \in Members, c \in Choices : CreateResponse(r, m, c)
    \/ CountResponses(r)
    \/ CloseVote(r)
    \/ RejectProject(r)
    \/ ApproveProject(r)
    \/ DebitSource(r)
    \/ DebitRefused(r)
    \/ ClaimProject(r)
    \/ ClaimLost(r)
    \/ UndoDebit(r)
    \/ CreditPayout(r)
    \/ Commit(r)
    \/ LogPayout(r)

Begin(r) ==
    \/ \E p \in Projects : StartReopen(r, p) \/ StartRetry(r, p)
    \/ \E v \in Votes : StartRespond(r, v) \/ StartClose(r, v)

Environment ==
    \/ \E p \in Projects, v \in Votes : Submit(p, v)
    \/ \E p \in Projects : CloseProject(p)
    \/ \E v \in Votes : Expire(v)
    \/ \E x \in Vaults, d \in {-1, 1} : OtherEntry(x, d)

Next ==
    \/ \E r \in Requests : Begin(r) \/ Continue(r) \/ Abort(r)
    \/ Environment

Spec == Init /\ [][Next]_vars

-----------------------------------------------------------------------------
(* Properties *)

\* Every payout of a project, and the payout an APPROVED project may still get,
\* is owed to a vote resolution of its own: neither a GET retry, nor a race of
\* retries, nor an aborted transaction ever pays twice for one approval.
PayoutsOwedToApprovals ==
    \A p \in Projects :
        payouts[p] + (IF project[p] = "APPROVED" THEN 1 ELSE 0) <= approvals[p]

\* A project becomes ACTIVE, and then CLOSED, only in the transaction that also
\* commits its payout: the status never says funded when no money moved.
ActiveMeansPaid ==
    \A p \in Projects : project[p] \in {"ACTIVE", "CLOSED"} => payouts[p] > 0

\* cachedBalance is the net of the vault's Transaction rows, whichever way a
\* concurrent activation ends: lost claim and undo, commit, or rollback.
BalanceMatchesLedger == \A x \in Vaults : balance[x] = ledger[x]

\* While a project is PENDING no vote on it was decided otherwise than INVALID:
\* the vote's status and the project's status move in one transaction.
PendingMeansUndecided ==
    \A v \in Votes : project[Subject[v]] = "PENDING"
                        => vote[v] \in {"NONE", "OPEN", "INVALID"}

\* The audit log announces no payout that was not committed (a crash between
\* the commit and the log loses an announcement, never invents one).
AnnouncedPayoutsHappened ==
    \A p \in Projects :
        issued[p] + Cardinality({r \in Requests : pc[r] = "audit" /\ ProjectOf(r) = p})
            <= payouts[p]

\* No payout leaves its source vault below zero, although the vault is shared by
\* projects, retries and the rest of the ledger, which may take it below zero.
PayoutNeverOverdraws ==
    [][\A p \in Projects : payouts'[p] # payouts[p] => balance'[Source[p]] >= 0]_vars

\* r commits the resolution of vote v: the vote gets its decision, the project the
\* status that goes with it, and an activation its one payout.
CommitsResolution(r, v) ==
    LET p == Subject[v]
        paid == IF pc[r] = "paid" THEN 1 ELSE 0
    IN  /\ target[r] = v /\ pc[r] \in {"commit", "paid"}
        /\ \/ vote'[v] = "INVALID" /\ project'[p] = project[p] /\ paid = 0
           \/ vote'[v] = "REJECTED" /\ project'[p] = "REJECTED" /\ paid = 0
           \/ vote'[v] = "APPROVED" /\ project'[p] = IF paid = 1 THEN "ACTIVE" ELSE "APPROVED"
        /\ payouts'[p] = payouts[p] + paid

\* What is settled is not taken back in pieces. A decided vote changes, and a rejected or
\* closed project moves, only in the commit of a vote resolution, which sets vote,
\* project and payout to match each other; a retry begun while the project was
\* APPROVED moves it no more. (A second resolution of a vote two requests found
\* OPEN is such a commit: the code lets it overwrite the first.)
SettledOnlyRevote ==
    [][/\ \A v \in Votes : vote[v] \in Decisions /\ vote'[v] # vote[v]
            => \E r \in Requests : CommitsResolution(r, v)
       /\ \A p \in Projects : project[p] \in {"REJECTED", "CLOSED"} /\ project'[p] # project[p]
            => \E r \in Requests, v \in Votes :
                 Subject[v] = p /\ vote'[v] # "INVALID" /\ CommitsResolution(r, v)]_vars

\* The implemented promise: what is committed moves only as Funding allows.
F == INSTANCE Funding
ImplementsFunding == F!Spec

(* What the comments and the spec say, and the code does not guarantee *)

\* votes.service.ts:172: "a concurrent lazy resolution of the same vote can never
\* have two resolvers both act on the decision".
PaidAtMostOnce == \A p \in Projects : payouts[p] <= 1
=============================================================================
