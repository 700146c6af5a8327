--------------------------- MODULE ProjectsInvariant ---------------------------
(***************************************************************************)
(* The inductive invariant of Projects: what an open transaction holds and *)
(* has written at each of its statements.                                  *)
(***************************************************************************)
EXTENDS Projects

\* A row no transaction holds has no pending value.
CleanRows ==
    /\ \A v \in Votes : voteLock[v] = Free => newVote[v] = vote[v]
    /\ \A p \in Projects : projectLock[p] = Free => newProject[p] = project[p]
    /\ \A x \in Vaults : vaultLock[x] = Free => newBalance[x] = balance[x]

\* A lock belongs to a transaction past the statement that takes it.
VoteLockOwner ==
    \A r \in Requests, v \in Votes : voteLock[v] = r =>
        /\ target[r] = v
        /\ pc[r] \in {"reject", "approve", "debit", "claim", "credit", "commit", "paid"}

ProjectLockOwner ==
    \A r \in Requests, p \in Projects : projectLock[p] = r =>
        /\ ProjectOf(r) = p
        /\ pc[r] \in {"debit", "claim", "credit", "commit", "paid"}

VaultLockOwner ==
    \A r \in Requests, x \in Vaults : vaultLock[x] = r =>
        \/ x = Source[ProjectOf(r)] /\ pc[r] \in {"claim", "undo", "credit", "commit", "paid"}
        \/ x = Payout[ProjectOf(r)] /\ pc[r] = "paid"

\* Requests work on rows that exist, and votes are about projects that do.
Existing ==
    /\ \A v \in Votes : vote[v] # "NONE" => project[Subject[v]] # "NONE"
    /\ \A r \in Requests :
         /\ target[r] \in Votes => vote[target[r]] # "NONE"
         /\ target[r] \in Projects => project[target[r]] # "NONE"

\* What each location works on.
Targets ==
    \A r \in Requests :
        /\ pc[r] \in {"respond", "count", "close", "reject", "approve"} => target[r] \in Votes
        /\ pc[r] \in {"reopen", "open"} => target[r] \in Projects
        /\ pc[r] \in {"debit", "claim", "undo", "credit", "commit", "paid", "audit"}
             => target[r] \in Votes \cup Projects
        /\ pc[r] = "close" => decision[r] \in Decisions
        /\ pc[r] = "credit" => Payout[ProjectOf(r)] \in Vaults

\* The transaction of closeVote holds the vote and, once it decided on the
\* project, the project; both carry the same decision.
ResolutionOf(r) ==
    LET v == target[r]
        p == Subject[target[r]]
    IN  /\ pc[r] # "undo"
        /\ pc[r] \in {"reject", "approve", "debit", "claim", "credit", "commit", "paid"}
             => voteLock[v] = r
        /\ pc[r] = "reject" => newVote[v] = "REJECTED"
        /\ pc[r] \in {"approve", "debit", "claim", "credit", "paid"}
             => newVote[v] = "APPROVED"
        /\ pc[r] \in {"debit", "claim"}
             => projectLock[p] = r /\ newProject[p] = "APPROVED"
        /\ pc[r] = "commit" =>
             \/ newVote[v] = "INVALID" /\ projectLock[p] # r
             \/ /\ newVote[v] \in {"APPROVED", "REJECTED"}
                /\ projectLock[p] = r /\ newProject[p] = newVote[v]

ResolutionWrites == \A r \in Requests : Resolving(r) => ResolutionOf(r)

\* The transaction of retryIfApproved writes the project only to activate it,
\* and only while the project is APPROVED.
RetryWrites ==
    \A r \in Requests : target[r] \in Projects =>
        /\ pc[r] \in {"debit", "claim", "undo", "commit"} => projectLock[target[r]] # r
        /\ pc[r] \in {"credit", "paid"} => project[target[r]] = "APPROVED"

\* An activation holds the source it debited, and its project once claimed.
ActivationOf(r) ==
    LET p == ProjectOf(r)
    IN  /\ pc[r] \in {"claim", "undo", "credit", "paid"} =>
             /\ vaultLock[Source[p]] = r
             /\ newBalance[Source[p]] = balance[Source[p]] - Budget[p]
             /\ newBalance[Source[p]] >= 0
        /\ pc[r] = "commit" /\ vaultLock[Source[p]] = r
             => newBalance[Source[p]] = balance[Source[p]]
        /\ pc[r] \in {"credit", "paid"} =>
             projectLock[p] = r /\ newProject[p] = "ACTIVE"
        /\ pc[r] = "paid" /\ Payout[p] \in Vaults =>
             /\ vaultLock[Payout[p]] = r
             /\ newBalance[Payout[p]] = balance[Payout[p]] + Budget[p]

ActivationWrites == \A r \in Requests : ActivationOf(r)

IInv ==
    /\ TypeOK
    /\ CleanRows
    /\ VoteLockOwner /\ ProjectLockOwner /\ VaultLockOwner
    /\ Existing
    /\ Targets
    /\ ResolutionWrites /\ RetryWrites /\ ActivationWrites
=============================================================================
