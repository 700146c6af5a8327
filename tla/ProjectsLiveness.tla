--------------------------- MODULE ProjectsLiveness ---------------------------
(***************************************************************************)
(* Progress of Projects when nothing fails: no timeout, crash or lost      *)
(* connection ends a request.  What remains is waiting: resolutions lock   *)
(* vote, project, source vault in that order, retries lock source vault,   *)
(* project, so requests can wait on each other in a circle, which          *)
(* PostgreSQL ends by aborting one of them.                                *)
(***************************************************************************)
EXTENDS Projects

\* The request whose lock the next statement of r waits for, or Free.
Blocker(r) ==
    LET p == ProjectOf(r)
        holder == CASE pc[r] = "close" -> voteLock[target[r]]
                    [] pc[r] \in {"reject", "approve"} -> projectLock[p]
                    [] pc[r] = "debit" /\ Covered(r) -> vaultLock[Source[p]]
                    [] pc[r] = "claim" /\ StillApproved(r) -> projectLock[p]
                    [] pc[r] = "credit" -> vaultLock[Payout[p]]
                    [] OTHER -> Free
    IN  IF holder = r THEN Free ELSE holder

\* Following the blockers from r comes back to r.
Deadlocked(r) ==
    LET hop[n \in 0..Cardinality(Requests)] ==
            IF n = 0 THEN Blocker(r)
            ELSE IF hop[n - 1] = Free THEN Free ELSE Blocker(hop[n - 1])
    IN  \E n \in DOMAIN hop : hop[n] = r

\* PostgreSQL's deadlock detector picks r as the victim.
DeadlockVictim(r) == Deadlocked(r) /\ Abort(r)

LiveNext ==
    \/ \E r \in Requests : Begin(r) \/ Continue(r) \/ DeadlockVictim(r)
    \/ Environment

\* The process keeps running the requests it has begun and the detector runs
\* (weak fairness).  A request waiting for the source vault or for its project
\* gets the row in the end although others keep asking for it, since PostgreSQL
\* queues the waiters (strong fairness).  Clients keep reading the projects and
\* their votes, which is what lazy evaluation needs (strong: a reader may have to
\* wait for a free request).
Fairness ==
    /\ \A r \in Requests : WF_vars(Continue(r) \/ DeadlockVictim(r))
    /\ \A r \in Requests : SF_vars(DebitSource(r))
    /\ \A r \in Requests : SF_vars(ClaimProject(r))
    /\ \A p \in Projects : SF_vars(\E r \in Requests : StartRetry(r, p))
    /\ \A v \in Votes : SF_vars(\E r \in Requests : StartClose(r, v))

LiveSpec == Init /\ [][LiveNext]_vars /\ Fairness

-----------------------------------------------------------------------------
\* Every transaction ends: none waits for ever, although resolutions and
\* retries take the project row and the source vault in opposite orders.
TransactionsEnd ==
    \A r \in Requests :
        pc[r] \in {"close", "reject", "approve", "debit", "claim", "undo", "credit"}
            ~> pc[r] \notin {"close", "reject", "approve", "debit", "claim", "undo",
                             "credit", "commit", "paid"}

\* An approved project whose source vault keeps covering its budget does not
\* stay APPROVED: the lazy retry on its reads activates it.
FundedProjectActivates ==
    \A p \in Projects :
        []<>(project[p] # "APPROVED" \/ balance[Source[p]] < Budget[p])

\* A vote past its scheduledCloseAt does not stay OPEN once it is read.
DueVoteCloses == \A v \in Votes : v \in due ~> vote[v] # "OPEN"
=============================================================================
