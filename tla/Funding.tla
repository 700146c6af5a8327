-------------------------------- MODULE Funding --------------------------------
(***************************************************************************)
(* What the projects feature promises about money, whatever the requests   *)
(* that run it do in between: a project is funded by one atomic step that  *)
(* moves its budget out of a source vault that covers it, and only on the  *)
(* strength of an approval.  Projects implements this specification.       *)
(***************************************************************************)
EXTENDS Integers

CONSTANTS Projects, Vaults, Source, Payout, Budget

VARIABLES
    project,    \* the status of a project
    balance,    \* the balance of a vault
    approvals,  \* how many times a project was approved
    payouts     \* how many times its budget was paid out

vars == <<project, balance, approvals, payouts>>

Init ==
    /\ project = [p \in Projects |-> "NONE"]
    /\ balance = [x \in Vaults |-> 0]
    /\ approvals = [p \in Projects |-> 0]
    /\ payouts = [p \in Projects |-> 0]

Submit(p) ==
    /\ project[p] = "NONE"
    /\ project' = [project EXCEPT ![p] = "PENDING"]
    /\ UNCHANGED <<balance, approvals, payouts>>

Approve(p) ==
    /\ project' = [project EXCEPT ![p] = "APPROVED"]
    /\ approvals' = [approvals EXCEPT ![p] = @ + 1]
    /\ UNCHANGED <<balance, payouts>>

Reject(p) ==
    /\ project' = [project EXCEPT ![p] = "REJECTED"]
    /\ UNCHANGED <<balance, approvals, payouts>>

\* The budget of p leaves its source and reaches its payout vault, if it has one.
Pay(p) ==
    /\ balance[Source[p]] >= Budget[p]
    /\ balance' = [x \in Vaults |->
                     IF x = Source[p] THEN balance[x] - Budget[p]
                     ELSE IF x = Payout[p] THEN balance[x] + Budget[p]
                     ELSE balance[x]]
    /\ payouts' = [payouts EXCEPT ![p] = @ + 1]
    /\ project' = [project EXCEPT ![p] = "ACTIVE"]

\* Funded by the very step that approves it, or later once it can be.
ApproveAndPay(p) ==
    /\ Pay(p)
    /\ approvals' = [approvals EXCEPT ![p] = @ + 1]

PayApproved(p) ==
    /\ project[p] = "APPROVED"
    /\ Pay(p)
    /\ UNCHANGED approvals

Close(p) ==
    /\ project[p] = "ACTIVE"
    /\ project' = [project EXCEPT ![p] = "CLOSED"]
    /\ UNCHANGED <<balance, approvals, payouts>>

OtherEntry(x, d) ==
    /\ balance' = [balance EXCEPT ![x] = @ + d]
    /\ UNCHANGED <<project, approvals, payouts>>

Next ==
    \/ \E p \in Projects :
         \/ Submit(p) \/ Approve(p) \/ Reject(p)
         \/ ApproveAndPay(p) \/ PayApproved(p) \/ Close(p)
    \/ \E x \in Vaults, d \in {-1, 1} : OtherEntry(x, d)

Spec == Init /\ [][Next]_vars
=============================================================================
