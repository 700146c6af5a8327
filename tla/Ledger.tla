-------------------------------- MODULE Ledger --------------------------------
(***************************************************************************)
(* The vaults of a group and their ledger: transactions.service.ts,        *)
(* contributions.service.ts, shares.service.ts, flow rules and their       *)
(* application in flow-rules.service.ts and the revenue and expense        *)
(* entries of project-entries.service.ts.                                  *)
(*                                                                         *)
(* As in Projects, a request takes one database statement at a time.       *)
(* Inserted rows are invisible to the others until the commit and wait for *)
(* nobody, so a request keeps them in `made`; updated rows are locked.     *)
(***************************************************************************)
EXTENDS Integers, Sequences, FiniteSets, Functions, ReadCommitted, FlowRules

CONSTANTS
    Requests,       \* concurrent HTTP requests
    Members,        \* the active members, 1..n in the order of their ids
    Vaults,         \* vault ids
    Pocket,         \* the WITHDRAWABLE vault of a member
    EveryMember,    \* the destination MEMBER_WITHDRAWABLE_VAULTS
    Contributions,  \* contribution ids
    Contributor,    \* memberId of a contribution
    Contributed,    \* amount of a contribution
    NoContribution,
    Rules,          \* the <<destination, percentage>> pairs of the flow rules, by id
    Given,          \* the source type of the rules there are from the start
    Amounts,        \* the amounts members withdraw, earn and spend
    MaxRows         \* bound: no new operation once the ledger has this many rows

SourceTypes == {"CONTRIBUTION", "WITHDRAWAL", "PROJECT_REVENUE", "PROJECT_EXPENSE"}

ASSUME LedgerAssumption ==
    /\ Free \notin Requests
    /\ IsFiniteSet(Members) /\ Members # {} /\ Members = 1..Cardinality(Members)
    /\ Pocket \in [Members -> Vaults]
    /\ IsInjective(Pocket)
    /\ EveryMember \notin Vaults
    /\ IsFiniteSet(Contributions)
    /\ Contributor \in [Contributions -> Members]
    /\ Contributed \in [Contributions -> Nat \ {0}]
    /\ NoContribution \notin Contributions
    /\ Rules \in Seq(Seq((Vaults \cup {EveryMember}) \X (0..Whole)))
    /\ \A i \in DOMAIN Rules : SumFunction([d \in DOMAIN Rules[i] |-> Rules[i][d][2]]) = Whole
    /\ DOMAIN Given \subseteq DOMAIN Rules
    /\ \A i \in DOMAIN Given : Given[i] \in SourceTypes \ {"WITHDRAWAL"}
    /\ Amounts \subseteq Nat \ {0}
    /\ MaxRows \in Nat

\* With more members, a share of every one of them could round to 0 %.
ASSUME MembersFew == Cardinality(Members) <= 2 * Whole

VARIABLES
    balance, newBalance, vaultLock,                 \* Vault.cachedBalance
    contribution, newContribution, contributionLock,  \* Contribution, reversedAt
    shares, newShares, shareLock,                   \* MemberShareCache.totalContributed
    rule,       \* FlowRule: status, source type, the rule it replaces (0 for none), and
                \* whether sourceRefId names the project
    met,        \* history: how many rules a contribution found active
    rows,       \* the committed Transaction rows, in the order of their commits
    active,     \* the project is ACTIVE
    pc, job     \* where each request is, and what it has in memory

vaultRows == <<balance, newBalance, vaultLock>>
contributionRows == <<contribution, newContribution, contributionLock>>
shareRows == <<shares, newShares, shareLock>>
ruleRows == <<rule, met>>
vars == <<vaultRows, contributionRows, shareRows, ruleRows, rows, active, pc, job>>

Row == [vault : Vaults \cup {EveryMember}, direction : {"CREDIT", "DEBIT"}, amount : Int,
        sourceType : SourceTypes, source : Contributions \cup {NoContribution},
        reverses : Nat]

\* What a row does to the cachedBalance of its vault.
Delta(row) == IF row.direction = "CREDIT" THEN row.amount ELSE -row.amount

\* What a sequence of rows does to the cachedBalance of vault x.
Net(x, s) == SumFunction([i \in DOMAIN s |-> IF s[i].vault = x THEN Delta(s[i]) ELSE 0])

NoJob == [kind |-> "NONE", on |-> NoContribution, amount |-> 0,
          plan |-> <<>>, made |-> <<>>, rule |-> 0, totals |-> [m \in Members |-> 0]]

RuleIds == DOMAIN Rules
Kinds == SourceTypes \cup {"NONE", "REVERSAL", "ENTRY_REVERSAL", "CONTRIBUTION_REVERSAL"}
Locations == {"idle", "originals", "sum", "shares", "rules", "write", "commit", "replace"}
Jobs == [kind : Kinds, on : Contributions \cup {NoContribution}, amount : Nat,
         plan : Seq(Row), made : Seq(Row), rule : RuleIds \cup {0}, totals : [Members -> Nat]]

TypeOK ==
    /\ balance \in [Vaults -> Int] /\ newBalance \in [Vaults -> Int]
    /\ vaultLock \in [Vaults -> Requests \cup {Free}]
    /\ contribution \in [Contributions -> {"NONE", "RECORDED", "REVERSED"}]
    /\ newContribution \in [Contributions -> {"NONE", "RECORDED", "REVERSED"}]
    /\ contributionLock \in [Contributions -> Requests \cup {Free}]
    /\ shares \in [Members -> Nat] /\ newShares \in [Members -> Nat]
    /\ shareLock \in [Members -> Requests \cup {Free}]
    /\ rule \in [RuleIds -> [status : {"NONE", "ACTIVE", "REPLACED"}, source : SourceTypes,
                            replaces : RuleIds \cup {0}, project : BOOLEAN]]
    /\ met \in [Contributions -> 0..Len(Rules)]
    /\ rows \in Seq(Row)
    /\ active \in BOOLEAN
    /\ pc \in [Requests -> Locations]
    /\ job \in [Requests -> Jobs]

Init ==
    /\ balance = [x \in Vaults |-> 0] /\ newBalance = balance
    /\ vaultLock = [x \in Vaults |-> Free]
    /\ contribution = [c \in Contributions |-> "NONE"] /\ newContribution = contribution
    /\ contributionLock = [c \in Contributions |-> Free]
    /\ shares = [m \in Members |-> 0] /\ newShares = shares
    /\ shareLock = [m \in Members |-> Free]
    /\ rule = [i \in RuleIds |->
                  IF i \in DOMAIN Given
                  THEN [status |-> "ACTIVE", source |-> Given[i], replaces |-> 0,
                        project |-> Given[i] # "CONTRIBUTION"]
                  ELSE [status |-> "NONE", source |-> "CONTRIBUTION", replaces |-> 0,
                        project |-> FALSE]]
    /\ met = [c \in Contributions |-> 0]
    /\ rows = <<>>
    /\ active = TRUE
    /\ pc = [r \in Requests |-> "idle"]
    /\ job = [r \in Requests |-> NoJob]

-----------------------------------------------------------------------------
Goto(r, l) == pc' = [pc EXCEPT ![r] = l]

Plan(r, entries) == job' = [job EXCEPT ![r].plan = entries]

\* Request r starts an operation.
Start(r, l, new) ==
    /\ pc[r] = "idle" /\ Len(rows) < MaxRows
    /\ Goto(r, l)
    /\ job' = [job EXCEPT ![r] = new]
    /\ UNCHANGED <<vaultRows, contributionRows, shareRows, ruleRows, rows, active>>

UnchangedRows == UNCHANGED <<vaultRows, contributionRows, shareRows, ruleRows, rows, active>>

\* Variant: in the direction of the row it offsets.
MirrorSameWay(row, i) == [row EXCEPT !.reverses = i]

\* The row that offsets this one, which is row i.
Mirror(row, i) == [row EXCEPT !.direction = IF @ = "CREDIT" THEN "DEBIT" ELSE "CREDIT",
                              !.reverses = i]

Offset(i) == Mirror(rows[i], i)

Reversals(i) == {j \in DOMAIN rows : rows[j].reverses = i}

IsPocket(x) == \E m \in Members : Pocket[m] = x

-----------------------------------------------------------------------------
(* transactions.service.ts: withdraw, reverse *)

\* The row of a withdrawal.
Withdrawn(m, a) ==
    [vault |-> Pocket[m], direction |-> "DEBIT", amount |-> a, sourceType |-> "WITHDRAWAL",
     source |-> NoContribution, reverses |-> 0]

\* withdraw compares the amount with the balance it read before its transaction.
StartWithdrawal(r, m, a) ==
    /\ a <= balance[Pocket[m]]
    /\ Start(r, "write",
             [NoJob EXCEPT !.kind = "WITHDRAWAL", !.amount = a, !.plan = <<Withdrawn(m, a)>>])

\* Variant: rows of contributions too.
StartReversalOfAny(r, i) ==
    /\ i \in DOMAIN rows
    /\ IsPocket(rows[i].vault)
    /\ Reversals(i) = {}
    /\ Start(r, "write", [NoJob EXCEPT !.kind = "REVERSAL", !.plan = <<Offset(i)>>])

\* reverse reads a row of the member's own vault and finds no reversal of it.
StartReversal(r, i) ==
    /\ i \in DOMAIN rows
    /\ rows[i].sourceType # "CONTRIBUTION"
    /\ IsPocket(rows[i].vault)
    /\ Reversals(i) = {}
    /\ Start(r, "write", [NoJob EXCEPT !.kind = "REVERSAL", !.plan = <<Offset(i)>>])

-----------------------------------------------------------------------------
(* project-entries.service.ts: recordEntry, reverse, close *)

\* recordEntry reads the project as ACTIVE, before its transaction.
StartEntry(r, k, a) ==
    /\ active
    /\ k \in {"PROJECT_REVENUE", "PROJECT_EXPENSE"}
    /\ Start(r, "rules", [NoJob EXCEPT !.kind = k, !.amount = a])

\* A project that is not ACTIVE records nothing.
RefuseEntry(r) ==
    /\ pc[r] = "idle" /\ ~active
    /\ UNCHANGED vars

\* reverse reads an entry of the project and finds no reversal of it.
StartEntryReversal(r, i) ==
    /\ i \in DOMAIN rows
    /\ rows[i].sourceType \in {"PROJECT_REVENUE", "PROJECT_EXPENSE"}
    /\ Reversals(i) = {}
    /\ Start(r, "write", [NoJob EXCEPT !.kind = "ENTRY_REVERSAL", !.plan = <<Offset(i)>>])

CloseProject ==
    /\ active
    /\ active' = FALSE
    /\ UNCHANGED <<vaultRows, contributionRows, shareRows, ruleRows, rows, pc, job>>

-----------------------------------------------------------------------------
(* contributions.service.ts: create, reverse; shares.service.ts: recompute *)

\* create inserts the contribution.
StartContribution(r, c) ==
    /\ contribution[c] = "NONE"
    /\ \A q \in Requests : job[q].on # c
    /\ Start(r, "sum", [NoJob EXCEPT !.kind = "CONTRIBUTION", !.on = c, !.amount = Contributed[c]])

\* reverse reads the contribution as not reversed, before its transaction.
StartContributionReversal(r, c) ==
    /\ contribution[c] = "RECORDED"
    /\ Start(r, "originals", [NoJob EXCEPT !.kind = "CONTRIBUTION_REVERSAL", !.on = c])

\* The rows of contribution c that are no reversals and have none.
Originals(c) == {i \in DOMAIN rows : /\ rows[i].source = c
                                     /\ rows[i].reverses = 0
                                     /\ Reversals(i) = {}}

\* The transaction of reverse reads the rows it offsets.
ReadOriginals(r) ==
    /\ pc[r] = "originals"
    /\ LET originals == InOrder(Originals(job[r].on))
       IN  Plan(r, [n \in DOMAIN originals |-> Offset(originals[n])])
    /\ Goto(r, "write")
    /\ UnchangedRows

\* reverse sets reversedAt once every row is offset.
MarkReversed(r) ==
    LET c == job[r].on
    IN  /\ pc[r] = "write" /\ job[r].plan = <<>>
        /\ job[r].kind = "CONTRIBUTION_REVERSAL"
        /\ Lockable(contributionLock, c, r)
        /\ contributionLock' = [contributionLock EXCEPT ![c] = r]
        /\ newContribution' = [newContribution EXCEPT ![c] = "REVERSED"]
        /\ Goto(r, "sum")
        /\ UNCHANGED <<vaultRows, contribution, shareRows, ruleRows, rows, active, job>>

\* Variant: the committed ones only, as another connection would see them.
CountedCommitted(r) == {c \in Contributions : contribution[c] = "RECORDED"}

\* The contributions that count as request r sees them: the committed ones and
\* its own insert, less what is or what it has just marked as reversed.
Counted(r) ==
    {c \in Contributions :
        \/ job[r].kind = "CONTRIBUTION" /\ job[r].on = c
        \/ Visible(contribution, newContribution, contributionLock, c, r) = "RECORDED"}

\* recompute sums them by member.
SumContributions(r) ==
    /\ pc[r] = "sum"
    /\ job' = [job EXCEPT ![r].totals =
                 [m \in Members |->
                    SumFunction([c \in {d \in Counted(r) : Contributor[d] = m} |-> Contributed[c]])]]
    /\ Goto(r, "shares")
    /\ UnchangedRows

\* recompute upserts the share of every member.
WriteShares(r) ==
    /\ pc[r] = "shares"
    /\ \A m \in Members : Lockable(shareLock, m, r)
    /\ shareLock' = [m \in Members |-> r]
    /\ newShares' = job[r].totals
    /\ Goto(r, IF job[r].kind = "CONTRIBUTION" THEN "rules" ELSE "commit")
    /\ UNCHANGED <<vaultRows, contributionRows, shares, ruleRows, rows, active, job>>

-----------------------------------------------------------------------------
(* flow-rules.service.ts: create, replace *)

\* create: a rule of the group, with its destinations, for contributions (one for manual
\* entries is never applied).
CreateRule(i) ==
    /\ rule[i].status = "NONE"
    /\ rule' = [rule EXCEPT ![i].status = "ACTIVE"]
    /\ UNCHANGED <<vaultRows, contributionRows, shareRows, met, rows, active, pc, job>>

\* replace reads the rule as active and finds no successor of it, before its transaction.
StartReplace(r, i) ==
    /\ rule[i].status = "ACTIVE" /\ \A j \in RuleIds : rule[j].replaces # i
    /\ Start(r, "replace", [NoJob EXCEPT !.rule = i])

\* Variant: no transaction, so that the successor may be missing.
ReplaceRuleHalf(r) ==
    /\ pc[r] = "replace"
    /\ rule' = [rule EXCEPT ![job[r].rule].status = "REPLACED"]
    /\ Goto(r, "idle") /\ job' = [job EXCEPT ![r] = NoJob]
    /\ UNCHANGED <<vaultRows, contributionRows, shareRows, met, rows, active>>

\* The transaction of replace deactivates the rule by id and creates a successor of the same
\* source type, which does not take over sourceRefId.
ReplaceRule(r) ==
    /\ pc[r] = "replace"
    /\ \E i \in RuleIds :
          /\ rule[i].status = "NONE"
          /\ rule' = [rule EXCEPT ![job[r].rule].status = "REPLACED",
                                  ![i] = [status |-> "ACTIVE", source |-> rule[job[r].rule].source,
                                          replaces |-> job[r].rule, project |-> FALSE]]
    /\ Goto(r, "idle") /\ job' = [job EXCEPT ![r] = NoJob]
    /\ UNCHANGED <<vaultRows, contributionRows, shareRows, met, rows, active>>

-----------------------------------------------------------------------------
(* flow-rules.service.ts: applyContributionRules, applyProjectEntryRules,  *)
(* applyRule, splitAcrossMembers, writeVaultEntry                          *)

\* The rows of amount a, of kind k, to the destinations; no row for nothing.
Entries(destinations, percentages, a, k, c) ==
    LET parts == Parts(a, percentages)
        row(i) == [vault |-> destinations[i],
                   direction |-> IF k = "PROJECT_EXPENSE" THEN "DEBIT" ELSE "CREDIT",
                   amount |-> parts[i], sourceType |-> k, source |-> c, reverses |-> 0]
        nonzero == InOrder({i \in DOMAIN parts : parts[i] # 0})
    IN  [n \in DOMAIN nonzero |-> row(nonzero[n])]

RuleEntries(to, a, k, c) ==
    Entries([i \in DOMAIN to |-> to[i][1]], [i \in DOMAIN to |-> to[i][2]], a, k, c)

\* The active rules of source type k; those of an entry also name the project.
ActiveRules(k) ==
    {i \in RuleIds : /\ rule[i].status = "ACTIVE" /\ rule[i].source = k
                     /\ k # "CONTRIBUTION" => rule[i].project}

\* The entries of these rules, each on the whole amount.
AllEntries(rules, k, a, c) ==
    LET upTo[n \in 0..Len(Rules)] ==
            IF n = 0 THEN <<>>
            ELSE upTo[n - 1] \o (IF n \in rules THEN RuleEntries(Rules[n], a, k, c) ELSE <<>>)
    IN  upTo[Len(Rules)]

ReadRules(r) ==
    LET k == job[r].kind
        c == job[r].on
    IN  /\ pc[r] = "rules"
        /\ k # "CONTRIBUTION" => ActiveRules(k) # {}
        /\ Plan(r, AllEntries(ActiveRules(k), k, job[r].amount, c))
        /\ Goto(r, "write")
        /\ met' = IF k = "CONTRIBUTION" THEN [met EXCEPT ![c] = Cardinality(ActiveRules(k))] ELSE met
        /\ UNCHANGED <<vaultRows, contributionRows, shareRows, rule, rows, active>>

\* The members with a share, in the order of their ids, and their percentages, as
\* request r sees the share rows.  All members are active.
MemberShares(r) ==
    LET seen == [m \in Members |-> Visible(shares, newShares, shareLock, m, r)]
        percentage == [m \in Members |-> MemberPercentage(seen, m)]
        sharers == Sharers(percentage, Members)
    IN  [i \in DOMAIN sharers |-> <<Pocket[sharers[i]], percentage[sharers[i]]>>]

\* The next destination is the members' vaults: one entry for each of them.
SplitAcrossMembers(r) ==
    /\ pc[r] = "write" /\ job[r].plan # <<>>
    /\ LET e == Head(job[r].plan)
       IN  /\ e.vault = EveryMember
           /\ Plan(r, RuleEntries(MemberShares(r), e.amount, e.sourceType, e.source)
                         \o Tail(job[r].plan))
    /\ UNCHANGED pc
    /\ UnchangedRows

\* Debits of expenses, and those that reverse an entry, carry a balance condition.
Conditional(r) ==
    /\ job[r].kind \in {"PROJECT_EXPENSE", "ENTRY_REVERSAL"}
    /\ Head(job[r].plan).direction = "DEBIT"

\* Variant: no balance condition.
CoversAlways(r) == TRUE

\* The balance condition of the next entry, if it has one.
Covers(r) ==
    LET e == Head(job[r].plan)
    IN  Conditional(r) => Visible(balance, newBalance, vaultLock, e.vault, r) >= e.amount

\* Variant: the new balance is computed from the committed one.
WriteEntryFromCommitted(r) ==
    /\ pc[r] = "write" /\ job[r].plan # <<>>
    /\ LET e == Head(job[r].plan)
       IN  /\ e.vault # EveryMember
           /\ Covers(r)
           /\ Lockable(vaultLock, e.vault, r)
           /\ vaultLock' = [vaultLock EXCEPT ![e.vault] = r]
           /\ newBalance' = [newBalance EXCEPT ![e.vault] = balance[e.vault] + Delta(e)]
           /\ job' = [job EXCEPT ![r].plan = Tail(@), ![r].made = Append(@, e)]
    /\ UNCHANGED <<balance, contributionRows, shareRows, ruleRows, rows, active, pc>>

\* The next entry: update the vault, insert the row.
WriteEntry(r) ==
    /\ pc[r] = "write" /\ job[r].plan # <<>>
    /\ LET e == Head(job[r].plan)
       IN  /\ e.vault # EveryMember
           /\ Covers(r)
           /\ Lockable(vaultLock, e.vault, r)
           /\ vaultLock' = [vaultLock EXCEPT ![e.vault] = r]
           /\ newBalance' = [newBalance EXCEPT
                               ![e.vault] = Visible(balance, newBalance, vaultLock, e.vault, r)
                                              + Delta(e)]
           /\ job' = [job EXCEPT ![r].plan = Tail(@), ![r].made = Append(@, e)]
    /\ UNCHANGED <<balance, contributionRows, shareRows, ruleRows, rows, active, pc>>

-----------------------------------------------------------------------------
(* The end of a transaction *)

Return(r) == Goto(r, "idle") /\ job' = [job EXCEPT ![r] = NoJob]

\* Nothing is left to do in r's transaction.
Finished(r) ==
    \/ pc[r] = "commit"
    \/ /\ pc[r] = "write" /\ job[r].plan = <<>>
       /\ job[r].kind # "CONTRIBUTION_REVERSAL"

Commit(r) ==
    /\ Finished(r)
    /\ balance' = AfterCommit(balance, newBalance, vaultLock, r)
    /\ contribution' =
         LET seen == AfterCommit(contribution, newContribution, contributionLock, r)
         IN  IF job[r].kind = "CONTRIBUTION"
             THEN [seen EXCEPT ![job[r].on] = "RECORDED"] ELSE seen
    /\ newContribution' = IF job[r].kind = "CONTRIBUTION"
                          THEN [newContribution EXCEPT ![job[r].on] = "RECORDED"]
                          ELSE newContribution
    /\ shares' = AfterCommit(shares, newShares, shareLock, r)
    /\ vaultLock' = Released(vaultLock, r)
    /\ contributionLock' = Released(contributionLock, r)
    /\ shareLock' = Released(shareLock, r)
    /\ rows' = rows \o job[r].made
    /\ Return(r)
    /\ UNCHANGED <<newBalance, newShares, ruleRows, active>>

\* The transaction is rolled back: a refused debit, a timeout, a deadlock, a crash.
Rollback(r) ==
    /\ pc[r] # "idle"
    /\ newBalance' = AfterRollback(balance, newBalance, vaultLock, r)
    /\ newContribution' = AfterRollback(contribution, newContribution, contributionLock, r)
    /\ newShares' = AfterRollback(shares, newShares, shareLock, r)
    /\ vaultLock' = Released(vaultLock, r)
    /\ contributionLock' = Released(contributionLock, r)
    /\ shareLock' = Released(shareLock, r)
    /\ Return(r)
    /\ UNCHANGED <<balance, contribution, shares, ruleRows, rows, active>>

\* No rule for the entry, or an insufficient balance: the whole operation is undone.
EntryRefused(r) ==
    /\ \/ /\ pc[r] = "write" /\ job[r].plan # <<>>
          /\ Head(job[r].plan).vault # EveryMember
          /\ ~Covers(r)
       \/ /\ pc[r] = "rules" /\ job[r].kind # "CONTRIBUTION"
          /\ ActiveRules(job[r].kind) = {}
    /\ Rollback(r)

-----------------------------------------------------------------------------
Begin(r) ==
    \/ \E m \in Members, a \in Amounts : StartWithdrawal(r, m, a)
    \/ \E i \in DOMAIN rows : StartReversal(r, i)
    \/ \E i \in DOMAIN rows : StartEntryReversal(r, i)
    \/ \E k \in {"PROJECT_REVENUE", "PROJECT_EXPENSE"}, a \in Amounts : StartEntry(r, k, a)
    \/ RefuseEntry(r)
    \/ \E i \in RuleIds : StartReplace(r, i)
    \/ \E c \in Contributions : StartContribution(r, c) \/ StartContributionReversal(r, c)

Continue(r) ==
    \/ ReadOriginals(r)
    \/ MarkReversed(r)
    \/ SumContributions(r)
    \/ WriteShares(r)
    \/ ReplaceRule(r)
    \/ ReadRules(r)
    \/ SplitAcrossMembers(r)
    \/ WriteEntry(r)
    \/ EntryRefused(r)
    \/ Commit(r)

Next ==
    \/ \E r \in Requests : Begin(r) \/ Continue(r) \/ Rollback(r)
    \/ CloseProject
    \/ \E i \in RuleIds : CreateRule(i)

Spec == Init /\ [][Next]_vars

-----------------------------------------------------------------------------
(* Properties *)

Total(c) == Contributed[c] * met[c]

\* No commit of r that lowers a balance leaves it below zero.
DebitCovered(r) ==
    \A x \in Vaults : vaultLock[x] = r /\ balance'[x] < balance[x] => balance'[x] >= 0

\* Outside the transactions that write entries nothing is pending, and a replacement has its
\* rule.
JobsFit ==
    \A r \in Requests :
        /\ pc[r] \in {"idle", "replace"} => job[r].made = <<>>
        /\ pc[r] = "replace" => job[r].rule \in RuleIds

\* What open transactions hold: a request has locked the vaults of the rows it has inserted
\* and not committed, and the pending balance of a vault is the committed one plus those
\* rows, so that no writer works on a balance another one is changing (writeVaultEntry,
\* withdraw, reverse).
PendingBalance ==
    /\ \A r \in Requests : \A i \in DOMAIN job[r].made :
          job[r].made[i].vault \in Vaults /\ vaultLock[job[r].made[i].vault] = r
    /\ \A x \in Vaults :
          newBalance[x] = balance[x] +
              IF vaultLock[x] = Free THEN 0 ELSE Net(x, job[vaultLock[x]].made)

LInv == TypeOK /\ JobsFit /\ PendingBalance

\* An expense or the reversal of an entry, with no negative row.
Guarded(r) ==
    /\ job[r].kind \in {"PROJECT_EXPENSE", "ENTRY_REVERSAL"}
    /\ \A i \in DOMAIN job[r].made : job[r].made[i].amount >= 0

\* Such a request has taken no vault below zero that it had not found lower.
DebitsFit ==
    \A r \in Requests, x \in Vaults : vaultLock[x] = r =>
        /\ pc[r] \notin {"idle", "replace"}
        /\ Guarded(r) => newBalance[x] >= 0 \/ newBalance[x] >= balance[x]

\* What the rows in s post for contribution c.
Posted(c, s) == SumFunction([i \in DOMAIN s |-> IF s[i].source = c THEN s[i].amount ELSE 0])

\* The rows of contributions, and only they, name one; they are credits, and a reversal is
\* the mirror image of a row there is.
RowFits(row) ==
    /\ row.sourceType = "CONTRIBUTION" <=> row.source # NoContribution
    /\ row.sourceType = "CONTRIBUTION" /\ row.reverses = 0 => row.direction = "CREDIT"
    /\ row.reverses # 0 => /\ row.reverses \in DOMAIN rows
                           /\ row = Mirror(rows[row.reverses], row.reverses)

RowsFit == \A row \in Range(rows) : RowFits(row) /\ row.vault \in Vaults

\* The rows that request r has inserted or is about to.
Entered(r) == Range(job[r].plan) \cup Range(job[r].made)

\* Request r records contribution c: nobody else knows of it, the shares count it, and what
\* r has inserted and what it is about to is all of it, once for each rule.
Records(r, c) ==
    /\ contribution[c] = "NONE" /\ \A q \in Requests \ {r} : job[q].on # c
    /\ pc[r] \in {"sum", "shares", "rules", "write"} /\ job[r].amount = Contributed[c]
    /\ \A row \in Entered(r) : row.reverses = 0
    /\ pc[r] # "write" => Entered(r) = {}
    /\ pc[r] = "shares" => job[r].totals[Contributor[c]] > 0
    /\ pc[r] \in {"rules", "write"} =>
          newShares[Contributor[c]] > 0 /\ \A m \in Members : shareLock[m] = r
    /\ pc[r] = "write" => /\ Posted(c, job[r].made) + Posted(c, job[r].plan) = Total(c)
                          /\ "CONTRIBUTION" \in Range(Given) => met[c] # 0

\* Request r reverses contribution c: it has a row against each one that is not offset yet,
\* and once all are inserted it has marked the contribution.
Reverses(r, c) ==
    /\ contribution[c] # "NONE"
    /\ pc[r] \in {"originals", "write", "sum", "shares", "commit"}
    /\ \A row \in Entered(r) : row.reverses # 0 /\ row.vault \in Vaults
    /\ IF pc[r] = "originals" THEN Entered(r) = {}
       ELSE \A i \in Originals(c) : \E row \in Entered(r) : row.reverses = i
    /\ pc[r] \in {"sum", "shares", "commit"} =>
          job[r].plan = <<>> /\ contributionLock[c] = r /\ newContribution[c] = "REVERSED"

\* What request r is doing: its rows are those of what it works on, and it has locked only
\* the contribution it reverses, once all are inserted.
RequestFits(r) ==
    /\ \A row \in Entered(r) : RowFits(row) /\ row.source = job[r].on
    /\ pc[r] = "idle" => job[r] = NoJob
    /\ pc[r] = "originals" => job[r].kind = "CONTRIBUTION_REVERSAL"
    /\ job[r].on # NoContribution <=> job[r].kind \in {"CONTRIBUTION", "CONTRIBUTION_REVERSAL"}
    /\ job[r].kind = "CONTRIBUTION" => Records(r, job[r].on)
    /\ job[r].kind = "CONTRIBUTION_REVERSAL" => Reverses(r, job[r].on)
    /\ \A c \in Contributions : contributionLock[c] = r =>
          /\ job[r].kind = "CONTRIBUTION_REVERSAL" /\ job[r].on = c
          /\ pc[r] \in {"sum", "shares", "commit"}

RequestsFit == \A r \in Requests : RequestFits(r)

\* What the rows hold of contribution c.
ContributionFits(c) ==
    /\ contribution[c] = "NONE" => \A i \in DOMAIN rows : rows[i].source # c
    /\ contribution[c] = "RECORDED" =>
          /\ Posted(c, rows) = Total(c)
          /\ \A i \in DOMAIN rows : rows[i].source = c => i \in Originals(c)
    /\ contribution[c] = "REVERSED" => Originals(c) = {}

ContributionsFit == \A c \in Contributions : ContributionFits(c)

\* Once there is a rule for contributions there always is one.
RulesFit == "CONTRIBUTION" \in Range(Given) => ActiveRules("CONTRIBUTION") # {}

\* What each request knows of the contribution it works on: the inductive invariant of
\* distributions and their reversals.
DInv == LInv /\ RowsFit /\ RequestsFit /\ ContributionsFit /\ RulesFit

\* Vault.cachedBalance is at any time the sum of the vault's credits minus its
\* debits, reversals included (0003-contributions, key invariants), whatever
\* interleaving of distributions, withdrawals, entries and reversals wrote them.
CachedBalance == \A x \in Vaults : balance[x] = Net(x, rows)

\* The distribution of a contribution is whole: none of it is visible before the
\* contribution is, a recorded one has posted its amount to the last cent, once per rule
\* it found active, and no row of it is reversed on its own, and a reversed one has no row
\* left unreversed (contributions.service.ts, create and reverse).
ContributionsWhole ==
    \A c \in Contributions :
        LET of == {i \in DOMAIN rows : rows[i].source = c}
        IN  CASE contribution[c] = "NONE" -> of = {}
              [] contribution[c] = "RECORDED" ->
                    /\ Originals(c) = of
                    /\ SumFunction([i \in of |-> rows[i].amount]) = Total(c)
              [] contribution[c] = "REVERSED" -> Originals(c) = {}

\* Rules may be replaced while contributions are being recorded, and still no contribution
\* passes between a rule and its successor: in a group that had a rule for contributions,
\* each of them has been posted to some vault (replace, one transaction; AC-8).
NoneUndistributed ==
    "CONTRIBUTION" \in Range(Given) =>
        \A c \in Contributions :
            contribution[c] # "NONE" => \E i \in DOMAIN rows : rows[i].source = c

\* Expenses and reversals of entries never take a vault below zero, although withdrawals and
\* other entries change it between their start and their debit (writeVaultEntry, reverse).
\* Rows with a negative amount, which rounding can make, are not covered: their reversal is
\* unconditional.
EntriesCovered == [][\A r \in Requests : Guarded(r) => DebitCovered(r)]_vars

\* A transaction is reversed at most once (0003-contributions, key invariants).
ReversedAtMostOnce == \A i \in DOMAIN rows : Cardinality(Reversals(i)) <= 1

\* Taken together, the committed rows, the balances and the contributions behave as if each
\* operation were one step: all statements before a commit are invisible, whole operations
\* follow each other, and reversals undo what they name (the transactions of withdraw,
\* create, recordEntry and the three reverse).
Abstract == INSTANCE Journal WITH Most <- Len(Rules)
ImplementsJournal == Abstract!Spec
==============================================================================
