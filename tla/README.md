# Verification of MIKS

MIKS runs the common money of a group: members contribute to vaults, rules distribute
what comes in, projects are proposed, voted on, funded and closed, and members are
invited or voted out. The API (`src/api`, NestJS and Prisma on PostgreSQL) keeps all of
that state in the database; no job runs in the background, and no lock is held in
memory. What is hard about it is therefore one thing in many places: requests interleave
between any two of their database statements, and only the row locks and conditions of
single statements order them.

The web client (`src/web`, React with TanStack Router and Query) adds
one more kind of interleaving: calls, their answers, a shared refresh of the session and
the navigations that depend on them.

The modules here model the API statement by statement: projects and their votes, the
ledger, the membership of a group, accounts, sessions; and one tab of the web client call
by call. TLC checks them on small instances, and TLAPS proves the inductive invariant of each
state machine, and every safety property that the runs check, for every number of requests,
votes, vaults, members, browsers or calls.

## Inventory

Paths are under `src/api/src/modules` unless they start with `src/`.

| component | state | operations | interacts with |
|---|---|---|---|
| Votes (`votes/votes.service.ts`) | Vote.status, VoteResponse | open, respond, resolveVote (lazy close on a read past `scheduledCloseAt`) | runs the resolver registered for its subject inside its own transaction |
| Project votes and activation (`projects/project-vote.resolver.ts`, `project-activation.service.ts`) | Project.status, Vault.cachedBalance, Transaction | onResolved, attempt, retryIfApproved, afterResolved | called by a vote's resolution and by every read of an APPROVED project |
| Projects (`projects/projects.service.ts`) | Project, its vaults, its vote | submit, get, reopenVote | opens votes, retries activations |
| Project entries (`projects/project-entries.service.ts`) | Transaction, Vault.cachedBalance, Project.status | recordEntry, reverse, close | applies flow rules |
| Vaults and ledger (`vaults/transactions.service.ts`, `vaults.service.ts`) | Transaction, Vault.cachedBalance | withdraw, reverse, create a vault | every other writer of a vault |
| Contributions (`vaults/contributions.service.ts`) | Contribution.reversedAt | create, reverse | recomputes shares, applies flow rules |
| Shares (`vaults/shares.service.ts`) | MemberShareCache | recompute | read by every split among members |
| Flow rules (`vaults/flow-rules.service.ts`) | FlowRule, FlowDestination | create, replace, apply to contributions and entries | writes vaults and transactions |
| Groups, members, invites (`groups/groups.service.ts`, `invites.service.ts`) | Group, GroupMember, GroupInvite | create, leave, close, invite, accept, decline, revoke, lazy expiry | counts of active members bound votes and closing |
| Removal votes (`groups/removal-votes.service.ts`, `member-removal-vote.resolver.ts`) | Vote, GroupMember | propose, onResolved | second resolver of votes |
| Vote configuration (`votes/vote-config.service.ts`) | Group.metadata | read, update | copied onto each vote |
| Sessions (`auth/auth.service.ts`, `src/api/src/lib/auth-token`) | Session, failed-login counter | login, refresh with rotation, reuse detection, logout | devices; the web client's refresh (`src/web/src/lib/api/client.ts`) |
| Devices (`auth/device.service.ts`) | Device | register, confirm, revoke | verification codes |
| Accounts (`auth/auth.service.ts`, `verification.service.ts`) | User, UserIdentity, VerificationToken | register, login and lockout, OAuth login and linking, issue and consume codes, reset a password | sessions are created once a user is known |
| Audit log (`src/api/src/lib/audit`) | AuditLog | log, after the commit of what it records | all of the above |
| API client (`src/web/src/lib/api/client.ts`) | the refresh under way | attach, renew, send again, expel | every call of the web client |
| Routes and sign in (`src/web/src/routes`, `features/auth`) | the identity cached, the page | guards, login, OAuth popup and redirect, logout, accept an invitation | API client, query cache |
| Lists (`src/web/src/features/groups`, `features/auth`) | the query cache | fetch, mutate, invalidate, set | API client |
| Guards, controllers, mail, notifications, configuration | none that outlives a request | | |

What must be right, and where it is hard:

* **Projects.** One payout per approval, never beyond the source's balance, in the same
  transaction as the status; a source vault is shared by projects; two requests can
  resolve one vote; retries and resolutions lock project and vault in opposite orders;
  votes and activations happen only if somebody reads them.
* **Ledger.** `cachedBalance` is the sum of the rows; a distribution is whole or absent;
  conditional debits hold. Several checks (withdraw, the three reversals, the sum behind
  the shares) are made before or outside the transaction that relies on them.
* **Flow rules.** Amounts are rounded twice and the last destination takes the rest.
* **Membership.** The last member, the quorum floor, one pending invite per address: all
  are counts read before the write they justify.
* **Sessions and codes.** Rotation, reuse detection, lockout counters and one-time codes
  are read, compared and written in separate statements.
* **Web client.** Several calls meet an expired token at once and must share one refresh;
  answers arrive after a mutation has made them old; an effect runs again when the
  identity is fetched again.

`PROJECT.json` lists these hazards one by one, at their lines, with the properties that
cover them.

## Modules

| module | models | kind |
|---|---|---|
| `ReadCommitted` | row locks and visibility of PostgreSQL at READ COMMITTED, as Prisma's transactions use them | operators |
| `VoteRules` | the decision on a vote's responses | operators |
| `Projects` | votes on projects, resolution, activation, retry, reopen, close | state machine, EXTENDS the two above |
| `Funding` | what the feature promises: atomic, covered payouts on approvals | abstract specification |
| `ProjectsInvariant` | the inductive invariant `IInv` of `Projects` | invariant |
| `ProjectsLiveness` | deadlock detection, fairness and progress of `Projects` | specification, EXTENDS `Projects` |
| `ProjectsProofs` | theorems | proofs |
| `FlowRules` | rounding, parts of an amount, percentages of members | operators |
| `Ledger` | contributions, shares, distribution, entries, withdrawals, reversals, the creation and replacement of flow rules | state machine, EXTENDS `ReadCommitted` and `FlowRules` |
| `Journal` | what the ledger promises: whole operations, contributions in full, exact reversals | abstract specification |
| `AmountTheorems` | what `SumFunction` computes, induction on numbers, what rounding and splitting make of an amount | lemmas |
| `LedgerProofs` | theorems | proofs |
| `Splits` | shares and splits end to end as members and their contributions come and go | state machine over `FlowRules` |
| `SplitsProofs` | theorems | proofs |
| `Membership` | a group, its members, invites and removal votes | state machine, EXTENDS `VoteRules` |
| `Roster` | what a group promises about who is in | abstract specification |
| `MembershipProofs` | theorems | proofs |
| `Accounts` | registration, lockout, codes, provider logins | state machine |
| `AccountsProofs` | theorems | proofs |
| `Sessions` | devices, sessions, refresh tokens, the cookies of browsers | state machine |
| `Credential` | what the API promises about the refresh token of a device | abstract specification, of `Sessions` and of `WebClient` |
| `SessionsProofs` | theorems | proofs |
| `QueryCache` | what pages show and offer, what mutations write and invalidate | operators |
| `WebClient` | one tab: calls, the shared refresh, identity, guards, lists | state machine, EXTENDS `QueryCache` |
| `WebClientProofs` | theorems | proofs |
| `MCProjects`, `MCProjectsLiveness`, `MCLedger`, `MCMembership`, `MCAccounts`, `MCSessions`, `MCWebClient` | instances for TLC | |

### How state and actions correspond to the code

A member of `Requests` is an HTTP request in progress: `pc` is the statement it is about
to execute and `target`/`decision` (in `Ledger`, `job`) what it holds in JavaScript
variables. An action is one database statement, or one read with the local computation
on it, so that every interleaving of statements is a behaviour. A table column is three
functions: the committed value, the pending value of the transaction that has the row
locked, and the lock. An `UPDATE ... WHERE` looks at what it may see, waits for the lock
(its action is disabled) and re-evaluates its condition; `Commit` publishes and releases;
`Abort`/`Rollback` stands for everything that ends a request early at any statement:
Prisma's timeout, a deadlock victim, a lost connection, a crash of the process. Since
all state is in the database, a crash leaves nothing else behind and needs no restart
action. Operations of one statement (`CloseProject`) and transactions whose rows nobody
else can see or lock (`submit`) are one action.

In `Projects`, a resolution runs `StartClose` (vote read as OPEN and due), `CountResponses`
(still outside the transaction), `CloseVote`, `RejectProject` or `ApproveProject`,
`DebitSource` or `DebitRefused`, `ClaimProject` or `ClaimLost` and `UndoDebit`,
`CreditPayout`, `Commit`, `LogPayout`; a retry starts at `DebitSource`. `OtherEntry` is
the rest of the ledger, which may also take a vault below zero. `approvals` and `payouts`
are history variables for the properties.

In `Ledger`, a request keeps the entries it still has to write in `plan` and the rows it
has inserted in `made`; `rows` is the committed ledger, to which `Commit` appends. A
contribution runs `StartContribution`, `SumContributions`, `WriteShares`, `ReadRules`,
then `WriteEntry` and `SplitAcrossMembers` until `plan` is empty. A reversal carries the
position of the row it offsets. `rule` is the FlowRule table: the rules in `Given` exist
from the start, others come by `CreateRule` or as successors (`StartReplace`, which reads
the rule, then `ReplaceRule`, the transaction that deactivates it and creates the other).
`met` is a history variable, the number of rules a contribution found. An entry of a
project that no active rule names is refused before it writes (`EntryRefused`).

In `Membership` a GroupMember row is named after the invite that created it, or `Founder`.
Every request starts with the membership guard (`Guarded`) or with what a mailed link
brings (`LoadInvite`), and then takes one statement per action: the counts of `leave`,
`close` and `propose`, the checks of an invitation, its mail, which may fail after it was
delivered. `VOID` is one status for the three ends an invite has that admit nobody.
`Accept` and `CloseVote` are transactions of one step: they lock one row and insert, so
that nothing of them can be seen or waited for before their commit.

In `Accounts` a user is named after the address that was registered or the provider's
account that created it, so that two users of one address are two elements. `streak` is
a history variable. In `Sessions` a browser is a device, a refresh token a session and a
number; `Signable` says that a token signed within the second of the last one equals it.
The browser has its cookies (`jar`) and its confirmation form; the answer reaches it in a
step of its own (`SetCookies`), or never (`Fail`).

In `WebClient` a call goes from SENT to an answer and, when it is denied, through
`Renew`: it becomes the leader of a refresh (`post`) or waits for the one under way
(`flight` is `refreshPromise`). `Resend` and `Expelled` are what happens when that refresh
is answered. The server is reduced to what the tab can tell: whether the session is alive,
its current token, the number of the last write each list reflects. `me` is the cached
answer of `/auth/me`, `nav` a navigation held up by a guard, `landing` the page of an
invitation. `QueryCache` lists for each page the queries it observes and the mutations it
offers, and for each mutation what it writes on the server, sets and invalidates.

Abstractions. In `Projects` and `Ledger` members are active throughout; that contributions
of members who have left go on counting is the subject of `Splits`. The vote
configuration and the source of each project are constants (a project always has a source
vault, which submission requires); in `Membership` a proposer picks quorum and threshold
from sets. Votes compare the ratio exactly. The audit log is kept for payouts only.
Amounts in `Ledger` are cents; in `Projects` they are units that only relate to budgets.
Reads of lists and notifications are left out. `WriteShares`
upserts all share rows at once: its locks are released together, and what separate
upserts add, waiting for each other in a circle, ends in `Rollback`. `Submit` and
`StartContribution` use each id once; when the vote
ids are used up, a request at `OpenVote` can only end by `Abort`, and in
`ProjectsLiveness`, which has no `Abort`, stays there. Refused requests change nothing
and are left out of `Accounts` and `Sessions`; so are codes, sessions and locks past their
expiry where expiry only refuses. Access tokens are not bound to a session in
`Sessions`: as in `jwt.strategy.ts:29`, one is good until it expires.

## Runs

| run | question | result |
|---|---|---|
| `projects_one` | one project, two concurrent requests, three vote ids, a payout vault | inductive invariant, money, status, ledger and audit log agree, and `Projects` implements `Funding` |
| `projects_live` | two requests with no failure except deadlock victims | transactions end, covered approved projects activate, due votes close |
| `ledger` | two requests contribute, distribute, withdraw, earn, spend and reverse while rules are created and replaced | balances are sums, distributions whole, no contribution misses the rules, conditional debits covered; `Ledger` implements `Journal` |
| `flow_split` | three members who join, contribute up to 3 each, reverse and leave; six amounts | to the cent, each part as near the proportion of all contributions as its roundings allow (here half a cent per member), the proportion of those who have left with the last part, no part negative |
| `membership` | two requests invite, accept, revoke, leave, close, propose and vote | only pending invites admit, nobody is in twice, removals have two answers of others and one in favour; `Membership` implements `Roster` |
| `accounts` | two addresses, two provider accounts, two requests, two codes that may be equal | one account per address, verification and reset only by a mailed code, the lock holds, one live code |
| `sessions` | two browsers of one user, two requests, any of them failing; one browser overlaps its requests and loses answers, the other is orderly | sessions only for confirmed devices; for the orderly browser one session, no false alarm of reuse, and a token that is that of `Credential` |
| `web` | one tab, two calls, an invitation and a list that is mutated | no rotated token is presented, own writes stay shown, what was carried out is not sent again; the session of the modelled server implements `Credential` |
| `web_live` | one tab, two calls (identity, a list, a mutation), with fairness | every call ends |
| `paid_twice`, `orphaned_group`, `reversed_twice` | statements of the documents and comments | violated, see Findings |

Bounds. Every race in this code is between a check and the write it justifies, or
between two orders of locking; two requests exhibit each of them, and the proofs cover
any number. `projects_one` has three vote ids because two
reopened votes of one project can be open at once after the first was invalid, and one
member, because `VoteRules` tells apart only which decision results (quorum 1, threshold
50 reach all three). It has one project: that several share a source is covered by the
proofs. Balances of the rest of the ledger stay within -1..1 (`MinBalance`, `MaxBalance`),
enough to be one short, exact and overdrawn against a budget of 1; payouts and their
credits can pass these limits. `ledger` starts no new operation once five rows are
committed (`MaxRows`): a contribution makes three rows under its rule of two
destinations, so that its reversal, a second contribution or entries follow it, and what
two requests have begun below the bound goes beyond it. Its contributions are 3 cents,
which halve unevenly and leave one cent for two members. The fourth rule is a spare one:
created, it is a second rule for contributions that shares a destination with the first;
or it replaces any of the three. `Splits` is bounded by `MaxMembers`
(three: one who has left and two to split among), `MaxContributed` and `Amounts`; its
amounts stay below 1000 cents, where a percentage to four decimals is exact enough for a bound of half a cent per member (`Coarse` is 0); the theorems have
no bound. `membership` has a founder and two invites, hence
three members, the least with whom one can be voted out (two others); one vote id, since
votes touch each other only through their targets. `accounts` has two values of `Digits`,
so that codes of two accounts can collide, and locks after two attempts. `sessions` has
one browser that sends one request at a time and loses no answer (`Orderly`) and one that
does anything, `MaxSessions` and `MaxTokens` of 2: a rotation and a session after a
revoked one. `web` has two calls, one that leads a refresh and one that joins or comes late,
two tokens (`MaxTokens`: one rotation) and one write of the tab besides the acceptance.
`web_live` leaves out the invitation page and lets no mutation succeed (`MaxWrites` 0), so
that two tokens fit: the fetch of a list and a mutation, both denied, wait for one refresh
that is granted.

Symmetry. Requests, the vote ids of one project, invites and invited users, codes and the
call slots are interchangeable: no constant or definition names one. Liveness is checked
without symmetry.

Fairness. In `projects_live`, a process keeps executing the requests it has begun
and PostgreSQL's deadlock detector runs: weak fairness of `Continue` or `DeadlockVictim`.
PostgreSQL queues the waiters of a row, so a request waiting for a source vault or a
project is served although others keep asking: strong fairness of `DebitSource` and
`ClaimProject`. Lazy evaluation depends on clients that keep reading a project and its
votes: strong fairness of `StartRetry` and `StartClose`, strong because a reader may find
all requests of the small instance busy. The run excludes `Abort` other than for deadlock
victims: progress is claimed while nothing fails. Without the deadlock victim the
opposite lock orders of a retry and a resolution would stop both. In `WebClient`, weak
fairness of `Serve` and `Answer` for each call: an HTTP request is answered or fails in the
end, and the browser runs the continuation of a settled promise. Nothing is assumed of the
user, of time or of the session's revocation.

Every property of a passing run is paired with a variant of a definition (a dropped
condition, a lock not taken, a rounding changed: "Variant" in the modules) that breaks it.

## Proofs

`ProjectsProofs` holds for all constants that satisfy
`ProjectsAssumption`: vote and project ids are distinct, budgets are positive, a source
is never a payout vault (a source has type GROUP, a payout vault type PROJECT), quorum
and threshold in range.

1. `TypedAlways`: types, and what each location of a request works on (`Targets`).
2. `InvariantAlways`: `IInv`. The properties are not inductive, since whether a commit is
   right depends on what the transaction wrote before. `IInv` says so for each statement:
   a lock belongs to a request that is past the statement that takes it; an unlocked row
   has no pending value; a resolution holds its vote and, once decided, its project with
   the same decision; a retry has not written the project unless it was APPROVED; an
   activation past its debit holds the source, with exactly the budget taken from it and
   nothing below zero, and after an undo holds it unchanged. One lemma, `TransactionStep`,
   with one case per action.
3. `FundingImplemented`: `Spec` implements `Funding` under the identity mapping on the
   committed project status, balance, payouts and approvals. All steps but commits, `Submit`,
   `CloseProject` and `OtherEntry` stutter; `IInv` gives what a paid and an unpaid commit do.
4. `PayoutsOwed`, `ActiveWasPaid`, `PayoutCovered` follow from the steps of `Funding`;
   `LedgerBalanced` from `IInv` at the commit.
5. `PendingUndecided` and `SettledStays` are about which rows a commit can publish: a
   resolution holds vote and project together, so a vote is never decided without its
   project. `ResolutionCommits` says that the commit of a resolution sets vote, project
   and payout to match, and no other commit touches a decided vote or a settled project;
   that two requests may resolve one vote, the second over the first, is as the code has
   it (`paid_twice`). `AnnouncedHappened` counts: the audit entries of a
   project and the requests that still owe it one are together no more than its payouts.
   A count of requests needs finitely many of them, the assumption `RequestsFinite`, which
   no other theorem uses.

`MembershipProofs` holds for all constants that satisfy `MembershipAssumption`: finitely
many invites, a founder's row that is no invite, a null that is no id, quorums of at
least one and thresholds in percent.

1. `MInvAlways`: `MInv`. No single property is inductive. That a removal is carried is
   known when the responses are counted, and must last until the vote is closed: `Fits`
   says of each label what a request may rely on there, among it that an approval is
   `Carried`; `VotesFit` that an open vote asks for two answers and a majority and never
   has one of its target; `MembersFit` that who came in did so by an invite that is used
   up, which is what makes a conditional update enough. `FitsKept` shows once that no step
   of another request takes any of it back: pockets only grow, an invite or a vote never
   ceases to exist, a vote keeps its target, and answers are only added.
   `ApprovedIsCarried` derives two answers and one in favour from the cardinalities that
   `closeVote` compares.
2. `InvitesAdmitOnce`, `RemovalsAreCarried`: `MemberChanges` lists the only four ways in
   which a member comes or goes.
3. `RosterImplemented`: the rows that are in use, with their users, are the state of
   `Roster`; the unique index makes coming in a `Join`, the inductive invariant makes
   leaving and being removed a `Depart`, and everything else a stutter.

`AccountsProofs` holds for all constants that satisfy `AccountsAssumption`: addresses and
provider accounts are distinct, the careful addresses are addresses, a lock comes after at
least one attempt.

1. `AInvAlways`: `AInv`. `Proven` alone is not inductive: whether a code that is applied
   was mailed to the address it changes depends on what `consumeToken` found two statements
   before. `Fits` says what a request has at each label (a code of its purpose, typed by
   then), `CodesFit` that codes go to users. For a careful address, `Counted` ties the count
   in the database to the attempts made, `Fits` the count in memory to both, and `Alone`
   says that nobody else works on it. `FitsKept` shows that no other request's step takes
   away what one relies on.
2. `LocksHold` is a part of `AInv`. `OneAccount` and `OneCode` are inductive with it: only
   `InsertUser` and `SignUp` make users, past the unique index; only `MailCode` makes a code
   valid, and at a careful address nothing was valid since `Invalidate`.

`SessionsProofs` holds for all constants that satisfy `SessionsAssumption`: the device of
the registration and the orderly browsers are browsers, and there is an id that is nothing.

1. `SInvAlways`: `SInv`. That a session has a trusted device is known when its request
   passed the device check, and is used statements later, when it stores the session:
   `Fits` keeps it in between, and `RowsFit` and `BrowsersFit` say the same of rows, forms
   and cookies. `NewAlone` and `Alone` say who else may work on the same session, and
   `Fresh` that the browser of a request without rivals has in its jar, or in the answer
   under way, the token its session expects. `FitsKept` and `FreshKept` show once that a
   step of another browser takes none of it back.
2. `ProofNeeded` and, for orderly browsers, `OneSession` and `NoOrderlyAlarm` are what
   `RowsFit`, `Fresh` and `Fits`
   say at rest, when a session is created and when a token is compared.
3. `CredentialImplemented`: the token of the one session of an orderly browser that is not
   revoked (`Good`), with the sessions its browser has had (`Opened`), is the state of
   `Credential`. `SInv` does not say that what a request stores is no older than what is
   there, since a token is signed two statements before it is stored: `Newer` does, and
   `CInv` is `SInv` with it (`CInvAlways`). It lasts because the browser's other requests do
   not overlap (`Alone`) and those of other browsers have nothing to store in its session
   (`Stored`). `RowChanges` says that a step changes at most one row, in one of three ways:
   `RowRevoked` ends a credential, `RowRenewed` renews it unless the row was revoked
   meanwhile, which its update by id does not undo, and `RowCreated` is a sign in, since a
   browser that creates a session has none. That the token may be equal to the last one
   (two signed within a second) makes a renewal a stutter, not a step back.

`WebClientProofs` holds for all constants that satisfy `WebAssumption`: the queries,
mutations and pages are those of `QueryCache`, and `None` is none of their names.

1. `WInvAlways`: `WInv`. `OneFlight` is the protocol of `refreshPromise`: one leader, and
   everybody who waits waits for it. `TokensFit` says that what it presents is current, or
   older than the last sign in, and `LoginsFit` where the token of a sign in under way is.
   `ReadsFit` compares, by numbers of writes, the server, the answers under way, the cache
   and what the user has been shown; an answer may be older than a confirmed write only if
   its query was cancelled. `CarriedOutOnce` follows a call that the server has carried
   out (`done`) and the one with which a visit of the invitation page accepts (`mine`).
   The `Keep` lemmas say which parts depend on which variables.
2. `TokenOnce`, `WritesStayShown` and `OnceCarriedOut` follow from these parts.
3. `CredentialImplemented`: the server of this module, one device whose sessions are
   named after the token of the sign in, implements `Credential` (`ServerChanges`: a step
   signs in, rotates, revokes or leaves the tokens alone). This is about the modelled server
   and its tokens. `Sessions` implements the same specification, but that alone does not
   make either of the two a refinement of the other.

`LedgerProofs` holds for all constants that satisfy `LedgerAssumption`: finitely many
members, numbered, each with a pocket of their own; finitely many contributions, each of a
positive amount; rules whose percentages add up to the whole. The theorems about
distributions also need `MembersFew`, at most two million members: a share is a percentage
of four decimals, and with more of them every share can round to 0 %, so that there is
nobody to split among.

1. `AmountTheorems` says what `SumFunction` computes. It takes the elements of a finite set in
   an order nobody knows, so that even the sum along a longer sequence must be found by
   induction; the induction theorems of the library cannot be used, and `Induction` is
   derived from the well-foundedness of `<`: a set of numbers that has 0 and with each number
   the next one has them all. `SumsAgree` makes the sum independent of the set it is part
   of, `SumWithout` takes out any element, `SumAppend` and `SumConcat` add along sequences,
   `SumOver` is the step from one element to any finite set of them (`FiniteInduction`),
   and `SumRenamed` counts the same numbers under other names.
2. `LInvAlways`: `LInv`. A balance is the sum of committed rows only if a commit publishes
   what its rows say, and `PendingBalance` says it of every moment: a request has locked the
   vaults of all rows it has inserted, and the pending balance of a vault is the committed
   one plus the inserted rows of whoever has locked it. Types are part of the argument: that
   what rounding, splitting and ordering make are rows (`RuleEntriesType`, `AllEntriesType`,
   `MemberSharesType`) rests on `Ranked`, the existence of the n-th of a set of numbers.
3. `BalanceIsSum` follows from the steps of `LInv`: only `Commit` changes rows and balances.
4. `DInvAlways`: `DInv`. That a distribution is whole when it is committed depends on every
   statement before. `Records` says of a request that records a contribution that what it
   has inserted and what it still has to insert add up to the contribution once for each
   rule it found; that nobody else knows of the contribution; and that its contributor has
   a share, in rows it has locked, so that there is somebody to split among. `Reverses` says
   that a reversal has an offset for each row not yet offset, and holds the contribution
   once all are inserted: rows of a recorded contribution can only be added by its own
   reversal, and a second one sees `REVERSED` when it gets the row. `OthersFit` shows once
   that no other request's step takes any of it away. That the parts of an amount add up to
   it, whatever rounding does, is proved of `Parts` (the last part is the rest) and carried
   along the rules and the members a share is split among. `RulesFit` makes a replacement
   leave a rule for those who read next.
5. `DistributionsWhole` is what `ContributionsFit` says of the committed rows. `NothingLost`
   is inductive with `DInv`: the rows that come with a contribution do not add up to 0, so
   there is one, and committed rows stay.
6. `DebitsCovered`: `DebitsFit` is inductive with `LInv`. A vault stays locked from the
   debit to the commit, and of what a request writes without a condition nothing is a debit
   while its rows are not negative, so what was covered when it was written still is when it
   is published. Negative rows, which rounding can make (see Findings), are excluded
   (`Guarded`): reversing one adds to the balance unconditionally
   (`project-entries.service.ts:156`), and with a negative amount that takes away.
7. `JournalImplemented`: the committed rows, balances and contributions are the state of
   `Journal`. Every step but a commit stutters, and a commit is one whole operation: `DInv`
   gives what a contribution and its reversal have inserted by then, `RowFits` that a row
   with `reverses` is the mirror image of the row it names, and `CommitAdds` the balances.
   `Journal` says nothing of how often a row is reversed, which the code does not bound
   (`reversed_twice`), nor of shares, which a concurrent contribution can leave behind.

`SplitsProofs` holds for all constants that satisfy `SplitsAssumption`; there is no bound
on members, contributions or amounts.

1. `SharesStayCurrent`: the shares are written only when a contribution changes, and those
   of active members are current all the same, since joining and leaving changes no
   contribution.
2. `PartsAsShares`: `PercentageNear` bounds what rounding a percentage to four decimals
   costs, `ShareNear` what rounding a part to a cent does, and `PartNear` puts the two
   together for one member: half a cent, and more only where four decimals are too coarse
   (`Coarse`). The last part is the rest, so that it takes the proportion of the members who
   have left (`Departed`), and its error is at most the sum of the others' and of what those
   members lose whose share rounds to 0 %. That there is somebody to split among is known
   as long as the active members have contributed so much of the total that not all of
   their shares can be rounded to 0 %.
3. `FewHaveNoDebt`: two parts rounded up leave room for a third as long as less than
   10 000.00 has been contributed (`TwoLeaveRoom`). The bound is needed: after
   contributions of 10^6, 10^6 and 2 cents, the third of three members who split one cent
   gets -1.

Only model-checked:

* Liveness (`projects_live`, `web_live`): fairness and ENABLED are outside the prover's reach.
* The three statements under Findings, which are false.

## Findings

* `paid_twice`: `closeVote` and `onResolved` update by id, not by status, so two lazy
  resolutions of one vote pay the budget twice. `PayoutsOwedToApprovals` is what remains
  true: each payout has its own committed resolution.
* `reversed_twice`: the check for an existing reversal is made before the transaction, and
  the unique key the document relies on does not exist.
* `orphaned_group`: `leave` counts the active members before it updates, so that the last
  two can both leave an open group (`src/docs/specs/api/0002-group-membership/index.md:97`).

Disagreements that no run states. Paths of documents are under `src/docs/specs`.

* Two concurrent `reopenVote` calls open two votes of one project
  (`projects.service.ts:209`; `api/0004-projects/index.md:74`). The model has it.
* `withdraw` decrements without the condition that `writeVaultEntry` has, and two of them
  overdraw a vault (`transactions.service.ts:51`; `api/0003-vaults-contributions-flows/index.md:33`). The
  model has it.
* Concurrent contributions do not see each other; the shares of the last to commit stay
  until the next change (`shares.service.ts:24`; `api/0003-vaults-contributions-flows/index.md:31`). The
  model has it.
* 0.02 split among four equal members credits the last with -0.01
  (`flow-rules.service.ts:328`; `api/0003-vaults-contributions-flows/index.md:66`). The model has it:
  `FewGetNoDebt` is about up to three members to split among, where everyone has contributed
  less than 10 000.00 together; with more, three members are enough (see Proofs).
* Shares are percentages of the contributions of everyone, members who have left included
  (`shares.service.ts:24`), while only active members are given a part
  (`flow-rules.service.ts:308`): what the departed had contributed is not spread over the
  others but goes to the last active member in the order of ids. After contributions of 50
  by a member who has left and 25 each by two who stay, 100 is split into 25 and 75. It
  agrees with AC-7 (`api/0003-vaults-contributions-flows/index.md:31`) for every part but the
  last, and AC-10 (`:34`) does not say who gets it. The model has it: `PartsFollowShares` and
  its `Departed`.
* Replacing a flow rule drops its `sourceRefId`, so that the entries of its project are
  refused from then on, and two concurrent replacements make two active successors
  (`flow-rules.service.ts:97` and `:113`; `api/0004-projects/index.md:78`). The model
  has both.
* The document of projects (AC-8) lets closing liquidate the project's vaults while the
  code's `close` moves no money, as its comment says; closing is modelled as coded.
* The approval ratio is a floating point quotient, so that 23 of 40 misses a threshold of
  57.5 and 29 of 50 one of 58 (`votes.service.ts:161`). The model is exact.
* A resent device code has a new id, but nothing tells the login page, which keeps the old
  one: the code mailed last is refused (`device.service.ts:237`, `login.tsx:286`). The
  model has it.
* The invitation page says that an invitation is no longer valid for every failure but
  that of another address, so also when its own acceptance was carried out and the answer was
  lost, when the server failed, or, with a 409, when the page was reloaded or visited again
  during the acceptance (`$token.tsx:52` and `:70`). AC-5
  (`web/0003-group-membership-ui/index.md:25`) asks for an error that is distinct from a
  generic failure. The model has the calls, not the messages: `CarriedOutOnce` is
  about one visit.
* An invitation into a group that was closed meanwhile is accepted: `accept` does not ask for
  the status of the group (`invites.service.ts:172`;
  `api/0002-group-membership/index.md:31` and `:102`). The model has it (`Accept` of
  `Membership`).
* After a full-page sign in, `oauth-callback.tsx:65` invalidates the identity and
  navigates; since nothing observes it, a cached null stays and the guard goes to the
  login page, while the comment at `:39` says the page goes to the app. The model has it.
* No `/auth` call is refreshed (`client.ts:86`). On a page load with an expired access
  token and no identity on disk, `/auth/me` answers 401 and a live session is shown the
  login page; `web/0001-frontend-architecture/index.md:29` says such calls are renewed.
  The model has it.

## Not modelled, and the plan

Not modelled, with the reason:

* Vote configuration (`votes/vote-config.service.ts`): a read and a write of one JSON
  column, on which open votes do not depend; two updates at once lose one of them, which changes the
  quorum and threshold of later votes.
* `update` of a group, `create` of a vault, the reads of lists: one statement each, on
  which nothing else depends.
* Mail, notification delivery, configuration, password hashing, the layout of pages,
  components taken over from elsewhere, seeds: no state of their own.
* In the web client, the persisted copies of lists, the first list a route waits for, the
  preview of an invitation, forms that only send mail, and a second tab (`Sessions` has
  the browser that sends two refreshes at once).
* In the API, throttling and the answers of filters and interceptors.

What is left, in this order:

1. Ledger: liveness of contribution and reversal, which lock shares and vaults in
   opposite orders.
2. A second tab in `WebClient`, whose refresh races the first one's.
