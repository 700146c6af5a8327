------------------------------ MODULE Membership ------------------------------
(***************************************************************************)
(* One group: its members, invites and removal votes (groups.service.ts,   *)
(* invites.service.ts, removal-votes.service.ts, the resolver of removal   *)
(* votes and the part of votes.service.ts they share with project votes).  *)
(*                                                                         *)
(* A request takes one database statement at a time.  The two transactions *)
(* (accepting an invite, closing a vote) are one step each: they lock one  *)
(* row at a time and otherwise insert, so that what others see of them     *)
(* happens at their commit.  Audit entries are left out.  A GroupMember    *)
(* row is named after the invite that created it, or Founder.              *)
(***************************************************************************)
EXTENDS Integers, FiniteSets, VoteRules

CONSTANTS
    Requests,       \* concurrent HTTP requests
    Invites,        \* GroupInvite ids
    Founder,        \* the GroupMember row of the group's creator
    Users,          \* the users, each with an email address
    Creator,        \* the user who creates the group
    Invited,        \* the users whose addresses are invited
    Votes,          \* ids of MEMBER_REMOVAL votes
    Quorums,        \* the minQuorum a proposer may ask for
    Thresholds,     \* the approvalThreshold a proposer may ask for
    Answers,        \* the choices members make
    Nothing

Members == Invites \cup {Founder}

ASSUME MembershipAssumption ==
    /\ IsFiniteSet(Invites) /\ Founder \notin Invites
    /\ Creator \in Users /\ Invited \subseteq Users
    /\ Nothing \notin Members \cup Votes \cup Users \cup (Users \X BOOLEAN)
    /\ Quorums \subseteq Nat \ {0} /\ Thresholds \subseteq 0..100 /\ Answers \subseteq Choices

VARIABLES
    group,      \* Group.status, NONE before it is created
    member,     \* GroupMember.status
    owner,      \* the user of a member: the one the invite was addressed to
    pockets,    \* the members with a WITHDRAWABLE vault
    invite,     \* GroupInvite.status; a PENDING row is UNSENT until its token has
                \* reached the user, and OVERDUE past its expiresAt; VOID stands for
                \* REVOKED, EXPIRED and a deleted row, which all admit nobody
    vote,       \* the removal votes; an OPEN one is DUE past its scheduledCloseAt
    response,   \* VoteResponse: what a member answered
    pc, job     \* where each request is, and what it has in memory

rows == <<group, member, owner, pockets, invite, vote, response>>
vars == <<rows, pc, job>>

NoJob == [me |-> Nothing, on |-> Nothing, quorum |-> 0, outcome |-> "OPEN"]
InviteStatus == {"NONE", "UNSENT", "PENDING", "OVERDUE", "ACCEPTED", "VOID"}
NoVote == [target |-> Nothing, status |-> "NONE", quorum |-> 0, threshold |-> 0]

Labels == {"idle", "leaving", "leave", "closing", "close", "open", "known", "pending", "create",
           "mail", "undo", "read", "revoke", "expire", "accept", "target", "others",
           "votes", "propose", "tally", "decide", "voter", "answered", "respond"}
Jobs == [me : Members \cup {Nothing}, on : Members \cup Users \cup Votes \cup {Nothing},
         quorum : Nat, outcome : Decisions \cup {"OPEN"}]

TypeOK ==
    /\ group \in {"NONE", "ACTIVE", "CLOSED"}
    /\ member \in [Members -> {"NONE", "ACTIVE", "LEFT"}]
    /\ owner \in [Members -> Users \cup {Nothing}]
    /\ pockets \subseteq Members
    /\ invite \in [Invites -> InviteStatus]
    /\ vote \in [Votes -> [target : Members \cup {Nothing},
                           status : Decisions \cup {"NONE", "OPEN", "DUE"},
                           quorum : Quorums \cup {0}, threshold : Thresholds \cup {0}]]
    /\ response \in [Votes -> [Members -> Choices \cup {"NONE"}]]
    /\ pc \in [Requests -> Labels] /\ job \in [Requests -> Jobs]

Init ==
    /\ group = "NONE"
    /\ member = [m \in Members |-> "NONE"]
    /\ owner = [m \in Members |-> IF m = Founder THEN Creator ELSE Nothing]
    /\ pockets = {}
    /\ invite = [i \in Invites |-> "NONE"]
    /\ vote = [v \in Votes |-> NoVote]
    /\ response = [v \in Votes |-> [m \in Members |-> "NONE"]]
    /\ pc = [r \in Requests |-> "idle"]
    /\ job = [r \in Requests |-> NoJob]

-----------------------------------------------------------------------------
Pending(i) == invite[i] \in {"UNSENT", "PENDING", "OVERDUE"}
IsOpen(v) == vote[v].status \in {"OPEN", "DUE"}
Active == {m \in Members : member[m] = "ACTIVE"}

\* Request r continues at label `to`, or is refused and ends.
Goto(r, to) ==
    /\ pc' = [pc EXCEPT ![r] = to]
    /\ job' = IF to = "idle" THEN [job EXCEPT ![r] = NoJob] ELSE job

\* Request r, at label `at`, reads something, and goes on if it is as it must be.
Check(r, at, condition, to) ==
    /\ pc[r] = at
    /\ Goto(r, IF condition THEN to ELSE "idle")
    /\ UNCHANGED rows

\* Request r starts with a first statement that lets it go on at label `to` with `what`.
Start(r, to, what) ==
    /\ pc[r] = "idle"
    /\ pc' = [pc EXCEPT ![r] = to]
    /\ job' = [job EXCEPT ![r] = what]
    /\ UNCHANGED rows

By(m) == [NoJob EXCEPT !.me = m]
On(x) == [NoJob EXCEPT !.on = x]

\* Any request may end early: an error, a timeout, a crash.
Fail(r) ==
    /\ pc[r] # "idle"
    /\ Goto(r, "idle")
    /\ UNCHANGED rows

-----------------------------------------------------------------------------
(* groups.service.ts *)

\* create: the group, its first member and that member's vault, in one transaction.
CreateGroup ==
    /\ group = "NONE"
    /\ group' = "ACTIVE"
    /\ member' = [member EXCEPT ![Founder] = "ACTIVE"]
    /\ pockets' = {Founder}
    /\ UNCHANGED <<owner, invite, vote, response, pc, job>>

\* GroupMembershipGuard finds member m ACTIVE and hands the row it read to the route.
Guarded(r, m, to, what) == m \in Active /\ Start(r, to, what)

\* leave and close count the active members.
CountToLeave(r) == Check(r, "leaving", Cardinality(Active) > 1, "leave")
CountToClose(r) == Check(r, "closing", Cardinality(Active) = 1, "close")

\* leave updates the row by id.
Leave(r) ==
    /\ pc[r] = "leave"
    /\ member' = [member EXCEPT ![job[r].me] = "LEFT"]
    /\ Goto(r, "idle")
    /\ UNCHANGED <<group, owner, pockets, invite, vote, response>>

\* close updates the group by id.
Close(r) ==
    /\ pc[r] = "close"
    /\ group' = "CLOSED"
    /\ Goto(r, "idle")
    /\ UNCHANGED <<member, owner, pockets, invite, vote, response>>

-----------------------------------------------------------------------------
(* invites.service.ts: create, revoke *)

AssertNotClosed(r) ==
    Check(r, "open", group # "CLOSED", "known")

\* No active member has the address, and no pending invite.
CheckNotMember(r) ==
    Check(r, "known", \A m \in Active : owner[m] # job[r].on, "pending")

CheckNotInvited(r) ==
    Check(r, "pending", \A i \in Invites : Pending(i) => owner[i] # job[r].on, "create")

\* A new row for that address (bounded by Invites).
CreateInvite(r) ==
    /\ pc[r] = "create"
    /\ \E i \in Invites :
        /\ invite[i] = "NONE"
        /\ owner' = [owner EXCEPT ![i] = job[r].on]
        /\ invite' = [invite EXCEPT ![i] = "UNSENT"]
        /\ job' = [job EXCEPT ![r].on = i]
    /\ pc' = [pc EXCEPT ![r] = "mail"]
    /\ UNCHANGED <<group, member, pockets, vote, response>>

\* The mail is delivered or not; an error may be reported either way.
SendInvite(r) ==
    /\ pc[r] = "mail"
    /\ \E delivered, error \in BOOLEAN :
        /\ delivered \/ error
        /\ invite' = IF delivered /\ invite[job[r].on] = "UNSENT"
                     THEN [invite EXCEPT ![job[r].on] = "PENDING"] ELSE invite
        /\ Goto(r, IF error THEN "undo" ELSE "idle")
    /\ UNCHANGED <<group, member, owner, pockets, vote, response>>

\* Whatever its status is by now, the invite is deleted, revoked or expired by id.
Void(r, at) ==
    /\ pc[r] = at
    /\ invite' = [invite EXCEPT ![job[r].on] = "VOID"]
    /\ Goto(r, "idle")
    /\ UNCHANGED <<group, member, owner, pockets, vote, response>>

\* create deletes the invite after an error of the mail.
UndoInvite(r) == Void(r, "undo")

ReadInvite(r) == Check(r, "read", Pending(job[r].on), "revoke")

Revoke(r) == Void(r, "revoke")

-----------------------------------------------------------------------------
(* invites.service.ts: preview, accept, loadInvite *)

\* loadInvite reads the invite of a token, which came by mail; preview and accept go
\* on with a pending one only, and mark it if it is past its expiry.
LoadInvite(r, i) ==
    /\ invite[i] \in {"PENDING", "OVERDUE"}
    /\ Start(r, IF invite[i] = "OVERDUE" THEN "expire" ELSE "accept", On(i))

Expire(r) == Void(r, "expire")

\* Variant: no unique index.
UniqueNever(i) == TRUE

\* The partial unique index: no second ACTIVE row of one user.
Unique(i) == \A m \in Active : owner[m] # owner[i]

\* Variant: the status of the invite is not part of the update's condition.
ConsumableAlways(i) == TRUE

\* The conditional update finds the invite pending.
Consumable(i) == Pending(i)

\* Variant: no vault is created.
NewVaultsNone(i) == {}

\* createWithdrawableVault.
NewVaults(i) == {i}

\* The transaction of accept: consume the invite, create the member and the vault, or
\* nothing of it.  That the group is open is not asked.
Accept(r) ==
    LET i == job[r].on
    IN  /\ pc[r] = "accept"
        /\ IF Consumable(i) /\ Unique(i)
           THEN /\ invite' = [invite EXCEPT ![i] = "ACCEPTED"]
                /\ member' = [member EXCEPT ![i] = "ACTIVE"]
                /\ pockets' = pockets \cup NewVaults(i)
           ELSE UNCHANGED <<invite, member, pockets>>
        /\ Goto(r, "idle")
        /\ UNCHANGED <<group, owner, vote, response>>

-----------------------------------------------------------------------------
(* removal-votes.service.ts *)

Target(r) == job[r].on

\* Variant: any quorum.
QuorumFloorNone(others) == 1

\* A bare majority of the other members.
QuorumFloor(others) == others \div 2 + 1

CheckTarget(r) == Check(r, "target", Target(r) \in Active, "others")

\* There are at least two others; they set the floor of minQuorum.
CountOthers(r) ==
    LET others == Cardinality(Active) - 1
    IN  /\ pc[r] = "others"
        /\ IF others < 2 THEN Goto(r, "idle")
           ELSE /\ pc' = [pc EXCEPT ![r] = "votes"]
                /\ job' = [job EXCEPT ![r].quorum = QuorumFloor(others)]
        /\ UNCHANGED rows

OpenVotesOn(m) == {v \in Votes : vote[v].target = m /\ IsOpen(v)}

CheckNoOpenVote(r) == Check(r, "votes", OpenVotesOn(Target(r)) = {}, "propose")

\* The quorum and the threshold that were asked for reach their floors.
Propose(r) ==
    /\ pc[r] = "propose"
    /\ \E v \in Votes, q \in Quorums, t \in Thresholds :
        /\ vote[v].status = "NONE"
        /\ q >= job[r].quorum /\ t >= 50
        /\ vote' = [vote EXCEPT ![v] = [target |-> Target(r), status |-> "OPEN",
                                        quorum |-> q, threshold |-> t]]
    /\ Goto(r, "idle")
    /\ UNCHANGED <<group, member, owner, pockets, invite, response>>

-----------------------------------------------------------------------------
(* votes.service.ts on a removal vote: respond, get, resolveVote, closeVote *)

\* resolveVote, before anyone looks at who asks: an open vote that is due is closed
\* first, by get, by each vote of listOpen and by respond, which is then refused.
ResolveVote(r, v) ==
    /\ vote[v].status = "DUE"
    /\ Start(r, "tally", On(v))

\* respond finds the vote open and not due.
StartRespond(r, m, v) ==
    /\ vote[v].status = "OPEN"
    /\ Start(r, "voter", [On(v) EXCEPT !.me = m])

\* The responses of v: member -> choice.
Responses(v) == response[v]

\* closeVote counts the responses.
TallyVote(r) ==
    LET v == job[r].on
    IN  /\ pc[r] = "tally"
        /\ job' = [job EXCEPT ![r].outcome = Decision(Responses(v), vote[v].quorum, vote[v].threshold)]
        /\ pc' = [pc EXCEPT ![r] = "decide"]
        /\ UNCHANGED rows

\* closeVote's transaction updates the vote by id; onResolved updates the target by id.
CloseVote(r) ==
    LET v == job[r].on
    IN  /\ pc[r] = "decide"
        /\ vote' = [vote EXCEPT ![v].status = job[r].outcome]
        /\ member' = IF job[r].outcome = "APPROVED"
                     THEN [member EXCEPT ![vote[v].target] = "LEFT"] ELSE member
        /\ Goto(r, "idle")
        /\ UNCHANGED <<group, owner, pockets, invite, response>>

\* respond: an active member other than the target.
FindVoter(r) ==
    Check(r, "voter", job[r].me \in Active /\ job[r].me # vote[job[r].on].target, "answered")

CheckNotAnswered(r) == Check(r, "answered", response[job[r].on][job[r].me] = "NONE", "respond")

\* The unique key (voteId, memberId) refuses a second response.
Respond(r) ==
    /\ pc[r] = "respond"
    /\ IF response[job[r].on][job[r].me] = "NONE"
       THEN \E c \in Answers : response' = [response EXCEPT ![job[r].on][job[r].me] = c]
       ELSE UNCHANGED response
    /\ Goto(r, "idle")
    /\ UNCHANGED <<group, member, owner, pockets, invite, vote>>

-----------------------------------------------------------------------------
\* Time passes an invite's expiresAt, a vote's scheduledCloseAt.
Tick ==
    /\ \/ /\ \E i \in Invites : invite[i] = "PENDING" /\ invite' = [invite EXCEPT ![i] = "OVERDUE"]
          /\ UNCHANGED vote
       \/ /\ \E v \in Votes : vote[v].status = "OPEN" /\ vote' = [vote EXCEPT ![v].status = "DUE"]
          /\ UNCHANGED invite
    /\ UNCHANGED <<group, member, owner, pockets, response, pc, job>>

Begin(r) ==
    \/ \E m \in Members :
        \/ Guarded(r, m, "leaving", By(m))
        \/ Guarded(r, m, "closing", NoJob)
        \/ \E u \in Invited : Guarded(r, m, "open", On(u))
        \/ \E i \in Invites : invite[i] # "NONE" /\ Guarded(r, m, "read", On(i))
        \/ \E t \in Members \ {m} : Guarded(r, m, "target", On(t))
    \/ \E i \in Invites : LoadInvite(r, i)
    \/ \E v \in Votes : ResolveVote(r, v)
    \/ \E m \in Members, v \in Votes : StartRespond(r, m, v)

Continue(r) ==
    \/ CountToLeave(r) \/ CountToClose(r) \/ Leave(r) \/ Close(r)
    \/ AssertNotClosed(r) \/ CheckNotMember(r) \/ CheckNotInvited(r) \/ CreateInvite(r)
    \/ SendInvite(r) \/ UndoInvite(r) \/ ReadInvite(r) \/ Revoke(r)
    \/ Expire(r) \/ Accept(r)
    \/ CheckTarget(r) \/ CountOthers(r) \/ CheckNoOpenVote(r) \/ Propose(r)
    \/ TallyVote(r) \/ CloseVote(r)
    \/ FindVoter(r) \/ CheckNotAnswered(r) \/ Respond(r)

Next ==
    \/ CreateGroup
    \/ \E r \in Requests : Begin(r) \/ Continue(r) \/ Fail(r)
    \/ Tick

Spec == Init /\ [][Next]_vars

-----------------------------------------------------------------------------
(* Properties *)

\* Two others than the target of v answered, and one of them was for it.
Carried(v) ==
    LET answered == {n \in Members \ {vote[v].target} : response[v][n] # "NONE"}
    IN  /\ Cardinality(answered) >= 2
        /\ \E n \in answered : response[v][n] = "FOR"

\* Nothing happens before the group exists.
Founded ==
    group = "NONE" =>
        /\ \A m \in Members : member[m] = "NONE"
        /\ \A i \in Invites : invite[i] = "NONE"
        /\ \A v \in Votes : vote[v].status = "NONE"
        /\ \A r \in Requests : pc[r] = "idle"

\* A row has its withdrawable vault, its user, and came by an invite that admits nobody else.
MembersFit ==
    /\ pockets = {m \in Members : member[m] # "NONE"}
    /\ owner[Founder] = Creator
    /\ \A i \in Invites : invite[i] # "NONE" => owner[i] # Nothing
    /\ \A i \in Invites : member[i] # "NONE" => invite[i] # "NONE" /\ ~Pending(i)
    /\ \A m, n \in Active : owner[m] = owner[n] => m = n

\* A vote is about somebody who was a member, asks for two answers or more and a majority,
\* and never has an answer of its target.
VotesFit ==
    \A v \in Votes :
        IF vote[v].status = "NONE" THEN \A m \in Members : response[v][m] = "NONE"
        ELSE /\ vote[v].target \in pockets
             /\ vote[v].quorum >= 2 /\ vote[v].threshold >= 50
             /\ response[v][vote[v].target] = "NONE"

\* What a request at label l has in memory, j, is of use there.
Fits(l, j) ==
    /\ l \in {"leaving", "leave"} => j.me \in pockets
    /\ l \in {"open", "known", "pending", "create"} => j.on \in Users
    /\ l \in {"mail", "undo", "read", "revoke", "expire", "accept"} =>
          j.on \in Invites /\ invite[j.on] # "NONE"
    /\ l = "target" => j.on \in Members
    /\ l \in {"others", "votes", "propose"} => j.on \in pockets
    /\ l \in {"votes", "propose"} => j.quorum >= 2
    /\ l \in {"tally", "decide", "voter", "answered", "respond"} =>
          j.on \in Votes /\ vote[j.on].status # "NONE"
    /\ l \in {"voter", "answered", "respond"} => j.me \in Members
    /\ l \in {"answered", "respond"} => j.me # vote[j.on].target
    /\ l = "decide" /\ j.outcome = "APPROVED" => Carried(j.on)

JobsFit == \A r \in Requests : Fits(pc[r], job[r])

\* The inductive invariant: a member came in by an invite that is used up and has a
\* withdrawable vault, no user is in twice, and a request that is about to remove somebody
\* has an approval that two others have carried.
MInv == TypeOK /\ Founded /\ MembersFit /\ VotesFit /\ JobsFit

\* The roster an outside observer may rely on: an invite admits its addressee at most
\* once, a user is never an active member twice, nobody who left comes back in the
\* same row (0002-group-membership, AC-5 and AC-6).
Seats == [m \in Members |-> IF member[m] = "NONE" THEN Nothing
                            ELSE <<owner[m], member[m] = "ACTIVE">>]
Abstract == INSTANCE Roster WITH roster <- Seats
ImplementsRoster == Abstract!Spec

\* A token admits nobody once its invite was revoked, has expired or was deleted, even
\* if accept had loaded the invite before (AC-5).
OnlyPendingAdmits ==
    [][\A i \in Invites : member[i] = "NONE" /\ member'[i] # "NONE" => Pending(i)]_vars

\* Who does not leave is only removed when two others answered the vote and one of
\* them was for it (AC-9, AC-10): no single member removes another, and the target's
\* own answer never counts.
RemovedByOthers ==
    [][\A m \in Active : member'[m] = "LEFT" =>
            \/ \E r \in Requests : pc[r] = "leave" /\ job[r].me = m
            \/ \E v \in Votes : vote[v].target = m /\ Carried(v)]_vars

\* A group's active members never reach zero except through close (key invariants).
GroupKeepsAMember == group = "ACTIVE" => Active # {}
==============================================================================
