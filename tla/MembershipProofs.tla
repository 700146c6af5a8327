--------------------------- MODULE MembershipProofs ---------------------------
(* Theorems about Membership, for every value of its constants. *)
EXTENDS Membership, FiniteSetTheorems, TLAPS

USE DEF Members

\* A vote is decided one of three ways, whatever was answered.
LEMMA DecisionRange ==
    ASSUME NEW answers, NEW quorum, NEW threshold
    PROVE  Decision(answers, quorum, threshold) \in Decisions
BY DEF Decision, Decisions

\* Quorums and thresholds are numbers.
LEMMA NumbersAsked ==
    /\ \A q \in Quorums \cup {0} : q \in Nat
    /\ \A t \in Thresholds \cup {0} : t \in Nat
<1>1. \A q \in Quorums \cup {0} : q \in Nat
  BY MembershipAssumption
<1>2. \A t \in Thresholds \cup {0} : t \in Nat
  BY MembershipAssumption
<1> QED
  BY <1>1, <1>2

\* The members are finitely many, and so is every set of those who answered.
LEMMA MembersFinite == IsFiniteSet(Members)
BY MembershipAssumption, FS_Singleton, FS_Union

\* Who answered a vote, by what they answered: the three cardinalities that closeVote
\* adds up are at most that of the whole.
LEMMA AnswersAdd ==
    ASSUME NEW answers \in [Members -> Choices \cup {"NONE"}], NEW S \in SUBSET Members,
           \A m \in Members : answers[m] # "NONE" => m \in S
    PROVE  LET answered == {m \in S : answers[m] # "NONE"}
           IN  /\ \A c \in Choices : Cardinality(Answered(answers, c)) \in Nat
               /\ Cardinality(Answered(answers, "FOR")) + Cardinality(Answered(answers, "AGAINST"))
                    + Cardinality(Answered(answers, "ABSTAIN")) = Cardinality(answered)
<1> DEFINE f == Answered(answers, "FOR")
           a == Answered(answers, "AGAINST")
           b == Answered(answers, "ABSTAIN")
           answered == {m \in S : answers[m] # "NONE"}
<1>1. \A c \in Choices : Answered(answers, c) \subseteq Members
  BY DEF Answered
<1>2. \A c \in Choices : IsFiniteSet(Answered(answers, c))
  BY <1>1, MembersFinite, FS_Subset
<1>3. IsFiniteSet(f) /\ IsFiniteSet(a) /\ IsFiniteSet(b)
  BY <1>2 DEF Choices
<1>4. f \cap a = {} /\ (f \cup a) \cap b = {} /\ (f \cup a) \cup b = answered
  BY DEF Answered, Choices
<1>5. Cardinality(f \cup a) = Cardinality(f) + Cardinality(a) /\ IsFiniteSet(f \cup a)
  <2>1. /\ IsFiniteSet(f \cup a)
        /\ Cardinality(f \cup a) = Cardinality(f) + Cardinality(a) - Cardinality(f \cap a)
    BY <1>3, FS_Union
  <2>2. Cardinality(f \cap a) = 0
    BY <1>4, FS_EmptySet
  <2>3. Cardinality(f) \in Nat /\ Cardinality(a) \in Nat
    BY <1>3, FS_CardinalityType
  <2> QED
    BY <2>1, <2>2, <2>3
<1>6. Cardinality(answered) = Cardinality(f \cup a) + Cardinality(b)
  <2>1. Cardinality((f \cup a) \cup b)
          = Cardinality(f \cup a) + Cardinality(b) - Cardinality((f \cup a) \cap b)
    BY <1>3, <1>5, FS_Union
  <2>2. Cardinality((f \cup a) \cap b) = 0
    BY <1>4, FS_EmptySet
  <2>3. Cardinality(f \cup a) \in Nat /\ Cardinality(b) \in Nat
    BY <1>3, <1>5, FS_CardinalityType
  <2>4. Cardinality(answered) = Cardinality((f \cup a) \cup b)
    BY <1>4, Zenon
  <2> HIDE DEF f, a, b, answered
  <2> QED
    BY <2>1, <2>2, <2>3, <2>4
<1>7. \A c \in Choices : Cardinality(Answered(answers, c)) \in Nat
  BY <1>2, FS_CardinalityType
<1> QED
  BY <1>5, <1>6, <1>7

\* A vote is only approved when two others than its target answered and one was in favour.
LEMMA ApprovedIsCarried ==
    ASSUME TypeOK, VotesFit, NEW v \in Votes, vote[v].status # "NONE",
           Decision(response[v], vote[v].quorum, vote[v].threshold) = "APPROVED"
    PROVE  Carried(v)
<1> DEFINE answers == response[v]
           S == Members \ {vote[v].target}
           answered == {m \in S : answers[m] # "NONE"}
           for == Cardinality(Answered(answers, "FOR"))
           against == Cardinality(Answered(answers, "AGAINST"))
           abstain == Cardinality(Answered(answers, "ABSTAIN"))
<1>1. answers \in [Members -> Choices \cup {"NONE"}]
  BY DEF TypeOK
<1>2. /\ vote[v].quorum >= 2 /\ vote[v].threshold >= 50
      /\ answers[vote[v].target] = "NONE"
      /\ vote[v].quorum \in Nat /\ vote[v].threshold \in Nat
  <2>0. vote[v].quorum \in Quorums \cup {0} /\ vote[v].threshold \in Thresholds \cup {0}
    BY DEF TypeOK
  <2>1. vote[v].quorum \in Nat /\ vote[v].threshold \in Nat
    BY <2>0, NumbersAsked
  <2>2. /\ vote[v].quorum >= 2 /\ vote[v].threshold >= 50
        /\ response[v][vote[v].target] = "NONE"
    BY Zenon DEF VotesFit
  <2> QED
    BY <2>1, <2>2
<1>3. /\ for \in Nat /\ against \in Nat /\ abstain \in Nat
      /\ for + against + abstain = Cardinality(answered)
  <2>1. \A m \in Members : answers[m] # "NONE" => m \in S
    BY <1>2
  <2> QED
    BY <1>1, <2>1, AnswersAdd DEF Choices
<1>4. for + against + abstain >= vote[v].quorum /\ for >= 1
  <2>1. /\ ~ (for + against + abstain < vote[v].quorum)
        /\ IF for + against = 0 THEN vote[v].threshold = 0
           ELSE 100 * for >= vote[v].threshold * (for + against)
    BY DEF Decision
  <2>2. for + against # 0
    BY <1>2, <2>1
  <2>3. ASSUME for = 0 PROVE FALSE
    <3>1. against >= 1 /\ 0 >= vote[v].threshold * against
      BY <1>3, <2>1, <2>2, <2>3
    <3>2. vote[v].threshold * against >= vote[v].threshold
      BY <1>2, <1>3, <3>1, SMT
    <3> QED
      BY <1>2, <1>3, <3>1, <3>2
  <2> QED
    BY <1>2, <1>3, <2>1, <2>3
<1>5. \E n \in answered : answers[n] = "FOR"
  <2>1. Answered(answers, "FOR") # {}
    BY <1>4, FS_EmptySet
  <2> QED
    BY <1>1, <1>2, <2>1 DEF Answered
<1>6. Cardinality(answered) >= 2
  BY <1>2, <1>3, <1>4
<1> QED
  BY <1>5, <1>6 DEF Carried

-----------------------------------------------------------------------------
(* The inductive invariant *)

\* What a request has in memory stays of use when nothing it relies on is taken back.
LEMMA FitsKept ==
    ASSUME pockets \subseteq pockets',
           \A i \in Invites : invite[i] # "NONE" => invite'[i] # "NONE",
           \A v \in Votes : vote[v].status # "NONE" =>
               /\ vote'[v].status # "NONE"
               /\ vote'[v].target = vote[v].target
               /\ Carried(v) => Carried(v)',
           NEW l, NEW j, Fits(l, j)
    PROVE  Fits(l, j)'
BY DEF Fits

\* A request that is in progress belongs to a group that was created.
LEMMA Busy ==
    ASSUME MInv, NEW r \in Requests, pc[r] # "idle"
    PROVE  group # "NONE" /\ job[r] \in Jobs /\ Fits(pc[r], job[r])
BY DEF MInv, Founded, TypeOK, JobsFit

\* The same for all requests, one of which goes on to label l with j.
LEMMA JobsKept ==
    ASSUME TypeOK, JobsFit, NEW r \in Requests, NEW l, NEW j,
           pc' = [pc EXCEPT ![r] = l], job' = [job EXCEPT ![r] = j], Fits(l, j)',
           pockets \subseteq pockets',
           \A i \in Invites : invite[i] # "NONE" => invite'[i] # "NONE",
           \A v \in Votes : vote[v].status # "NONE" =>
               /\ vote'[v].status # "NONE"
               /\ vote'[v].target = vote[v].target
               /\ Carried(v) => Carried(v)'
    PROVE  JobsFit'
<1> SUFFICES ASSUME NEW q \in Requests PROVE Fits(pc[q], job[q])'
  BY DEF JobsFit
<1>1. CASE q = r
  <2>1. pc'[q] = l /\ job'[q] = j
    BY <1>1 DEF TypeOK
  <2> QED
    BY <2>1 DEF Fits
<1>2. CASE q # r
  <2>1. \A m, k : Fits(m, k) => Fits(m, k)'
    BY FitsKept
  <2>2. pc'[q] = pc[q] /\ job'[q] = job[q]
    BY <1>2 DEF TypeOK
  <2>3. PICK m, k : pc[q] = m /\ job[q] = k
    OBVIOUS
  <2>4. Fits(m, k)'
    BY <2>1, <2>3 DEF JobsFit
  <2> QED
    BY <2>2, <2>3, <2>4 DEF Fits
<1> QED
  BY <1>1, <1>2

\* Nobody needs anything at "idle".
LEMMA FitsIdle == Fits("idle", NoJob)'
BY DEF Fits

\* A request goes on to a label for which it has what it needs, and changes no row.
LEMMA Continuing ==
    ASSUME MInv, NEW r \in Requests, NEW l \in Labels, NEW j \in Jobs,
           UNCHANGED rows, pc' = [pc EXCEPT ![r] = l], job' = [job EXCEPT ![r] = j],
           Fits(l, j), group # "NONE"
    PROVE  MInv'
<1> USE DEF rows
<1>1. TypeOK'
  BY DEF MInv, TypeOK
<1>2. Founded'
  BY DEF Founded
<1>3. MembersFit' /\ VotesFit'
  BY DEF MInv, MembersFit, Active, Pending, VotesFit
<1>4. JobsFit'
  <2>1. Fits(l, j)' /\ \A v \in Votes : Carried(v) => Carried(v)'
    BY DEF Fits, Carried
  <2> QED
    BY <2>1, JobsKept DEF MInv
<1> QED
  BY <1>1, <1>2, <1>3, <1>4 DEF MInv

\* A request that ends changes no row, and neither does one that goes on with what it has.
LEMMA Advancing ==
    ASSUME MInv, NEW r \in Requests, NEW l \in Labels, pc[r] # "idle", Goto(r, l),
           UNCHANGED rows, l # "idle" => Fits(l, job[r])
    PROVE  MInv'
<1>1. group # "NONE" /\ job[r] \in Jobs /\ NoJob \in Jobs /\ Fits("idle", NoJob)
  BY Busy DEF NoJob, Jobs, Fits
<1>2. CASE l = "idle"
  BY <1>1, <1>2, Continuing DEF Goto
<1>3. CASE l # "idle"
  <2>1. job' = [job EXCEPT ![r] = job[r]]
    BY <1>3 DEF Goto, MInv, TypeOK
  <2> QED
    BY <1>1, <1>3, <2>1, Continuing DEF Goto
<1> QED
  BY <1>2, <1>3

\* A request that starts changes no row, and has what its first label needs.
LEMMA BeginStep ==
    ASSUME MInv, NEW r \in Requests, Begin(r)
    PROVE  MInv'
<1> USE DEF Labels, Jobs, By, On, NoJob
<1>0. ASSUME NEW l \in Labels, NEW j \in Jobs, Start(r, l, j), Fits(l, j), group # "NONE"
      PROVE  MInv'
  BY <1>0, Continuing DEF Start
<1>1. \A m \in Active : group # "NONE" /\ m \in pockets
  BY DEF MInv, Founded, MembersFit, Active
<1>2. \A i \in Invites : invite[i] # "NONE" => group # "NONE"
  BY DEF MInv, Founded
<1>3. \A v \in Votes : vote[v].status # "NONE" => group # "NONE"
  BY DEF MInv, Founded
<1>4. ASSUME NEW m \in Members, Guarded(r, m, "leaving", By(m)) PROVE MInv'
  BY <1>0, <1>1, <1>4 DEF Guarded, Fits
<1>5. ASSUME NEW m \in Members, Guarded(r, m, "closing", NoJob) PROVE MInv'
  BY <1>0, <1>1, <1>5 DEF Guarded, Fits
<1>6. ASSUME NEW m \in Members, NEW u \in Invited, Guarded(r, m, "open", On(u)) PROVE MInv'
  <2>1. u \in Users
    BY MembershipAssumption
  <2> QED
    BY <1>0, <1>1, <1>6, <2>1 DEF Guarded, Fits
<1>7. ASSUME NEW m \in Members, NEW i \in Invites, invite[i] # "NONE",
             Guarded(r, m, "read", On(i))
      PROVE  MInv'
  BY <1>0, <1>2, <1>7 DEF Guarded, Fits
<1>8. ASSUME NEW m \in Members, NEW t \in Members \ {m}, Guarded(r, m, "target", On(t))
      PROVE  MInv'
  BY <1>0, <1>1, <1>8 DEF Guarded, Fits
<1>9. ASSUME NEW i \in Invites, LoadInvite(r, i) PROVE MInv'
  BY <1>0, <1>2, <1>9 DEF LoadInvite, Fits
<1>10. ASSUME NEW v \in Votes, ResolveVote(r, v) PROVE MInv'
  BY <1>0, <1>3, <1>10 DEF ResolveVote, Fits
<1>11. ASSUME NEW m \in Members, NEW v \in Votes, StartRespond(r, m, v) PROVE MInv'
  BY <1>0, <1>3, <1>11 DEF StartRespond, Fits
<1> QED
  BY <1>4, <1>5, <1>6, <1>7, <1>8, <1>9, <1>10, <1>11 DEF Begin

\* The steps that read and change no row.
LEMMA ReadStep ==
    ASSUME MInv, NEW r \in Requests,
           \/ CountToLeave(r) \/ CountToClose(r) \/ AssertNotClosed(r) \/ CheckNotMember(r)
           \/ CheckNotInvited(r) \/ ReadInvite(r) \/ CheckTarget(r) \/ CountOthers(r)
           \/ CheckNoOpenVote(r) \/ TallyVote(r) \/ FindVoter(r) \/ CheckNotAnswered(r)
           \/ Fail(r)
    PROVE  MInv'
<1> USE DEF Labels
<1>0. pc[r] # "idle" => group # "NONE" /\ job[r] \in Jobs /\ Fits(pc[r], job[r])
  BY Busy
<1>1. CASE Fail(r)
  BY <1>1, Advancing DEF Fail
<1>2. CASE CountToLeave(r)
  BY <1>0, <1>2, Advancing DEF CountToLeave, Check, Fits
<1>3. CASE CountToClose(r)
  BY <1>0, <1>3, Advancing DEF CountToClose, Check, Fits
<1>4. CASE AssertNotClosed(r)
  BY <1>0, <1>4, Advancing DEF AssertNotClosed, Check, Fits
<1>5. CASE CheckNotMember(r)
  BY <1>0, <1>5, Advancing DEF CheckNotMember, Check, Fits
<1>6. CASE CheckNotInvited(r)
  BY <1>0, <1>6, Advancing DEF CheckNotInvited, Check, Fits
<1>7. CASE ReadInvite(r)
  BY <1>0, <1>7, Advancing DEF ReadInvite, Check, Fits
<1>8. CASE CheckTarget(r)
  <2>1. job[r].on \in Active => job[r].on \in pockets
    BY DEF MInv, MembersFit, Active
  <2> QED
    BY <1>0, <1>8, <2>1, Advancing DEF CheckTarget, Target, Check, Fits
<1>9. CASE CheckNoOpenVote(r)
  BY <1>0, <1>9, Advancing DEF CheckNoOpenVote, Check, Fits
<1>10. CASE FindVoter(r)
  BY <1>0, <1>10, Advancing DEF FindVoter, Check, Fits
<1>11. CASE CheckNotAnswered(r)
  BY <1>0, <1>11, Advancing DEF CheckNotAnswered, Check, Fits
<1>12. CASE CountOthers(r)
  <2> DEFINE others == Cardinality(Active) - 1
             j == [job[r] EXCEPT !.quorum = QuorumFloor(others)]
  <2>1. CASE others < 2
    BY <1>12, <2>1, Advancing DEF CountOthers
  <2>2. CASE ~ (others < 2)
    <3>1. Cardinality(Active) \in Nat
      BY MembersFinite, FS_Subset, FS_CardinalityType DEF Active
    <3>2. QuorumFloor(others) \in Nat /\ QuorumFloor(others) >= 2
      BY <2>2, <3>1 DEF QuorumFloor
    <3>3. pc[r] = "others" /\ pc' = [pc EXCEPT ![r] = "votes"] /\ UNCHANGED rows
          /\ job' = [job EXCEPT ![r].quorum = QuorumFloor(others)]
      BY <1>12, <2>2 DEF CountOthers
    <3>4. group # "NONE" /\ job[r] \in Jobs /\ Fits("others", job[r])
      BY <1>0, <3>3
    <3>5. j \in Jobs /\ Fits("votes", j)
      <4>1. j \in Jobs /\ j.on = job[r].on /\ j.quorum = QuorumFloor(others)
        BY <3>2, <3>4 DEF Jobs
      <4> QED
        BY <3>2, <3>4, <4>1 DEF Fits
    <3>6. job' = [job EXCEPT ![r] = j]
      BY <3>3 DEF MInv, TypeOK
    <3> QED
      BY <3>3, <3>4, <3>5, <3>6, Continuing
  <2> QED
    BY <2>1, <2>2
<1>13. CASE TallyVote(r)
  <2> DEFINE v == job[r].on
             d == Decision(response[v], vote[v].quorum, vote[v].threshold)
             j == [job[r] EXCEPT !.outcome = d]
  <2>1. pc[r] = "tally" /\ pc' = [pc EXCEPT ![r] = "decide"] /\ UNCHANGED rows
        /\ job' = [job EXCEPT ![r].outcome = d]
    BY <1>13 DEF TallyVote, Responses
  <2>2. group # "NONE" /\ job[r] \in Jobs /\ v \in Votes /\ vote[v].status # "NONE"
    BY <1>0, <2>1 DEF Fits
  <2>3. d \in Decisions
    BY DecisionRange
  <2>4. d = "APPROVED" => Carried(v)
    BY <2>2, ApprovedIsCarried DEF MInv
  <2>5. j \in Jobs /\ j.on = v /\ j.outcome = d
    BY <2>2, <2>3 DEF Jobs
  <2>6. Fits("decide", j)
    BY <2>2, <2>4, <2>5 DEF Fits
  <2>7. job' = [job EXCEPT ![r] = j]
    BY <2>1 DEF MInv, TypeOK
  <2> QED
    BY <2>1, <2>2, <2>5, <2>6, <2>7, Continuing
<1> QED
  BY <1>1, <1>2, <1>3, <1>4, <1>5, <1>6, <1>7, <1>8, <1>9, <1>10, <1>11, <1>12, <1>13

\* A member who leaves keeps row and vault.
LEMMA LeaveStep ==
    ASSUME MInv, NEW r \in Requests, Leave(r)
    PROVE  MInv'
<1> DEFINE me == job[r].me
<1>1. pc[r] = "leave" /\ group # "NONE" /\ me \in pockets /\ me \in Members /\ member[me] # "NONE"
  BY Busy DEF Leave, Fits, MInv, MembersFit
<1>2. /\ member' = [member EXCEPT ![me] = "LEFT"]
      /\ pc' = [pc EXCEPT ![r] = "idle"] /\ job' = [job EXCEPT ![r] = NoJob]
      /\ UNCHANGED <<group, owner, pockets, invite, vote, response>>
  BY DEF Leave, Goto
<1>3. TypeOK'
  BY <1>1, <1>2 DEF MInv, TypeOK, Labels, Jobs, NoJob
<1>4. Founded'
  BY <1>1, <1>2 DEF Founded
<1>5. MembersFit'
  <2>1. \A m \in Members : (member'[m] # "NONE" <=> member[m] # "NONE")
                           /\ (member'[m] = "ACTIVE" => member[m] = "ACTIVE")
    BY <1>1, <1>2 DEF MInv, TypeOK
  <2> QED
    BY <1>2, <2>1 DEF MInv, MembersFit, Active, Pending
<1>6. VotesFit'
  BY <1>2 DEF MInv, VotesFit
<1>7. JobsFit'
  BY <1>2, JobsKept, FitsIdle DEF MInv, Carried
<1> QED
  BY <1>3, <1>4, <1>5, <1>6, <1>7 DEF MInv

\* Closing the group disturbs nothing of its members, invites and votes.
LEMMA CloseStep ==
    ASSUME MInv, NEW r \in Requests, Close(r)
    PROVE  MInv'
<1>1. /\ group' = "CLOSED"
      /\ pc' = [pc EXCEPT ![r] = "idle"] /\ job' = [job EXCEPT ![r] = NoJob]
      /\ UNCHANGED <<member, owner, pockets, invite, vote, response>>
  BY DEF Close, Goto
<1>2. TypeOK' /\ Founded'
  BY <1>1 DEF MInv, TypeOK, Founded, Labels, Jobs, NoJob
<1>3. MembersFit' /\ VotesFit'
  BY <1>1 DEF MInv, MembersFit, Active, Pending, VotesFit
<1>4. JobsFit'
  BY <1>1, JobsKept, FitsIdle DEF MInv, Carried
<1> QED
  BY <1>2, <1>3, <1>4 DEF MInv

\* The group comes with its first member and that member's vault.
LEMMA CreateGroupStep ==
    ASSUME MInv, CreateGroup
    PROVE  MInv'
<1>1. /\ \A m \in Members : member[m] = "NONE"
      /\ \A i \in Invites : invite[i] = "NONE"
      /\ \A v \in Votes : vote[v].status = "NONE"
      /\ \A r \in Requests : pc[r] = "idle"
  BY DEF CreateGroup, MInv, Founded
<1>2. /\ group' = "ACTIVE" /\ member' = [member EXCEPT ![Founder] = "ACTIVE"]
      /\ pockets' = {Founder}
      /\ UNCHANGED <<owner, invite, vote, response, pc, job>>
  BY DEF CreateGroup
<1>3. \A m \in Members : member'[m] = IF m = Founder THEN "ACTIVE" ELSE "NONE"
  BY <1>1, <1>2 DEF MInv, TypeOK
<1>4. TypeOK' /\ Founded'
  BY <1>2 DEF MInv, TypeOK, Founded
<1>5. MembersFit'
  <2>1. Founder \notin Invites
    BY MembershipAssumption
  <2> QED
    BY <1>1, <1>2, <1>3, <2>1 DEF MInv, MembersFit, Active
<1>6. VotesFit'
  BY <1>1, <1>2 DEF MInv, VotesFit
<1>7. JobsFit'
  BY <1>1, <1>2 DEF JobsFit, Fits
<1> QED
  BY <1>4, <1>5, <1>6, <1>7 DEF MInv

\* The invite's status changes within its life, and the request ends or goes on with it.
LEMMA InviteStep ==
    ASSUME MInv, NEW r \in Requests, NEW i \in Invites, NEW s \in InviteStatus, pc[r] # "idle",
           NEW l \in {"idle", "undo"}, invite[i] # "NONE", s # "NONE",
           member[i] # "NONE" => s \notin {"UNSENT", "PENDING", "OVERDUE"},
           invite' = [invite EXCEPT ![i] = s], l = "undo" => job[r].on = i, Goto(r, l),
           UNCHANGED <<group, member, owner, pockets, vote, response>>
    PROVE  MInv'
<1>0. group # "NONE" /\ job[r] \in Jobs
  BY Busy
<1>1. TypeOK' /\ Founded'
  BY <1>0 DEF MInv, TypeOK, Founded, Labels, Jobs, NoJob, Goto
<1>2. \A k \in Invites : invite'[k] = IF k = i THEN s ELSE invite[k]
  BY DEF MInv, TypeOK
<1>3. MembersFit'
  BY <1>2 DEF MInv, MembersFit, Active, Pending
<1>4. VotesFit'
  BY DEF MInv, VotesFit
<1>5. JobsFit'
  <2>1. \A v \in Votes : Carried(v) => Carried(v)'
    BY DEF Carried
  <2>2. CASE l = "idle"
    BY <1>2, <2>1, <2>2, JobsKept, FitsIdle DEF MInv, Goto
  <2>3. CASE l = "undo"
    <3>1. PICK k : k = job[r] /\ k.on = i
      BY <2>3
    <3>2. Fits("undo", k)'
      BY <1>2, <3>1 DEF Fits
    <3>3. pc' = [pc EXCEPT ![r] = "undo"] /\ job' = [job EXCEPT ![r] = k]
      BY <2>3, <3>1 DEF Goto, MInv, TypeOK
    <3> QED
      BY <1>2, <2>1, <3>2, <3>3, JobsKept DEF MInv
  <2> QED
    BY <2>2, <2>3
<1> QED
  BY <1>1, <1>3, <1>4, <1>5 DEF MInv

\* A new invite has an addressee, and nobody came in by it.
LEMMA CreateInviteStep ==
    ASSUME MInv, NEW r \in Requests, CreateInvite(r)
    PROVE  MInv'
<1>1. PICK i \in Invites :
        /\ invite[i] = "NONE"
        /\ owner' = [owner EXCEPT ![i] = job[r].on]
        /\ invite' = [invite EXCEPT ![i] = "UNSENT"]
        /\ job' = [job EXCEPT ![r].on = i]
  BY DEF CreateInvite
<1>2. /\ pc[r] = "create" /\ pc' = [pc EXCEPT ![r] = "mail"]
      /\ UNCHANGED <<group, member, pockets, vote, response>>
  BY DEF CreateInvite
<1>3. group # "NONE" /\ job[r] \in Jobs /\ job[r].on \in Users
  BY <1>2, Busy DEF Fits
<1>4. PICK k : k = [job[r] EXCEPT !.on = i]
  OBVIOUS
<1>5. k \in Jobs /\ k.on = i /\ job' = [job EXCEPT ![r] = k]
  BY <1>1, <1>3, <1>4 DEF Jobs, MInv, TypeOK
<1>6. \A h \in Invites : invite'[h] = IF h = i THEN "UNSENT" ELSE invite[h]
  BY <1>1 DEF MInv, TypeOK
<1>7. \A m \in Members : owner'[m] = IF m = i THEN job[r].on ELSE owner[m]
  BY <1>1 DEF MInv, TypeOK
<1>8. TypeOK' /\ Founded'
  <2>1. invite' \in [Invites -> InviteStatus] /\ owner' \in [Members -> Users \cup {Nothing}]
    BY <1>1, <1>3 DEF MInv, TypeOK, InviteStatus
  <2>2. pc' \in [Requests -> Labels] /\ job' \in [Requests -> Jobs]
    BY <1>2, <1>5 DEF MInv, TypeOK, Labels
  <2> QED
    BY <1>2, <1>3, <2>1, <2>2 DEF MInv, TypeOK, Founded
<1>9. MembersFit'
  <2>1. member[i] = "NONE"
    BY <1>1 DEF MInv, MembersFit
  <2>2. job[r].on # Nothing
    BY <1>3, MembershipAssumption
  <2>3. Founder # i
    BY MembershipAssumption
  <2> QED
    BY <1>2, <1>6, <1>7, <2>1, <2>2, <2>3 DEF MInv, MembersFit, Active, Pending
<1>10. VotesFit'
  BY <1>2 DEF MInv, VotesFit
<1>11. JobsFit'
  <2>1. Fits("mail", k)'
    BY <1>5, <1>6 DEF Fits
  <2>2. \A v \in Votes : Carried(v) => Carried(v)'
    BY <1>2 DEF Carried
  <2> QED
    BY <1>2, <1>5, <1>6, <2>1, <2>2, JobsKept DEF MInv
<1> QED
  BY <1>8, <1>9, <1>10, <1>11 DEF MInv

\* The mail makes an invite PENDING, or the request goes on to delete it.
LEMMA SendInviteStep ==
    ASSUME MInv, NEW r \in Requests, SendInvite(r)
    PROVE  MInv'
<1> DEFINE i == job[r].on
<1>1. pc[r] = "mail" /\ i \in Invites /\ invite[i] # "NONE" /\ invite[i] \in InviteStatus
  BY Busy DEF SendInvite, Fits, MInv, TypeOK
<1>2. PICK delivered \in BOOLEAN, error \in BOOLEAN :
        /\ invite' = IF delivered /\ invite[i] = "UNSENT"
                     THEN [invite EXCEPT ![i] = "PENDING"] ELSE invite
        /\ Goto(r, IF error THEN "undo" ELSE "idle")
  BY DEF SendInvite
<1>3. UNCHANGED <<group, member, owner, pockets, vote, response>>
  BY DEF SendInvite
<1>4. CASE delivered /\ invite[i] = "UNSENT"
  <2>1. member[i] = "NONE" /\ "PENDING" \in InviteStatus
    BY <1>1, <1>4 DEF MInv, TypeOK, MembersFit, Pending, InviteStatus
  <2>2. invite' = [invite EXCEPT ![i] = "PENDING"]
    BY <1>2, <1>4
  <2> QED
    BY <1>1, <1>2, <1>3, <2>1, <2>2, InviteStep
<1>5. CASE ~ (delivered /\ invite[i] = "UNSENT")
  <2>1. invite' = [invite EXCEPT ![i] = invite[i]]
    BY <1>2, <1>5 DEF MInv, TypeOK
  <2>2. member[i] # "NONE" => invite[i] \notin {"UNSENT", "PENDING", "OVERDUE"}
    BY <1>1 DEF MInv, MembersFit, Pending
  <2> QED
    BY <1>1, <1>2, <1>3, <2>1, <2>2, InviteStep
<1> QED
  BY <1>4, <1>5

\* An invite that is deleted, revoked or expired admits nobody.
LEMMA VoidStep ==
    ASSUME MInv, NEW r \in Requests, NEW at \in {"undo", "revoke", "expire"}, Void(r, at)
    PROVE  MInv'
<1>1. job[r].on \in Invites /\ invite[job[r].on] # "NONE" /\ "VOID" \in InviteStatus
  BY Busy DEF Void, Fits, InviteStatus
<1> QED
  BY <1>1, InviteStep DEF Void

\* The unique index: a user who is in does not come in again.
LEMMA AcceptStep ==
    ASSUME MInv, NEW r \in Requests, Accept(r)
    PROVE  MInv'
<1> DEFINE i == job[r].on
<1>1. pc[r] = "accept" /\ i \in Invites /\ group # "NONE"
  BY Busy DEF Accept, Fits
<1>2. CASE ~ (Consumable(i) /\ Unique(i))
  BY <1>1, <1>2, Advancing DEF Accept, Labels, rows
<1>3. CASE Consumable(i) /\ Unique(i)
  <2>1. /\ invite' = [invite EXCEPT ![i] = "ACCEPTED"]
        /\ member' = [member EXCEPT ![i] = "ACTIVE"]
        /\ pockets' = pockets \cup {i}
        /\ pc' = [pc EXCEPT ![r] = "idle"] /\ job' = [job EXCEPT ![r] = NoJob]
        /\ UNCHANGED <<group, owner, vote, response>>
    BY <1>3 DEF Accept, Goto, NewVaults
  <2>2. /\ \A h \in Invites : invite'[h] = IF h = i THEN "ACCEPTED" ELSE invite[h]
        /\ \A m \in Members : member'[m] = IF m = i THEN "ACTIVE" ELSE member[m]
    BY <1>1, <2>1 DEF MInv, TypeOK
  <2>3. TypeOK' /\ Founded'
    BY <1>1, <2>1 DEF MInv, TypeOK, Founded, InviteStatus, Labels, Jobs, NoJob
  <2>4. MembersFit'
    <3>1. invite[i] # "NONE"
      BY <1>3 DEF Consumable, Pending
    <3>2. \A m, n \in Active' : owner'[m] = owner'[n] => m = n
      BY <1>3, <2>1, <2>2 DEF MInv, MembersFit, Active, Unique
    <3>3. pockets' = {m \in Members : member'[m] # "NONE"}
      BY <1>1, <2>1, <2>2 DEF MInv, MembersFit
    <3> QED
      BY <1>1, <2>1, <2>2, <3>1, <3>2, <3>3 DEF MInv, MembersFit, Pending
  <2>5. VotesFit'
    BY <2>1 DEF MInv, VotesFit
  <2>6. JobsFit'
    <3>1. \A v \in Votes : vote'[v] = vote[v] /\ (Carried(v) => Carried(v)')
      BY <2>1 DEF Carried
    <3>2. /\ pockets \subseteq pockets'
          /\ \A h \in Invites : invite[h] # "NONE" => invite'[h] # "NONE"
      BY <2>1, <2>2
    <3> QED
      BY <2>1, <3>1, <3>2, JobsKept, FitsIdle DEF MInv
  <2> QED
    BY <2>3, <2>4, <2>5, <2>6 DEF MInv
<1> QED
  BY <1>2, <1>3

\* A vote is opened on a member, with a quorum of two or more.
LEMMA ProposeStep ==
    ASSUME MInv, NEW r \in Requests, Propose(r)
    PROVE  MInv'
<1> DEFINE m == job[r].on
<1>1. PICK v \in Votes, q \in Quorums, t \in Thresholds :
        /\ vote[v].status = "NONE"
        /\ q >= job[r].quorum /\ t >= 50
        /\ vote' = [vote EXCEPT ![v] = [target |-> m, status |-> "OPEN",
                                        quorum |-> q, threshold |-> t]]
  BY DEF Propose, Target
<1>2. /\ pc[r] = "propose" /\ pc' = [pc EXCEPT ![r] = "idle"] /\ job' = [job EXCEPT ![r] = NoJob]
      /\ UNCHANGED <<group, member, owner, pockets, invite, response>>
  BY DEF Propose, Goto
<1>3. group # "NONE" /\ m \in pockets /\ job[r].quorum >= 2 /\ job[r].quorum \in Nat
  BY <1>2, Busy DEF Fits, Jobs
<1>4. m \in Members /\ q \in Nat /\ q >= 2
  <2>1. q \in Nat
    BY NumbersAsked
  <2> QED
    BY <1>1, <1>3, <2>1 DEF MInv, TypeOK
<1>5. \A u \in Votes : vote'[u] = IF u = v THEN [target |-> m, status |-> "OPEN",
                                                 quorum |-> q, threshold |-> t]
                                  ELSE vote[u]
  BY <1>1 DEF MInv, TypeOK
<1>6. TypeOK' /\ Founded'
  <2>1. vote' \in [Votes -> [target : Members \cup {Nothing},
                             status : Decisions \cup {"NONE", "OPEN", "DUE"},
                             quorum : Quorums \cup {0}, threshold : Thresholds \cup {0}]]
    BY <1>1, <1>4 DEF MInv, TypeOK
  <2> QED
    BY <1>2, <1>3, <2>1 DEF MInv, TypeOK, Founded, Labels, Jobs, NoJob
<1>7. MembersFit'
  BY <1>2 DEF MInv, MembersFit, Active, Pending
<1>8. VotesFit'
  <2>1. response[v][m] = "NONE"
    BY <1>1, <1>4 DEF MInv, VotesFit
  <2> QED
    BY <1>1, <1>2, <1>3, <1>4, <1>5, <2>1 DEF MInv, VotesFit
<1>9. JobsFit'
  <2>1. \A u \in Votes : vote[u].status # "NONE" =>
            vote'[u] = vote[u] /\ (Carried(u) => Carried(u)')
    BY <1>1, <1>2, <1>5 DEF Carried
  <2> QED
    BY <1>2, <2>1, JobsKept, FitsIdle DEF MInv
<1> QED
  BY <1>6, <1>7, <1>8, <1>9 DEF MInv

\* An approved removal turns a member into one who left.
LEMMA CloseVoteStep ==
    ASSUME MInv, NEW r \in Requests, CloseVote(r)
    PROVE  MInv'
<1> DEFINE v == job[r].on
           d == job[r].outcome
           t == vote[v].target
<1>1. /\ pc[r] = "decide" /\ v \in Votes /\ vote[v].status # "NONE" /\ group # "NONE"
      /\ job[r] \in Jobs
  BY Busy DEF CloseVote, Fits
<1>2. /\ vote' = [vote EXCEPT ![v].status = d]
      /\ member' = IF d = "APPROVED" THEN [member EXCEPT ![t] = "LEFT"] ELSE member
      /\ pc' = [pc EXCEPT ![r] = "idle"] /\ job' = [job EXCEPT ![r] = NoJob]
      /\ UNCHANGED <<group, owner, pockets, invite, response>>
  BY DEF CloseVote, Goto
<1>3. t \in pockets /\ t \in Members /\ member[t] # "NONE"
  BY <1>1 DEF MInv, VotesFit, TypeOK, MembersFit
<1>4. d \in Decisions \cup {"OPEN"}
  BY <1>1 DEF Jobs
<1>5. \A u \in Votes : /\ vote'[u].target = vote[u].target
                       /\ vote'[u].quorum = vote[u].quorum
                       /\ vote'[u].threshold = vote[u].threshold
                       /\ vote'[u].status = IF u = v THEN d ELSE vote[u].status
  BY <1>1, <1>2 DEF MInv, TypeOK
<1>6. \A m \in Members : (member'[m] # "NONE" <=> member[m] # "NONE")
                         /\ (member'[m] = "ACTIVE" => member[m] = "ACTIVE")
  BY <1>2, <1>3 DEF MInv, TypeOK
<1>7. TypeOK' /\ Founded'
  <2>1. vote' \in [Votes -> [target : Members \cup {Nothing},
                             status : Decisions \cup {"NONE", "OPEN", "DUE"},
                             quorum : Quorums \cup {0}, threshold : Thresholds \cup {0}]]
    BY <1>1, <1>2, <1>4 DEF MInv, TypeOK
  <2>2. member' \in [Members -> {"NONE", "ACTIVE", "LEFT"}]
    BY <1>2 DEF MInv, TypeOK
  <2> QED
    BY <1>1, <1>2, <2>1, <2>2 DEF MInv, TypeOK, Founded, Labels, Jobs, NoJob
<1>8. MembersFit'
  BY <1>2, <1>6 DEF MInv, MembersFit, Active, Pending
<1>9. d # "NONE"
  BY <1>4 DEF Decisions
<1>10. VotesFit'
  BY <1>1, <1>2, <1>5, <1>9 DEF MInv, VotesFit
<1>11. JobsFit'
  <2>1. \A u \in Votes : Carried(u) => Carried(u)'
    BY <1>2, <1>5 DEF Carried
  <2>2. \A u \in Votes : vote[u].status # "NONE" =>
            vote'[u].status # "NONE" /\ vote'[u].target = vote[u].target
    BY <1>5, <1>9
  <2>3. pockets \subseteq pockets' /\ invite' = invite
    BY <1>2
  <2> QED
    BY <1>2, <2>1, <2>2, <2>3, JobsKept, FitsIdle DEF MInv
<1> QED
  BY <1>7, <1>8, <1>10, <1>11 DEF MInv

\* An answer is only added: what carries a vote still carries it.
LEMMA RespondStep ==
    ASSUME MInv, NEW r \in Requests, Respond(r)
    PROVE  MInv'
<1> DEFINE v == job[r].on
           me == job[r].me
<1>1. /\ pc[r] = "respond" /\ v \in Votes /\ vote[v].status # "NONE" /\ group # "NONE"
      /\ me \in Members /\ me # vote[v].target
  BY Busy DEF Respond, Fits
<1>2. CASE response[v][me] # "NONE"
  BY <1>1, <1>2, Advancing DEF Respond, Labels, rows
<1>3. CASE response[v][me] = "NONE"
  <2>1. PICK c \in Answers : response' = [response EXCEPT ![v][me] = c]
    BY <1>3 DEF Respond
  <2>2. /\ pc' = [pc EXCEPT ![r] = "idle"] /\ job' = [job EXCEPT ![r] = NoJob]
        /\ UNCHANGED <<group, member, owner, pockets, invite, vote>>
    BY DEF Respond, Goto
  <2>3. c \in Choices
    BY MembershipAssumption
  <2>4. \A u \in Votes, m \in Members :
            response'[u][m] = IF u = v /\ m = me THEN c ELSE response[u][m]
    BY <1>1, <2>1 DEF MInv, TypeOK
  <2>5. TypeOK' /\ Founded'
    <3>1. response' \in [Votes -> [Members -> Choices \cup {"NONE"}]]
      BY <1>1, <2>1, <2>3 DEF MInv, TypeOK
    <3> QED
      BY <1>1, <2>2, <3>1 DEF MInv, TypeOK, Founded, Labels, Jobs, NoJob
  <2>6. MembersFit'
    BY <2>2 DEF MInv, MembersFit, Active, Pending
  <2>7. VotesFit'
    BY <1>1, <2>2, <2>4 DEF MInv, VotesFit, TypeOK
  <2>8. JobsFit'
    <3>1. ASSUME NEW u \in Votes, Carried(u) PROVE Carried(u)'
      <4> DEFINE old == {n \in Members \ {vote[u].target} : response[u][n] # "NONE"}
                 new == {n \in Members \ {vote[u].target} : response'[u][n] # "NONE"}
      <4>1. old \subseteq new /\ \A n \in old : response'[u][n] = response[u][n]
        BY <1>3, <2>3, <2>4 DEF Choices
      <4>2. IsFiniteSet(new) /\ Cardinality(old) <= Cardinality(new)
            /\ Cardinality(old) \in Nat /\ Cardinality(new) \in Nat
        <5>1. IsFiniteSet(new) /\ IsFiniteSet(old)
          BY MembersFinite, FS_Subset
        <5> HIDE DEF old, new
        <5> QED
          BY <4>1, <5>1, FS_Subset, FS_CardinalityType
      <4>3. Cardinality(old) >= 2 /\ \E n \in old : response[u][n] = "FOR"
        BY <3>1 DEF Carried
      <4>4. Cardinality(new) >= 2 /\ \E n \in new : response'[u][n] = "FOR"
        <5> HIDE DEF old, new
        <5> QED
          BY <4>1, <4>2, <4>3
      <4> QED
        BY <2>2, <4>4 DEF Carried
    <3> QED
      BY <2>2, <3>1, JobsKept, FitsIdle DEF MInv
  <2> QED
    BY <2>5, <2>6, <2>7, <2>8 DEF MInv
<1> QED
  BY <1>2, <1>3

\* Time makes an invite OVERDUE or a vote DUE, both still open.
LEMMA TickStep ==
    ASSUME MInv, Tick
    PROVE  MInv'
<1>0. UNCHANGED <<group, member, owner, pockets, response, pc, job>>
  BY DEF Tick
<1>1. ASSUME NEW i \in Invites, invite[i] = "PENDING",
             invite' = [invite EXCEPT ![i] = "OVERDUE"], UNCHANGED vote
      PROVE  MInv'
  <2>1. \A k \in Invites : invite'[k] = IF k = i THEN "OVERDUE" ELSE invite[k]
    BY <1>1 DEF MInv, TypeOK
  <2>2. TypeOK' /\ Founded'
    BY <1>0, <1>1 DEF MInv, TypeOK, Founded, InviteStatus
  <2>3. MembersFit' /\ VotesFit'
    BY <1>0, <1>1, <2>1 DEF MInv, MembersFit, Active, Pending, VotesFit
  <2>4. JobsFit'
    BY <1>0, <1>1, <2>1 DEF MInv, JobsFit, Fits, Carried
  <2> QED
    BY <2>2, <2>3, <2>4 DEF MInv
<1>2. ASSUME NEW v \in Votes, vote[v].status = "OPEN",
             vote' = [vote EXCEPT ![v].status = "DUE"], UNCHANGED invite
      PROVE  MInv'
  <2>1. \A u \in Votes : /\ vote'[u].target = vote[u].target
                         /\ vote'[u].quorum = vote[u].quorum
                         /\ vote'[u].threshold = vote[u].threshold
                         /\ vote'[u].status = IF u = v THEN "DUE" ELSE vote[u].status
    BY <1>2 DEF MInv, TypeOK
  <2>2. TypeOK' /\ Founded'
    <3>1. vote' \in [Votes -> [target : Members \cup {Nothing},
                               status : Decisions \cup {"NONE", "OPEN", "DUE"},
                               quorum : Quorums \cup {0}, threshold : Thresholds \cup {0}]]
      BY <1>2 DEF MInv, TypeOK
    <3> QED
      BY <1>0, <1>2, <3>1 DEF MInv, TypeOK, Founded
  <2>3. MembersFit'
    BY <1>0, <1>2 DEF MInv, MembersFit, Active, Pending
  <2>4. VotesFit'
    BY <1>0, <1>2, <2>1 DEF MInv, VotesFit
  <2>5. JobsFit'
    BY <1>0, <1>2, <2>1 DEF MInv, JobsFit, Fits, Carried
  <2> QED
    BY <2>2, <2>3, <2>4, <2>5 DEF MInv
<1> QED
  BY <1>1, <1>2 DEF Tick

\* It holds before the group is created.
LEMMA InitMInv == Init => MInv
<1> SUFFICES ASSUME Init PROVE MInv
  OBVIOUS
<1>1. TypeOK
  <2>1. NoVote \in [target : Members \cup {Nothing}, status : Decisions \cup {"NONE", "OPEN", "DUE"},
                    quorum : Quorums \cup {0}, threshold : Thresholds \cup {0}]
    BY DEF NoVote
  <2>2. NoJob \in Jobs /\ "idle" \in Labels /\ "NONE" \in InviteStatus
    BY DEF NoJob, Jobs, Labels, InviteStatus
  <2>3. Creator \in Users
    BY MembershipAssumption
  <2> QED
    BY <2>1, <2>2, <2>3 DEF Init, TypeOK
<1>2. Founded
  BY DEF Init, Founded, NoVote
<1>3. MembersFit
  BY DEF Init, MembersFit, Active
<1>4. VotesFit
  BY DEF Init, VotesFit, NoVote
<1>5. JobsFit
  BY DEF Init, JobsFit, Fits
<1> QED
  BY <1>1, <1>2, <1>3, <1>4, <1>5 DEF MInv

\* Every step keeps it.
LEMMA MInvStep ==
    ASSUME MInv, [Next]_vars
    PROVE  MInv'
<1>1. ASSUME NEW r \in Requests, Continue(r) PROVE MInv'
  <2>1. CASE UndoInvite(r) \/ Revoke(r) \/ Expire(r)
    BY <2>1, VoidStep DEF UndoInvite, Revoke, Expire
  <2> QED
    BY <1>1, <2>1, ReadStep, LeaveStep, CloseStep, CreateInviteStep, SendInviteStep, AcceptStep,
       ProposeStep, CloseVoteStep, RespondStep DEF Continue
<1>2. ASSUME NEW r \in Requests, Fail(r) PROVE MInv'
  BY <1>2, ReadStep
<1>3. CASE UNCHANGED vars
  <2>1. TypeOK' /\ Founded'
    BY <1>3 DEF vars, rows, MInv, TypeOK, Founded
  <2>2. MembersFit' /\ VotesFit' /\ JobsFit'
    BY <1>3 DEF vars, rows, MInv, MembersFit, Active, Pending, VotesFit, JobsFit, Fits, Carried
  <2> QED
    BY <2>1, <2>2 DEF MInv
<1> QED
  BY <1>1, <1>2, <1>3, BeginStep, CreateGroupStep, TickStep DEF Next

\* The invariant of groups.service.ts, invites.service.ts and removal-votes.service.ts, for
\* every number of requests, users, invites and votes.
THEOREM MInvAlways == Spec => []MInv
<1>1. MInv /\ [Next]_vars => MInv'
  BY MInvStep
<1> QED
  BY <1>1, InitMInv, PTL DEF Spec

-----------------------------------------------------------------------------
(* What follows from it *)

\* Who comes in, and who goes: the only steps that change a member.
LEMMA MemberChanges ==
    ASSUME MInv, Next, NEW m \in Members, member'[m] # member[m]
    PROVE  \/ /\ CreateGroup /\ m = Founder /\ member[m] = "NONE" /\ member'[m] = "ACTIVE"
           \/ \E r \in Requests :
                 /\ Accept(r) /\ m = job[r].on /\ m \in Invites /\ Consumable(m) /\ Unique(m)
                 /\ member[m] = "NONE" /\ member'[m] = "ACTIVE"
           \/ \E r \in Requests :
                 /\ Leave(r) /\ m = job[r].me /\ pc[r] = "leave"
                 /\ member[m] = "ACTIVE" /\ member'[m] = "LEFT"
           \/ \E r \in Requests :
                 /\ CloseVote(r) /\ job[r].on \in Votes /\ m = vote[job[r].on].target
                 /\ Carried(job[r].on)
                 /\ member[m] = "ACTIVE" /\ member'[m] = "LEFT"
<1>1. ASSUME CreateGroup
      PROVE  m = Founder /\ member[m] = "NONE" /\ member'[m] = "ACTIVE"
  BY <1>1 DEF CreateGroup, MInv, Founded, TypeOK
<1>2. ASSUME NEW r \in Requests, Accept(r)
      PROVE  /\ m = job[r].on /\ m \in Invites /\ Consumable(m) /\ Unique(m)
             /\ member[m] = "NONE" /\ member'[m] = "ACTIVE"
  <2>1. job[r].on \in Invites
    BY <1>2, Busy DEF Accept, Fits
  <2>2. Consumable(job[r].on) /\ Unique(job[r].on) /\ member' = [member EXCEPT ![job[r].on] = "ACTIVE"]
    BY <1>2 DEF Accept
  <2>3. member[job[r].on] = "NONE"
    BY <2>1, <2>2 DEF MInv, MembersFit, Consumable
  <2>4. m = job[r].on
    BY <2>2 DEF MInv, TypeOK
  <2> QED
    BY <2>1, <2>2, <2>3, <2>4 DEF MInv, TypeOK
<1>3. ASSUME NEW r \in Requests, Leave(r)
      PROVE  m = job[r].me /\ pc[r] = "leave" /\ member[m] = "ACTIVE" /\ member'[m] = "LEFT"
  <2>1. pc[r] = "leave" /\ member' = [member EXCEPT ![job[r].me] = "LEFT"]
    BY <1>3 DEF Leave
  <2>2. job[r].me \in pockets
    BY <2>1, Busy DEF Fits
  <2>3. member[job[r].me] # "NONE"
    BY <2>2 DEF MInv, MembersFit
  <2> QED
    BY <2>1, <2>3 DEF MInv, TypeOK
<1>4. ASSUME NEW r \in Requests, CloseVote(r)
      PROVE  /\ job[r].on \in Votes /\ m = vote[job[r].on].target /\ Carried(job[r].on)
             /\ member[m] = "ACTIVE" /\ member'[m] = "LEFT"
  <2>1. pc[r] = "decide" /\ job[r].outcome = "APPROVED"
        /\ member' = [member EXCEPT ![vote[job[r].on].target] = "LEFT"]
    BY <1>4 DEF CloseVote
  <2>2. job[r].on \in Votes /\ vote[job[r].on].status # "NONE" /\ Carried(job[r].on)
    BY <2>1, Busy DEF Fits
  <2>3. vote[job[r].on].target \in pockets
    BY <2>2 DEF MInv, VotesFit
  <2>4. member[vote[job[r].on].target] # "NONE"
    BY <2>3 DEF MInv, MembersFit
  <2> QED
    BY <2>1, <2>2, <2>4 DEF MInv, TypeOK
<1>5. ASSUME NEW r \in Requests, Begin(r) PROVE UNCHANGED member
  BY <1>5 DEF Begin, Guarded, LoadInvite, ResolveVote, StartRespond, Start, rows
<1>6. ASSUME NEW r \in Requests, Continue(r), ~Accept(r), ~Leave(r), ~CloseVote(r)
      PROVE  UNCHANGED member
  BY <1>6 DEF Continue, CountToLeave, CountToClose, Close, AssertNotClosed, CheckNotMember,
     CheckNotInvited, CreateInvite, SendInvite, UndoInvite, ReadInvite, Revoke, Expire, Void,
     CheckTarget, CountOthers, CheckNoOpenVote, Propose, TallyVote, FindVoter, CheckNotAnswered,
     Respond, Check, rows
<1>7. ASSUME NEW r \in Requests, Fail(r) PROVE UNCHANGED member
  BY <1>7 DEF Fail, rows
<1>8. ASSUME Tick PROVE UNCHANGED member
  BY <1>8 DEF Tick
<1> QED
  BY <1>1, <1>2, <1>3, <1>4, <1>5, <1>6, <1>7, <1>8 DEF Next

\* An invite that was revoked, has expired or was deleted admits nobody, even if accept had
\* loaded it before.
THEOREM InvitesAdmitOnce == Spec => OnlyPendingAdmits
<1>1. ASSUME MInv, Next, NEW i \in Invites, member[i] = "NONE", member'[i] # "NONE"
      PROVE  Pending(i)
  <2>1. i # Founder /\ i \in Members
    BY MembershipAssumption
  <2> QED
    BY <1>1, <2>1, MemberChanges DEF Consumable
<1>2. MInv /\ [Next]_vars =>
        [\A i \in Invites : member[i] = "NONE" /\ member'[i] # "NONE" => Pending(i)]_vars
  BY <1>1
<1> QED
  BY <1>2, MInvAlways, PTL DEF Spec, OnlyPendingAdmits

\* Whoever does not leave is removed by an approval that two others have answered, one of
\* them in favour.
THEOREM RemovalsAreCarried == Spec => RemovedByOthers
<1> DEFINE A == \A m \in Active : member'[m] = "LEFT" =>
                   \/ \E r \in Requests : pc[r] = "leave" /\ job[r].me = m
                   \/ \E v \in Votes : vote[v].target = m /\ Carried(v)
<1>1. ASSUME MInv, Next PROVE A
  <2> SUFFICES ASSUME NEW m \in Members, member[m] = "ACTIVE", member'[m] = "LEFT"
               PROVE  \/ \E r \in Requests : pc[r] = "leave" /\ job[r].me = m
                      \/ \E v \in Votes : vote[v].target = m /\ Carried(v)
    BY DEF Active
  <2> QED
    BY <1>1, MemberChanges
<1>2. MInv /\ [Next]_vars => [A]_vars
  BY <1>1
<1> QED
  BY <1>2, MInvAlways, PTL DEF Spec, RemovedByOthers

\* The owner of a row does not change once there is a member in it.
LEMMA OwnerKept ==
    ASSUME MInv, Next, NEW m \in Members, member[m] # "NONE" \/ member'[m] # "NONE"
    PROVE  owner'[m] = owner[m] /\ owner[m] \in Users
<1>1. owner[m] \in Users
  <2>1. CASE m = Founder
    BY <2>1, MembershipAssumption DEF MInv, MembersFit
  <2>2. CASE m \in Invites
    <3>1. invite[m] # "NONE"
      <4>1. CASE member[m] # "NONE"
        BY <2>2, <4>1 DEF MInv, MembersFit
      <4>2. CASE member[m] = "NONE" /\ member'[m] # "NONE"
        <5>1. m # Founder
          BY <2>2, MembershipAssumption
        <5> QED
          BY <4>2, <5>1, MemberChanges DEF Consumable, Pending
      <4> QED
        BY <4>1, <4>2
    <3> QED
      BY <2>2, <3>1 DEF MInv, TypeOK, MembersFit
  <2> QED
    BY <2>1, <2>2
<1>2. ASSUME NEW r \in Requests, CreateInvite(r) PROVE owner'[m] = owner[m]
  <2>1. PICK i \in Invites : invite[i] = "NONE" /\ owner' = [owner EXCEPT ![i] = job[r].on]
                             /\ UNCHANGED member
    BY <1>2 DEF CreateInvite
  <2>2. m # i
    BY <2>1 DEF MInv, MembersFit
  <2> QED
    BY <2>1, <2>2 DEF MInv, TypeOK
<1>3. ASSUME NEW r \in Requests, Begin(r) PROVE UNCHANGED owner
  BY <1>3 DEF Begin, Guarded, LoadInvite, ResolveVote, StartRespond, Start, rows
<1>4. ASSUME NEW r \in Requests, Continue(r), ~CreateInvite(r) PROVE UNCHANGED owner
  BY <1>4 DEF Continue, CountToLeave, CountToClose, Leave, Close, AssertNotClosed, CheckNotMember,
     CheckNotInvited, SendInvite, UndoInvite, ReadInvite, Revoke, Expire, Void, Accept,
     CheckTarget, CountOthers, CheckNoOpenVote, Propose, TallyVote, CloseVote, FindVoter,
     CheckNotAnswered, Respond, Check, rows
<1>5. ASSUME NEW r \in Requests, Fail(r) PROVE UNCHANGED owner
  BY <1>5 DEF Fail, rows
<1>6. ASSUME CreateGroup \/ Tick PROVE UNCHANGED owner
  BY <1>6 DEF CreateGroup, Tick
<1> QED
  BY <1>1, <1>2, <1>3, <1>4, <1>5, <1>6 DEF Next

\* At most one member changes in a step.
LEMMA OneAtATime ==
    ASSUME MInv, Next, NEW m \in Members, member'[m] # member[m]
    PROVE  \A n \in Members \ {m} : member'[n] = member[n]
<1>1. CASE CreateGroup
  BY <1>1 DEF CreateGroup, MInv, TypeOK
<1>2. ASSUME NEW r \in Requests, Accept(r), m = job[r].on
      PROVE  \A n \in Members \ {m} : member'[n] = member[n]
  BY <1>2 DEF Accept, MInv, TypeOK
<1>3. ASSUME NEW r \in Requests, Leave(r), m = job[r].me
      PROVE  \A n \in Members \ {m} : member'[n] = member[n]
  BY <1>3 DEF Leave, MInv, TypeOK
<1>4. ASSUME NEW r \in Requests, CloseVote(r), m = vote[job[r].on].target
      PROVE  \A n \in Members \ {m} : member'[n] = member[n]
  BY <1>4 DEF CloseVote, MInv, TypeOK
<1> QED
  BY <1>1, <1>2, <1>3, <1>4, MemberChanges

\* A step of a request is a step of the roster, or leaves it as it is.
LEMMA RosterStep ==
    ASSUME MInv, [Next]_vars
    PROVE  [Abstract!Next]_(Abstract!vars)
<1>1. ASSUME \A m \in Members : member'[m] = member[m], Next \/ UNCHANGED vars
      PROVE  Seats' = Seats
  <2>1. \A m \in Members : member[m] # "NONE" => owner'[m] = owner[m]
    BY <1>1, OwnerKept DEF vars, rows
  <2> QED
    BY <1>1, <2>1 DEF Seats
<1>2. ASSUME Next, NEW m \in Members, member'[m] # member[m]
      PROVE  Abstract!Next
  <2> DEFINE u == owner[m]
  <2>1. u \in Users /\ owner'[m] = u
    BY <1>2, OwnerKept DEF MInv, TypeOK
  <2>2. \A n \in Members \ {m} : Seats'[n] = Seats[n]
    <3>1. \A n \in Members \ {m} : member'[n] = member[n]
      BY <1>2, OneAtATime
    <3>2. \A n \in Members \ {m} : member[n] # "NONE" => owner'[n] = owner[n]
      BY <1>2, OwnerKept
    <3> QED
      BY <3>1, <3>2 DEF Seats
  <2>3. CASE member[m] = "NONE"
    <3>1. member'[m] = "ACTIVE" /\ \A n \in Active : owner[n] # u
      <4>1. CASE CreateGroup /\ m = Founder /\ member'[m] = "ACTIVE"
        BY <4>1 DEF CreateGroup, MInv, Founded, Active
      <4>2. CASE Unique(m) /\ member'[m] = "ACTIVE"
        BY <4>2 DEF Unique
      <4> QED
        BY <1>2, <2>3, <4>1, <4>2, MemberChanges
    <3>2. Seats[m] = Nothing /\ Seats'[m] = <<u, TRUE>>
      BY <2>1, <2>3, <3>1 DEF Seats
    <3>3. \A n \in Members : Seats[n] # <<u, TRUE>>
      <4>1. Nothing # <<u, TRUE>>
        <5>1. <<u, TRUE>> \in Users \X BOOLEAN
          BY <2>1
        <5>2. Nothing \notin Users \X BOOLEAN
          BY MembershipAssumption
        <5> QED
          BY <5>1, <5>2, Zenon
      <4>2. \A n \in Members : member[n] = "ACTIVE" => owner[n] # u
        BY <3>1 DEF Active
      <4> QED
        BY <4>1, <4>2 DEF Seats
    <3>4. Seats' = [Seats EXCEPT ![m] = <<u, TRUE>>]
      BY <2>2, <3>2 DEF Seats
    <3> QED
      BY <2>1, <3>2, <3>3, <3>4 DEF Abstract!Next, Abstract!Join
  <2>4. CASE member[m] # "NONE"
    <3>1. member[m] = "ACTIVE" /\ member'[m] = "LEFT"
      BY <1>2, <2>4, MemberChanges
    <3>2. Seats[m] = <<u, TRUE>> /\ Seats'[m] = <<u, FALSE>>
      BY <2>1, <3>1 DEF Seats
    <3>3. Seats' = [Seats EXCEPT ![m] = <<u, FALSE>>]
      BY <2>2, <3>2 DEF Seats
    <3> QED
      BY <2>1, <3>2, <3>3 DEF Abstract!Next, Abstract!Depart
  <2> QED
    BY <2>3, <2>4
<1>3. CASE \A m \in Members : member'[m] = member[m]
  BY <1>1, <1>3 DEF Abstract!vars
<1>4. CASE \E m \in Members : member'[m] # member[m]
  BY <1>2, <1>4 DEF vars, rows
<1> QED
  BY <1>3, <1>4

\* Membership implements Roster: a user comes in at most once at a time, in a row of their
\* own, and nobody comes back in a row they have left.
THEOREM RosterImplemented == Spec => ImplementsRoster
<1>1. Init => Abstract!Init
  BY DEF Init, Seats, Abstract!Init
<1>2. MInv /\ [Next]_vars => [Abstract!Next]_(Abstract!vars)
  BY RosterStep
<1> QED
  BY <1>1, <1>2, MInvAlways, PTL DEF Spec, ImplementsRoster, Abstract!Spec

===============================================================================
