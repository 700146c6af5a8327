------------------------------ MODULE QueryCache ------------------------------
(***************************************************************************)
(* What the pages ask of the query cache (hooks.ts and queries.ts of the   *)
(* groups and auth features, TanStack Query outside this repository):      *)
(* which lists a page observes, what each mutation writes on the server,   *)
(* and what its onSuccess does to the cache.  The data of an entry is      *)
(* abstracted to the number of the last write it reflects.                 *)
(***************************************************************************)
EXTENDS Integers

Missing == -1
Queries == {"lists", "detail", "members", "invites", "votes", "sessions"}

\* A page: the queries its components observe and the mutations they offer.
Page(shows, offers) == [shows |-> shows, offers |-> offers]

Bare == Page({}, {})
DashboardPage == Page({"lists"}, {})
NewGroupPage == Page({}, {"createGroup"})
InviteLandingPage == Page({}, {"acceptInvite"})
SessionsPage == Page({"sessions"}, {"revokeSession"})
OverviewTab == Page({"detail"}, {"updateGroup", "leaveGroup", "closeGroup"})
\* A row proposes the removal of its member, or shows the open vote on them.
MemberRow == Page({}, {"proposeVote", "respond"})
MembersTab == Page({"detail", "members", "votes"}, MemberRow.offers)
InviteRow == Page({}, {"revokeInvite"})
InvitesTab == Page({"detail", "invites"}, {"createInvite"} \cup InviteRow.offers)

Pages == [login |-> Bare, callback |-> Bare, away |-> Bare, landing |-> InviteLandingPage,
          dashboard |-> DashboardPage, create |-> NewGroupPage, settings |-> SessionsPage,
          overview |-> OverviewTab, members |-> MembersTab, invites |-> InvitesTab]

Effect(writes, sets, stales) == [writes |-> writes, sets |-> sets, stales |-> stales]

\* For each mutation: the queries whose answer it changes on the server, the entry it sets
\* from its answer and the entries it invalidates.
Mutation ==
    [createGroup |-> Effect({"detail", "lists", "members"}, {"detail"}, {"lists"}),
     updateGroup |-> Effect({"detail", "lists"}, {"detail"}, {"lists"}),
     leaveGroup  |-> Effect({"members", "lists"}, {}, {"lists"}),
     closeGroup  |-> Effect({"detail", "lists"}, {"detail"}, {"lists"}),
     proposeVote |-> Effect({"votes"}, {}, {"votes"}),
     respond     |-> Effect({"votes"}, {}, {"votes"}),
     createInvite |-> Effect({"invites"}, {}, {"invites"}),
     revokeInvite |-> Effect({"invites"}, {}, {"invites"}),
     acceptInvite |-> Effect({"lists", "members", "invites"}, {}, {"lists", "detail"}),
     revokeSession |-> Effect({"sessions"}, {}, {"sessions"})]

Entry == [data : Int, stale : BOOLEAN]
Empty == [data |-> Missing, stale |-> TRUE]

Present(e) == e.data # Missing

\* setQueryData, or the answer of a fetch: fresh again.
Filled(n) == [data |-> n, stale |-> FALSE]

\* onSuccess of mutation m, whose answer is write n.
AfterMutation(cache, m, n) ==
    [q \in Queries |-> IF q \in Mutation[m].sets THEN Filled(n)
                       ELSE [cache[q] EXCEPT !.stale = @ \/ q \in Mutation[m].stales]]

NoneCancelled(cache, m, page) == {}

\* invalidateQueries fetches again what the page observes, and first cancels the fetch under
\* way for an entry that has data; a first load is left to finish.  setQueryData cancels nothing.
Cancelled(cache, m, page) ==
    {q \in Mutation[m].stales \cap Pages[page].shows : Present(cache[q])}

===============================================================================
