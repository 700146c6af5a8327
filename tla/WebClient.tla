------------------------------ MODULE WebClient -------------------------------
(***************************************************************************)
(* One tab of the web client: the API client that renews the session once  *)
(* for all its calls (lib/api/client.ts), the identity cached by the root  *)
(* route and read by the guards, the ways to sign in (form, OAuth popup,   *)
(* full page redirect) and out, the cached lists of the group pages and    *)
(* the mutations that invalidate them, and the page that accepts an        *)
(* invitation.                                                             *)
(*                                                                         *)
(* The server is abstracted to the user's session, its refresh token       *)
(* (numbered; a token already rotated raises the reuse alarm, Sessions     *)
(* has the details) and the last write each query reflects.  A call takes  *)
(* a step to be served and one to be answered; it may fail before it is    *)
(* served, or its answer may be lost, except an answer that brings tokens. *)
(* Left out: the persisted copies of the lists, the first list or group a  *)
(* route waits for, the preview of an invitation, forms that only send     *)
(* mail, and the messages with which the pages show an error.              *)
(***************************************************************************)
EXTENDS Integers, QueryCache

CONSTANTS
    Calls,          \* slots for the HTTP calls under way
    Offered,        \* the mutations the user may try
    Watched,        \* the queries of the pages that the instance follows
    Home,           \* pages the user navigates between
    MaxTokens,      \* bound on the tokens issued
    MaxWrites,      \* bound on the writes of the tab
    None

AuthRoutes == {"me", "popup", "login", "logout", "refresh", "sessions", "revokeSession"}
Kinds == AuthRoutes \cup Queries \cup DOMAIN Mutation

ASSUME WebAssumption ==
    /\ Offered \subseteq DOMAIN Mutation
    /\ Watched \subseteq Queries /\ Home \subseteq DOMAIN Pages
    /\ MaxTokens \in Nat \ {0} /\ MaxWrites \in Nat
    /\ None \notin Calls \cup Kinds \cup DOMAIN Pages

VARIABLES
    server,     \* alive: the session is not revoked; token: the current refresh token;
                \* since: the token of the last
                \* sign in; expired: access tokens up to this number are; content: the last write
                \* each query reflects; open: the invitation; replayed:
                \* a token rotated by a refresh was presented
    cookie,     \* the number of the tokens in the cookie jar
    call,       \* the calls through apiClient; done: the server has carried it out
    post,       \* the POST /auth/refresh a call has caused
    flight,     \* refreshPromise: the call that caused the refresh under way
    me,         \* the cached answer of /auth/me: UNKNOWN, NOBODY (null) or USER
    page,       \* the route on display
    nav,        \* the route a navigation waits to enter, while root's beforeLoad fetches me
    landing,    \* the invitation page, by visit: whether its effect is due, the call that
                \* accepts (attempted), and whether the server carried that call out (mine)
    cache,      \* the query cache
    shown       \* the last own write acknowledged on a page that displays the query

client == <<cookie, me, page, nav, landing, cache, shown>>
vars == <<server, client, call, post, flight>>

Idle == [stage |-> "IDLE", what |-> None, token |-> 0, retried |-> FALSE, leader |-> None,
         answer |-> 0, wanted |-> TRUE, done |-> FALSE]
NoPost == [stage |-> "NONE", token |-> 0]
Guarded == DOMAIN Pages \ {"login", "callback", "away", "landing"}
Mounted == [due |-> TRUE, by |-> None, mine |-> FALSE]

ServerStates ==
    [alive : BOOLEAN, token : 0..MaxTokens, since : 0..MaxTokens, expired : 0..MaxTokens,
     content : [Queries -> 0..(MaxWrites + 1)], writes : 0..(MaxWrites + 1),
     open : BOOLEAN, replayed : BOOLEAN]
CallStates ==
    [stage : {"IDLE", "SENT", "OK", "DENIED", "CONFLICT", "FAILED", "WAITING"},
     what : Kinds \cup {None}, token : 0..MaxTokens, retried : BOOLEAN,
     leader : Calls \cup {None}, answer : Nat, wanted : BOOLEAN, done : BOOLEAN]
PostStates == [stage : {"NONE", "SENT", "GRANTED", "REFUSED"}, token : 0..MaxTokens]
Landings == [due : BOOLEAN, by : Calls \cup {None}, mine : BOOLEAN]
Entries == [data : Missing..(MaxWrites + 1), stale : BOOLEAN]

TypeOK ==
    /\ server \in ServerStates
    /\ cookie \in 0..MaxTokens
    /\ call \in [Calls -> CallStates]
    /\ post \in [Calls -> PostStates]
    /\ flight \in Calls \cup {None}
    /\ me \in {"UNKNOWN", "NOBODY", "USER"}
    /\ page \in DOMAIN Pages
    /\ nav \in DOMAIN Pages \cup {None}
    /\ landing \in Landings
    /\ cache \in [Queries -> Entries]
    /\ shown \in [Queries -> 0..(MaxWrites + 1)]

Init ==
    /\ server = [alive |-> FALSE, token |-> 0, since |-> 0, expired |-> 0,
                 content |-> [q \in Queries |-> 0], writes |-> 0,
                 open |-> TRUE, replayed |-> FALSE]
    /\ cookie = 0
    /\ call = [c \in Calls |-> Idle]
    /\ post = [c \in Calls |-> NoPost]
    /\ flight = None
    /\ me = "UNKNOWN"
    /\ page = "away" /\ nav = None
    /\ landing = Mounted
    /\ cache = [q \in Queries |-> Empty]
    /\ shown = [q \in Queries |-> 0]

-------------------------------------------------------------------------------
(* Calls *)

Send(c, what) ==
    /\ call[c] = Idle
    /\ call' = [call EXCEPT ![c] = [Idle EXCEPT !.stage = "SENT", !.what = what,
                                                !.token = cookie]]

Live(what) == \E c \in Calls : call[c].what = what /\ call[c].wanted

\* The jwt guard: the access token has not expired.  It does not ask whether the session is revoked.
Accepted(c) == call[c].token > server.expired

Reply(c, stage, n) == [call EXCEPT ![c].stage = stage, ![c].answer = n, ![c].token = 0]

\* Variant: a sign in leaves the token that is there.
SignedInAgain == [server EXCEPT !.alive = TRUE, !.token = IF @ = 0 THEN 1 ELSE @,
                                !.since = IF server.token = 0 THEN 1 ELSE server.token]

\* A new session, or the device's own with a new token, which replaces the old one.
SignedIn == [server EXCEPT !.alive = TRUE, !.token = @ + 1, !.since = server.token + 1]

\* The server takes a call that needs no access token: POST /auth/login, register or
\* device/confirm.
ServeLogin(c) ==
    /\ call[c].stage = "SENT" /\ call[c].what = "login"
    /\ server.token < MaxTokens
    /\ server' = SignedIn
    /\ call' = Reply(c, "OK", server.token + 1)
    /\ UNCHANGED <<client, post, flight>>

\* A wrong password, or any other call without a valid access token.
Deny(c) ==
    /\ call[c].stage = "SENT"
    /\ call[c].what # "login" => ~Accepted(c)
    /\ call' = Reply(c, "DENIED", 0)
    /\ UNCHANGED <<server, client, post, flight>>

ServeRead(c) ==
    /\ call[c].stage = "SENT" /\ Accepted(c)
    /\ call[c].what \in Queries \cup {"me", "popup"}
    /\ call' = Reply(c, "OK", IF call[c].what \in Queries
                              THEN server.content[call[c].what] ELSE 0)
    /\ UNCHANGED <<server, client, post, flight>>

ServeLogout(c) ==
    /\ call[c].stage = "SENT" /\ call[c].what = "logout" /\ Accepted(c)
    /\ server' = [server EXCEPT !.alive = FALSE]
    /\ call' = Reply(c, "OK", 0)
    /\ UNCHANGED <<client, post, flight>>

Write(m) == [server EXCEPT !.writes = @ + 1,
                           !.content = [q \in Queries |-> IF q \in Mutation[m].writes \cap Watched
                                                          THEN server.writes + 1 ELSE @[q]],
                           !.open = @ /\ m # "acceptInvite"]

\* The API carries the mutation out, or refuses it (409); it accepts an invitation once.
ServeMutation(c) ==
    /\ call[c].stage = "SENT" /\ call[c].what \in DOMAIN Mutation /\ Accepted(c)
    /\ \/ /\ IF call[c].what = "acceptInvite" THEN server.open
                                             ELSE server.writes < MaxWrites
          /\ server' = Write(call[c].what)
          /\ call' = [Reply(c, "OK", server.writes + 1) EXCEPT ![c].done = TRUE]
          /\ landing' = [landing EXCEPT !.mine = @ \/ (landing.by = c
                                                         /\ call[c].what = "acceptInvite")]
       \/ /\ call[c].what = "acceptInvite" => ~server.open
          /\ call' = Reply(c, "CONFLICT", 0)
          /\ UNCHANGED <<server, landing>>
    /\ UNCHANGED <<cookie, me, page, nav, cache, shown, post, flight>>

\* The network fails before a call is served, or loses its answer.
Lose(c) ==
    /\ \/ call[c].stage = "SENT"
       \/ call[c].stage \in {"OK", "DENIED", "CONFLICT"} /\ call[c].what # "login"
    /\ call' = Reply(c, "FAILED", 0)
    /\ UNCHANGED <<server, client, post, flight>>

-------------------------------------------------------------------------------
(* Renewing the session *)

IsAuthRouteButRefresh(what) == what \in AuthRoutes \ {"refresh"}

IsAuthRoute(what) == what \in AuthRoutes

EachItsOwn(c) == c

\* refreshSession: the first call to be denied posts the refresh, the others share its promise.
Leader(c) == IF flight = None THEN c ELSE flight

\* Variant: a call without an answer is sent again as well.
Unanswered(c) == call[c].stage \in {"DENIED", "FAILED"}

\* status === 401
Unauthorized(c) == call[c].stage = "DENIED"

\* A 401: the interceptor waits for the refresh, once per call and never for an auth route.
Renew(c) ==
    /\ Unauthorized(c) /\ ~call[c].retried /\ ~IsAuthRoute(call[c].what)
    /\ call' = [call EXCEPT ![c].stage = "WAITING", ![c].retried = TRUE,
                            ![c].leader = Leader(c)]
    /\ flight' = Leader(c)
    /\ post' = IF Leader(c) = c THEN [post EXCEPT ![c] = [stage |-> "SENT", token |-> cookie]]
               ELSE post
    /\ UNCHANGED <<server, client>>

\* POST /auth/refresh: rotation, or the reuse alarm, which revokes the session.  A session
\* whose tokens have reached the bound has expired.
ServeRefresh(c) ==
    /\ post[c].stage = "SENT"
    /\ LET current == server.alive /\ post[c].token = server.token
       IN  \/ /\ current /\ server.token < MaxTokens
              /\ server' = [server EXCEPT !.token = @ + 1]
              /\ post' = [post EXCEPT ![c] = [stage |-> "GRANTED", token |-> server.token + 1]]
           \/ /\ ~current \/ server.token = MaxTokens
              /\ server' = [server EXCEPT !.replayed = @ \/ (server.alive /\ ~current
                                                              /\ post[c].token >= server.since),
                                          !.alive = FALSE]
              /\ post' = [post EXCEPT ![c].stage = "REFUSED"]
    /\ UNCHANGED <<client, call, flight>>

\* The refresh does not reach the server, which the interceptor treats like a refusal.
LoseRefresh(c) ==
    /\ post[c].stage = "SENT"
    /\ post' = [post EXCEPT ![c].stage = "REFUSED"]
    /\ UNCHANGED <<server, client, call, flight>>

FlightKept(c) == flight

\* .finally: refreshPromise is null again before the calls that wait go on.
FlightAfter(c) == None

\* The cookies are renewed: every call that waits is sent again.
Resend(c) ==
    /\ post[c].stage = "GRANTED"
    /\ cookie' = post[c].token
    /\ post' = [post EXCEPT ![c] = NoPost]
    /\ flight' = FlightAfter(c)
    /\ call' = [d \in Calls |->
                  IF call[d].leader = c
                  THEN [call[d] EXCEPT !.stage = "SENT", !.leader = None,
                                       !.token = post[c].token]
                  ELSE call[d]]
    /\ UNCHANGED <<server, me, page, nav, landing, cache, shown>>

-------------------------------------------------------------------------------
(* Routes *)

\* The guards have run: _authenticated reads the cached identity and redirects to the login page.
Enter(to, who) ==
    /\ page' = IF to \in Guarded /\ who # "USER" THEN "login" ELSE to
    /\ nav' = None
    /\ landing' = Mounted

\* root's beforeLoad: ensureQueryData fetches the identity only when nothing is cached.
Goto(to, who) ==
    IF who = "UNKNOWN" THEN nav' = to /\ UNCHANGED <<page, landing>>
    ELSE Enter(to, who)

\* notifySessionExpired: the calls that wait fail and the router goes to the login page.  The
\* refused call is itself denied: were it no auth route, it would wait for its own promise.
Expelled(c) ==
    /\ post[c].stage = "REFUSED" /\ IsAuthRoute("refresh")
    /\ post' = [post EXCEPT ![c] = NoPost]
    /\ flight' = FlightAfter(c)
    /\ call' = [d \in Calls |-> IF call[d].leader = c
                                THEN [call[d] EXCEPT !.stage = "FAILED", !.leader = None]
                                ELSE call[d]]
    /\ Goto("login", me)
    /\ UNCHANGED <<server, cookie, me, cache, shown>>

Quiet == \A c \in Calls : call[c] = Idle

\* A page load: the cache in memory is lost, and the identity restored from IndexedDB, unless it
\* was not persisted in time or has been collected there.
Boot(to, s, jar) ==
  \E stored \in {me, "UNKNOWN"} :
    /\ Quiet
    /\ server' = s /\ cookie' = jar
    /\ me' = stored
    /\ cache' = [q \in Queries |-> Empty]
    /\ shown' = [q \in Queries |-> 0]
    /\ IF stored = "UNKNOWN" THEN page' = "away" /\ nav' = to /\ landing' = Mounted
       ELSE Enter(to, stored)
    /\ UNCHANGED <<call, post, flight>>

Load == page # "callback" /\ \E to \in Home : Boot(to, server, cookie)

\* The popup is blocked: the whole page goes to the provider and comes back to oauth-callback
\* with the cookies set.
OAuthRedirect ==
    /\ page = "login" /\ server.token < MaxTokens
    /\ Boot("callback", SignedIn, server.token + 1)

\* The callback page invalidates the identity, which no component observes, so that nothing is
\* fetched, and goes to the dashboard.
OAuthCallback ==
    /\ page = "callback"
    /\ Goto("dashboard", me)
    /\ UNCHANGED <<server, cookie, me, cache, shown, call, post, flight>>

Navigate(to) ==
    /\ page \notin {"away", "callback", to} /\ nav = None
    /\ Goto(to, me)
    /\ UNCHANGED <<server, cookie, me, cache, shown, call, post, flight>>

\* An entry no component observes is collected after five minutes.
Collect ==
    /\ page = "login" /\ nav = None /\ me' = "UNKNOWN"
    /\ UNCHANGED <<server, cookie, page, nav, landing, cache, shown, call,
                   post, flight>>

-------------------------------------------------------------------------------
(* Identity *)

\* A guard that waits, or the invitation page on a focus of the window (on the other pages a
\* second answer changes nothing).
AskMe(c) ==
    /\ ~Live("me")
    /\ nav # None \/ page = "landing"
    /\ Send(c, "me")
    /\ UNCHANGED <<server, client, post, flight>>

\* The interceptor has let the answer of c pass: it is no 401 that Renew takes.
Answered(c, what) ==
    /\ call[c].what = what
    /\ \/ call[c].stage \in {"OK", "CONFLICT", "FAILED"}
       \/ call[c].stage = "DENIED" /\ (call[c].retried \/ IsAuthRoute(what))

\* A navigation that waits goes on, with null when the fetch failed.
AnswerMe(c) ==
    /\ Answered(c, "me")
    /\ call' = [call EXCEPT ![c] = Idle]
    /\ \/ /\ ~call[c].wanted
          /\ UNCHANGED <<me, page, nav, landing>>
       \/ /\ call[c].wanted /\ nav # None
          /\ me' = IF call[c].stage = "OK" THEN "USER" ELSE "NOBODY"
          /\ Enter(nav, me')
       \/ /\ call[c].wanted /\ nav = None /\ call[c].stage = "OK"
          /\ me' = "USER"
          /\ \E due \in {landing.due, TRUE} : landing' = [landing EXCEPT !.due = due]
          /\ UNCHANGED <<page, nav>>
       \/ /\ call[c].wanted /\ nav = None /\ call[c].stage # "OK"
          /\ UNCHANGED <<me, page, nav, landing>>
    /\ UNCHANGED <<server, cookie, cache, shown, post, flight>>

\* The login form, the registration form or the device code.
Submit(c) ==
    /\ page = "login" /\ ~Live("login")
    /\ Send(c, "login")
    /\ UNCHANGED <<server, client, post, flight>>

AnswerLogin(c) ==
    /\ Answered(c, "login")
    /\ call' = [call EXCEPT ![c] = Idle]
    /\ \/ /\ call[c].stage = "OK"
          /\ cookie' = call[c].answer
          /\ me' = "USER"
          /\ \E to \in {"dashboard", "landing"} \cap Home : Enter(to, "USER")
       \/ /\ call[c].stage # "OK"
          /\ UNCHANGED <<cookie, me, page, nav, landing>>
    /\ UNCHANGED <<server, cache, shown, post, flight>>

\* The popup comes back from the provider with the cookies set, and its message makes the one
\* listener of the sign in pages fetch the identity.
PopupSignsIn(c) ==
    /\ page = "login" /\ server.token < MaxTokens
    /\ server' = SignedIn
    /\ cookie' = server.token + 1
    /\ call[c] = Idle
    /\ call' = [call EXCEPT ![c] = [Idle EXCEPT !.stage = "SENT", !.what = "popup",
                                                !.token = cookie']]
    /\ UNCHANGED <<me, page, nav, landing, cache, shown, post, flight>>

AnswerPopup(c) ==
    /\ Answered(c, "popup")
    /\ call' = [call EXCEPT ![c] = Idle]
    /\ \/ /\ call[c].stage = "OK"
          /\ me' = "USER"
          /\ Enter("dashboard", "USER")
       \/ /\ call[c].stage # "OK"
          /\ UNCHANGED <<me, page, nav, landing>>
    /\ UNCHANGED <<server, cookie, cache, shown, post, flight>>

Logout(c) ==
    /\ page = "dashboard" /\ ~Live("logout")
    /\ Send(c, "logout")
    /\ UNCHANGED <<server, client, post, flight>>

\* The cache is cleared, and the answers of the fetches under way will be dropped.
AnswerLogout(c) ==
    /\ Answered(c, "logout")
    /\ \/ /\ call[c].stage = "OK"
          /\ call' = [d \in Calls |->
                        IF d = c THEN Idle
                        ELSE [call[d] EXCEPT !.wanted = @ /\ call[d].what
                                                           \notin Queries \cup {"me"}]]
          /\ cookie' = 0
          /\ me' = "UNKNOWN"
          /\ cache' = [q \in Queries |-> Empty]
          /\ Goto("login", "UNKNOWN")
       \/ /\ call[c].stage # "OK"
          /\ call' = [call EXCEPT ![c] = Idle]
          /\ UNCHANGED <<cookie, me, cache, page, nav, landing>>
    /\ UNCHANGED <<server, shown, post, flight>>

-------------------------------------------------------------------------------
(* Lists and mutations *)

\* An observed entry is fetched when it is mounted, invalidated, or stale on a focus.
Fetch(c, q) ==
    /\ q \in Pages[page].shows \cap Watched /\ cache[q].stale /\ ~Live(q)
    /\ Send(c, q)
    /\ UNCHANGED <<server, client, post, flight>>

\* staleTime has passed.
Age(q) ==
    /\ Present(cache[q]) /\ cache' = [cache EXCEPT ![q].stale = TRUE]
    /\ UNCHANGED <<server, cookie, me, page, nav, landing, shown, call, post,
                   flight>>

AnswerRead(c) ==
    /\ \E q \in Queries :
          /\ Answered(c, q)
          /\ cache' = IF call[c].stage = "OK" /\ call[c].wanted
                      THEN [cache EXCEPT ![q] = Filled(call[c].answer)]
                      ELSE cache
    /\ call' = [call EXCEPT ![c] = Idle]
    /\ UNCHANGED <<server, cookie, me, page, nav, landing, shown, post, flight>>

\* A button of the page, disabled while its mutation is pending.
Mutate(c, m) ==
    /\ m \in Pages[page].offers /\ m # "acceptInvite" /\ ~Live(m)
    /\ Send(c, m)
    /\ UNCHANGED <<server, client, post, flight>>

\* attempted.current
FirstAttempt == landing.by = None

\* The effect of the invitation page, run when it is mounted and when the identity changes.
Accept(c) ==
    /\ page = "landing" /\ landing.due /\ me = "USER"
    /\ \/ /\ FirstAttempt
          /\ Send(c, "acceptInvite")
          /\ landing' = [landing EXCEPT !.due = FALSE, !.by = c]
       \/ /\ ~FirstAttempt
          /\ landing' = [landing EXCEPT !.due = FALSE]
          /\ UNCHANGED call
    /\ UNCHANGED <<server, cookie, me, page, nav, cache, shown, post, flight>>

\* What the user sees confirmed on a page that displays the list.
Confirmed(m, n) ==
    [q \in Queries |->
        IF /\ q \in Mutation[m].writes \cap Mutation[m].stales \cap Pages[page].shows
           /\ m \in Pages[page].offers /\ Present(cache[q]) /\ n > shown[q]
        THEN n ELSE shown[q]]

\* onSuccess, then the page's own then: the new group is shown.
Succeeds(c, m) ==
    /\ Answered(c, m) /\ call[c].stage = "OK"
    /\ call' = [d \in Calls |->
                  IF d = c THEN Idle
                  ELSE [call[d] EXCEPT !.wanted = @ /\ call[d].what
                                                     \notin Cancelled(cache, m, page)]]
    /\ cache' = AfterMutation(cache, m, call[c].answer)
    /\ shown' = Confirmed(m, call[c].answer)
    /\ IF m \in {"createGroup", "acceptInvite"} THEN Goto("overview", me)
       ELSE UNCHANGED <<page, nav, landing>>
    /\ UNCHANGED <<server, cookie, me, post, flight>>

\* The page shows an error and stays.  The invitation page shows the same one, that the
\* invitation is no longer valid, for a conflict, a lost answer and any other failure but
\* that of another address.
Fails(c, m) ==
    /\ Answered(c, m) /\ call[c].stage # "OK"
    /\ call' = [call EXCEPT ![c] = Idle]
    /\ UNCHANGED <<server, client, post, flight>>

-------------------------------------------------------------------------------
(* The environment *)

Expire ==
    /\ server.expired < server.token /\ server.token < MaxTokens
    /\ server' = [server EXCEPT !.expired = server.token]
    /\ UNCHANGED <<client, call, post, flight>>

\* The session is revoked from another device.
Revoke ==
    /\ server.alive /\ server' = [server EXCEPT !.alive = FALSE]
    /\ UNCHANGED <<client, call, post, flight>>

\* The invitation is revoked or expires.
Withdraw ==
    /\ server.open /\ server' = [server EXCEPT !.open = FALSE]
    /\ UNCHANGED <<client, call, post, flight>>

Environment == Expire \/ Revoke \/ Withdraw

User ==
    \/ Load \/ OAuthRedirect
    \/ \E to \in Home : Navigate(to)
    \/ \E c \in Calls : Submit(c) \/ PopupSignsIn(c) \/ Logout(c) \/ \E m \in Offered : Mutate(c, m)

Serve(c) ==
    \/ ServeLogin(c) \/ ServeLogout(c) \/ ServeRead(c) \/ ServeMutation(c) \/ Deny(c)
    \/ ServeRefresh(c)

Answer(c) ==
    \/ Renew(c) \/ Resend(c) \/ Expelled(c)
    \/ AnswerMe(c) \/ AnswerLogin(c) \/ AnswerPopup(c) \/ AnswerLogout(c) \/ AnswerRead(c)
    \/ \E m \in DOMAIN Mutation : Succeeds(c, m) \/ Fails(c, m)

Browser ==
    \/ OAuthCallback \/ Collect
    \/ \E q \in Queries : Age(q)
    \/ \E c \in Calls : Lose(c) \/ LoseRefresh(c) \/ AskMe(c) \/ Accept(c)
                        \/ \E q \in Queries : Fetch(c, q)

Next ==
    \/ Environment \/ User \/ Browser
    \/ \E c \in Calls : Serve(c) \/ Answer(c)

\* A request is served in the end and its answer reaches the tab, as an answer or as an error.
Spec == Init /\ [][Next]_vars /\ \A c \in Calls : WF_vars(Serve(c)) /\ WF_vars(Answer(c))

-------------------------------------------------------------------------------

\* One refresh is under way at a time, and no call waits for one that is over: neither the
\* ones that already wait nor the next ones, which would share refreshPromise.
OneFlight ==
    \A c \in Calls : /\ post[c].stage # "NONE" <=> flight = c
                     /\ flight = c => call[c].leader = c
                     /\ call[c].stage = "WAITING" <=> call[c].leader # None
                     /\ call[c].leader # None => call[c].leader = flight

\* The refresh token t is the current one, or older than the last sign in.
Current(t) == t = server.token \/ t < server.since

\* The refresh under way has a current token, and but for its own answer so has the jar.
TokensFit ==
    /\ server.since <= server.token /\ cookie <= server.token
    /\ server.since = 0 => server.token = 0 /\ ~server.alive
    /\ \A c \in Calls : post[c].stage \in {"SENT", "GRANTED"} =>
          Current(post[c].token) /\ post[c].token <= server.token
    /\ Current(cookie) \/ \E c \in Calls : post[c].stage = "GRANTED"
    /\ ~server.replayed

\* There is one sign in by form at a time, and its answer is the only holder of the token it
\* brings.
LoginsFit ==
    \A c \in Calls : call[c].what = "login" =>
        /\ call[c].wanted
        /\ \A d \in Calls \ {c} : call[d].what # "login"
        /\ call[c].stage = "OK" =>
              \/ call[c].answer < server.since
              \/ /\ call[c].answer = server.token /\ cookie < call[c].answer
                 /\ \A d \in Calls : post[d].stage \in {"SENT", "GRANTED"} =>
                                          post[d].token < call[c].answer

\* No answer under way nor fresh entry is older than what the user has seen confirmed.
ReadsFit ==
    /\ server.open => server.writes <= MaxWrites
    /\ \A q \in Queries :
          /\ server.content[q] <= server.writes
          /\ shown[q] <= server.content[q]
          /\ Present(cache[q]) => q \in Watched \cup {"detail"}
          /\ ~cache[q].stale => Present(cache[q]) /\ cache[q].data >= shown[q]
    /\ shown["detail"] = 0
    /\ \A c \in Calls :
          /\ call[c].what \in Queries => call[c].what \in Watched
          /\ call[c].stage = "OK" /\ call[c].what \in Queries =>
                /\ call[c].answer <= MaxWrites + 1
                /\ call[c].wanted => call[c].answer >= shown[call[c].what]
          /\ call[c].stage = "OK" /\ call[c].what \in DOMAIN Mutation =>
                /\ call[c].answer <= MaxWrites + 1
                /\ \A q \in Mutation[call[c].what].writes \cap Watched :
                      call[c].answer <= server.content[q]

\* What the server has carried out for the tab is not asked of it again, whatever is lost,
\* denied or fetched again meanwhile: the interceptor does not resend a mutation that was
\* served (client.ts:80-101), and the effect of the invitation page, run whenever the
\* identity changes, does not accept twice in one visit ($token.tsx:41-47).  Another visit,
\* after a reload or by navigation, may.
CarriedOutOnce ==
    /\ \A c \in Calls : call[c].done => call[c].stage \in {"OK", "FAILED"}
    /\ landing.mine =>
          /\ landing.by # None
          /\ call[landing.by].what = "acceptInvite" => call[landing.by].done

\* The inductive invariant of the tab.
WInv == TypeOK /\ OneFlight /\ TokensFit /\ LoginsFit /\ ReadsFit /\ CarriedOutOnce

\* A tab whose refreshes are answered never presents a token that is already rotated, however
\* many of its calls find the access token expired, at whatever time (client.ts:62-66).
NoTokenReplayed == ~server.replayed

\* What the user has sent from a page that shows the list does not disappear from it again:
\* neither the answer of an older fetch nor a late one brings back the list without it.
OwnWritesShown ==
    \A q \in Queries : ~cache[q].stale => cache[q].data >= shown[q]

\* Every call ends: none waits for a refresh that will not be answered, nor the refresh for
\* itself (client.ts:80-101).
CallsEnd == \A c \in Calls : call[c] # Idle ~> call[c] = Idle

NoToken == [sid |-> 0, n |-> 0]

\* The token that renews the session of the tab; a session is named after its first token.
Good == [device \in {"tab"} |->
            IF server.alive THEN [sid |-> server.since, n |-> server.token] ELSE NoToken]

Abstract == INSTANCE Credential
            WITH Devices <- {"tab"}, Ids <- 1..MaxTokens, Numbers <- 1..MaxTokens,
                 Nothing <- NoToken, good <- Good, opened <- 1..server.since

\* The server in this module, which is no more than its session, makes the promise that the
\* sessions of the API keep (Sessions): a sign in brings a token never seen before, only the
\* current token is rotated, and a revoked session does not come back but by a sign in.
ImplementsCredential == Abstract!Spec

===============================================================================
