--------------------------- MODULE WebClientProofs ---------------------------
(* Theorems about WebClient, for every value of its constants. *)
EXTENDS WebClient, TLAPS

-----------------------------------------------------------------------------
(* The tables of the query cache *)

\* The names of the queries, mutations and pages are told apart.
LEMMA Names ==
    /\ "acceptInvite" \in DOMAIN Mutation /\ "detail" \in Queries
    /\ {"me", "popup", "login", "logout", "acceptInvite"} \cap Queries = {}
    /\ {"me", "popup", "login", "logout"} \cap DOMAIN Mutation = {}
    /\ Queries \cap DOMAIN Mutation = {}
    /\ {"me", "popup", "login", "logout"} \subseteq Kinds
    /\ Queries \subseteq Kinds /\ DOMAIN Mutation \subseteq Kinds
    /\ {"login", "callback", "away", "landing", "dashboard", "overview"} \subseteq DOMAIN Pages
    /\ None \notin Kinds /\ None \notin Calls /\ None \notin DOMAIN Pages
BY WebAssumption DEF Mutation, Queries, Kinds, AuthRoutes, Pages

\* What the hooks say of their mutations: only `detail` is set from an answer, and no mutation
\* both writes and invalidates it.
LEMMA Effects ==
    ASSUME NEW m \in DOMAIN Mutation
    PROVE  /\ Mutation[m].writes \subseteq Queries /\ Mutation[m].stales \subseteq Queries
           /\ Mutation[m].sets \subseteq {"detail"}
           /\ "detail" \notin Mutation[m].writes \cap Mutation[m].stales
BY DEF Mutation, Queries, Effect

-----------------------------------------------------------------------------
(* Calls that change without any consequence *)

\* No call starts or stops waiting for a refresh.
SameWait ==
    \A d \in Calls : /\ call'[d].leader = call[d].leader
                     /\ call'[d].stage = "WAITING" <=> call[d].stage = "WAITING"

\* No sign in starts or is answered.
SameLogins ==
    \A d \in Calls : call'[d].what = "login" =>
        /\ call[d].what = "login" /\ call'[d].wanted = call[d].wanted
        /\ call'[d].stage = "OK" => call[d].stage = "OK" /\ call'[d].answer = call[d].answer

\* No call brings a new answer about the lists.
SameReads ==
    \A d \in Calls : call'[d].what \in Queries \cup DOMAIN Mutation =>
        /\ call'[d].what = call[d].what \/ call'[d].what \notin Queries \ Watched
        /\ call'[d].stage = "OK" =>
              /\ call'[d].what = call[d].what /\ call[d].stage = "OK"
              /\ call'[d].answer = call[d].answer /\ (call'[d].wanted => call[d].wanted)

\* No mutation is carried out, none that was is sent again, and no acceptance is sent.
SameDone ==
    \A d \in Calls :
        /\ call'[d].done =>
              /\ call[d].done
              /\ call[d].stage \in {"OK", "FAILED"} => call'[d].stage \in {"OK", "FAILED"}
        /\ call'[d].what = "acceptInvite" =>
              call[d].what = "acceptInvite" /\ (call[d].done => call'[d].done)

Calm == SameWait /\ SameLogins /\ SameReads /\ SameDone

\* The server answers, or does not, a call that brings neither tokens nor lists.
LEMMA Replying ==
    ASSUME TypeOK, OneFlight, NEW c \in Calls, NEW st \in {"OK", "DENIED", "CONFLICT", "FAILED"},
           NEW n \in Nat, call' = Reply(c, st, n), call[c].stage # "WAITING",
           st = "OK" => call[c].what \in {"me", "popup", "logout"},
           call[c].stage \in {"OK", "FAILED"} => st = "FAILED"
    PROVE  call' \in [Calls -> CallStates] /\ Calm
<1>1. PICK k : k = [call[c] EXCEPT !.stage = st, !.answer = n, !.token = 0]
  OBVIOUS
<1>2. /\ k \in CallStates /\ k.stage = st /\ k.what = call[c].what /\ k.wanted = call[c].wanted
      /\ k.leader = call[c].leader /\ k.done = call[c].done
  <2>1. call[c] \in CallStates /\ 0 \in 0..MaxTokens
    BY WebAssumption DEF TypeOK
  <2> QED
    BY <1>1, <2>1 DEF CallStates
<1>3. call' = [call EXCEPT ![c] = k]
  BY <1>1 DEF Reply, TypeOK
<1>4. call' \in [Calls -> CallStates] /\ call'[c] = k /\ \A d \in Calls \ {c} : call'[d] = call[d]
  BY <1>2, <1>3 DEF TypeOK
<1> QED
  BY <1>2, <1>4, Names DEF Calm, SameWait, SameLogins, SameReads, SameDone

\* A call ends.
LEMMA Ending ==
    ASSUME TypeOK, OneFlight, NEW c \in Calls, call[c].stage # "WAITING",
           call' = [call EXCEPT ![c] = Idle]
    PROVE  call' \in [Calls -> CallStates] /\ Calm
<1>1. Idle \in CallStates /\ Idle.what = None /\ Idle.leader = None /\ Idle.stage = "IDLE"
      /\ ~Idle.done
  BY WebAssumption DEF Idle, CallStates
<1>2. call[c].leader = None
  BY DEF OneFlight
<1>3. call' \in [Calls -> CallStates] /\ call'[c] = Idle /\ \A d \in Calls \ {c} : call'[d] = call[d]
  BY <1>1 DEF TypeOK
<1> QED
  BY <1>1, <1>2, <1>3, Names DEF Calm, SameWait, SameLogins, SameReads, SameDone

\* A call ends, and the answers of those on topics X will be dropped.
LEMMA Fading ==
    ASSUME TypeOK, OneFlight, NEW c \in Calls, call[c].stage # "WAITING",
           NEW X, "login" \notin X,
           call' = [d \in Calls |-> IF d = c THEN Idle
                                    ELSE [call[d] EXCEPT !.wanted = @ /\ call[d].what \notin X]]
    PROVE  call' \in [Calls -> CallStates] /\ Calm
<1>1. Idle \in CallStates /\ Idle.what = None /\ Idle.leader = None /\ Idle.stage = "IDLE"
      /\ ~Idle.done
  BY WebAssumption DEF Idle, CallStates
<1>2. call[c].leader = None
  BY DEF OneFlight
<1>3. ASSUME NEW d \in Calls \ {c}
      PROVE  /\ call'[d] \in CallStates /\ call'[d].stage = call[d].stage
             /\ call'[d].what = call[d].what /\ call'[d].answer = call[d].answer
             /\ call'[d].leader = call[d].leader /\ call'[d].done = call[d].done
             /\ call'[d].wanted = (call[d].wanted /\ call[d].what \notin X)
  <2>1. call[d] \in CallStates /\ call'[d] = [call[d] EXCEPT !.wanted = @ /\ call[d].what \notin X]
    BY DEF TypeOK
  <2> QED
    BY <2>1 DEF CallStates
<1>4. call'[c] = Idle
  OBVIOUS
<1>5. call' \in [Calls -> CallStates]
  BY <1>1, <1>3, <1>4
<1>6. ASSUME NEW d \in Calls \ {c}, call[d].what = "login" PROVE call'[d].wanted = call[d].wanted
  <2>1. call[d].wanted \in BOOLEAN /\ call[d].what \notin X
    BY <1>6 DEF TypeOK, CallStates
  <2> QED
    BY <1>3, <2>1
<1>7. SameWait /\ SameDone /\ SameReads
  <2>1. SameWait /\ SameReads
    BY <1>1, <1>2, <1>3, <1>4, Names DEF SameWait, SameReads
  <2>2. ASSUME NEW d \in Calls
        PROVE  /\ call'[d].done =>
                     /\ call[d].done
                     /\ call[d].stage \in {"OK", "FAILED"} => call'[d].stage \in {"OK", "FAILED"}
               /\ call'[d].what = "acceptInvite" =>
                     call[d].what = "acceptInvite" /\ (call[d].done => call'[d].done)
    <3>1. CASE d = c
      BY <1>1, <1>4, <3>1, Names
    <3>2. CASE d # c
      BY <1>3, <3>2
    <3> QED
      BY <3>1, <3>2
  <2> QED
    BY <2>1, <2>2 DEF SameDone
<1>8. SameLogins
  BY <1>1, <1>3, <1>4, <1>6, Names DEF SameLogins
<1> QED
  BY <1>5, <1>7, <1>8 DEF Calm

\* A call starts.
LEMMA Sent ==
    ASSUME TypeOK, NEW c \in Calls, NEW what \in Kinds, NEW t \in 0..MaxTokens, call[c] = Idle,
           call' = [call EXCEPT ![c] = [Idle EXCEPT !.stage = "SENT", !.what = what, !.token = t]]
    PROVE  /\ call' \in [Calls -> CallStates] /\ SameWait
           /\ call'[c].what = what /\ call'[c].stage = "SENT" /\ call'[c].wanted
           /\ ~call'[c].done
           /\ \A d \in Calls \ {c} : call'[d] = call[d]
<1>1. PICK k : k = [Idle EXCEPT !.stage = "SENT", !.what = what, !.token = t]
  OBVIOUS
<1>2. /\ k \in CallStates /\ k.what = what /\ k.stage = "SENT" /\ k.wanted /\ k.leader = None
      /\ ~k.done /\ Idle.leader = None /\ Idle.stage = "IDLE"
  BY <1>1, WebAssumption DEF Idle, CallStates
<1>3. call' \in [Calls -> CallStates] /\ call'[c] = k /\ \A d \in Calls \ {c} : call'[d] = call[d]
  BY <1>1, <1>2 DEF TypeOK
<1> QED
  BY <1>2, <1>3 DEF SameWait

\* A call starts that is neither a sign in nor accepts an invitation.
LEMMA Sending ==
    ASSUME TypeOK, NEW c \in Calls, NEW what \in Kinds \ {"login", "acceptInvite"},
           NEW t \in 0..MaxTokens, call[c] = Idle,
           call' = [call EXCEPT ![c] = [Idle EXCEPT !.stage = "SENT", !.what = what, !.token = t]],
           what \in Queries => what \in Watched
    PROVE  call' \in [Calls -> CallStates] /\ Calm
<1>1. /\ call' \in [Calls -> CallStates] /\ SameWait
      /\ call'[c].what = what /\ call'[c].stage = "SENT" /\ ~call'[c].done
      /\ \A d \in Calls \ {c} : call'[d] = call[d]
  BY Sent
<1> QED
  BY <1>1 DEF Calm, SameLogins, SameReads, SameDone

\* Nothing happens to any call.
LEMMA CallsSame ==
    ASSUME call' = call
    PROVE  Calm
BY DEF Calm, SameWait, SameLogins, SameReads, SameDone

-----------------------------------------------------------------------------
(* What keeps each part of the invariant *)

\* No call starts or stops waiting, and no refresh is posted or over.
LEMMA KeepFlight ==
    ASSUME OneFlight, SameWait, flight' = flight,
           \A d \in Calls : post'[d].stage = "NONE" <=> post[d].stage = "NONE"
    PROVE  OneFlight'
BY DEF OneFlight, SameWait

\* No token is issued or sent; the jar is at most emptied.
LEMMA KeepTokens ==
    ASSUME TypeOK, TypeOK', TokensFit, post' = post, cookie' \in {cookie, 0},
           server'.token = server.token, server'.since = server.since,
           server'.alive => server.alive, server'.replayed => server.replayed
    PROVE  TokensFit'
<1>1. server.token \in Nat /\ server.since \in Nat /\ cookie \in Nat
  BY WebAssumption DEF TypeOK, ServerStates
<1>2. Current(0)
  BY <1>1 DEF TokensFit, Current
<1> QED
  BY <1>1, <1>2 DEF TokensFit, Current

\* No sign in starts, is served or is over.
LEMMA KeepLogins ==
    ASSUME TypeOK, TypeOK', LoginsFit, SameLogins, UNCHANGED post, cookie' \in {cookie, 0},
           server'.token = server.token, server'.since = server.since
    PROVE  LoginsFit'
<1>1. cookie \in Nat /\ \A d \in Calls : call[d].answer \in Nat
  BY WebAssumption DEF TypeOK, CallStates
<1> QED
  BY <1>1 DEF LoginsFit, SameLogins

\* Entries are emptied or grow stale, and confirmations are forgotten.
LEMMA KeepReads ==
    ASSUME TypeOK, TypeOK', ReadsFit, SameReads,
           server'.open => server.open, server'.writes = server.writes,
           server'.content = server.content,
           \A q \in Queries : /\ shown'[q] \in {shown[q], 0}
                              /\ cache'[q] \in {cache[q], Empty, [cache[q] EXCEPT !.stale = TRUE]}
    PROVE  ReadsFit'
<1>1. \A q \in Queries : /\ shown[q] \in Nat /\ cache[q] \in Entries /\ server.content[q] \in Nat
  BY WebAssumption DEF TypeOK, ServerStates
<1>2. "detail" \in Queries
  BY Names
<1>3. ASSUME NEW q \in Queries
      PROVE  /\ server.content[q] <= server.writes
             /\ shown'[q] <= server.content[q]
             /\ Present(cache'[q]) => q \in Watched \cup {"detail"}
             /\ ~cache'[q].stale => Present(cache'[q]) /\ cache'[q].data >= shown'[q]
  <2>1. /\ server.content[q] <= server.writes
        /\ shown[q] <= server.content[q] /\ shown[q] \in Nat /\ server.content[q] \in Nat
        /\ Present(cache[q]) => q \in Watched \cup {"detail"}
        /\ ~cache[q].stale => Present(cache[q]) /\ cache[q].data >= shown[q]
    BY <1>1 DEF ReadsFit
  <2>2. shown'[q] <= shown[q] /\ shown'[q] \in Nat
    BY <2>1
  <2>3. CASE cache'[q] = cache[q]
    <3>1. cache[q].data \in Int
      BY <1>1, WebAssumption DEF Entries, Missing
    <3> QED
      BY <2>1, <2>2, <2>3, <3>1
  <2>4. CASE cache'[q] = Empty
    BY <2>1, <2>2, <2>4 DEF Empty, Present, Missing
  <2>5. CASE cache'[q] = [cache[q] EXCEPT !.stale = TRUE]
    <3>1. cache'[q].stale /\ cache'[q].data = cache[q].data
      BY <1>1, <2>5 DEF Entries
    <3> QED
      BY <2>1, <2>2, <3>1 DEF Present
  <2> QED
    BY <2>3, <2>4, <2>5
<1>4. ASSUME NEW c \in Calls
      PROVE  /\ call'[c].what \in Queries => call'[c].what \in Watched
             /\ call'[c].stage = "OK" /\ call'[c].what \in Queries =>
                  /\ call'[c].answer <= MaxWrites + 1
                  /\ call'[c].wanted => call'[c].answer >= shown'[call'[c].what]
             /\ call'[c].stage = "OK" /\ call'[c].what \in DOMAIN Mutation =>
                  /\ call'[c].answer <= MaxWrites + 1
                  /\ \A q \in Mutation[call'[c].what].writes \cap Watched :
                        call'[c].answer <= server.content[q]
  <2>1. call'[c].what \in Queries => call'[c].what \in Watched
    BY DEF ReadsFit, SameReads
  <2>2. ASSUME call'[c].stage = "OK", call'[c].what \in Queries
        PROVE  /\ call'[c].answer <= MaxWrites + 1
               /\ call'[c].wanted => call'[c].answer >= shown'[call'[c].what]
    <3>1. /\ call'[c].what = call[c].what /\ call[c].stage = "OK"
          /\ call'[c].answer = call[c].answer /\ (call'[c].wanted => call[c].wanted)
      BY <2>2 DEF SameReads
    <3>2. call[c].answer \in Nat /\ shown[call[c].what] \in Nat /\ shown'[call[c].what] \in {shown[call[c].what], 0}
      BY <1>1, <2>2, <3>1 DEF TypeOK, CallStates
    <3>3. call[c].answer <= MaxWrites + 1 /\ (call[c].wanted => call[c].answer >= shown[call[c].what])
      BY <2>2, <3>1 DEF ReadsFit
    <3> QED
      BY <3>1, <3>2, <3>3
  <2>3. ASSUME call'[c].stage = "OK", call'[c].what \in DOMAIN Mutation
        PROVE  /\ call'[c].answer <= MaxWrites + 1
               /\ \A q \in Mutation[call'[c].what].writes \cap Watched :
                        call'[c].answer <= server.content[q]
    BY <2>3 DEF SameReads, ReadsFit
  <2> QED
    BY <2>1, <2>2, <2>3
<1>5. shown'["detail"] = 0
  BY <1>2 DEF ReadsFit
<1> QED
  BY <1>3, <1>4, <1>5 DEF ReadsFit

\* The page is the same as before, or has just been mounted.
LEMMA KeepDone ==
    ASSUME TypeOK, CarriedOutOnce, SameDone,
           \/ landing' = Mounted
           \/ landing'.by = landing.by /\ landing'.mine = landing.mine
    PROVE  CarriedOutOnce'
<1>1. ASSUME NEW d \in Calls, call'[d].done PROVE call'[d].stage \in {"OK", "FAILED"}
  BY <1>1 DEF CarriedOutOnce, SameDone
<1>2. ASSUME landing'.mine
      PROVE  /\ landing'.by # None
             /\ call'[landing'.by].what = "acceptInvite" => call'[landing'.by].done
  <2>0. landing.mine \in BOOLEAN
    BY DEF TypeOK, Landings
  <2>1. landing'.by = landing.by /\ landing.mine
    <3>1. landing' # Mounted
      BY <1>2 DEF Mounted
    <3>2. landing'.by = landing.by /\ landing'.mine = landing.mine
      BY <3>1
    <3> QED
      BY <1>2, <2>0, <3>2
  <2>2. landing.by \in Calls
    BY <2>1 DEF CarriedOutOnce, TypeOK, Landings
  <2> QED
    BY <2>1, <2>2 DEF CarriedOutOnce, SameDone
<1> QED
  BY <1>1, <1>2 DEF CarriedOutOnce

\* The same for the whole invariant.
LEMMA Keeping ==
    ASSUME WInv, TypeOK', Calm, UNCHANGED <<post, flight>>, cookie' \in {cookie, 0},
           server'.token = server.token, server'.since = server.since,
           server'.alive => server.alive, server'.replayed => server.replayed,
           server'.open => server.open, server'.writes = server.writes,
           server'.content = server.content,
           \A q \in Queries : /\ shown'[q] \in {shown[q], 0}
                              /\ cache'[q] \in {cache[q], Empty, [cache[q] EXCEPT !.stale = TRUE]},
           \/ landing' = Mounted
           \/ landing'.by = landing.by /\ landing'.mine = landing.mine
    PROVE  WInv'
<1>1. OneFlight' /\ TokensFit' /\ LoginsFit'
  BY KeepFlight, KeepTokens, KeepLogins DEF WInv, Calm
<1>2. ReadsFit' /\ CarriedOutOnce'
  BY KeepReads, KeepDone DEF WInv, Calm
<1> QED
  BY <1>1, <1>2 DEF WInv

\* The same for a step that changes the calls alone.
LEMMA KeepingCalls ==
    ASSUME WInv, call' \in [Calls -> CallStates], Calm, UNCHANGED <<server, client, post, flight>>
    PROVE  WInv'
<1>1. UNCHANGED <<server, cookie, me, page, nav, landing, cache, shown, post, flight>>
  BY DEF client
<1>2. TypeOK'
  BY <1>1 DEF WInv, TypeOK
<1> QED
  BY <1>1, <1>2, Keeping

\* A page is entered, or waited for.
LEMMA Going ==
    ASSUME TypeOK, NEW to \in DOMAIN Pages, NEW who, Goto(to, who) \/ Enter(to, who)
    PROVE  /\ page' \in DOMAIN Pages /\ nav' \in DOMAIN Pages \cup {None}
           /\ landing' \in Landings /\ (landing' = landing \/ landing' = Mounted)
<1>1. /\ "login" \in DOMAIN Pages /\ Mounted \in Landings
      /\ page \in DOMAIN Pages /\ landing \in Landings
  BY Names DEF TypeOK, Mounted, Landings
<1>2. CASE Enter(to, who)
  BY <1>1, <1>2 DEF Enter
<1>3. CASE Goto(to, who)
  BY <1>1, <1>3 DEF Goto, Enter
<1> QED
  BY <1>2, <1>3

-----------------------------------------------------------------------------
(* Each action preserves WInv *)

\* The session: tokens expire, it is revoked elsewhere, the invitation is withdrawn.
LEMMA EnvironmentStep ==
    ASSUME WInv, Environment
    PROVE  WInv'
<1>1. UNCHANGED <<cookie, call, post, flight, me, page, nav, landing, cache, shown>>
  BY DEF Environment, Expire, Revoke, Withdraw, client
<1>2. /\ server' \in ServerStates
      /\ server'.token = server.token /\ server'.since = server.since
      /\ server'.alive => server.alive
      /\ server'.replayed => server.replayed
      /\ server'.open => server.open
      /\ server'.writes = server.writes /\ server'.content = server.content
  <2>1. server \in ServerStates
    BY DEF WInv, TypeOK
  <2>2. CASE Expire
    BY <2>1, <2>2 DEF Expire, ServerStates
  <2>3. CASE Revoke
    BY <2>1, <2>3 DEF Revoke, ServerStates
  <2>4. CASE Withdraw
    BY <2>1, <2>4 DEF Withdraw, ServerStates
  <2> QED
    BY <2>2, <2>3, <2>4 DEF Environment
<1>3. TypeOK'
  BY <1>1, <1>2 DEF WInv, TypeOK
<1> QED
  BY <1>1, <1>2, <1>3, CallsSame, Keeping

\* Steps of the server and the network that bring neither tokens nor lists.
LEMMA QuietAnswers ==
    ASSUME WInv, NEW c \in Calls, Deny(c) \/ Lose(c)
    PROVE  WInv'
<1>1. PICK st \in {"DENIED", "FAILED"} :
        /\ call' = Reply(c, st, 0)
        /\ call[c].stage # "WAITING" /\ (call[c].stage \in {"OK", "FAILED"} => st = "FAILED")
  BY DEF Deny, Lose
<1>2. call' \in [Calls -> CallStates] /\ Calm
  BY <1>1, Replying DEF WInv
<1>3. UNCHANGED <<server, client, post, flight>>
  BY DEF Deny, Lose
<1> QED
  BY <1>2, <1>3, KeepingCalls

\* Logging out: the session is revoked.
LEMMA LogoutServed ==
    ASSUME WInv, NEW c \in Calls, ServeLogout(c)
    PROVE  WInv'
<1>1. call' \in [Calls -> CallStates] /\ Calm
  BY Replying DEF WInv, ServeLogout
<1>2. UNCHANGED <<cookie, me, page, nav, landing, cache, shown, post, flight>>
  BY DEF ServeLogout, client
<1>3. server \in ServerStates /\ server' = [server EXCEPT !.alive = FALSE]
  BY DEF WInv, TypeOK, ServeLogout
<1>4. /\ server' \in ServerStates /\ ~server'.alive
      /\ server'.token = server.token /\ server'.since = server.since
      /\ server'.replayed = server.replayed /\ server'.open = server.open
      /\ server'.writes = server.writes /\ server'.content = server.content
  BY <1>3 DEF ServerStates
<1>5. TypeOK'
  BY <1>1, <1>2, <1>4 DEF WInv, TypeOK
<1> QED
  BY <1>1, <1>2, <1>4, <1>5, Keeping

\* A list is read: its answer reflects all that the user has seen confirmed.
LEMMA ReadServed ==
    ASSUME WInv, NEW c \in Calls, ServeRead(c)
    PROVE  WInv'
<1>1. UNCHANGED <<server, client, post, flight>>
  BY DEF ServeRead
<1>2. CASE call[c].what \in {"me", "popup"}
  <2>1. call' = Reply(c, "OK", 0) /\ call[c].stage = "SENT"
    BY <1>2, Names DEF ServeRead
  <2>2. call' \in [Calls -> CallStates] /\ Calm
    BY <1>2, <2>1, Replying DEF WInv
  <2> QED
    BY <1>1, <2>2, KeepingCalls
<1>3. CASE call[c].what \in Queries
  <2>1. PICK q \in Queries : q = call[c].what
    BY <1>3
  <2>2. PICK n : n = server.content[q]
    OBVIOUS
  <2>3. call' = Reply(c, "OK", n) /\ call[c].stage = "SENT"
    BY <1>3, <2>1, <2>2 DEF ServeRead
  <2>4. n \in Nat /\ n <= MaxWrites + 1 /\ shown[q] <= n
    BY <2>2, WebAssumption DEF WInv, TypeOK, ServerStates, ReadsFit
  <2>5. PICK k : k = [call[c] EXCEPT !.stage = "OK", !.answer = n, !.token = 0]
    OBVIOUS
  <2>6. /\ k \in CallStates /\ k.stage = "OK" /\ k.what = q /\ k.answer = n
        /\ k.wanted = call[c].wanted /\ k.leader = call[c].leader /\ k.done = call[c].done
    <3>1. call[c] \in CallStates /\ 0 \in 0..MaxTokens
      BY WebAssumption DEF WInv, TypeOK
    <3> QED
      BY <2>1, <2>4, <2>5, <3>1 DEF CallStates
  <2>7. call' \in [Calls -> CallStates] /\ call'[c] = k /\ \A d \in Calls \ {c} : call'[d] = call[d]
    BY <2>3, <2>5, <2>6 DEF Reply, WInv, TypeOK
  <2>8. TypeOK'
    BY <1>1, <2>7 DEF WInv, TypeOK, client
  <2>9. SameWait /\ SameLogins /\ SameDone
    BY <2>1, <2>3, <2>6, <2>7, Names DEF SameWait, SameLogins, SameDone
  <2>10. ReadsFit'
    <3>1. q \in Watched /\ q \notin DOMAIN Mutation
      BY <2>1, Names DEF WInv, ReadsFit
    <3> QED
      BY <1>1, <2>4, <2>6, <2>7, <3>1 DEF WInv, ReadsFit, client
  <2>11. OneFlight' /\ TokensFit' /\ LoginsFit' /\ CarriedOutOnce'
    BY <1>1, <2>8, <2>9, KeepFlight, KeepTokens, KeepLogins, KeepDone DEF WInv, client
  <2> QED
    BY <2>8, <2>10, <2>11 DEF WInv
<1> QED
  BY <1>2, <1>3 DEF ServeRead

\* A mutation is refused, or carried out: then every list it writes reflects it.
LEMMA MutationServed ==
    ASSUME WInv, NEW c \in Calls, ServeMutation(c)
    PROVE  WInv'
<1>1. UNCHANGED <<cookie, me, page, nav, cache, shown, post, flight>>
  BY DEF ServeMutation
<1>2. PICK m \in DOMAIN Mutation : m = call[c].what /\ call[c].stage = "SENT"
  BY DEF ServeMutation
<1>3. CASE call' = Reply(c, "CONFLICT", 0) /\ UNCHANGED <<server, landing>>
  <2>1. call' \in [Calls -> CallStates] /\ Calm
    BY <1>2, <1>3, Replying DEF WInv
  <2> QED
    BY <1>1, <1>3, <2>1, KeepingCalls DEF client
<1>4. CASE /\ IF m = "acceptInvite" THEN server.open ELSE server.writes < MaxWrites
           /\ server' = Write(m)
           /\ call' = [Reply(c, "OK", server.writes + 1) EXCEPT ![c].done = TRUE]
           /\ landing' = [landing EXCEPT !.mine = @ \/ (landing.by = c /\ m = "acceptInvite")]
  <2>1. PICK n : n = server.writes + 1
    OBVIOUS
  <2>2. server \in ServerStates /\ server.writes \in Nat /\ MaxWrites \in Nat
        /\ \A q \in Queries : server.content[q] \in Nat /\ shown[q] \in Nat
    BY WebAssumption DEF WInv, TypeOK, ServerStates
  <2>3. n \in 0..(MaxWrites + 1) /\ n \in Nat /\ server.writes < n
        /\ (m = "acceptInvite" \/ n <= MaxWrites)
    BY <1>4, <2>1, <2>2 DEF WInv, ReadsFit
  <2>4. PICK new \in [Queries -> 0..(MaxWrites + 1)] :
          new = [q \in Queries |-> IF q \in Mutation[m].writes \cap Watched THEN n
                                   ELSE server.content[q]]
    <3>1. server.content \in [Queries -> 0..(MaxWrites + 1)]
      BY <2>2 DEF ServerStates
    <3> QED
      BY <2>3, <3>1
  <2>5. server' = [server EXCEPT !.writes = n, !.content = new, !.open = @ /\ m # "acceptInvite"]
    BY <1>4, <2>1, <2>4 DEF Write
  <2>6. /\ server' \in ServerStates /\ server'.writes = n /\ server'.content = new
        /\ server'.open => m # "acceptInvite"
        /\ server'.token = server.token /\ server'.since = server.since
        /\ server'.alive = server.alive /\ server'.replayed = server.replayed
    BY <2>2, <2>3, <2>5 DEF ServerStates
  <2>7. PICK k : k = [call[c] EXCEPT !.stage = "OK", !.answer = n, !.token = 0, !.done = TRUE]
    OBVIOUS
  <2>8. /\ k \in CallStates /\ k.stage = "OK" /\ k.what = m /\ k.answer = n
        /\ k.wanted = call[c].wanted /\ k.leader = call[c].leader /\ k.done
    <3>1. call[c] \in CallStates /\ 0 \in 0..MaxTokens
      BY WebAssumption DEF WInv, TypeOK
    <3> QED
      BY <1>2, <2>3, <2>7, <3>1 DEF CallStates
  <2>9. call' \in [Calls -> CallStates] /\ call'[c] = k /\ \A d \in Calls \ {c} : call'[d] = call[d]
    BY <1>4, <2>1, <2>7, <2>8 DEF Reply, WInv, TypeOK
  <2>10. /\ landing' \in Landings
         /\ landing'.by = landing.by
         /\ landing'.mine = (landing.mine \/ (landing.by = c /\ m = "acceptInvite"))
    BY <1>4 DEF WInv, TypeOK, Landings
  <2>11. TypeOK'
    BY <1>1, <2>6, <2>9, <2>10 DEF WInv, TypeOK
  <2>12. SameWait /\ SameLogins
    BY <1>2, <2>8, <2>9, Names DEF SameWait, SameLogins
  <2>13. OneFlight' /\ TokensFit' /\ LoginsFit'
    BY <1>1, <2>6, <2>11, <2>12, KeepFlight, KeepTokens, KeepLogins DEF WInv
  <2>14. ReadsFit'
    <3>1. \A q \in Queries : /\ server.content[q] <= new[q] /\ new[q] <= n
                             /\ q \in Mutation[m].writes \cap Watched => new[q] = n
      BY <2>2, <2>3, <2>4 DEF WInv, ReadsFit
    <3>2. ASSUME NEW q \in Queries
          PROVE  /\ new[q] <= n /\ shown[q] <= new[q]
                 /\ Present(cache[q]) => q \in Watched \cup {"detail"}
                 /\ ~cache[q].stale => Present(cache[q]) /\ cache[q].data >= shown[q]
      <4>1. new[q] \in Nat /\ server.content[q] \in Nat /\ shown[q] \in Nat /\ shown[q] <= server.content[q]
        BY <2>2, <2>4, WebAssumption DEF WInv, ReadsFit
      <4> QED
        BY <3>1, <4>1 DEF WInv, ReadsFit
    <3>3. ASSUME NEW d \in Calls
          PROVE  /\ call'[d].what \in Queries => call'[d].what \in Watched
                 /\ call'[d].stage = "OK" /\ call'[d].what \in Queries =>
                      /\ call'[d].answer <= MaxWrites + 1
                      /\ call'[d].wanted => call'[d].answer >= shown[call'[d].what]
                 /\ call'[d].stage = "OK" /\ call'[d].what \in DOMAIN Mutation =>
                      /\ call'[d].answer <= MaxWrites + 1
                      /\ \A q \in Mutation[call'[d].what].writes \cap Watched :
                            call'[d].answer <= new[q]
      <4>1. CASE d = c
        <5>1. m \notin Queries /\ Mutation[m].writes \subseteq Queries
          BY Names, Effects
        <5> QED
          BY <2>3, <2>8, <2>9, <3>1, <4>1, <5>1
      <4>2. CASE d # c
        <5>1. call'[d] = call[d]
          BY <2>9, <4>2
        <5>2. ASSUME call[d].stage = "OK", call[d].what \in DOMAIN Mutation,
                     NEW q \in Mutation[call[d].what].writes \cap Watched
              PROVE  call[d].answer <= new[q]
          <6>1. q \in Queries /\ call[d].answer <= server.content[q]
            BY <5>2, WebAssumption DEF WInv, ReadsFit
          <6>2. call[d].answer \in Nat /\ server.content[q] \in Nat /\ new[q] \in Nat
            BY <2>2, <2>4, <6>1, WebAssumption DEF WInv, TypeOK, CallStates
          <6> QED
            BY <3>1, <6>1, <6>2
        <5> QED
          BY <5>1, <5>2 DEF WInv, ReadsFit
      <4> QED
        BY <4>1, <4>2
    <3>4. server'.open => n <= MaxWrites
      BY <2>3, <2>6
    <3> QED
      BY <1>1, <2>6, <3>2, <3>3, <3>4 DEF WInv, ReadsFit
  <2>15. CarriedOutOnce'
    <3>1. landing.by # None => landing.by \in Calls
      BY DEF WInv, TypeOK, Landings
    <3>2. \A d \in Calls : call'[d].done => call'[d].stage \in {"OK", "FAILED"}
      BY <2>8, <2>9 DEF WInv, CarriedOutOnce
    <3>3. CASE landing.by = c
      BY <2>8, <2>9, <2>10, <3>2, <3>3, Names DEF CarriedOutOnce
    <3>4. CASE landing.by # c
      BY <2>9, <2>10, <3>1, <3>2, <3>4 DEF WInv, CarriedOutOnce
    <3> QED
      BY <3>3, <3>4
  <2> QED
    BY <2>11, <2>13, <2>14, <2>15 DEF WInv
<1> QED
  BY <1>2, <1>3, <1>4 DEF ServeMutation

\* A sign in brings tokens newer than all that are under way.
LEMMA SignInTokens ==
    ASSUME TokensFit, server.token \in Nat, cookie \in Nat, NEW n \in Nat, n = server.token + 1,
           post' = post, server'.token = n, server'.since = n, cookie' \in {cookie, n},
           server'.replayed = server.replayed,
           \A d \in Calls : post[d].token \in Nat
                            /\ (post[d].stage \in {"SENT", "GRANTED"} => post[d].token < n)
    PROVE  TokensFit'
<1>1. cookie' <= n /\ n # 0 /\ Current(cookie)'
  BY DEF TokensFit, Current
<1>2. ASSUME NEW d \in Calls, post[d].stage \in {"SENT", "GRANTED"}
      PROVE  Current(post[d].token)' /\ post'[d].token <= n
  <2>1. PICK t : t = post[d].token
    OBVIOUS
  <2>2. t \in Nat /\ t < n
    BY <1>2, <2>1
  <2>3. t <= n /\ post'[d].token = t /\ server'.since = n
    BY <2>1, <2>2
  <2> QED
    BY <2>1, <2>2, <2>3 DEF Current
<1>3. ~server'.replayed
  BY DEF TokensFit
<1> QED
  BY <1>1, <1>2, <1>3 DEF TokensFit

\* A sign in: its tokens are newer than all that are under way.
LEMMA LoginServed ==
    ASSUME WInv, NEW c \in Calls, ServeLogin(c)
    PROVE  WInv'
<1>1. /\ call[c].stage = "SENT" /\ call[c].what = "login" /\ server.token < MaxTokens
      /\ server' = SignedIn /\ call' = Reply(c, "OK", server.token + 1)
      /\ UNCHANGED <<cookie, me, page, nav, landing, cache, shown, post, flight>>
  BY DEF ServeLogin, client
<1>2. server \in ServerStates /\ server.token \in Nat /\ server.since \in Nat /\ cookie \in Nat
      /\ MaxTokens \in Nat
  BY WebAssumption DEF WInv, TypeOK, ServerStates
<1>3. PICK n \in Nat : n = server.token + 1 /\ n \in 0..MaxTokens
  BY <1>1, <1>2
<1>4. /\ server' \in ServerStates /\ server'.token = n /\ server'.since = n
      /\ server'.replayed = server.replayed /\ server'.open = server.open
      /\ server'.writes = server.writes /\ server'.content = server.content
  BY <1>1, <1>2, <1>3 DEF SignedIn, ServerStates
<1>5. PICK k : k = [call[c] EXCEPT !.stage = "OK", !.answer = n, !.token = 0]
  OBVIOUS
<1>6. /\ k \in CallStates /\ k.stage = "OK" /\ k.what = "login" /\ k.answer = n
      /\ k.wanted = call[c].wanted /\ k.leader = call[c].leader /\ k.done = call[c].done
  <2>1. call[c] \in CallStates /\ 0 \in 0..MaxTokens
    BY WebAssumption DEF WInv, TypeOK
  <2> QED
    BY <1>1, <1>5, <2>1 DEF CallStates
<1>7. call' \in [Calls -> CallStates] /\ call'[c] = k /\ \A d \in Calls \ {c} : call'[d] = call[d]
  BY <1>1, <1>3, <1>5, <1>6 DEF Reply, WInv, TypeOK
<1>8. TypeOK'
  BY <1>1, <1>4, <1>7 DEF WInv, TypeOK
<1>9. SameWait /\ SameReads /\ SameDone
  BY <1>1, <1>6, <1>7, Names DEF SameWait, SameReads, SameDone
<1>10. OneFlight' /\ ReadsFit' /\ CarriedOutOnce'
  BY <1>1, <1>4, <1>8, <1>9, KeepFlight, KeepReads, KeepDone DEF WInv
<1>11. /\ cookie < n
       /\ \A d \in Calls : post[d].token \in Nat
                           /\ (post[d].stage \in {"SENT", "GRANTED"} => post[d].token < n)
  <2>1. \A d \in Calls : post[d].token \in Nat
    BY WebAssumption DEF WInv, TypeOK, PostStates
  <2> QED
    BY <1>2, <1>3, <2>1 DEF WInv, TokensFit
<1>12. TokensFit'
  BY <1>1, <1>2, <1>3, <1>4, <1>11, SignInTokens DEF WInv
<1>13. LoginsFit'
  BY <1>1, <1>4, <1>6, <1>7, <1>11 DEF WInv, LoginsFit
<1> QED
  BY <1>8, <1>10, <1>12, <1>13 DEF WInv

\* The same through a popup, whose page has set the cookies.
LEMMA PopupStep ==
    ASSUME WInv, NEW c \in Calls, PopupSignsIn(c)
    PROVE  WInv'
<1>1. server \in ServerStates /\ server.token \in Nat /\ server.since \in Nat /\ cookie \in Nat
      /\ MaxTokens \in Nat
  BY WebAssumption DEF WInv, TypeOK, ServerStates
<1>2. PICK n \in Nat : n = server.token + 1 /\ n \in 0..MaxTokens
  BY <1>1 DEF PopupSignsIn
<1>3. /\ cookie' = n /\ server' = SignedIn /\ call[c] = Idle
      /\ call' = [call EXCEPT ![c] = [Idle EXCEPT !.stage = "SENT", !.what = "popup", !.token = n]]
      /\ UNCHANGED <<me, page, nav, landing, cache, shown, post, flight>>
  BY <1>2 DEF PopupSignsIn
<1>4. /\ server' \in ServerStates /\ server'.token = n /\ server'.since = n
      /\ server'.replayed = server.replayed /\ server'.open = server.open
      /\ server'.writes = server.writes /\ server'.content = server.content
  BY <1>1, <1>2, <1>3 DEF SignedIn, ServerStates
<1>5. call' \in [Calls -> CallStates] /\ Calm
  BY <1>2, <1>3, Names, Sending DEF WInv
<1>6. TypeOK'
  BY <1>2, <1>3, <1>4, <1>5 DEF WInv, TypeOK
<1>7. OneFlight' /\ ReadsFit' /\ CarriedOutOnce'
  BY <1>3, <1>4, <1>5, <1>6, KeepFlight, KeepReads, KeepDone DEF WInv, Calm
<1>8. \A d \in Calls : post[d].token \in Nat
                       /\ (post[d].stage \in {"SENT", "GRANTED"} => post[d].token < n)
  <2>1. \A d \in Calls : post[d].token \in Nat
    BY WebAssumption DEF WInv, TypeOK, PostStates
  <2> QED
    BY <1>1, <1>2, <2>1 DEF WInv, TokensFit
<1>9. TokensFit'
  BY <1>1, <1>2, <1>3, <1>4, <1>8, SignInTokens DEF WInv
<1>10. LoginsFit'
  <2> SUFFICES ASSUME NEW d \in Calls, call'[d].what = "login"
               PROVE  /\ call'[d].wanted
                      /\ \A e \in Calls \ {d} : call'[e].what # "login"
                      /\ call'[d].stage = "OK" => call'[d].answer < n
    BY <1>4 DEF LoginsFit
  <2>1. /\ call[d].what = "login" /\ call'[d].wanted = call[d].wanted
        /\ call'[d].stage = "OK" => call[d].stage = "OK" /\ call'[d].answer = call[d].answer
    BY <1>5 DEF Calm, SameLogins
  <2>2. call[d].wanted /\ \A e \in Calls \ {d} : call[e].what # "login"
    BY <2>1 DEF WInv, LoginsFit
  <2>3. \A e \in Calls \ {d} : call'[e].what # "login"
    BY <1>5, <2>2 DEF Calm, SameLogins
  <2>4. call[d].stage = "OK" => call[d].answer < n
    <3>1. call[d].answer \in Nat /\ server.since <= server.token
      BY DEF WInv, TypeOK, CallStates, TokensFit
    <3>2. call[d].stage = "OK" => call[d].answer < server.since \/ call[d].answer = server.token
      BY <2>1 DEF WInv, LoginsFit
    <3> QED
      BY <1>1, <1>2, <3>1, <3>2
  <2> QED
    BY <2>1, <2>2, <2>3, <2>4
<1> QED
  BY <1>6, <1>7, <1>9, <1>10 DEF WInv

\* The form is sent once: the button waits for its answer.
LEMMA SubmitStep ==
    ASSUME WInv, NEW c \in Calls, Submit(c)
    PROVE  WInv'
<1>1. /\ UNCHANGED <<server, cookie, me, page, nav, landing, cache, shown, post, flight>>
      /\ call[c] = Idle /\ "login" \in Kinds /\ cookie \in 0..MaxTokens
      /\ call' = [call EXCEPT ![c] = [Idle EXCEPT !.stage = "SENT", !.what = "login", !.token = cookie]]
  BY Names DEF Submit, Send, client, WInv, TypeOK
<1>2. /\ call' \in [Calls -> CallStates] /\ SameWait
      /\ call'[c].what = "login" /\ call'[c].stage = "SENT" /\ call'[c].wanted
      /\ ~call'[c].done
      /\ \A d \in Calls \ {c} : call'[d] = call[d]
  BY <1>1, Sent DEF WInv
<1>3. TypeOK'
  BY <1>1, <1>2 DEF WInv, TypeOK
<1>4. SameReads /\ SameDone
  BY <1>2, Names DEF SameReads, SameDone
<1>5. OneFlight' /\ ReadsFit' /\ CarriedOutOnce'
  BY <1>1, <1>2, <1>3, <1>4, KeepFlight, KeepReads, KeepDone DEF WInv
<1>6. TokensFit'
  BY <1>1, <1>3, KeepTokens DEF WInv
<1>7. \A d \in Calls : call[d].what # "login"
  BY DEF Submit, Live, WInv, LoginsFit
<1>8. LoginsFit'
  BY <1>2, <1>7 DEF LoginsFit
<1> QED
  BY <1>3, <1>5, <1>6, <1>8 DEF WInv

\* Its answer brings the cookies, unless newer ones have come meanwhile.
LEMMA LoginAnswered ==
    ASSUME WInv, NEW c \in Calls, AnswerLogin(c)
    PROVE  WInv'
<1>1. /\ UNCHANGED <<server, cache, shown, post, flight>> /\ call[c].what = "login"
      /\ call[c].stage # "WAITING" /\ call' = [call EXCEPT ![c] = Idle]
  BY DEF AnswerLogin, Answered
<1>2. call' \in [Calls -> CallStates] /\ Calm
  BY <1>1, Ending DEF WInv
<1>3. CASE UNCHANGED <<cookie, me, page, nav, landing>>
  BY <1>1, <1>2, <1>3, KeepingCalls DEF client
<1>4. CASE /\ call[c].stage = "OK" /\ cookie' = call[c].answer /\ me' = "USER"
           /\ \E to \in {"dashboard", "landing"} \cap Home : Enter(to, "USER")
  <2>1. /\ page' \in DOMAIN Pages /\ nav' \in DOMAIN Pages \cup {None}
        /\ landing' \in Landings /\ (landing' = landing \/ landing' = Mounted)
    BY <1>4, Going, Names DEF WInv
  <2>2. /\ server.token \in 0..MaxTokens /\ server.since \in Nat /\ server.since <= server.token
        /\ call[c].answer \in Nat /\ MaxTokens \in Nat
    BY WebAssumption DEF WInv, TypeOK, ServerStates, CallStates, TokensFit
  <2>3. Current(call[c].answer)
    BY <1>1, <1>4 DEF WInv, LoginsFit, Current
  <2>4. call[c].answer <= server.token /\ call[c].answer \in 0..MaxTokens
    BY <2>2, <2>3 DEF Current
  <2>5. TypeOK'
    BY <1>1, <1>2, <1>4, <2>1, <2>4 DEF WInv, TypeOK
  <2>6. OneFlight' /\ ReadsFit' /\ CarriedOutOnce'
    BY <1>1, <1>2, <2>1, <2>5, KeepFlight, KeepReads, KeepDone DEF WInv, Calm
  <2>7. TokensFit'
    BY <1>1, <1>4, <2>3, <2>4 DEF WInv, TokensFit, Current
  <2>8. LoginsFit'
    <3>1. \A d \in Calls \ {c} : call[d].what # "login"
      BY <1>1 DEF WInv, LoginsFit
    <3>2. call'[c].what # "login"
      BY <1>1, Names DEF WInv, TypeOK, Idle
    <3> QED
      BY <1>2, <3>1, <3>2 DEF LoginsFit, Calm, SameLogins
  <2> QED
    BY <2>5, <2>6, <2>7, <2>8 DEF WInv
<1> QED
  BY <1>3, <1>4 DEF AnswerLogin

-----------------------------------------------------------------------------
(* The refresh *)

\* A denied call waits for the refresh, which it posts when none is under way: then no
\* renewed cookies are on their way either.
LEMMA RenewStep ==
    ASSUME WInv, NEW c \in Calls, Renew(c)
    PROVE  WInv'
<1>1. /\ UNCHANGED <<server, cookie, me, page, nav, landing, cache, shown>>
      /\ call[c].stage = "DENIED" /\ ~IsAuthRoute(call[c].what)
  BY DEF Renew, Unauthorized, client
<1>2. PICK l \in Calls : l = Leader(c)
  BY DEF Leader, WInv, TypeOK
<1>3. PICK k : k = [call[c] EXCEPT !.stage = "WAITING", !.retried = TRUE, !.leader = l]
  OBVIOUS
<1>4. /\ k \in CallStates /\ k.stage = "WAITING" /\ k.leader = l /\ k.what = call[c].what
      /\ k.wanted = call[c].wanted /\ k.done = call[c].done
  <2>1. call[c] \in CallStates
    BY DEF WInv, TypeOK
  <2> QED
    BY <1>2, <1>3, <2>1 DEF CallStates
<1>5. call' \in [Calls -> CallStates] /\ call'[c] = k /\ \A d \in Calls \ {c} : call'[d] = call[d]
  BY <1>2, <1>3, <1>4 DEF Renew, WInv, TypeOK
<1>6. flight' = l /\ (flight = None \/ flight = l)
      /\ (flight = None => l = c)
  BY <1>2 DEF Renew, Leader
<1>7. call[c].leader = None /\ flight # c
  BY <1>1, Names DEF WInv, OneFlight
<1>8. \/ flight = l /\ l # c /\ post' = post
      \/ /\ flight = None /\ l = c /\ \A d \in Calls : post[d].stage = "NONE"
         /\ post' = [post EXCEPT ![c] = [stage |-> "SENT", token |-> cookie]]
  BY <1>2, <1>6, <1>7, Names DEF Renew, WInv, OneFlight
<1>9. post' \in [Calls -> PostStates]
  <2>1. [stage |-> "SENT", token |-> cookie] \in PostStates
    BY DEF WInv, TypeOK, PostStates
  <2> QED
    BY <1>8, <2>1 DEF WInv, TypeOK
<1>10. TypeOK'
  BY <1>1, <1>5, <1>6, <1>9 DEF WInv, TypeOK
<1>11. OneFlight'
  <2> SUFFICES ASSUME NEW d \in Calls
               PROVE  /\ post'[d].stage # "NONE" <=> l = d
                      /\ l = d => call'[d].leader = d
                      /\ call'[d].stage = "WAITING" <=> call'[d].leader # None
                      /\ call'[d].leader # None => call'[d].leader = l
    BY <1>6 DEF OneFlight
  <2>1. post'[d].stage # "NONE" <=> l = d
    BY <1>8 DEF WInv, OneFlight, TypeOK
  <2>2. CASE d = c
    BY <1>2, <1>4, <1>5, <2>1, <2>2, Names
  <2>3. CASE d # c
    BY <1>5, <1>6, <1>7, <2>1, <2>3, Names DEF WInv, OneFlight
  <2> QED
    BY <2>1, <2>2, <2>3
<1>12. TokensFit'
  <2>1. CASE flight = l /\ l # c /\ post' = post
    BY <1>1, <2>1 DEF WInv, TokensFit, Current
  <2>2. CASE /\ \A d \in Calls : post[d].stage = "NONE"
             /\ post' = [post EXCEPT ![c] = [stage |-> "SENT", token |-> cookie]]
    <3>1. Current(cookie) /\ cookie <= server.token
      BY <2>2 DEF WInv, TokensFit
    <3>2. \A d \in Calls : post'[d].stage \in {"SENT", "GRANTED"} => d = c /\ post'[d].token = cookie
      BY <2>2 DEF WInv, TypeOK
    <3> QED
      BY <1>1, <3>1, <3>2 DEF WInv, TokensFit, Current
  <2> QED
    BY <1>8, <2>1, <2>2
<1>13. LoginsFit'
  <2>1. \A d \in Calls : post'[d].stage \in {"SENT", "GRANTED"} =>
          \/ post[d].stage \in {"SENT", "GRANTED"} /\ post'[d].token = post[d].token
          \/ post'[d].token = cookie
    BY <1>8 DEF WInv, TypeOK
  <2>2. \A d \in Calls : call'[d].what = call[d].what /\ call'[d].wanted = call[d].wanted
          /\ (call'[d].stage = "OK" => call[d].stage = "OK" /\ call'[d].answer = call[d].answer)
    BY <1>4, <1>5
  <2> QED
    BY <1>1, <2>1, <2>2 DEF WInv, LoginsFit
<1>14. SameReads /\ SameDone
  BY <1>1, <1>4, <1>5 DEF SameReads, SameDone
<1>15. ReadsFit' /\ CarriedOutOnce'
  BY <1>1, <1>10, <1>14, KeepReads, KeepDone DEF WInv
<1> QED
  BY <1>10, <1>11, <1>12, <1>13, <1>15 DEF WInv

\* The refresh is served, or lost: it is no replay, since its token is the current one or
\* older than the last sign in.
LEMMA RefreshServed ==
    ASSUME WInv, NEW c \in Calls, ServeRefresh(c) \/ LoseRefresh(c)
    PROVE  WInv'
<1>1. /\ UNCHANGED <<call, cookie, me, page, nav, landing, cache, shown, flight>>
      /\ post[c].stage = "SENT"
  BY DEF ServeRefresh, LoseRefresh, client
<1>2. /\ server \in ServerStates /\ server.token \in Nat /\ server.since \in Nat /\ MaxTokens \in Nat
      /\ post[c] \in PostStates /\ post[c].token \in Nat /\ cookie \in Nat
  BY WebAssumption DEF WInv, TypeOK, ServerStates, PostStates
<1>3. flight = c /\ \A d \in Calls \ {c} : post[d].stage = "NONE"
  BY <1>1 DEF WInv, OneFlight
<1>4. Current(post[c].token) /\ Current(cookie) /\ post[c].token <= server.token
  BY <1>1, <1>3 DEF WInv, TokensFit
<1>5. CASE /\ server.alive /\ post[c].token = server.token /\ server.token < MaxTokens
           /\ server' = [server EXCEPT !.token = @ + 1]
           /\ post' = [post EXCEPT ![c] = [stage |-> "GRANTED", token |-> server.token + 1]]
  <2>1. PICK n \in Nat : n = server.token + 1 /\ n \in 0..MaxTokens
    BY <1>2, <1>5
  <2>2. /\ server' \in ServerStates /\ server'.token = n /\ server'.since = server.since
        /\ server'.alive = server.alive
        /\ server'.replayed = server.replayed /\ server'.open = server.open
        /\ server'.writes = server.writes /\ server'.content = server.content
    BY <1>2, <1>5, <2>1 DEF ServerStates
  <2>3. /\ post' \in [Calls -> PostStates] /\ post'[c].stage = "GRANTED" /\ post'[c].token = n
        /\ \A d \in Calls \ {c} : post'[d] = post[d]
    BY <1>5, <2>1 DEF WInv, TypeOK, PostStates
  <2>4. TypeOK'
    BY <1>1, <2>2, <2>3 DEF WInv, TypeOK
  <2>5. OneFlight' /\ ReadsFit' /\ CarriedOutOnce'
    <3>1. \A d \in Calls : post'[d].stage = "NONE" <=> post[d].stage = "NONE"
      BY <1>1, <2>3
    <3> QED
      BY <1>1, <2>2, <2>4, <3>1, CallsSame, KeepFlight, KeepReads, KeepDone DEF WInv, Calm
  <2>6. TokensFit'
    <3>1. server.since # 0 /\ server.since <= server.token /\ cookie <= server.token
      BY <1>5 DEF WInv, TokensFit
    <3> QED
      BY <1>1, <1>2, <1>3, <2>1, <2>2, <2>3, <3>1 DEF WInv, TokensFit, Current
  <2>7. LoginsFit'
    <3> SUFFICES ASSUME NEW d \in Calls, call[d].what = "login"
                 PROVE  /\ call[d].wanted /\ \A e \in Calls \ {d} : call[e].what # "login"
                        /\ call[d].stage = "OK" => call[d].answer < server.since
      BY <1>1, <2>2 DEF LoginsFit
    <3>1. call[d].stage = "OK" => call[d].answer < server.since
      BY <1>1, <1>2, <1>5 DEF WInv, LoginsFit
    <3> QED
      BY <3>1 DEF WInv, LoginsFit
  <2> QED
    BY <2>4, <2>5, <2>6, <2>7 DEF WInv
<1>6. CASE /\ post' = [post EXCEPT ![c].stage = "REFUSED"]
           /\ server' = server \/ server' = [server EXCEPT !.alive = FALSE]
  <2>1. /\ server' \in ServerStates /\ server'.token = server.token /\ server'.since = server.since
        /\ server'.alive => server.alive
        /\ server'.replayed = server.replayed /\ server'.open = server.open
        /\ server'.writes = server.writes /\ server'.content = server.content
    BY <1>2, <1>6 DEF ServerStates
  <2>2. /\ post' \in [Calls -> PostStates] /\ post'[c].stage = "REFUSED"
        /\ \A d \in Calls \ {c} : post'[d] = post[d]
    BY <1>2, <1>6 DEF WInv, TypeOK, PostStates
  <2>3. TypeOK'
    BY <1>1, <2>1, <2>2 DEF WInv, TypeOK
  <2>4. OneFlight' /\ ReadsFit' /\ CarriedOutOnce'
    <3>1. \A d \in Calls : post'[d].stage = "NONE" <=> post[d].stage = "NONE"
      BY <1>1, <2>2
    <3> QED
      BY <1>1, <2>1, <2>3, <3>1, CallsSame, KeepFlight, KeepReads, KeepDone DEF WInv, Calm
  <2>5. TokensFit'
    BY <1>1, <1>3, <1>4, <2>1, <2>2 DEF WInv, TokensFit, Current
  <2>6. LoginsFit'
    BY <1>1, <1>3, <2>1, <2>2 DEF WInv, LoginsFit
  <2> QED
    BY <2>3, <2>4, <2>5, <2>6 DEF WInv
<1>7. CASE LoseRefresh(c)
  BY <1>6, <1>7 DEF LoseRefresh
<1>8. CASE ServeRefresh(c)
  <2>1. server.alive /\ post[c].token # server.token => ~(post[c].token >= server.since)
    BY <1>2, <1>4 DEF Current
  <2>2. server.replayed = FALSE
    BY <1>2 DEF WInv, TokensFit, ServerStates
  <2>3. CASE /\ server' = [server EXCEPT !.replayed = @ \/ (server.alive
                                               /\ ~(server.alive /\ post[c].token = server.token)
                                               /\ post[c].token >= server.since),
                                         !.alive = FALSE]
             /\ post' = [post EXCEPT ![c].stage = "REFUSED"]
    <3>1. (server.replayed \/ (server.alive /\ ~(server.alive /\ post[c].token = server.token)
                               /\ post[c].token >= server.since)) = server.replayed
      BY <2>1, <2>2
    <3>2. server' = [server EXCEPT !.replayed = server.replayed, !.alive = FALSE]
      BY <2>3, <3>1
    <3>3. server' = [server EXCEPT !.alive = FALSE]
      BY <1>2, <3>2 DEF ServerStates
    <3> QED
      BY <1>6, <2>3, <3>3
  <2> QED
    BY <1>5, <1>8, <2>3 DEF ServeRefresh
<1> QED
  BY <1>7, <1>8

\* The refresh is over: the cookies are renewed and the calls that wait sent again, or they
\* fail.
LEMMA RefreshOver ==
    ASSUME WInv, NEW c \in Calls, Resend(c) \/ Expelled(c)
    PROVE  WInv'
<1>1. /\ UNCHANGED <<server, me, cache, shown>> /\ flight' = None
      /\ post' = [post EXCEPT ![c] = NoPost] /\ post[c].stage \in {"GRANTED", "REFUSED"}
  BY DEF Resend, Expelled, FlightAfter
<1>2. flight = c /\ \A d \in Calls \ {c} : post[d].stage = "NONE"
  BY <1>1 DEF WInv, OneFlight
<1>3. /\ post' \in [Calls -> PostStates]
      /\ \A d \in Calls : post'[d].stage = "NONE"
  BY <1>1, <1>2, WebAssumption DEF WInv, TypeOK, PostStates, NoPost
<1>4. PICK st \in {"SENT", "FAILED"}, f \in [Calls -> 0..MaxTokens] :
        call' = [d \in Calls |-> IF call[d].leader = c
                                 THEN [call[d] EXCEPT !.stage = st, !.leader = None, !.token = f[d]]
                                 ELSE call[d]]
  <2>1. CASE Resend(c)
    <3>1. post[c].token \in 0..MaxTokens
      BY DEF WInv, TypeOK, PostStates
    <3>2. PICK f : f = [d \in Calls |-> post[c].token]
      OBVIOUS
    <3>3. f \in [Calls -> 0..MaxTokens]
      BY <3>1, <3>2
    <3>4. call' = [d \in Calls |-> IF call[d].leader = c
                                   THEN [call[d] EXCEPT !.stage = "SENT", !.leader = None, !.token = f[d]]
                                   ELSE call[d]]
      BY <2>1, <3>2 DEF Resend
    <3> QED
      BY <3>3, <3>4
  <2>2. CASE Expelled(c)
    <3>1. PICK f : f = [d \in Calls |-> call[d].token]
      OBVIOUS
    <3>2. f \in [Calls -> 0..MaxTokens]
      BY <3>1 DEF WInv, TypeOK, CallStates
    <3>3. ASSUME NEW d \in Calls
          PROVE  [call[d] EXCEPT !.stage = "FAILED", !.leader = None] =
                 [call[d] EXCEPT !.stage = "FAILED", !.leader = None, !.token = f[d]]
      BY <3>1 DEF WInv, TypeOK, CallStates
    <3>4. call' = [d \in Calls |-> IF call[d].leader = c
                                   THEN [call[d] EXCEPT !.stage = "FAILED", !.leader = None, !.token = f[d]]
                                   ELSE call[d]]
      BY <2>2, <3>3 DEF Expelled
    <3> QED
      BY <3>2, <3>4
  <2> QED
    BY <2>1, <2>2
<1>5. ASSUME NEW d \in Calls
      PROVE  /\ call'[d] \in CallStates /\ call'[d].leader = None /\ call'[d].stage # "WAITING"
             /\ \/ call'[d] = call[d]
                \/ /\ call[d].stage = "WAITING" /\ call'[d].stage \in {"SENT", "FAILED"}
                   /\ call'[d].what = call[d].what /\ call'[d].wanted = call[d].wanted
                   /\ call'[d].done = call[d].done
  <2>1. CASE call[d].leader = c
    <3>1. call'[d] = [call[d] EXCEPT !.stage = st, !.leader = None, !.token = f[d]]
      BY <1>4, <2>1
    <3>2. call[d].stage = "WAITING" /\ call[d] \in CallStates
      BY <2>1, Names DEF WInv, OneFlight, TypeOK
    <3> QED
      BY <3>1, <3>2 DEF CallStates
  <2>2. CASE call[d].leader # c
    <3>1. call'[d] = call[d] /\ call[d].leader = None
      BY <1>2, <1>4, <2>2 DEF WInv, OneFlight
    <3> QED
      BY <3>1 DEF WInv, OneFlight, TypeOK
  <2> QED
    BY <2>1, <2>2
<1>6. /\ cookie' = cookie \/ (post[c].stage = "GRANTED" /\ cookie' = post[c].token)
      /\ cookie' \in 0..MaxTokens
      /\ page' \in DOMAIN Pages /\ nav' \in DOMAIN Pages \cup {None}
      /\ landing' \in Landings /\ (landing' = landing \/ landing' = Mounted)
  <2>1. CASE Resend(c)
    BY <2>1 DEF Resend, WInv, TypeOK, PostStates
  <2>2. CASE Expelled(c)
    BY <2>2, Going, Names DEF Expelled, WInv, TypeOK
  <2> QED
    BY <2>1, <2>2
<1>7. post[c].stage = "REFUSED" => cookie' = cookie
  BY <1>6
<1>8. post[c].stage = "GRANTED" => cookie' = post[c].token
  BY DEF Resend, Expelled
<1>9. TypeOK'
  <2>1. call' \in [Calls -> CallStates]
    BY <1>4, <1>5
  <2> QED
    BY <1>1, <1>3, <1>6, <2>1 DEF WInv, TypeOK
<1>10. OneFlight'
  BY <1>1, <1>3, <1>5, Names DEF OneFlight
<1>11. TokensFit'
  <2>1. Current(cookie') /\ cookie' <= server.token
    BY <1>1, <1>2, <1>7, <1>8 DEF WInv, TokensFit
  <2> QED
    BY <1>1, <1>3, <2>1 DEF WInv, TokensFit, Current
<1>12. LoginsFit'
  BY <1>1, <1>3, <1>5, <1>6 DEF WInv, LoginsFit
<1>13. SameReads /\ SameDone
  BY <1>5 DEF SameReads, SameDone
<1>14. ReadsFit' /\ CarriedOutOnce'
  BY <1>1, <1>6, <1>9, <1>13, KeepReads, KeepDone DEF WInv
<1> QED
  BY <1>9, <1>10, <1>11, <1>12, <1>14 DEF WInv

-----------------------------------------------------------------------------
(* Pages and identity *)

\* Pages are left and entered, the identity is collected, entries grow stale.
LEMMA PageStep ==
    ASSUME WInv, \/ OAuthCallback \/ Collect \/ \E to \in Home : Navigate(to)
                 \/ \E q \in Queries : Age(q)
    PROVE  WInv'
<1>1. UNCHANGED <<server, cookie, shown, call, post, flight>>
  BY DEF OAuthCallback, Collect, Navigate, Age
<1>2. /\ page' \in DOMAIN Pages /\ nav' \in DOMAIN Pages \cup {None}
      /\ landing' \in Landings /\ (landing' = landing \/ landing' = Mounted)
  <2>1. CASE OAuthCallback
    BY <2>1, Going, Names DEF WInv, OAuthCallback
  <2>2. CASE \E to \in Home : Navigate(to)
    BY <2>2, Going, WebAssumption DEF WInv, Navigate
  <2>3. CASE Collect \/ \E q \in Queries : Age(q)
    BY <2>3 DEF WInv, TypeOK, Collect, Age
  <2> QED
    BY <2>1, <2>2, <2>3
<1>3. me' \in {"UNKNOWN", "NOBODY", "USER"}
  BY DEF WInv, TypeOK, OAuthCallback, Collect, Navigate, Age
<1>4. /\ cache' \in [Queries -> Entries]
      /\ \A q \in Queries : cache'[q] \in {cache[q], [cache[q] EXCEPT !.stale = TRUE]}
  <2>1. CASE cache' = cache
    BY <2>1 DEF WInv, TypeOK
  <2>2. ASSUME NEW q \in Queries, cache' = [cache EXCEPT ![q].stale = TRUE]
        PROVE  /\ cache' \in [Queries -> Entries]
               /\ \A u \in Queries : cache'[u] \in {cache[u], [cache[u] EXCEPT !.stale = TRUE]}
    BY <2>2 DEF WInv, TypeOK, Entries
  <2> QED
    BY <2>1, <2>2 DEF OAuthCallback, Collect, Navigate, Age
<1>5. TypeOK'
  BY <1>1, <1>2, <1>3, <1>4 DEF WInv, TypeOK
<1>6. \A q \in Queries : shown'[q] \in {shown[q], 0}
  BY <1>1
<1>7. Calm
  BY <1>1, CallsSame
<1> QED
  BY <1>1, <1>2, <1>4, <1>5, <1>6, <1>7, Keeping

\* A page load forgets the lists; a full-page sign in brings new cookies with it.
LEMMA BootStep ==
    ASSUME WInv, Load \/ OAuthRedirect
    PROVE  WInv'
<1>1. /\ \A d \in Calls : call[d] = Idle
      /\ UNCHANGED <<call, post, flight>>
      /\ cache' = [q \in Queries |-> Empty] /\ shown' = [q \in Queries |-> 0]
  BY DEF Load, OAuthRedirect, Boot, Quiet
<1>2. PICK to \in DOMAIN Pages, stored \in {me, "UNKNOWN"} :
        /\ me' = stored
        /\ IF stored = "UNKNOWN" THEN page' = "away" /\ nav' = to /\ landing' = Mounted
           ELSE Enter(to, stored)
  BY Names, WebAssumption DEF Load, OAuthRedirect, Boot
<1>3. /\ page' \in DOMAIN Pages /\ nav' \in DOMAIN Pages \cup {None} /\ landing' = Mounted
      /\ landing' \in Landings /\ me' \in {"UNKNOWN", "NOBODY", "USER"}
  <2>1. Mounted \in Landings /\ {"login", "away"} \subseteq DOMAIN Pages
    BY Names DEF Mounted, Landings
  <2>2. CASE stored = "UNKNOWN"
    BY <1>2, <2>1, <2>2
  <2>3. CASE stored # "UNKNOWN"
    BY <1>2, <2>1, <2>3 DEF Enter, WInv, TypeOK
  <2> QED
    BY <2>2, <2>3
<1>4. /\ cache' \in [Queries -> Entries] /\ shown' \in [Queries -> 0..(MaxWrites + 1)]
      /\ \A q \in Queries : cache'[q] = Empty /\ shown'[q] = 0
  <2>1. Empty \in Entries
    BY WebAssumption DEF Empty, Entries, Missing
  <2>2. 0 \in 0..(MaxWrites + 1)
    BY WebAssumption
  <2> QED
    BY <1>1, <2>1, <2>2
<1>5. Calm
  BY <1>1, CallsSame
<1>6. CASE server' = server /\ cookie' = cookie
  <2>1. TypeOK'
    BY <1>1, <1>3, <1>4, <1>6 DEF WInv, TypeOK
  <2> QED
    BY <1>1, <1>3, <1>4, <1>5, <1>6, <2>1, Keeping
<1>7. CASE server.token < MaxTokens /\ server' = SignedIn /\ cookie' = server.token + 1
  <2>1. server \in ServerStates /\ server.token \in Nat /\ cookie \in Nat /\ MaxTokens \in Nat
    BY WebAssumption DEF WInv, TypeOK, ServerStates
  <2>2. PICK n \in Nat : n = server.token + 1 /\ n \in 0..MaxTokens
    BY <1>7, <2>1
  <2>3. /\ server' \in ServerStates /\ server'.token = n /\ server'.since = n
        /\ server'.replayed = server.replayed /\ server'.open = server.open
        /\ server'.writes = server.writes /\ server'.content = server.content
    BY <1>7, <2>1, <2>2 DEF SignedIn, ServerStates
  <2>4. TypeOK'
    BY <1>1, <1>3, <1>4, <1>7, <2>2, <2>3 DEF WInv, TypeOK
  <2>5. OneFlight' /\ ReadsFit' /\ CarriedOutOnce'
    BY <1>1, <1>3, <1>4, <1>5, <2>3, <2>4, KeepFlight, KeepReads, KeepDone DEF WInv, Calm
  <2>6. \A d \in Calls : post[d].token \in Nat
                         /\ (post[d].stage \in {"SENT", "GRANTED"} => post[d].token < n)
    <3>1. \A d \in Calls : post[d].token \in Nat
      BY WebAssumption DEF WInv, TypeOK, PostStates
    <3> QED
      BY <2>1, <2>2, <3>1 DEF WInv, TokensFit
  <2>7. TokensFit'
    BY <1>1, <1>7, <2>1, <2>2, <2>3, <2>6, SignInTokens DEF WInv
  <2>8. LoginsFit'
    <3>1. \A d \in Calls : call'[d].what # "login"
      BY <1>1, Names DEF Idle
    <3> QED
      BY <3>1 DEF LoginsFit
  <2> QED
    BY <2>4, <2>5, <2>7, <2>8 DEF WInv
<1> QED
  BY <1>6, <1>7 DEF Load, OAuthRedirect, Boot

\* Calls that ask for the identity, sign out, read a list or change one.
LEMMA CallSent ==
    ASSUME WInv, NEW c \in Calls,
           \/ AskMe(c) \/ Logout(c) \/ \E q \in Queries : Fetch(c, q)
           \/ \E m \in Offered : Mutate(c, m)
    PROVE  WInv'
<1>1. UNCHANGED <<server, client, post, flight>> /\ cookie \in 0..MaxTokens
  BY DEF AskMe, Logout, Fetch, Mutate, WInv, TypeOK
<1>2. PICK what \in Kinds \ {"login", "acceptInvite"} :
        Send(c, what) /\ (what \in Queries => what \in Watched)
  <2>1. CASE AskMe(c) \/ Logout(c)
    BY <2>1, Names DEF AskMe, Logout
  <2>2. CASE \E q \in Queries : Fetch(c, q)
    BY <2>2, Names DEF Fetch
  <2>3. CASE \E m \in Offered : Mutate(c, m)
    BY <2>3, Names, WebAssumption DEF Mutate
  <2> QED
    BY <2>1, <2>2, <2>3
<1>3. call' \in [Calls -> CallStates] /\ Calm
  BY <1>1, <1>2, Sending DEF Send, WInv
<1> QED
  BY <1>1, <1>3, KeepingCalls

\* The identity has been fetched, by a guard or after a popup: the page changes at most.
LEMMA IdentityAnswered ==
    ASSUME WInv, NEW c \in Calls, AnswerMe(c) \/ AnswerPopup(c)
    PROVE  WInv'
<1>1. /\ UNCHANGED <<server, cookie, cache, shown, post, flight>>
      /\ call[c].stage # "WAITING" /\ call' = [call EXCEPT ![c] = Idle]
  BY DEF AnswerMe, AnswerPopup, Answered
<1>2. call' \in [Calls -> CallStates] /\ Calm
  BY <1>1, Ending DEF WInv
<1>3. /\ me' \in {"UNKNOWN", "NOBODY", "USER"} /\ page' \in DOMAIN Pages
      /\ nav' \in DOMAIN Pages \cup {None} /\ landing' \in Landings
      /\ \/ landing' = Mounted
         \/ landing'.by = landing.by /\ landing'.mine = landing.mine
  <2>0. /\ Mounted \in Landings /\ {"login", "dashboard"} \subseteq DOMAIN Pages
        /\ landing \in Landings /\ page \in DOMAIN Pages /\ nav \in DOMAIN Pages \cup {None}
        /\ me \in {"UNKNOWN", "NOBODY", "USER"}
    BY Names DEF Mounted, Landings, WInv, TypeOK
  <2>1. CASE UNCHANGED <<me, page, nav, landing>>
    BY <2>0, <2>1
  <2>2. CASE nav # None /\ me' \in {"USER", "NOBODY"} /\ Enter(nav, me')
    BY <2>0, <2>2 DEF Enter
  <2>3. CASE /\ me' = "USER" /\ UNCHANGED <<page, nav>>
             /\ \E due \in {landing.due, TRUE} : landing' = [landing EXCEPT !.due = due]
    BY <2>0, <2>3 DEF Landings
  <2>4. CASE me' = "USER" /\ Enter("dashboard", "USER")
    BY <2>0, <2>4 DEF Enter
  <2>5. CASE AnswerMe(c)
    BY <2>1, <2>2, <2>3, <2>5 DEF AnswerMe
  <2>6. CASE AnswerPopup(c)
    BY <2>1, <2>4, <2>6 DEF AnswerPopup
  <2> QED
    BY <2>5, <2>6
<1>4. TypeOK'
  BY <1>1, <1>2, <1>3 DEF WInv, TypeOK
<1>5. \A q \in Queries : shown'[q] \in {shown[q], 0} /\ cache'[q] = cache[q]
  BY <1>1
<1> QED
  BY <1>1, <1>2, <1>3, <1>4, <1>5, Keeping

\* Signed out: the cookies and the cache are gone, and late answers will be dropped.
LEMMA LogoutAnswered ==
    ASSUME WInv, NEW c \in Calls, AnswerLogout(c)
    PROVE  WInv'
<1>1. UNCHANGED <<server, shown, post, flight>> /\ call[c].stage # "WAITING" /\ call[c].what = "logout"
  BY DEF AnswerLogout, Answered
<1>2. CASE /\ call' = [call EXCEPT ![c] = Idle]
           /\ UNCHANGED <<cookie, me, cache, page, nav, landing>>
  <2>1. call' \in [Calls -> CallStates] /\ Calm
    BY <1>1, <1>2, Ending DEF WInv
  <2> QED
    BY <1>1, <1>2, <2>1, KeepingCalls DEF client
<1>3. CASE /\ call' = [d \in Calls |->
                         IF d = c THEN Idle
                         ELSE [call[d] EXCEPT !.wanted = @ /\ call[d].what
                                                            \notin Queries \cup {"me"}]]
           /\ cookie' = 0 /\ me' = "UNKNOWN" /\ cache' = [q \in Queries |-> Empty]
           /\ Goto("login", "UNKNOWN")
  <2>1. /\ page' \in DOMAIN Pages /\ nav' \in DOMAIN Pages \cup {None}
        /\ landing' \in Landings /\ (landing' = landing \/ landing' = Mounted)
    BY <1>3, Going, Names DEF WInv
  <2>2. call' \in [Calls -> CallStates] /\ Calm
    <3>1. "login" \notin Queries \cup {"me"}
      BY Names
    <3> QED
      BY <1>1, <1>3, <3>1, Fading DEF WInv
  <2>3. cache' \in [Queries -> Entries] /\ \A q \in Queries : cache'[q] = Empty
    <3>1. Empty \in Entries
      BY WebAssumption DEF Empty, Entries, Missing
    <3> QED
      BY <1>3, <3>1
  <2>4. TypeOK'
    BY <1>1, <1>3, <2>1, <2>2, <2>3, WebAssumption DEF WInv, TypeOK
  <2> QED
    BY <1>1, <1>3, <2>1, <2>2, <2>3, <2>4, Keeping
<1> QED
  BY <1>2, <1>3 DEF AnswerLogout

-----------------------------------------------------------------------------
(* Lists, mutations and the invitation *)

\* The answer of a fetch fills its entry, unless it is dropped.
LEMMA ReadAnswered ==
    ASSUME WInv, NEW c \in Calls, AnswerRead(c)
    PROVE  WInv'
<1>1. /\ UNCHANGED <<server, cookie, me, page, nav, landing, shown, post, flight>>
      /\ call' = [call EXCEPT ![c] = Idle]
  BY DEF AnswerRead
<1>2. PICK q \in Queries :
        /\ call[c].what = q /\ call[c].stage # "WAITING"
        /\ \/ cache' = cache
           \/ /\ call[c].stage = "OK" /\ call[c].wanted
              /\ cache' = [cache EXCEPT ![q] = Filled(call[c].answer)]
  BY DEF AnswerRead, Answered
<1>3. call' \in [Calls -> CallStates] /\ Calm
  BY <1>1, <1>2, Ending DEF WInv
<1>4. CASE cache' = cache
  BY <1>1, <1>3, <1>4, KeepingCalls DEF client
<1>5. CASE /\ call[c].stage = "OK" /\ call[c].wanted
           /\ cache' = [cache EXCEPT ![q] = Filled(call[c].answer)]
  <2>1. PICK n : n = call[c].answer
    OBVIOUS
  <2>2. n \in Nat /\ n <= MaxWrites + 1 /\ n >= shown[q] /\ q \in Watched
    BY <1>2, <1>5, <2>1 DEF WInv, ReadsFit, TypeOK, CallStates
  <2>3. Filled(n) \in Entries /\ Filled(n).data = n /\ ~Filled(n).stale /\ Present(Filled(n))
    BY <2>2, WebAssumption DEF Filled, Entries, Missing, Present
  <2>4. /\ cache' \in [Queries -> Entries] /\ cache'[q] = Filled(n)
        /\ \A u \in Queries \ {q} : cache'[u] = cache[u]
    BY <1>5, <2>1, <2>3 DEF WInv, TypeOK
  <2>5. TypeOK'
    BY <1>1, <1>3, <2>4 DEF WInv, TypeOK
  <2>6. OneFlight' /\ TokensFit' /\ LoginsFit' /\ CarriedOutOnce'
    BY <1>1, <1>3, <2>5, KeepFlight, KeepTokens, KeepLogins, KeepDone DEF WInv, Calm
  <2>7. ASSUME NEW u \in Queries
        PROVE  /\ Present(cache'[u]) => u \in Watched \cup {"detail"}
               /\ ~cache'[u].stale => Present(cache'[u]) /\ cache'[u].data >= shown[u]
    BY <2>2, <2>3, <2>4 DEF WInv, ReadsFit
  <2>8. ASSUME NEW d \in Calls
        PROVE  /\ call'[d].what \in Queries => call'[d].what \in Watched
               /\ call'[d].stage = "OK" /\ call'[d].what \in Queries \cup DOMAIN Mutation =>
                     call'[d] = call[d]
    <3>1. call'[d] = call[d] \/ call'[d] = Idle
      BY <1>1 DEF WInv, TypeOK
    <3>2. Idle.stage = "IDLE" /\ Idle.what \notin Queries
      BY Names DEF Idle
    <3> QED
      BY <3>1, <3>2 DEF WInv, ReadsFit
  <2>9. ReadsFit'
    BY <1>1, <2>7, <2>8 DEF WInv, ReadsFit
  <2> QED
    BY <2>5, <2>6, <2>9 DEF WInv
<1> QED
  BY <1>2, <1>4, <1>5

\* The effect of the invitation page: the first time it is run it sends the acceptance.
LEMMA AcceptStep ==
    ASSUME WInv, NEW c \in Calls, Accept(c)
    PROVE  WInv'
<1>1. UNCHANGED <<server, cookie, me, page, nav, cache, shown, post, flight>>
  BY DEF Accept
<1>2. CASE landing' = [landing EXCEPT !.due = FALSE] /\ UNCHANGED call
  <2>1. /\ landing' \in Landings
        /\ landing'.by = landing.by /\ landing'.mine = landing.mine
    BY <1>2 DEF WInv, TypeOK, Landings
  <2>2. TypeOK'
    BY <1>1, <1>2, <2>1 DEF WInv, TypeOK
  <2>3. \A q \in Queries : shown'[q] \in {shown[q], 0} /\ cache'[q] = cache[q]
    BY <1>1
  <2> QED
    BY <1>1, <1>2, <2>1, <2>2, <2>3, CallsSame, Keeping
<1>3. CASE /\ FirstAttempt /\ Send(c, "acceptInvite")
           /\ landing' = [landing EXCEPT !.due = FALSE, !.by = c]
  <2>1. landing' \in Landings /\ ~landing'.mine
    BY <1>3 DEF FirstAttempt, WInv, CarriedOutOnce, TypeOK, Landings
  <2>2. "acceptInvite" \in Kinds /\ "acceptInvite" # "login"
        /\ "acceptInvite" \notin Queries /\ cookie \in 0..MaxTokens
    BY Names DEF WInv, TypeOK
  <2>3. /\ call' \in [Calls -> CallStates] /\ SameWait
        /\ call'[c].what = "acceptInvite" /\ call'[c].stage = "SENT" /\ ~call'[c].done
        /\ \A d \in Calls \ {c} : call'[d] = call[d]
    BY <1>3, <2>2, Sent DEF Send, WInv
  <2>4. TypeOK'
    BY <1>1, <2>1, <2>3 DEF WInv, TypeOK
  <2>5. SameLogins /\ SameReads
    BY <2>2, <2>3 DEF SameLogins, SameReads
  <2>6. \A q \in Queries : shown'[q] \in {shown[q], 0} /\ cache'[q] = cache[q]
    BY <1>1
  <2>7. OneFlight' /\ TokensFit' /\ LoginsFit' /\ ReadsFit'
    BY <1>1, <2>3, <2>4, <2>5, <2>6, KeepFlight, KeepTokens, KeepLogins, KeepReads DEF WInv
  <2>8. CarriedOutOnce'
    BY <2>1, <2>3 DEF WInv, CarriedOutOnce
  <2> QED
    BY <2>4, <2>7, <2>8 DEF WInv
<1> QED
  BY <1>2, <1>3 DEF Accept

\* A mutation has failed.
LEMMA MutationFailed ==
    ASSUME WInv, NEW c \in Calls, NEW m \in DOMAIN Mutation, Fails(c, m)
    PROVE  WInv'
<1>1. /\ UNCHANGED <<server, client, post, flight>>
      /\ call' = [call EXCEPT ![c] = Idle] /\ call[c].stage # "WAITING"
  BY DEF Fails, Answered
<1>2. call' \in [Calls -> CallStates] /\ Calm
  BY <1>1, Ending DEF WInv
<1> QED
  BY <1>1, <1>2, KeepingCalls

\* A mutation has succeeded: where its write is confirmed to the user, the entry is stale and
\* the fetch under way, which may be older, is dropped.
LEMMA MutationSucceeded ==
    ASSUME WInv, NEW c \in Calls, NEW m \in DOMAIN Mutation, Succeeds(c, m)
    PROVE  WInv'
<1>1. /\ UNCHANGED <<server, cookie, me, post, flight>>
      /\ call[c].stage = "OK" /\ call[c].what = m
      /\ call' = [d \in Calls |->
                    IF d = c THEN Idle
                    ELSE [call[d] EXCEPT !.wanted = @ /\ call[d].what
                                                       \notin Cancelled(cache, m, page)]]
  BY DEF Succeeds, Answered
<1>2. "login" \notin Cancelled(cache, m, page)
  BY Names, Effects DEF Cancelled
<1>3. call' \in [Calls -> CallStates] /\ Calm
  BY <1>1, <1>2, Fading DEF WInv
<1>4. /\ page' \in DOMAIN Pages /\ nav' \in DOMAIN Pages \cup {None}
      /\ landing' \in Landings /\ (landing' = landing \/ landing' = Mounted)
  <2>1. CASE Goto("overview", me)
    BY <2>1, Going, Names DEF WInv
  <2>2. CASE UNCHANGED <<page, nav, landing>>
    BY <2>2 DEF WInv, TypeOK
  <2> QED
    BY <2>1, <2>2 DEF Succeeds
<1>5. PICK n : n = call[c].answer
  OBVIOUS
<1>6. /\ n \in Nat /\ n <= MaxWrites + 1
      /\ \A q \in Mutation[m].writes \cap Watched : n <= server.content[q]
  BY <1>1, <1>5 DEF WInv, ReadsFit, TypeOK, CallStates
<1>7. /\ cache' = AfterMutation(cache, m, n) /\ shown' = Confirmed(m, n)
  BY <1>5 DEF Succeeds
<1>8. ASSUME NEW q \in Queries
      PROVE  /\ shown[q] \in 0..(MaxWrites + 1) /\ cache[q] \in Entries /\ cache[q].data \in Int
             /\ \/ shown'[q] = shown[q]
                \/ /\ shown'[q] = n /\ q \in Mutation[m].stales /\ q # "detail"
                   /\ q \in Mutation[m].writes \cap Watched
                   /\ q \in Cancelled(cache, m, page)
  <2>1. /\ shown[q] \in 0..(MaxWrites + 1) /\ cache[q] \in Entries
        /\ Present(cache[q]) => q \in Watched \cup {"detail"}
    BY DEF WInv, TypeOK, ReadsFit
  <2>2. cache[q].data \in Int
    BY <2>1, WebAssumption DEF Entries, Missing
  <2>3. CASE /\ q \in Mutation[m].writes \cap Mutation[m].stales \cap Pages[page].shows
             /\ m \in Pages[page].offers /\ Present(cache[q]) /\ n > shown[q]
    BY <1>7, <2>1, <2>2, <2>3, Effects DEF Confirmed, Cancelled
  <2>4. CASE ~(/\ q \in Mutation[m].writes \cap Mutation[m].stales \cap Pages[page].shows
               /\ m \in Pages[page].offers /\ Present(cache[q]) /\ n > shown[q])
    BY <1>7, <2>1, <2>2, <2>4 DEF Confirmed
  <2> QED
    BY <2>3, <2>4
<1>9. ASSUME NEW q \in Queries
      PROVE  /\ cache'[q] \in Entries
             /\ \/ q = "detail" /\ cache'[q] = Filled(n)
                \/ /\ cache'[q].data = cache[q].data
                   /\ cache'[q].stale = (cache[q].stale \/ q \in Mutation[m].stales)
  <2>1. CASE q \in Mutation[m].sets
    <3>1. q = "detail" /\ cache'[q] = Filled(n)
      BY <1>7, <2>1, Effects DEF AfterMutation
    <3>2. Filled(n) \in Entries
      BY <1>6, WebAssumption DEF Filled, Entries, Missing
    <3> QED
      BY <3>1, <3>2
  <2>2. CASE q \notin Mutation[m].sets
    <3>1. cache'[q] = [cache[q] EXCEPT !.stale = @ \/ q \in Mutation[m].stales]
      BY <1>7, <2>2 DEF AfterMutation
    <3> QED
      BY <1>8, <3>1 DEF Entries
  <2> QED
    BY <2>1, <2>2
<1>10. /\ cache' \in [Queries -> Entries] /\ shown' \in [Queries -> 0..(MaxWrites + 1)]
  <2>1. n \in 0..(MaxWrites + 1)
    BY <1>6, WebAssumption
  <2>2. cache' = [q \in Queries |-> cache'[q]] /\ shown' = [q \in Queries |-> shown'[q]]
    BY <1>7 DEF AfterMutation, Confirmed
  <2> QED
    BY <1>8, <1>9, <2>1, <2>2
<1>11. TypeOK'
  BY <1>1, <1>3, <1>4, <1>10 DEF WInv, TypeOK
<1>12. OneFlight' /\ TokensFit' /\ LoginsFit' /\ CarriedOutOnce'
  BY <1>1, <1>3, <1>4, <1>11, KeepFlight, KeepTokens, KeepLogins, KeepDone DEF WInv, Calm
<1>13. ASSUME NEW q \in Queries
       PROVE  /\ shown'[q] <= server.content[q]
              /\ Present(cache'[q]) => q \in Watched \cup {"detail"}
              /\ ~cache'[q].stale => Present(cache'[q]) /\ cache'[q].data >= shown'[q]
  <2>1. /\ shown[q] <= server.content[q]
        /\ Present(cache[q]) => q \in Watched \cup {"detail"}
        /\ ~cache[q].stale => Present(cache[q]) /\ cache[q].data >= shown[q]
        /\ shown["detail"] = 0
    BY DEF WInv, ReadsFit
  <2>2. shown'[q] <= server.content[q]
    BY <1>6, <1>8, <2>1
  <2>3. CASE q = "detail" /\ cache'[q] = Filled(n)
    <3>1. shown'[q] = 0
      BY <1>8, <2>1, <2>3
    <3> QED
      BY <1>6, <2>2, <2>3, <3>1 DEF Filled, Present, Missing
  <2>4. CASE /\ cache'[q].data = cache[q].data
             /\ cache'[q].stale = (cache[q].stale \/ q \in Mutation[m].stales)
    BY <1>8, <2>1, <2>2, <2>4 DEF Present
  <2> QED
    BY <1>9, <2>3, <2>4
<1>14. shown'["detail"] = 0
  BY <1>8, Names DEF WInv, ReadsFit
<1>15. ASSUME NEW d \in Calls
       PROVE  /\ call'[d].what \in Queries => call'[d].what \in Watched
              /\ call'[d].stage = "OK" /\ call'[d].what \in Queries =>
                   /\ call'[d].answer <= MaxWrites + 1
                   /\ call'[d].wanted => call'[d].answer >= shown'[call'[d].what]
              /\ call'[d].stage = "OK" /\ call'[d].what \in DOMAIN Mutation =>
                   /\ call'[d].answer <= MaxWrites + 1
                   /\ \A q \in Mutation[call'[d].what].writes \cap Watched :
                         call'[d].answer <= server.content[q]
  <2>1. CASE d = c
    <3>1. call'[d] = Idle
      BY <1>1, <2>1
    <3> QED
      BY <3>1, Names DEF Idle
  <2>2. CASE d # c
    <3>1. /\ call[d] \in CallStates
          /\ call'[d] = [call[d] EXCEPT !.wanted = @ /\ call[d].what
                                                       \notin Cancelled(cache, m, page)]
      BY <1>1, <2>2 DEF WInv, TypeOK
    <3>2. /\ call'[d].what = call[d].what /\ call'[d].stage = call[d].stage
          /\ call'[d].answer = call[d].answer
          /\ call'[d].wanted => call[d].wanted /\ call[d].what \notin Cancelled(cache, m, page)
      BY <3>1 DEF CallStates
    <3>3. call[d].what \in Queries /\ call'[d].wanted => shown'[call[d].what] = shown[call[d].what]
      BY <1>8, <3>2
    <3> QED
      BY <3>2, <3>3 DEF WInv, ReadsFit
  <2> QED
    BY <2>1, <2>2
<1>16. ReadsFit'
  BY <1>1, <1>13, <1>14, <1>15 DEF WInv, ReadsFit
<1> QED
  BY <1>11, <1>12, <1>16 DEF WInv

-----------------------------------------------------------------------------
(* The theorems *)

\* A tab just opened has WInv.
LEMMA InitWInv ==
    ASSUME Init
    PROVE  WInv
<1>1. /\ Idle \in CallStates /\ Idle.stage = "IDLE" /\ Idle.what = None /\ Idle.leader = None
  BY WebAssumption DEF Idle, CallStates
<1>2. NoPost \in PostStates /\ NoPost.stage = "NONE"
  BY WebAssumption DEF NoPost, PostStates
<1>3. Empty \in Entries /\ Empty.stale /\ ~Present(Empty)
  BY WebAssumption DEF Empty, Entries, Present, Missing
<1>4. /\ server \in ServerStates /\ server.token = 0 /\ server.since = 0 /\ ~server.alive
      /\ server.writes = 0 /\ ~server.replayed /\ \A q \in Queries : server.content[q] = 0
  <2>1. 0 \in 0..MaxTokens /\ 0 \in 0..(MaxWrites + 1)
    BY WebAssumption
  <2> QED
    BY <2>1 DEF Init, ServerStates
<1>5. TypeOK
  <2>1. 0 \in 0..MaxTokens /\ 0 \in 0..(MaxWrites + 1) /\ Mounted \in Landings
    BY WebAssumption DEF Mounted, Landings
  <2> QED
    BY <1>1, <1>2, <1>3, <1>4, <2>1, Names DEF Init, TypeOK
<1>6. OneFlight
  BY <1>1, <1>2, Names DEF Init, OneFlight
<1>7. TokensFit
  BY <1>2, <1>4 DEF Init, TokensFit, Current
<1>8. LoginsFit
  BY <1>1, Names DEF Init, LoginsFit
<1>9. ReadsFit
  <2>1. "detail" \in Queries /\ None \notin Queries /\ 0 <= MaxWrites
    BY Names, WebAssumption
  <2> QED
    BY <1>1, <1>3, <1>4, <2>1 DEF Init, ReadsFit
<1>10. CarriedOutOnce
  BY <1>1 DEF Init, CarriedOutOnce, Mounted, Idle
<1> QED
  BY <1>5, <1>6, <1>7, <1>8, <1>9, <1>10 DEF WInv

\* Every step of the tab or the server preserves WInv.
LEMMA WInvStep ==
    ASSUME WInv, [Next]_vars
    PROVE  WInv'
<1>1. CASE UNCHANGED vars
  <2>1. UNCHANGED <<server, client, post, flight>> /\ call' = call
    BY <1>1 DEF vars
  <2>2. call' \in [Calls -> CallStates]
    BY <2>1 DEF WInv, TypeOK
  <2> QED
    BY <2>1, <2>2, CallsSame, KeepingCalls
<1>2. CASE Environment
  BY <1>2, EnvironmentStep
<1>3. CASE User
  <2>1. CASE Load \/ OAuthRedirect
    BY <2>1, BootStep
  <2>2. CASE \E to \in Home : Navigate(to)
    BY <2>2, PageStep
  <2>3. ASSUME NEW c \in Calls,
               Submit(c) \/ PopupSignsIn(c) \/ Logout(c) \/ \E m \in Offered : Mutate(c, m)
        PROVE  WInv'
    BY <2>3, SubmitStep, PopupStep, CallSent
  <2> QED
    BY <1>3, <2>1, <2>2, <2>3 DEF User
<1>4. CASE Browser
  <2>1. CASE OAuthCallback \/ Collect \/ \E q \in Queries : Age(q)
    BY <2>1, PageStep
  <2>2. ASSUME NEW c \in Calls,
               \/ Lose(c) \/ LoseRefresh(c) \/ AskMe(c) \/ Accept(c)
               \/ \E q \in Queries : Fetch(c, q)
        PROVE  WInv'
    BY <2>2, QuietAnswers, RefreshServed, CallSent, AcceptStep
  <2> QED
    BY <1>4, <2>1, <2>2 DEF Browser
<1>5. ASSUME NEW c \in Calls, Serve(c)
      PROVE  WInv'
  BY <1>5, LoginServed, LogoutServed, ReadServed, MutationServed, QuietAnswers, RefreshServed
     DEF Serve
<1>6. ASSUME NEW c \in Calls, Answer(c)
      PROVE  WInv'
  BY <1>6, RenewStep, RefreshOver, IdentityAnswered, LoginAnswered, LogoutAnswered, ReadAnswered,
     MutationSucceeded, MutationFailed
     DEF Answer
<1> QED
  BY <1>1, <1>2, <1>3, <1>4, <1>5, <1>6 DEF Next

\* The inductive invariant of the tab holds in every reachable state.
THEOREM WInvAlways == Spec => []WInv
<1>1. Init => WInv
  BY InitWInv
<1>2. WInv /\ [Next]_vars => WInv'
  BY WInvStep
<1> QED
  BY <1>1, <1>2, PTL DEF Spec

\* However many calls find the access token expired, the tab never presents a refresh token
\* that is already rotated (client.ts:62-66).
THEOREM TokenOnce == Spec => []NoTokenReplayed
<1>1. WInv => NoTokenReplayed
  BY DEF WInv, TokensFit, NoTokenReplayed
<1> QED
  BY <1>1, WInvAlways, PTL

\* What the user has seen confirmed on a list stays there: neither an older answer nor a late
\* one takes it back.
THEOREM WritesStayShown == Spec => []OwnWritesShown
<1>1. WInv => OwnWritesShown
  BY DEF WInv, ReadsFit, OwnWritesShown
<1> QED
  BY <1>1, WInvAlways, PTL

\* What the server has carried out for the tab, the tab does not ask of it again.
THEOREM OnceCarriedOut == Spec => []CarriedOutOnce
<1>1. WInv => CarriedOutOnce
  BY DEF WInv
<1> QED
  BY <1>1, WInvAlways, PTL

-----------------------------------------------------------------------------
(* The server as the tab sees it *)

SameTokens ==
    /\ server'.alive = server.alive /\ server'.token = server.token
    /\ server'.since = server.since

Revoked == ~server'.alive /\ server'.token = server.token /\ server'.since = server.since

Rotated ==
    /\ server.alive /\ server.token < MaxTokens
    /\ server'.alive /\ server'.token = server.token + 1 /\ server'.since = server.since

Replaced ==
    /\ server.token < MaxTokens
    /\ server'.alive /\ server'.token = server.token + 1 /\ server'.since = server.token + 1

\* A sign in replaces the token.
LEMMA SignInReplaces ==
    ASSUME TypeOK, server' = SignedIn, server.token < MaxTokens
    PROVE  Replaced
BY DEF SignedIn, Replaced, TypeOK, ServerStates

\* A step leaves the tokens of the server alone, signs in, rotates the token or revokes it.
LEMMA ServerChanges ==
    ASSUME TypeOK, [Next]_vars
    PROVE  SameTokens \/ Revoked \/ Rotated \/ Replaced
<1> DEFINE Kept == SameTokens \/ Revoked \/ Rotated \/ Replaced
<1>0. server \in ServerStates
  BY DEF TypeOK
<1>1. ASSUME UNCHANGED server PROVE Kept
  BY <1>1 DEF SameTokens
<1>2. ASSUME Environment PROVE Kept
  BY <1>0, <1>2 DEF Environment, Expire, Revoke, Withdraw, ServerStates, SameTokens, Revoked
<1>3. ASSUME User PROVE Kept
  <2>1. CASE Load
    BY <1>1, <2>1 DEF Load, Boot
  <2>2. CASE OAuthRedirect
    BY <2>2, SignInReplaces DEF OAuthRedirect, Boot
  <2>3. ASSUME NEW to \in Home, Navigate(to) PROVE Kept
    BY <1>1, <2>3 DEF Navigate
  <2>4. ASSUME NEW c \in Calls,
               Submit(c) \/ PopupSignsIn(c) \/ Logout(c) \/ \E m \in Offered : Mutate(c, m)
        PROVE  Kept
    BY <1>1, <2>4, SignInReplaces DEF Submit, PopupSignsIn, Logout, Mutate
  <2> QED
    BY <1>3, <2>1, <2>2, <2>3, <2>4 DEF User
<1>4. ASSUME Browser PROVE Kept
  BY <1>1, <1>4 DEF Browser, OAuthCallback, Collect, Age, Lose, LoseRefresh, AskMe, Accept, Fetch
<1>5. ASSUME NEW c \in Calls, Serve(c) PROVE Kept
  <2>1. CASE ServeLogin(c)
    BY <2>1, SignInReplaces DEF ServeLogin
  <2>2. CASE ServeLogout(c)
    BY <1>0, <2>2 DEF ServeLogout, ServerStates, Revoked
  <2>3. CASE ServeMutation(c)
    BY <1>0, <1>1, <2>3 DEF ServeMutation, Write, ServerStates, SameTokens
  <2>4. CASE ServeRefresh(c)
    <3>1. CASE /\ server.alive /\ server.token < MaxTokens
               /\ server' = [server EXCEPT !.token = @ + 1]
      BY <1>0, <3>1 DEF ServerStates, Rotated
    <3>2. ASSUME NEW x, server' = [server EXCEPT !.replayed = x, !.alive = FALSE] PROVE Revoked
      BY <1>0, <3>2 DEF ServerStates, Revoked
    <3> QED
      BY <2>4, <3>1, <3>2 DEF ServeRefresh
  <2>5. CASE ServeRead(c) \/ Deny(c)
    BY <1>1, <2>5 DEF ServeRead, Deny
  <2> QED
    BY <1>5, <2>1, <2>2, <2>3, <2>4, <2>5 DEF Serve
<1>6. ASSUME NEW c \in Calls, Answer(c) PROVE Kept
  BY <1>1, <1>6 DEF Answer, Renew, Resend, Expelled, AnswerMe, AnswerLogin, AnswerPopup,
     AnswerLogout, AnswerRead, Succeeds, Fails
<1>7. CASE UNCHANGED vars
  BY <1>1, <1>7 DEF vars
<1> QED
  BY <1>2, <1>3, <1>4, <1>5, <1>6, <1>7 DEF Next

\* What the server does is a step of Credential or none.
LEMMA ServerStep ==
    ASSUME WInv, [Next]_vars
    PROVE  [Abstract!Next]_(Abstract!vars)
<1> DEFINE tab == "tab"
           Token(s, n) == [sid |-> s, n |-> n]
<1>0. /\ server.token \in 0..MaxTokens /\ server.since \in 0..MaxTokens /\ MaxTokens \in Nat
      /\ server.since <= server.token /\ (server.alive => server.since # 0)
  BY WebAssumption DEF WInv, TypeOK, ServerStates, TokensFit
<1>1. server.alive => Good[tab] = Token(server.since, server.token) /\ Good[tab] # NoToken
  BY <1>0 DEF Good, NoToken
<1>2. CASE SameTokens
  BY <1>2 DEF SameTokens, Good, Abstract!vars
<1>3. CASE Revoked
  <2>1. Good' = [Good EXCEPT ![tab] = NoToken] /\ UNCHANGED (1..server.since)
    BY <1>3 DEF Revoked, Good
  <2>2. CASE server.alive
    <3>1. Abstract!End(tab)
      BY <1>1, <2>1, <2>2 DEF Abstract!End
    <3> QED
      BY <3>1 DEF Abstract!Next
  <2>3. CASE ~server.alive
    BY <1>3, <2>1, <2>3 DEF Good, Revoked, Abstract!vars
  <2> QED
    BY <2>2, <2>3
<1>4. CASE Rotated
  <2>1. Good' = [Good EXCEPT ![tab].n = server.token + 1] /\ UNCHANGED (1..server.since)
    BY <1>4 DEF Rotated, Good
  <2>2. server.token + 1 \in 1..MaxTokens /\ server.token + 1 > Good[tab].n
    BY <1>0, <1>1, <1>4 DEF Rotated
  <2>3. Abstract!Renew(tab)
    BY <1>1, <1>4, <2>1, <2>2 DEF Rotated, Abstract!Renew
  <2> QED
    BY <2>3 DEF Abstract!Next
<1>5. CASE Replaced
  <2>1. PICK s : s = server.token + 1
    OBVIOUS
  <2>2. s \in (1..MaxTokens) \ (1..server.since) /\ (1..server.since) \cup {s} \subseteq 1..s
    BY <1>0, <1>5, <2>1 DEF Replaced
  <2>3. Good' = [Good EXCEPT ![tab] = Token(s, s)] /\ (1..server.since)' = 1..s
    BY <1>5, <2>1 DEF Replaced, Good
  <2>4. Abstract!SignIn(tab)
    BY <2>2, <2>3 DEF Abstract!SignIn
  <2> QED
    BY <2>4 DEF Abstract!Next
<1> QED
  BY <1>2, <1>3, <1>4, <1>5, ServerChanges DEF WInv

\* The server of the tab implements Credential, as the sessions of the API do.
THEOREM CredentialImplemented == Spec => ImplementsCredential
<1>1. Init => Abstract!Init
  BY DEF Init, Good, Abstract!Init
<1>2. WInv /\ [Next]_vars => [Abstract!Next]_(Abstract!vars)
  BY ServerStep
<1> QED
  BY <1>1, <1>2, WInvAlways, PTL DEF Spec, ImplementsCredential, Abstract!Spec

===============================================================================
