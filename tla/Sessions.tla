------------------------------- MODULE Sessions -------------------------------
(***************************************************************************)
(* The sessions and devices of one user: login, device confirmation,       *)
(* refresh token rotation with reuse detection, logout and revocation      *)
(* (auth.controller.ts, auth.service.ts, device.service.ts), together with *)
(* the cookies of the user's browsers.                                     *)
(*                                                                         *)
(* A browser is a device: its device_id cookie names it.  All its tabs     *)
(* share the cookies, so that several of its requests may be in progress.  *)
(* A request takes one database statement at a time; the browser gets the  *)
(* answer in a step of its own, or never.  A refused request changes       *)
(* nothing and is left out, and with it what only refuses: sessions and    *)
(* codes past their expiresAt, wrong codes.  A refresh token is its        *)
(* session and a number: tokens signed for one session within one second   *)
(* are equal (same iat, no jti), so that signing may return the last one.  *)
(***************************************************************************)
EXTENDS Integers, FiniteSets

CONSTANTS
    Browsers,       \* the user's browsers, that is devices
    Home,           \* the browser the user registers with
    Orderly,        \* the browsers that send one request at a time and lose no answer
                    \* that brings tokens
    Requests,       \* concurrent HTTP requests
    Codes,          \* ids of NEW_DEVICE_CONFIRMATION tokens
    MaxSessions,    \* bound on Session rows
    MaxTokens,      \* bound on the refresh tokens signed for one session
    Nothing

ASSUME SessionsAssumption ==
    /\ Home \in Browsers /\ Orderly \subseteq Browsers
    /\ MaxSessions \in Nat \ {0} /\ MaxTokens \in Nat \ {0}
    /\ Nothing \notin Browsers \cup Codes

Sids == 1..MaxSessions      \* session ids, in the order of createdAt

VARIABLES
    device,     \* Device.status, NONE before the row exists
    session,    \* Session: its device, its refresh token and whether it is revoked
    code,       \* VerificationToken: SENT, or its consumedAt is set: TYPED by the user or VOID
    jar,        \* the cookies of a browser: whether the access token is still valid, and
                \* the refresh token
    form,       \* the confirmationId the login page of a browser holds
    pc, job     \* where each request is, and what it has in memory

rows == <<device, session, code>>
client == <<jar, form>>
vars == <<rows, client, pc, job>>

NoToken == [sid |-> 0, n |-> 0]
Tokens == [sid : Sids, n : 1..MaxTokens]
NoJob == [from |-> Nothing, token |-> NoToken, code |-> Nothing, resend |-> FALSE]
NoRow == [device |-> Nothing, n |-> 0, status |-> "NONE"]

SessionRows == [device : Browsers \cup {Nothing}, n : 0..MaxTokens,
                status : {"NONE", "LIVE", "REVOKED"}]
CodeRows == [device : Browsers \cup {Nothing}, status : {"NONE", "SENT", "TYPED", "VOID"}]
Cookies == [access : BOOLEAN, refresh : Tokens \cup {NoToken}]
Labels == {"idle", "upsert", "pend", "void", "mail", "form", "consume", "activate",
           "find", "store", "rotate", "alarm", "demote", "clear", "answer"}
Jobs == [from : Browsers \cup {Nothing}, token : [sid : 0..MaxSessions, n : 0..MaxTokens],
         code : Codes \cup {Nothing}, resend : BOOLEAN]

TypeOK ==
    /\ device \in [Browsers -> {"NONE", "PENDING", "ACTIVE", "REVOKED"}]
    /\ session \in [Sids -> SessionRows]
    /\ code \in [Codes -> CodeRows]
    /\ jar \in [Browsers -> Cookies]
    /\ form \in [Browsers -> Codes \cup {Nothing}]
    /\ pc \in [Requests -> Labels] /\ job \in [Requests -> Jobs]

Init ==
    /\ device = [b \in Browsers |-> "NONE"]
    /\ session = [s \in Sids |-> NoRow]
    /\ code = [c \in Codes |-> [device |-> Nothing, status |-> "NONE"]]
    /\ jar = [b \in Browsers |-> [access |-> FALSE, refresh |-> NoToken]]
    /\ form = [b \in Browsers |-> Nothing]
    /\ pc = [r \in Requests |-> "idle"]
    /\ job = [r \in Requests |-> NoJob]

-----------------------------------------------------------------------------
Rows == {s \in Sids : session[s].status # "NONE"}
Unrevoked(b) == {s \in Sids : session[s].device = b /\ session[s].status = "LIVE"}

\* The tokens signed for session s that anyone may still present or store; the next one
\* is newer than all of them, or the last one again.
Signed(s) == {session[s].n}
             \cup {job[r].token.n : r \in {q \in Requests : job[q].token.sid = s}}
             \cup {jar[b].refresh.n : b \in {d \in Browsers : jar[d].refresh.sid = s}}
Signable(s) == {n \in 1..MaxTokens : \E last \in Signed(s) : /\ \A k \in Signed(s) : k <= last
                                                           /\ n - last \in {0, 1}}

\* Browser b sends request r, whose first statement lets it go on at label `to`.
Start(r, b, to, what) ==
    /\ pc[r] = "idle"
    /\ pc' = [pc EXCEPT ![r] = to]
    /\ job' = [job EXCEPT ![r] = what]
    /\ b \in Orderly => \A q \in Requests : job[q].from # b

From(b) == [NoJob EXCEPT !.from = b]

\* Request r goes on from one label to the next, or ends.
Step(r, at, to) ==
    /\ pc[r] = at
    /\ pc' = [pc EXCEPT ![r] = to]
    /\ job' = IF to = "idle" THEN [job EXCEPT ![r] = NoJob] ELSE job

\* The browser of r.
Of(r) == job[r].from

-----------------------------------------------------------------------------
(* device.service.ts *)

\* POST /auth/register creates the user, whose first device identifyForRegister trusts.
Register(r) ==
    /\ device[Home] = "NONE" /\ \A q \in Requests : pc[q] # "upsert"
    /\ Start(r, Home, "upsert", From(Home))
    /\ UNCHANGED <<rows, client>>

UpsertDevice(r) ==
    /\ Step(r, "upsert", "find")
    /\ device' = [device EXCEPT ![Of(r)] = "ACTIVE"]
    /\ UNCHANGED <<session, code, client>>

\* Variant: a device that waits for its confirmation is let in.
LoginPending(r, b) ==
    /\ device[Home] # "NONE"
    /\ device' = [device EXCEPT ![b] = IF @ = "NONE" THEN "PENDING" ELSE @]
    /\ Start(r, b, CASE device[b] \in {"ACTIVE", "PENDING"} -> "find"
                     [] device[b] = "REVOKED" -> "pend"
                     [] OTHER -> "void", From(b))
    /\ UNCHANGED <<session, code, client>>

\* identifyForLogin finds the device, or creates it PENDING (the loser of the unique
\* race reads the winner's row): only an ACTIVE one goes on to a session.
Login(r, b) ==
    /\ device[Home] # "NONE"
    /\ device' = [device EXCEPT ![b] = IF @ = "NONE" THEN "PENDING" ELSE @]
    /\ Start(r, b, CASE device[b] = "ACTIVE" -> "find"
                     [] device[b] = "REVOKED" -> "pend"
                     [] OTHER -> "void", From(b))
    /\ UNCHANGED <<session, code, client>>

PutBack(r) ==
    /\ Step(r, "pend", "void")
    /\ device' = [device EXCEPT ![Of(r)] = "PENDING"]
    /\ UNCHANGED <<session, code, client>>

\* sendConfirmationCode consumes the codes of the device, creates another and mails it.
VoidCodes(r) ==
    /\ Step(r, "void", "mail")
    /\ code' = [c \in Codes |-> IF code[c].device = Of(r) /\ code[c].status = "SENT"
                                THEN [code[c] EXCEPT !.status = "VOID"] ELSE code[c]]
    /\ UNCHANGED <<device, session, client>>

\* login answers with the id of the code; resendConfirmation answers nothing.
MailCode(r) ==
    /\ pc[r] = "mail"
    /\ \E c \in Codes :
          /\ code[c].status = "NONE"
          /\ code' = [code EXCEPT ![c] = [device |-> Of(r), status |-> "SENT"]]
          /\ IF job[r].resend
             THEN /\ pc' = [pc EXCEPT ![r] = "idle"]
                  /\ job' = [job EXCEPT ![r] = NoJob]
             ELSE /\ pc' = [pc EXCEPT ![r] = "form"]
                  /\ job' = [job EXCEPT ![r].code = c]
    /\ UNCHANGED <<device, session, client>>

\* The login page asks for the code of the confirmationId it was given.
ShowForm(r) ==
    /\ Step(r, "form", "idle")
    /\ form' = [form EXCEPT ![Of(r)] = job[r].code]
    /\ UNCHANGED <<rows, jar>>

\* POST /auth/device/resend-confirmation, with the confirmationId of the form.
Resend(r, b) ==
    /\ form[b] # Nothing /\ device[b] = "PENDING"
    /\ Start(r, b, "void", [From(b) EXCEPT !.resend = TRUE])
    /\ UNCHANGED <<rows, client>>

\* confirm: the user types the code of the form, which is neither consumed nor expired.
Confirm(r, b) ==
    /\ form[b] # Nothing /\ code[form[b]].status = "SENT"
    /\ Start(r, b, "consume", [From(b) EXCEPT !.code = form[b]])
    /\ UNCHANGED <<rows, client>>

Consume(r) ==
    /\ Step(r, "consume", "activate")
    /\ code' = [code EXCEPT ![job[r].code].status = "TYPED"]
    /\ UNCHANGED <<device, session, client>>

Activate(r) ==
    /\ Step(r, "activate", "find")
    /\ device' = [device EXCEPT ![Of(r)] = "ACTIVE"]
    /\ UNCHANGED <<session, code, client>>

\* revokeByDeviceId, after a session was revoked.
Demote(r) ==
    /\ Step(r, "demote", "idle")
    /\ device' = [device EXCEPT ![session[job[r].token.sid].device] = "REVOKED"]
    /\ UNCHANGED <<session, code, client>>

-----------------------------------------------------------------------------
(* auth.service.ts *)

\* Variant: the deviceId is left out of the condition.
ExistingOfUser(b) == UNION {Unrevoked(d) : d \in Browsers}

\* Variant: a session is created on every login.
ExistingNone(b) == {}

\* createSession looks for the device's newest session that is not revoked.
Existing(b) == Unrevoked(b)

\* Then it signs the tokens of that session, or of a new one with a random id (the
\* least id no request holds).
Taken == Rows \cup {job[q].token.sid : q \in Requests}
FindSession(r) ==
    /\ pc[r] = "find"
    /\ \E sid \in Sids :
          /\ \/ sid \in Existing(Of(r)) /\ \A s \in Existing(Of(r)) : s <= sid
             \/ Existing(Of(r)) = {} /\ sid \notin Taken /\ \A s \in Sids \ Taken : sid <= s
          /\ \E n \in Signable(sid) :
                job' = [job EXCEPT ![r].token = [sid |-> sid, n |-> n]]
    /\ pc' = [pc EXCEPT ![r] = "store"]
    /\ UNCHANGED <<device, session, code, client>>

\* Variant: the session is created without its device.
StoreSessionLoose(r) ==
    /\ Step(r, "store", "answer")
    /\ LET t == job[r].token
       IN  session' = [session EXCEPT ![t.sid] =
                          [@ EXCEPT !.n = t.n, !.status = IF @ = "REVOKED" THEN "REVOKED" ELSE "LIVE"]]
    /\ UNCHANGED <<device, code, client>>

\* Variant: the update clears revokedAt.
StoreSessionRevived(r) ==
    /\ Step(r, "store", "answer")
    /\ LET t == job[r].token
       IN  session' = [session EXCEPT ![t.sid] =
                          [device |-> IF @.status = "NONE" THEN Of(r) ELSE @.device, n |-> t.n,
                           status |-> "LIVE"]]
    /\ UNCHANGED <<device, code, client>>

\* The session is created, or updated by its id whatever became of it.
StoreSession(r) ==
    /\ Step(r, "store", "answer")
    /\ LET t == job[r].token
       IN  session' = [session EXCEPT ![t.sid] =
                          [device |-> IF @.status = "NONE" THEN Of(r) ELSE @.device, n |-> t.n,
                           status |-> IF @.status = "REVOKED" THEN "REVOKED" ELSE "LIVE"]]
    /\ UNCHANGED <<device, code, client>>

\* rotateSession reads the session of the cookie: the token may be stale (reuse), or
\* good for a rotation.
Refresh(r, b) ==
    LET t == jar[b].refresh
        row == session[t.sid]
    IN  /\ ~jar[b].access /\ t # NoToken
        /\ \/ /\ row.status = "LIVE" /\ row.n # t.n
              /\ Start(r, b, "alarm", [From(b) EXCEPT !.token = t])
           \/ /\ row.status = "LIVE" /\ row.n = t.n
              /\ \E n \in Signable(t.sid) :
                    Start(r, b, "rotate", [From(b) EXCEPT !.token = [t EXCEPT !.n = n]])
        /\ UNCHANGED <<device, session, code, client>>

\* The new token is stored by the session's id.
Rotate(r) ==
    /\ Step(r, "rotate", "answer")
    /\ LET t == job[r].token
       IN  session' = [session EXCEPT ![t.sid].n = t.n]
    /\ UNCHANGED <<device, code, client>>

\* A reused token revokes the session; its device follows.
Alarm(r) ==
    /\ Step(r, "alarm", "demote")
    /\ session' = [session EXCEPT ![job[r].token.sid].status = "REVOKED"]
    /\ UNCHANGED <<device, code, client>>

-----------------------------------------------------------------------------
(* auth.controller.ts *)

\* setAuthCookies reaches the browser, and the page leaves the confirmation form.
SetCookies(r) ==
    /\ Step(r, "answer", "idle")
    /\ jar' = [jar EXCEPT ![Of(r)] = [access |-> TRUE, refresh |-> job[r].token]]
    /\ form' = [form EXCEPT ![Of(r)] = Nothing]
    /\ UNCHANGED <<rows>>

\* logout revokes the session of the cookie, and leaves its device alone.
Logout(r, b) ==
    /\ jar[b].access /\ jar[b].refresh # NoToken
    /\ session' = [session EXCEPT ![jar[b].refresh.sid].status = "REVOKED"]
    /\ Start(r, b, "clear", From(b))
    /\ UNCHANGED <<device, code, client>>

\* clearAuthCookies reaches the browser.
ClearCookies(r) ==
    /\ Step(r, "clear", "idle")
    /\ jar' = [jar EXCEPT ![Of(r)] = [access |-> FALSE, refresh |-> NoToken]]
    /\ UNCHANGED <<rows, form>>

\* DELETE /auth/sessions/:id finds the session and revokes it; its device follows.  The
\* page offers it for every session but the current one, revoked sessions included.
RevokeSession(r, b, s) ==
    /\ jar[b].access /\ s \in Rows /\ jar[b].refresh # [sid |-> s, n |-> session[s].n]
    /\ session' = [session EXCEPT ![s].status = "REVOKED"]
    /\ Start(r, b, "demote", [From(b) EXCEPT !.token = [sid |-> s, n |-> 0]])
    /\ UNCHANGED <<device, code, client>>

-----------------------------------------------------------------------------
(* Time and failures *)

ExpireAccess(b) ==
    /\ jar[b].access
    /\ jar' = [jar EXCEPT ![b].access = FALSE]
    /\ UNCHANGED <<rows, form, pc, job>>

\* The request fails between two statements, or its answer never arrives.
Fail(r) ==
    /\ pc[r] # "idle"
    /\ Of(r) \in Orderly => pc[r] # "answer"
    /\ pc' = [pc EXCEPT ![r] = "idle"]
    /\ job' = [job EXCEPT ![r] = NoJob]
    /\ UNCHANGED <<rows, client>>

Serve(r) ==
    \/ UpsertDevice(r) \/ PutBack(r) \/ VoidCodes(r) \/ MailCode(r) \/ ShowForm(r)
    \/ Consume(r) \/ Activate(r) \/ Demote(r)
    \/ FindSession(r) \/ StoreSession(r) \/ Rotate(r) \/ Alarm(r)
    \/ SetCookies(r) \/ ClearCookies(r) \/ Fail(r)

Send(r, b) ==
    \/ Login(r, b) \/ Resend(r, b) \/ Confirm(r, b) \/ Refresh(r, b) \/ Logout(r, b)
    \/ \E s \in Sids : RevokeSession(r, b, s)

Next ==
    \/ \E r \in Requests : Register(r) \/ Serve(r) \/ \E b \in Browsers : Send(r, b)
    \/ \E b \in Browsers : ExpireAccess(b)

Spec == Init /\ [][Next]_vars

-----------------------------------------------------------------------------
(* Properties *)

\* The user registered with b, or typed a code mailed for it.
Trusted(b) == b = Home \/ \E c \in Codes : code[c] = [device |-> b, status |-> "TYPED"]

\* A session that exists has a token and a trusted device.
RowsFit ==
    \A s \in Sids : /\ s \notin Rows => session[s] = NoRow
                    /\ s \in Rows => /\ session[s].device # Nothing /\ session[s].n # 0
                                     /\ Trusted(session[s].device)

\* Only trusted devices are ACTIVE; a form is about a code for its own browser, and a jar
\* holds the token of a session of its own browser.
BrowsersFit ==
    \A b \in Browsers :
        /\ device[b] = "ACTIVE" => Trusted(b)
        /\ form[b] # Nothing => code[form[b]].status # "NONE" /\ code[form[b]].device = b
        /\ jar[b].refresh # NoToken => session[jar[b].refresh.sid].device = b

\* What a request at label l has in memory, j, is of use there.
Fits(l, j) ==
    LET row == session[j.token.sid]
        orderly == j.from \in Orderly
    IN  /\ l # "idle" => j.from \in Browsers
        /\ l = "upsert" => j.from = Home
        /\ l \in {"find", "activate", "store"} => Trusted(j.from)
        /\ l \in {"form", "consume"} =>
              /\ j.code \in Codes
              /\ code[j.code].status # "NONE" /\ code[j.code].device = j.from
        /\ l \in {"alarm", "demote"} => j.token.sid \in Rows
        /\ l \in {"rotate", "answer"} => j.token \in Tokens /\ row.device = j.from
        /\ l = "store" => /\ j.token \in Tokens
                          /\ row.status # "NONE" => row.device = j.from
                          /\ row.status = "NONE" /\ orderly => Unrevoked(j.from) = {}
        /\ l = "answer" /\ orderly /\ row.status = "LIVE" => row.n = j.token.n
        /\ l = "alarm" => ~orderly

JobsFit == \A r \in Requests : Fits(pc[r], job[r])

\* Nobody else works on the session a request is about to create.
NewAlone ==
    \A q, r \in Requests :
        q # r /\ pc[q] = "store" /\ session[job[q].token.sid].status = "NONE"
            => job[r].token.sid # job[q].token.sid

\* An orderly browser has one request in progress.
Alone == \A q, r \in Requests : q # r /\ job[q].from \in Orderly => job[r].from # job[q].from

\* Browser b has one session that is not revoked, and unless a new token is on its way
\* it has the token of that session.
FreshAt(b) ==
    LET t == jar[b].refresh
    IN  /\ \A s, u \in Unrevoked(b) : s = u
        /\ /\ t # NoToken /\ session[t.sid].status = "LIVE"
           /\ \A r \in Requests : job[r].from = b => pc[r] # "answer"
           => session[t.sid].n = t.n

Fresh == \A b \in Orderly : FreshAt(b)

\* A token of an orderly browser on its way to its session is not older than the one there.
Newer ==
    \A r \in Requests :
        LET t == job[r].token
        IN  /\ pc[r] \in {"store", "rotate"} /\ Of(r) \in Orderly
            /\ session[t.sid].status # "NONE"
            => session[t.sid].n <= t.n

\* The inductive invariant of the sessions.
SInv == TypeOK /\ RowsFit /\ BrowsersFit /\ JobsFit /\ NewAlone /\ Alone /\ Fresh

\* The same with what the refinement of Credential needs.
CInv == SInv /\ Newer

\* Tokens are given only to the device the user registered with and to devices for
\* which the user typed a code mailed for that very device, however logins, resends,
\* confirmations and revocations interleave.
SessionsNeedProof ==
    \A s \in Rows : \/ session[s].device = Home
                    \/ \E c \in Codes : code[c] = [device |-> session[s].device, status |-> "TYPED"]

\* A device whose requests never overlap, and that loses no answer, has one session that
\* is not revoked, whatever the other devices do meanwhile and wherever in the server a
\* request fails: a login reuses it.
OneSessionPerDevice ==
    \A b \in Orderly : Cardinality(Unrevoked(b)) <= 1

\* A browser that sends one request at a time and gets every answer is never taken for
\* a thief of its own refresh token: no login, rotation or revocation of another
\* device changes the token it holds.
NoFalseAlarm == \A r \in Requests : pc[r] = "alarm" => Of(r) \notin Orderly

\* The good token of an orderly browser: that of its session that is not revoked.
Good ==
    [b \in Orderly |->
        IF Unrevoked(b) = {} THEN NoToken
        ELSE LET s == CHOOSE s \in Unrevoked(b) : TRUE IN [sid |-> s, n |-> session[s].n]]

Opened == {s \in Rows : session[s].device \in Orderly}

Abstract == INSTANCE Credential
            WITH Devices <- Orderly, Ids <- Sids, Numbers <- 1..MaxTokens,
                 Nothing <- NoToken, good <- Good, opened <- Opened

\* The refresh token of a browser whose requests never overlap is good until a newer one
\* replaces it or its session is revoked, and never afterwards: a login or a rotation that
\* stores its token late does not bring a revoked session back, nor an older token.
ImplementsCredential == Abstract!Spec
=============================================================================
