---------------------------- MODULE SessionsProofs ----------------------------
(* Theorems about Sessions, for every value of its constants. *)
EXTENDS Sessions, FiniteSetTheorems, TLAPS

-----------------------------------------------------------------------------
(* What every statement leaves of the rows *)

\* No code that exists is unmade or given away, and a typed one stays typed.
CodesKept ==
    \A c \in Codes : code[c].status # "NONE" =>
        /\ code'[c].status # "NONE" /\ code'[c].device = code[c].device
        /\ code[c].status = "TYPED" => code'[c].status = "TYPED"

\* No session is unmade or given away, and none but those of browser o is created, has
\* its token changed or is taken back from its revocation.
SessionsKept(o) ==
    \A s \in Sids :
        /\ session[s].status # "NONE" =>
              /\ session'[s].status # "NONE" /\ session'[s].device = session[s].device
              /\ session'[s].status = "LIVE" /\ session[s].device # o =>
                    session[s].status = "LIVE" /\ session'[s].n = session[s].n
        /\ session[s].status = "NONE" /\ session'[s].status # "NONE" => session'[s].device = o

\* Sessions are revoked, and nothing else happens to them.
OnlyRevoked ==
    \A s \in Sids : \/ session'[s] = session[s]
                    \/ s \in Rows /\ session'[s] = [session[s] EXCEPT !.status = "REVOKED"]

\* A trusted browser stays trusted.
LEMMA TrustedKept ==
    ASSUME TypeOK, TypeOK', CodesKept, NEW b, Trusted(b)
    PROVE  Trusted(b)'
<1>1. CASE b = Home
  BY <1>1 DEF Trusted
<1>2. CASE \E c \in Codes : code[c] = [device |-> b, status |-> "TYPED"]
  <2>1. PICK c \in Codes : code[c] = [device |-> b, status |-> "TYPED"]
    BY <1>2
  <2>2. code'[c].status = "TYPED" /\ code'[c].device = b
    BY <2>1 DEF CodesKept
  <2>3. code'[c] \in CodeRows
    BY DEF TypeOK
  <2>4. code'[c] = [device |-> b, status |-> "TYPED"]
    BY <2>2, <2>3 DEF CodeRows
  <2> QED
    BY <2>4 DEF Trusted
<1> QED
  BY <1>1, <1>2 DEF Trusted

\* A revocation leaves the sessions of every browser what they were.
LEMMA RevokedKept ==
    ASSUME TypeOK, TypeOK', OnlyRevoked, NEW o
    PROVE  /\ SessionsKept(o) /\ Rows' = Rows
           /\ \A b : Unrevoked(b)' \subseteq Unrevoked(b)
<1>1. ASSUME NEW s \in Sids
      PROVE  /\ session'[s].device = session[s].device /\ session'[s].n = session[s].n
             /\ \/ session'[s].status = session[s].status
                \/ s \in Rows /\ session'[s].status = "REVOKED"
  BY DEF OnlyRevoked, TypeOK, SessionRows
<1> QED
  BY <1>1 DEF SessionsKept, Rows, Unrevoked

\* The rows of the sessions stay well formed when some are revoked.
LEMMA RowsFitKept ==
    ASSUME TypeOK, TypeOK', RowsFit, CodesKept, OnlyRevoked
    PROVE  RowsFit'
<1> SUFFICES ASSUME NEW s \in Sids
             PROVE  /\ s \notin Rows' => session'[s] = NoRow
                    /\ s \in Rows' => /\ session'[s].device # Nothing /\ session'[s].n # 0
                                      /\ Trusted(session[s].device)'
  BY DEF RowsFit
<1>1. s \notin Rows' => session'[s] = NoRow
  BY RevokedKept DEF RowsFit, OnlyRevoked
<1>2. ASSUME s \in Rows'
      PROVE  /\ session'[s].device # Nothing /\ session'[s].n # 0
             /\ Trusted(session[s].device)'
  <2>1. s \in Rows /\ session'[s].device = session[s].device /\ session'[s].n = session[s].n
    BY <1>2, RevokedKept DEF OnlyRevoked, TypeOK, SessionRows
  <2>2. PICK d : d = session[s].device
    OBVIOUS
  <2>3. Trusted(d)
    BY <2>1, <2>2 DEF RowsFit
  <2>4. Trusted(d)'
    BY <2>3, TrustedKept
  <2> QED
    BY <2>1, <2>2, <2>4 DEF RowsFit, Trusted
<1> QED
  BY <1>1, <1>2

-----------------------------------------------------------------------------
(* Requests in progress *)

\* What a request has in memory stays of use when only the sessions of another browser
\* change, and nobody creates the session it is about to create.
LEMMA FitsKept ==
    ASSUME TypeOK, TypeOK', RowsFit, CodesKept, NEW o, SessionsKept(o), NEW l, NEW j \in Jobs,
           j.from \in Orderly => j.from # o,
           l = "store" /\ session[j.token.sid].status = "NONE" =>
               session'[j.token.sid].status = "NONE",
           Fits(l, j)
    PROVE  Fits(l, j)'
<1>1. /\ l # "idle" => j.from \in Browsers
      /\ l = "upsert" => j.from = Home
      /\ l = "alarm" => j.from \notin Orderly
  BY DEF Fits
<1>2. l \in {"find", "activate", "store"} => Trusted(j.from)'
  BY TrustedKept DEF Fits
<1>3. l \in {"form", "consume"} =>
        /\ j.code \in Codes
        /\ code'[j.code].status # "NONE" /\ code'[j.code].device = j.from
  BY DEF Fits, CodesKept
<1>4. l \in {"alarm", "demote"} => j.token.sid \in Rows'
  BY DEF Fits, Rows, SessionsKept
<1>5. l \in {"rotate", "answer"} => j.token \in Tokens /\ session'[j.token.sid].device = j.from
  <2> SUFFICES ASSUME l \in {"rotate", "answer"}
               PROVE  j.token \in Tokens /\ session'[j.token.sid].device = j.from
    OBVIOUS
  <2>1. j.token \in Tokens /\ session[j.token.sid].device = j.from /\ j.from \in Browsers
    BY DEF Fits
  <2>2. j.token.sid \in Sids /\ j.from # Nothing
    BY <2>1, SessionsAssumption DEF Tokens
  <2>3. session[j.token.sid].status # "NONE"
    BY <2>1, <2>2 DEF RowsFit, Rows, NoRow
  <2> QED
    BY <2>1, <2>2, <2>3 DEF SessionsKept
<1>6. ASSUME l = "store"
      PROVE  /\ j.token \in Tokens
             /\ session'[j.token.sid].status # "NONE" => session'[j.token.sid].device = j.from
             /\ session'[j.token.sid].status = "NONE" /\ j.from \in Orderly => Unrevoked(j.from)' = {}
  <2>1. j.token \in Tokens /\ j.token.sid \in Sids
    BY <1>6 DEF Fits, Tokens
  <2>2. session'[j.token.sid].status # "NONE" => session'[j.token.sid].device = j.from
    BY <1>6, <2>1 DEF Fits, SessionsKept
  <2>3. ASSUME session'[j.token.sid].status = "NONE", j.from \in Orderly
        PROVE  Unrevoked(j.from)' = {}
    <3>1. Unrevoked(j.from) = {} /\ j.from # o
      BY <1>6, <2>1, <2>3 DEF Fits, SessionsKept
    <3>2. ASSUME NEW s \in Unrevoked(j.from)' PROVE FALSE
      <4>1. s \in Sids /\ session'[s].device = j.from /\ session'[s].status = "LIVE"
        BY <3>2 DEF Unrevoked
      <4>2. session[s].status # "NONE"
        BY <3>1, <4>1 DEF SessionsKept
      <4>3. s \in Unrevoked(j.from)
        BY <3>1, <4>1, <4>2 DEF SessionsKept, Unrevoked
      <4> QED
        BY <3>1, <4>3
    <3> QED
      BY <3>2
  <2> QED
    BY <2>1, <2>2, <2>3
<1>7. ASSUME l = "answer", j.from \in Orderly, session'[j.token.sid].status = "LIVE"
      PROVE  session'[j.token.sid].n = j.token.n
  <2>1. j.token \in Tokens /\ session[j.token.sid].device = j.from /\ j.from \in Browsers /\ j.from # o
    BY <1>7 DEF Fits
  <2>2. j.token.sid \in Sids /\ j.from # Nothing
    BY <2>1, SessionsAssumption DEF Tokens
  <2>3. session[j.token.sid].status # "NONE"
    BY <2>1, <2>2 DEF RowsFit, Rows, NoRow
  <2>4. session[j.token.sid].status = "LIVE" /\ session'[j.token.sid].n = session[j.token.sid].n
    BY <1>7, <2>1, <2>2, <2>3 DEF SessionsKept
  <2> QED
    BY <1>7, <2>4 DEF Fits
<1> QED
  BY <1>1, <1>2, <1>3, <1>4, <1>5, <1>6, <1>7 DEF Fits

\* The same for all requests, one of which goes on to label l with j.
LEMMA JobsKept ==
    ASSUME TypeOK, TypeOK', RowsFit, JobsFit, NewAlone, Alone, CodesKept,
           NEW o, SessionsKept(o), NEW r \in Requests, NEW l, NEW j \in Jobs,
           pc' = [pc EXCEPT ![r] = l], job' = [job EXCEPT ![r] = j], Fits(l, j)',
           \A q \in Requests \ {r} : job[q].from \in Orderly => job[q].from # o,
           j.from \in Orderly => \A q \in Requests \ {r} : job[q].from # j.from,
           l = "store" /\ session'[j.token.sid].status = "NONE" =>
               \A q \in Requests \ {r} : job[q].token.sid # j.token.sid,
           \A q \in Requests \ {r} :
               pc[q] = "store" /\ session[job[q].token.sid].status = "NONE" =>
                   /\ session'[job[q].token.sid].status = "NONE"
                   /\ j.token.sid # job[q].token.sid
    PROVE  JobsFit' /\ NewAlone' /\ Alone'
<1>0. /\ pc'[r] = l /\ job'[r] = j
      /\ \A q \in Requests \ {r} : pc'[q] = pc[q] /\ job'[q] = job[q]
  BY DEF TypeOK
<1>1. JobsFit'
  <2> SUFFICES ASSUME NEW q \in Requests PROVE Fits(pc[q], job[q])'
    BY DEF JobsFit
  <2>1. CASE q = r
    BY <1>0, <2>1 DEF Fits
  <2>2. CASE q # r
    <3>1. PICK m, k : pc[q] = m /\ job[q] = k
      OBVIOUS
    <3>2. k \in Jobs /\ Fits(m, k)
      BY <3>1 DEF TypeOK, JobsFit
    <3>3. /\ k.from \in Orderly => k.from # o
          /\ m = "store" /\ session[k.token.sid].status = "NONE" =>
                session'[k.token.sid].status = "NONE"
      BY <2>2, <3>1
    <3>4. Fits(m, k)'
      BY <3>2, <3>3, FitsKept
    <3>5. pc'[q] = m /\ job'[q] = k
      BY <1>0, <2>2, <3>1
    <3> QED
      BY <3>4, <3>5 DEF Fits
  <2> QED
    BY <2>1, <2>2
<1>2. NewAlone'
  <2> SUFFICES ASSUME NEW p \in Requests, NEW q \in Requests, p # q, pc'[p] = "store",
                      session'[job'[p].token.sid].status = "NONE"
               PROVE  job'[q].token.sid # job'[p].token.sid
    BY DEF NewAlone
  <2>1. CASE p = r
    BY <1>0, <2>1
  <2>2. CASE p # r
    <3>1. pc[p] = "store" /\ job'[p] = job[p] /\ job[p].token.sid \in Sids
      BY <1>0, <2>2 DEF JobsFit, Fits, Tokens
    <3>2. session[job[p].token.sid].status = "NONE"
      BY <3>1 DEF SessionsKept
    <3> QED
      BY <1>0, <2>2, <3>1, <3>2 DEF NewAlone
  <2> QED
    BY <2>1, <2>2
<1>3. Alone'
  BY <1>0 DEF Alone
<1> QED
  BY <1>1, <1>2, <1>3

\* A browser keeps its token fresh while the sessions of other browsers change.
LEMMA FreshKept ==
    ASSUME TypeOK, TypeOK', RowsFit, BrowsersFit, NEW o, SessionsKept(o),
           NEW b \in Browsers, b # o, jar'[b].refresh = jar[b].refresh, FreshAt(b),
           (\A q \in Requests : job'[q].from = b => pc'[q] # "answer") =>
               \A q \in Requests : job[q].from = b => pc[q] # "answer"
    PROVE  FreshAt(b)'
<1>1. Unrevoked(b)' \subseteq Unrevoked(b)
  BY DEF SessionsKept, Unrevoked
<1>2. ASSUME jar'[b].refresh # NoToken, session'[jar'[b].refresh.sid].status = "LIVE",
             \A q \in Requests : job'[q].from = b => pc'[q] # "answer"
      PROVE  session'[jar'[b].refresh.sid].n = jar'[b].refresh.n
  <2>1. PICK t \in Tokens : t = jar[b].refresh /\ t.sid \in Sids
    BY <1>2 DEF TypeOK, Cookies, Tokens
  <2>2. t # NoToken /\ session[t.sid].device = b /\ b # Nothing
    BY <1>2, <2>1, SessionsAssumption DEF BrowsersFit
  <2>3. session[t.sid].status # "NONE"
    BY <2>1, <2>2 DEF RowsFit, Rows, NoRow
  <2>4. session[t.sid].status = "LIVE" /\ session'[t.sid].n = session[t.sid].n
    BY <1>2, <2>1, <2>2, <2>3 DEF SessionsKept
  <2>5. session[t.sid].n = t.n
    BY <1>2, <2>1, <2>2, <2>4 DEF FreshAt
  <2> QED
    BY <2>1, <2>4, <2>5
<1> QED
  BY <1>1, <1>2 DEF FreshAt

-----------------------------------------------------------------------------
(* Each action preserves SInv *)

\* A request goes on to label l with j; it may revoke sessions, and bears on no cookie and
\* no form.
LEMMA Continuing ==
    ASSUME SInv, TypeOK', CodesKept, OnlyRevoked, UNCHANGED client,
           \A b \in Browsers : device'[b] = "ACTIVE" => device[b] = "ACTIVE" \/ Trusted(b),
           NEW r \in Requests, NEW l, NEW j \in Jobs,
           pc' = [pc EXCEPT ![r] = l], job' = [job EXCEPT ![r] = j], Fits(l, j)',
           pc[r] = "answer" => job[r].from \notin Orderly,
           j.from \in Orderly => \A q \in Requests \ {r} : job[q].from # j.from,
           l = "store" /\ session[j.token.sid].status = "NONE" =>
               \A q \in Requests \ {r} : job[q].token.sid # j.token.sid,
           j.token.sid = 0 \/ j.token.sid = job[r].token.sid \/ j.token.sid \in Rows
               \/ \A q \in Requests \ {r} : job[q].token.sid # j.token.sid
    PROVE  SInv'
<1>0. SessionsKept(Nothing) /\ Nothing \notin Orderly
  BY RevokedKept, SessionsAssumption DEF SInv
<1>1. RowsFit'
  BY RowsFitKept DEF SInv
<1>2. BrowsersFit'
  <2> SUFFICES ASSUME NEW b \in Browsers
               PROVE  /\ device'[b] = "ACTIVE" => Trusted(b)'
                      /\ form[b] # Nothing => code'[form[b]].status # "NONE" /\ code'[form[b]].device = b
                      /\ jar[b].refresh # NoToken => session'[jar[b].refresh.sid].device = b
    BY DEF BrowsersFit, client
  <2>1. device'[b] = "ACTIVE" => Trusted(b)'
    BY TrustedKept DEF SInv, BrowsersFit
  <2>2. form[b] # Nothing => code'[form[b]].status # "NONE" /\ code'[form[b]].device = b
    BY DEF SInv, TypeOK, BrowsersFit, CodesKept
  <2>3. ASSUME jar[b].refresh # NoToken PROVE session'[jar[b].refresh.sid].device = b
    <3>1. jar[b].refresh.sid \in Sids /\ session[jar[b].refresh.sid].device = b /\ b # Nothing
      BY <2>3, SessionsAssumption DEF SInv, BrowsersFit, TypeOK, Cookies, Tokens
    <3>2. session[jar[b].refresh.sid].status # "NONE"
      BY <3>1 DEF SInv, RowsFit, Rows, NoRow
    <3> QED
      BY <1>0, <3>1, <3>2 DEF SessionsKept
  <2> QED
    BY <2>1, <2>2, <2>3
<1>3. JobsFit' /\ NewAlone' /\ Alone'
  <2>1. \A s \in Sids : session[s].status = "NONE" <=> session'[s].status = "NONE"
    BY <1>0, RevokedKept DEF SInv, Rows
  <2>2. \A q \in Requests : pc[q] = "store" => job[q].token.sid \in Sids
    BY DEF SInv, JobsFit, Fits, Tokens
  <2>3. l = "store" => j.token.sid \in Sids
    BY DEF Fits, Tokens
  <2>4. ASSUME NEW q \in Requests \ {r}, pc[q] = "store", session[job[q].token.sid].status = "NONE"
        PROVE  j.token.sid # job[q].token.sid
    <3>1. job[q].token.sid # 0
      BY <2>2, <2>4 DEF Sids
    <3>2. job[q].token.sid # job[r].token.sid
      BY <2>4 DEF SInv, NewAlone
    <3> QED
      BY <2>4, <3>1, <3>2 DEF Rows
  <2>5. \A q \in Requests \ {r} :
          pc[q] = "store" /\ session[job[q].token.sid].status = "NONE" =>
              /\ session'[job[q].token.sid].status = "NONE"
              /\ j.token.sid # job[q].token.sid
    BY <2>1, <2>2, <2>4
  <2>6. l = "store" /\ session'[j.token.sid].status = "NONE" =>
            \A q \in Requests \ {r} : job[q].token.sid # j.token.sid
    BY <2>1, <2>3
  <2>7. \A q \in Requests \ {r} : job[q].from \in Orderly => job[q].from # Nothing
    BY <1>0
  <2>8. TypeOK /\ RowsFit /\ JobsFit /\ NewAlone /\ Alone
    BY DEF SInv
  <2> QED
    BY <1>0, <2>5, <2>6, <2>7, <2>8, JobsKept
<1>4. Fresh'
  <2> SUFFICES ASSUME NEW b \in Orderly PROVE FreshAt(b)'
    BY DEF Fresh
  <2>1. b \in Browsers /\ b # Nothing /\ jar'[b].refresh = jar[b].refresh /\ FreshAt(b)
    BY <1>0, SessionsAssumption DEF SInv, Fresh, client
  <2>2. ASSUME \A q \in Requests : job'[q].from = b => pc'[q] # "answer",
               NEW q \in Requests, job[q].from = b
        PROVE  pc[q] # "answer"
    BY <2>2 DEF SInv, TypeOK
  <2> QED
    BY <1>0, <2>1, <2>2, FreshKept DEF SInv
<1> QED
  BY <1>1, <1>2, <1>3, <1>4 DEF SInv

\* Nobody needs anything at "idle".
LEMMA Idle == /\ NoJob \in Jobs /\ NoJob.from = Nothing /\ NoJob.token.sid = 0
              /\ Fits("idle", NoJob) /\ Fits("idle", NoJob)'
BY SessionsAssumption DEF NoJob, NoToken, Jobs, Fits

\* A step of a request keeps the types of the requests.
LEMMA StepTyped ==
    ASSUME SInv, NEW r \in Requests, NEW at, NEW l \in Labels, Step(r, at, l)
    PROVE  pc' \in [Requests -> Labels] /\ job' \in [Requests -> Jobs]
BY Idle DEF SInv, TypeOK, Step

\* A request in progress has what its label needs.
LEMMA Busy ==
    ASSUME SInv, NEW r \in Requests
    PROVE  /\ job[r] \in Jobs /\ Fits(pc[r], job[r])
           /\ job[r].from \in Orderly => \A q \in Requests \ {r} : job[q].from # job[r].from
BY DEF SInv, TypeOK, JobsFit, Alone

\* A request goes from one label to the next, or ends, and bears on no cookie and no form.
LEMMA Advancing ==
    ASSUME SInv, TypeOK', CodesKept, OnlyRevoked, UNCHANGED client,
           \A b \in Browsers : device'[b] = "ACTIVE" => device[b] = "ACTIVE" \/ Trusted(b),
           NEW r \in Requests, NEW at, NEW l, l \notin {"store", "answer"}, at # "answer",
           Step(r, at, l), l # "idle" => Fits(l, job[r])'
    PROVE  SInv'
<1>0. pc' = [pc EXCEPT ![r] = l] /\ pc[r] # "answer"
  BY DEF Step
<1>1. CASE l = "idle"
  <2>1. job' = [job EXCEPT ![r] = NoJob]
    BY <1>1 DEF Step
  <2>2. NoJob.from \notin Orderly
    BY Idle, SessionsAssumption
  <2> QED
    BY <1>0, <1>1, <2>1, <2>2, Idle, Continuing
<1>2. CASE l # "idle"
  <2>1. PICK j : j = job[r]
    OBVIOUS
  <2>2. job' = job /\ job' = [job EXCEPT ![r] = j] /\ job'[r] = j
    BY <1>2, <2>1 DEF Step, SInv, TypeOK
  <2>3. Fits(l, j)'
    BY <1>2, <2>2 DEF Fits
  <2>4. j \in Jobs /\ (j.from \in Orderly => \A q \in Requests \ {r} : job[q].from # j.from)
    BY <2>1, Busy
  <2> QED
    BY <1>0, <2>1, <2>2, <2>3, <2>4, Continuing
<1> QED
  BY <1>1, <1>2

\* The devices and codes: statements of the device service.
LEMMA DeviceStep ==
    ASSUME SInv, NEW r \in Requests,
           \/ UpsertDevice(r) \/ PutBack(r) \/ VoidCodes(r) \/ Consume(r) \/ Activate(r)
           \/ Demote(r)
    PROVE  SInv'
<1> USE DEF Labels
<1>0. /\ job[r] \in Jobs /\ Fits(pc[r], job[r])
      /\ pc[r] # "idle" => job[r].from \in Browsers
  BY Busy DEF Fits
<1>1. TypeOK'
  <2>1. pc' \in [Requests -> Labels] /\ job' \in [Requests -> Jobs]
    BY StepTyped DEF UpsertDevice, PutBack, VoidCodes, Consume, Activate, Demote
  <2>2. code' \in [Codes -> CodeRows]
    <3>1. CASE VoidCodes(r)
      BY <3>1 DEF SInv, TypeOK, VoidCodes, CodeRows
    <3>2. CASE Consume(r)
      BY <3>2 DEF SInv, TypeOK, Consume, CodeRows
    <3> QED
      BY <3>1, <3>2 DEF SInv, TypeOK, UpsertDevice, PutBack, Activate, Demote
  <2>3. device' \in [Browsers -> {"NONE", "PENDING", "ACTIVE", "REVOKED"}]
    BY DEF SInv, TypeOK, UpsertDevice, PutBack, VoidCodes, Consume, Activate, Demote
  <2>4. UNCHANGED <<session, jar, form>>
    BY DEF UpsertDevice, PutBack, VoidCodes, Consume, Activate, Demote, client
  <2> QED
    BY <2>1, <2>2, <2>3, <2>4 DEF SInv, TypeOK
<1>2. OnlyRevoked /\ UNCHANGED client
  BY DEF OnlyRevoked, UpsertDevice, PutBack, VoidCodes, Consume, Activate, Demote
<1>3. CodesKept
  BY <1>0 DEF CodesKept, UpsertDevice, PutBack, VoidCodes, Consume, Activate, Demote, Step,
     Fits, SInv, TypeOK, CodeRows
<1>4. PICK j : j = job[r]
  OBVIOUS
<1>5. ASSUME NEW l, l \notin {"store", "answer"}, NEW at, at # "answer", Step(r, at, l),
             \A b \in Browsers : device'[b] = "ACTIVE" => device[b] = "ACTIVE" \/ Trusted(b),
             l # "idle" => Fits(l, j)'
      PROVE  SInv'
  <2>1. l # "idle" => job'[r] = j
    BY <1>4, <1>5 DEF Step
  <2>2. l # "idle" => job' = job
    BY <1>5 DEF Step
  <2>3. l # "idle" => Fits(l, job[r])'
    BY <1>5, <2>1 DEF Fits
  <2> QED
    BY <1>1, <1>2, <1>3, <1>5, <2>3, Advancing
<1>6. ASSUME NEW l, Fits(l, j), l \notin {"store", "answer"} PROVE Fits(l, j)'
  <2>1. SessionsKept(Nothing) /\ Nothing \notin Orderly
    BY <1>1, <1>2, RevokedKept, SessionsAssumption DEF SInv
  <2>2. j.from \in Orderly => j.from # Nothing
    BY <2>1
  <2> QED
    BY <1>0, <1>1, <1>3, <1>4, <1>6, <2>1, <2>2, FitsKept DEF SInv
<1>7. CASE UpsertDevice(r)
  <2>1. Trusted(j.from) /\ Fits("find", j)
    BY <1>0, <1>4, <1>7 DEF UpsertDevice, Step, Fits, Trusted
  <2>2. \A b \in Browsers : device'[b] = "ACTIVE" => device[b] = "ACTIVE" \/ Trusted(b)
    BY <1>4, <1>7, <2>1 DEF UpsertDevice, Of, SInv, TypeOK
  <2>3. Fits("find", j)'
    BY <1>6, <2>1
  <2> QED
    BY <1>5, <1>7, <2>2, <2>3 DEF UpsertDevice
<1>8. CASE PutBack(r)
  <2>1. Fits("void", j)
    BY <1>0, <1>4, <1>8 DEF PutBack, Step, Fits
  <2>2. \A b \in Browsers : device'[b] = "ACTIVE" => device[b] = "ACTIVE" \/ Trusted(b)
    BY <1>8 DEF PutBack, Of, SInv, TypeOK
  <2>3. Fits("void", j)'
    BY <1>6, <2>1
  <2> QED
    BY <1>5, <1>8, <2>2, <2>3 DEF PutBack
<1>9. CASE VoidCodes(r)
  <2>1. Fits("mail", j)
    BY <1>0, <1>4, <1>9 DEF VoidCodes, Step, Fits
  <2>2. Fits("mail", j)'
    BY <1>6, <2>1
  <2> QED
    BY <1>5, <1>9, <2>2 DEF VoidCodes
<1>10. CASE Consume(r)
  <2>1. /\ j.code \in Codes /\ code[j.code].device = j.from /\ j.from \in Browsers
        /\ code' = [code EXCEPT ![j.code].status = "TYPED"]
    BY <1>0, <1>4, <1>10 DEF Consume, Step, Fits
  <2>2. code'[j.code] = [device |-> j.from, status |-> "TYPED"]
    BY <2>1 DEF SInv, TypeOK, CodeRows
  <2>3. Trusted(j.from)'
    BY <2>1, <2>2 DEF Trusted
  <2>4. Fits("activate", j)'
    BY <2>1, <2>3 DEF Fits
  <2> QED
    BY <1>5, <1>10, <2>4 DEF Consume
<1>11. CASE Activate(r)
  <2>1. Trusted(j.from) /\ Fits("find", j)
    BY <1>0, <1>4, <1>11 DEF Activate, Step, Fits
  <2>2. \A b \in Browsers : device'[b] = "ACTIVE" => device[b] = "ACTIVE" \/ Trusted(b)
    BY <1>4, <1>11, <2>1 DEF Activate, Of, SInv, TypeOK
  <2>3. Fits("find", j)'
    BY <1>6, <2>1
  <2> QED
    BY <1>5, <1>11, <2>2, <2>3 DEF Activate
<1>12. CASE Demote(r)
  <2>1. \A b \in Browsers : device'[b] = "ACTIVE" => device[b] = "ACTIVE" \/ Trusted(b)
    BY <1>12 DEF Demote, SInv, TypeOK
  <2> QED
    BY <1>5, <1>12, <2>1 DEF Demote
<1> QED
  BY <1>7, <1>8, <1>9, <1>10, <1>11, <1>12

\* The code is mailed, to the device that waits for it.
LEMMA MailStep ==
    ASSUME SInv, NEW r \in Requests, MailCode(r)
    PROVE  SInv'
<1> USE DEF Labels
<1>0. /\ job[r] \in Jobs /\ job[r].from \in Browsers /\ pc[r] = "mail"
      /\ job[r].from \in Orderly => \A q \in Requests \ {r} : job[q].from # job[r].from
  BY Busy DEF Fits, MailCode
<1>1. PICK c \in Codes :
        /\ code[c].status = "NONE"
        /\ code' = [code EXCEPT ![c] = [device |-> job[r].from, status |-> "SENT"]]
        /\ IF job[r].resend
           THEN pc' = [pc EXCEPT ![r] = "idle"] /\ job' = [job EXCEPT ![r] = NoJob]
           ELSE pc' = [pc EXCEPT ![r] = "form"] /\ job' = [job EXCEPT ![r].code = c]
  BY DEF MailCode, Of
<1>2. UNCHANGED <<device, session, client>>
  BY DEF MailCode
<1>3. TypeOK'
  <2>1. code' \in [Codes -> CodeRows]
    BY <1>0, <1>1 DEF SInv, TypeOK, CodeRows
  <2>2. [job[r] EXCEPT !.code = c] \in Jobs
    BY <1>0 DEF Jobs
  <2>3. job' \in [Requests -> Jobs] /\ pc' \in [Requests -> Labels]
    BY <1>1, <2>2, Idle DEF SInv, TypeOK
  <2> QED
    BY <1>2, <2>1, <2>3 DEF SInv, TypeOK, client
<1>4. CodesKept /\ OnlyRevoked
  BY <1>1, <1>2 DEF CodesKept, OnlyRevoked, SInv, TypeOK
<1>5. CASE job[r].resend
  <2>1. pc' = [pc EXCEPT ![r] = "idle"] /\ job' = [job EXCEPT ![r] = NoJob]
    BY <1>1, <1>5
  <2>2. NoJob.from \notin Orderly
    BY Idle, SessionsAssumption
  <2> QED
    BY <1>0, <1>2, <1>3, <1>4, <2>1, <2>2, Idle, Continuing
<1>6. CASE ~job[r].resend
  <2>1. PICK j : j = [job[r] EXCEPT !.code = c]
    OBVIOUS
  <2>2. pc' = [pc EXCEPT ![r] = "form"] /\ job' = [job EXCEPT ![r] = j]
    BY <1>1, <1>6, <2>1 DEF SInv, TypeOK
  <2>3. j \in Jobs /\ j.from = job[r].from /\ j.token = job[r].token /\ j.code = c
    BY <1>0, <2>1 DEF Jobs
  <2>4. code'[j.code].status = "SENT" /\ code'[j.code].device = j.from
    BY <1>1, <2>3 DEF SInv, TypeOK
  <2>5. Fits("form", j)'
    BY <1>0, <2>3, <2>4 DEF Fits
  <2> QED
    BY <1>0, <1>2, <1>3, <1>4, <2>2, <2>3, <2>5, Continuing
<1> QED
  BY <1>5, <1>6

\* A request ends that leaves the rows alone, whatever it brings to its browser.
LEMMA Ending ==
    ASSUME SInv, TypeOK', UNCHANGED rows, BrowsersFit', Fresh', NEW r \in Requests,
           pc' = [pc EXCEPT ![r] = "idle"], job' = [job EXCEPT ![r] = NoJob]
    PROVE  SInv'
<1>1. CodesKept /\ OnlyRevoked
  BY DEF CodesKept, OnlyRevoked, rows
<1>2. SessionsKept(Nothing) /\ Nothing \notin Orderly
  BY <1>1, RevokedKept, SessionsAssumption DEF SInv
<1>3. RowsFit'
  BY <1>1, RowsFitKept DEF SInv
<1>4. JobsFit' /\ NewAlone' /\ Alone'
  <2>1. \A q \in Requests \ {r} :
          pc[q] = "store" /\ session[job[q].token.sid].status = "NONE" =>
              /\ session'[job[q].token.sid].status = "NONE"
              /\ NoJob.token.sid # job[q].token.sid
    <3>1. \A q \in Requests : pc[q] = "store" => job[q].token.sid # 0
      BY DEF SInv, JobsFit, Fits, Tokens, Sids
    <3> QED
      BY <3>1, Idle DEF rows
  <2>2. NoJob.from \notin Orderly
    BY <1>2, Idle
  <2>3. TypeOK /\ RowsFit /\ JobsFit /\ NewAlone /\ Alone
    BY DEF SInv
  <2>4. \A q \in Requests \ {r} : job[q].from \in Orderly => job[q].from # Nothing
    BY <1>2
  <2> QED
    BY <1>1, <1>2, <2>1, <2>2, <2>3, <2>4, Idle, JobsKept
<1> QED
  BY <1>3, <1>4 DEF SInv

\* The page shows the form for its own code, and the cookies a browser gets or loses are
\* those of its own session.
LEMMA BrowserStep ==
    ASSUME SInv, NEW r \in Requests, ShowForm(r) \/ SetCookies(r) \/ ClearCookies(r)
    PROVE  SInv'
<1> USE DEF Labels
<1>1. PICK j \in Jobs : j = job[r]
  BY Busy
<1>2. /\ pc[r] # "idle" /\ j.from \in Browsers
      /\ pc[r] = "form" => j.code \in Codes /\ code[j.code].status # "NONE"
                           /\ code[j.code].device = j.from
      /\ pc[r] = "answer" =>
           /\ j.token \in Tokens /\ session[j.token.sid].device = j.from
           /\ j.from \in Orderly /\ session[j.token.sid].status = "LIVE" =>
                session[j.token.sid].n = j.token.n
  BY <1>1, Busy DEF Fits, ShowForm, SetCookies, ClearCookies, Step
<1>3. pc' = [pc EXCEPT ![r] = "idle"] /\ job' = [job EXCEPT ![r] = NoJob] /\ UNCHANGED rows
  BY DEF ShowForm, SetCookies, ClearCookies, Step
<1>4. TypeOK'
  <2>1. pc' \in [Requests -> Labels] /\ job' \in [Requests -> Jobs]
    BY StepTyped DEF ShowForm, SetCookies, ClearCookies
  <2>2. jar' \in [Browsers -> Cookies]
    <3>1. [access |-> TRUE, refresh |-> NoToken] \in Cookies /\ [access |-> FALSE, refresh |-> NoToken] \in Cookies
          /\ (j.token \in Tokens => [access |-> TRUE, refresh |-> j.token] \in Cookies)
      BY DEF Cookies
    <3> QED
      BY <1>1, <1>2, <3>1 DEF SInv, TypeOK, ShowForm, SetCookies, ClearCookies, Step
  <2>3. form' \in [Browsers -> Codes \cup {Nothing}]
    BY <1>1, <1>2 DEF SInv, TypeOK, ShowForm, SetCookies, ClearCookies, Step
  <2> QED
    BY <1>3, <2>1, <2>2, <2>3 DEF SInv, TypeOK, rows
<1>5. BrowsersFit'
  <2> SUFFICES ASSUME NEW b \in Browsers
               PROVE  /\ device[b] = "ACTIVE" => Trusted(b)'
                      /\ form'[b] # Nothing => code[form'[b]].status # "NONE" /\ code[form'[b]].device = b
                      /\ jar'[b].refresh # NoToken => session[jar'[b].refresh.sid].device = b
    BY <1>3 DEF BrowsersFit, rows
  <2>1. device[b] = "ACTIVE" => Trusted(b)'
    BY <1>3 DEF SInv, BrowsersFit, Trusted, rows
  <2>2. form'[b] = form[b] \/ form'[b] = Nothing \/ (pc[r] = "form" /\ b = j.from /\ form'[b] = j.code)
    BY <1>1, <1>2 DEF SInv, TypeOK, ShowForm, SetCookies, ClearCookies, Step, Of
  <2>3. jar'[b].refresh = jar[b].refresh \/ jar'[b].refresh = NoToken
        \/ (pc[r] = "answer" /\ b = j.from /\ jar'[b].refresh = j.token)
    BY <1>1, <1>2 DEF SInv, TypeOK, ShowForm, SetCookies, ClearCookies, Step, Of
  <2> QED
    BY <1>2, <2>1, <2>2, <2>3 DEF SInv, BrowsersFit
<1>6. Fresh'
  <2> SUFFICES ASSUME NEW b \in Orderly PROVE FreshAt(b)'
    BY DEF Fresh
  <2>1. FreshAt(b) /\ b \in Browsers /\ b # Nothing
    BY SessionsAssumption DEF SInv, Fresh
  <2>2. UNCHANGED session
    BY <1>3 DEF rows
  <2>3. CASE jar'[b].refresh = jar[b].refresh /\ (pc[r] # "answer" \/ b # j.from)
    <3>1. SessionsKept(Nothing)
      BY <2>2 DEF SessionsKept
    <3>2. ASSUME \A q \in Requests : job'[q].from = b => pc'[q] # "answer",
                 NEW q \in Requests, job[q].from = b
          PROVE  pc[q] # "answer"
      BY <1>1, <1>3, <2>3, <3>2 DEF SInv, TypeOK
    <3> QED
      BY <1>4, <2>1, <2>3, <3>1, <3>2, FreshKept DEF SInv
  <2>4. CASE jar'[b].refresh = NoToken
    BY <2>1, <2>2, <2>4 DEF FreshAt, Unrevoked
  <2>5. CASE pc[r] = "answer" /\ b = j.from /\ jar'[b].refresh = j.token
    BY <1>2, <2>1, <2>2, <2>5 DEF FreshAt, Unrevoked
  <2>6. \/ jar'[b].refresh = jar[b].refresh /\ (pc[r] # "answer" \/ b # j.from)
        \/ jar'[b].refresh = NoToken
        \/ pc[r] = "answer" /\ b = j.from /\ jar'[b].refresh = j.token
    <3>1. CASE ShowForm(r)
      BY <3>1 DEF ShowForm, Step
    <3>2. CASE SetCookies(r)
      BY <1>1, <1>2, <2>1, <3>2 DEF SInv, TypeOK, SetCookies, Step, Of
    <3>3. CASE ClearCookies(r)
      BY <1>1, <1>2, <2>1, <3>3 DEF SInv, TypeOK, ClearCookies, Step, Of
    <3> QED
      BY <3>1, <3>2, <3>3
  <2> QED
    BY <2>3, <2>4, <2>5, <2>6
<1> QED
  BY <1>3, <1>4, <1>5, <1>6, Ending

\* A request fails; no answer is lost on its way to an orderly browser.
LEMMA FailStep ==
    ASSUME SInv, NEW r \in Requests, Fail(r)
    PROVE  SInv'
<1>1. pc' = [pc EXCEPT ![r] = "idle"] /\ job' = [job EXCEPT ![r] = NoJob]
  BY DEF Fail
<1>2. UNCHANGED <<rows, client>> /\ (pc[r] = "answer" => job[r].from \notin Orderly)
  BY DEF Fail, Of
<1>3. TypeOK'
  BY <1>1, <1>2, Idle DEF SInv, TypeOK, Labels, rows, client
<1>4. CodesKept /\ OnlyRevoked
  BY <1>2 DEF CodesKept, OnlyRevoked, rows
<1>5. NoJob.from \notin Orderly
  BY Idle, SessionsAssumption
<1>6. \A b \in Browsers : device'[b] = "ACTIVE" => device[b] = "ACTIVE" \/ Trusted(b)
  BY <1>2 DEF rows
<1> QED
  BY <1>1, <1>2, <1>3, <1>4, <1>5, <1>6, Idle, Continuing

\* Time passes.
LEMMA ExpireStep ==
    ASSUME SInv, NEW b \in Browsers, ExpireAccess(b)
    PROVE  SInv'
<1>1. UNCHANGED <<device, session, code, form, pc, job>> /\ jar' = [jar EXCEPT ![b].access = FALSE]
  BY DEF ExpireAccess, rows
<1>2. jar' \in [Browsers -> Cookies] /\ \A d \in Browsers : jar'[d].refresh = jar[d].refresh
  BY <1>1 DEF SInv, TypeOK, Cookies
<1>3. TypeOK'
  BY <1>1, <1>2 DEF SInv, TypeOK
<1>4. RowsFit' /\ BrowsersFit'
  BY <1>1, <1>2 DEF SInv, RowsFit, BrowsersFit, Rows, Trusted
<1>5. JobsFit' /\ NewAlone' /\ Alone'
  BY <1>1 DEF SInv, JobsFit, NewAlone, Alone, Fits, Trusted, Unrevoked, Rows
<1>6. Fresh'
  BY <1>1, <1>2, SessionsAssumption DEF SInv, Fresh, FreshAt, Unrevoked
<1> QED
  BY <1>3, <1>4, <1>5, <1>6 DEF SInv

\* A reused token revokes its session; an orderly browser is never here.
LEMMA AlarmStep ==
    ASSUME SInv, NEW r \in Requests, Alarm(r)
    PROVE  SInv'
<1> USE DEF Labels
<1>1. PICK j \in Jobs : j = job[r] /\ Fits("alarm", j)
  BY Busy DEF Alarm, Step
<1>2. j.token.sid \in Rows /\ j.from \in Browsers
  BY <1>1 DEF Fits
<1>3. Step(r, "alarm", "demote") /\ UNCHANGED <<device, code, client>>
      /\ session' = [session EXCEPT ![j.token.sid].status = "REVOKED"]
  BY <1>1 DEF Alarm
<1>4. TypeOK'
  <2>1. session' \in [Sids -> SessionRows]
    BY <1>3 DEF SInv, TypeOK, SessionRows
  <2> QED
    BY <1>3, <2>1, StepTyped DEF SInv, TypeOK, client
<1>5. CodesKept /\ OnlyRevoked
  BY <1>2, <1>3 DEF CodesKept, OnlyRevoked, SInv, TypeOK
<1>6. j.token.sid \in Rows'
  BY <1>2, <1>4, <1>5, RevokedKept DEF SInv
<1>7. Fits("demote", j)'
  BY <1>2, <1>6 DEF Fits
<1>8. job'[r] = j
  BY <1>1, <1>3 DEF Step
<1>9. Fits("demote", job[r])'
  BY <1>7, <1>8 DEF Fits
<1> QED
  BY <1>3, <1>4, <1>5, <1>9, Advancing

\* A login finds the session of its device, or decides to create one.
LEMMA FindStep ==
    ASSUME SInv, NEW r \in Requests, FindSession(r)
    PROVE  SInv'
<1> USE DEF Labels
<1>1. /\ job[r] \in Jobs /\ Fits("find", job[r]) /\ pc[r] = "find"
      /\ job[r].from \in Orderly => \A q \in Requests \ {r} : job[q].from # job[r].from
  BY Busy DEF FindSession
<1>2. Trusted(job[r].from) /\ job[r].from \in Browsers
  BY <1>1 DEF Fits
<1>3. PICK sid \in Sids, n \in 1..MaxTokens :
        /\ sid \in Existing(job[r].from) \/ (Existing(job[r].from) = {} /\ sid \notin Taken)
        /\ job' = [job EXCEPT ![r].token = [sid |-> sid, n |-> n]]
  BY DEF FindSession, Of, Signable
<1>4. pc' = [pc EXCEPT ![r] = "store"] /\ UNCHANGED <<device, session, code, client>>
  BY DEF FindSession
<1>5. PICK j : j = [job[r] EXCEPT !.token = [sid |-> sid, n |-> n]]
  OBVIOUS
<1>6. sid \in 0..MaxSessions /\ n \in 0..MaxTokens
  BY SessionsAssumption DEF Sids
<1>7. j \in Jobs /\ j.from = job[r].from /\ j.token = [sid |-> sid, n |-> n]
      /\ j.token.sid = sid /\ job' = [job EXCEPT ![r] = j]
  BY <1>1, <1>3, <1>5, <1>6 DEF SInv, TypeOK, Jobs
<1>8. j.token \in Tokens
  BY <1>7 DEF Tokens
<1>9. TypeOK'
  <2>1. job' \in [Requests -> Jobs] /\ pc' \in [Requests -> Labels]
    BY <1>4, <1>7 DEF SInv, TypeOK
  <2> QED
    BY <1>4, <2>1 DEF SInv, TypeOK, client
<1>10. CodesKept /\ OnlyRevoked
  BY <1>4 DEF CodesKept, OnlyRevoked
<1>11. Fits("store", j)'
  <2>1. sid \in Existing(job[r].from) => session[sid].device = job[r].from /\ session[sid].status = "LIVE"
    BY DEF Existing, Unrevoked
  <2>2. sid \notin Taken => session[sid].status = "NONE"
    BY DEF Taken, Rows
  <2>3. Trusted(j.from)'
    BY <1>2, <1>4, <1>7 DEF Trusted
  <2>4. Unrevoked(j.from)' = Existing(job[r].from)
    BY <1>4, <1>7 DEF Unrevoked, Existing
  <2>5. session' = session
    BY <1>4
  <2>6. session'[j.token.sid].status # "NONE" => session'[j.token.sid].device = j.from
    BY <1>3, <1>7, <2>1, <2>2, <2>5
  <2>7. session'[j.token.sid].status = "NONE" => Unrevoked(j.from)' = {}
    BY <1>3, <1>7, <2>1, <2>4, <2>5
  <2> QED
    BY <1>2, <1>7, <1>8, <2>3, <2>6, <2>7 DEF Fits
<1>12. j.token.sid \in Rows \/ \A q \in Requests \ {r} : job[q].token.sid # j.token.sid
  BY <1>3, <1>7 DEF Existing, Unrevoked, Rows, Taken
<1>13. session[j.token.sid].status = "NONE" =>
         \A q \in Requests \ {r} : job[q].token.sid # j.token.sid
  BY <1>3, <1>7 DEF Existing, Unrevoked, Taken
<1>14. j.from \in Orderly => \A q \in Requests \ {r} : job[q].from # j.from
  BY <1>1, <1>7
<1> QED
  BY <1>1, <1>4, <1>7, <1>9, <1>10, <1>11, <1>12, <1>13, <1>14, Continuing

\* A request stores the token it is going to answer with.
LEMMA Storing ==
    ASSUME SInv, TypeOK', UNCHANGED <<device, code, client>>,
           NEW r \in Requests, NEW at \in {"store", "rotate"}, Step(r, at, "answer"),
           NEW j \in Jobs, j = job[r], NEW row \in SessionRows,
           session' = [session EXCEPT ![j.token.sid] = row],
           row.device = j.from, row.n = j.token.n, row.status # "NONE",
           session[j.token.sid].status = "REVOKED" => row.status = "REVOKED"
    PROVE  SInv'
<1>1. Fits(at, j) /\ (j.from \in Orderly => \A q \in Requests \ {r} : job[q].from # j.from)
      /\ j.from \in Browsers /\ j.from # Nothing
  <2>1. Fits(at, j) /\ (j.from \in Orderly => \A q \in Requests \ {r} : job[q].from # j.from)
    BY Busy DEF Step
  <2> QED
    BY <2>1, SessionsAssumption DEF Fits
<1>2. /\ j.token \in Tokens
      /\ session[j.token.sid].status # "NONE" => session[j.token.sid].device = j.from
      /\ at = "rotate" => session[j.token.sid].device = j.from
      /\ at = "store" /\ session[j.token.sid].status = "NONE" /\ j.from \in Orderly =>
            Unrevoked(j.from) = {}
      /\ at = "store" => Trusted(j.from)
  BY <1>1 DEF Fits
<1>3. j.token.sid \in Sids /\ j.token.n # 0 /\ j.token.n \in 1..MaxTokens
  BY <1>2 DEF Tokens
<1>4. at = "rotate" => session[j.token.sid].status # "NONE" /\ Trusted(j.from)
  BY <1>1, <1>2, <1>3 DEF SInv, RowsFit, Rows, NoRow
<1>5. Trusted(j.from)
  BY <1>2, <1>4
<1>6. session'[j.token.sid] = row /\ \A s \in Sids \ {j.token.sid} : session'[s] = session[s]
  BY <1>3 DEF SInv, TypeOK
<1>7. \A b : Trusted(b)' <=> Trusted(b)
  BY DEF Trusted
<1>8. CodesKept
  BY DEF CodesKept
<1>9. SessionsKept(j.from)
  BY <1>1, <1>2, <1>6 DEF SessionsKept
<1>10. RowsFit'
  <2> SUFFICES ASSUME NEW s \in Sids
               PROVE  /\ session'[s].status = "NONE" => session'[s] = NoRow
                      /\ session'[s].status # "NONE" =>
                            /\ session'[s].device # Nothing /\ session'[s].n # 0
                            /\ \E d : d = session'[s].device /\ Trusted(d)
    BY <1>7 DEF RowsFit, Rows, Trusted
  <2>1. CASE s = j.token.sid
    BY <1>1, <1>3, <1>5, <1>6, <2>1
  <2>2. CASE s # j.token.sid
    BY <1>6, <2>2 DEF SInv, RowsFit, Rows
  <2> QED
    BY <2>1, <2>2
<1>11. BrowsersFit'
  <2> SUFFICES ASSUME NEW b \in Browsers
               PROVE  /\ device[b] = "ACTIVE" => Trusted(b)
                      /\ form[b] # Nothing => code[form[b]].status # "NONE" /\ code[form[b]].device = b
                      /\ jar[b].refresh # NoToken => session'[jar[b].refresh.sid].device = b
    BY <1>7 DEF BrowsersFit, client
  <2>1. ASSUME jar[b].refresh # NoToken PROVE session'[jar[b].refresh.sid].device = b
    <3>1. jar[b].refresh.sid \in Sids /\ session[jar[b].refresh.sid].device = b /\ b # Nothing
      BY <2>1, SessionsAssumption DEF SInv, BrowsersFit, TypeOK, Cookies, Tokens
    <3>2. session[jar[b].refresh.sid].status # "NONE"
      BY <3>1 DEF SInv, RowsFit, Rows, NoRow
    <3> QED
      BY <1>9, <3>1, <3>2 DEF SessionsKept
  <2> QED
    BY <2>1 DEF SInv, BrowsersFit
<1>12. pc' = [pc EXCEPT ![r] = "answer"] /\ job' = [job EXCEPT ![r] = j] /\ pc'[r] = "answer" /\ job' = job
  BY DEF Step, SInv, TypeOK
<1>13. JobsFit' /\ NewAlone' /\ Alone'
  <2>1. Fits("answer", j)'
    BY <1>1, <1>2, <1>6 DEF Fits
  <2>2. ASSUME NEW q \in Requests \ {r}, pc[q] = "store", session[job[q].token.sid].status = "NONE"
        PROVE  session'[job[q].token.sid].status = "NONE" /\ j.token.sid # job[q].token.sid
    <3>1. job[q].token.sid \in Sids
      BY <2>2 DEF SInv, JobsFit, Fits, Tokens
    <3>2. j.token.sid # job[q].token.sid
      BY <2>2 DEF SInv, NewAlone
    <3> QED
      BY <1>6, <2>2, <3>1, <3>2
  <2>3. \A q \in Requests \ {r} : job[q].from \in Orderly => job[q].from # j.from
    BY <1>1
  <2>4. TypeOK /\ RowsFit /\ JobsFit /\ NewAlone /\ Alone
    BY DEF SInv
  <2>5. \A q \in Requests \ {r} :
          pc[q] = "store" /\ session[job[q].token.sid].status = "NONE" =>
              session'[job[q].token.sid].status = "NONE" /\ j.token.sid # job[q].token.sid
    BY <2>2
  <2>6. pc' = [pc EXCEPT ![r] = "answer"] /\ job' = [job EXCEPT ![r] = j]
    BY <1>12
  <2>7. PICK k \in Jobs : k = j
    OBVIOUS
  <2>8. /\ SessionsKept(k.from) /\ Fits("answer", k)' /\ job' = [job EXCEPT ![r] = k]
        /\ \A q \in Requests \ {r} : job[q].from \in Orderly => job[q].from # k.from
        /\ k.from \in Orderly => \A q \in Requests \ {r} : job[q].from # k.from
        /\ \A q \in Requests \ {r} :
              pc[q] = "store" /\ session[job[q].token.sid].status = "NONE" =>
                  session'[job[q].token.sid].status = "NONE" /\ k.token.sid # job[q].token.sid
    BY <1>1, <1>9, <2>1, <2>3, <2>5, <2>6, <2>7
  <2> QED
    BY <1>8, <2>4, <2>6, <2>8, JobsKept
<1>14. Fresh'
  <2> SUFFICES ASSUME NEW b \in Orderly PROVE FreshAt(b)'
    BY DEF Fresh
  <2>0. FreshAt(b) /\ b \in Browsers /\ jar'[b].refresh = jar[b].refresh
    BY SessionsAssumption DEF SInv, Fresh, client
  <2>1. CASE b # j.from
    <3>1. ASSUME \A q \in Requests : job'[q].from = b => pc'[q] # "answer",
                 NEW q \in Requests, job[q].from = b
          PROVE  pc[q] # "answer"
      BY <1>12, <2>1, <3>1 DEF SInv, TypeOK
    <3> QED
      BY <1>9, <2>0, <2>1, <3>1, FreshKept DEF SInv
  <2>2. CASE b = j.from
    <3>1. job'[r].from = b /\ pc'[r] = "answer"
      BY <1>12, <2>2
    <3>2. \A s, u \in Unrevoked(b)' : s = u
      <4>1. CASE session[j.token.sid].status = "NONE"
        <5>1. Unrevoked(b) = {}
          BY <1>2, <1>4, <2>2, <4>1
        <5>2. Unrevoked(b)' \subseteq {j.token.sid}
          BY <1>6, <5>1 DEF Unrevoked
        <5> QED
          BY <5>2
      <4>2. CASE session[j.token.sid].status # "NONE"
        <5>1. row.status = "LIVE" => session[j.token.sid].status = "LIVE"
          BY <1>3, <4>2 DEF SInv, TypeOK, SessionRows
        <5>2. Unrevoked(b)' \subseteq Unrevoked(b)
          BY <1>2, <1>6, <2>2, <4>2, <5>1 DEF Unrevoked
        <5> QED
          BY <2>0, <5>2 DEF FreshAt
      <4> QED
        BY <4>1, <4>2
    <3> QED
      BY <3>1, <3>2 DEF FreshAt
  <2> QED
    BY <2>1, <2>2
<1> QED
  BY <1>10, <1>11, <1>13, <1>14 DEF SInv

\* A login stores its token in the session it found or creates, a refresh in its session.
LEMMA StoreStep ==
    ASSUME SInv, NEW r \in Requests, StoreSession(r) \/ Rotate(r)
    PROVE  SInv'
<1> USE DEF Labels
<1>1. PICK j \in Jobs : j = job[r] /\ Fits(pc[r], j)
  BY Busy
<1>2. pc[r] \in {"store", "rotate"} /\ Step(r, pc[r], "answer")
  BY DEF StoreSession, Rotate, Step
<1>3. /\ j.token \in Tokens /\ j.from \in Browsers
      /\ pc[r] = "rotate" \/ session[j.token.sid].status # "NONE" => session[j.token.sid].device = j.from
  BY <1>1, <1>2 DEF Fits
<1>4. j.token.sid \in Sids /\ j.token.n \in 1..MaxTokens /\ session[j.token.sid] \in SessionRows
  BY <1>3 DEF Tokens, SInv, TypeOK
<1>5. PICK row \in SessionRows :
        /\ session' = [session EXCEPT ![j.token.sid] = row]
        /\ row.device = j.from /\ row.n = j.token.n /\ row.status # "NONE"
        /\ session[j.token.sid].status = "REVOKED" => row.status = "REVOKED"
  <2>0. j.token.n \in 0..MaxTokens
    BY <1>4, SessionsAssumption
  <2>1. CASE StoreSession(r)
    <3>1. PICK row : row = [device |-> IF session[j.token.sid].status = "NONE" THEN j.from
                                       ELSE session[j.token.sid].device,
                            n |-> j.token.n,
                            status |-> IF session[j.token.sid].status = "REVOKED" THEN "REVOKED"
                                       ELSE "LIVE"]
      OBVIOUS
    <3>2. session' = [session EXCEPT ![j.token.sid] = row]
      BY <1>1, <2>1, <3>1 DEF StoreSession, Of
    <3>3. row.device = j.from /\ row.n = j.token.n /\ row.status \in {"LIVE", "REVOKED"}
          /\ (session[j.token.sid].status = "REVOKED" => row.status = "REVOKED")
      BY <1>3, <3>1
    <3>4. row \in SessionRows
      BY <1>3, <2>0, <3>1, <3>3 DEF SessionRows
    <3> QED
      BY <3>2, <3>3, <3>4
  <2>2. CASE Rotate(r)
    <3>1. PICK row : row = [session[j.token.sid] EXCEPT !.n = j.token.n]
      OBVIOUS
    <3>2. session' = [session EXCEPT ![j.token.sid] = row]
      BY <1>1, <1>4, <2>2, <3>1 DEF Rotate, SInv, TypeOK
    <3>3. row \in SessionRows /\ row.device = session[j.token.sid].device /\ row.n = j.token.n
          /\ row.status = session[j.token.sid].status
      BY <1>4, <2>0, <3>1 DEF SessionRows
    <3>4. session[j.token.sid].device = j.from /\ j.from # Nothing
      BY <1>3, <2>2, SessionsAssumption DEF Rotate, Step
    <3>5. session[j.token.sid].status # "NONE"
      BY <1>4, <3>4 DEF SInv, RowsFit, Rows, NoRow
    <3> QED
      BY <3>2, <3>3, <3>4, <3>5
  <2> QED
    BY <2>1, <2>2
<1>6. UNCHANGED <<device, code, client>>
  BY DEF StoreSession, Rotate
<1>7. TypeOK'
  <2>1. session' \in [Sids -> SessionRows]
    BY <1>4, <1>5 DEF SInv, TypeOK
  <2> QED
    BY <1>2, <1>6, <2>1, StepTyped DEF SInv, TypeOK, client
<1> QED
  BY <1>1, <1>2, <1>5, <1>6, <1>7, Storing

\* A browser sends a request, which gets what its first label needs.
LEMMA Starting ==
    ASSUME SInv, NEW r \in Requests, NEW b \in Browsers, NEW l \in Labels, l # "store",
           NEW j \in Jobs, j.from = b, Start(r, b, l, j), UNCHANGED <<code, client>>,
           OnlyRevoked, session' \in [Sids -> SessionRows],
           device' \in [Browsers -> {"NONE", "PENDING", "ACTIVE", "REVOKED"}],
           \A d \in Browsers : device'[d] = "ACTIVE" => device[d] = "ACTIVE",
           Fits(l, j), j.token.sid = 0 \/ j.token.sid \in Rows
    PROVE  SInv'
<1>1. /\ pc[r] # "answer" /\ pc' = [pc EXCEPT ![r] = l] /\ job' = [job EXCEPT ![r] = j]
      /\ j.from \in Orderly => \A q \in Requests \ {r} : job[q].from # j.from
  BY DEF Start
<1>2. TypeOK'
  BY <1>1 DEF SInv, TypeOK, client
<1>3. CodesKept
  BY DEF CodesKept
<1>4. SessionsKept(Nothing) /\ (j.from \in Orderly => j.from # Nothing)
  BY <1>2, RevokedKept, SessionsAssumption DEF SInv
<1>5. Fits(l, j)'
  BY <1>2, <1>3, <1>4, FitsKept DEF SInv
<1> QED
  BY <1>1, <1>2, <1>3, <1>5, Continuing

\* The memory of a request that starts with nothing but its browser.
LEMMA FromBrowser ==
    ASSUME NEW b \in Browsers
    PROVE  From(b) \in Jobs /\ From(b).from = b /\ From(b).token.sid = 0
BY Idle DEF From, Jobs, NoJob, NoToken

\* The user registers with the home browser, or logs in with any: only a browser whose
\* device is trusted goes on to a session.
LEMMA SignInStep ==
    ASSUME SInv, NEW r \in Requests, Register(r) \/ \E b \in Browsers : Login(r, b)
    PROVE  SInv'
<1> USE DEF Labels
<1>1. CASE Register(r)
  <2>1. Home \in Browsers
    BY SessionsAssumption
  <2>2. Fits("upsert", From(Home))
    BY <2>1, FromBrowser DEF Fits
  <2>3. OnlyRevoked /\ UNCHANGED <<device, session, code, client>> /\ Start(r, Home, "upsert", From(Home))
    BY <1>1 DEF Register, OnlyRevoked, rows
  <2>4. /\ session' \in [Sids -> SessionRows]
        /\ device' \in [Browsers -> {"NONE", "PENDING", "ACTIVE", "REVOKED"}]
        /\ \A d \in Browsers : device'[d] = "ACTIVE" => device[d] = "ACTIVE"
    BY <2>3 DEF SInv, TypeOK
  <2>5. PICK j \in Jobs : j = From(Home)
    BY <2>1, FromBrowser
  <2>6. j.from = Home /\ j.token.sid = 0 /\ Fits("upsert", j) /\ Start(r, Home, "upsert", j)
    BY <2>1, <2>2, <2>3, <2>5, FromBrowser
  <2> QED
    BY <2>1, <2>3, <2>4, <2>6, Starting
<1>2. ASSUME NEW b \in Browsers, Login(r, b) PROVE SInv'
  <2>1. PICK l \in {"find", "pend", "void"} :
          Start(r, b, l, From(b)) /\ (l = "find" => device[b] = "ACTIVE")
    BY <1>2 DEF Login
  <2>2. Trusted(b) \/ l # "find"
    BY <2>1 DEF SInv, BrowsersFit
  <2>3. PICK j \in Jobs : j = From(b) /\ j.from = b /\ j.token.sid = 0
    BY FromBrowser
  <2>4. Fits(l, j) /\ Start(r, b, l, j)
    BY <2>1, <2>2, <2>3 DEF Fits
  <2>5. OnlyRevoked /\ UNCHANGED <<session, code, client>>
    BY <1>2 DEF Login, OnlyRevoked
  <2>6. /\ session' \in [Sids -> SessionRows]
        /\ device' \in [Browsers -> {"NONE", "PENDING", "ACTIVE", "REVOKED"}]
        /\ \A d \in Browsers : device'[d] = "ACTIVE" => device[d] = "ACTIVE"
    BY <1>2, <2>5 DEF Login, SInv, TypeOK
  <2> QED
    BY <2>3, <2>4, <2>5, <2>6, Starting
<1> QED
  BY <1>1, <1>2

\* The other requests of a browser.  An orderly one has the token of its session, so that
\* its refresh is no alarm.
LEMMA SendStep ==
    ASSUME SInv, NEW r \in Requests, NEW b \in Browsers,
           \/ Resend(r, b) \/ Confirm(r, b) \/ Refresh(r, b) \/ Logout(r, b)
           \/ \E s \in Sids : RevokeSession(r, b, s)
    PROVE  SInv'
<1> USE DEF Labels
<1>1. device' = device /\ code' = code /\ UNCHANGED client
  BY DEF Resend, Confirm, Refresh, Logout, RevokeSession, rows
<1>2. /\ device' \in [Browsers -> {"NONE", "PENDING", "ACTIVE", "REVOKED"}]
      /\ \A d \in Browsers : device'[d] = "ACTIVE" => device[d] = "ACTIVE"
  BY <1>1 DEF SInv, TypeOK
<1>3. From(b) \in Jobs /\ From(b).from = b /\ From(b).token.sid = 0
  BY FromBrowser
<1>4. ASSUME UNCHANGED session, NEW l \in Labels \ {"store"}, NEW j \in Jobs, j.from = b,
             Start(r, b, l, j), Fits(l, j), j.token.sid = 0 \/ j.token.sid \in Rows
      PROVE  SInv'
  <2>1. OnlyRevoked /\ session' \in [Sids -> SessionRows]
    BY <1>4 DEF OnlyRevoked, SInv, TypeOK
  <2> QED
    BY <1>1, <1>2, <1>4, <2>1, Starting
<1>5. CASE Resend(r, b)
  <2>1. PICK j : j = [From(b) EXCEPT !.resend = TRUE]
    OBVIOUS
  <2>2. j \in Jobs /\ j.from = b /\ j.token.sid = 0
    BY <1>3, <2>1 DEF Jobs
  <2>3. Start(r, b, "void", j) /\ UNCHANGED session
    BY <1>5, <2>1 DEF Resend, rows
  <2>4. Fits("void", j)
    BY <2>2 DEF Fits
  <2> QED
    BY <1>4, <2>2, <2>3, <2>4
<1>6. CASE Confirm(r, b)
  <2>1. PICK j : j = [From(b) EXCEPT !.code = form[b]]
    OBVIOUS
  <2>2. form[b] \in Codes /\ code[form[b]].status # "NONE" /\ code[form[b]].device = b
    BY <1>6 DEF Confirm, SInv, TypeOK, BrowsersFit
  <2>3. j \in Jobs /\ j.from = b /\ j.token.sid = 0 /\ j.code = form[b]
    BY <1>3, <2>1, <2>2 DEF Jobs
  <2>4. Start(r, b, "consume", j) /\ UNCHANGED session
    BY <1>6, <2>1 DEF Confirm, rows
  <2>5. Fits("consume", j)
    BY <2>2, <2>3 DEF Fits
  <2> QED
    BY <1>4, <2>3, <2>4, <2>5
<1>7. CASE Refresh(r, b)
  <2>1. PICK t \in Tokens : t = jar[b].refresh
    BY <1>7 DEF Refresh, SInv, TypeOK, Cookies
  <2>2. t.sid \in Sids /\ session[t.sid].device = b /\ session[t.sid].status = "LIVE" /\ t # NoToken
    BY <1>7, <2>1 DEF Refresh, SInv, BrowsersFit, Tokens
  <2>3. t.sid \in Rows
    BY <2>2 DEF Rows
  <2>4. Tokens \subseteq [sid : 0..MaxSessions, n : 0..MaxTokens]
    BY SessionsAssumption DEF Tokens, Sids
  <2>5. ASSUME NEW k \in Tokens
        PROVE  /\ [From(b) EXCEPT !.token = k] \in Jobs
               /\ [From(b) EXCEPT !.token = k].from = b /\ [From(b) EXCEPT !.token = k].token = k
    BY <1>3, <2>4 DEF Jobs
  <2>6. UNCHANGED session
    BY <1>7 DEF Refresh
  <2>7. CASE session[t.sid].n # t.n /\ Start(r, b, "alarm", [From(b) EXCEPT !.token = t])
    <3>1. b \notin Orderly
      BY <2>1, <2>2, <2>7 DEF Start, SInv, Fresh, FreshAt
    <3>2. PICK j \in Jobs : j = [From(b) EXCEPT !.token = t] /\ j.from = b /\ j.token = t
      BY <2>5
    <3>3. Fits("alarm", j)
      BY <2>3, <3>1, <3>2 DEF Fits
    <3> QED
      BY <1>4, <2>3, <2>6, <2>7, <3>2, <3>3
  <2>8. CASE \E n \in Signable(t.sid) :
               Start(r, b, "rotate", [From(b) EXCEPT !.token = [t EXCEPT !.n = n]])
    <3>1. PICK n \in 1..MaxTokens : Start(r, b, "rotate", [From(b) EXCEPT !.token = [t EXCEPT !.n = n]])
      BY <2>8 DEF Signable
    <3>2. PICK k \in Tokens : k = [t EXCEPT !.n = n] /\ k.sid = t.sid
      <4>1. [t EXCEPT !.n = n] \in Tokens /\ [t EXCEPT !.n = n].sid = t.sid
        BY DEF Tokens
      <4> QED
        BY <4>1
    <3>3. PICK j \in Jobs : j = [From(b) EXCEPT !.token = k] /\ j.from = b /\ j.token = k
      BY <2>5
    <3>4. Fits("rotate", j)
      BY <2>2, <3>2, <3>3 DEF Fits
    <3>5. Start(r, b, "rotate", j) /\ j.token.sid \in Rows
      BY <2>3, <3>1, <3>2, <3>3
    <3> QED
      BY <1>4, <2>6, <3>3, <3>4, <3>5
  <2> QED
    BY <1>7, <2>1, <2>7, <2>8 DEF Refresh
<1>8. CASE Logout(r, b)
  <2>1. PICK t \in Tokens : t = jar[b].refresh
    BY <1>8 DEF Logout, SInv, TypeOK, Cookies
  <2>2. t.sid \in Sids /\ session[t.sid].device = b /\ b # Nothing
    BY <1>8, <2>1, SessionsAssumption DEF Logout, SInv, BrowsersFit, Tokens
  <2>3. session[t.sid].status # "NONE"
    BY <2>2 DEF SInv, RowsFit, Rows, NoRow
  <2>4. session' = [session EXCEPT ![t.sid].status = "REVOKED"] /\ Start(r, b, "clear", From(b))
    BY <1>8, <2>1 DEF Logout
  <2>5. OnlyRevoked /\ session' \in [Sids -> SessionRows]
    BY <2>2, <2>3, <2>4 DEF OnlyRevoked, Rows, SInv, TypeOK, SessionRows
  <2>6. PICK j \in Jobs : j = From(b) /\ j.from = b /\ j.token.sid = 0
    BY <1>3
  <2>7. Fits("clear", j)
    BY <2>6 DEF Fits
  <2> QED
    BY <1>1, <1>2, <2>4, <2>5, <2>6, <2>7, Starting
<1>9. ASSUME NEW s \in Sids, RevokeSession(r, b, s) PROVE SInv'
  <2>1. s \in Rows /\ session' = [session EXCEPT ![s].status = "REVOKED"]
    BY <1>9 DEF RevokeSession
  <2>2. OnlyRevoked /\ session' \in [Sids -> SessionRows]
    BY <2>1 DEF OnlyRevoked, SInv, TypeOK, SessionRows
  <2>3. PICK j : j = [From(b) EXCEPT !.token = [sid |-> s, n |-> 0]]
    OBVIOUS
  <2>4. s \in 0..MaxSessions /\ 0 \in 0..MaxTokens
    BY SessionsAssumption DEF Sids
  <2>5. j \in Jobs /\ j.from = b /\ j.token.sid = s
    BY <1>3, <2>3, <2>4 DEF Jobs
  <2>6. Start(r, b, "demote", j)
    BY <1>9, <2>3 DEF RevokeSession
  <2>7. Fits("demote", j)
    BY <2>1, <2>5 DEF Fits
  <2> QED
    BY <1>1, <1>2, <2>1, <2>2, <2>5, <2>6, <2>7, Starting
<1> QED
  BY <1>5, <1>6, <1>7, <1>8, <1>9

-----------------------------------------------------------------------------
(* The tokens of orderly browsers *)

\* A token being signed is not older than the one in its session.
LEMMA NeverOlder ==
    ASSUME SInv, NEW s \in Sids, NEW n \in Signable(s)
    PROVE  n \in 1..MaxTokens /\ session[s].n <= n
<1>1. session[s].n \in Signed(s) /\ session[s].n \in Int
  BY SessionsAssumption DEF Signed, SInv, TypeOK, SessionRows
<1>2. PICK last \in Signed(s) : n \in 1..MaxTokens /\ session[s].n <= last /\ n - last \in {0, 1}
  BY <1>1 DEF Signable
<1>3. last \in Int
  <2>1. \A r \in Requests : job[r].token.n \in 0..MaxTokens
    BY DEF SInv, TypeOK, Jobs
  <2>2. \A b \in Browsers : jar[b].refresh.n \in 0..MaxTokens
    BY SessionsAssumption DEF SInv, TypeOK, Cookies, Tokens, NoToken
  <2> QED
    BY <1>1, <2>1, <2>2 DEF Signed
<1> QED
  BY <1>1, <1>2, <1>3

\* What a step does to the sessions: at most one row changes.  It is revoked, gets a token
\* that is not older, or is created for a browser that had none.
RowRevoked == \E s \in Rows : session' = [session EXCEPT ![s].status = "REVOKED"]

RowRenewed ==
    \E s \in Rows, n \in 1..MaxTokens :
        /\ session[s].device \in Orderly => session[s].n <= n
        /\ session' = [session EXCEPT ![s].n = n]

RowCreated ==
    \E s \in Sids \ Rows, b \in Browsers, n \in 1..MaxTokens :
        /\ b \in Orderly => Unrevoked(b) = {}
        /\ session' = [session EXCEPT ![s] = [device |-> b, n |-> n, status |-> "LIVE"]]

\* The statements that store a token: it goes to a session of the request's own browser.
LEMMA Stored ==
    ASSUME SInv, Newer, NEW r \in Requests, StoreSession(r) \/ Rotate(r)
    PROVE  /\ pc[r] \in {"store", "rotate"} /\ job[r].token.sid \in Sids
           /\ session'[job[r].token.sid].device = job[r].from
           /\ session[job[r].token.sid].status # "NONE" =>
                 session[job[r].token.sid].device = job[r].from
           /\ \A s \in Sids \ {job[r].token.sid} : session'[s] = session[s]
           /\ RowRenewed \/ RowCreated
<1>1. PICK j \in Jobs : j = job[r] /\ Fits(pc[r], j)
  BY Busy
<1>2. pc[r] \in {"store", "rotate"}
  BY DEF StoreSession, Rotate, Step
<1>3. /\ j.token \in Tokens /\ j.from \in Browsers /\ j.from # Nothing
      /\ pc[r] = "rotate" => session[j.token.sid].device = j.from
      /\ session[j.token.sid].status # "NONE" => session[j.token.sid].device = j.from
      /\ pc[r] = "store" /\ session[j.token.sid].status = "NONE" /\ j.from \in Orderly =>
            Unrevoked(j.from) = {}
  BY <1>1, <1>2, SessionsAssumption DEF Fits
<1>4. PICK s \in Sids : s = j.token.sid
  BY <1>3 DEF Tokens
<1>5. PICK n \in 1..MaxTokens : n = j.token.n
  BY <1>3 DEF Tokens
<1>6. session[s] \in SessionRows /\ session \in [Sids -> SessionRows]
  BY DEF SInv, TypeOK
<1>7. pc[r] = "rotate" => s \in Rows
  BY <1>3, <1>4 DEF SInv, RowsFit, NoRow
<1>8. CASE s \in Rows
  <2>1. session' = [session EXCEPT ![s].n = n]
    <3>1. CASE Rotate(r)
      BY <1>1, <1>4, <1>5, <3>1 DEF Rotate
    <3>2. CASE StoreSession(r)
      <4>1. session' = [session EXCEPT ![s] = [device |-> session[s].device, n |-> n,
                                               status |-> session[s].status]]
        BY <1>1, <1>4, <1>5, <1>6, <1>8, <3>2 DEF StoreSession, Rows, SessionRows
      <4>2. [device |-> session[s].device, n |-> n, status |-> session[s].status]
              = [session[s] EXCEPT !.n = n]
        BY <1>6 DEF SessionRows
      <4> QED
        BY <1>6, <4>1, <4>2
    <3> QED
      BY <3>1, <3>2
  <2>2. session[s].device = j.from /\ (j.from \in Orderly => session[s].n <= n)
    BY <1>1, <1>2, <1>3, <1>4, <1>5, <1>8 DEF Newer, Rows, Of
  <2>3. RowRenewed
    BY <1>8, <2>1, <2>2 DEF RowRenewed
  <2>4. session'[s].device = session[s].device
        /\ \A u \in Sids \ {s} : session'[u] = session[u]
    BY <1>6, <2>1 DEF SessionRows
  <2> QED
    BY <1>1, <1>2, <1>4, <2>2, <2>3, <2>4
<1>9. CASE s \notin Rows
  <2>1. session[s].status = "NONE" /\ pc[r] = "store" /\ StoreSession(r)
    BY <1>2, <1>7, <1>9 DEF Rows, Rotate, Step
  <2>2. session' = [session EXCEPT ![s] = [device |-> j.from, n |-> n, status |-> "LIVE"]]
    BY <1>1, <1>4, <1>5, <2>1 DEF StoreSession, Of
  <2>3. RowCreated
    BY <1>3, <1>4, <1>9, <2>1, <2>2 DEF RowCreated
  <2>4. session'[s].device = j.from /\ \A u \in Sids \ {s} : session'[u] = session[u]
    BY <1>6, <2>2
  <2> QED
    BY <1>1, <1>2, <1>4, <2>1, <2>3, <2>4
<1> QED
  BY <1>8, <1>9

\* A step that stores no token revokes a session at most.
LEMMA NotStored ==
    ASSUME SInv, [Next]_vars, \A r \in Requests : ~StoreSession(r) /\ ~Rotate(r)
    PROVE  UNCHANGED session \/ RowRevoked
<1>1. ASSUME NEW r \in Requests, Serve(r) PROVE UNCHANGED session \/ RowRevoked
  <2>1. CASE Alarm(r)
    <3>1. job[r].token.sid \in Rows
      BY <2>1, Busy DEF Alarm, Step, Fits
    <3> QED
      BY <2>1, <3>1 DEF Alarm, RowRevoked
  <2>2. CASE ~Alarm(r)
    BY <1>1, <2>2 DEF Serve, UpsertDevice, PutBack, VoidCodes, MailCode, ShowForm, Consume,
       Activate, Demote, FindSession, SetCookies, ClearCookies, Fail, rows
  <2> QED
    BY <2>1, <2>2
<1>2. ASSUME NEW r \in Requests, NEW b \in Browsers, Send(r, b)
      PROVE  UNCHANGED session \/ RowRevoked
  <2>1. CASE Logout(r, b)
    <3>1. PICK t \in Tokens : t = jar[b].refresh /\ t # NoToken
      BY <2>1 DEF Logout, SInv, TypeOK, Cookies
    <3>2. t.sid \in Sids /\ session[t.sid].device = b /\ b # Nothing
      BY <3>1, SessionsAssumption DEF SInv, BrowsersFit, Tokens
    <3>3. t.sid \in Rows
      BY <3>2 DEF SInv, RowsFit, NoRow
    <3> QED
      BY <2>1, <3>1, <3>3 DEF Logout, RowRevoked
  <2>2. CASE \E s \in Sids : RevokeSession(r, b, s)
    BY <2>2 DEF RevokeSession, RowRevoked
  <2>3. CASE Login(r, b) \/ Resend(r, b) \/ Confirm(r, b) \/ Refresh(r, b)
    BY <2>3 DEF Login, Resend, Confirm, Refresh, rows
  <2> QED
    BY <1>2, <2>1, <2>2, <2>3 DEF Send
<1>3. ASSUME NEW r \in Requests, Register(r) PROVE UNCHANGED session
  BY <1>3 DEF Register, rows
<1>4. ASSUME NEW b \in Browsers, ExpireAccess(b) PROVE UNCHANGED session
  BY <1>4 DEF ExpireAccess, rows
<1>5. CASE UNCHANGED vars
  BY <1>5 DEF vars, rows
<1> QED
  BY <1>1, <1>2, <1>3, <1>4, <1>5 DEF Next

\* A request that is to store a token either already was, or has just signed it.
LEMMA Signing ==
    ASSUME SInv, [Next]_vars, NEW q \in Requests, pc'[q] \in {"store", "rotate"}
    PROVE  \/ pc'[q] = pc[q] /\ job'[q] = job[q]
           \/ /\ UNCHANGED session /\ job'[q].token.sid \in Sids
              /\ job'[q].token.n \in Signable(job'[q].token.sid)
<1> DEFINE Waits == pc'[q] = pc[q] /\ job'[q] = job[q]
           Signs == /\ UNCHANGED session /\ job'[q].token.sid \in Sids
                    /\ job'[q].token.n \in Signable(job'[q].token.sid)
<1>0. pc \in [Requests -> Labels] /\ job \in [Requests -> Jobs]
  BY DEF SInv, TypeOK
<1>1. ASSUME NEW r \in Requests, Serve(r) PROVE Waits \/ Signs
  <2>1. CASE FindSession(r)
    <3>0. PICK s \in Sids : \E n \in Signable(s) :
            job' = [job EXCEPT ![r].token = [sid |-> s, n |-> n]]
      BY <2>1 DEF FindSession
    <3>1. PICK n \in Signable(s) : job' = [job EXCEPT ![r].token = [sid |-> s, n |-> n]]
      BY <3>0
    <3>2. pc' = [pc EXCEPT ![r] = "store"] /\ UNCHANGED session
      BY <2>1 DEF FindSession
    <3>3. CASE q = r
      <4>1. job'[q].token = [sid |-> s, n |-> n]
        BY <1>0, <3>1, <3>3 DEF Jobs
      <4> QED
        BY <3>2, <4>1
    <3>4. CASE q # r
      BY <1>0, <3>1, <3>2, <3>4
    <3> QED
      BY <3>3, <3>4
  <2>2. CASE ~FindSession(r)
    <3>1. CASE q = r
      BY <1>0, <1>1, <2>2, <3>1 DEF Serve, UpsertDevice, PutBack, VoidCodes, MailCode, ShowForm,
         Consume, Activate, Demote, StoreSession, Rotate, Alarm, SetCookies, ClearCookies, Fail,
         Step
    <3>2. CASE q # r
      BY <1>0, <1>1, <2>2, <3>2 DEF Serve, UpsertDevice, PutBack, VoidCodes, MailCode, ShowForm,
         Consume, Activate, Demote, StoreSession, Rotate, Alarm, SetCookies, ClearCookies, Fail,
         Step
    <3> QED
      BY <3>1, <3>2
  <2> QED
    BY <2>1, <2>2
<1>2. ASSUME NEW r \in Requests, NEW b \in Browsers, NEW l, NEW j, Start(r, b, l, j),
             l \notin {"store", "rotate"}
      PROVE  Waits
  BY <1>0, <1>2 DEF Start
<1>3. ASSUME NEW r \in Requests, NEW b \in Browsers, Send(r, b) PROVE Waits \/ Signs
  <2>1. CASE Refresh(r, b)
    <3>1. PICK t \in Tokens : t = jar[b].refresh
      BY <2>1 DEF Refresh, SInv, TypeOK, Cookies
    <3>2. t.sid \in Sids /\ UNCHANGED session
      BY <2>1, <3>1 DEF Tokens, Refresh
    <3>3. CASE Start(r, b, "alarm", [From(b) EXCEPT !.token = t])
      BY <1>2, <3>3
    <3>4. ASSUME NEW n \in Signable(t.sid),
                 Start(r, b, "rotate", [From(b) EXCEPT !.token = [t EXCEPT !.n = n]])
          PROVE  Waits \/ Signs
      <4>1. PICK k : k = [t EXCEPT !.n = n]
        OBVIOUS
      <4>2. k.sid = t.sid /\ k.n = n
        BY <4>1 DEF Tokens
      <4>3. PICK j : j = [From(b) EXCEPT !.token = k]
        OBVIOUS
      <4>4. j.token = k
        BY <4>3 DEF From, NoJob
      <4>5. pc' = [pc EXCEPT ![r] = "rotate"] /\ job' = [job EXCEPT ![r] = j]
        BY <3>4, <4>1, <4>3 DEF Start
      <4>6. CASE q = r
        <5>1. job'[q].token = k
          BY <1>0, <4>4, <4>5, <4>6
        <5> QED
          BY <3>2, <4>2, <5>1
      <4>7. CASE q # r
        BY <1>0, <4>5, <4>7
      <4> QED
        BY <4>6, <4>7
    <3> QED
      BY <2>1, <3>1, <3>3, <3>4 DEF Refresh
  <2>2. CASE Login(r, b)
    <3>1. PICK l \in {"find", "pend", "void"} : Start(r, b, l, From(b))
      BY <2>2 DEF Login
    <3> QED
      BY <1>2, <3>1
  <2>3. CASE Resend(r, b)
    BY <1>2, <2>3 DEF Resend
  <2>4. CASE Confirm(r, b)
    BY <1>2, <2>4 DEF Confirm
  <2>5. CASE Logout(r, b)
    BY <1>2, <2>5 DEF Logout
  <2>6. CASE \E s \in Sids : RevokeSession(r, b, s)
    BY <1>2, <2>6 DEF RevokeSession
  <2> QED
    BY <1>3, <2>1, <2>2, <2>3, <2>4, <2>5, <2>6 DEF Send
<1>4. ASSUME NEW r \in Requests, Register(r) PROVE Waits
  <2>1. Home \in Browsers /\ Start(r, Home, "upsert", From(Home))
    BY <1>4, SessionsAssumption DEF Register
  <2> QED
    BY <1>2, <2>1
<1>5. ASSUME NEW b \in Browsers, ExpireAccess(b) PROVE Waits
  BY <1>5 DEF ExpireAccess
<1>6. CASE UNCHANGED vars
  BY <1>6 DEF vars
<1> QED
  BY <1>1, <1>3, <1>4, <1>5, <1>6 DEF Next

\* No step makes a token older than the one in its session: the browser's other requests do
\* not overlap, and those of other browsers have nothing to store there.
LEMMA NewerStep ==
    ASSUME SInv, SInv', Newer, [Next]_vars
    PROVE  Newer'
<1> SUFFICES ASSUME NEW q \in Requests, pc'[q] \in {"store", "rotate"}, job'[q].from \in Orderly,
                    session'[job'[q].token.sid].status # "NONE"
             PROVE  session'[job'[q].token.sid].n <= job'[q].token.n
  BY DEF Newer, Of
<1>1. CASE /\ UNCHANGED session /\ job'[q].token.sid \in Sids
           /\ job'[q].token.n \in Signable(job'[q].token.sid)
  BY <1>1, NeverOlder
<1>2. CASE pc'[q] = pc[q] /\ job'[q] = job[q]
  <2>1. PICK s \in Sids : s = job[q].token.sid
    BY <1>2 DEF SInv, JobsFit, Fits, Tokens
  <2>2. session[s].status # "NONE" => session[s].n <= job[q].token.n
    BY <1>2, <2>1 DEF Newer, Of
  <2>3. CASE UNCHANGED session
    BY <1>2, <2>1, <2>2, <2>3
  <2>4. CASE RowRevoked
    <3>1. session'[s].n = session[s].n /\ session[s].status # "NONE"
      BY <1>2, <2>1, <2>4 DEF RowRevoked, Rows, SInv, TypeOK, SessionRows
    <3> QED
      BY <1>2, <2>1, <2>2, <3>1
  <2>5. ASSUME NEW r \in Requests, StoreSession(r) \/ Rotate(r)
        PROVE  session'[s].n <= job[q].token.n
    <3>1. q # r
      BY <1>2, <2>5 DEF SInv, TypeOK, StoreSession, Rotate, Step
    <3>2. CASE job[r].token.sid # s
      BY <1>2, <2>1, <2>2, <2>5, <3>2, Stored
    <3>3. CASE job[r].token.sid = s
      <4>1. session[s].status # "NONE"
        BY <1>2, <2>1, <3>1, <3>3 DEF SInv, NewAlone, JobsFit, Fits, SInv, RowsFit, NoRow, Rows
      <4>2. session[s].device = job[q].from /\ session[s].device = job[r].from
        BY <1>2, <2>1, <2>5, <3>3, <4>1, Stored DEF SInv, JobsFit, Fits
      <4> QED
        BY <1>2, <3>1, <4>2 DEF SInv, Alone
    <3> QED
      BY <3>2, <3>3
  <2> QED
    BY <1>2, <2>1, <2>3, <2>4, <2>5, NotStored
<1> QED
  BY <1>1, <1>2, Signing

\* At most one row changes in a step.
LEMMA RowChanges ==
    ASSUME SInv, Newer, [Next]_vars
    PROVE  UNCHANGED session \/ RowRevoked \/ RowRenewed \/ RowCreated
BY NotStored, Stored

\* The good token of an orderly browser is that of any session of its own that is not revoked.
LEMMA GoodToken ==
    ASSUME NEW b \in Orderly, FreshAt(b)
    PROVE  /\ Unrevoked(b) = {} => Good[b] = NoToken
           /\ \A s \in Unrevoked(b) : Good[b] = [sid |-> s, n |-> session[s].n]
<1>1. Unrevoked(b) = {} => Good[b] = NoToken
  BY DEF Good
<1>2. ASSUME NEW s \in Unrevoked(b) PROVE Good[b] = [sid |-> s, n |-> session[s].n]
  <2>1. (CHOOSE u \in Unrevoked(b) : TRUE) \in Unrevoked(b)
    BY <1>2
  <2>2. (CHOOSE u \in Unrevoked(b) : TRUE) = s
    BY <1>2, <2>1 DEF FreshAt
  <2> QED
    BY <1>2, <2>2 DEF Good
<1> QED
  BY <1>1, <1>2

\* The same after a step.
LEMMA GoodTokenNext ==
    ASSUME NEW b \in Orderly, FreshAt(b)'
    PROVE  /\ Unrevoked(b)' = {} => Good'[b] = NoToken
           /\ \A s \in Unrevoked(b)' : Good'[b] = [sid |-> s, n |-> session'[s].n]
<1>1. Unrevoked(b)' = {} => Good'[b] = NoToken
  BY DEF Good
<1>2. ASSUME NEW s \in Unrevoked(b)' PROVE Good'[b] = [sid |-> s, n |-> session'[s].n]
  <2>1. (CHOOSE u \in Unrevoked(b)' : TRUE) \in Unrevoked(b)'
    BY <1>2
  <2>2. (CHOOSE u \in Unrevoked(b)' : TRUE) = s
    BY <1>2, <2>1 DEF FreshAt
  <2> QED
    BY <1>2, <2>2 DEF Good
<1> QED
  BY <1>1, <1>2

\* A browser keeps its good token when none of its sessions that are not revoked changes, and
\* none comes about.
LEMMA GoodKept ==
    ASSUME SInv, SInv', NEW b \in Orderly,
           \A s \in Sids : \/ session'[s] = session[s]
                           \/ s \notin Unrevoked(b) /\ s \notin Unrevoked(b)'
    PROVE  Good'[b] = Good[b]
<1>1. FreshAt(b) /\ FreshAt(b)'
  BY DEF SInv, Fresh
<1>2. Unrevoked(b)' = Unrevoked(b)
  BY DEF Unrevoked
<1>3. CASE Unrevoked(b) = {}
  BY <1>1, <1>2, <1>3, GoodToken, GoodTokenNext
<1>4. ASSUME NEW s \in Unrevoked(b) PROVE Good'[b] = Good[b]
  <2>1. s \in Unrevoked(b)' /\ session'[s] = session[s]
    BY <1>2, <1>4 DEF Unrevoked
  <2>2. Good[b] = [sid |-> s, n |-> session[s].n]
    BY <1>1, <1>4, GoodToken
  <2>3. Good'[b] = [sid |-> s, n |-> session'[s].n]
    BY <1>1, <2>1, GoodTokenNext
  <2> QED
    BY <2>1, <2>2, <2>3, Zenon
<1> QED
  BY <1>3, <1>4

\* A token of a session is a token.
LEMMA SomeToken == ASSUME NEW s \in Sids, NEW n PROVE [sid |-> s, n |-> n] # NoToken
<1>1. s # 0
  BY DEF Sids
<1>2. [sid |-> s, n |-> n].sid = s /\ NoToken.sid = 0
  BY DEF NoToken
<1> QED
  BY <1>1, <1>2, Zenon

\* The session of an orderly browser is revoked: its token is no longer good.
LEMMA Ends ==
    ASSUME SInv, SInv', RowRevoked
    PROVE  [Abstract!Next]_(Abstract!vars)
<1>1. PICK s \in Rows : session' = [session EXCEPT ![s].status = "REVOKED"]
  BY DEF RowRevoked
<1>2. PICK d : d = session[s].device
  OBVIOUS
<1>3. /\ s \in Sids /\ session'[s].device = d /\ session'[s].status = "REVOKED"
      /\ \A u \in Sids \ {s} : session'[u] = session[u]
  BY <1>1, <1>2 DEF Rows, SInv, TypeOK, SessionRows
<1>4. Opened' = Opened
  BY <1>1, <1>2, <1>3 DEF Opened, Rows
<1>5. \A b \in Orderly \ {d} : Good'[b] = Good[b]
  BY <1>2, <1>3, GoodKept DEF Unrevoked
<1>6. CASE d \notin Orderly \/ session[s].status # "LIVE"
  <2>1. \A b \in Orderly : Good'[b] = Good[b]
    BY <1>2, <1>3, <1>5, <1>6, GoodKept DEF Unrevoked
  <2>2. Good' = Good
    BY <2>1 DEF Good
  <2> QED
    BY <1>4, <2>2 DEF Abstract!vars
<1>7. CASE d \in Orderly /\ session[s].status = "LIVE"
  <2>1. FreshAt(d) /\ FreshAt(d)' /\ s \in Unrevoked(d)
    BY <1>2, <1>3, <1>7 DEF SInv, Fresh, Unrevoked
  <2>2. Good[d] # NoToken
    <3>1. Good[d] = [sid |-> s, n |-> session[s].n]
      BY <1>7, <2>1, GoodToken
    <3> QED
      BY <1>3, <3>1, SomeToken, Zenon
  <2>3. Unrevoked(d)' = {}
    <3>1. \A u \in Unrevoked(d) : u = s
      BY <2>1 DEF FreshAt
    <3> QED
      BY <1>3, <3>1 DEF Unrevoked
  <2>4. Good'[d] = NoToken
    BY <1>7, <2>1, <2>3, GoodTokenNext
  <2>5. Good' = [Good EXCEPT ![d] = NoToken]
    BY <1>5, <2>4 DEF Good
  <2>6. Abstract!End(d)
    BY <1>4, <2>2, <2>5 DEF Abstract!End
  <2> QED
    BY <1>7, <2>6 DEF Abstract!Next
<1> QED
  BY <1>6, <1>7

\* The session of an orderly browser gets a token: it is newer than the good one, or the same,
\* and a revoked session stays revoked.
LEMMA Renews ==
    ASSUME SInv, SInv', RowRenewed
    PROVE  [Abstract!Next]_(Abstract!vars)
<1>1. PICK s \in Rows, n \in 1..MaxTokens :
        /\ session[s].device \in Orderly => session[s].n <= n
        /\ session' = [session EXCEPT ![s].n = n]
  BY DEF RowRenewed
<1>2. PICK d : d = session[s].device
  OBVIOUS
<1>3. /\ s \in Sids /\ session'[s].device = d /\ session'[s].status = session[s].status
      /\ session'[s].n = n /\ session[s].n \in 0..MaxTokens
      /\ \A u \in Sids \ {s} : session'[u] = session[u]
  BY <1>1, <1>2 DEF Rows, SInv, TypeOK, SessionRows
<1>4. Opened' = Opened
  BY <1>1, <1>2, <1>3 DEF Opened, Rows
<1>5. \A b \in Orderly \ {d} : Good'[b] = Good[b]
  BY <1>2, <1>3, GoodKept DEF Unrevoked
<1>6. CASE d \notin Orderly \/ session[s].status # "LIVE"
  <2>1. \A b \in Orderly : Good'[b] = Good[b]
    BY <1>2, <1>3, <1>5, <1>6, GoodKept DEF Unrevoked
  <2>2. Good' = Good
    BY <2>1 DEF Good
  <2> QED
    BY <1>4, <2>2 DEF Abstract!vars
<1>7. CASE d \in Orderly /\ session[s].status = "LIVE"
  <2>1. FreshAt(d) /\ FreshAt(d)' /\ s \in Unrevoked(d) /\ s \in Unrevoked(d)'
    BY <1>2, <1>3, <1>7 DEF SInv, Fresh, Unrevoked
  <2>2. Good[d] = [sid |-> s, n |-> session[s].n] /\ Good'[d] = [sid |-> s, n |-> n]
    BY <1>3, <1>7, <2>1, GoodToken, GoodTokenNext
  <2>3. Good' = [Good EXCEPT ![d] = [sid |-> s, n |-> n]]
    BY <1>5, <2>2 DEF Good
  <2>4. Good' = [Good EXCEPT ![d].n = n]
    <3>1. [Good[d] EXCEPT !.n = n] = [sid |-> s, n |-> n]
      BY <2>2
    <3>2. Good' = [Good EXCEPT ![d] = [Good[d] EXCEPT !.n = n]]
      BY <2>3, <3>1, Zenon
    <3> QED
      BY <3>2
  <2>5. CASE n = session[s].n
    <3>1. Good' = Good
      BY <1>5, <2>2, <2>5 DEF Good
    <3> QED
      BY <1>4, <3>1 DEF Abstract!vars
  <2>6. CASE n # session[s].n
    <3>1. n > Good[d].n
      BY <1>1, <1>2, <1>3, <1>7, <2>2, <2>6
    <3>2. Good[d] # NoToken
      BY <1>3, <2>2, SomeToken
    <3>3. Abstract!Renew(d)
      BY <1>4, <2>4, <3>1, <3>2 DEF Abstract!Renew
    <3> QED
      BY <1>7, <3>3 DEF Abstract!Next
  <2> QED
    BY <2>5, <2>6
<1> QED
  BY <1>6, <1>7

\* A session is created for an orderly browser that has none: it signs in to a session that
\* nobody has ever had.
LEMMA SignsIn ==
    ASSUME SInv, SInv', RowCreated
    PROVE  [Abstract!Next]_(Abstract!vars)
<1>1. PICK s \in Sids \ Rows, d \in Browsers, n \in 1..MaxTokens :
        /\ d \in Orderly => Unrevoked(d) = {}
        /\ session' = [session EXCEPT ![s] = [device |-> d, n |-> n, status |-> "LIVE"]]
  BY DEF RowCreated
<1>2. /\ session'[s].device = d /\ session'[s].status = "LIVE" /\ session'[s].n = n
      /\ \A u \in Sids \ {s} : session'[u] = session[u]
      /\ session[s].status = "NONE"
  BY <1>1 DEF SInv, TypeOK, Rows
<1>3. \A b \in Orderly \ {d} : Good'[b] = Good[b]
  BY <1>2, GoodKept DEF Unrevoked
<1>4. CASE d \notin Orderly
  <2>1. Opened' = Opened
    BY <1>2, <1>4 DEF Opened, Rows
  <2>2. Good' = Good
    BY <1>3, <1>4 DEF Good
  <2> QED
    BY <2>1, <2>2 DEF Abstract!vars
<1>5. CASE d \in Orderly
  <2>1. FreshAt(d)' /\ s \in Unrevoked(d)'
    BY <1>2, <1>5 DEF SInv, Fresh, Unrevoked
  <2>2. Good'[d] = [sid |-> s, n |-> n]
    BY <1>2, <1>5, <2>1, GoodTokenNext
  <2>3. Good' = [Good EXCEPT ![d] = [sid |-> s, n |-> n]]
    BY <1>3, <2>2 DEF Good
  <2>4. s \notin Opened /\ Opened \cup {s} \subseteq Opened'
    BY <1>2, <1>5 DEF Opened, Rows
  <2>5. Abstract!SignIn(d)
    BY <2>3, <2>4 DEF Abstract!SignIn
  <2> QED
    BY <1>5, <2>5 DEF Abstract!Next
<1> QED
  BY <1>4, <1>5

\* Every step of the sessions is a step of Credential or none.
LEMMA CredentialStep ==
    ASSUME SInv, SInv', Newer, [Next]_vars
    PROVE  [Abstract!Next]_(Abstract!vars)
<1>1. CASE UNCHANGED session
  BY <1>1 DEF Abstract!vars, Good, Opened, Unrevoked, Rows
<1> QED
  BY <1>1, RowChanges, Ends, Renews, SignsIn

-----------------------------------------------------------------------------
(* The theorems *)

\* The invariant holds before the user registers.
LEMMA InitSInv == Init => SInv
<1> SUFFICES ASSUME Init PROVE SInv
  OBVIOUS
<1>1. TypeOK
  <2>1. NoRow \in SessionRows /\ NoJob \in Jobs /\ [access |-> FALSE, refresh |-> NoToken] \in Cookies
    BY SessionsAssumption, Idle DEF NoRow, SessionRows, Cookies
  <2>2. [device |-> Nothing, status |-> "NONE"] \in CodeRows
    BY DEF CodeRows
  <2> QED
    BY <2>1, <2>2 DEF Init, TypeOK, Labels
<1>2. RowsFit
  BY DEF Init, RowsFit, Rows, NoRow
<1>3. BrowsersFit
  BY DEF Init, BrowsersFit
<1>4. JobsFit
  BY Idle DEF Init, JobsFit
<1>5. NewAlone /\ Alone
  BY Idle, SessionsAssumption DEF Init, NewAlone, Alone
<1>6. Fresh
  BY SessionsAssumption DEF Init, Fresh, FreshAt, Unrevoked, NoRow
<1> QED
  BY <1>1, <1>2, <1>3, <1>4, <1>5, <1>6 DEF SInv

\* No step of a request, of a browser or of time breaks it.
LEMMA SInvStep ==
    ASSUME SInv, [Next]_vars
    PROVE  SInv'
<1>1. ASSUME NEW r \in Requests, Register(r) \/ \E b \in Browsers : Send(r, b) PROVE SInv'
  BY <1>1, SignInStep, SendStep DEF Send
<1>2. ASSUME NEW r \in Requests, Serve(r) PROVE SInv'
  BY <1>2, DeviceStep, MailStep, BrowserStep, FindStep, StoreStep, AlarmStep, FailStep DEF Serve
<1>3. ASSUME NEW b \in Browsers, ExpireAccess(b) PROVE SInv'
  BY <1>3, ExpireStep
<1>4. CASE UNCHANGED vars
  <2> USE DEF vars, rows, client
  <2>1. TypeOK' /\ RowsFit' /\ BrowsersFit'
    BY <1>4 DEF SInv, TypeOK, RowsFit, BrowsersFit, Rows, Trusted
  <2>2. JobsFit' /\ NewAlone' /\ Alone'
    BY <1>4 DEF SInv, JobsFit, NewAlone, Alone, Fits, Trusted, Unrevoked, Rows
  <2>3. Fresh'
    BY <1>4 DEF SInv, Fresh, FreshAt, Unrevoked
  <2> QED
    BY <2>1, <2>2, <2>3 DEF SInv
<1> QED
  BY <1>1, <1>2, <1>3, <1>4 DEF Next

\* Rows, cookies, forms and requests in progress fit together at every statement: the
\* typing of device.service.ts and auth.service.ts, and what their requests have read.
THEOREM SInvAlways == Spec => []SInv
<1>1. SInv /\ [Next]_vars => SInv'
  BY SInvStep
<1> QED
  BY <1>1, InitSInv, PTL DEF Spec

\* Every session belongs to the device the user registered with or to one for which the
\* user typed a code mailed for that very device (identifyForLogin, confirm), for any
\* number of browsers, requests, codes and sessions.
THEOREM ProofNeeded == Spec => []SessionsNeedProof
<1>1. SInv => SessionsNeedProof
  BY DEF SInv, RowsFit, Trusted, SessionsNeedProof, Rows
<1> QED
  BY <1>1, SInvAlways, PTL

\* A device whose requests never overlap, and that loses no answer, has at most one
\* session that is not revoked (createSession): the other devices' logins, revocations
\* and failures do not matter.
THEOREM OneSession == Spec => []OneSessionPerDevice
<1>1. SInv => OneSessionPerDevice
  <2> SUFFICES ASSUME SInv, NEW b \in Orderly PROVE Cardinality(Unrevoked(b)) <= 1
    BY DEF OneSessionPerDevice
  <2>1. \A s, u \in Unrevoked(b) : s = u
    BY DEF SInv, Fresh, FreshAt
  <2>2. CASE Unrevoked(b) = {}
    BY <2>2, FS_EmptySet
  <2>3. ASSUME NEW s \in Unrevoked(b) PROVE Cardinality(Unrevoked(b)) <= 1
    <3>1. Unrevoked(b) = {s}
      BY <2>1, <2>3
    <3>2. Cardinality({s}) = 1
      BY FS_Singleton
    <3> QED
      BY <3>1, <3>2
  <2> QED
    BY <2>2, <2>3
<1> QED
  BY <1>1, SInvAlways, PTL

\* A browser that sends one request at a time and gets every answer is never taken for a
\* thief of its own refresh token (rotateSession), whatever the other browsers do.
THEOREM NoOrderlyAlarm == Spec => []NoFalseAlarm
<1>1. SInv => NoFalseAlarm
  BY DEF SInv, JobsFit, Fits, NoFalseAlarm, Of
<1> QED
  BY <1>1, SInvAlways, PTL

\* A refresh token on its way to the session of an orderly browser is never older than the one
\* stored there, on top of what SInvAlways says.
THEOREM CInvAlways == Spec => []CInv
<1>1. Init => Newer
  BY DEF Init, Newer
<1>2. SInv /\ SInv' /\ Newer /\ [Next]_vars => Newer'
  BY NewerStep
<1> QED
  BY <1>1, <1>2, SInvAlways, PTL DEF Spec, CInv

\* Sessions implements Credential for the browsers whose requests never overlap: their refresh
\* token is good until a newer one replaces it or its session is revoked (createSession,
\* rotateSession), and no login or rotation under way brings back what was revoked or replaced.
THEOREM CredentialImplemented == Spec => ImplementsCredential
<1>1. Init => Abstract!Init
  BY DEF Init, Good, Opened, Unrevoked, Rows, NoRow, Abstract!Init
<1>2. CInv /\ CInv' /\ [Next]_vars => [Abstract!Next]_(Abstract!vars)
  BY CredentialStep DEF CInv
<1> QED
  BY <1>1, <1>2, CInvAlways, PTL DEF Spec, ImplementsCredential, Abstract!Spec
===============================================================================
