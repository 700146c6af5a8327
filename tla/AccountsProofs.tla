---------------------------- MODULE AccountsProofs ----------------------------
(* Theorems about Accounts, for every value of its constants. *)
EXTENDS Accounts, TLAPS

-----------------------------------------------------------------------------
(* The inductive invariant *)

\* No code that exists is unmade, mailed anew or given away, and a typed one stays typed.
CodesKept ==
    \A c \in Codes : code[c].status # "NONE" =>
        /\ code'[c].status # "NONE"
        /\ code'[c].purpose = code[c].purpose /\ code'[c].of = code[c].of
        /\ code[c].status = "TYPED" => code'[c].status = "TYPED"

\* Nobody but whoever works on o has attempts counted or codes mailed.
OthersKept(o) ==
    \A a \in Careful \ {o} :
        /\ streak'[a] <= streak[a]
        /\ \A p \in Purposes : Pending(a, p) = {} => Pending(a, p)' = {}

\* What a request has in memory stays of use when no other one works on its address.
LEMMA FitsKept ==
    ASSUME TypeOK, TypeOK', users \subseteq users', CodesKept, NEW o, OthersKept(o),
           NEW l, NEW j \in Jobs, j.on \in Careful => j.on # o, Fits(l, j)
    PROVE  Fits(l, j)'
<1>1. /\ l = "insert" => j.on \in Addresses
      /\ l \in {"verification", "void", "mail", "succeed", "fail"} => j.on \in users' \cap Addresses
      /\ l \in {"email", "link", "signup"} => j.on \in Profiles
  BY DEF Fits
<1>2. /\ l \in {"consume", "apply"} =>
            /\ j.code \in Codes
            /\ code'[j.code].status # "NONE" /\ code'[j.code].purpose = j.purpose
      /\ l = "apply" => code'[j.code].status = "TYPED"
  BY DEF Fits, CodesKept
<1>3. l = "fail" /\ j.on \in Careful => streak'[j.on] <= j.failed
  <2> SUFFICES ASSUME l = "fail", j.on \in Careful PROVE streak'[j.on] <= j.failed
    OBVIOUS
  <2>1. streak[j.on] <= j.failed /\ streak'[j.on] <= streak[j.on]
    BY DEF Fits, OthersKept
  <2>2. j.on \in Addresses
    BY AccountsAssumption
  <2>3. streak[j.on] \in Nat /\ streak'[j.on] \in Nat /\ j.failed \in Nat
    BY <2>2, AccountsAssumption DEF TypeOK, Jobs
  <2> QED
    BY <2>1, <2>3
<1>4. l = "mail" /\ j.on \in Careful => Pending(j.on, j.purpose)' = {}
  BY DEF Fits, OthersKept, Jobs
<1> QED
  BY <1>1, <1>2, <1>3, <1>4 DEF Fits

\* The same for all requests, one of which goes on to label l with j.
LEMMA JobsKept ==
    ASSUME TypeOK, TypeOK', JobsFit, Alone, users \subseteq users', CodesKept,
           NEW r \in Requests, OthersKept(job[r].on), NEW l, NEW j \in Jobs,
           pc' = [pc EXCEPT ![r] = l], job' = [job EXCEPT ![r] = j], Fits(l, j)',
           j.on \in Careful => \A q \in Requests \ {r} : job[q].on # j.on
    PROVE  JobsFit' /\ Alone'
<1>1. JobsFit'
  <2> SUFFICES ASSUME NEW q \in Requests PROVE Fits(pc[q], job[q])'
    BY DEF JobsFit
  <2>1. CASE q = r
    <3>1. pc'[q] = l /\ job'[q] = j
      BY <2>1 DEF TypeOK
    <3> QED
      BY <3>1 DEF Fits
  <2>2. CASE q # r
    <3>1. pc'[q] = pc[q] /\ job'[q] = job[q]
      BY <2>2 DEF TypeOK
    <3>2. PICK m, k : pc[q] = m /\ job[q] = k
      OBVIOUS
    <3>3. k \in Jobs /\ (k.on \in Careful => k.on # job[r].on) /\ Fits(m, k)
      BY <2>2, <3>2 DEF TypeOK, Alone, JobsFit
    <3>4. Fits(m, k)'
      BY <3>3, FitsKept
    <3> QED
      BY <3>1, <3>2, <3>4 DEF Fits
  <2> QED
    BY <2>1, <2>2
<1>2. Alone'
  BY DEF Alone, TypeOK
<1> QED
  BY <1>1, <1>2

\* Nobody needs anything at "idle".
LEMMA Idle ==
    /\ Fits("idle", NoJob)' /\ NoJob \in Jobs /\ NoJob.on \notin Careful /\ "idle" \in Labels
    /\ NoJob.on = Nothing
BY AccountsAssumption DEF Fits, NoJob, Jobs, Labels, Purposes

\* A request in progress has what its label needs.
LEMMA Busy ==
    ASSUME AInv, NEW r \in Requests
    PROVE  job[r] \in Jobs /\ pc[r] \in Labels /\ Fits(pc[r], job[r])
           /\ (job[r].on \in Careful => \A q \in Requests \ {r} : job[q].on # job[r].on)
BY DEF AInv, TypeOK, JobsFit, Alone

\* A request goes on to a label for which it has what it needs, and changes no row.
LEMMA Continuing ==
    ASSUME AInv, NEW r \in Requests, NEW l \in Labels, NEW j \in Jobs,
           UNCHANGED <<rows, streak>>, pc' = [pc EXCEPT ![r] = l], job' = [job EXCEPT ![r] = j],
           Fits(l, j), j.on \in Careful => \A q \in Requests \ {r} : job[q].on # j.on
    PROVE  AInv'
<1> USE DEF rows
<1>1. TypeOK'
  BY DEF AInv, TypeOK
<1>2. Proven' /\ CodesFit' /\ Counted'
  BY DEF AInv, Proven, Identity, Typed, CodesFit, Counted
<1>3. JobsFit' /\ Alone'
  <2>1. CodesKept /\ OthersKept(job[r].on)
    <3>1. \A a \in Careful : streak'[a] <= streak[a]
      <4>1. \A a \in Careful : streak[a] \in Int
        BY AccountsAssumption DEF AInv, TypeOK
      <4> QED
        BY <4>1
    <3> QED
      BY <3>1 DEF CodesKept, OthersKept, Pending
  <2>2. Fits(l, j)'
    BY DEF Fits, Pending
  <2> QED
    BY <1>1, <2>1, <2>2, JobsKept DEF AInv
<1> QED
  BY <1>1, <1>2, <1>3 DEF AInv

\* A request that ends changes no row, and neither does one that goes on with what it has.
LEMMA Advancing ==
    ASSUME AInv, NEW r \in Requests, NEW at, NEW l \in Labels, Go(r, at, l),
           UNCHANGED <<rows, streak>>, l # "idle" => Fits(l, job[r])
    PROVE  AInv'
<1>1. CASE l = "idle"
  <2>1. Fits("idle", NoJob) /\ NoJob \in Jobs /\ NoJob.on \notin Careful
    BY Idle DEF Fits
  <2> QED
    BY <1>1, <2>1, Continuing DEF Go
<1>2. CASE l # "idle"
  <2>1. job' = [job EXCEPT ![r] = job[r]]
    BY <1>2 DEF Go, AInv, TypeOK
  <2> QED
    BY <1>2, <2>1, Busy, Continuing DEF Go
<1> QED
  BY <1>1, <1>2

\* A request that starts changes no row, and has what its first label needs.
LEMMA SendStep ==
    ASSUME AInv, NEW r \in Requests, Send(r)
    PROVE  AInv'
<1> USE DEF Labels, Names, Purposes
<1>0. ASSUME NEW l \in Labels, NEW x \in Names, NEW read \in Jobs, Start(r, l, x, read),
             Fits(l, [read EXCEPT !.on = x])
      PROVE  AInv'
  <2>1. PICK j : j = [read EXCEPT !.on = x]
    OBVIOUS
  <2>2. j \in Jobs /\ j.on = x
    BY <2>1 DEF Jobs
  <2>3. j.on \in Careful => \A q \in Requests \ {r} : job[q].on # j.on
    BY <1>0, <2>2 DEF Start
  <2> QED
    BY <1>0, <2>1, <2>2, <2>3, Continuing DEF Start
<1>00. NoJob \in Jobs /\ [NoJob EXCEPT !.purpose = "RESET"] \in Jobs
  BY Idle DEF Jobs
<1>1. ASSUME NEW a \in Addresses, Register(r, a) PROVE AInv'
  <2>1. Fits("insert", [NoJob EXCEPT !.on = a])
    BY DEF Fits, NoJob
  <2> QED
    BY <1>0, <1>00, <1>1, <2>1 DEF Register
<1>2. ASSUME NEW a \in Addresses, Login(r, a) PROVE AInv'
  <2> DEFINE read == [NoJob EXCEPT !.failed = local[a].failed]
  <2>1. PICK l \in {"succeed", "fail"} : Start(r, l, a, read)
    BY <1>2 DEF Login
  <2>2. local[a].failed \in 0..MaxAttempts /\ a \in users
    BY <1>2 DEF Login, Identity, AInv, TypeOK, Locals
  <2>3. read \in Jobs /\ [read EXCEPT !.on = a].on = a
        /\ [read EXCEPT !.on = a].failed = local[a].failed
    BY <2>2, Idle DEF Jobs, NoJob
  <2>4. a \in Careful => streak[a] <= local[a].failed
    BY DEF AInv, Counted
  <2>5. Fits(l, [read EXCEPT !.on = a])
    <3> HIDE DEF read
    <3> QED
      BY <2>2, <2>3, <2>4 DEF Fits
  <2> QED
    BY <1>0, <2>1, <2>3, <2>5
<1>3. ASSUME NEW a \in Addresses, RequestReset(r, a) \/ RequestVerification(r, a) PROVE AInv'
  <2>1. a \in users
    BY <1>3 DEF RequestReset, RequestVerification, Identity
  <2>2. PICK read \in Jobs : Start(r, "void", a, read)
    BY <1>3, <1>00 DEF RequestReset, RequestVerification
  <2>3. [read EXCEPT !.on = a].on = a
    BY DEF Jobs
  <2>4. Fits("void", [read EXCEPT !.on = a])
    BY <2>1, <2>3 DEF Fits
  <2> QED
    BY <1>0, <2>2, <2>4
<1>4. ASSUME NEW a \in Addresses, NEW c \in Codes, NEW p \in Purposes, TypeCode(r, a, c, p)
      PROVE  AInv'
  <2>1. PICK found \in Matching(code[c].digits, p) :
          /\ code[found].status = "SENT"
          /\ Start(r, "consume", a, [NoJob EXCEPT !.code = found, !.purpose = p])
    BY <1>4 DEF TypeCode
  <2>2. found \in Codes /\ code[found].purpose = p
    BY DEF Matching
  <2> DEFINE read == [NoJob EXCEPT !.code = found, !.purpose = p]
  <2>3. read \in Jobs
    <3>1. found \in 0..MaxCodes
      BY <2>2, AccountsAssumption DEF Codes
    <3> QED
      BY <3>1, Idle DEF Jobs
  <2>4. [read EXCEPT !.on = a].code = found /\ [read EXCEPT !.on = a].purpose = p
    BY <2>3 DEF NoJob
  <2>5. Fits("consume", [read EXCEPT !.on = a])
    <3> HIDE DEF read
    <3> QED
      BY <2>1, <2>2, <2>4 DEF Fits
  <2> QED
    BY <1>0, <2>1, <2>3, <2>5
<1>5. ASSUME NEW p \in Profiles, OAuth(r, p) PROVE AInv'
  <2>1. PICK l \in {"email", "signup"} : Start(r, l, p, NoJob)
    BY <1>5 DEF OAuth
  <2>2. Fits(l, [NoJob EXCEPT !.on = p])
    BY DEF Fits, NoJob
  <2> QED
    BY <1>0, <1>00, <2>1, <2>2
<1> QED
  BY <1>1, <1>2, <1>3, <1>4, <1>5 DEF Send

-----------------------------------------------------------------------------
(* The steps that change a row *)

\* register makes a user who has a secret and nothing else.
LEMMA InsertUserStep ==
    ASSUME AInv, NEW r \in Requests, InsertUser(r)
    PROVE  AInv'
<1> DEFINE a == job[r].on
<1>1. /\ pc[r] = "insert" /\ pc' = [pc EXCEPT ![r] = "verification"] /\ job' = job
      /\ Free(a) /\ users' = users \cup {a} /\ local' = [local EXCEPT ![a].secret = 1]
      /\ UNCHANGED <<linked, code, streak>>
  BY DEF InsertUser, Go, On
<1>2. a \in Addresses /\ job[r] \in Jobs
  BY <1>1, Busy DEF Fits
<1>3. a \notin users
  BY <1>1 DEF Free
<1>4. \A b \in Addresses : /\ local'[b].secret = IF b = a THEN 1 ELSE local[b].secret
                           /\ local'[b].verified = local[b].verified
                           /\ local'[b].locked = local[b].locked
                           /\ local'[b].failed = local[b].failed
  BY <1>1, <1>2 DEF AInv, TypeOK, Locals
<1>5. TypeOK'
  <2>1. 1 \in 0..MaxSecrets
    BY AccountsAssumption
  <2>2. local' \in [Addresses -> Locals]
    BY <1>1, <1>2, <2>1 DEF AInv, TypeOK, Locals
  <2> QED
    BY <1>1, <1>2, <2>2 DEF AInv, TypeOK, Names, Labels
<1>6. Proven' /\ CodesFit'
  BY <1>1, <1>2, <1>4 DEF AInv, Proven, Identity, Typed, CodesFit
<1>7. Counted'
  BY <1>1, <1>4, AccountsAssumption DEF AInv, Counted
<1>8. JobsFit' /\ Alone'
  <2>1. PICK j : j = job[r]
    OBVIOUS
  <2>2. Fits("verification", j)'
    BY <1>1, <1>2, <2>1 DEF Fits
  <2>3. CodesKept /\ OthersKept(job[r].on)
    <3>1. \A b \in Careful : streak[b] \in Int
      BY AccountsAssumption DEF AInv, TypeOK
    <3> QED
      BY <1>1, <3>1 DEF CodesKept, OthersKept, Pending
  <2>4. job' = [job EXCEPT ![r] = j]
    BY <1>1, <2>1 DEF AInv, TypeOK
  <2> QED
    BY <1>1, <1>2, <1>5, <2>1, <2>2, <2>3, <2>4, Busy, JobsKept DEF AInv
<1> QED
  BY <1>5, <1>6, <1>7, <1>8 DEF AInv

\* A step of r that ends it and changes the attempts of its own address, or resets those of any.
LEMMA AttemptStep ==
    ASSUME AInv, NEW r \in Requests, NEW at, Go(r, at, "idle"), NEW a \in Addresses \cap users,
           NEW row \in Locals, local' = [local EXCEPT ![a] = row],
           NEW n \in 0..MaxAttempts, streak' = [streak EXCEPT ![a] = n],
           a = job[r].on \/ n = 0,
           row.secret > 0, row.secret > 1 => Typed(a, "RESET"),
           row.verified => Typed(a, "VERIFY"),
           a \in Careful => n <= row.failed /\ (n >= MaxAttempts => row.locked),
           UNCHANGED <<users, linked, code>>
    PROVE  AInv'
<1>1. /\ \A b \in Addresses : local'[b] = IF b = a THEN row ELSE local[b]
      /\ \A b \in Addresses : streak'[b] = IF b = a THEN n ELSE streak[b]
  BY DEF AInv, TypeOK
<1>2. pc' = [pc EXCEPT ![r] = "idle"] /\ job' = [job EXCEPT ![r] = NoJob]
  BY DEF Go
<1>3. TypeOK'
  BY <1>2, Idle DEF AInv, TypeOK
<1>4. Proven' /\ CodesFit'
  BY <1>1 DEF AInv, Proven, Identity, Typed, CodesFit
<1>5. Counted'
  BY <1>1, AccountsAssumption DEF AInv, Counted
<1>6. JobsFit' /\ Alone'
  <2>1. \A b \in Careful \ {job[r].on} : streak'[b] <= streak[b]
    <3>1. \A b \in Careful : streak[b] \in Nat
      BY AccountsAssumption DEF AInv, TypeOK
    <3> QED
      BY <1>1, <3>1, AccountsAssumption
  <2>2. CodesKept /\ OthersKept(job[r].on)
    BY <2>1 DEF CodesKept, OthersKept, Pending
  <2> QED
    BY <1>2, <1>3, <2>2, Idle, JobsKept DEF AInv
<1> QED
  BY <1>3, <1>4, <1>5, <1>6 DEF AInv

\* A good password ends the count.
LEMMA SucceedStep ==
    ASSUME AInv, NEW r \in Requests, Succeed(r)
    PROVE  AInv'
<1> DEFINE a == job[r].on
           row == [local[a] EXCEPT !.failed = 0, !.locked = FALSE]
<1>1. /\ Go(r, "succeed", "idle") /\ UNCHANGED <<users, linked, code>>
      /\ local' = [local EXCEPT ![a].failed = 0, ![a].locked = FALSE]
      /\ streak' = [streak EXCEPT ![a] = 0]
  BY DEF Succeed, On
<1>2. a \in Addresses \cap users /\ local[a] \in Locals /\ 0 \in 0..MaxAttempts
  BY <1>1, Busy, AccountsAssumption DEF Go, Fits, AInv, TypeOK
<1>3. local' = [local EXCEPT ![a] = row] /\ row \in Locals
  BY <1>1, <1>2 DEF AInv, TypeOK, Locals
<1>4. row.secret = local[a].secret /\ row.verified = local[a].verified /\ row.failed = 0
  BY <1>2 DEF Locals
<1>5. row.secret > 0 /\ (row.secret > 1 => Typed(a, "RESET")) /\ (row.verified => Typed(a, "VERIFY"))
  BY <1>2, <1>4 DEF AInv, Proven, Identity
<1>6. 0 <= row.failed /\ ~(0 >= MaxAttempts)
  BY <1>4, AccountsAssumption
<1> HIDE DEF row, a
<1> QED
  BY <1>1, <1>2, <1>3, <1>5, <1>6, AttemptStep DEF a

\* A wrong password is counted by whoever read the count before, and the lock comes in time.
LEMMA FailAttemptStep ==
    ASSUME AInv, NEW r \in Requests, FailAttempt(r)
    PROVE  AInv'
<1> DEFINE a == job[r].on
           k == job[r].failed + 1
           row == [local[a] EXCEPT !.failed = UpTo(k), !.locked = Locks(k)]
           n == IF a \in Careful THEN UpTo(streak[a] + 1) ELSE 0
<1>1. /\ Go(r, "fail", "idle") /\ UNCHANGED <<users, linked, code>>
      /\ local' = [local EXCEPT ![a].failed = UpTo(k), ![a].locked = Locks(k)]
      /\ streak' = [streak EXCEPT ![a] = n]
  BY DEF FailAttempt, On, AInv, TypeOK
<1>2. /\ a \in Addresses \cap users /\ local[a] \in Locals
      /\ job[r].failed \in 0..MaxAttempts /\ streak[a] \in 0..MaxAttempts
      /\ a \in Careful => streak[a] <= job[r].failed
  <2>1. Fits("fail", job[r]) /\ job[r] \in Jobs
    BY <1>1, Busy DEF Go
  <2> QED
    BY <2>1 DEF Fits, AInv, TypeOK, Jobs
<1>3. UpTo(k) \in 0..MaxAttempts /\ Locks(k) \in BOOLEAN /\ n \in 0..MaxAttempts
  BY <1>2, AccountsAssumption DEF UpTo, Locks
<1>4. local' = [local EXCEPT ![a] = row] /\ row \in Locals
  BY <1>1, <1>2, <1>3 DEF AInv, TypeOK, Locals
<1>5. /\ row.secret = local[a].secret /\ row.verified = local[a].verified
      /\ row.failed = UpTo(k) /\ row.locked = Locks(k)
  BY <1>2 DEF Locals
<1>6. row.secret > 0 /\ (row.secret > 1 => Typed(a, "RESET")) /\ (row.verified => Typed(a, "VERIFY"))
  BY <1>2, <1>5 DEF AInv, Proven, Identity
<1>7. a \in Careful => n <= UpTo(k) /\ (n >= MaxAttempts => Locks(k))
  BY <1>2, AccountsAssumption DEF UpTo, Locks
<1>8. a \in Careful => n <= row.failed /\ (n >= MaxAttempts => row.locked)
  BY <1>5, <1>7
<1> HIDE DEF row, n, k
<1> QED
  BY <1>1, <1>2, <1>3, <1>4, <1>6, <1>8, AttemptStep

\* A code verifies the address it was mailed to, or gives it another password and no lock.
LEMMA ApplyStep ==
    ASSUME AInv, NEW r \in Requests, Apply(r)
    PROVE  AInv'
<1> DEFINE a == code[job[r].code].of
<1>1. Go(r, "apply", "idle") /\ UNCHANGED <<users, linked, code>>
  BY DEF Apply
<1>2. /\ job[r].code \in Codes /\ code[job[r].code].purpose = job[r].purpose
      /\ code[job[r].code].status = "TYPED"
  BY <1>1, Busy DEF Go, Fits
<1>3. a \in Addresses \cap users /\ local[a] \in Locals /\ Typed(a, job[r].purpose)
  BY <1>2 DEF AInv, CodesFit, Typed, TypeOK
<1>4. local[a].secret > 0 /\ (local[a].secret > 1 => Typed(a, "RESET"))
      /\ (local[a].verified => Typed(a, "VERIFY"))
  BY <1>3 DEF AInv, Proven, Identity
<1>5. CASE /\ job[r].purpose = "RESET" /\ local[a].secret < MaxSecrets
           /\ local' = [local EXCEPT ![a].secret = @ + 1, ![a].failed = 0, ![a].locked = FALSE]
           /\ streak' = [streak EXCEPT ![a] = 0]
  <2> DEFINE row == [local[a] EXCEPT !.secret = @ + 1, !.failed = 0, !.locked = FALSE]
  <2>1. local[a].secret + 1 \in 0..MaxSecrets /\ 0 \in 0..MaxAttempts
    <3>1. local[a].secret \in 0..MaxSecrets
      BY <1>3 DEF Locals
    <3>2. local[a].secret < MaxSecrets
      BY <1>5
    <3> QED
      BY <3>1, <3>2, AccountsAssumption
  <2>2. local' = [local EXCEPT ![a] = row] /\ row \in Locals
    BY <1>3, <1>5, <2>1 DEF AInv, TypeOK, Locals
  <2>3. row.secret = local[a].secret + 1 /\ row.verified = local[a].verified /\ row.failed = 0
    BY <1>3 DEF Locals
  <2>4. row.secret > 0 /\ (row.secret > 1 => Typed(a, "RESET")) /\ (row.verified => Typed(a, "VERIFY"))
    <3>1. Typed(a, "RESET")
      BY <1>3, <1>5
    <3>2. local[a].secret \in Nat
      BY <1>3 DEF Locals
    <3>3. row.secret > 0
      BY <2>3, <3>2
    <3> QED
      BY <1>4, <2>3, <3>1, <3>3
  <2>5. 0 <= row.failed /\ ~(0 >= MaxAttempts)
    BY <2>3, AccountsAssumption
  <2> HIDE DEF row
  <2> QED
    BY <1>1, <1>3, <1>5, <2>1, <2>2, <2>4, <2>5, AttemptStep
<1>6. CASE /\ job[r].purpose = "VERIFY"
           /\ local' = [local EXCEPT ![a].verified = TRUE] /\ UNCHANGED streak
  <2> DEFINE row == [local[a] EXCEPT !.verified = TRUE]
  <2>1. \A b \in Addresses : local'[b] = IF b = a THEN row ELSE local[b]
    BY <1>3, <1>6 DEF AInv, TypeOK
  <2>2. row \in Locals /\ row.secret = local[a].secret /\ row.failed = local[a].failed
        /\ row.locked = local[a].locked
    BY <1>3 DEF Locals
  <2>3. TypeOK'
    <3>1. local' \in [Addresses -> Locals]
      BY <1>3, <1>6, <2>2 DEF AInv, TypeOK, Locals
    <3> QED
      BY <1>1, <1>6, <3>1, Idle DEF AInv, TypeOK, Go
  <2>4. Proven' /\ CodesFit'
    <3>1. \A b \in Addresses : local'[b].secret = local[b].secret
      BY <2>1, <2>2
    <3>2. \A b \in Addresses : local'[b].verified => Typed(b, "VERIFY")
      BY <1>3, <1>6, <2>1 DEF AInv, Proven
    <3> QED
      BY <1>1, <3>1, <3>2 DEF AInv, Proven, Identity, Typed, CodesFit
  <2>5. Counted'
    BY <1>6, <2>1, <2>2, AccountsAssumption DEF AInv, Counted
  <2>6. CodesKept /\ OthersKept(job[r].on)
    <3>1. \A b \in Careful : streak[b] \in Int
      BY AccountsAssumption DEF AInv, TypeOK
    <3> QED
      BY <1>1, <1>6, <3>1 DEF CodesKept, OthersKept, Pending
  <2>7. JobsFit' /\ Alone'
    BY <1>1, <2>3, <2>6, Idle, JobsKept DEF AInv, Go
  <2> QED
    BY <2>3, <2>4, <2>5, <2>7 DEF AInv
<1> QED
  BY <1>5, <1>6 DEF Apply

\* The end of a lock ends the count too.
LEMMA UnlockStep ==
    ASSUME AInv, NEW a \in Addresses, Unlock(a)
    PROVE  AInv'
<1>1. /\ local' = [local EXCEPT ![a].locked = FALSE] /\ streak' = [streak EXCEPT ![a] = 0]
      /\ UNCHANGED <<users, linked, code, pc, job>>
  BY DEF Unlock
<1>2. /\ \A b \in Addresses : /\ local'[b].secret = local[b].secret
                              /\ local'[b].verified = local[b].verified
                              /\ local'[b].failed = local[b].failed
                              /\ local'[b].locked = IF b = a THEN FALSE ELSE local[b].locked
      /\ \A b \in Addresses : streak'[b] = IF b = a THEN 0 ELSE streak[b]
  BY <1>1 DEF AInv, TypeOK, Locals
<1>3. TypeOK'
  <2>1. local' \in [Addresses -> Locals]
    BY <1>1 DEF AInv, TypeOK, Locals
  <2>2. 0 \in 0..MaxAttempts
    BY AccountsAssumption
  <2> QED
    BY <1>1, <2>1, <2>2 DEF AInv, TypeOK
<1>4. Proven' /\ CodesFit'
  BY <1>1, <1>2 DEF AInv, Proven, Identity, Typed, CodesFit
<1>5. \A b \in Addresses : streak[b] \in Nat /\ local[b].failed \in Nat /\ streak'[b] <= streak[b]
  BY <1>2 DEF AInv, TypeOK, Locals
<1>6. Counted'
  <2> SUFFICES ASSUME NEW b \in Careful
               PROVE  streak'[b] <= local'[b].failed /\ (streak'[b] >= MaxAttempts => local'[b].locked)
    BY DEF Counted
  <2>1. /\ b \in Addresses
        /\ streak[b] <= local[b].failed /\ (streak[b] >= MaxAttempts => local[b].locked)
    BY AccountsAssumption DEF AInv, Counted
  <2>2. CASE b = a
    <3>1. streak'[b] = 0 /\ local'[b].failed = local[b].failed /\ local[b].failed \in Nat
      BY <1>2, <1>5, <2>1, <2>2
    <3> QED
      BY <3>1, AccountsAssumption
  <2>3. CASE b # a
    BY <1>2, <2>1, <2>3
  <2> QED
    BY <2>2, <2>3
<1>7. JobsFit' /\ Alone'
  <2>1. CodesKept /\ OthersKept(Nothing)
    BY <1>1, <1>5, AccountsAssumption DEF CodesKept, OthersKept, Pending
  <2>2. \A r \in Requests : job[r].on \in Careful => job[r].on # Nothing
    BY AccountsAssumption
  <2>3. ASSUME NEW r \in Requests PROVE Fits(pc[r], job[r])'
    <3>1. PICK l, j : l = pc[r] /\ j = job[r]
      OBVIOUS
    <3>2. j \in Jobs /\ Fits(l, j) /\ (j.on \in Careful => j.on # Nothing)
      BY <2>2, <3>1 DEF AInv, TypeOK, JobsFit
    <3>3. Fits(l, j)'
      BY <1>1, <1>3, <2>1, <3>2, FitsKept DEF AInv
    <3> QED
      BY <1>1, <3>1, <3>3 DEF Fits
  <2> QED
    BY <1>1, <2>3 DEF JobsFit, AInv, Alone
<1> QED
  BY <1>3, <1>4, <1>6, <1>7 DEF AInv

\* A step that changes codes, keeping those that exist.
LEMMA CodeStep ==
    ASSUME AInv, NEW r \in Requests, NEW at, NEW l \in Labels, Go(r, at, l),
           UNCHANGED <<users, local, linked, streak>>,
           code' \in [Codes -> Tokens], CodesKept, CodesFit',
           \A a \in Careful \ {job[r].on}, p \in Purposes : Pending(a, p) = {} => Pending(a, p)' = {},
           l # "idle" => Fits(l, job[r])'
    PROVE  AInv'
<1>1. TypeOK'
  BY Idle DEF AInv, TypeOK, Go
<1>2. Proven'
  <2>1. \A a \in Addresses, p \in Purposes : Typed(a, p) => Typed(a, p)'
    BY DEF CodesKept, Typed
  <2> QED
    BY <2>1 DEF AInv, Proven, Identity, Purposes
<1>3. Counted'
  BY DEF AInv, Counted
<1>4. OthersKept(job[r].on)
  <2>1. \A a \in Careful : streak[a] \in Int
    BY AccountsAssumption DEF AInv, TypeOK
  <2> QED
    BY <2>1 DEF OthersKept
<1>5. JobsFit' /\ Alone'
  <2>1. CASE l = "idle"
    BY <1>1, <1>4, <2>1, Idle, JobsKept DEF AInv, Go
  <2>2. CASE l # "idle"
    <3>1. PICK j : j = job[r]
      OBVIOUS
    <3>2. job' = job /\ job' = [job EXCEPT ![r] = j] /\ pc' = [pc EXCEPT ![r] = l]
      BY <2>2, <3>1 DEF Go, AInv, TypeOK
    <3>3. Fits(l, j)'
      BY <2>2, <3>1, <3>2 DEF Fits
    <3> QED
      BY <1>1, <1>4, <3>1, <3>2, <3>3, Busy, JobsKept DEF AInv
  <2> QED
    BY <2>1, <2>2
<1> QED
  BY <1>1, <1>2, <1>3, <1>5 DEF AInv

\* invalidatePending leaves no code of this address and purpose valid.
LEMMA InvalidateStep ==
    ASSUME AInv, NEW r \in Requests, Invalidate(r)
    PROVE  AInv'
<1> DEFINE a == job[r].on
           old == Pending(a, job[r].purpose)
<1>1. /\ Go(r, "void", "mail") /\ UNCHANGED <<users, local, linked, streak>>
      /\ code' = [c \in Codes |-> IF c \in old THEN [code[c] EXCEPT !.status = "VOID"] ELSE code[c]]
  BY DEF Invalidate, On
<1>2. a \in users \cap Addresses /\ job[r].purpose \in Purposes
  BY <1>1, Busy DEF Go, Fits, Jobs
<1>3. \A c \in Codes : /\ code[c] \in Tokens /\ code'[c] \in Tokens
                        /\ code'[c].of = code[c].of /\ code'[c].purpose = code[c].purpose
                        /\ code'[c].status = IF c \in old THEN "VOID" ELSE code[c].status
  <2> SUFFICES ASSUME NEW c \in Codes
               PROVE  /\ code[c] \in Tokens /\ code'[c] \in Tokens
                      /\ code'[c].of = code[c].of /\ code'[c].purpose = code[c].purpose
                      /\ code'[c].status = IF c \in old THEN "VOID" ELSE code[c].status
    OBVIOUS
  <2>1. code[c] \in Tokens
    BY DEF AInv, TypeOK
  <2> HIDE DEF old
  <2> QED
    BY <1>1, <2>1 DEF Tokens
<1>4. code' \in [Codes -> Tokens]
  BY <1>1, <1>3
<1>5. \A c \in old : code[c].status = "SENT"
  BY DEF Pending
<1>6. CodesKept /\ CodesFit'
  BY <1>1, <1>3, <1>5 DEF CodesKept, AInv, CodesFit
<1>7. \A b, p : Pending(b, p)' \subseteq Pending(b, p)
  BY <1>3 DEF Pending
<1>8. job' = job /\ Pending(a, job[r].purpose)' = {}
  BY <1>1, <1>3 DEF Pending, Go
<1>9. Fits("mail", job[r])'
  BY <1>1, <1>2, <1>8 DEF Fits, Go
<1> QED
  BY <1>1, <1>4, <1>6, <1>7, <1>9, CodeStep DEF Labels

\* The code goes to a user.
LEMMA MailCodeStep ==
    ASSUME AInv, NEW r \in Requests, MailCode(r)
    PROVE  AInv'
<1> DEFINE a == job[r].on
<1>1. Go(r, "mail", "idle") /\ UNCHANGED <<users, local, linked, streak>>
  BY DEF MailCode
<1>2. PICK c \in Codes, d \in Digits :
        /\ code[c].status = "NONE"
        /\ code' = [code EXCEPT ![c] = [of |-> a, purpose |-> job[r].purpose,
                                        digits |-> d, status |-> "SENT"]]
  <2>1. PICK c \in Codes, d \in Digits :
          /\ \A x \in Codes : x < c <=> code[x].status # "NONE"
          /\ code' = [code EXCEPT ![c] = [of |-> a, purpose |-> job[r].purpose,
                                          digits |-> d, status |-> "SENT"]]
    BY DEF MailCode, On
  <2>2. ~(c < c)
    BY AccountsAssumption DEF Codes
  <2> QED
    BY <2>1, <2>2
<1>3. a \in users \cap Addresses /\ job[r].purpose \in Purposes
  BY <1>1, Busy DEF Go, Fits, Jobs
<1> DEFINE new == [of |-> a, purpose |-> job[r].purpose, digits |-> d, status |-> "SENT"]
<1>4. new \in Tokens /\ new.of = a /\ new.status = "SENT"
  BY <1>2, <1>3 DEF Tokens
<1>5. code' = [code EXCEPT ![c] = new]
  BY <1>2
<1> HIDE DEF new
<1>6. code' \in [Codes -> Tokens] /\ \A x \in Codes : code'[x] = IF x = c THEN new ELSE code[x]
  BY <1>4, <1>5 DEF AInv, TypeOK
<1>7. CodesKept /\ CodesFit'
  BY <1>1, <1>2, <1>3, <1>4, <1>6 DEF CodesKept, AInv, CodesFit
<1>8. \A b \in Careful \ {a}, p \in Purposes : Pending(b, p) = {} => Pending(b, p)' = {}
  BY <1>4, <1>6 DEF Pending
<1> QED
  BY <1>1, <1>6, <1>7, <1>8, CodeStep DEF Labels

\* A code that is typed is valid no more.
LEMMA ConsumeStep ==
    ASSUME AInv, NEW r \in Requests, Consume(r)
    PROVE  AInv'
<1> DEFINE c == job[r].code
<1>1. /\ Go(r, "consume", "apply") /\ UNCHANGED <<users, local, linked, streak>>
      /\ code' = [code EXCEPT ![c].status = "TYPED"]
  BY DEF Consume
<1>2. c \in Codes /\ code[c].status # "NONE" /\ code[c].purpose = job[r].purpose
  BY <1>1, Busy DEF Go, Fits
<1>3. /\ code' \in [Codes -> Tokens]
      /\ \A x \in Codes : /\ code'[x].of = code[x].of /\ code'[x].purpose = code[x].purpose
                           /\ code'[x].status = IF x = c THEN "TYPED" ELSE code[x].status
  BY <1>1, <1>2 DEF AInv, TypeOK, Tokens
<1>4. CodesKept /\ CodesFit'
  BY <1>1, <1>2, <1>3 DEF CodesKept, AInv, CodesFit
<1>5. \A b, p : Pending(b, p)' \subseteq Pending(b, p)
  BY <1>3 DEF Pending
<1>6. Fits("apply", job[r])'
  <2>1. job' = job /\ code'[c].status = "TYPED" /\ code'[c].purpose = job[r].purpose
    BY <1>1, <1>2, <1>3 DEF Go
  <2> QED
    BY <1>2, <2>1 DEF Fits
<1> QED
  BY <1>1, <1>3, <1>4, <1>5, <1>6, CodeStep DEF Labels

\* A provider login links its profile to a user, or to a new one without a password.
LEMMA ProviderStep ==
    ASSUME AInv, NEW r \in Requests, Link(r) \/ SignUp(r)
    PROVE  AInv'
<1>1. PICK at \in {"link", "signup"} : Go(r, at, "idle")
  BY DEF Link, SignUp
<1>2. job[r].on \in Profiles
  BY <1>1, Busy DEF Go, Fits
<1>3. /\ UNCHANGED <<local, code, streak>>
      /\ users \subseteq users' /\ users' \subseteq users \cup Profiles
      /\ linked' \in [Profiles -> Names \cup {Nothing}]
  BY <1>2 DEF Link, SignUp, On, AInv, TypeOK, Names
<1>4. users' \cap Addresses = users \cap Addresses
  BY <1>3, AccountsAssumption
<1>5. TypeOK'
  BY <1>1, <1>3, Idle DEF AInv, TypeOK, Go, Names
<1>6. Proven' /\ CodesFit' /\ Counted'
  BY <1>3, <1>4 DEF AInv, Proven, Identity, Typed, CodesFit, Counted
<1>7. JobsFit' /\ Alone'
  <2>1. \A a \in Careful : streak[a] \in Int
    BY AccountsAssumption DEF AInv, TypeOK
  <2>2. CodesKept /\ OthersKept(job[r].on)
    BY <1>3, <2>1 DEF CodesKept, OthersKept, Pending
  <2> QED
    BY <1>1, <1>3, <1>5, <2>2, Idle, JobsKept DEF AInv, Go
<1> QED
  BY <1>5, <1>6, <1>7 DEF AInv

\* The steps that change no row.
LEMMA PassingStep ==
    ASSUME AInv, NEW r \in Requests, AskVerification(r) \/ FindByEmail(r) \/ Fail(r)
    PROVE  AInv'
<1>1. CASE AskVerification(r)
  <2>1. PICK l \in {"idle", "void"} : Go(r, "verification", l)
    BY <1>1 DEF AskVerification
  <2>2. Fits("void", job[r])
    BY <2>1, Busy DEF Go, Fits
  <2> QED
    BY <1>1, <2>1, <2>2, Advancing DEF AskVerification, Labels
<1>2. CASE FindByEmail(r)
  <2>1. PICK l \in {"link", "signup"} : Go(r, "email", l)
    BY <1>2 DEF FindByEmail
  <2>2. Fits(l, job[r])
    BY <2>1, Busy DEF Go, Fits
  <2> QED
    BY <1>2, <2>1, <2>2, Advancing DEF FindByEmail, Labels
<1>3. CASE Fail(r)
  BY <1>3, Advancing DEF Fail, Labels
<1> QED
  BY <1>1, <1>2, <1>3

-----------------------------------------------------------------------------
(* The theorems *)

\* AInv holds at the start.
LEMMA InitAInv == Init => AInv
<1> SUFFICES ASSUME Init PROVE AInv
  OBVIOUS
<1>1. 0 \in 0..MaxSecrets /\ 0 \in 0..MaxAttempts /\ 0 < MaxAttempts
  BY AccountsAssumption
<1>2. TypeOK
  BY <1>1, Idle DEF Init, TypeOK, Locals, Tokens, Labels, NoCode, Purposes
<1>3. Proven /\ CodesFit /\ Counted
  BY <1>1, AccountsAssumption DEF Init, Proven, CodesFit, Counted, Identity, NoCode
<1>4. JobsFit /\ Alone
  BY Idle DEF Init, JobsFit, Alone, Fits
<1> QED
  BY <1>2, <1>3, <1>4 DEF AInv

\* Every step keeps AInv.
LEMMA AInvStep ==
    ASSUME AInv, [Next]_vars
    PROVE  AInv'
<1>1. CASE UNCHANGED vars
  BY <1>1 DEF vars, rows, AInv, TypeOK, Proven, Identity, Typed, CodesFit, Counted, JobsFit,
              Fits, Pending, Alone
<1>2. ASSUME NEW r \in Requests, Serve(r) PROVE AInv'
  BY <1>2, InsertUserStep, PassingStep, SucceedStep, FailAttemptStep, InvalidateStep,
     MailCodeStep, ConsumeStep, ApplyStep, ProviderStep DEF Serve
<1> QED
  BY <1>1, <1>2, SendStep, UnlockStep DEF Next

\* Only users have passwords; an address becomes verified, or gets another password, only by
\* a code of that purpose that was mailed to it, whichever code its digits find.
THEOREM AInvAlways == Spec => []AInv
BY InitAInv, AInvStep, PTL DEF Spec

\* A careful address is locked after MaxAttempts wrong passwords in a row.
THEOREM LocksHold == Spec => []LockHolds
<1>1. AInv => LockHolds
  BY DEF AInv, Counted, LockHolds
<1> QED
  BY <1>1, AInvAlways, PTL

-----------------------------------------------------------------------------
(* One account per address *)

\* A step makes no user of a known address, and links a profile to a user of its address.
LEMMA AccountStep ==
    ASSUME AInv, OneAccountPerAddress, [Next]_vars
    PROVE  OneAccountPerAddress'
<1>1. CASE UNCHANGED <<users, linked>>
  BY <1>1 DEF OneAccountPerAddress
<1>2. ASSUME NEW r \in Requests, InsertUser(r) PROVE OneAccountPerAddress'
  BY <1>2 DEF InsertUser, Free, OneAccountPerAddress
<1>3. ASSUME NEW r \in Requests, Link(r) PROVE OneAccountPerAddress'
  <2>1. job[r].on \in Profiles
    BY <1>3, Busy DEF Link, Go, Fits
  <2>2. PICK u \in users : /\ Email(u) = Email(job[r].on)
                           /\ linked' = [linked EXCEPT ![job[r].on] = u]
    BY <1>3 DEF Link, On
  <2>3. users' = users /\ linked \in [Profiles -> Names \cup {Nothing}]
    BY <1>3 DEF Link, AInv, TypeOK
  <2> QED
    BY <2>1, <2>2, <2>3, AccountsAssumption DEF OneAccountPerAddress, Email
<1>4. ASSUME NEW r \in Requests, SignUp(r) PROVE OneAccountPerAddress'
  <2>1. job[r].on \in Profiles
    BY <1>4, Busy DEF SignUp, Go, Fits
  <2>2. /\ Free(job[r].on) /\ users' = users \cup {job[r].on}
        /\ linked' = [linked EXCEPT ![job[r].on] = job[r].on]
        /\ linked \in [Profiles -> Names \cup {Nothing}]
    BY <1>4 DEF SignUp, On, AInv, TypeOK
  <2>3. \A u, v \in users' : Email(u) = Email(v) => u = v
    BY <2>2 DEF Free, OneAccountPerAddress
  <2>4. \A p \in Vouched : linked'[p] # Nothing => Email(linked'[p]) = ProfileEmail[p]
    BY <2>1, <2>2, AccountsAssumption DEF OneAccountPerAddress, Email
  <2> QED
    BY <2>3, <2>4 DEF OneAccountPerAddress, Email
<1>5. ASSUME NEW r \in Requests, Send(r) PROVE UNCHANGED <<users, linked>>
  BY <1>5 DEF Send, Register, Login, RequestReset, RequestVerification, TypeCode, OAuth, Start, rows
<1>6. ASSUME NEW r \in Requests, Serve(r), ~InsertUser(r), ~Link(r), ~SignUp(r)
      PROVE  UNCHANGED <<users, linked>>
  BY <1>6 DEF Serve, AskVerification, Succeed, FailAttempt, Invalidate, MailCode, Consume, Apply,
              FindByEmail, Fail, rows
<1>7. ASSUME NEW a \in Addresses, Unlock(a) PROVE UNCHANGED <<users, linked>>
  BY <1>7 DEF Unlock
<1>8. UNCHANGED vars => UNCHANGED <<users, linked>>
  BY DEF vars, rows
<1> QED
  BY <1>1, <1>2, <1>3, <1>4, <1>5, <1>6, <1>7, <1>8 DEF Next

\* Every address has one account, and everyone whom a provider vouches for logs in to the
\* account of the address, however registrations and provider logins race.
THEOREM OneAccount == Spec => []OneAccountPerAddress
<1>1. Init => OneAccountPerAddress
  BY AccountsAssumption DEF Init, OneAccountPerAddress
<1> QED
  BY <1>1, AInvAlways, AInvStep, AccountStep, PTL DEF Spec

-----------------------------------------------------------------------------
(* One valid code *)

\* Code c is a valid one of a.
Valid(c, a) == code[c].of = a /\ code[c].status = "SENT"

\* A code is mailed to a careful address when none of its purpose is valid.
LEMMA LiveStep ==
    ASSUME AInv, OneLiveCode, [Next]_vars
    PROVE  OneLiveCode'
<1>1. ASSUME \A c \in Codes, a \in Careful :
                 Valid(c, a)' => Valid(c, a) /\ code'[c].purpose = code[c].purpose
      PROVE  OneLiveCode'
  BY <1>1 DEF OneLiveCode, Valid
<1>2. UNCHANGED code => OneLiveCode'
  BY <1>1 DEF Valid
<1>3. ASSUME NEW r \in Requests, Invalidate(r) PROVE OneLiveCode'
  <2>1. code' = [c \in Codes |-> IF c \in Pending(job[r].on, job[r].purpose)
                                    THEN [code[c] EXCEPT !.status = "VOID"] ELSE code[c]]
    BY <1>3 DEF Invalidate, On
  <2>2. \A c \in Codes : code'[c] = code[c] \/ code'[c].status = "VOID"
    BY <2>1 DEF AInv, TypeOK, Tokens
  <2> QED
    BY <1>1, <2>2 DEF Valid
<1>4. ASSUME NEW r \in Requests, Consume(r) PROVE OneLiveCode'
  <2>1. \A c \in Codes : code'[c] = code[c] \/ code'[c].status = "TYPED"
    BY <1>4 DEF Consume, AInv, TypeOK, Tokens
  <2> QED
    BY <1>1, <2>1 DEF Valid
<1>5. ASSUME NEW r \in Requests, MailCode(r) PROVE OneLiveCode'
  <2> DEFINE a == job[r].on
             p == job[r].purpose
  <2>1. PICK c \in Codes, d \in Digits :
          code' = [code EXCEPT ![c] = [of |-> a, purpose |-> p, digits |-> d, status |-> "SENT"]]
    BY <1>5 DEF MailCode, On
  <2>2. a \in Careful => Pending(a, p) = {}
    BY <1>5, Busy DEF MailCode, Go, Fits
  <2>3. /\ code'[c].of = a /\ code'[c].purpose = p
        /\ \A x \in Codes : x # c => code'[x] = code[x]
    BY <2>1 DEF AInv, TypeOK
  <2>4. ASSUME NEW b \in Careful, NEW x \in Codes, x # c,
               code'[x].of = b, code'[x].status = "SENT", code'[c].of = b
        PROVE  code'[x].purpose # code'[c].purpose
    BY <2>2, <2>3, <2>4 DEF Pending
  <2> QED
    BY <2>3, <2>4 DEF OneLiveCode
<1>6. ASSUME NEW r \in Requests, Send(r) PROVE UNCHANGED code
  BY <1>6 DEF Send, Register, Login, RequestReset, RequestVerification, TypeCode, OAuth, Start, rows
<1>7. ASSUME NEW r \in Requests, Serve(r), ~Invalidate(r), ~MailCode(r), ~Consume(r)
      PROVE  UNCHANGED code
  BY <1>7 DEF Serve, InsertUser, AskVerification, Succeed, FailAttempt, Apply,
              FindByEmail, Link, SignUp, Fail, rows
<1>8. ASSUME NEW a \in Addresses, Unlock(a) PROVE UNCHANGED code
  BY <1>8 DEF Unlock
<1>9. UNCHANGED vars => UNCHANGED code
  BY DEF vars, rows
<1> QED
  BY <1>2, <1>3, <1>4, <1>5, <1>6, <1>7, <1>8, <1>9 DEF Next

\* A careful address has at most one valid code of each purpose.
THEOREM OneCode == Spec => []OneLiveCode
<1>1. Init => OneLiveCode
  BY DEF Init, OneLiveCode, NoCode
<1> QED
  BY <1>1, AInvAlways, AInvStep, LiveStep, PTL DEF Spec

===============================================================================
