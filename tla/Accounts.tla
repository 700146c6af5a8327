------------------------------- MODULE Accounts -------------------------------
(***************************************************************************)
(* Accounts and what proves an address: registration, password logins and  *)
(* their lockout, the emailed six digit codes that verify an address or    *)
(* reset a password, and logins through a provider (auth.service.ts,       *)
(* verification.service.ts, the strategies that call them).                *)
(*                                                                         *)
(* A request takes one database statement at a time.  A user is named      *)
(* after what created it: the address registered, or the provider account. *)
(* A refused request changes nothing and is left out, and with it codes    *)
(* past their expiresAt and a provider login of a known account.           *)
(***************************************************************************)
EXTENDS Integers

CONSTANTS
    Addresses,      \* email addresses
    Careful,        \* the addresses used in one request at a time
    Profiles,       \* accounts at a provider
    ProfileEmail,   \* the address a provider knows a profile by
    Vouched,        \* the profiles whose address the provider has verified
    Requests,       \* concurrent HTTP requests
    Digits,         \* the values of a code
    MaxCodes,       \* bound on VerificationToken rows
    MaxAttempts,    \* AUTH_LOCKOUT_MAX_ATTEMPTS
    MaxSecrets,     \* bound on the passwords of an address
    Nothing

ASSUME AccountsAssumption ==
    /\ Careful \subseteq Addresses /\ Vouched \subseteq Profiles
    /\ ProfileEmail \in [Profiles -> Addresses]
    /\ Addresses \cap Profiles = {} /\ Nothing \notin Addresses \cup Profiles
    /\ MaxCodes \in Nat /\ MaxAttempts \in Nat \ {0} /\ MaxSecrets \in Nat \ {0}

Purposes == {"RESET", "VERIFY"}
Codes == 1..MaxCodes        \* in the order of createdAt
Names == Addresses \cup Profiles

VARIABLES
    users,      \* the users that exist
    local,      \* the local UserIdentity of an address: its secret (by number), whether it
                \* is verified or locked, and its failedAttempts
    linked,     \* the user a provider account logs in to
    code,       \* VerificationToken: SENT, or its consumedAt is set: TYPED by a user or VOID
    pc, job,    \* where each request is, and what it has in memory
    streak      \* history: the wrong passwords counted for a careful address since a good
                \* one, a reset or the end of a lock

rows == <<users, local, linked, code>>
vars == <<rows, pc, job, streak>>

NoJob == [on |-> Nothing, failed |-> 0, code |-> 0, purpose |-> "VERIFY"]
NoCode == [of |-> Nothing, purpose |-> "VERIFY", digits |-> Nothing, status |-> "NONE"]

Locals == [secret : 0..MaxSecrets, verified : BOOLEAN, locked : BOOLEAN, failed : 0..MaxAttempts]
Tokens == [of : Addresses \cup {Nothing}, purpose : Purposes,
           digits : Digits \cup {Nothing}, status : {"NONE", "SENT", "TYPED", "VOID"}]
Labels == {"idle", "insert", "verification", "void", "mail", "succeed", "fail",
           "consume", "apply", "email", "link", "signup"}
Jobs == [on : Names \cup {Nothing}, failed : 0..MaxAttempts, code : 0..MaxCodes, purpose : Purposes]

TypeOK ==
    /\ users \subseteq Names
    /\ local \in [Addresses -> Locals]
    /\ linked \in [Profiles -> Names \cup {Nothing}]
    /\ code \in [Codes -> Tokens]
    /\ pc \in [Requests -> Labels] /\ job \in [Requests -> Jobs]
    /\ streak \in [Addresses -> 0..MaxAttempts]

Init ==
    /\ users = {}
    /\ local = [a \in Addresses |-> [secret |-> 0, verified |-> FALSE, locked |-> FALSE, failed |-> 0]]
    /\ linked = [p \in Profiles |-> Nothing]
    /\ code = [c \in Codes |-> NoCode]
    /\ pc = [r \in Requests |-> "idle"]
    /\ job = [r \in Requests |-> NoJob]
    /\ streak = [a \in Addresses |-> 0]

-----------------------------------------------------------------------------
Email(u) == IF u \in Profiles THEN ProfileEmail[u] ELSE u
Identity(a) == a \in users      \* address a has a local identity

\* Variant: no index on User.email.
FreeAlways(u) == TRUE

\* The unique index on User.email lets user u in.
Free(u) == \A v \in users : Email(v) # Email(u)

\* Request r, about address or profile x, starts with a first statement that lets it go on
\* with what it has read.
Start(r, to, x, read) ==
    /\ pc[r] = "idle"
    /\ x \in Careful => \A q \in Requests : job[q].on # x
    /\ pc' = [pc EXCEPT ![r] = to]
    /\ job' = [job EXCEPT ![r] = [read EXCEPT !.on = x]]
    /\ UNCHANGED <<rows, streak>>

Go(r, at, to) ==
    /\ pc[r] = at
    /\ pc' = [pc EXCEPT ![r] = to]
    /\ job' = IF to = "idle" THEN [job EXCEPT ![r] = NoJob] ELSE job

On(r) == job[r].on

-----------------------------------------------------------------------------
(* auth.service.ts: register *)

Register(r, a) == ~Identity(a) /\ Start(r, "insert", a, NoJob)

\* The user and the identity are one insert; the loser of a race ends here.
InsertUser(r) ==
    /\ Go(r, "insert", "verification")
    /\ Free(On(r))
    /\ users' = users \cup {On(r)}
    /\ local' = [local EXCEPT ![On(r)].secret = 1]
    /\ UNCHANGED <<linked, code, streak>>

\* register goes on to requestVerification.
AskVerification(r) ==
    /\ Go(r, "verification", IF local[On(r)].verified THEN "idle" ELSE "void")
    /\ UNCHANGED <<rows, streak>>

-----------------------------------------------------------------------------
(* auth.service.ts: validateLocalLogin, registerFailedAttempt *)

\* The identity is read and the password compared with its secret.
Login(r, a) ==
    /\ Identity(a) /\ ~local[a].locked
    /\ \E to \in {"succeed", "fail"} : Start(r, to, a, [NoJob EXCEPT !.failed = local[a].failed])

Succeed(r) ==
    /\ Go(r, "succeed", "idle")
    /\ local' = [local EXCEPT ![On(r)].failed = 0, ![On(r)].locked = FALSE]
    /\ streak' = [streak EXCEPT ![On(r)] = 0]
    /\ UNCHANGED <<users, linked, code>>

\* Variant: the lock comes an attempt late.
LocksLate(n) == n > MaxAttempts

Locks(n) == n >= MaxAttempts

UpTo(n) == IF n > MaxAttempts THEN MaxAttempts ELSE n

\* The count read before is written back, with a lock or without (counts past
\* MaxAttempts act alike and are kept as MaxAttempts).
FailAttempt(r) ==
    /\ Go(r, "fail", "idle")
    /\ LET n == job[r].failed + 1
       IN  local' = [local EXCEPT ![On(r)].failed = UpTo(n), ![On(r)].locked = Locks(n)]
    /\ streak' = [streak EXCEPT ![On(r)] = IF On(r) \in Careful THEN UpTo(@ + 1) ELSE 0]
    /\ UNCHANGED <<users, linked, code>>

\* lockedUntil passes; the failed attempts stay.
Unlock(a) ==
    /\ local[a].locked
    /\ local' = [local EXCEPT ![a].locked = FALSE]
    /\ streak' = [streak EXCEPT ![a] = 0]
    /\ UNCHANGED <<users, linked, code, pc, job>>

-----------------------------------------------------------------------------
(* verification.service.ts *)

RequestReset(r, a) == Identity(a) /\ Start(r, "void", a, [NoJob EXCEPT !.purpose = "RESET"])
RequestVerification(r, a) ==
    Identity(a) /\ ~local[a].verified /\ Start(r, "void", a, NoJob)

\* Variant: the earlier codes stay valid.
PendingNone(a, purpose) == {}

Pending(a, purpose) ==
    {c \in Codes : code[c].of = a /\ code[c].purpose = purpose /\ code[c].status = "SENT"}

\* invalidatePending
Invalidate(r) ==
    /\ Go(r, "void", "mail")
    /\ LET old == Pending(On(r), job[r].purpose)
       IN  code' = [c \in Codes |-> IF c \in old THEN [code[c] EXCEPT !.status = "VOID"] ELSE code[c]]
    /\ UNCHANGED <<users, local, linked, streak>>

\* A code is drawn, stored and mailed; another one may have the same digits.
MailCode(r) ==
    /\ Go(r, "mail", "idle")
    /\ \E c \in Codes, d \in Digits :
          /\ \A x \in Codes : x < c <=> code[x].status # "NONE"
          /\ code' = [code EXCEPT ![c] = [of |-> On(r), purpose |-> job[r].purpose,
                                          digits |-> d, status |-> "SENT"]]
    /\ UNCHANGED <<users, local, linked, streak>>

\* Variant: a code of either purpose will do.
MatchingAny(d, purpose) == {x \in Codes : code[x].digits = d}

\* The codes with these digits, whoever they were mailed to.
Matching(d, purpose) == {x \in Codes : code[x].digits = d /\ code[x].purpose = purpose}

\* consumeToken: address a's owner types code c; the newest one with these digits is read.
TypeCode(r, a, c, purpose) ==
    /\ code[c].of = a
    /\ \E found \in Matching(code[c].digits, purpose) :
           /\ \A x \in Matching(code[c].digits, purpose) : x <= found
           /\ code[found].status = "SENT"
           /\ Start(r, "consume", a, [NoJob EXCEPT !.code = found, !.purpose = purpose])

Consume(r) ==
    /\ Go(r, "consume", "apply")
    /\ code' = [code EXCEPT ![job[r].code].status = "TYPED"]
    /\ UNCHANGED <<users, local, linked, streak>>

\* resetPassword and verify, on the identity of the code that was found.
Apply(r) ==
    LET a == code[job[r].code].of
    IN  /\ Go(r, "apply", "idle")
        /\ \/ /\ job[r].purpose = "RESET" /\ local[a].secret < MaxSecrets
              /\ local' = [local EXCEPT ![a].secret = @ + 1, ![a].failed = 0, ![a].locked = FALSE]
              /\ streak' = [streak EXCEPT ![a] = 0]
           \/ /\ job[r].purpose = "VERIFY"
              /\ local' = [local EXCEPT ![a].verified = TRUE]
              /\ UNCHANGED streak
        /\ UNCHANGED <<users, linked, code>>

-----------------------------------------------------------------------------
(* auth.service.ts: validateOAuthLogin *)

\* The provider's account is not known yet; a verified address may be.
OAuth(r, p) ==
    /\ linked[p] = Nothing
    /\ Start(r, IF p \in Vouched THEN "email" ELSE "signup", p, NoJob)

FindByEmail(r) ==
    /\ Go(r, "email", IF Free(On(r)) THEN "signup" ELSE "link")
    /\ UNCHANGED <<rows, streak>>

\* Either insert fails when the same account was linked meanwhile.
Link(r) ==
    /\ Go(r, "link", "idle")
    /\ linked[On(r)] = Nothing
    /\ \E u \in users : Email(u) = Email(On(r)) /\ linked' = [linked EXCEPT ![On(r)] = u]
    /\ UNCHANGED <<users, local, code, streak>>

\* A new user, with the address of the profile.
SignUp(r) ==
    /\ Go(r, "signup", "idle")
    /\ linked[On(r)] = Nothing /\ Free(On(r))
    /\ users' = users \cup {On(r)}
    /\ linked' = [linked EXCEPT ![On(r)] = On(r)]
    /\ UNCHANGED <<local, code, streak>>

-----------------------------------------------------------------------------
\* A request fails between two statements, or a unique index refuses it.
Fail(r) ==
    /\ pc[r] # "idle"
    /\ Go(r, pc[r], "idle")
    /\ UNCHANGED <<rows, streak>>

Send(r) ==
    \/ \E a \in Addresses :
          \/ Register(r, a) \/ Login(r, a) \/ RequestReset(r, a) \/ RequestVerification(r, a)
          \/ \E c \in Codes, purpose \in Purposes : TypeCode(r, a, c, purpose)
    \/ \E p \in Profiles : OAuth(r, p)

Serve(r) ==
    \/ InsertUser(r) \/ AskVerification(r) \/ Succeed(r) \/ FailAttempt(r)
    \/ Invalidate(r) \/ MailCode(r) \/ Consume(r) \/ Apply(r)
    \/ FindByEmail(r) \/ Link(r) \/ SignUp(r) \/ Fail(r)

Next ==
    \/ \E r \in Requests : Send(r) \/ Serve(r)
    \/ \E a \in Addresses : Unlock(a)

Spec == Init /\ [][Next]_vars

-----------------------------------------------------------------------------
(* Properties *)

\* Some code of this purpose that was mailed to a was typed.
Typed(a, purpose) ==
    \E c \in Codes : code[c].of = a /\ code[c].purpose = purpose /\ code[c].status = "TYPED"

\* Only users have secrets, and an address becomes verified, or gets another password, only
\* by a code of that purpose that was mailed to it.
Proven ==
    \A a \in Addresses :
        /\ (local[a].secret > 0) <=> Identity(a)
        /\ local[a].verified => Typed(a, "VERIFY")
        /\ local[a].secret > 1 => Typed(a, "RESET")

\* Codes are mailed to users.
CodesFit == \A c \in Codes : code[c].status # "NONE" => code[c].of \in users \cap Addresses

\* No attempt of a careful address is lost while it is not locked.
Counted ==
    \A a \in Careful : /\ streak[a] <= local[a].failed
                       /\ streak[a] >= MaxAttempts => local[a].locked

\* What a request at label l has in memory, j, is of use there.
Fits(l, j) ==
    /\ l = "insert" => j.on \in Addresses
    /\ l \in {"verification", "void", "mail", "succeed", "fail"} => j.on \in users \cap Addresses
    /\ l \in {"email", "link", "signup"} => j.on \in Profiles
    /\ l \in {"consume", "apply"} =>
          /\ j.code \in Codes
          /\ code[j.code].status # "NONE" /\ code[j.code].purpose = j.purpose
    /\ l = "apply" => code[j.code].status = "TYPED"
    /\ l = "fail" /\ j.on \in Careful => streak[j.on] <= j.failed
    /\ l = "mail" /\ j.on \in Careful => Pending(j.on, j.purpose) = {}

JobsFit == \A r \in Requests : Fits(pc[r], job[r])

\* A careful address has one request in progress.
Alone ==
    \A q, r \in Requests : q # r /\ job[q].on \in Careful => job[q].on # job[r].on

\* The inductive invariant of the accounts.
AInv == TypeOK /\ Proven /\ CodesFit /\ Counted /\ JobsFit /\ Alone

\* An address has one account, however registration, provider logins and linking race:
\* everyone whom a provider vouches for logs in to the account of the address.
OneAccountPerAddress ==
    /\ \A u, v \in users : Email(u) = Email(v) => u = v
    /\ \A p \in Vouched : linked[p] # Nothing => Email(linked[p]) = ProfileEmail[p]

\* AC-7, for an address used in one request at a time: after MaxAttempts wrong passwords
\* in a row the address is locked, whatever resets, verifications and expiries do.
LockHolds == \A a \in Careful : streak[a] >= MaxAttempts => local[a].locked

\* AC-10, likewise: one code of a purpose is valid at a time.
OneLiveCode ==
    \A a \in Careful : \A c, d \in Codes :
        /\ code[c].of = a /\ code[c].status = "SENT"
        /\ code[d].of = a /\ code[d].status = "SENT"
        /\ code[c].purpose = code[d].purpose
        => c = d

=============================================================================
