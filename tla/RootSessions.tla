---------------------------- MODULE RootSessions ----------------------------
(***************************************************************************)
(* Sign-in and sessions of one root admin (RootAuthService): the password  *)
(* step, the one-time challenge it hands out, TOTP enrolment and TOTP or   *)
(* backup codes, lockout, and refresh tokens that are rotated at each use. *)
(*                                                                         *)
(* Requests run in the slots Reqs and interleave at their awaits: they     *)
(* read the account once (Load) and write it later.  Some writes test what *)
(* they overwrite ("updateMany ... where"), the others go by id.  A        *)
(* refresh token is a JWT of the same claims each time, so its string is   *)
(* told from others of the account only by the second it was signed in.    *)
(* One account is enough: every query names the admin, and none two.       *)
(***************************************************************************)
EXTENDS Integers, Sequences, FiniteSets

CONSTANTS Reqs,         \* concurrent requests
          Challenges,   \* jtis, a fresh one for each password step
          Secrets,      \* TOTP secrets that generateSecret may return
          BackupCodes,  \* those handed out at an enrolment
          MaxFailed,    \* MAX_FAILED_LOGIN_ATTEMPTS
          LockTime,     \* LOCKOUT_MINUTES
          StepLength,   \* of a TOTP time step
          None,         \* SQL NULL
          MaxTime,      \* bound: the clock, in seconds
          MaxAttempts,  \* bound: wrong answers before a request of one more
          MaxRows,      \* bound: refresh_tokens rows before a refresh
          MaxFaults     \* bound: crashes and failed database calls

ASSUME NumbersAssumption ==
    /\ MaxFailed \in Nat \ {0} /\ LockTime \in Nat /\ StepLength \in Nat \ {0}
    /\ MaxTime \in Nat /\ MaxAttempts \in Nat /\ MaxRows \in Nat /\ MaxFaults \in Nat
ASSUME NoneAssumption ==
    /\ None \notin Challenges \cup Secrets \cup BackupCodes \cup Nat
    /\ Challenges \cap Nat = {} /\ BackupCodes \cap Nat = {}

VARIABLES admin,       \* the root_admin_users row
          tokens,      \* the root_refresh_tokens rows, in order of creation
          challenges,  \* the challenge tokens handed out
          reqs,        \* what each slot is doing
          cookie,      \* history: the refresh token the browser was last given
          stray,       \* history: a token not in the cookie was presented, or
                       \* a refresh was in progress when another request came
          now, faults

vars == <<admin, tokens, challenges, reqs, cookie, stray, now, faults>>

Admin == [totpEnabled : BOOLEAN, secret : Secrets \cup {None},
          backup : SUBSET BackupCodes, failed : Nat, lockedUntil : Nat \cup {None},
          jti : Challenges \cup {None}, lastStep : Nat \cup {None}]

\* token is the second of signing; from and by are history: the challenge or
\* the row the session came from, and the TOTP step or backup code it used.
Tokens == [token : Nat, revoked : BOOLEAN, from : Challenges \cup Nat,
           by : Nat \cup BackupCodes \cup {None}]

Purposes == {"totp_setup", "totp_login"}

Steps == {"idle", "clear", "secret", "sign", "claim", "spend", "fail", "lock",
          "consume", "enable", "unlock", "issue", "rotate", "revokeAll"}

\* secret, backup, dirty: what was read of the account (dirty: there are
\* failed attempts or a lock to clear); by: the factor; id: the row to rotate.
Work == [pc : Steps, purpose : Purposes \cup {None}, challenge : Challenges \cup {None},
         secret : Secrets \cup {None}, backup : SUBSET BackupCodes, dirty : BOOLEAN,
         by : Nat \cup BackupCodes \cup {None}, id : Nat]

Idle == [pc |-> "idle", purpose |-> None, challenge |-> None, secret |-> None,
         backup |-> {}, dirty |-> FALSE, by |-> None, id |-> 0]

TypeOK == /\ admin \in Admin
          /\ tokens \in Seq(Tokens)
          /\ challenges \in [Challenges -> Purposes \cup {None}]
          /\ reqs \in [Reqs -> Work]
          /\ cookie \in Nat \cup {None}
          /\ stray \in BOOLEAN
          /\ now \in 0..MaxTime
          /\ faults \in 0..MaxFaults

\* As the seed script creates it.
Init == /\ admin = [totpEnabled |-> FALSE, secret |-> None, backup |-> {},
                    failed |-> 0, lockedUntil |-> None, jti |-> None,
                    lastStep |-> None]
        /\ tokens = <<>>
        /\ challenges = [c \in Challenges |-> None]
        /\ reqs = [h \in Reqs |-> Idle]
        /\ cookie = None
        /\ stray = FALSE
        /\ now = 0
        /\ faults = 0

-----------------------------------------------------------------------------

At(h, pc) == reqs[h].pc = pc

Go(h, work) == reqs' = [reqs EXCEPT ![h] = work]

Then(h, pc) == Go(h, [reqs[h] EXCEPT !.pc = pc])

Quit(h) == Go(h, Idle)

Sessions == <<tokens, cookie, stray>>
World == <<challenges, now, faults>>

IsLocked == admin.lockedUntil # None /\ admin.lockedUntil > now

\* What a request keeps of the account when it has read it.
Seen(pc, purpose) ==
    [Idle EXCEPT !.pc = pc, !.purpose = purpose, !.secret = admin.secret,
                 !.backup = admin.backup,
                 !.dirty = admin.failed > 0 \/ admin.lockedUntil # None]

-----------------------------------------------------------------------------
(* The password step.                                                      *)

AfterPassword(purpose) == IF purpose = "totp_setup" THEN "secret" ELSE "sign"

LoginLoad(h) ==
    LET purpose == IF admin.totpEnabled THEN "totp_login" ELSE "totp_setup"
        seen == Seen("clear", purpose)
    IN  /\ At(h, "idle") /\ ~IsLocked
        /\ Go(h, IF seen.dirty THEN seen
                 ELSE [seen EXCEPT !.pc = AfterPassword(purpose)])
        /\ UNCHANGED <<admin, Sessions, World>>

LoginWrong(h) ==
    /\ At(h, "idle") /\ ~IsLocked /\ admin.failed < MaxAttempts
    /\ Go(h, [Idle EXCEPT !.pc = "fail"])
    /\ UNCHANGED <<admin, Sessions, World>>

Cleared == [admin EXCEPT !.failed = 0, !.lockedUntil = None]

LoginClear(h) ==
    /\ At(h, "clear")
    /\ admin' = Cleared
    /\ Then(h, AfterPassword(reqs[h].purpose))
    /\ UNCHANGED <<Sessions, World>>

\* A secret that was pending when the account was read is shown again;
\* otherwise a new one is stored.
LoginSecret(h) ==
    /\ At(h, "secret")
    /\ IF reqs[h].secret # None
       THEN Then(h, "sign") /\ UNCHANGED admin
       ELSE \E s \in Secrets :
               /\ admin' = [admin EXCEPT !.secret = s]
               /\ Go(h, [reqs[h] EXCEPT !.pc = "sign", !.secret = s])
    /\ UNCHANGED <<Sessions, World>>

\* The newest challenge replaces the one before it.
LoginSign(h, c) ==
    /\ At(h, "sign") /\ challenges[c] = None
    /\ admin' = [admin EXCEPT !.jti = c]
    /\ challenges' = [challenges EXCEPT ![c] = reqs[h].purpose]
    /\ Quit(h)
    /\ UNCHANGED <<Sessions, now, faults>>

-----------------------------------------------------------------------------
(* The code step.                                                          *)

Ready(purpose) == /\ admin.secret # None
                  /\ purpose = "totp_login" => admin.totpEnabled

\* The request reads the account and matches its code: the present one of
\* the stored secret, a backup code (checked only after enrolment), or one
\* that matches nothing.
VerifyLoad(h, c) ==
    /\ At(h, "idle") /\ challenges[c] # None
    /\ admin.jti = c /\ ~IsLocked /\ Ready(challenges[c])
    /\ LET seen == [Seen("claim", challenges[c]) EXCEPT !.challenge = c]
       IN  \/ Go(h, [seen EXCEPT !.by = now \div StepLength])
           \/ /\ challenges[c] = "totp_login"
              /\ \E b \in admin.backup : Go(h, [seen EXCEPT !.pc = "spend", !.by = b])
           \/ /\ admin.failed < MaxAttempts
              /\ Go(h, [Idle EXCEPT !.pc = "fail"])
    /\ UNCHANGED <<admin, Sessions, World>>

\* Mutant: the step is compared when the account is read.
ClaimAny(h) ==
    /\ At(h, "claim")
    /\ admin' = [admin EXCEPT !.lastStep = reqs[h].by]
    /\ Then(h, "consume")
    /\ UNCHANGED <<Sessions, World>>

\* acceptTotpCode: the step must be newer than the last one used.
Claim(h) ==
    /\ At(h, "claim")
    /\ IF admin.lastStep = None \/ admin.lastStep < reqs[h].by
       THEN /\ admin' = [admin EXCEPT !.lastStep = reqs[h].by]
            /\ Then(h, "consume")
       ELSE Then(h, "fail") /\ UNCHANGED admin
    /\ UNCHANGED <<Sessions, World>>

\* The codes left over are those read at the start, whatever they are now.
SpendBackup(h) ==
    /\ At(h, "spend")
    /\ admin' = [admin EXCEPT !.backup = reqs[h].backup \ {reqs[h].by}]
    /\ Then(h, "consume")
    /\ UNCHANGED <<Sessions, World>>

\* consumeChallenge: of several requests with one challenge, one goes on.
Consume(h) ==
    LET w == reqs[h]
    IN  /\ At(h, "consume")
        /\ IF admin.jti = w.challenge
           THEN /\ admin' = [admin EXCEPT !.jti = None]
                /\ Then(h, IF w.purpose = "totp_setup" THEN "enable"
                           ELSE IF w.dirty THEN "unlock" ELSE "issue")
           ELSE Quit(h) /\ UNCHANGED admin
        /\ UNCHANGED <<Sessions, World>>

Enable(h) ==
    /\ At(h, "enable")
    /\ admin' = [Cleared EXCEPT !.totpEnabled = TRUE, !.backup = BackupCodes]
    /\ Then(h, "issue")
    /\ UNCHANGED <<Sessions, World>>

VerifyClear(h) ==
    /\ At(h, "unlock")
    /\ admin' = Cleared
    /\ Then(h, "issue")
    /\ UNCHANGED <<Sessions, World>>

\* Mutant: the account is locked one attempt late.
RegisterFailedLate(h) ==
    /\ At(h, "fail")
    /\ admin' = [admin EXCEPT !.failed = @ + 1]
    /\ IF admin.failed >= MaxFailed THEN Then(h, "lock") ELSE Quit(h)
    /\ UNCHANGED <<Sessions, World>>

\* registerFailedLogin: an atomic increment, then the lock.
RegisterFailed(h) ==
    /\ At(h, "fail")
    /\ admin' = [admin EXCEPT !.failed = @ + 1]
    /\ IF admin.failed + 1 >= MaxFailed THEN Then(h, "lock") ELSE Quit(h)
    /\ UNCHANGED <<Sessions, World>>

Lock(h) ==
    /\ At(h, "lock")
    /\ admin' = [admin EXCEPT !.lockedUntil = now + LockTime]
    /\ Quit(h)
    /\ UNCHANGED <<Sessions, World>>

-----------------------------------------------------------------------------
(* Sessions.                                                               *)

\* The challenge, or the row of a refresh, that a session is issued for.
Origin(w) == IF w.challenge = None THEN w.id ELSE w.challenge

IssueSession(h) ==
    /\ At(h, "issue")
    /\ tokens' = Append(tokens, [token |-> now, revoked |-> FALSE,
                                 from |-> Origin(reqs[h]), by |-> reqs[h].by])
    /\ cookie' = now
    /\ Quit(h)
    /\ UNCHANGED <<admin, stray, World>>

Refreshing(h) == At(h, "rotate") \/ (At(h, "issue") /\ reqs[h].challenge = None)

\* Any token ever given out may be presented; of the rows that have it
\* findFirst takes any.
RefreshLoad(h, id) ==
    /\ At(h, "idle") /\ Len(tokens) < MaxRows
    /\ stray' = (\/ stray \/ tokens[id].token # cookie
                 \/ \E g \in Reqs : Refreshing(g))
    /\ Go(h, [Idle EXCEPT !.pc = IF tokens[id].revoked THEN "revokeAll" ELSE "rotate",
                          !.id = id])
    /\ UNCHANGED <<admin, tokens, cookie, World>>

Revoke(ids) == tokens' = [k \in DOMAIN tokens |->
                             [tokens[k] EXCEPT !.revoked = @ \/ k \in ids]]

\* Mutant: the row is revoked by id, as AuthService.refresh does.
RotateAny(h) ==
    /\ At(h, "rotate")
    /\ Revoke({reqs[h].id}) /\ Then(h, "issue")
    /\ UNCHANGED <<admin, cookie, stray, World>>

Rotate(h) ==
    /\ At(h, "rotate")
    /\ IF tokens[reqs[h].id].revoked
       THEN Then(h, "revokeAll") /\ UNCHANGED tokens
       ELSE Revoke({reqs[h].id}) /\ Then(h, "issue")
    /\ UNCHANGED <<admin, cookie, stray, World>>

RevokeAll(h) ==
    /\ At(h, "revokeAll")
    /\ Revoke(DOMAIN tokens)
    /\ Quit(h)
    /\ UNCHANGED <<admin, cookie, stray, World>>

\* One conditional update; the browser drops its cookie.
Logout(id) ==
    /\ Revoke({k \in DOMAIN tokens : tokens[k].token = tokens[id].token})
    /\ stray' = (\/ stray \/ tokens[id].token # cookie
                 \/ \E h \in Reqs : Refreshing(h))
    /\ cookie' = None
    /\ UNCHANGED <<admin, reqs, World>>

-----------------------------------------------------------------------------
(* The operator's reset script, time and faults.                           *)

ResetTotp == /\ admin' = [Cleared EXCEPT !.totpEnabled = FALSE, !.secret = None,
                                         !.backup = {}]
             /\ UNCHANGED <<reqs, Sessions, World>>

Tick == /\ now < MaxTime /\ now' = now + 1
        /\ UNCHANGED <<admin, challenges, reqs, Sessions, faults>>

\* A database call throws: the request is answered 500.
Abort(h) == /\ ~At(h, "idle") /\ faults < MaxFaults
            /\ faults' = faults + 1
            /\ Quit(h)
            /\ UNCHANGED <<admin, challenges, Sessions, now>>

Crash == /\ faults < MaxFaults
         /\ faults' = faults + 1
         /\ reqs' = [h \in Reqs |-> Idle]
         /\ UNCHANGED <<admin, challenges, Sessions, now>>

Password(h) == \/ LoginLoad(h) \/ LoginWrong(h) \/ LoginClear(h) \/ LoginSecret(h)
               \/ \E c \in Challenges : LoginSign(h, c)

Code(h) == \/ \E c \in Challenges : VerifyLoad(h, c)
           \/ Claim(h) \/ SpendBackup(h) \/ Consume(h) \/ Enable(h)
           \/ VerifyClear(h) \/ RegisterFailed(h) \/ Lock(h)

Session(h) == \/ IssueSession(h) \/ Rotate(h) \/ RevokeAll(h)
              \/ \E id \in DOMAIN tokens : RefreshLoad(h, id)

Next == \/ \E h \in Reqs : Password(h) \/ Code(h) \/ Session(h) \/ Abort(h)
        \/ \E id \in DOMAIN tokens : Logout(id)
        \/ ResetTotp \/ Tick \/ Crash

Spec == Init /\ [][Next]_vars

-----------------------------------------------------------------------------
(* What holds.                                                             *)

\* A challenge opens one session and a refresh token is exchanged for one,
\* however many requests present it at once.
OriginsAreUnique ==
    \A i, j \in DOMAIN tokens : tokens[i].from = tokens[j].from => i = j

\* A TOTP code opens at most one session: replays fall in the same time step,
\* on whatever challenges and through a reset of the enrolment.
StepsAreUnique ==
    \A i, j \in DOMAIN tokens :
       tokens[i].by \in Nat /\ tokens[i].by = tokens[j].by => i = j

\* Wrong answers that reach the limit lock the account, in parallel too: only
\* a request that stops before its second write leaves it open.
LimitLocks ==
    admin.failed >= MaxFailed =>
       \/ admin.lockedUntil # None
       \/ \E h \in Reqs : At(h, "lock")
       \/ faults > 0

\* The rows as sessions: a challenge stands for a sign-in.
SessionOf(row) == [from |-> IF row.from \in Challenges THEN 0 ELSE row.from,
                   live |-> ~row.revoked]
SessionsOf == [i \in DOMAIN tokens |-> SessionOf(tokens[i])]

Ledger == INSTANCE SessionLedger WITH Copies <- 1, sessions <- SessionsOf

\* The root sessions keep what SessionLedger promises: no replay, race, logout or
\* failed request makes an ended session live again, or two of one.
LedgerPromise == Ledger!Spec

-----------------------------------------------------------------------------
(* The inductive invariant of the proofs.                                  *)

\* What a slot holds: a challenge that was handed out, or a row to rotate.
SlotSound(w) ==
    /\ w.pc \in {"claim", "spend", "consume", "enable", "unlock"} => w.challenge # None
    /\ w.challenge # None => challenges[w.challenge] # None
    /\ w.pc = "claim" => w.by \in Nat
    /\ w.pc = "spend" => w.by \in BackupCodes
    /\ w.pc = "rotate" => w.challenge = None /\ w.id \in DOMAIN tokens
    /\ w.challenge = None => w.by = None

SlotsSound == \A h \in Reqs : SlotSound(reqs[h])

\* A slot is entitled once it has used up what its session is issued for.
Entitled(w) == w.pc \in {"enable", "unlock", "issue"}

Used(o) == \/ /\ o \in Challenges
              /\ challenges[o] # None /\ admin.jti # o
           \/ o \in DOMAIN tokens /\ tokens[o].revoked

OriginsSound ==
    /\ \A i \in DOMAIN tokens : Used(tokens[i].from)
    /\ \A h \in Reqs : Entitled(reqs[h]) =>
          /\ Used(Origin(reqs[h]))
          /\ \A i \in DOMAIN tokens : tokens[i].from # Origin(reqs[h])
          /\ \A g \in Reqs :
                Entitled(reqs[g]) /\ Origin(reqs[g]) = Origin(reqs[h]) => g = h
    /\ OriginsAreUnique

\* A slot that has claimed a TOTP step, or will be issued a session for it.
Claimed(w) == /\ w.pc \in {"consume", "enable", "unlock", "issue"}
              /\ w.by \in Nat

Spent(step) == admin.lastStep # None /\ step <= admin.lastStep

StepsSound ==
    /\ \A i \in DOMAIN tokens : tokens[i].by \in Nat => Spent(tokens[i].by)
    /\ \A h \in Reqs : Claimed(reqs[h]) =>
          /\ Spent(reqs[h].by)
          /\ \A i \in DOMAIN tokens : tokens[i].by # reqs[h].by
          /\ \A g \in Reqs : Claimed(reqs[g]) /\ reqs[g].by = reqs[h].by => g = h
    /\ StepsAreUnique

IInv == TypeOK /\ SlotsSound /\ OriginsSound /\ StepsSound /\ LimitLocks

(* What a comment says and the code does not keep.                        *)

\* "A rotated-out token came back: it was stolen or replayed"
\* (root-auth.service.ts:280), so the alarm is not raised while the browser
\* presents only the token it was last given, one refresh at a time.
ReuseIsReal == ~stray => \A h \in Reqs : ~At(h, "revokeAll")
=============================================================================
