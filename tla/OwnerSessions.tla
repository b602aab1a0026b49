--------------------------- MODULE OwnerSessions ---------------------------
(***************************************************************************)
(* Sign-in and sessions of one owner (AuthService), together with the      *)
(* browser that keeps them: signup, password login with its lockout, the   *)
(* mailed verification and reset links, rotated refresh tokens, logout,    *)
(* and the tabs of one browser (AuthContext, api/client), which share the  *)
(* refresh cookie and hold an access token each.                           *)
(*                                                                         *)
(* Requests run in the slots Reqs and interleave at their awaits.  Sending *)
(* a request and its first read are one step; its answer is another, and   *)
(* an answer may be lost.  Requests of no tab come from other devices.  A  *)
(* refresh token is a JWT of the same claims each time, so its string is   *)
(* told from the account's others only by the second it was signed in.     *)
(***************************************************************************)
EXTENDS Integers, Sequences, FiniteSets, Combinatorics

CONSTANTS Reqs,         \* concurrent requests
          Tabs,         \* of the browser
          Links,        \* raw tokens of the password reset links
          MaxFailed,    \* MAX_FAILED_LOGIN_ATTEMPTS
          LockTime,     \* LOCKOUT_MINUTES
          LinkTime,     \* PASSWORD_RESET_TTL_MINUTES
          RefreshTime,  \* JWT_REFRESH_EXPIRES_IN
          None,         \* SQL NULL, no cookie, no tab
          MaxTime,      \* bound: the clock, in seconds
          MaxAttempts,  \* bound: wrong answers before a request of one more
          MaxRows,      \* bound: refresh_tokens rows before a request for one
          MaxFaults     \* bound: crashes, failed calls and lost answers

ASSUME NumbersAssumption ==
    /\ MaxFailed \in Nat \ {0} /\ LockTime \in Nat /\ LinkTime \in Nat
    /\ RefreshTime \in Nat /\ MaxTime \in Nat /\ MaxAttempts \in Nat
    /\ MaxRows \in Nat /\ MaxFaults \in Nat
ASSUME SlotsAssumption == IsFiniteSet(Reqs)

VARIABLES user,       \* the users row, None before the signup
          tokens,     \* the refresh_tokens rows, in order of creation
          links,      \* the password_reset_tokens rows, by their raw token
          reqs,       \* what each slot is doing
          cookie,     \* the browser's refresh cookie
          tabs,       \* what each tab holds in memory
          guesses,    \* history: wrong answers since the last lock or clear
          disturbed,  \* history: requests of the browser overlapped, other than
                      \* two refreshes of a tab, or one was cut short or revoked
          now, faults

vars == <<user, tokens, links, reqs, cookie, tabs, guesses, disturbed, now, faults>>

\* epoch counts the password changes: it stands for the password hash;
\* email, where its verification is.
User == [failed : Nat, lockedUntil : Nat \cup {None}, epoch : Nat,
         email : {"unsent", "sent", "verified"}]

\* token is the second of signing, from which the expiry counts; from and epoch are
\* history: the row that was rotated (0: none), and the password of the time its
\* request was let in.
Tokens == [token : Nat, revoked : BOOLEAN, from : Nat, epoch : Nat]

ResetLinks == [used : BOOLEAN, expires : Nat]

ASSUME NoneAssumption == None \notin Tabs \cup Links \cup Nat \cup User \cup ResetLinks

\* user is whether the tab shows an owner, access whether its access token is
\* accepted.
TabStates == [user : BOOLEAN, access : BOOLEAN, loading : BOOLEAN]

Kinds == {"signup", "login", "refresh", "boot", "logout", "reset"}

Steps == {"idle", "create", "mail", "fail", "clear", "rotate", "issue", "reset",
          "granted", "denied", "left"}

Work == [pc : Steps, kind : Kinds \cup {None}, tab : Tabs \cup {None},
         failed : Nat, id : Nat, link : Links \cup {None}, epoch : Nat, token : Nat]

Idle == [pc |-> "idle", kind |-> None, tab |-> None, failed |-> 0, id |-> 0,
         link |-> None, epoch |-> 0, token |-> 0]

TypeOK == /\ user \in User \cup {None}
          /\ tokens \in Seq(Tokens)
          /\ links \in [Links -> ResetLinks \cup {None}]
          /\ reqs \in [Reqs -> Work]
          /\ cookie \in Nat \cup {None}
          /\ tabs \in [Tabs -> TabStates]
          /\ guesses \in Nat
          /\ disturbed \in BOOLEAN
          /\ now \in 0..MaxTime
          /\ faults \in 0..MaxFaults

\* AuthProvider's state as a page loads.
Loading == [user |-> FALSE, access |-> FALSE, loading |-> TRUE]

Init == /\ user = None
        /\ tokens = <<>>
        /\ links = [l \in Links |-> None]
        /\ reqs = [h \in Reqs |-> Idle]
        /\ cookie = None
        /\ tabs = [t \in Tabs |-> Loading]
        /\ guesses = 0
        /\ disturbed = FALSE
        /\ now = 0
        /\ faults = 0

-----------------------------------------------------------------------------

At(h, pc) == reqs[h].pc = pc

Go(h, work) == reqs' = [reqs EXCEPT ![h] = work]

Then(h, pc) == Go(h, [reqs[h] EXCEPT !.pc = pc])

Quit(h) == Go(h, Idle)

\* A tab waits for an answer, anyone else does not.
Answer(h, pc) == IF reqs[h].tab = None THEN Quit(h) ELSE Then(h, pc)

Account == <<user, guesses>>
Browser == <<cookie, tabs, disturbed>>
World == <<now, faults>>

BusyWith(t, kinds) == \E h \in Reqs : reqs[h].tab = t /\ reqs[h].kind \in kinds

\* A request leaves tab t while another one of the browser is in progress.
Overlaps(t, kind) ==
    \E h \in Reqs : /\ reqs[h].tab # None
                    /\ ~(/\ reqs[h].tab = t
                         /\ kind \in {"refresh", "boot"}
                         /\ reqs[h].kind \in {"refresh", "boot"})

Send(h, t, kind, work) ==
    /\ At(h, "idle")
    /\ Go(h, [work EXCEPT !.tab = t, !.kind = kind])
    /\ disturbed' = (disturbed \/ (t # None /\ Overlaps(t, kind)))

\* t is a tab whose form is not being submitted, or another device.
FormOf(t) == t = None \/ ~BusyWith(t, {"login", "signup"})

IsLocked == user.lockedUntil # None /\ user.lockedUntil > now

-----------------------------------------------------------------------------
(* Signup: a check, then account and restaurant in one transaction (the    *)
(* email is unique), the verification link, and the first session.         *)

SignupCheck(h, t) ==
    /\ user = None /\ FormOf(t) /\ Len(tokens) < MaxRows
    /\ Send(h, t, "signup", [Idle EXCEPT !.pc = "create"])
    /\ UNCHANGED <<Account, tokens, links, cookie, tabs, World>>

NewUser == [failed |-> 0, lockedUntil |-> None, epoch |-> 0, email |-> "unsent"]

SignupCreate(h) ==
    /\ At(h, "create")
    /\ IF user = None
       THEN /\ user' = NewUser
            /\ Then(h, "mail")
       ELSE UNCHANGED user /\ Answer(h, "denied")
    /\ UNCHANGED <<guesses, tokens, links, Browser, World>>

SignupMail(h) ==
    /\ At(h, "mail")
    /\ user' = [user EXCEPT !.email = "sent"]
    /\ Then(h, "issue")
    /\ UNCHANGED <<guesses, tokens, links, Browser, World>>

-----------------------------------------------------------------------------
(* Login.  A request keeps the count of failures it read and writes it     *)
(* back plus one; the password is checked against the hash it read.        *)

LoginWrong(h) ==
    /\ At(h, "idle") /\ user # None /\ ~IsLocked /\ user.failed < MaxAttempts
    /\ Go(h, [Idle EXCEPT !.pc = "fail", !.kind = "login", !.failed = user.failed])
    /\ UNCHANGED <<Account, tokens, links, Browser, World>>

\* Mutant: the lock is set once the count has passed the limit.
LocksLate(attempts) == attempts > MaxFailed

Locks(attempts) == attempts >= MaxFailed

LoginFail(h) ==
    LET attempts == reqs[h].failed + 1
    IN  /\ At(h, "fail")
        /\ IF Locks(attempts)
           THEN /\ user' = [user EXCEPT !.failed = attempts,
                                        !.lockedUntil = now + LockTime]
                /\ guesses' = 0
           ELSE /\ user' = [user EXCEPT !.failed = attempts]
                /\ guesses' = guesses + 1
        /\ Quit(h)
        /\ UNCHANGED <<tokens, links, Browser, World>>

LoginRight(h, t) ==
    /\ user # None /\ ~IsLocked /\ FormOf(t) /\ Len(tokens) < MaxRows
    /\ LET dirty == user.failed > 0 \/ user.lockedUntil # None
       IN  Send(h, t, "login", [Idle EXCEPT !.pc = IF dirty THEN "clear" ELSE "issue",
                                            !.epoch = user.epoch])
    /\ UNCHANGED <<Account, tokens, links, cookie, tabs, World>>

Cleared == [user EXCEPT !.failed = 0, !.lockedUntil = None]

LoginClear(h) ==
    /\ At(h, "clear")
    /\ user' = Cleared
    /\ guesses' = 0
    /\ Then(h, "issue")
    /\ UNCHANGED <<tokens, links, Browser, World>>

-----------------------------------------------------------------------------
(* Refresh: the first unrevoked row of the presented string is revoked by  *)
(* its id, then the next token is issued.                                  *)

Matches(token) == {i \in DOMAIN tokens : tokens[i].token = token /\ ~tokens[i].revoked}

FirstOf(S) == CHOOSE i \in S : \A j \in S : i =< j

Presented ==
    IF cookie = None \/ Matches(cookie) = {} \/ cookie + RefreshTime < now
    THEN [Idle EXCEPT !.pc = "denied"]
    ELSE [Idle EXCEPT !.pc = "rotate", !.id = FirstOf(Matches(cookie)), !.epoch = user.epoch]

\* On loading a page (AuthContext).
Boot(h, t) ==
    /\ tabs[t].loading /\ ~BusyWith(t, {"boot"}) /\ Len(tokens) < MaxRows
    /\ Send(h, t, "boot", Presented)
    /\ UNCHANGED <<Account, tokens, links, cookie, tabs, World>>

\* Mutant: concurrent 401s each send a refresh of their own.
NoSingleFlight(t) == TRUE

\* refreshInFlight: concurrent 401s await one attempt.
SingleFlight(t) == ~BusyWith(t, {"refresh"})

\* A protected page's call was answered 401.
Refresh(h, t) ==
    /\ ~tabs[t].loading /\ tabs[t].user /\ ~tabs[t].access
    /\ SingleFlight(t) /\ Len(tokens) < MaxRows
    /\ Send(h, t, "refresh", Presented)
    /\ UNCHANGED <<Account, tokens, links, cookie, tabs, World>>

\* Mutant: the presented token is left valid.
NotRotated(h) == /\ At(h, "rotate")
                 /\ Then(h, "issue")
                 /\ UNCHANGED <<Account, tokens, links, Browser, World>>

Rotate(h) == /\ At(h, "rotate")
             /\ tokens' = [tokens EXCEPT ![reqs[h].id].revoked = TRUE]
             /\ Then(h, "issue")
             /\ UNCHANGED <<Account, links, Browser, World>>

\* Signs and stores a refresh token (issueTokenPair).
Issue(h) ==
    /\ At(h, "issue")
    /\ tokens' = Append(tokens, [token |-> now, revoked |-> FALSE,
                                 from |-> reqs[h].id, epoch |-> reqs[h].epoch])
    /\ IF reqs[h].tab = None
       THEN Quit(h)
       ELSE Go(h, [reqs[h] EXCEPT !.pc = "granted", !.token = now])
    /\ UNCHANGED <<Account, links, Browser, World>>

\* Logout revokes every row of the presented string, if one was presented.
Logout(h, t) ==
    /\ tabs[t].user /\ ~BusyWith(t, {"logout"})
    /\ tokens' = [i \in DOMAIN tokens |->
                    IF cookie # None /\ i \in Matches(cookie)
                    THEN [tokens[i] EXCEPT !.revoked = TRUE] ELSE tokens[i]]
    /\ Send(h, t, "logout", [Idle EXCEPT !.pc = "left"])
    /\ UNCHANGED <<Account, links, cookie, tabs, World>>

-----------------------------------------------------------------------------
(* The mailed links.                                                       *)

\* Whether two requests overlap or not, the second changes nothing.  A link
\* that has expired is refused.
VerifyEmail ==
    /\ user # None /\ user.email = "sent"
    /\ user' = [user EXCEPT !.email = "verified"]
    /\ UNCHANGED <<guesses, tokens, links, reqs, Browser, World>>

RequestPasswordReset(l) ==
    /\ user # None /\ links[l] = None
    /\ links' = [links EXCEPT ![l] = [used |-> FALSE, expires |-> now + LinkTime]]
    /\ UNCHANGED <<Account, tokens, reqs, Browser, World>>

ResetLoad(h, l) ==
    /\ At(h, "idle")
    /\ links[l] # None /\ ~links[l].used /\ links[l].expires >= now
    /\ Go(h, [Idle EXCEPT !.pc = "reset", !.kind = "reset", !.link = l])
    /\ UNCHANGED <<Account, tokens, links, Browser, World>>

\* Mutant: only the row the browser holds is revoked.
RevokedOwn == [i \in DOMAIN tokens |->
                 IF tokens[i].token = cookie THEN [tokens[i] EXCEPT !.revoked = TRUE]
                                             ELSE tokens[i]]

RevokedAll == [i \in DOMAIN tokens |-> [tokens[i] EXCEPT !.revoked = TRUE]]

ResetPassword(h) ==
    /\ At(h, "reset")
    /\ links' = [links EXCEPT ![reqs[h].link].used = TRUE]
    /\ user' = [Cleared EXCEPT !.epoch = @ + 1]
    /\ tokens' = RevokedAll
    /\ guesses' = 0
    /\ disturbed' = TRUE
    /\ Quit(h)
    /\ UNCHANGED <<cookie, tabs, World>>

-----------------------------------------------------------------------------
(* The browser.                                                            *)

Granted(h) ==
    LET t == reqs[h].tab
    IN  /\ At(h, "granted")
        /\ cookie' = reqs[h].token
        /\ tabs' = [tabs EXCEPT ![t] =
             CASE reqs[h].kind = "boot"    -> [@ EXCEPT !.user = TRUE, !.loading = FALSE]
               [] reqs[h].kind = "refresh" -> [@ EXCEPT !.access = TRUE]
               [] OTHER                    -> [@ EXCEPT !.user = TRUE, !.access = TRUE]]
        /\ Quit(h)
        /\ UNCHANGED <<Account, tokens, links, disturbed, World>>

\* What a tab does when its request fails.
AfterFailure(kind, tab) ==
    CASE kind = "boot"    -> [tab EXCEPT !.access = FALSE, !.loading = FALSE]
      [] kind = "refresh" -> [tab EXCEPT !.user = FALSE, !.access = FALSE]
      [] kind = "logout"  -> [tab EXCEPT !.user = FALSE, !.access = FALSE]
      [] OTHER            -> tab

Denied(h) ==
    /\ At(h, "denied")
    /\ tabs' = [tabs EXCEPT ![reqs[h].tab] = AfterFailure(reqs[h].kind, @)]
    /\ Quit(h)
    /\ UNCHANGED <<Account, tokens, links, cookie, disturbed, World>>

Left(h) ==
    /\ At(h, "left")
    /\ cookie' = None
    /\ tabs' = [tabs EXCEPT ![reqs[h].tab] = AfterFailure("logout", @)]
    /\ Quit(h)
    /\ UNCHANGED <<Account, tokens, links, disturbed, World>>

AccessExpires(t) ==
    /\ tabs[t].access
    /\ tabs' = [tabs EXCEPT ![t].access = FALSE]
    /\ UNCHANGED <<Account, tokens, links, reqs, cookie, disturbed, World>>

\* The answers to what the tab had sent are lost.
Reload(t) ==
    /\ ~tabs[t].loading
    /\ tabs' = [tabs EXCEPT ![t] = Loading]
    /\ reqs' = [h \in Reqs |-> IF reqs[h].tab # t THEN reqs[h]
                               ELSE IF reqs[h].pc \in {"granted", "denied", "left"} THEN Idle
                               ELSE [reqs[h] EXCEPT !.tab = None]]
    /\ disturbed' = (disturbed \/ \E h \in Reqs : reqs[h].tab = t)
    /\ UNCHANGED <<Account, tokens, links, cookie, World>>

-----------------------------------------------------------------------------

\* A crash, a database call that fails, or an answer that is lost.
Fail(h) ==
    /\ ~At(h, "idle") /\ faults < MaxFaults
    /\ faults' = faults + 1
    /\ tabs' = IF reqs[h].tab = None THEN tabs
               ELSE [tabs EXCEPT ![reqs[h].tab] = AfterFailure(reqs[h].kind, @)]
    /\ disturbed' = (disturbed \/ reqs[h].tab # None)
    /\ Quit(h)
    /\ UNCHANGED <<Account, tokens, links, cookie, now>>

Tick == /\ now < MaxTime
        /\ now' = now + 1
        /\ UNCHANGED <<Account, tokens, links, reqs, Browser, faults>>

Next == \/ \E h \in Reqs :
             \/ \E t \in Tabs \cup {None} : SignupCheck(h, t) \/ LoginRight(h, t)
             \/ SignupCreate(h) \/ SignupMail(h)
             \/ LoginWrong(h) \/ LoginFail(h) \/ LoginClear(h)
             \/ \E t \in Tabs : Boot(h, t) \/ Refresh(h, t) \/ Logout(h, t)
             \/ Rotate(h) \/ Issue(h)
             \/ \E l \in Links : ResetLoad(h, l)
             \/ ResetPassword(h)
             \/ Granted(h) \/ Denied(h) \/ Left(h) \/ Fail(h)
        \/ VerifyEmail \/ \E l \in Links : RequestPasswordReset(l)
        \/ \E t \in Tabs : AccessExpires(t) \/ Reload(t)
        \/ Tick

Spec == Init /\ [][Next]_vars

-----------------------------------------------------------------------------

\* "Rotation: ... revoke it immediately so it can never be replayed, even if
\* this exact request fails later": a token that was exchanged for another is
\* revoked, whatever else ran or failed meanwhile.
RevokedFirst == \A i \in DOMAIN tokens :
                   LET from == tokens[i].from
                   IN  from # 0 => from < i /\ tokens[from].revoked

\* A reset ends the existing sessions, but for those of requests that were let
\* in before it and stored their token after it: at most one for each other
\* request in progress, and no more with each further reset.
SurvivorsAreBounded ==
    user # None =>
       Cardinality({i \in DOMAIN tokens : /\ ~tokens[i].revoked
                                          /\ tokens[i].epoch < user.epoch})
          =< Cardinality(Reqs) - 1

\* Requests that overwrite each other's count of failures delay the lock, but
\* only so far: with r of them at a time, C(MaxFailed + r - 1, r) wrong
\* passwords, the last of which sets it.
GuessesAreBounded == guesses < choose(MaxFailed + Cardinality(Reqs) - 1, Cardinality(Reqs))

\* The single flight is what keeps a tab signed in: as long as no other tab, no
\* login or logout and no failure comes between, a browser that holds a token
\* still valid is never answered that it is not.
NobodyIsTurnedOut ==
    ~disturbed => \A h \in Reqs :
                     At(h, "denied") /\ reqs[h].kind \in {"boot", "refresh"}
                        => cookie = None \/ cookie + RefreshTime < now

\* The code's comment says "the presented token is single-use": no two
\* sessions come from one.
SingleUse == \A i, j \in DOMAIN tokens :
                tokens[i].from = tokens[j].from /\ tokens[i].from # 0 => i = j

\* The rows as sessions.  A row is revoked by its id whoever revoked it before,
\* so that each request that had found it valid may exchange it.
SessionOf(row) == [from |-> row.from, live |-> ~row.revoked]
SessionsOf == [i \in DOMAIN tokens |-> SessionOf(tokens[i])]

Ledger == INSTANCE SessionLedger WITH Copies <- Cardinality(Reqs), sessions <- SessionsOf

\* The owner's sessions keep what SessionLedger promises: no race, logout, reset or
\* failed request makes an ended session live again, or more of one than there
\* are requests at a time.
LedgerPromise == Ledger!Spec

-----------------------------------------------------------------------------
(* The inductive invariant.                                                *)

\* Without an account there is nothing that belongs to one.
NothingBeforeSignup ==
    user = None => /\ tokens = <<>>
                   /\ \A l \in Links : links[l] = None
                   /\ \A h \in Reqs : reqs[h].pc \in {"idle", "create", "denied", "left"}

\* An answer has a tab to go to, a reset its link, and a refresh the row it
\* rotates, revoked before the next token is issued.
RequestsSound ==
    \A h \in Reqs :
       /\ reqs[h].pc \in {"granted", "denied", "left"} => reqs[h].tab # None
       /\ At(h, "reset") => reqs[h].link # None /\ links[reqs[h].link] # None
       /\ reqs[h].id = 0 \/ reqs[h].id \in DOMAIN tokens
       /\ At(h, "rotate") => reqs[h].id # 0
       /\ reqs[h].pc \in {"create", "mail", "clear"} => reqs[h].id = 0
       /\ At(h, "create") => reqs[h].kind = "signup"
       /\ At(h, "issue") /\ reqs[h].id # 0 => tokens[reqs[h].id].revoked

\* The sessions a reset should have ended, and the requests that will store one.
Survivors == {i \in DOMAIN tokens : ~tokens[i].revoked /\ tokens[i].epoch < user.epoch}

LetInBefore == {h \in Reqs : /\ reqs[h].pc \in {"mail", "clear", "rotate", "issue"}
                             /\ reqs[h].epoch < user.epoch}

ResetsSound ==
    user # None => Cardinality(Survivors) + Cardinality(LetInBefore) =< Cardinality(Reqs) - 1

\* A row's successors and the requests that may still add one: none of these finds
\* it once it is revoked.
Successors(i) == {j \in DOMAIN tokens : tokens[j].from = i}

Exchanging(i) == {h \in Reqs : reqs[h].pc \in {"rotate", "issue"} /\ reqs[h].id = i}

ExchangesSound ==
    \A i \in DOMAIN tokens :
       Cardinality(Successors(i)) + Cardinality(Exchanging(i)) =< Cardinality(Reqs)

\* While nothing disturbs the browser it makes one request at a time, and its
\* cookie is a row's that can still be presented, or is being replaced.
OneAtATime ==
    /\ \A g, h \in Reqs : reqs[g].tab # None /\ reqs[h].tab # None => g = h
    /\ \A h \in Reqs : reqs[h].tab # None =>
          /\ reqs[h].kind = "boot" => tabs[reqs[h].tab].loading
          /\ reqs[h].kind = "refresh" => ~tabs[reqs[h].tab].loading
    /\ \A h \in Reqs : At(h, "rotate") => reqs[h].tab # None

Replacing == \E h \in Reqs : reqs[h].tab # None /\ reqs[h].pc \in {"issue", "granted", "left"}

CookieIsGood == /\ \A h \in Reqs : At(h, "granted") => Matches(reqs[h].token) # {}
                /\ \/ cookie = None \/ cookie + RefreshTime < now
                   \/ Matches(cookie) # {} \/ Replacing

IInv == /\ TypeOK /\ NothingBeforeSignup /\ RequestsSound /\ RevokedFirst /\ ResetsSound
        /\ ~disturbed => OneAtATime /\ CookieIsGood
        /\ NobodyIsTurnedOut
=============================================================================
