------------------------- MODULE RootSessions_proofs -------------------------
(***************************************************************************)
(* Proofs about RootSessions, for every choice of its constants.           *)
(*                                                                         *)
(* A session is issued for something that is used up first: a challenge,   *)
(* a refresh token's row, a TOTP step.  Most steps neither use anything up *)
(* nor entitle a slot to a session; OriginsFrame and StepsFrame say that   *)
(* those keep the invariant.  Consume, Rotate, Claim and IssueSession are  *)
(* left, and are proved one by one.                                        *)
(***************************************************************************)
EXTENDS RootSessions, FiniteSetTheorems, SequenceTheorems, TLAPS

-----------------------------------------------------------------------------
(* Types.                                                                  *)

\* The parts of the account's row.
LEMMA AdminIsTyped ==
    ASSUME TypeOK
    PROVE /\ admin.totpEnabled \in BOOLEAN /\ admin.secret \in Secrets \cup {None}
          /\ admin.backup \in SUBSET BackupCodes /\ admin.failed \in Nat
          /\ admin.lockedUntil \in Nat \cup {None}
          /\ admin.jti \in Challenges \cup {None}
          /\ admin.lastStep \in Nat \cup {None}
          /\ now \in Nat
  BY NumbersAssumption DEF TypeOK, Admin

\* The parts of what a slot holds.
LEMMA WorkIsTyped ==
    ASSUME TypeOK, NEW h \in Reqs
    PROVE /\ reqs[h] \in Work
          /\ reqs[h].purpose \in Purposes \cup {None}
          /\ reqs[h].challenge \in Challenges \cup {None}
          /\ reqs[h].secret \in Secrets \cup {None}
          /\ reqs[h].backup \in SUBSET BackupCodes
          /\ reqs[h].dirty \in BOOLEAN
          /\ reqs[h].by \in Nat \cup BackupCodes \cup {None}
          /\ reqs[h].id \in Nat
          /\ Origin(reqs[h]) \in Challenges \cup Nat
  <1>1. reqs[h] \in Work
    BY DEF TypeOK
  <1>2. QED
    BY <1>1 DEF Work, Origin

\* An empty slot has the type of a slot.
LEMMA IdleIsWork == Idle \in Work
  BY DEF Idle, Work, Steps

\* The sequence of tokens and its elements.
LEMMA TokensAreTyped ==
    ASSUME TypeOK
    PROVE /\ Len(tokens) \in Nat /\ DOMAIN tokens = 1..Len(tokens)
          /\ DOMAIN tokens \subseteq Nat
          /\ \A i \in DOMAIN tokens :
                /\ tokens[i] \in Tokens
                /\ tokens[i].token \in Nat /\ tokens[i].revoked \in BOOLEAN
                /\ tokens[i].from \in Challenges \cup Nat
                /\ tokens[i].by \in Nat \cup BackupCodes \cup {None}
  <1>1. /\ Len(tokens) \in Nat /\ DOMAIN tokens = 1..Len(tokens)
        /\ \A i \in DOMAIN tokens : tokens[i] \in Tokens
    BY ElementOfSeq, LenProperties DEF TypeOK
  <1>2. QED
    BY <1>1 DEF Tokens

\* A step of one slot.
LEMMA GoMoves ==
    ASSUME TypeOK, NEW h \in Reqs, NEW w, Go(h, w)
    PROVE /\ reqs'[h] = w
          /\ \A g \in Reqs \ {h} : reqs'[g] = reqs[g]
          /\ w \in Work => reqs' \in [Reqs -> Work]
  BY DEF TypeOK, Go

\* The same where only the step of the code moves on.
LEMMA ThenMoves ==
    ASSUME TypeOK, NEW h \in Reqs, NEW pc \in Steps, Then(h, pc)
    PROVE /\ reqs'[h].pc = pc
          /\ reqs'[h].challenge = reqs[h].challenge
          /\ reqs'[h].by = reqs[h].by /\ reqs'[h].id = reqs[h].id
          /\ \A g \in Reqs \ {h} : reqs'[g] = reqs[g]
          /\ reqs' \in [Reqs -> Work]
  <1>1. reqs[h] \in Work
    BY DEF TypeOK
  <1>2. [reqs[h] EXCEPT !.pc = pc] \in Work
    BY <1>1 DEF Work
  <1>3. QED
    BY <1>1, <1>2, GoMoves DEF Then, Work

\* The same where the request ends.
LEMMA QuitMoves ==
    ASSUME TypeOK, NEW h \in Reqs, Quit(h)
    PROVE /\ reqs'[h] = Idle
          /\ \A g \in Reqs \ {h} : reqs'[g] = reqs[g]
          /\ reqs' \in [Reqs -> Work]
  BY GoMoves, IdleIsWork DEF Quit

\* Revoking rows changes whether they are revoked and nothing else.
LEMMA RevokeChanges ==
    ASSUME TypeOK, NEW ids, Revoke(ids)
    PROVE /\ tokens' \in Seq(Tokens) /\ DOMAIN tokens' = DOMAIN tokens
          /\ \A i \in DOMAIN tokens :
                /\ tokens'[i].from = tokens[i].from /\ tokens'[i].by = tokens[i].by
                /\ tokens'[i].revoked = (tokens[i].revoked \/ i \in ids)
  <1> DEFINE new(k) == [tokens[k] EXCEPT !.revoked = @ \/ k \in ids]
  <1>1. \A k \in DOMAIN tokens :
           /\ new(k) \in Tokens
           /\ new(k).from = tokens[k].from /\ new(k).by = tokens[k].by
           /\ new(k).revoked = (tokens[k].revoked \/ k \in ids)
    BY TokensAreTyped DEF Tokens
  <1>2. tokens' = [k \in 1..Len(tokens) |-> new(k)] /\ DOMAIN tokens = 1..Len(tokens)
    BY TokensAreTyped DEF Revoke
  <1>3. tokens' \in [1..Len(tokens) -> Tokens] /\ Len(tokens) \in Nat
    BY <1>1, <1>2, TokensAreTyped
  <1>4. tokens' \in Seq(Tokens)
    BY <1>3, SeqDef
  <1>5. QED
    BY <1>1, <1>2, <1>4

-----------------------------------------------------------------------------
(* Frames: steps that use nothing up.                                      *)

\* Uniqueness of origins survives a step that adds no row and
\* entitles no slot to anything new.
LEMMA OriginsFrame ==
    ASSUME TypeOK, OriginsSound, DOMAIN tokens' = DOMAIN tokens,
           \A i \in DOMAIN tokens : /\ tokens'[i].from = tokens[i].from
                                    /\ tokens[i].revoked => tokens'[i].revoked,
           \A c \in Challenges : challenges[c] # None /\ admin.jti # c =>
                                    challenges'[c] # None /\ admin'.jti # c,
           \A h \in Reqs : Entitled(reqs'[h]) => Entitled(reqs[h]) /\ Origin(reqs'[h]) = Origin(reqs[h])
    PROVE OriginsSound'
  <1>1. (\A i \in DOMAIN tokens : Used(tokens[i].from))'
    BY DEF OriginsSound, Used
  <1>2. ASSUME NEW h \in Reqs, Entitled(reqs'[h])
        PROVE /\ Used(Origin(reqs[h]))'
              /\ \A i \in DOMAIN tokens' : tokens'[i].from # Origin(reqs'[h])
              /\ \A g \in Reqs :
                    Entitled(reqs'[g]) /\ Origin(reqs'[g]) = Origin(reqs'[h]) => g = h
    <2>1. Entitled(reqs[h]) /\ Origin(reqs'[h]) = Origin(reqs[h])
      BY <1>2
    <2>2. Used(Origin(reqs[h]))'
      BY <2>1 DEF OriginsSound, Used
    <2>3. QED
      BY <2>1, <2>2 DEF OriginsSound
  <1>3. OriginsAreUnique'
    BY DEF OriginsSound, OriginsAreUnique
  <1>4. QED
    BY <1>1, <1>2, <1>3 DEF OriginsSound, Entitled, Origin

\* The same for the TOTP steps.
LEMMA StepsFrame ==
    ASSUME TypeOK, StepsSound, DOMAIN tokens' = DOMAIN tokens,
           \A i \in DOMAIN tokens : tokens'[i].by = tokens[i].by,
           admin'.lastStep = admin.lastStep,
           \A h \in Reqs : Claimed(reqs'[h]) => Claimed(reqs[h]) /\ reqs'[h].by = reqs[h].by
    PROVE StepsSound'
  <1>1. (\A i \in DOMAIN tokens : tokens[i].by \in Nat => Spent(tokens[i].by))'
    BY DEF StepsSound, Spent
  <1>2. ASSUME NEW h \in Reqs, Claimed(reqs'[h])
        PROVE /\ Spent(reqs[h].by)'
              /\ \A i \in DOMAIN tokens' : tokens'[i].by # reqs'[h].by
              /\ \A g \in Reqs : Claimed(reqs'[g]) /\ reqs'[g].by = reqs'[h].by => g = h
    BY <1>2 DEF StepsSound, Spent
  <1>3. StepsAreUnique'
    BY DEF StepsSound, StepsAreUnique
  <1>4. QED
    BY <1>1, <1>2, <1>3 DEF StepsSound, Claimed

\* What a slot holds stays sound while challenges and rows only grow.
LEMMA SlotKept ==
    ASSUME TypeOK, NEW w \in Work, SlotSound(w),
           \A c \in Challenges : challenges[c] # None => challenges'[c] # None,
           DOMAIN tokens \subseteq DOMAIN tokens'
    PROVE SlotSound(w)'
  BY DEF SlotSound, Work

\* A step that leaves what limits the attempts alone.
LEMMA LimitFrame ==
    ASSUME TypeOK, LimitLocks, admin'.failed = admin.failed,
           admin.lockedUntil # None => admin'.lockedUntil # None,
           faults \in Nat, faults' \in Nat, faults' >= faults,
           \A h \in Reqs : At(h, "lock") => reqs'[h].pc = "lock"
    PROVE LimitLocks'
  <1>1. CASE \E h \in Reqs : At(h, "lock")
    BY <1>1 DEF LimitLocks, At
  <1>2. CASE ~ \E h \in Reqs : At(h, "lock")
    BY <1>2 DEF LimitLocks
  <1>3. QED
    BY <1>1, <1>2

\* A step of one slot that uses nothing up and entitles it to nothing new.
LEMMA PlainMove ==
    ASSUME IInv, NEW h \in Reqs, NEW w \in Work, Go(h, w), SlotSound(w),
           tokens' = tokens, challenges' = challenges,
           admin' \in Admin, admin'.lastStep = admin.lastStep, admin'.jti = admin.jti,
           cookie' = cookie, stray' \in BOOLEAN, now' = now, faults' \in 0..MaxFaults,
           Entitled(w) => Entitled(reqs[h]) /\ Origin(w) = Origin(reqs[h]),
           Claimed(w) => Claimed(reqs[h]) /\ w.by = reqs[h].by,
           LimitLocks'
    PROVE IInv'
  <1>1. /\ reqs'[h] = w /\ \A g \in Reqs \ {h} : reqs'[g] = reqs[g]
        /\ reqs' \in [Reqs -> Work]
    BY GoMoves DEF IInv
  <1>2. TypeOK'
    BY <1>1 DEF IInv, TypeOK
  <1>3. SlotsSound'
    <2>1. \A g \in Reqs : SlotSound(reqs'[g])
      BY <1>1 DEF IInv, SlotsSound
    <2>2. QED
      BY <2>1 DEF SlotsSound, SlotSound
  <1>4. OriginsSound'
    <2>1. \A g \in Reqs : Entitled(reqs'[g]) =>
                             Entitled(reqs[g]) /\ Origin(reqs'[g]) = Origin(reqs[g])
      BY <1>1
    <2>2. QED
      BY <2>1, OriginsFrame DEF IInv
  <1>5. StepsSound'
    <2>1. \A g \in Reqs : Claimed(reqs'[g]) =>
                             Claimed(reqs[g]) /\ reqs'[g].by = reqs[g].by
      BY <1>1
    <2>2. QED
      BY <2>1, StepsFrame DEF IInv
  <1>6. QED
    BY <1>2, <1>3, <1>4, <1>5 DEF IInv

-----------------------------------------------------------------------------
(* The password step.                                                      *)

\* What a request has read of the account.
LEMMA SeenIsWork ==
    ASSUME TypeOK, NEW pc \in Steps, NEW purpose \in Purposes
    PROVE /\ Seen(pc, purpose) \in Work /\ Seen(pc, purpose).pc = pc
          /\ Seen(pc, purpose).challenge = None /\ Seen(pc, purpose).by = None
          /\ Seen(pc, purpose).purpose = purpose
  BY AdminIsTyped DEF Seen, Work, Idle

\* A record that holds nothing, but for the step it is at, is sound.
LEMMA BareIsSound ==
    ASSUME TypeOK, NEW w, w.challenge = None, w.by = None,
           w.pc \in {"idle", "clear", "secret", "sign", "fail", "lock", "revokeAll"}
    PROVE SlotSound(w) /\ ~Entitled(w) /\ ~Claimed(w)
  BY NoneAssumption DEF SlotSound, Entitled, Claimed

\* login reads the account: the slot is new and holds nothing.
LEMMA LoginLoadKeeps ==
    ASSUME IInv, NEW h \in Reqs, LoginLoad(h) PROVE IInv'
  <1> DEFINE purpose == IF admin.totpEnabled THEN "totp_login" ELSE "totp_setup"
             seen == Seen("clear", purpose)
             w == IF seen.dirty THEN seen ELSE [seen EXCEPT !.pc = AfterPassword(purpose)]
  <1>1. TypeOK /\ purpose \in Purposes
    BY DEF IInv, Purposes
  <1>2. /\ seen \in Work /\ seen.pc = "clear"
        /\ seen.challenge = None /\ seen.by = None
    BY <1>1, SeenIsWork DEF Steps
  <1>3. /\ w \in Work /\ w.challenge = None /\ w.by = None
        /\ w.pc \in {"clear", "secret", "sign"}
    BY <1>2 DEF Work, Steps, AfterPassword
  <1>4. SlotSound(w) /\ ~Entitled(w) /\ ~Claimed(w)
    BY <1>1, <1>3, BareIsSound
  <1>5. Go(h, w) /\ At(h, "idle") /\ UNCHANGED <<admin, Sessions, World>>
    BY DEF LoginLoad
  <1>6. LimitLocks'
    BY <1>1, <1>5, GoMoves, LimitFrame DEF IInv, TypeOK, At, World
  <1>7. QED
    BY <1>1, <1>3, <1>4, <1>5, <1>6, PlainMove DEF IInv, TypeOK, Sessions, World

\* A wrong password sends the request to the failed-attempt counter.
LEMMA LoginWrongKeeps ==
    ASSUME IInv, NEW h \in Reqs, LoginWrong(h) PROVE IInv'
  <1> DEFINE w == [Idle EXCEPT !.pc = "fail"]
  <1>1. /\ w \in Work /\ w.challenge = None /\ w.by = None /\ w.pc = "fail"
    BY IdleIsWork DEF Idle, Work, Steps
  <1>2. SlotSound(w) /\ ~Entitled(w) /\ ~Claimed(w)
    BY <1>1, BareIsSound DEF IInv
  <1>3. Go(h, w) /\ At(h, "idle") /\ UNCHANGED <<admin, Sessions, World>>
    BY DEF LoginWrong
  <1>4. LimitLocks'
    BY <1>3, GoMoves, LimitFrame DEF IInv, TypeOK, At, World
  <1>5. QED
    BY <1>1, <1>2, <1>3, <1>4, PlainMove DEF IInv, TypeOK, Sessions, World

\* The account with its failed attempts cleared is below the limit.
LEMMA ClearedIsAdmin ==
    ASSUME TypeOK
    PROVE /\ Cleared \in Admin /\ Cleared.failed = 0
          /\ Cleared.jti = admin.jti /\ Cleared.lastStep = admin.lastStep
  BY DEF Cleared, TypeOK, Admin

\* login clears the failed attempts.
LEMMA LoginClearKeeps ==
    ASSUME IInv, NEW h \in Reqs, LoginClear(h) PROVE IInv'
  <1> DEFINE w == [reqs[h] EXCEPT !.pc = AfterPassword(reqs[h].purpose)]
  <1>1. TypeOK /\ SlotSound(reqs[h]) /\ reqs[h] \in Work
    BY WorkIsTyped DEF IInv, SlotsSound
  <1>2. /\ w \in Work /\ w.challenge = reqs[h].challenge /\ w.by = reqs[h].by
        /\ w.pc \in {"secret", "sign"}
    BY <1>1 DEF Work, Steps, AfterPassword
  <1>3. SlotSound(w) /\ ~Entitled(w) /\ ~Claimed(w)
    BY <1>1, <1>2 DEF SlotSound, Entitled, Claimed
  <1>4. Go(h, w) /\ admin' = Cleared /\ UNCHANGED <<Sessions, World>>
    BY DEF LoginClear, Then
  <1>5. LimitLocks'
    BY <1>1, <1>4, ClearedIsAdmin, NumbersAssumption DEF LimitLocks
  <1>6. QED
    BY <1>1, <1>2, <1>3, <1>4, <1>5, ClearedIsAdmin, PlainMove
       DEF IInv, TypeOK, Sessions, World

\* login stores a new secret and its enrolment goes on.
LEMMA LoginSecretKeeps ==
    ASSUME IInv, NEW h \in Reqs, LoginSecret(h) PROVE IInv'
  <1>1. TypeOK /\ SlotSound(reqs[h]) /\ reqs[h] \in Work
    BY WorkIsTyped DEF IInv, SlotsSound
  <1>2. PICK s \in Secrets \cup {None} :
           /\ Go(h, [reqs[h] EXCEPT !.pc = "sign", !.secret = s])
           /\ admin' = admin \/ admin' = [admin EXCEPT !.secret = s]
           /\ At(h, "secret") /\ UNCHANGED <<Sessions, World>>
    <2>1. CASE reqs[h].secret # None
      <3>1. [reqs[h] EXCEPT !.pc = "sign", !.secret = reqs[h].secret]
              = [reqs[h] EXCEPT !.pc = "sign"]
        BY <1>1 DEF Work
      <3>2. QED
        BY <2>1, <3>1, <1>1, WorkIsTyped DEF LoginSecret, Then
    <2>2. CASE reqs[h].secret = None
      BY <2>2 DEF LoginSecret
    <2>3. QED
      BY <2>1, <2>2
  <1> DEFINE w == [reqs[h] EXCEPT !.pc = "sign", !.secret = s]
  <1>3. /\ w \in Work /\ w.challenge = reqs[h].challenge /\ w.by = reqs[h].by
        /\ w.pc = "sign"
    BY <1>1 DEF Work, Steps
  <1>4. SlotSound(w) /\ ~Entitled(w) /\ ~Claimed(w)
    BY <1>1, <1>3 DEF SlotSound, Entitled, Claimed
  <1>5. /\ admin' \in Admin /\ admin'.lastStep = admin.lastStep
        /\ admin'.jti = admin.jti /\ admin'.failed = admin.failed
        /\ admin'.lockedUntil = admin.lockedUntil
    BY <1>1, <1>2 DEF TypeOK, Admin
  <1>6. LimitLocks'
    BY <1>1, <1>2, <1>5, GoMoves, LimitFrame DEF IInv, TypeOK, At, World
  <1>7. QED
    BY <1>1, <1>2, <1>3, <1>4, <1>5, <1>6, PlainMove DEF IInv, TypeOK, Sessions, World

\* A new challenge is one no session or slot came from.
LEMMA LoginSignKeeps ==
    ASSUME IInv, NEW h \in Reqs, NEW c \in Challenges, LoginSign(h, c) PROVE IInv'
  <1>1. /\ TypeOK /\ At(h, "sign") /\ challenges[c] = None
        /\ admin' = [admin EXCEPT !.jti = c]
        /\ challenges' = [challenges EXCEPT ![c] = reqs[h].purpose]
        /\ Quit(h) /\ UNCHANGED <<Sessions, now, faults>>
    BY DEF IInv, LoginSign
  <1>2. /\ reqs'[h] = Idle /\ \A g \in Reqs \ {h} : reqs'[g] = reqs[g]
        /\ reqs' \in [Reqs -> Work]
    BY <1>1, QuitMoves
  <1>3. /\ admin' \in Admin /\ admin'.jti = c
        /\ admin'.lastStep = admin.lastStep /\ admin'.failed = admin.failed
        /\ admin'.lockedUntil = admin.lockedUntil
    BY <1>1 DEF TypeOK, Admin
  <1>4. \A d \in Challenges : challenges[d] # None => challenges'[d] # None /\ d # c
    BY <1>1 DEF TypeOK
  <1>5. Idle.pc = "idle" /\ Idle.challenge = None /\ Idle.by = None
    BY DEF Idle
  <1>6. TypeOK'
    BY <1>1, <1>2, <1>3, WorkIsTyped DEF TypeOK, Sessions
  <1>7. SlotsSound'
    <2>1. SlotSound(Idle)'
      BY <1>5 DEF SlotSound
    <2>2. \A g \in Reqs : reqs[g] \in Work /\ SlotSound(reqs[g])
      BY WorkIsTyped DEF IInv, SlotsSound
    <2>3. DOMAIN tokens \subseteq DOMAIN tokens'
      BY <1>1 DEF Sessions
    <2>4. ASSUME NEW g \in Reqs PROVE SlotSound(reqs[g])'
      <3>1. CASE g = h
        BY <3>1, <2>1, <1>2 DEF SlotSound
      <3>2. CASE g # h
        BY <3>2, <2>2, <2>3, <1>1, <1>2, <1>4 DEF SlotSound, Work
      <3>3. QED
        BY <3>1, <3>2
    <2>5. QED
      BY <2>4 DEF SlotsSound
  <1>8. OriginsSound'
    <2>1. \A g \in Reqs : Entitled(reqs'[g]) =>
                             Entitled(reqs[g]) /\ Origin(reqs'[g]) = Origin(reqs[g])
      BY <1>2, <1>5 DEF Entitled
    <2>2. QED
      BY <2>1, <1>1, <1>3, <1>4, OriginsFrame DEF IInv, Sessions
  <1>9. StepsSound'
    <2>1. \A g \in Reqs : Claimed(reqs'[g]) =>
                             Claimed(reqs[g]) /\ reqs'[g].by = reqs[g].by
      BY <1>2, <1>5 DEF Claimed
    <2>2. QED
      BY <2>1, <1>1, <1>3, StepsFrame DEF IInv, Sessions
  <1>10. LimitLocks'
    BY <1>1, <1>2, <1>3, LimitFrame DEF IInv, TypeOK, At
  <1>11. QED
    BY <1>6, <1>7, <1>8, <1>9, <1>10 DEF IInv

-----------------------------------------------------------------------------
(* The code step.                                                          *)

\* A code step reads the account, and its challenge is the present one then.
LEMMA VerifyLoadKeeps ==
    ASSUME IInv, NEW h \in Reqs, NEW c \in Challenges, VerifyLoad(h, c) PROVE IInv'
  <1> DEFINE seen == [Seen("claim", challenges[c]) EXCEPT !.challenge = c]
  <1>1. TypeOK /\ challenges[c] \in Purposes /\ c # None
    BY NoneAssumption DEF IInv, TypeOK, VerifyLoad
  <1>2. /\ seen \in Work /\ seen.pc = "claim" /\ seen.challenge = c
    BY <1>1, SeenIsWork DEF Work, Steps
  <1>3. now \div StepLength \in Nat
    BY <1>1, AdminIsTyped, NumbersAssumption
  <1>4. PICK w \in Work :
           /\ Go(h, w)
           /\ w.pc \in {"claim", "spend", "fail"}
           /\ w.pc = "claim" => w.challenge = c /\ w.by \in Nat
           /\ w.pc = "spend" => w.challenge = c /\ w.by \in BackupCodes
           /\ w.pc = "fail" => w.challenge = None /\ w.by = None
    <2>1. CASE Go(h, [seen EXCEPT !.by = now \div StepLength])
      <3>1. /\ [seen EXCEPT !.by = now \div StepLength] \in Work
            /\ [seen EXCEPT !.by = now \div StepLength].by \in Nat
        BY <1>2, <1>3 DEF Work
      <3>2. QED
        BY <2>1, <3>1, <1>2 DEF Work
    <2>2. CASE \E b \in admin.backup : Go(h, [seen EXCEPT !.pc = "spend", !.by = b])
      <3>1. PICK b \in admin.backup : Go(h, [seen EXCEPT !.pc = "spend", !.by = b])
        BY <2>2
      <3>2. b \in BackupCodes
        BY <3>1, <1>1, AdminIsTyped
      <3>3. [seen EXCEPT !.pc = "spend", !.by = b] \in Work
        BY <1>2, <3>2 DEF Work, Steps
      <3>4. QED
        BY <3>1, <3>2, <3>3, <1>2 DEF Work
    <2>3. CASE Go(h, [Idle EXCEPT !.pc = "fail"])
      <3>1. /\ [Idle EXCEPT !.pc = "fail"] \in Work
            /\ [Idle EXCEPT !.pc = "fail"].challenge = None
            /\ [Idle EXCEPT !.pc = "fail"].by = None
        BY IdleIsWork DEF Work, Steps, Idle
      <3>2. QED
        BY <2>3, <3>1 DEF Work
    <2>4. QED
      BY <2>1, <2>2, <2>3 DEF VerifyLoad
  <1>5. SlotSound(w) /\ ~Entitled(w) /\ ~Claimed(w)
    <2>1. challenges[c] # None
      BY DEF VerifyLoad
    <2>2. QED
      BY <1>1, <1>4, <2>1 DEF SlotSound, Entitled, Claimed
  <1>6. At(h, "idle") /\ UNCHANGED <<admin, Sessions, World>>
    BY DEF VerifyLoad
  <1>7. LimitLocks'
    BY <1>1, <1>4, <1>6, GoMoves, LimitFrame DEF IInv, TypeOK, At, World
  <1>8. QED
    BY <1>1, <1>4, <1>5, <1>6, <1>7, PlainMove DEF IInv, TypeOK, Sessions, World

\* The slot that claims a step is the only one with it.
LEMMA ClaimKeeps ==
    ASSUME IInv, NEW h \in Reqs, Claim(h) PROVE IInv'
  <1>1. /\ TypeOK /\ At(h, "claim") /\ UNCHANGED <<Sessions, World>>
        /\ SlotSound(reqs[h]) /\ reqs[h] \in Work /\ reqs[h].by \in Nat
    BY WorkIsTyped DEF IInv, SlotsSound, SlotSound, Claim, At
  <1>2. CASE Then(h, "fail") /\ UNCHANGED admin
    <2> DEFINE w == [reqs[h] EXCEPT !.pc = "fail"]
    <2>1. /\ w \in Work /\ w.challenge = reqs[h].challenge /\ w.by = reqs[h].by
          /\ w.pc = "fail"
      BY <1>1 DEF Work, Steps
    <2>2. SlotSound(w) /\ ~Entitled(w) /\ ~Claimed(w)
      BY <1>1, <2>1 DEF SlotSound, Entitled, Claimed
    <2>3. Go(h, w)
      BY <1>2 DEF Then
    <2>4. LimitLocks'
      BY <1>1, <1>2, <2>3, GoMoves, LimitFrame DEF IInv, TypeOK, At, World
    <2>5. QED
      BY <1>1, <1>2, <2>1, <2>2, <2>3, <2>4, PlainMove DEF IInv, TypeOK, Sessions, World
  <1>3. CASE /\ admin.lastStep = None \/ admin.lastStep < reqs[h].by
             /\ admin' = [admin EXCEPT !.lastStep = reqs[h].by]
             /\ Then(h, "consume")
    <2>1. /\ reqs'[h].pc = "consume" /\ reqs'[h].challenge = reqs[h].challenge
          /\ reqs'[h].by = reqs[h].by
          /\ \A g \in Reqs \ {h} : reqs'[g] = reqs[g]
          /\ reqs' \in [Reqs -> Work]
      BY <1>1, <1>3, ThenMoves DEF Steps
    <2>2. /\ admin' \in Admin /\ admin'.jti = admin.jti
          /\ admin'.lastStep = reqs[h].by /\ admin'.failed = admin.failed
          /\ admin'.lockedUntil = admin.lockedUntil
      BY <1>1, <1>3 DEF TypeOK, Admin
    <2>3. TypeOK'
      BY <1>1, <2>1, <2>2 DEF TypeOK, Sessions, World
    <2>4. SlotsSound'
      <3>1. \A g \in Reqs : SlotSound(reqs[g]) /\ reqs[g] \in Work
        BY WorkIsTyped DEF IInv, SlotsSound
      <3>2. ASSUME NEW g \in Reqs PROVE SlotSound(reqs[g])'
        BY <3>1, <1>1, <2>1 DEF SlotSound, Sessions, World, At
      <3>3. QED
        BY <3>2 DEF SlotsSound
    <2>5. OriginsSound'
      <3>1. \A g \in Reqs : Entitled(reqs'[g]) =>
                               Entitled(reqs[g]) /\ Origin(reqs'[g]) = Origin(reqs[g])
        BY <2>1 DEF Entitled
      <3>2. QED
        BY <3>1, <1>1, <2>2, OriginsFrame DEF IInv, Sessions, World
    <2>6. StepsSound'
      <3>1. \A step \in Nat : Spent(step) => Spent(step)' /\ step < reqs[h].by
        BY <1>1, <1>3, <2>2, AdminIsTyped, NoneAssumption DEF Spent
      <3>2. Spent(reqs[h].by)'
        BY <1>1, <2>1, <2>2, NoneAssumption DEF Spent
      <3>3. \A i \in DOMAIN tokens :
               tokens[i].by \in Nat => tokens[i].by < reqs[h].by
        BY <3>1 DEF IInv, StepsSound
      <3>4. \A g \in Reqs : Claimed(reqs[g]) => reqs[g].by < reqs[h].by
        BY <3>1 DEF IInv, StepsSound, Claimed
      <3>5. (\A i \in DOMAIN tokens : tokens[i].by \in Nat => Spent(tokens[i].by))'
        BY <1>1, <2>2, <3>3, AdminIsTyped, NoneAssumption DEF Spent, Sessions
      <3>6. ASSUME NEW g \in Reqs, Claimed(reqs'[g])
            PROVE /\ Spent(reqs[g].by)'
                  /\ \A i \in DOMAIN tokens' : tokens'[i].by # reqs'[g].by
                  /\ \A k \in Reqs :
                        Claimed(reqs'[k]) /\ reqs'[k].by = reqs'[g].by => k = g
        <4>1. CASE g = h
          BY <4>1, <3>2, <3>3, <3>4, <1>1, <2>1 DEF Sessions
        <4>2. CASE g # h
          <5>1. reqs'[g] = reqs[g] /\ Claimed(reqs[g]) /\ reqs[g].by < reqs[h].by
            BY <4>2, <2>1, <3>4, <3>6
          <5>2. reqs[g].by \in Nat
            BY <5>1 DEF Claimed
          <5>3. Spent(reqs[g].by)'
            BY <5>1, <5>2, <1>1, <2>2, NoneAssumption DEF Spent
          <5>4. \A i \in DOMAIN tokens' : tokens'[i].by # reqs'[g].by
            BY <5>1, <1>1 DEF IInv, StepsSound, Sessions
          <5>5. ASSUME NEW k \in Reqs, Claimed(reqs'[k]), reqs'[k].by = reqs'[g].by
                PROVE k = g
            <6>1. k # h
              BY <5>1, <5>2, <5>5, <1>1, <2>1
            <6>2. QED
              BY <6>1, <5>1, <5>5, <2>1 DEF IInv, StepsSound
          <5>6. QED
            BY <5>3, <5>4, <5>5
        <4>3. QED
          BY <4>1, <4>2
      <3>7. StepsAreUnique'
        BY <1>1 DEF IInv, StepsSound, StepsAreUnique, Sessions
      <3>8. QED
        BY <3>5, <3>6, <3>7 DEF StepsSound, Claimed
    <2>7. LimitLocks'
      BY <1>1, <2>1, <2>2, LimitFrame DEF IInv, TypeOK, At, World
    <2>8. QED
      BY <2>3, <2>4, <2>5, <2>6, <2>7 DEF IInv
  <1>4. QED
    BY <1>2, <1>3 DEF Claim

\* A backup code is taken off the list: it is no TOTP step.
LEMMA SpendBackupKeeps ==
    ASSUME IInv, NEW h \in Reqs, SpendBackup(h) PROVE IInv'
  <1> DEFINE w == [reqs[h] EXCEPT !.pc = "consume"]
  <1>1. /\ TypeOK /\ At(h, "spend") /\ Go(h, w) /\ UNCHANGED <<Sessions, World>>
        /\ SlotSound(reqs[h]) /\ reqs[h] \in Work
    BY WorkIsTyped DEF IInv, SlotsSound, SpendBackup, Then
  <1>2. /\ w \in Work /\ w.challenge = reqs[h].challenge /\ w.by = reqs[h].by
        /\ w.pc = "consume"
    BY <1>1 DEF Work, Steps
  <1>3. SlotSound(w) /\ ~Entitled(w) /\ ~Claimed(w)
    BY <1>1, <1>2, NoneAssumption DEF SlotSound, Entitled, Claimed, At
  <1>4. /\ admin' \in Admin /\ admin'.lastStep = admin.lastStep
        /\ admin'.jti = admin.jti /\ admin'.failed = admin.failed
        /\ admin'.lockedUntil = admin.lockedUntil
    <2>1. reqs[h].backup \ {reqs[h].by} \in SUBSET BackupCodes
      BY <1>1, WorkIsTyped
    <2>2. QED
      BY <1>1, <2>1 DEF TypeOK, Admin, SpendBackup
  <1>5. LimitLocks'
    BY <1>1, <1>4, GoMoves, LimitFrame DEF IInv, TypeOK, At, World
  <1>6. QED
    BY <1>1, <1>2, <1>3, <1>4, <1>5, PlainMove DEF IInv, TypeOK, Sessions, World

\* The slot that consumes the present challenge is the only one entitled by
\* it, and no session came from it before.
LEMMA ConsumeKeeps ==
    ASSUME IInv, NEW h \in Reqs, Consume(h) PROVE IInv'
  <1>1. /\ TypeOK /\ At(h, "consume") /\ UNCHANGED <<Sessions, World>>
        /\ SlotSound(reqs[h]) /\ reqs[h] \in Work
    BY WorkIsTyped DEF IInv, SlotsSound, Consume
  <1>2. CASE Quit(h) /\ UNCHANGED admin
    <2>1. /\ Idle \in Work /\ Idle.challenge = None /\ Idle.by = None /\ Idle.pc = "idle"
      BY IdleIsWork DEF Idle
    <2>2. SlotSound(Idle) /\ ~Entitled(Idle) /\ ~Claimed(Idle)
      BY <1>1, <2>1, BareIsSound
    <2>3. Go(h, Idle)
      BY <1>2 DEF Quit
    <2>4. LimitLocks'
      BY <1>1, <1>2, <2>3, GoMoves, LimitFrame DEF IInv, TypeOK, At, World
    <2>5. QED
      BY <1>1, <1>2, <2>1, <2>2, <2>3, <2>4, PlainMove DEF IInv, TypeOK, Sessions, World
  <1>3. CASE /\ admin.jti = reqs[h].challenge
             /\ admin' = [admin EXCEPT !.jti = None]
             /\ \E pc \in {"enable", "unlock", "issue"} : Then(h, pc)
    <2> DEFINE c == reqs[h].challenge
    <2>1. /\ reqs'[h].pc \in {"enable", "unlock", "issue"}
          /\ reqs'[h].challenge = c /\ reqs'[h].by = reqs[h].by
          /\ \A g \in Reqs \ {h} : reqs'[g] = reqs[g]
          /\ reqs' \in [Reqs -> Work]
      BY <1>1, <1>3, ThenMoves DEF Steps
    <2>2. /\ admin' \in Admin /\ admin'.jti = None
          /\ admin'.lastStep = admin.lastStep /\ admin'.failed = admin.failed
          /\ admin'.lockedUntil = admin.lockedUntil
      BY <1>1, <1>3 DEF TypeOK, Admin
    <2>3. c \in Challenges /\ challenges[c] # None /\ c \notin DOMAIN tokens
      BY <1>1, WorkIsTyped, TokensAreTyped, NoneAssumption DEF SlotSound, At
    <2>4. ~Used(c)
      BY <1>3, <2>3 DEF Used
    <2>5. Origin(reqs'[h]) = c
      BY <2>1, <2>3, NoneAssumption DEF Origin
    <2>6. TypeOK'
      BY <1>1, <2>1, <2>2 DEF TypeOK, Sessions, World
    <2>7. SlotsSound'
      <3>1. \A g \in Reqs : SlotSound(reqs[g]) /\ reqs[g] \in Work
        BY WorkIsTyped DEF IInv, SlotsSound
      <3>2. ASSUME NEW g \in Reqs PROVE SlotSound(reqs[g])'
        BY <3>1, <1>1, <2>1, <2>3, NoneAssumption DEF SlotSound, Sessions, World, At
      <3>3. QED
        BY <3>2 DEF SlotsSound
    <2>8. OriginsSound'
      <3>2. (\A i \in DOMAIN tokens : Used(tokens[i].from))'
        BY <1>1, <2>2, NoneAssumption DEF IInv, OriginsSound, Used, Sessions, World
      <3>3. \A i \in DOMAIN tokens : tokens[i].from # c
        BY <2>4 DEF IInv, OriginsSound
      <3>4. \A g \in Reqs : Entitled(reqs[g]) => Origin(reqs[g]) # c
        BY <2>4 DEF IInv, OriginsSound
      <3>5. Used(Origin(reqs[h]))'
        BY <2>2, <2>3, <2>5, <1>1, NoneAssumption DEF Used, World
      <3>6. ASSUME NEW g \in Reqs, Entitled(reqs'[g])
            PROVE /\ Used(Origin(reqs[g]))'
                  /\ \A i \in DOMAIN tokens' : tokens'[i].from # Origin(reqs'[g])
                  /\ \A k \in Reqs :
                        Entitled(reqs'[k]) /\ Origin(reqs'[k]) = Origin(reqs'[g]) => k = g
        <4>1. CASE g = h
          BY <4>1, <3>3, <3>4, <3>5, <2>1, <2>5, <1>1 DEF Sessions
        <4>2. CASE g # h
          <5>1. reqs'[g] = reqs[g] /\ Entitled(reqs[g]) /\ Origin(reqs[g]) # c
            BY <4>2, <3>4, <3>6, <2>1
          <5>2. Used(Origin(reqs[g]))'
            BY <5>1, <1>1, <2>2, NoneAssumption
               DEF IInv, OriginsSound, Used, Sessions, World
          <5>3. \A i \in DOMAIN tokens' : tokens'[i].from # Origin(reqs'[g])
            BY <5>1, <1>1 DEF IInv, OriginsSound, Sessions
          <5>4. ASSUME NEW k \in Reqs, Entitled(reqs'[k]),
                       Origin(reqs'[k]) = Origin(reqs'[g])
                PROVE k = g
            <6>1. k # h
              BY <5>1, <5>4, <2>5
            <6>2. QED
              BY <6>1, <5>1, <5>4, <2>1 DEF IInv, OriginsSound
          <5>5. QED
            BY <5>2, <5>3, <5>4
        <4>3. QED
          BY <4>1, <4>2
      <3>7. OriginsAreUnique'
        BY <1>1 DEF IInv, OriginsSound, OriginsAreUnique, Sessions
      <3>8. QED
        BY <3>2, <3>6, <3>7 DEF OriginsSound, Entitled, Origin
    <2>9. StepsSound'
      <3>1. \A g \in Reqs : Claimed(reqs'[g]) =>
                               Claimed(reqs[g]) /\ reqs'[g].by = reqs[g].by
        BY <1>1, <2>1 DEF Claimed, At
      <3>2. QED
        BY <3>1, <1>1, <2>2, StepsFrame DEF IInv, Sessions
    <2>10. LimitLocks'
      BY <1>1, <2>1, <2>2, LimitFrame DEF IInv, TypeOK, At, World
    <2>11. QED
      BY <2>6, <2>7, <2>8, <2>9, <2>10 DEF IInv
  <1>4. QED
    BY <1>2, <1>3 DEF Consume

\* Enrolment ends: the slot stays entitled as it was.
LEMMA EnableKeeps ==
    ASSUME IInv, NEW h \in Reqs, Enable(h) PROVE IInv'
  <1> DEFINE w == [reqs[h] EXCEPT !.pc = "issue"]
  <1>1. /\ TypeOK /\ At(h, "enable") /\ Go(h, w) /\ UNCHANGED <<Sessions, World>>
        /\ SlotSound(reqs[h]) /\ reqs[h] \in Work
    BY WorkIsTyped DEF IInv, SlotsSound, Enable, Then
  <1>2. /\ w \in Work /\ w.challenge = reqs[h].challenge /\ w.by = reqs[h].by
        /\ w.pc = "issue" /\ w.id = reqs[h].id
    BY <1>1 DEF Work, Steps
  <1>3. /\ SlotSound(w) /\ Entitled(reqs[h]) /\ Origin(w) = Origin(reqs[h])
        /\ Claimed(w) => Claimed(reqs[h])
    BY <1>1, <1>2 DEF SlotSound, Entitled, Claimed, At, Origin
  <1>4. /\ admin' \in Admin /\ admin'.lastStep = admin.lastStep
        /\ admin'.jti = admin.jti /\ admin'.failed = 0
    BY <1>1, ClearedIsAdmin DEF Enable, Admin
  <1>5. LimitLocks'
    BY <1>1, <1>4, NumbersAssumption DEF LimitLocks
  <1>6. QED
    BY <1>1, <1>2, <1>3, <1>4, <1>5, PlainMove DEF IInv, TypeOK, Sessions, World

\* A right code clears the failed attempts.
LEMMA VerifyClearKeeps ==
    ASSUME IInv, NEW h \in Reqs, VerifyClear(h) PROVE IInv'
  <1> DEFINE w == [reqs[h] EXCEPT !.pc = "issue"]
  <1>1. /\ TypeOK /\ At(h, "unlock") /\ Go(h, w) /\ UNCHANGED <<Sessions, World>>
        /\ SlotSound(reqs[h]) /\ reqs[h] \in Work
    BY WorkIsTyped DEF IInv, SlotsSound, VerifyClear, Then
  <1>2. /\ w \in Work /\ w.challenge = reqs[h].challenge /\ w.by = reqs[h].by
        /\ w.pc = "issue" /\ w.id = reqs[h].id
    BY <1>1 DEF Work, Steps
  <1>3. /\ SlotSound(w) /\ Entitled(reqs[h]) /\ Origin(w) = Origin(reqs[h])
        /\ Claimed(w) => Claimed(reqs[h])
    BY <1>1, <1>2 DEF SlotSound, Entitled, Claimed, At, Origin
  <1>4. admin' = Cleared
    BY DEF VerifyClear
  <1>5. LimitLocks'
    BY <1>1, <1>4, ClearedIsAdmin, NumbersAssumption DEF LimitLocks
  <1>6. QED
    BY <1>1, <1>2, <1>3, <1>4, <1>5, ClearedIsAdmin, PlainMove
       DEF IInv, TypeOK, Sessions, World

\* The attempt that reaches the limit goes on to lock.
LEMMA RegisterFailedKeeps ==
    ASSUME IInv, NEW h \in Reqs, RegisterFailed(h) PROVE IInv'
  <1>1. /\ TypeOK /\ At(h, "fail") /\ UNCHANGED <<Sessions, World>>
        /\ SlotSound(reqs[h]) /\ reqs[h] \in Work
    BY WorkIsTyped DEF IInv, SlotsSound, RegisterFailed
  <1>2. /\ admin' \in Admin /\ admin'.lastStep = admin.lastStep
        /\ admin'.jti = admin.jti /\ admin'.failed = admin.failed + 1
        /\ admin'.lockedUntil = admin.lockedUntil
    BY <1>1, AdminIsTyped DEF RegisterFailed, TypeOK, Admin
  <1>3. CASE Then(h, "lock")
    <2> DEFINE w == [reqs[h] EXCEPT !.pc = "lock"]
    <2>1. /\ w \in Work /\ w.challenge = reqs[h].challenge /\ w.by = reqs[h].by
          /\ w.pc = "lock"
      BY <1>1 DEF Work, Steps
    <2>2. SlotSound(w) /\ ~Entitled(w) /\ ~Claimed(w)
      BY <1>1, <2>1 DEF SlotSound, Entitled, Claimed
    <2>3. Go(h, w)
      BY <1>3 DEF Then
    <2>4. LimitLocks'
      <3>1. reqs'[h].pc = "lock"
        BY <1>1, <2>1, <2>3, GoMoves
      <3>2. QED
        BY <3>1 DEF LimitLocks, At
    <2>5. QED
      BY <1>1, <1>2, <2>1, <2>2, <2>3, <2>4, PlainMove DEF IInv, TypeOK, Sessions, World
  <1>4. CASE Quit(h) /\ ~(admin.failed + 1 >= MaxFailed)
    <2>1. /\ Idle \in Work /\ Idle.challenge = None /\ Idle.by = None /\ Idle.pc = "idle"
      BY IdleIsWork DEF Idle
    <2>2. SlotSound(Idle) /\ ~Entitled(Idle) /\ ~Claimed(Idle)
      BY <1>1, <2>1, BareIsSound
    <2>3. Go(h, Idle)
      BY <1>4 DEF Quit
    <2>4. LimitLocks'
      BY <1>2, <1>4 DEF LimitLocks
    <2>5. QED
      BY <1>1, <1>2, <2>1, <2>2, <2>3, <2>4, PlainMove DEF IInv, TypeOK, Sessions, World
  <1>5. QED
    BY <1>3, <1>4 DEF RegisterFailed

\* The second write of a wrong answer locks the account.
LEMMA LockKeeps ==
    ASSUME IInv, NEW h \in Reqs, Lock(h) PROVE IInv'
  <1>1. /\ TypeOK /\ Go(h, Idle) /\ UNCHANGED <<Sessions, World>>
    BY DEF IInv, Lock, Quit
  <1>2. /\ Idle \in Work /\ Idle.challenge = None /\ Idle.by = None /\ Idle.pc = "idle"
    BY IdleIsWork DEF Idle
  <1>3. SlotSound(Idle) /\ ~Entitled(Idle) /\ ~Claimed(Idle)
    BY <1>1, <1>2, BareIsSound
  <1>4. now + LockTime \in Nat
    BY <1>1, AdminIsTyped, NumbersAssumption
  <1>5. /\ admin' \in Admin /\ admin'.lastStep = admin.lastStep
        /\ admin'.jti = admin.jti /\ admin'.lockedUntil = now + LockTime
    BY <1>1, <1>4 DEF Lock, TypeOK, Admin
  <1>6. LimitLocks'
    BY <1>4, <1>5, NoneAssumption DEF LimitLocks
  <1>7. QED
    BY <1>1, <1>2, <1>3, <1>5, <1>6, PlainMove DEF IInv, TypeOK, Sessions, World

-----------------------------------------------------------------------------
(* Sessions.                                                               *)

\* A session is issued for what only this slot has used up.
LEMMA IssueSessionKeeps ==
    ASSUME IInv, NEW h \in Reqs, IssueSession(h) PROVE IInv'
  <1> DEFINE new == [token |-> now, revoked |-> FALSE,
                     from |-> Origin(reqs[h]), by |-> reqs[h].by]
             n == Len(tokens)
  <1>1. /\ TypeOK /\ At(h, "issue") /\ tokens' = Append(tokens, new)
        /\ cookie' = now /\ Quit(h) /\ UNCHANGED <<admin, stray, World>>
    BY DEF IInv, IssueSession
  <1>2. new \in Tokens
    BY <1>1, WorkIsTyped, AdminIsTyped DEF Tokens
  <1>3. /\ n \in Nat /\ DOMAIN tokens = 1..n /\ tokens' \in Seq(Tokens)
        /\ DOMAIN tokens' = 1..(n + 1)
        /\ \A i \in 1..n : tokens'[i] = tokens[i]
        /\ tokens'[n + 1] = new
    <2>1. tokens \in Seq(Tokens)
      BY <1>1 DEF TypeOK
    <2>2. Len(tokens') = n + 1
      BY <1>1, <1>2, <2>1, AppendProperties
    <2>3. QED
      BY <1>1, <1>2, <2>1, <2>2, AppendProperties, LenProperties
  <1>4. /\ reqs'[h] = Idle /\ \A g \in Reqs \ {h} : reqs'[g] = reqs[g]
        /\ reqs' \in [Reqs -> Work]
    BY <1>1, QuitMoves
  <1>5. Idle \in Work /\ Idle.pc = "idle" /\ Idle.challenge = None /\ Idle.by = None
    BY IdleIsWork DEF Idle
  <1>6. \A g \in Reqs : Entitled(reqs'[g]) \/ Claimed(reqs'[g]) => g # h /\ reqs'[g] = reqs[g]
    BY <1>4, <1>5 DEF Entitled, Claimed
  <1>7. TypeOK'
    BY <1>1, <1>3, <1>4, AdminIsTyped DEF TypeOK, World
  <1>8. SlotsSound'
    <2>1. SlotSound(Idle)'
      BY <1>5 DEF SlotSound
    <2>2. \A g \in Reqs : reqs[g] \in Work /\ SlotSound(reqs[g])
      BY <1>1, WorkIsTyped DEF IInv, SlotsSound
    <2>3. ASSUME NEW g \in Reqs PROVE SlotSound(reqs[g])'
      <3>1. CASE g = h
        BY <3>1, <2>1, <1>4 DEF SlotSound
      <3>2. CASE g # h
        BY <3>2, <2>2, <1>1, <1>3, <1>4 DEF SlotSound, World
      <3>3. QED
        BY <3>1, <3>2
    <2>4. QED
      BY <2>3 DEF SlotsSound
  <1>9. OriginsSound'
    <2> DEFINE o == Origin(reqs[h])
    <2>1. /\ Entitled(reqs[h]) /\ Used(o)
          /\ \A i \in 1..n : tokens[i].from # o
          /\ \A g \in Reqs \ {h} : Entitled(reqs[g]) => Origin(reqs[g]) # o
      BY <1>1, <1>3 DEF IInv, OriginsSound, Entitled, At
    <2>2. \A i \in 1..n : Used(tokens[i].from)
      BY <1>3 DEF IInv, OriginsSound
    <2>3. (\A i \in DOMAIN tokens : Used(tokens[i].from))'
      <3>1. ASSUME NEW i \in 1..(n + 1) PROVE Used(tokens[i].from)'
        <4>1. CASE i = n + 1
          BY <4>1, <1>1, <1>3, <2>1 DEF Used, World
        <4>2. CASE i # n + 1
          <5>1. i \in 1..n
            BY <4>2, <1>3
          <5>2. QED
            BY <5>1, <1>1, <1>3, <2>2 DEF Used, World
        <4>3. QED
          BY <4>1, <4>2
      <3>2. QED
        BY <3>1, <1>3
    <2>4. ASSUME NEW g \in Reqs, Entitled(reqs'[g])
          PROVE /\ Used(Origin(reqs[g]))'
                /\ \A i \in DOMAIN tokens' : tokens'[i].from # Origin(reqs'[g])
                /\ \A k \in Reqs :
                      Entitled(reqs'[k]) /\ Origin(reqs'[k]) = Origin(reqs'[g]) => k = g
      <3>1. g # h /\ reqs'[g] = reqs[g] /\ Entitled(reqs[g])
        BY <2>4, <1>6
      <3>2. Used(Origin(reqs[g])) /\ \A i \in 1..n : tokens[i].from # Origin(reqs[g])
        BY <3>1, <1>3 DEF IInv, OriginsSound
      <3>3. Used(Origin(reqs[g]))'
        BY <3>1, <3>2, <1>1, <1>3 DEF Used, World
      <3>4. \A i \in 1..(n + 1) : tokens'[i].from # Origin(reqs[g])
        BY <3>1, <3>2, <2>1, <1>3
      <3>5. ASSUME NEW k \in Reqs, Entitled(reqs'[k]), Origin(reqs'[k]) = Origin(reqs'[g])
            PROVE k = g
        <4>1. reqs'[k] = reqs[k]
          BY <3>5, <1>6
        <4>2. QED
          BY <4>1, <3>1, <3>5 DEF IInv, OriginsSound
      <3>6. QED
        BY <3>1, <3>3, <3>4, <3>5, <1>3
    <2>5. OriginsAreUnique'
      <3>1. \A i, j \in 1..n : tokens[i].from = tokens[j].from => i = j
        BY <1>3 DEF IInv, OriginsSound, OriginsAreUnique
      <3>2. \A i \in 1..(n + 1) : i = n + 1 \/ i \in 1..n
        BY <1>3
      <3>3. QED
        BY <3>1, <3>2, <2>1, <1>3 DEF OriginsAreUnique
    <2>6. QED
      BY <2>3, <2>4, <2>5 DEF OriginsSound, Entitled, Origin
  <1>10. StepsSound'
    <2>1. reqs[h].by \in Nat =>
             /\ Claimed(reqs[h]) /\ Spent(reqs[h].by)
             /\ \A i \in 1..n : tokens[i].by # reqs[h].by
             /\ \A g \in Reqs \ {h} : Claimed(reqs[g]) => reqs[g].by # reqs[h].by
      BY <1>1, <1>3 DEF IInv, StepsSound, Claimed, At
    <2>2. \A i \in 1..(n + 1) : i = n + 1 \/ i \in 1..n
      BY <1>3
    <2>3. \A i \in 1..n : tokens[i].by \in Nat => Spent(tokens[i].by)
      BY <1>3 DEF IInv, StepsSound
    <2>4. (\A i \in DOMAIN tokens : tokens[i].by \in Nat => Spent(tokens[i].by))'
      BY <2>1, <2>2, <2>3, <1>1, <1>3 DEF Spent
    <2>5. ASSUME NEW g \in Reqs, Claimed(reqs'[g])
          PROVE /\ Spent(reqs[g].by)'
                /\ \A i \in DOMAIN tokens' : tokens'[i].by # reqs'[g].by
                /\ \A k \in Reqs :
                      Claimed(reqs'[k]) /\ reqs'[k].by = reqs'[g].by => k = g
      <3>1. g # h /\ reqs'[g] = reqs[g] /\ Claimed(reqs[g]) /\ reqs[g].by \in Nat
        BY <2>5, <1>6 DEF Claimed
      <3>2. Spent(reqs[g].by) /\ \A i \in 1..n : tokens[i].by # reqs[g].by
        BY <3>1, <1>3 DEF IInv, StepsSound
      <3>3. Spent(reqs[g].by)'
        BY <3>1, <3>2, <1>1 DEF Spent
      <3>4. \A i \in 1..(n + 1) : tokens'[i].by # reqs[g].by
        BY <3>1, <3>2, <2>1, <2>2, <1>3
      <3>5. ASSUME NEW k \in Reqs, Claimed(reqs'[k]), reqs'[k].by = reqs'[g].by
            PROVE k = g
        <4>1. reqs'[k] = reqs[k]
          BY <3>5, <1>6
        <4>2. QED
          BY <4>1, <3>1, <3>5 DEF IInv, StepsSound
      <3>6. QED
        BY <3>1, <3>3, <3>4, <3>5, <1>3
    <2>6. StepsAreUnique'
      <3>1. \A i, j \in 1..n :
               tokens[i].by \in Nat /\ tokens[i].by = tokens[j].by => i = j
        BY <1>3 DEF IInv, StepsSound, StepsAreUnique
      <3>2. QED
        BY <3>1, <2>1, <2>2, <1>3 DEF StepsAreUnique
    <2>7. QED
      BY <2>4, <2>5, <2>6 DEF StepsSound, Claimed
  <1>11. LimitLocks'
    BY <1>1, <1>4, LimitFrame DEF IInv, TypeOK, At, World
  <1>12. QED
    BY <1>7, <1>8, <1>9, <1>10, <1>11 DEF IInv

\* refresh reads a row of the token it was given, live or rotated out.
LEMMA RefreshLoadKeeps ==
    ASSUME IInv, NEW h \in Reqs, NEW id \in DOMAIN tokens, RefreshLoad(h, id) PROVE IInv'
  <1> DEFINE w == [Idle EXCEPT !.pc = IF tokens[id].revoked THEN "revokeAll" ELSE "rotate",
                               !.id = id]
  <1>1. /\ TypeOK /\ At(h, "idle") /\ Go(h, w) /\ stray' \in BOOLEAN
        /\ UNCHANGED <<admin, tokens, cookie, World>>
    BY DEF IInv, RefreshLoad
  <1>2. /\ w \in Work /\ w.pc \in {"revokeAll", "rotate"}
        /\ w.challenge = None /\ w.by = None /\ w.id = id
    BY <1>1, TokensAreTyped, IdleIsWork DEF Work, Steps, Idle
  <1>3. SlotSound(w) /\ ~Entitled(w) /\ ~Claimed(w)
    BY <1>2, NoneAssumption DEF SlotSound, Entitled, Claimed
  <1>4. LimitLocks'
    BY <1>1, GoMoves, LimitFrame DEF IInv, TypeOK, At, World
  <1>5. QED
    BY <1>1, <1>2, <1>3, <1>4, PlainMove DEF IInv, TypeOK, World

\* A step that revokes rows and moves no slot towards a session.
LEMMA RevocationKeeps ==
    ASSUME IInv, NEW ids, Revoke(ids), UNCHANGED <<admin, World>>,
           cookie' \in Nat \cup {None}, stray' \in BOOLEAN,
           reqs' \in [Reqs -> Work],
           \A h \in Reqs : reqs'[h] = reqs[h] \/ (reqs'[h] = Idle /\ ~At(h, "lock"))
    PROVE IInv'
  <1>1. /\ TypeOK /\ tokens' \in Seq(Tokens) /\ DOMAIN tokens' = DOMAIN tokens
        /\ \A i \in DOMAIN tokens :
              /\ tokens'[i].from = tokens[i].from /\ tokens'[i].by = tokens[i].by
              /\ tokens[i].revoked => tokens'[i].revoked
    BY RevokeChanges DEF IInv
  <1>2. Idle \in Work /\ Idle.pc = "idle" /\ Idle.challenge = None /\ Idle.by = None
    BY IdleIsWork DEF Idle
  <1>3. TypeOK'
    BY <1>1 DEF TypeOK, World
  <1>4. SlotsSound'
    <2>1. \A g \in Reqs : reqs[g] \in Work /\ SlotSound(reqs[g])
      BY <1>1, WorkIsTyped DEF IInv, SlotsSound
    <2>2. ASSUME NEW g \in Reqs PROVE SlotSound(reqs[g])'
      <3>1. CASE reqs'[g] = reqs[g]
        BY <3>1, <2>1, <1>1 DEF SlotSound, World
      <3>2. CASE reqs'[g] = Idle
        BY <3>2, <1>2 DEF SlotSound
      <3>3. QED
        BY <3>1, <3>2
    <2>3. QED
      BY <2>2 DEF SlotsSound
  <1>5. OriginsSound'
    <2>1. \A g \in Reqs : Entitled(reqs'[g]) =>
                             Entitled(reqs[g]) /\ Origin(reqs'[g]) = Origin(reqs[g])
      BY <1>2 DEF Entitled
    <2>2. QED
      BY <2>1, <1>1, OriginsFrame DEF IInv, World
  <1>6. StepsSound'
    <2>1. \A g \in Reqs : Claimed(reqs'[g]) =>
                             Claimed(reqs[g]) /\ reqs'[g].by = reqs[g].by
      BY <1>2 DEF Claimed
    <2>2. QED
      BY <2>1, <1>1, StepsFrame DEF IInv, World
  <1>7. LimitLocks'
    BY <1>1, LimitFrame DEF IInv, TypeOK, At, World
  <1>8. QED
    BY <1>3, <1>4, <1>5, <1>6, <1>7 DEF IInv

\* The alarm revokes every row.
LEMMA RevokeAllKeeps ==
    ASSUME IInv, NEW h \in Reqs, RevokeAll(h) PROVE IInv'
  <1>1. /\ TypeOK /\ At(h, "revokeAll") /\ Revoke(DOMAIN tokens) /\ Quit(h)
        /\ UNCHANGED <<admin, cookie, stray, World>>
    BY DEF IInv, RevokeAll
  <1>2. /\ reqs'[h] = Idle /\ \A g \in Reqs \ {h} : reqs'[g] = reqs[g]
        /\ reqs' \in [Reqs -> Work]
    BY <1>1, QuitMoves
  <1>3. QED
    BY <1>1, <1>2, RevocationKeeps DEF At, TypeOK

\* Logout revokes a row, in one statement and from no slot.
LEMMA LogoutKeeps ==
    ASSUME IInv, NEW id \in DOMAIN tokens, Logout(id) PROVE IInv'
  <1> DEFINE ids == {k \in DOMAIN tokens : tokens[k].token = tokens[id].token}
  <1>1. /\ Revoke(ids) /\ cookie' = None /\ stray' \in BOOLEAN
        /\ UNCHANGED <<admin, reqs, World>>
    BY DEF Logout
  <1>2. reqs \in [Reqs -> Work]
    BY DEF IInv, TypeOK
  <1>3. QED
    BY <1>1, <1>2, RevocationKeeps

\* The slot that revokes a row is the only one entitled by it.
LEMMA RotateKeeps ==
    ASSUME IInv, NEW h \in Reqs, Rotate(h) PROVE IInv'
  <1> DEFINE id == reqs[h].id
  <1>1. /\ TypeOK /\ At(h, "rotate") /\ UNCHANGED <<admin, cookie, stray, World>>
        /\ SlotSound(reqs[h]) /\ reqs[h] \in Work
        /\ id \in DOMAIN tokens /\ reqs[h].challenge = None /\ reqs[h].by = None
    BY WorkIsTyped DEF IInv, SlotsSound, Rotate, SlotSound, At
  <1>2. CASE Then(h, "revokeAll") /\ UNCHANGED tokens
    <2> DEFINE w == [reqs[h] EXCEPT !.pc = "revokeAll"]
    <2>1. /\ w \in Work /\ w.challenge = None /\ w.by = None /\ w.pc = "revokeAll"
      BY <1>1 DEF Work, Steps
    <2>2. SlotSound(w) /\ ~Entitled(w) /\ ~Claimed(w)
      BY <1>1, <2>1, BareIsSound
    <2>3. Go(h, w)
      BY <1>2 DEF Then
    <2>4. LimitLocks'
      BY <1>1, <1>2, <2>3, GoMoves, LimitFrame DEF IInv, TypeOK, At, World
    <2>5. QED
      BY <1>1, <1>2, <2>1, <2>2, <2>3, <2>4, PlainMove DEF IInv, TypeOK, World
  <1>3. CASE ~tokens[id].revoked /\ Revoke({id}) /\ Then(h, "issue")
    <2>1. /\ reqs'[h].pc = "issue" /\ reqs'[h].challenge = None /\ reqs'[h].by = None
          /\ reqs'[h].id = id
          /\ \A g \in Reqs \ {h} : reqs'[g] = reqs[g]
          /\ reqs' \in [Reqs -> Work]
      BY <1>1, <1>3, ThenMoves DEF Steps
    <2>2. /\ tokens' \in Seq(Tokens) /\ DOMAIN tokens' = DOMAIN tokens
          /\ \A i \in DOMAIN tokens :
                /\ tokens'[i].from = tokens[i].from /\ tokens'[i].by = tokens[i].by
                /\ tokens[i].revoked => tokens'[i].revoked
          /\ tokens'[id].revoked
      BY <1>1, <1>3, RevokeChanges
    <2>3. ~Used(id)
      BY <1>1, <1>3, TokensAreTyped, NoneAssumption DEF Used
    <2>4. Origin(reqs'[h]) = id
      BY <2>1 DEF Origin
    <2>5. TypeOK'
      BY <1>1, <2>1, <2>2 DEF TypeOK, World
    <2>6. SlotsSound'
      <3>1. \A g \in Reqs : SlotSound(reqs[g]) /\ reqs[g] \in Work
        BY <1>1, WorkIsTyped DEF IInv, SlotsSound
      <3>2. ASSUME NEW g \in Reqs PROVE SlotSound(reqs[g])'
        BY <3>1, <1>1, <2>1, <2>2 DEF SlotSound, World
      <3>3. QED
        BY <3>2 DEF SlotsSound
    <2>7. OriginsSound'
      <3>1. (\A i \in DOMAIN tokens : Used(tokens[i].from))'
        BY <1>1, <2>2 DEF IInv, OriginsSound, Used, World
      <3>2. \A i \in DOMAIN tokens : tokens[i].from # id
        BY <2>3 DEF IInv, OriginsSound
      <3>3. \A g \in Reqs : Entitled(reqs[g]) => Origin(reqs[g]) # id
        BY <2>3 DEF IInv, OriginsSound
      <3>4. Used(Origin(reqs[h]))'
        BY <1>1, <2>2, <2>4 DEF Used
      <3>5. ASSUME NEW g \in Reqs, Entitled(reqs'[g])
            PROVE /\ Used(Origin(reqs[g]))'
                  /\ \A i \in DOMAIN tokens' : tokens'[i].from # Origin(reqs'[g])
                  /\ \A k \in Reqs :
                        Entitled(reqs'[k]) /\ Origin(reqs'[k]) = Origin(reqs'[g]) => k = g
        <4>1. CASE g = h
          BY <4>1, <3>2, <3>3, <3>4, <2>1, <2>2, <2>4
        <4>2. CASE g # h
          <5>1. reqs'[g] = reqs[g] /\ Entitled(reqs[g]) /\ Origin(reqs[g]) # id
            BY <4>2, <3>3, <3>5, <2>1
          <5>2. Used(Origin(reqs[g]))'
            BY <5>1, <1>1, <2>2 DEF IInv, OriginsSound, Used, World
          <5>3. \A i \in DOMAIN tokens' : tokens'[i].from # Origin(reqs'[g])
            BY <5>1, <2>2 DEF IInv, OriginsSound
          <5>4. ASSUME NEW k \in Reqs, Entitled(reqs'[k]),
                       Origin(reqs'[k]) = Origin(reqs'[g])
                PROVE k = g
            <6>1. k # h
              BY <5>1, <5>4, <2>4
            <6>2. QED
              BY <6>1, <5>1, <5>4, <2>1 DEF IInv, OriginsSound
          <5>5. QED
            BY <5>2, <5>3, <5>4
        <4>3. QED
          BY <4>1, <4>2
      <3>6. OriginsAreUnique'
        BY <2>2 DEF IInv, OriginsSound, OriginsAreUnique
      <3>7. QED
        BY <3>1, <3>5, <3>6 DEF OriginsSound, Entitled, Origin
    <2>8. StepsSound'
      <3>1. \A g \in Reqs : Claimed(reqs'[g]) =>
                               Claimed(reqs[g]) /\ reqs'[g].by = reqs[g].by
        BY <2>1, NoneAssumption DEF Claimed
      <3>2. QED
        BY <3>1, <1>1, <2>2, StepsFrame DEF IInv
    <2>9. LimitLocks'
      BY <1>1, <2>1, LimitFrame DEF IInv, TypeOK, At, World
    <2>10. QED
      BY <2>5, <2>6, <2>7, <2>8, <2>9 DEF IInv
  <1>4. QED
    BY <1>2, <1>3 DEF Rotate

-----------------------------------------------------------------------------
(* The reset script, time and faults.                                      *)

\* A step of no slot, or one that ends what slots were doing.
LEMMA OutsideMove ==
    ASSUME IInv, tokens' = tokens, challenges' = challenges,
           admin' \in Admin, admin'.lastStep = admin.lastStep, admin'.jti = admin.jti,
           cookie' = cookie, stray' = stray, now' \in 0..MaxTime, faults' \in 0..MaxFaults,
           reqs' \in [Reqs -> Work],
           \A h \in Reqs : reqs'[h] = reqs[h] \/ reqs'[h] = Idle,
           LimitLocks'
    PROVE IInv'
  <1>1. Idle.pc = "idle" /\ Idle.challenge = None /\ Idle.by = None
    BY DEF Idle
  <1>2. TypeOK'
    BY DEF IInv, TypeOK
  <1>3. SlotsSound'
    <2>1. \A g \in Reqs : SlotSound(reqs[g])
      BY DEF IInv, SlotsSound
    <2>2. ASSUME NEW g \in Reqs PROVE SlotSound(reqs[g])'
      <3>1. CASE reqs'[g] = reqs[g]
        BY <3>1, <2>1 DEF SlotSound
      <3>2. CASE reqs'[g] = Idle
        BY <3>2, <1>1 DEF SlotSound
      <3>3. QED
        BY <3>1, <3>2
    <2>3. QED
      BY <2>2 DEF SlotsSound
  <1>4. OriginsSound'
    <2>1. \A g \in Reqs : Entitled(reqs'[g]) =>
                             Entitled(reqs[g]) /\ Origin(reqs'[g]) = Origin(reqs[g])
      BY <1>1 DEF Entitled
    <2>2. QED
      BY <2>1, OriginsFrame DEF IInv
  <1>5. StepsSound'
    <2>1. \A g \in Reqs : Claimed(reqs'[g]) =>
                             Claimed(reqs[g]) /\ reqs'[g].by = reqs[g].by
      BY <1>1 DEF Claimed
    <2>2. QED
      BY <2>1, StepsFrame DEF IInv
  <1>6. QED
    BY <1>2, <1>3, <1>4, <1>5 DEF IInv

\* What happens outside the requests: the reset script, the clock, crashes.
LEMMA OutsideKeeps ==
    ASSUME IInv, ResetTotp \/ Tick \/ Crash \/ \E h \in Reqs : Abort(h)
    PROVE IInv'
  <1>1. TypeOK /\ reqs \in [Reqs -> Work] /\ Idle \in Work
    BY IdleIsWork DEF IInv, TypeOK
  <1>2. CASE ResetTotp
    <2>1. /\ admin' \in Admin /\ admin'.lastStep = admin.lastStep
          /\ admin'.jti = admin.jti /\ admin'.failed = 0
      BY <1>1, <1>2, ClearedIsAdmin DEF ResetTotp, Admin
    <2>2. LimitLocks'
      BY <2>1, NumbersAssumption DEF LimitLocks
    <2>3. QED
      BY <1>1, <1>2, <2>1, <2>2, OutsideMove DEF ResetTotp, Sessions, World, TypeOK
  <1>3. CASE Tick
    <2>1. LimitLocks'
      BY <1>3 DEF IInv, LimitLocks, Tick, At
    <2>2. now' \in 0..MaxTime
      BY <1>1, <1>3, NumbersAssumption DEF Tick, TypeOK
    <2>3. QED
      BY <1>1, <1>3, <2>1, <2>2, OutsideMove DEF Tick, Sessions, TypeOK
  <1>4. CASE Crash \/ \E h \in Reqs : Abort(h)
    <2>1. faults' \in 0..MaxFaults /\ faults' > 0
      BY <1>1, <1>4, NumbersAssumption DEF Crash, Abort, TypeOK
    <2>2. LimitLocks'
      BY <2>1 DEF LimitLocks
    <2>3. /\ reqs' \in [Reqs -> Work]
          /\ \A h \in Reqs : reqs'[h] = reqs[h] \/ reqs'[h] = Idle
      BY <1>1, <1>4 DEF Crash, Abort, Quit, Go
    <2>4. QED
      BY <1>1, <1>4, <2>1, <2>2, <2>3, OutsideMove DEF Crash, Abort, Sessions, TypeOK
  <1>5. QED
    BY <1>2, <1>3, <1>4

-----------------------------------------------------------------------------
(* The theorems.                                                           *)

\* The seeded account satisfies the invariant.
LEMMA InvariantAtFirst == Init => IInv
  <1> SUFFICES ASSUME Init PROVE IInv
    OBVIOUS
  <1>1. /\ tokens = <<>> /\ Len(tokens) = 0 /\ DOMAIN tokens = {}
        /\ tokens \in Seq(Tokens)
    BY EmptySeq DEF Init
  <1>2. /\ Idle \in Work /\ Idle.pc = "idle"
        /\ Idle.challenge = None /\ Idle.by = None
    BY IdleIsWork DEF Idle
  <1>3. TypeOK
    <2>1. admin \in Admin
      BY DEF Init, Admin
    <2>2. reqs \in [Reqs -> Work] /\ challenges \in [Challenges -> Purposes \cup {None}]
      BY <1>2 DEF Init
    <2>3. now \in 0..MaxTime /\ faults \in 0..MaxFaults
      BY NumbersAssumption DEF Init
    <2>4. QED
      BY <1>1, <2>1, <2>2, <2>3 DEF Init, TypeOK
  <1>4. SlotsSound
    BY <1>2 DEF Init, SlotsSound, SlotSound
  <1>5. OriginsSound /\ StepsSound
    BY <1>1, <1>2 DEF Init, OriginsSound, OriginsAreUnique, Entitled,
                      StepsSound, StepsAreUnique, Claimed
  <1>6. LimitLocks
    BY NumbersAssumption DEF Init, LimitLocks
  <1>7. QED
    BY <1>3, <1>4, <1>5, <1>6 DEF IInv

\* Every step keeps the invariant.
LEMMA InvariantThroughout == IInv /\ [Next]_vars => IInv'
  <1> SUFFICES ASSUME IInv, [Next]_vars PROVE IInv'
    OBVIOUS
  <1>1. CASE UNCHANGED vars
    <2>1. /\ admin' = admin /\ tokens' = tokens /\ challenges' = challenges
          /\ reqs' = reqs /\ cookie' = cookie /\ stray' = stray
          /\ now' = now /\ faults' = faults
      BY <1>1 DEF vars
    <2>2. LimitLocks'
      BY <2>1 DEF IInv, LimitLocks, At
    <2>3. QED
      BY <2>1, <2>2, OutsideMove DEF IInv, TypeOK
  <1>2. ASSUME NEW h \in Reqs, Password(h) PROVE IInv'
    BY <1>2, LoginLoadKeeps, LoginWrongKeeps, LoginClearKeeps, LoginSecretKeeps,
       LoginSignKeeps DEF Password
  <1>3. ASSUME NEW h \in Reqs, Code(h) PROVE IInv'
    BY <1>3, VerifyLoadKeeps, ClaimKeeps, SpendBackupKeeps, ConsumeKeeps, EnableKeeps,
       VerifyClearKeeps, RegisterFailedKeeps, LockKeeps DEF Code
  <1>4. ASSUME NEW h \in Reqs, Session(h) PROVE IInv'
    BY <1>4, IssueSessionKeeps, RotateKeeps, RevokeAllKeeps, RefreshLoadKeeps DEF Session
  <1>5. QED
    BY <1>1, <1>2, <1>3, <1>4, LogoutKeeps, OutsideKeeps DEF Next

\* IInv holds in every reachable state, for any number of requests,
\* challenges, rows, attempts and faults.
THEOREM InvariantAlways == Spec => []IInv
  BY InvariantAtFirst, InvariantThroughout, PTL DEF Spec

\* Every variable keeps its type.
THEOREM TypesAlways == Spec => []TypeOK
  <1>1. IInv => TypeOK
    BY DEF IInv
  <1>2. QED
    BY <1>1, InvariantAlways, PTL

\* A challenge opens one session and a refresh token is exchanged for one
\* (consumeChallenge, refresh).
THEOREM OriginsOnce == Spec => []OriginsAreUnique
  <1>1. IInv => OriginsAreUnique
    BY DEF IInv, OriginsSound
  <1>2. QED
    BY <1>1, InvariantAlways, PTL

\* A TOTP code opens at most one session (acceptTotpCode).
THEOREM StepsOnce == Spec => []StepsAreUnique
  <1>1. IInv => StepsAreUnique
    BY DEF IInv, StepsSound
  <1>2. QED
    BY <1>1, InvariantAlways, PTL

\* Wrong answers that reach the limit lock the account (registerFailedLogin).
THEOREM LimitAlwaysLocks == Spec => []LimitLocks
  <1>1. IInv => LimitLocks
    BY DEF IInv
  <1>2. QED
    BY <1>1, InvariantAlways, PTL

-----------------------------------------------------------------------------
(* The refinement of SessionLedger.                                        *)

\* A session of SessionLedger.
SessionRecords == [from : Nat, live : BOOLEAN]

\* There is a session for each row.
RowsMatch == /\ SessionsOf \in Seq(SessionRecords) /\ Len(SessionsOf) = Len(tokens)
             /\ DOMAIN SessionsOf = DOMAIN tokens
             /\ \A i \in DOMAIN tokens : SessionsOf[i] = SessionOf(tokens[i])

\* The sessions are a sequence as the rows are.
LEMMA RowsAreSessions == TypeOK => RowsMatch
  <1> SUFFICES ASSUME TypeOK PROVE RowsMatch
    OBVIOUS
  <1>1. \A i \in DOMAIN tokens : SessionOf(tokens[i]) \in SessionRecords
    BY TokensAreTyped DEF SessionOf, SessionRecords
  <1>2. /\ Len(tokens) \in Nat /\ SessionsOf \in [1..Len(tokens) -> SessionRecords]
        /\ \A i \in DOMAIN tokens : SessionsOf[i] = SessionOf(tokens[i])
    BY <1>1, TokensAreTyped DEF SessionsOf
  <1>3. SessionsOf \in Seq(SessionRecords)
    BY <1>2, SeqDef
  <1>4. QED
    BY <1>2, <1>3, TokensAreTyped, LenProperties DEF RowsMatch

\* The same of the next state.
LEMMA RowsAreSessionsNext == TypeOK' => RowsMatch'
  BY RowsAreSessions, PTL

\* A session that ends if it is among those that end.
LEMMA SessionEnds ==
    ASSUME NEW f, NEW live \in BOOLEAN, NEW ended \in BOOLEAN
    PROVE /\ [[from |-> f, live |-> live] EXCEPT !.live = @ /\ ~ended]
                = [from |-> f, live |-> live /\ ~ended]
          /\ [from |-> f, live |-> live].live = live
  <1>1. [from |-> f, live |-> live].live = live
    OBVIOUS
  <1>2. [[from |-> f, live |-> live] EXCEPT !.live = live /\ ~ended]
           = [from |-> f, live |-> live /\ ~ended]
    OBVIOUS
  <1>3. QED
    BY <1>1, <1>2

\* Rows that are revoked are sessions that end.
LEMMA RevokingEnds ==
    ASSUME TypeOK, TypeOK', NEW ids, Revoke(ids)
    PROVE Ledger!Next
  <1> DEFINE S == ids \cap DOMAIN tokens
  <1>1. /\ DOMAIN tokens' = DOMAIN tokens /\ RowsMatch /\ RowsMatch'
        /\ \A i \in DOMAIN tokens :
              /\ tokens'[i].from = tokens[i].from
              /\ tokens'[i].revoked = (tokens[i].revoked \/ i \in ids)
    BY RevokeChanges, RowsAreSessions, RowsAreSessionsNext
  <1>2. \A i \in DOMAIN tokens :
           SessionsOf'[i] = [SessionsOf[i] EXCEPT !.live = @ /\ i \notin S]
    <2> TAKE i \in DOMAIN tokens
    <2> DEFINE f == IF tokens[i].from \in Challenges THEN 0 ELSE tokens[i].from
    <2>1. SessionsOf[i] = [from |-> f, live |-> ~tokens[i].revoked]
      BY <1>1 DEF RowsMatch, SessionOf
    <2>2. SessionsOf'[i] = [from |-> f, live |-> ~tokens'[i].revoked]
      BY <1>1 DEF RowsMatch, SessionOf
    <2>3. (~tokens'[i].revoked) = ((~tokens[i].revoked) /\ i \notin S)
      BY <1>1, TokensAreTyped
    <2>4. [SessionsOf[i] EXCEPT !.live = @ /\ i \notin S]
             = [from |-> f, live |-> (~tokens[i].revoked) /\ i \notin S]
      <3>1. (~tokens[i].revoked) \in BOOLEAN /\ (i \in S) \in BOOLEAN
        OBVIOUS
      <3>2. QED
        BY <2>1, <3>1, SessionEnds
    <2>5. QED
      BY <2>2, <2>3, <2>4
  <1>3. /\ SessionsOf' = [i \in DOMAIN SessionsOf |-> SessionsOf'[i]]
        /\ DOMAIN SessionsOf = DOMAIN tokens
    BY <1>1 DEF RowsMatch, SessionsOf
  <1>4. Ledger!End(S)
    BY <1>2, <1>3 DEF Ledger!End
  <1>5. S \in SUBSET DOMAIN SessionsOf
    BY <1>3
  <1>6. QED
    BY <1>4, <1>5 DEF Ledger!Next

\* SessionLedger counts with an instance's Cardinality, which is the same.
LEMMA CountsAgree ==
    ASSUME NEW S
    PROVE Ledger!Cardinality(S) = Cardinality(S)
  BY DEF Ledger!Cardinality, Cardinality, Ledger!IsFiniteSet, IsFiniteSet

\* A row that is stored is a session that is opened, for a challenge or for a
\* row that is revoked and has no successor.
LEMMA IssuingOpens ==
    ASSUME IInv, TypeOK', NEW h \in Reqs, IssueSession(h)
    PROVE Ledger!Next
  <1> DEFINE from == Origin(reqs[h])
             new == [token |-> now, revoked |-> FALSE, from |-> from, by |-> reqs[h].by]
             n == Len(tokens)
             i0 == IF from \in Challenges THEN 0 ELSE from
  <1>1. TypeOK /\ RowsMatch /\ RowsMatch' /\ tokens' = Append(tokens, new)
    BY RowsAreSessions, RowsAreSessionsNext DEF IInv, IssueSession
  <1>2. new \in Tokens /\ from \in Challenges \cup Nat
    BY <1>1, WorkIsTyped, AdminIsTyped DEF Tokens
  <1>3. /\ n \in Nat /\ DOMAIN tokens = 1..n /\ DOMAIN tokens' = 1..(n + 1)
        /\ Len(tokens') = n + 1
        /\ \A i \in 1..n : tokens'[i] = tokens[i]
        /\ tokens'[n + 1] = new
    <2>1. tokens \in Seq(Tokens)
      BY <1>1 DEF TypeOK
    <2>2. Len(tokens') = n + 1
      BY <1>1, <1>2, <2>1, AppendProperties
    <2>3. QED
      BY <1>1, <1>2, <2>1, <2>2, AppendProperties, LenProperties
  <1>4. SessionsOf' = Ledger!With(i0)
    <2>1. i0 \in Nat
      BY <1>2
    <2>2. SessionOf(new) = [from |-> i0, live |-> TRUE]
      BY DEF SessionOf
    <2>3. [from |-> i0, live |-> TRUE] \in SessionRecords
      BY <2>1 DEF SessionRecords
    <2>4. SessionsOf \in Seq(SessionRecords) /\ Len(SessionsOf) = n
      BY <1>1 DEF RowsMatch
    <2>5. /\ Ledger!With(i0) \in Seq(SessionRecords) /\ Len(Ledger!With(i0)) = n + 1
          /\ \A i \in 1..n : Ledger!With(i0)[i] = SessionsOf[i]
          /\ Ledger!With(i0)[n + 1] = [from |-> i0, live |-> TRUE]
      BY <2>3, <2>4, AppendProperties DEF Ledger!With
    <2>6. /\ SessionsOf' \in Seq(SessionRecords) /\ Len(SessionsOf') = n + 1
          /\ \A i \in 1..(n + 1) : SessionsOf'[i] = SessionOf(tokens'[i])
      BY <1>1, <1>3 DEF RowsMatch
    <2>7. \A i \in 1..n : SessionsOf'[i] = SessionsOf[i]
      BY <1>1, <1>3, <2>6 DEF RowsMatch
    <2>8. \A i \in 1..(n + 1) : SessionsOf'[i] = Ledger!With(i0)[i]
      <3>1. \A i \in 1..(n + 1) : i \in 1..n \/ i = n + 1
        BY <1>3
      <3>2. SessionsOf'[n + 1] = [from |-> i0, live |-> TRUE]
        BY <1>3, <2>2, <2>6
      <3>3. QED
        BY <2>5, <2>7, <3>1, <3>2
    <2>9. QED
      BY <2>5, <2>6, <2>8, SeqEqual
  <1>5. CASE from \in Challenges
    BY <1>4, <1>5 DEF Ledger!Next, Ledger!SignIn
  <1>6. CASE from \notin Challenges
    <2>1. /\ Used(from) /\ \A i \in DOMAIN tokens : tokens[i].from # from
      BY DEF IInv, OriginsSound, IssueSession, At, Entitled
    <2>2. from \in DOMAIN SessionsOf /\ ~SessionsOf[from].live
      <3>1. from \in DOMAIN tokens /\ tokens[from].revoked
        BY <1>6, <2>1 DEF Used
      <3>2. SessionsOf[from] = SessionOf(tokens[from]) /\ from \in DOMAIN SessionsOf
        BY <1>1, <3>1 DEF RowsMatch
      <3>3. SessionOf(tokens[from]).live = (~tokens[from].revoked)
        BY SessionEnds DEF SessionOf
      <3>4. QED
        BY <3>1, <3>2, <3>3
    <2>3. \A i \in DOMAIN tokens : SessionsOf[i].from # from
      <3>1. from # 0
        BY <1>1, <1>3, <2>2 DEF RowsMatch
      <3>2. QED
        BY <1>1, <2>1, <3>1 DEF RowsMatch, SessionOf
    <2>4. Ledger!Successors(from) = {}
      BY <1>1, <2>3 DEF Ledger!Successors, RowsMatch
    <2>5. Ledger!Cardinality(Ledger!Successors(from)) = 0
      BY <2>4, CountsAgree, FS_EmptySet
    <2>6. Ledger!Exchange(from)
      BY <1>4, <1>6, <2>2, <2>5 DEF Ledger!Exchange
    <2>7. QED
      BY <2>2, <2>6 DEF Ledger!Next
  <1>7. QED
    BY <1>5, <1>6

\* The root sessions are a session ledger whose sessions are exchanged once: no
\* request revives, loses or doubles one (refresh, consumeChallenge, logout).
THEOREM LedgerImplemented == Spec => LedgerPromise
  <1>1. Init => Ledger!Init
    <2> SUFFICES ASSUME Init PROVE SessionsOf = <<>>
      BY DEF Ledger!Init
    <2>1. tokens = <<>> /\ TypeOK
      BY InvariantAtFirst DEF Init, IInv
    <2>2. SessionsOf \in Seq(SessionRecords) /\ Len(SessionsOf) = 0
      BY <2>1, RowsAreSessions, EmptySeq DEF RowsMatch
    <2>3. QED
      BY <2>2, EmptySeq
  <1>2. ASSUME IInv, IInv', [Next]_vars
        PROVE [Ledger!Next]_(SessionsOf)
    <2>1. CASE tokens' = tokens
      BY <2>1 DEF SessionsOf
    <2>2. TypeOK /\ TypeOK'
      BY <1>2 DEF IInv
    <2>3. ASSUME NEW ids, Revoke(ids)
          PROVE Ledger!Next
      BY <2>2, <2>3, RevokingEnds
    <2>4. ASSUME NEW h \in Reqs, IssueSession(h)
          PROVE Ledger!Next
      BY <1>2, <2>2, <2>4, IssuingOpens
    <2>5. ASSUME NEW h \in Reqs, Password(h) \/ Code(h) \/ Abort(h)
          PROVE tokens' = tokens
      BY <2>5 DEF Password, Code, Abort, LoginLoad, LoginWrong, LoginClear, LoginSecret,
                  LoginSign, VerifyLoad, Claim, SpendBackup, Consume, Enable, VerifyClear,
                  RegisterFailed, Lock, Sessions
    <2>6. ASSUME NEW h \in Reqs, Session(h)
          PROVE [Ledger!Next]_(SessionsOf)
      <3>1. CASE \E id \in DOMAIN tokens : RefreshLoad(h, id)
        BY <2>1, <3>1 DEF RefreshLoad
      <3>2. CASE Rotate(h)
        BY <2>1, <2>3, <3>2 DEF Rotate
      <3>3. CASE RevokeAll(h)
        BY <2>3, <3>3 DEF RevokeAll
      <3>4. QED
        BY <2>4, <2>6, <3>1, <3>2, <3>3 DEF Session
    <2>7. ASSUME NEW id \in DOMAIN tokens, Logout(id)
          PROVE Ledger!Next
      BY <2>3, <2>7 DEF Logout
    <2>8. CASE ResetTotp \/ Tick \/ Crash
      BY <2>1, <2>8 DEF ResetTotp, Tick, Crash, Sessions
    <2>9. CASE UNCHANGED vars
      BY <2>1, <2>9 DEF vars
    <2>10. QED
      BY <1>2, <2>1, <2>5, <2>6, <2>7, <2>8, <2>9 DEF Next
  <1>3. IInv /\ [Next]_vars => IInv'
    BY InvariantThroughout
  <1>4. QED
    BY <1>1, <1>2, InvariantAlways, PTL DEF Spec, LedgerPromise, Ledger!Spec
=============================================================================
