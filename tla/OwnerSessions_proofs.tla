------------------------- MODULE OwnerSessions_proofs -------------------------
(***************************************************************************)
(* Proofs about OwnerSessions, for every choice of its constants.          *)
(*                                                                         *)
(* The invariant has three parts that are proved one after the other: the  *)
(* types with what the rows and the requests say of each other (Sound),    *)
(* the sessions that outlive a reset (ResetsSound), and the browser        *)
(* (BrowserSound).  Each has a lemma for the steps that leave alone what   *)
(* it is about, and one for each step that does not.                       *)
(* The bound on wrong passwords (DelaysBounded) and the refinement of      *)
(* SessionLedger (ExchangesSound) rest on the first of them.               *)
(***************************************************************************)
EXTENDS OwnerSessions, FiniteSetTheorems, SequenceTheorems, WellFoundedInduction, TLAPS

Sound == TypeOK /\ NothingBeforeSignup /\ RequestsSound /\ RevokedFirst

-----------------------------------------------------------------------------
(* Types.                                                                  *)

\* The fields of a request.
LEMMA RequestIsTyped ==
    ASSUME TypeOK, NEW h \in Reqs
    PROVE /\ reqs[h] \in Work
          /\ reqs[h].pc \in Steps /\ reqs[h].kind \in Kinds \cup {None}
          /\ reqs[h].tab \in Tabs \cup {None} /\ reqs[h].failed \in Nat
          /\ reqs[h].id \in Nat /\ reqs[h].link \in Links \cup {None}
          /\ reqs[h].epoch \in Nat /\ reqs[h].token \in Nat
  BY DEF TypeOK, Work

\* A free slot.
LEMMA IdleIsTyped ==
    /\ Idle \in Work
    /\ Idle.pc = "idle" /\ Idle.kind = None /\ Idle.tab = None /\ Idle.id = 0
  BY DEF Idle, Work, Steps

\* A step of a request changes its slot only.
LEMMA GoChangesOne ==
    ASSUME TypeOK, NEW h \in Reqs, NEW work, Go(h, work)
    PROVE /\ reqs'[h] = work /\ \A g \in Reqs : g # h => reqs'[g] = reqs[g]
          /\ work \in Work => reqs' \in [Reqs -> Work]
  BY DEF TypeOK, Go

\* A step that changes the pc only.
LEMMA ThenChangesPc ==
    ASSUME TypeOK, NEW h \in Reqs, NEW pc \in Steps
    PROVE LET work == [reqs[h] EXCEPT !.pc = pc]
          IN  /\ work \in Work /\ work.pc = pc
              /\ work.kind = reqs[h].kind /\ work.tab = reqs[h].tab
              /\ work.id = reqs[h].id /\ work.link = reqs[h].link
              /\ work.epoch = reqs[h].epoch /\ work.token = reqs[h].token
  BY RequestIsTyped DEF Work

\* The rows of refresh_tokens.
LEMMA RowsAreTyped ==
    ASSUME TypeOK
    PROVE /\ tokens \in Seq(Tokens) /\ Len(tokens) \in Nat
          /\ DOMAIN tokens = 1..Len(tokens)
          /\ \A i \in DOMAIN tokens :
                /\ tokens[i] \in Tokens
                /\ tokens[i].token \in Nat /\ tokens[i].revoked \in BOOLEAN
                /\ tokens[i].from \in Nat /\ tokens[i].epoch \in Nat
  <1>1. tokens \in Seq(Tokens)
    BY DEF TypeOK
  <1>2. \A i \in DOMAIN tokens : tokens[i] \in Tokens
    BY <1>1, ElementOfSeq, LenProperties
  <1>3. QED
    BY <1>1, <1>2, LenProperties DEF Tokens

\* Rows that are only revoked.
OnlyRevoked ==
    /\ tokens' \in [DOMAIN tokens -> Tokens]
    /\ \A i \in DOMAIN tokens :
          /\ tokens'[i].token = tokens[i].token /\ tokens'[i].from = tokens[i].from
          /\ tokens'[i].epoch = tokens[i].epoch
          /\ tokens[i].revoked => tokens'[i].revoked

\* ... are rows still, in the same order.
LEMMA RevokingKeepsRows ==
    ASSUME TypeOK, OnlyRevoked
    PROVE /\ tokens' \in Seq(Tokens) /\ DOMAIN tokens' = DOMAIN tokens
          /\ tokens = <<>> => tokens' = <<>>
  <1>1. tokens' \in [1..Len(tokens) -> Tokens] /\ Len(tokens) \in Nat
    BY RowsAreTyped DEF OnlyRevoked
  <1>2. tokens' \in Seq(Tokens) /\ DOMAIN tokens' = 1..Len(tokens)
    BY <1>1, SeqDef
  <1>3. tokens = <<>> => tokens' = <<>>
    <2>1. ASSUME tokens = <<>>
          PROVE tokens' = <<>>
      <3>1. Len(tokens) = 0
        BY <2>1
      <3>2. Len(tokens') = 0
        BY <1>1, <1>2, <3>1, LenProperties
      <3>3. QED
        BY <1>2, <3>2, EmptySeq
    <2>2. QED
      BY <2>1
  <1>4. QED
    BY <1>2, <1>3, RowsAreTyped

\* Leaving the rows alone is a case of it, and so is revoking one.
LEMMA SomeAreRevoked ==
    ASSUME TypeOK, NEW S,
           tokens' = [i \in DOMAIN tokens |->
                        IF i \in S THEN [tokens[i] EXCEPT !.revoked = TRUE] ELSE tokens[i]]
    PROVE OnlyRevoked
  <1>1. ASSUME NEW i \in DOMAIN tokens
        PROVE /\ tokens'[i] \in Tokens
              /\ tokens'[i].token = tokens[i].token /\ tokens'[i].from = tokens[i].from
              /\ tokens'[i].epoch = tokens[i].epoch
              /\ tokens[i].revoked => tokens'[i].revoked
    BY RowsAreTyped DEF Tokens
  <1>2. QED
    BY <1>1 DEF OnlyRevoked

\* Rows that stay are rows that are only revoked.
LEMMA NoneAreRevoked ==
    ASSUME TypeOK, tokens' = tokens
    PROVE OnlyRevoked
  BY RowsAreTyped DEF OnlyRevoked

-----------------------------------------------------------------------------
(* Requests and rows.                                                      *)

\* What RequestsSound says of one request, over some rows and links.
WorkSound(work, rows, ls) ==
    /\ work.pc \in {"granted", "denied", "left"} => work.tab # None
    /\ work.pc = "reset" => work.link # None /\ ls[work.link] # None
    /\ work.id = 0 \/ work.id \in DOMAIN rows
    /\ work.pc = "rotate" => work.id # 0
    /\ work.pc \in {"create", "mail", "clear"} => work.id = 0
    /\ work.pc = "create" => work.kind = "signup"
    /\ work.pc = "issue" /\ work.id # 0 => rows[work.id].revoked

\* The types of what neither the rows nor the requests are about.
RestTyped == /\ cookie \in Nat \cup {None}
             /\ tabs \in [Tabs -> TabStates]
             /\ guesses \in Nat
             /\ disturbed \in BOOLEAN
             /\ now \in 0..MaxTime
             /\ faults \in 0..MaxFaults

\* A link that is there stays there.
LinksStay == /\ links' \in [Links -> ResetLinks \cup {None}]
             /\ \A l \in Links : links[l] # None => links'[l] # None

\* No step deletes the account.
UserStays == user' \in User \cup {None} /\ (user # None => user' # None)

\* A step of one request that adds no row.
LEMMA SoundStep ==
    ASSUME Sound, RestTyped', LinksStay, UserStays, OnlyRevoked,
           NEW h \in Reqs, NEW work \in Work, Go(h, work), WorkSound(work, tokens', links'),
           work.pc \in {"idle", "create", "denied", "left"} \/ user' # None,
           user' = None => links' = links
    PROVE Sound'
  <1>1. /\ reqs' \in [Reqs -> Work] /\ reqs'[h] = work
        /\ \A g \in Reqs : g # h => reqs'[g] = reqs[g]
    BY GoChangesOne DEF Sound
  <1>2. /\ tokens' \in Seq(Tokens) /\ DOMAIN tokens' = DOMAIN tokens
        /\ tokens = <<>> => tokens' = <<>>
    BY RevokingKeepsRows DEF Sound
  <1>3. TypeOK'
    BY <1>1, <1>2 DEF RestTyped, LinksStay, UserStays, TypeOK
  <1>4. NothingBeforeSignup'
    <2>1. ASSUME user' = None
          PROVE /\ user = None /\ links' = links /\ tokens' = <<>>
                /\ \A g \in Reqs : reqs'[g].pc \in {"idle", "create", "denied", "left"}
      BY <1>1, <1>2, <2>1 DEF UserStays, Sound, NothingBeforeSignup
    <2>2. QED
      BY <2>1 DEF Sound, NothingBeforeSignup
  <1>5. RequestsSound'
    <2>1. ASSUME NEW g \in Reqs
          PROVE WorkSound(reqs'[g], tokens', links')
      <3>1. CASE g = h
        BY <1>1, <3>1
      <3>2. CASE g # h
        <4>1. reqs'[g] = reqs[g] /\ reqs[g].link \in Links \cup {None}
          BY <1>1, <3>2, RequestIsTyped DEF Sound
        <4>2. WorkSound(reqs[g], tokens, links)
          BY DEF Sound, RequestsSound, WorkSound, At
        <4>3. QED
          BY <1>2, <4>1, <4>2 DEF WorkSound, LinksStay, OnlyRevoked
      <3>3. QED
        BY <3>1, <3>2
    <2>2. QED
      BY <2>1 DEF RequestsSound, WorkSound, At
  <1>6. RevokedFirst'
    <2>1. ASSUME NEW i \in DOMAIN tokens', tokens'[i].from # 0
          PROVE tokens'[i].from < i /\ tokens'[tokens'[i].from].revoked
      <3>1. i \in DOMAIN tokens /\ tokens'[i].from = tokens[i].from
        BY <1>2 DEF OnlyRevoked
      <3>2. tokens[i].from < i /\ tokens[tokens[i].from].revoked
        BY <2>1, <3>1 DEF Sound, RevokedFirst
      <3>3. tokens[i].from \in DOMAIN tokens
        BY <2>1, <3>1, <3>2, RowsAreTyped DEF Sound
      <3>4. QED
        BY <3>1, <3>2, <3>3 DEF OnlyRevoked
    <2>2. QED
      BY <2>1 DEF RevokedFirst
  <1>7. QED
    BY <1>3, <1>4, <1>5, <1>6 DEF Sound

\* A step of no request: the mail, the clock, a tab.
LEMMA SoundFrame ==
    ASSUME Sound, RestTyped', LinksStay, UserStays, UNCHANGED <<tokens, reqs>>,
           user' = None => links' = links
    PROVE Sound'
  <1>1. TypeOK'
    BY DEF Sound, TypeOK, RestTyped, LinksStay, UserStays
  <1>2. NothingBeforeSignup' /\ RevokedFirst'
    BY DEF Sound, NothingBeforeSignup, RevokedFirst, UserStays
  <1>3. RequestsSound'
    <2>1. \A h \in Reqs : reqs[h].link \in Links \cup {None}
      BY RequestIsTyped DEF Sound
    <2>2. QED
      BY <2>1 DEF Sound, RequestsSound, LinksStay, At
  <1>4. QED
    BY <1>1, <1>2, <1>3 DEF Sound

\* A new row goes to the end.
LEMMA AppendedRow ==
    ASSUME TypeOK, NEW row \in Tokens, tokens' = Append(tokens, row)
    PROVE /\ tokens' \in Seq(Tokens) /\ DOMAIN tokens' = 1..(Len(tokens) + 1)
          /\ tokens'[Len(tokens) + 1] = row
          /\ \A i \in DOMAIN tokens : i \in DOMAIN tokens' /\ tokens'[i] = tokens[i]
          /\ DOMAIN tokens' = DOMAIN tokens \cup {Len(tokens) + 1}
          /\ Len(tokens) + 1 \notin DOMAIN tokens
  <1>1. tokens \in Seq(Tokens) /\ Len(tokens) \in Nat /\ DOMAIN tokens = 1..Len(tokens)
    BY RowsAreTyped
  <1>2. /\ tokens' \in Seq(Tokens) /\ Len(tokens') = Len(tokens) + 1
        /\ \A i \in 1..Len(tokens) : tokens'[i] = tokens[i]
        /\ tokens'[Len(tokens) + 1] = row
    BY <1>1, AppendProperties
  <1>3. DOMAIN tokens' = 1..(Len(tokens) + 1)
    BY <1>2, LenProperties
  <1>4. QED
    BY <1>1, <1>2, <1>3

\* The row a request stores, and the slot it leaves.
LEMMA IssuedRow ==
    ASSUME TypeOK, NEW h \in Reqs, Issue(h)
    PROVE LET row == [token |-> now, revoked |-> FALSE, from |-> reqs[h].id,
                      epoch |-> reqs[h].epoch]
          IN  /\ row \in Tokens /\ tokens' = Append(tokens, row)
              /\ \E work \in Work :
                    /\ Go(h, work) /\ work.id \in {0, reqs[h].id}
                    /\ \/ reqs[h].tab = None /\ work = Idle
                       \/ /\ reqs[h].tab # None /\ work.pc = "granted" /\ work.tab = reqs[h].tab
                          /\ work.kind = reqs[h].kind /\ work.token = now
  <1>1. now \in Nat
    BY DEF TypeOK
  <1>2. [reqs[h] EXCEPT !.pc = "granted", !.token = now] \in Work
    BY <1>1, RequestIsTyped DEF Work, Steps
  <1>3. QED
    BY <1>1, <1>2, RequestIsTyped, IdleIsTyped DEF Issue, Tokens, Quit, Work

\* A row that is stored comes from one that was revoked before.
LEMMA IssueIsSound ==
    ASSUME Sound, NEW h \in Reqs, Issue(h)
    PROVE Sound'
  <1>1. PICK row \in Tokens, work \in Work :
           /\ row = [token |-> now, revoked |-> FALSE, from |-> reqs[h].id,
                     epoch |-> reqs[h].epoch]
           /\ tokens' = Append(tokens, row) /\ Go(h, work)
           /\ work.id \in {0, reqs[h].id}
           /\ \/ reqs[h].tab = None /\ work = Idle
              \/ reqs[h].tab # None /\ work.pc = "granted" /\ work.tab = reqs[h].tab
    BY IssuedRow DEF Sound
  <1>2. /\ tokens' \in Seq(Tokens) /\ DOMAIN tokens' = 1..(Len(tokens) + 1)
        /\ tokens'[Len(tokens) + 1] = row
        /\ \A i \in DOMAIN tokens : i \in DOMAIN tokens' /\ tokens'[i] = tokens[i]
        /\ Len(tokens) \in Nat /\ DOMAIN tokens = 1..Len(tokens)
    BY <1>1, AppendedRow, RowsAreTyped DEF Sound
  <1>3. /\ reqs' \in [Reqs -> Work] /\ reqs'[h] = work
        /\ \A g \in Reqs : g # h => reqs'[g] = reqs[g]
    BY <1>1, GoChangesOne DEF Sound
  <1>4. /\ UNCHANGED <<user, guesses, links, cookie, tabs, disturbed, now, faults>>
        /\ At(h, "issue")
    BY DEF Issue, Account, Browser, World
  <1>5. user # None
    BY <1>4 DEF Sound, NothingBeforeSignup, At
  <1>6. TypeOK'
    BY <1>2, <1>3, <1>4 DEF Sound, TypeOK
  <1>7. NothingBeforeSignup'
    BY <1>4, <1>5 DEF NothingBeforeSignup
  <1>8. RequestsSound'
    <2>1. ASSUME NEW g \in Reqs
          PROVE WorkSound(reqs'[g], tokens', links')
      <3>1. CASE g = h
        <4>1. work.id = 0 \/ work.id \in DOMAIN tokens
          BY <1>1 DEF Sound, RequestsSound
        <4>2. work.pc = "idle" \/ (work.pc = "granted" /\ work.tab # None)
          BY <1>1, IdleIsTyped
        <4>3. QED
          BY <1>2, <1>3, <3>1, <4>1, <4>2 DEF WorkSound
      <3>2. CASE g # h
        <4>1. reqs'[g] = reqs[g] /\ WorkSound(reqs[g], tokens, links)
          BY <1>3, <3>2 DEF Sound, RequestsSound, WorkSound, At
        <4>2. QED
          BY <1>2, <1>4, <4>1 DEF WorkSound
      <3>3. QED
        BY <3>1, <3>2
    <2>2. QED
      BY <2>1 DEF RequestsSound, WorkSound, At
  <1>9. RevokedFirst'
    <2>1. ASSUME NEW i \in DOMAIN tokens', tokens'[i].from # 0
          PROVE tokens'[i].from < i /\ tokens'[tokens'[i].from].revoked
      <3>1. CASE i \in DOMAIN tokens
        <4>1. tokens[i].from < i /\ tokens[tokens[i].from].revoked
          BY <1>2, <2>1, <3>1 DEF Sound, RevokedFirst
        <4>2. tokens[i].from \in DOMAIN tokens
          BY <1>2, <2>1, <3>1, <4>1, RowsAreTyped DEF Sound
        <4>3. QED
          BY <1>2, <3>1, <4>1, <4>2
      <3>2. CASE i \notin DOMAIN tokens
        <4>1. i = Len(tokens) + 1 /\ tokens'[i].from = reqs[h].id
          BY <1>1, <1>2, <3>2
        <4>2. reqs[h].id \in DOMAIN tokens /\ tokens[reqs[h].id].revoked
          BY <1>4, <2>1, <4>1 DEF Sound, RequestsSound
        <4>3. QED
          BY <1>2, <4>1, <4>2
      <3>3. QED
        BY <3>1, <3>2
    <2>2. QED
      BY <2>1 DEF RevokedFirst
  <1>10. QED
    BY <1>6, <1>7, <1>8, <1>9 DEF Sound

-----------------------------------------------------------------------------
(* Every step keeps the rows and the requests sound.                       *)

\* The account's fields, and what the requests make of them.
LEMMA UserIsTyped ==
    ASSUME TypeOK, user # None
    PROVE /\ user \in User /\ user.epoch \in Nat /\ user.failed \in Nat
          /\ Cleared \in User /\ Cleared.epoch = user.epoch
          /\ [Cleared EXCEPT !.epoch = @ + 1] \in User
          /\ [Cleared EXCEPT !.epoch = @ + 1].epoch = user.epoch + 1
  <1>1. user \in User
    BY DEF TypeOK
  <1>2. Cleared \in User /\ Cleared.epoch = user.epoch
    BY <1>1 DEF User, Cleared
  <1>3. user.epoch \in Nat /\ user.failed \in Nat
    BY <1>1 DEF User
  <1>4. QED
    BY <1>1, <1>2, <1>3 DEF User

\* A step that leaves the account, the rows and the links alone.
LEMMA SoundSend ==
    ASSUME Sound, RestTyped', UNCHANGED <<user, links, tokens>>,
           NEW h \in Reqs, NEW work \in Work, Go(h, work), WorkSound(work, tokens, links),
           work.pc \in {"idle", "create", "denied", "left"} \/ user # None
    PROVE Sound'
  <1>1. LinksStay /\ UserStays
    BY DEF Sound, TypeOK, LinksStay, UserStays
  <1>2. OnlyRevoked
    BY NoneAreRevoked DEF Sound
  <1>3. WorkSound(work, tokens', links') /\ (user' = None => links' = links)
    OBVIOUS
  <1>4. QED
    BY <1>1, <1>2, <1>3, SoundStep

\* The rest keeps its types when it is left alone.
LEMMA RestFrame ==
    ASSUME TypeOK, UNCHANGED <<guesses, cookie, tabs, now, faults>>, disturbed' \in BOOLEAN
    PROVE RestTyped'
  BY DEF TypeOK, RestTyped

\* A free slot is sound.
LEMMA IdleIsSound ==
    ASSUME NEW rows, NEW ls
    PROVE WorkSound(Idle, rows, ls)
  BY DEF WorkSound, Idle

\* disturbed is a truth value after every request that is sent.
LEMMA SentIsTyped ==
    ASSUME TypeOK, NEW h, NEW t, NEW kind, NEW work, Send(h, t, kind, work)
    PROVE /\ disturbed' \in BOOLEAN /\ At(h, "idle")
          /\ Go(h, [work EXCEPT !.tab = t, !.kind = kind])
  BY DEF TypeOK, Send

\* Sign-in requests start with what they read of the account.
LEMMA SignInIsSound ==
    ASSUME Sound, NEW h \in Reqs, NEW t \in Tabs \cup {None},
           SignupCheck(h, t) \/ LoginRight(h, t)
    PROVE Sound'
  <1>1. UNCHANGED <<user, guesses, tokens, links, cookie, tabs, now, faults>>
    BY DEF SignupCheck, LoginRight, Account, World
  <1>2. CASE SignupCheck(h, t)
    <2>1. PICK work : work = [Idle EXCEPT !.pc = "create", !.tab = t, !.kind = "signup"]
      OBVIOUS
    <2>2. work \in Work /\ WorkSound(work, tokens, links) /\ work.pc = "create"
      BY <2>1 DEF Idle, Work, Steps, Kinds, WorkSound
    <2>3. Send(h, t, "signup", [Idle EXCEPT !.pc = "create"])
      BY <1>2 DEF SignupCheck
    <2>4. Go(h, work) /\ disturbed' \in BOOLEAN
      BY <2>1, <2>3 DEF Send, Sound, TypeOK, Idle
    <2>5. QED
      BY <1>1, <2>2, <2>4, RestFrame, SoundSend DEF Sound
  <1>3. CASE LoginRight(h, t)
    <2>1. PICK pc \in {"clear", "issue"} :
             Send(h, t, "login", [Idle EXCEPT !.pc = pc, !.epoch = user.epoch])
      BY <1>3 DEF LoginRight
    <2>2. user # None /\ user.epoch \in Nat
      BY <1>3, UserIsTyped DEF LoginRight, Sound
    <2>3. PICK work : work = [Idle EXCEPT !.pc = pc, !.epoch = user.epoch,
                                          !.tab = t, !.kind = "login"]
      OBVIOUS
    <2>4. work \in Work /\ WorkSound(work, tokens, links)
      BY <2>2, <2>3 DEF Idle, Work, Steps, Kinds, WorkSound
    <2>5. Go(h, work) /\ disturbed' \in BOOLEAN
      BY <2>1, <2>3 DEF Send, Sound, TypeOK, Idle
    <2>6. QED
      BY <1>1, <2>2, <2>4, <2>5, RestFrame, SoundSend DEF Sound
  <1>4. QED
    BY <1>2, <1>3

\* A set of numbers has a smallest one.
LEMMA SmallestExists ==
    ASSUME NEW S \in SUBSET Nat, S # {}
    PROVE \E i \in S : \A j \in S : i =< j
  <1>1. PICK R : R = OpToRel(<, Nat)
    BY Zenon
  <1>2. R = {ss \in Nat \X Nat : ss[1] < ss[2]}
    BY Zenon, <1>1 DEF OpToRel
  <1>3. IsWellFoundedOn(R, Nat)
    BY Zenon, <1>1, NatLessThanWellFounded
  <1>4. \E i \in S : \A j \in S : <<j, i>> \notin R
    BY <1>3, WFMin
  <1>5. ASSUME NEW i \in Nat, NEW j \in Nat, j < i
        PROVE <<j, i>> \in R
    BY <1>2, <1>5
  <1>6. QED
    <2>1. PICK i \in S : \A j \in S : <<j, i>> \notin R
      BY <1>4
    <2>2. \A j \in S : ~(j < i)
      BY <1>5, <2>1
    <2>3. QED
      BY <2>2

\* What is presented, or why it is denied.
LEMMA PresentedIsTyped ==
    ASSUME Sound
    PROVE /\ Presented \in Work /\ Presented.link = None
          /\ Presented.pc \in {"denied", "rotate"}
          /\ Presented.pc = "rotate" =>
                /\ user # None /\ Presented.epoch = user.epoch
                /\ Presented.id \in Matches(cookie)
          /\ Presented.pc = "denied" =>
                /\ Presented.id = 0
                /\ cookie = None \/ cookie + RefreshTime < now \/ Matches(cookie) = {}
  <1>1. CASE cookie = None \/ Matches(cookie) = {} \/ cookie + RefreshTime < now
    <2>1. Presented = [Idle EXCEPT !.pc = "denied"]
      BY <1>1 DEF Presented
    <2>2. QED
      BY <1>1, <2>1 DEF Idle, Work, Steps
  <1>2. CASE ~(cookie = None \/ Matches(cookie) = {} \/ cookie + RefreshTime < now)
    <2>1. Presented = [Idle EXCEPT !.pc = "rotate", !.id = FirstOf(Matches(cookie)),
                                   !.epoch = user.epoch]
      BY <1>2 DEF Presented
    <2>2. Matches(cookie) \in SUBSET Nat /\ Matches(cookie) # {} /\ tokens # <<>>
      BY <1>2, RowsAreTyped DEF Sound, Matches
    <2>3. FirstOf(Matches(cookie)) \in Matches(cookie)
      <3>1. \E i \in Matches(cookie) : \A j \in Matches(cookie) : i =< j
        BY <2>2, SmallestExists
      <3>2. QED
        BY <3>1 DEF FirstOf
    <2>4. user # None /\ user.epoch \in Nat
      BY <2>2, UserIsTyped DEF Sound, NothingBeforeSignup
    <2>5. QED
      BY <2>1, <2>2, <2>3, <2>4 DEF Idle, Work, Steps
  <1>3. QED
    BY <1>1, <1>2

\* A refresh is let in with a row that was not revoked then.
LEMMA RefreshIsSound ==
    ASSUME Sound, NEW h \in Reqs, NEW t \in Tabs, Boot(h, t) \/ Refresh(h, t)
    PROVE Sound'
  <1>1. UNCHANGED <<user, guesses, tokens, links, cookie, tabs, now, faults>>
    BY DEF Boot, Refresh, Account, World
  <1>2. PICK kind \in {"boot", "refresh"} : Send(h, t, kind, Presented)
    BY DEF Boot, Refresh
  <1>3. PICK work : work = [Presented EXCEPT !.tab = t, !.kind = kind]
    OBVIOUS
  <1>4. Go(h, work) /\ disturbed' \in BOOLEAN
    BY <1>2, <1>3 DEF Send, Sound, TypeOK
  <1>5. work \in Work /\ work.tab = t /\ work.pc = Presented.pc /\ work.id = Presented.id
    BY <1>3, PresentedIsTyped DEF Work, Kinds
  <1>6. WorkSound(work, tokens, links)
    <2>1. work.tab # None
      BY <1>5, NoneAssumption
    <2>2. work.pc = "rotate" => work.id \in DOMAIN tokens /\ work.id # 0
      BY <1>5, PresentedIsTyped, RowsAreTyped DEF Matches, Sound
    <2>3. QED
      BY <1>5, <2>1, <2>2, PresentedIsTyped DEF WorkSound
  <1>7. work.pc \in {"idle", "create", "denied", "left"} \/ user # None
    BY <1>5, PresentedIsTyped
  <1>8. QED
    BY <1>1, <1>4, <1>5, <1>6, <1>7, RestFrame, SoundSend DEF Sound

\* A logout revokes what it presents.
LEMMA LogoutIsSound ==
    ASSUME Sound, NEW h \in Reqs, NEW t \in Tabs, Logout(h, t)
    PROVE Sound' /\ OnlyRevoked
  <1>1. UNCHANGED <<user, guesses, links, cookie, tabs, now, faults>>
    BY DEF Logout, Account, World
  <1>2. OnlyRevoked
    <2>1. PICK S : S = {i \in DOMAIN tokens : cookie # None /\ i \in Matches(cookie)}
      OBVIOUS
    <2>2. tokens' = [i \in DOMAIN tokens |->
                       IF i \in S THEN [tokens[i] EXCEPT !.revoked = TRUE] ELSE tokens[i]]
      BY <2>1 DEF Logout
    <2>3. QED
      BY <2>2, SomeAreRevoked DEF Sound
  <1>3. PICK work : work = [Idle EXCEPT !.pc = "left", !.tab = t, !.kind = "logout"]
    OBVIOUS
  <1>4. Go(h, work) /\ disturbed' \in BOOLEAN
    <2>1. Send(h, t, "logout", [Idle EXCEPT !.pc = "left"])
      BY DEF Logout
    <2>2. QED
      BY <1>3, <2>1 DEF Send, Sound, TypeOK, Idle
  <1>5. work \in Work /\ work.pc = "left" /\ WorkSound(work, tokens', links')
    BY <1>3, NoneAssumption DEF Idle, Work, Steps, Kinds, WorkSound
  <1>6. LinksStay /\ UserStays
    BY <1>1 DEF Sound, TypeOK, LinksStay, UserStays
  <1>7. RestTyped'
    BY <1>1, <1>4, RestFrame DEF Sound
  <1>8. Sound'
    BY <1>1, <1>2, <1>4, <1>5, <1>6, <1>7, SoundStep
  <1>9. QED
    BY <1>2, <1>8

\* A wrong password, and a reset link that is read.
LEMMA ReadsAreSound ==
    ASSUME Sound, NEW h \in Reqs, LoginWrong(h) \/ \E l \in Links : ResetLoad(h, l)
    PROVE Sound'
  <1>1. UNCHANGED <<user, guesses, tokens, links, cookie, tabs, disturbed, now, faults>>
    BY DEF LoginWrong, ResetLoad, Account, Browser, World
  <1>2. RestTyped'
    BY <1>1, RestFrame DEF Sound, TypeOK
  <1>3. CASE LoginWrong(h)
    <2>1. PICK work : work = [Idle EXCEPT !.pc = "fail", !.kind = "login",
                                          !.failed = user.failed]
      OBVIOUS
    <2>2. user # None /\ Go(h, work)
      BY <1>3, <2>1 DEF LoginWrong
    <2>3. work \in Work /\ WorkSound(work, tokens, links)
      BY <2>1, <2>2, UserIsTyped DEF Sound, Idle, Work, Steps, Kinds, WorkSound
    <2>4. QED
      BY <1>1, <1>2, <2>2, <2>3, SoundSend
  <1>4. CASE \E l \in Links : ResetLoad(h, l)
    <2>1. PICK l \in Links : ResetLoad(h, l)
      BY <1>4
    <2>2. PICK work : work = [Idle EXCEPT !.pc = "reset", !.kind = "reset", !.link = l]
      OBVIOUS
    <2>3. user # None /\ links[l] # None /\ Go(h, work)
      BY <2>1, <2>2 DEF ResetLoad, Sound, NothingBeforeSignup
    <2>4. work \in Work /\ WorkSound(work, tokens, links)
      BY <2>2, <2>3, NoneAssumption DEF Idle, Work, Steps, Kinds, WorkSound
    <2>5. QED
      BY <1>1, <1>2, <2>3, <2>4, SoundSend
  <1>5. QED
    BY <1>3, <1>4

\* The signup writes the account, and its mail is sent.
LEMMA SignupIsSound ==
    ASSUME Sound, NEW h \in Reqs, SignupCreate(h) \/ SignupMail(h)
    PROVE Sound'
  <1>1. UNCHANGED <<guesses, tokens, links, cookie, tabs, disturbed, now, faults>>
    BY DEF SignupCreate, SignupMail, Browser, World
  <1>2. RestTyped' /\ OnlyRevoked
    BY <1>1, RestFrame, NoneAreRevoked DEF Sound, TypeOK
  <1>3. LinksStay
    BY <1>1 DEF Sound, TypeOK, LinksStay
  <1>4. PICK pc \in Steps, work \in Work :
           /\ Go(h, work) /\ pc \in {"mail", "issue", "denied", "idle"}
           /\ work = Idle \/ (work = [reqs[h] EXCEPT !.pc = pc] /\ (pc = "denied" => work.tab # None))
           /\ pc = "issue" => At(h, "mail")
           /\ work.pc \in {"idle", "denied"} \/ user' # None
           /\ UserStays
    <2>1. CASE SignupCreate(h) /\ user = None
      <3>1. NewUser \in User /\ NewUser # None
        <4>1. NewUser \in User
          BY DEF NewUser, User
        <4>2. QED
          BY <4>1, NoneAssumption
      <3>2. Go(h, [reqs[h] EXCEPT !.pc = "mail"]) /\ user' = NewUser /\ "mail" \in Steps
        BY <2>1 DEF SignupCreate, Then, Steps
      <3>3. QED
        BY <2>1, <3>1, <3>2, ThenChangesPc DEF Sound, UserStays
    <2>2. CASE SignupCreate(h) /\ user # None
      <3>1. user' = user /\ Answer(h, "denied") /\ UserStays
        BY <2>2 DEF SignupCreate, UserStays, Sound, TypeOK
      <3>2. CASE reqs[h].tab = None
        BY <2>2, <3>1, <3>2, IdleIsTyped DEF Answer, Quit, Steps
      <3>3. CASE reqs[h].tab # None
        <4>1. Go(h, [reqs[h] EXCEPT !.pc = "denied"]) /\ "denied" \in Steps
          BY <3>1, <3>3 DEF Answer, Then, Steps
        <4>2. QED
          BY <2>2, <3>1, <3>3, <4>1, ThenChangesPc DEF Sound
      <3>4. QED
        BY <3>2, <3>3
    <2>3. CASE SignupMail(h)
      <3>1. user # None /\ user \in User
        BY <2>3, UserIsTyped DEF SignupMail, Sound, NothingBeforeSignup, At
      <3>2. user' = [user EXCEPT !.email = "sent"]
        BY <2>3 DEF SignupMail
      <3>3. user' \in User
        BY <3>1, <3>2 DEF User
      <3>4. user' # None
        BY <3>3, NoneAssumption
      <3>5. Go(h, [reqs[h] EXCEPT !.pc = "issue"]) /\ "issue" \in Steps /\ At(h, "mail")
        BY <2>3 DEF SignupMail, Then, Steps
      <3>6. QED
        BY <3>3, <3>4, <3>5, ThenChangesPc DEF Sound, UserStays
    <2>4. QED
      BY <2>1, <2>2, <2>3
  <1>5. WorkSound(work, tokens', links')
    <2>1. CASE work = Idle
      BY <2>1, IdleIsSound
    <2>2. CASE work = [reqs[h] EXCEPT !.pc = pc] /\ (pc = "denied" => work.tab # None)
      <3>1. work.pc = pc /\ work.id = reqs[h].id
        BY <2>2, ThenChangesPc DEF Sound
      <3>2. reqs[h].id = 0
        BY DEF SignupCreate, SignupMail, Sound, RequestsSound, At
      <3>3. QED
        BY <1>4, <2>2, <3>1, <3>2 DEF WorkSound
    <2>3. QED
      BY <1>4, <2>1, <2>2
  <1>6. QED
    BY <1>1, <1>2, <1>3, <1>4, <1>5, SoundStep

\* A failure is counted, and a sign-in clears the count.
LEMMA LoginIsSound ==
    ASSUME Sound, NEW h \in Reqs, LoginFail(h) \/ LoginClear(h)
    PROVE Sound'
  <1>1. /\ UNCHANGED <<tokens, links, cookie, tabs, disturbed, now, faults>>
        /\ At(h, "fail") \/ At(h, "clear")
    BY DEF LoginFail, LoginClear, Browser, World
  <1>2. user # None /\ user \in User
    BY <1>1, UserIsTyped DEF Sound, NothingBeforeSignup, At
  <1>3. user' \in User /\ guesses' \in Nat
    <2>1. CASE LoginFail(h)
      <3>1. reqs[h].failed + 1 \in Nat /\ now + LockTime \in Nat
        BY RequestIsTyped, NumbersAssumption DEF Sound, TypeOK
      <3>2. /\ [user EXCEPT !.failed = reqs[h].failed + 1] \in User
            /\ [user EXCEPT !.failed = reqs[h].failed + 1,
                            !.lockedUntil = now + LockTime] \in User
        BY <1>2, <3>1 DEF User
      <3>3. guesses + 1 \in Nat
        BY DEF Sound, TypeOK
      <3>4. QED
        BY <2>1, <3>2, <3>3 DEF LoginFail
    <2>2. CASE LoginClear(h)
      BY <1>2, <2>2, UserIsTyped DEF LoginClear, Sound
    <2>3. QED
      BY <2>1, <2>2
  <1>4. UserStays /\ user' # None
    BY <1>3, NoneAssumption DEF UserStays
  <1>5. RestTyped' /\ OnlyRevoked /\ LinksStay
    BY <1>1, <1>3, NoneAreRevoked DEF Sound, TypeOK, RestTyped, LinksStay
  <1>6. CASE LoginFail(h)
    <2>1. Go(h, Idle)
      BY <1>6 DEF LoginFail, Quit
    <2>2. QED
      BY <1>4, <1>5, <2>1, IdleIsTyped, IdleIsSound, SoundStep
  <1>7. CASE LoginClear(h)
    <2>1. PICK work : work = [reqs[h] EXCEPT !.pc = "issue"]
      OBVIOUS
    <2>2. Go(h, work) /\ At(h, "clear")
      BY <1>7, <2>1 DEF LoginClear, Then
    <2>3. work \in Work /\ work.pc = "issue" /\ work.id = reqs[h].id
      BY <2>1, ThenChangesPc DEF Sound, Steps
    <2>4. WorkSound(work, tokens', links')
      BY <2>2, <2>3 DEF Sound, RequestsSound, WorkSound, At
    <2>5. QED
      BY <1>4, <1>5, <2>2, <2>3, <2>4, SoundStep
  <1>8. QED
    BY <1>6, <1>7

\* A refresh revokes its row before its token is issued.
LEMMA RotateIsSound ==
    ASSUME Sound, NEW h \in Reqs, Rotate(h)
    PROVE Sound' /\ OnlyRevoked
  <1>1. /\ UNCHANGED <<user, guesses, links, cookie, tabs, disturbed, now, faults>>
        /\ At(h, "rotate")
    BY DEF Rotate, Account, Browser, World
  <1>2. reqs[h].id \in DOMAIN tokens /\ user # None
    BY <1>1 DEF Sound, RequestsSound, NothingBeforeSignup, At
  <1>3. tokens' = [i \in DOMAIN tokens |->
                     IF i \in {reqs[h].id} THEN [tokens[i] EXCEPT !.revoked = TRUE]
                                           ELSE tokens[i]]
    BY <1>2 DEF Rotate
  <1>4. OnlyRevoked
    BY <1>3, SomeAreRevoked DEF Sound
  <1>5. tokens'[reqs[h].id].revoked /\ reqs[h].id \in DOMAIN tokens'
    BY <1>2, <1>3, RowsAreTyped DEF Sound, Tokens
  <1>6. PICK work : work = [reqs[h] EXCEPT !.pc = "issue"]
    OBVIOUS
  <1>7. Go(h, work) /\ work \in Work /\ work.pc = "issue" /\ work.id = reqs[h].id
    BY <1>6, ThenChangesPc DEF Sound, Steps, Rotate, Then
  <1>8. WorkSound(work, tokens', links')
    BY <1>5, <1>7 DEF WorkSound
  <1>9. LinksStay /\ UserStays /\ RestTyped'
    BY <1>1 DEF Sound, TypeOK, LinksStay, UserStays, RestTyped
  <1>10. QED
    BY <1>1, <1>2, <1>4, <1>7, <1>8, <1>9, SoundStep

\* A reset revokes every row.
LEMMA ResetIsSound ==
    ASSUME Sound, NEW h \in Reqs, ResetPassword(h)
    PROVE Sound' /\ OnlyRevoked
  <1>1. At(h, "reset") /\ UNCHANGED <<cookie, tabs, now, faults>>
    BY DEF ResetPassword, World
  <1>2. /\ user # None /\ reqs[h].link # None /\ reqs[h].link \in Links
        /\ links[reqs[h].link] # None
    BY <1>1, RequestIsTyped DEF Sound, NothingBeforeSignup, RequestsSound, At
  <1>3. user' \in User /\ guesses' \in Nat /\ disturbed' \in BOOLEAN
    BY <1>2, UserIsTyped DEF ResetPassword, Sound
  <1>4. UserStays /\ user' # None
    BY <1>3, NoneAssumption DEF UserStays
  <1>5. LinksStay
    <2>1. links[reqs[h].link] \in ResetLinks
      BY <1>2 DEF Sound, TypeOK
    <2>2. [links[reqs[h].link] EXCEPT !.used = TRUE] \in ResetLinks
      BY <2>1 DEF ResetLinks
    <2>3. [links[reqs[h].link] EXCEPT !.used = TRUE] # None
      BY <2>2, NoneAssumption
    <2>4. links' = [links EXCEPT ![reqs[h].link] = [links[reqs[h].link] EXCEPT !.used = TRUE]]
      BY DEF ResetPassword
    <2>5. QED
      BY <1>2, <2>2, <2>3, <2>4 DEF Sound, TypeOK, LinksStay
  <1>6. OnlyRevoked
    <2>1. tokens' = [i \in DOMAIN tokens |->
                       IF i \in DOMAIN tokens THEN [tokens[i] EXCEPT !.revoked = TRUE]
                                              ELSE tokens[i]]
      BY DEF ResetPassword, RevokedAll
    <2>2. QED
      BY <2>1, SomeAreRevoked DEF Sound
  <1>7. RestTyped'
    BY <1>1, <1>3 DEF Sound, TypeOK, RestTyped
  <1>8. Go(h, Idle)
    BY DEF ResetPassword, Quit
  <1>9. QED
    BY <1>4, <1>5, <1>6, <1>7, <1>8, IdleIsTyped, IdleIsSound, SoundStep

\* A tab after its request failed.
LEMMA FailedTabIsTyped ==
    ASSUME NEW kind, NEW tab \in TabStates
    PROVE AfterFailure(kind, tab) \in TabStates
  BY DEF AfterFailure, TabStates

\* What a tab is answered, or that it is not.
LEMMA AnswersAreSound ==
    ASSUME Sound, NEW h \in Reqs, Granted(h) \/ Denied(h) \/ Left(h) \/ Fail(h)
    PROVE Sound'
  <1>1. UNCHANGED <<user, guesses, tokens, links, now>> /\ Go(h, Idle)
    BY DEF Granted, Denied, Left, Fail, Account, World, Quit
  <1>2. cookie' \in Nat \cup {None} /\ disturbed' \in BOOLEAN /\ faults' \in 0..MaxFaults
    <2>1. cookie \in Nat \cup {None} /\ disturbed \in BOOLEAN /\ faults \in 0..MaxFaults
      BY DEF Sound, TypeOK
    <2>2. reqs[h].token \in Nat
      BY RequestIsTyped DEF Sound
    <2>3. CASE Granted(h) \/ Denied(h) \/ Left(h)
      BY <2>1, <2>2, <2>3 DEF Granted, Denied, Left, World
    <2>4. CASE Fail(h)
      BY <2>1, <2>4, NumbersAssumption DEF Fail
    <2>5. QED
      BY <2>3, <2>4
  <1>3. tabs' \in [Tabs -> TabStates]
    <2>1. \A t \in Tabs : tabs[t] \in TabStates
      BY DEF Sound, TypeOK
    <2>2. CASE Granted(h)
      <3>1. ASSUME NEW t \in Tabs
            PROVE /\ [tabs[t] EXCEPT !.user = TRUE, !.loading = FALSE] \in TabStates
                  /\ [tabs[t] EXCEPT !.access = TRUE] \in TabStates
                  /\ [tabs[t] EXCEPT !.user = TRUE, !.access = TRUE] \in TabStates
        BY <2>1 DEF TabStates
      <3>2. PICK new : /\ tabs' = [tabs EXCEPT ![reqs[h].tab] = new]
                       /\ \/ new = [tabs[reqs[h].tab] EXCEPT !.user = TRUE, !.loading = FALSE]
                          \/ new = [tabs[reqs[h].tab] EXCEPT !.access = TRUE]
                          \/ new = [tabs[reqs[h].tab] EXCEPT !.user = TRUE, !.access = TRUE]
        BY <2>2 DEF Granted
      <3>3. reqs[h].tab \in Tabs
        BY <2>2, RequestIsTyped DEF Granted, Sound, RequestsSound, At
      <3>4. new \in TabStates
        BY <3>1, <3>2, <3>3
      <3>5. QED
        BY <3>2, <3>4 DEF Sound, TypeOK
    <2>3. CASE Denied(h) \/ Left(h) \/ Fail(h)
      BY <2>1, <2>3, FailedTabIsTyped DEF Denied, Left, Fail, Sound, TypeOK
    <2>4. QED
      BY <2>2, <2>3
  <1>4. RestTyped'
    BY <1>1, <1>2, <1>3 DEF Sound, TypeOK, RestTyped
  <1>5. QED
    BY <1>1, <1>4, IdleIsTyped, IdleIsSound, SoundSend

\* The links that are mailed, the clock, and a tab's access token.
LEMMA OthersAreSound ==
    ASSUME Sound,
           \/ VerifyEmail \/ Tick
           \/ \E l \in Links : RequestPasswordReset(l)
           \/ \E t \in Tabs : AccessExpires(t)
    PROVE Sound'
  <1>1. UNCHANGED <<tokens, reqs>>
    BY DEF VerifyEmail, RequestPasswordReset, AccessExpires, Tick, Account
  <1>2. UserStays /\ LinksStay /\ (user' = None => links' = links)
    <2>1. CASE VerifyEmail
      <3>1. user # None /\ user \in User
        BY <2>1, UserIsTyped DEF VerifyEmail, Sound
      <3>2. user' \in User
        BY <2>1, <3>1 DEF VerifyEmail, User
      <3>3. links' = links
        BY <2>1 DEF VerifyEmail
      <3>4. QED
        BY <3>2, <3>3, NoneAssumption DEF UserStays, LinksStay, Sound, TypeOK
    <2>2. CASE \E l \in Links : RequestPasswordReset(l)
      <3>1. PICK l \in Links : RequestPasswordReset(l)
        BY <2>2
      <3>2. [used |-> FALSE, expires |-> now + LinkTime] \in ResetLinks
        BY NumbersAssumption DEF ResetLinks, Sound, TypeOK
      <3>3. user' = user /\ user # None
        BY <3>1 DEF RequestPasswordReset, Account
      <3>4. QED
        BY <3>1, <3>2, <3>3, NoneAssumption
           DEF RequestPasswordReset, UserStays, LinksStay, Sound, TypeOK
    <2>3. CASE Tick \/ \E t \in Tabs : AccessExpires(t)
      BY <2>3 DEF AccessExpires, Tick, Account, UserStays, LinksStay, Sound, TypeOK
    <2>4. QED
      BY <2>1, <2>2, <2>3
  <1>3. RestTyped'
    <2>1. CASE \E t \in Tabs : AccessExpires(t)
      <3>1. PICK t \in Tabs : AccessExpires(t)
        BY <2>1
      <3>2. [tabs[t] EXCEPT !.access = FALSE] \in TabStates
        BY DEF Sound, TypeOK, TabStates
      <3>3. tabs' \in [Tabs -> TabStates]
        BY <3>1, <3>2 DEF AccessExpires, Sound, TypeOK
      <3>4. QED
        BY <3>1, <3>3 DEF AccessExpires, Account, World, Sound, TypeOK, RestTyped
    <2>2. CASE VerifyEmail \/ Tick \/ \E l \in Links : RequestPasswordReset(l)
      <3>1. UNCHANGED <<cookie, tabs, guesses, disturbed, faults>>
        BY <2>2 DEF VerifyEmail, RequestPasswordReset, Tick, Account, Browser, World
      <3>2. now' \in 0..MaxTime
        <4>1. CASE Tick
          BY <4>1, NumbersAssumption DEF Tick, Sound, TypeOK
        <4>2. CASE ~Tick
          BY <2>2, <4>2 DEF VerifyEmail, RequestPasswordReset, World, Sound, TypeOK
        <4>3. QED
          BY <4>1, <4>2
      <3>3. QED
        BY <3>1, <3>2 DEF Sound, TypeOK, RestTyped
    <2>3. QED
      BY <2>1, <2>2
  <1>4. QED
    BY <1>1, <1>2, <1>3, SoundFrame

\* A page that is loaded again: its answers are lost, its requests go on.
LEMMA ReloadIsSound ==
    ASSUME Sound, NEW t \in Tabs, Reload(t)
    PROVE Sound'
  <1>1. UNCHANGED <<user, guesses, tokens, links, cookie, now, faults>>
    BY DEF Reload, Account, World
  <1>2. ASSUME NEW h \in Reqs
        PROVE /\ reqs'[h] \in Work
              /\ \/ reqs'[h] = Idle
                 \/ /\ reqs'[h].pc = reqs[h].pc /\ reqs'[h].id = reqs[h].id
                    /\ reqs'[h].link = reqs[h].link /\ reqs'[h].kind = reqs[h].kind
                    /\ \/ reqs'[h].tab = reqs[h].tab
                       \/ reqs[h].pc \notin {"granted", "denied", "left"}
    <2>1. CASE reqs[h].tab # t
      <3>1. reqs'[h] = reqs[h]
        BY <2>1 DEF Reload
      <3>2. QED
        BY <3>1, RequestIsTyped DEF Sound
    <2>2. CASE reqs[h].tab = t /\ reqs[h].pc \in {"granted", "denied", "left"}
      <3>1. reqs'[h] = Idle
        BY <2>2 DEF Reload
      <3>2. QED
        BY <3>1, IdleIsTyped
    <2>3. CASE reqs[h].tab = t /\ reqs[h].pc \notin {"granted", "denied", "left"}
      <3>1. reqs'[h] = [reqs[h] EXCEPT !.tab = None]
        BY <2>3 DEF Reload
      <3>2. QED
        BY <2>3, <3>1, RequestIsTyped DEF Sound, Work
    <2>4. QED
      BY <2>1, <2>2, <2>3
  <1>3. reqs' \in [Reqs -> Work]
    BY <1>2 DEF Reload
  <1>4. TypeOK'
    <2>1. disturbed' \in BOOLEAN
      BY DEF Reload, Sound, TypeOK
    <2>2. tabs' \in [Tabs -> TabStates]
      BY DEF Reload, Sound, TypeOK, Loading, TabStates
    <2>3. QED
      BY <1>1, <1>3, <2>1, <2>2 DEF Sound, TypeOK
  <1>5. NothingBeforeSignup' /\ RevokedFirst'
    BY <1>1, <1>2, IdleIsTyped DEF Sound, NothingBeforeSignup, RevokedFirst
  <1>6. RequestsSound'
    <2>1. ASSUME NEW h \in Reqs
          PROVE WorkSound(reqs'[h], tokens, links)
      <3>1. WorkSound(reqs[h], tokens, links)
        BY DEF Sound, RequestsSound, WorkSound, At
      <3>2. QED
        BY <1>2, <3>1, IdleIsSound DEF WorkSound
    <2>2. QED
      BY <1>1, <2>1 DEF RequestsSound, WorkSound, At
  <1>7. QED
    BY <1>4, <1>5, <1>6 DEF Sound

-----------------------------------------------------------------------------
(* The sessions that outlive a reset.                                      *)

\* The two sets that ResetsSound counts, and the slots, are finite.
LEMMA ResetCountsAreFinite ==
    ASSUME Sound
    PROVE /\ IsFiniteSet(Survivors) /\ Cardinality(Survivors) \in Nat
          /\ IsFiniteSet(LetInBefore) /\ Cardinality(LetInBefore) \in Nat
          /\ Cardinality(Reqs) \in Nat
  <1>1. IsFiniteSet(DOMAIN tokens)
    BY RowsAreTyped, FS_Interval DEF Sound
  <1>2. IsFiniteSet(Survivors)
    BY <1>1, FS_Subset DEF Survivors
  <1>3. IsFiniteSet(LetInBefore)
    BY FS_Subset, SlotsAssumption DEF LetInBefore
  <1>4. QED
    BY <1>2, <1>3, FS_CardinalityType, SlotsAssumption

\* With a request there is a slot.
LEMMA SomeSlot ==
    ASSUME NEW h \in Reqs
    PROVE Cardinality(Reqs) \in Nat \ {0}
  BY FS_EmptySet, FS_CardinalityType, SlotsAssumption

\* A step that makes no session and no request older than the last reset.
LEMMA ResetsFrame ==
    ASSUME Sound, ResetsSound, user # None \/ user' = None,
           Survivors' \in SUBSET Survivors, LetInBefore' \in SUBSET LetInBefore
    PROVE ResetsSound'
  <1>1. /\ Cardinality(Survivors') =< Cardinality(Survivors)
        /\ Cardinality(LetInBefore') =< Cardinality(LetInBefore)
        /\ Cardinality(Survivors') \in Nat /\ Cardinality(LetInBefore') \in Nat
    BY ResetCountsAreFinite, FS_Subset, FS_CardinalityType
  <1>2. CASE user' = None
    BY <1>2 DEF ResetsSound
  <1>3. CASE user # None
    <2>1. Cardinality(Survivors) + Cardinality(LetInBefore) =< Cardinality(Reqs) - 1
      BY <1>3 DEF ResetsSound
    <2>2. Cardinality(Survivors') + Cardinality(LetInBefore') =< Cardinality(Reqs) - 1
      BY <1>1, <2>1, ResetCountsAreFinite
    <2>3. QED
      BY <2>2 DEF ResetsSound
  <1>4. QED
    BY <1>2, <1>3

\* Rows that are only revoked add no session.
LEMMA RevokedAddsNone ==
    ASSUME Sound, OnlyRevoked, user # None, user'.epoch = user.epoch
    PROVE Survivors' \in SUBSET Survivors
  <1>1. DOMAIN tokens' = DOMAIN tokens
    BY RevokingKeepsRows DEF Sound
  <1>2. QED
    BY <1>1 DEF Survivors, OnlyRevoked

\* Nor does a request that goes on, or that was let in after the last reset.
LEMMA LaterAddsNone ==
    ASSUME Sound, NEW h \in Reqs, NEW work \in Work, Go(h, work), user # None,
           user'.epoch = user.epoch,
           \/ work.pc \notin {"mail", "clear", "rotate", "issue"}
           \/ work.epoch = user.epoch
           \/ /\ reqs[h].pc \in {"mail", "clear", "rotate", "issue"}
              /\ work.epoch = reqs[h].epoch
    PROVE LetInBefore' \in SUBSET LetInBefore
  <1>1. reqs'[h] = work /\ \A g \in Reqs : g # h => reqs'[g] = reqs[g]
    BY GoChangesOne DEF Sound
  <1>2. user.epoch \in Nat
    BY UserIsTyped DEF Sound
  <1>3. ASSUME NEW g \in LetInBefore'
        PROVE g \in LetInBefore
    <2>1. /\ g \in Reqs /\ reqs'[g].pc \in {"mail", "clear", "rotate", "issue"}
          /\ reqs'[g].epoch < user.epoch
      BY <1>3 DEF LetInBefore
    <2>2. CASE g = h
      <3>1. work.epoch # user.epoch
        BY <1>1, <1>2, <2>1, <2>2
      <3>2. QED
        BY <1>1, <2>1, <2>2, <3>1 DEF LetInBefore
    <2>3. CASE g # h
      BY <1>1, <2>1, <2>3 DEF LetInBefore
    <2>4. QED
      BY <2>2, <2>3
  <1>4. QED
    BY <1>3

\* The signup has no session and no request before its epoch.
LEMMA SignupResets ==
    ASSUME Sound, Sound', NEW h \in Reqs, user = None, user' = NewUser, UNCHANGED tokens
    PROVE ResetsSound'
  <1>1. tokens' = <<>>
    BY DEF Sound, NothingBeforeSignup
  <1>2. Survivors' = {}
    BY <1>1 DEF Survivors
  <1>3. user'.epoch = 0
    BY DEF NewUser
  <1>4. \A g \in Reqs : reqs'[g].epoch \in Nat
    BY DEF Sound, TypeOK, Work
  <1>5. LetInBefore' = {}
    BY <1>3, <1>4 DEF LetInBefore
  <1>6. QED
    BY <1>2, <1>5, SomeSlot, FS_EmptySet DEF ResetsSound

\* A token that is stored may be a session more, of a request that is one less.
LEMMA IssueResets ==
    ASSUME Sound, ResetsSound, NEW h \in Reqs, Issue(h)
    PROVE ResetsSound'
  <1>1. PICK row \in Tokens, work \in Work :
           /\ row.epoch = reqs[h].epoch /\ tokens' = Append(tokens, row) /\ Go(h, work)
           /\ work.pc \in {"idle", "granted"}
    BY IssuedRow, IdleIsTyped DEF Sound
  <1>2. user' = user /\ user # None /\ At(h, "issue")
    BY DEF Issue, Account, Sound, NothingBeforeSignup, At
  <1>3. PICK n \in Nat : n = Len(tokens) + 1
    BY RowsAreTyped DEF Sound
  <1>4. /\ DOMAIN tokens' = DOMAIN tokens \cup {n} /\ n \notin DOMAIN tokens /\ tokens'[n] = row
        /\ \A i \in DOMAIN tokens : tokens'[i] = tokens[i]
    BY <1>1, <1>3, AppendedRow DEF Sound
  <1>5. reqs'[h] = work /\ \A g \in Reqs : g # h => reqs'[g] = reqs[g]
    BY <1>1, GoChangesOne DEF Sound
  <1>6. LetInBefore' \in SUBSET (LetInBefore \ {h})
    BY <1>1, <1>2, <1>5 DEF LetInBefore
  <1>7. CASE ~(reqs[h].epoch < user.epoch)
    <2>1. Survivors' \in SUBSET Survivors
      BY <1>1, <1>2, <1>4, <1>7 DEF Survivors
    <2>2. QED
      BY <1>2, <1>6, <2>1, ResetsFrame
  <1>8. CASE reqs[h].epoch < user.epoch
    <2>1. h \in LetInBefore
      BY <1>2, <1>8 DEF LetInBefore, At
    <2>2. Survivors' \in SUBSET (Survivors \cup {n})
      BY <1>2, <1>4 DEF Survivors
    <2>3. n \notin Survivors
      BY <1>4 DEF Survivors
    <2>4. /\ IsFiniteSet(Survivors \cup {n})
          /\ Cardinality(Survivors \cup {n}) = Cardinality(Survivors) + 1
      BY <2>3, ResetCountsAreFinite, FS_AddElement
    <2>5. /\ IsFiniteSet(LetInBefore \ {h})
          /\ Cardinality(LetInBefore \ {h}) = Cardinality(LetInBefore) - 1
      BY <2>1, ResetCountsAreFinite, FS_RemoveElement
    <2>6. /\ Cardinality(Survivors') =< Cardinality(Survivors) + 1
          /\ Cardinality(LetInBefore') =< Cardinality(LetInBefore) - 1
          /\ Cardinality(Survivors') \in Nat /\ Cardinality(LetInBefore') \in Nat
      BY <1>6, <2>2, <2>4, <2>5, FS_Subset, FS_CardinalityType
    <2>7. Cardinality(Survivors) + Cardinality(LetInBefore) =< Cardinality(Reqs) - 1
      BY <1>2 DEF ResetsSound
    <2>8. Cardinality(Survivors') + Cardinality(LetInBefore') =< Cardinality(Reqs) - 1
      BY <2>6, <2>7, ResetCountsAreFinite
    <2>9. QED
      BY <2>8 DEF ResetsSound
  <1>9. QED
    BY <1>7, <1>8

\* A reset leaves no session, and at most the other requests let in before it.
LEMMA ResetPasswordResets ==
    ASSUME Sound, NEW h \in Reqs, ResetPassword(h)
    PROVE ResetsSound'
  <1>1. tokens' = RevokedAll /\ Go(h, Idle)
    BY DEF ResetPassword, Quit
  <1>2. Survivors' = {}
    BY <1>1, RowsAreTyped DEF Survivors, RevokedAll, Sound, Tokens
  <1>3. reqs'[h] = Idle
    BY <1>1, GoChangesOne DEF Sound
  <1>4. LetInBefore' \in SUBSET (Reqs \ {h})
    BY <1>3, IdleIsTyped DEF LetInBefore
  <1>5. IsFiniteSet(Reqs \ {h}) /\ Cardinality(Reqs \ {h}) = Cardinality(Reqs) - 1
    BY FS_RemoveElement, SlotsAssumption
  <1>6. Cardinality(LetInBefore') =< Cardinality(Reqs) - 1 /\ Cardinality(LetInBefore') \in Nat
    BY <1>4, <1>5, FS_Subset, FS_CardinalityType
  <1>7. Cardinality(Survivors') = 0
    BY <1>2, FS_EmptySet
  <1>8. QED
    BY <1>6, <1>7, SomeSlot DEF ResetsSound

\* The steps that are none of these.
LEMMA ResetsStep ==
    ASSUME Sound, ResetsSound, OnlyRevoked, user # None \/ user' = None,
           user # None => user'.epoch = user.epoch,
           NEW h \in Reqs, NEW work \in Work, Go(h, work),
           user # None =>
              \/ work.pc \notin {"mail", "clear", "rotate", "issue"}
              \/ work.epoch = user.epoch
              \/ /\ reqs[h].pc \in {"mail", "clear", "rotate", "issue"}
                 /\ work.epoch = reqs[h].epoch
    PROVE ResetsSound'
  <1>1. CASE user' = None
    BY <1>1 DEF ResetsSound
  <1>2. CASE user # None
    BY <1>2, RevokedAddsNone, LaterAddsNone, ResetsFrame
  <1>3. QED
    BY <1>1, <1>2

\* A request that is sent reads the epoch of now, or none.
LEMMA SendsKeepResets ==
    ASSUME Sound, ResetsSound, NEW h \in Reqs,
           \/ \E t \in Tabs \cup {None} : SignupCheck(h, t) \/ LoginRight(h, t)
           \/ \E t \in Tabs : Boot(h, t) \/ Refresh(h, t) \/ Logout(h, t)
           \/ LoginWrong(h) \/ \E l \in Links : ResetLoad(h, l)
    PROVE ResetsSound'
  <1>1. user' = user
    BY DEF SignupCheck, LoginRight, Boot, Refresh, Logout, LoginWrong, ResetLoad, Account
  <1>2. CASE user = None
    BY <1>1, <1>2 DEF ResetsSound
  <1>3. CASE user # None
    <2>1. OnlyRevoked
      <3>1. CASE \E t \in Tabs : Logout(h, t)
        BY <3>1, LogoutIsSound
      <3>2. CASE ~\E t \in Tabs : Logout(h, t)
        <4>1. tokens' = tokens
          BY <3>2 DEF SignupCheck, LoginRight, Boot, Refresh, LoginWrong, ResetLoad
        <4>2. QED
          BY <4>1, NoneAreRevoked DEF Sound
      <3>3. QED
        BY <3>1, <3>2
    <2>2. \E work \in Work :
             /\ Go(h, work)
             /\ \/ work.pc \notin {"mail", "clear", "rotate", "issue"}
                \/ work.epoch = user.epoch
      <3>1. CASE \E t \in Tabs \cup {None} : SignupCheck(h, t)
        BY <1>3, <3>1 DEF SignupCheck
      <3>2. CASE \E t \in Tabs \cup {None} : LoginRight(h, t)
        <4>1. PICK t \in Tabs \cup {None}, pc \in {"clear", "issue"} :
                 Send(h, t, "login", [Idle EXCEPT !.pc = pc, !.epoch = user.epoch])
          BY <3>2 DEF LoginRight
        <4>2. PICK work : work = [Idle EXCEPT !.pc = pc, !.epoch = user.epoch,
                                              !.tab = t, !.kind = "login"]
          OBVIOUS
        <4>3. Go(h, work)
          BY <4>1, <4>2 DEF Send, Idle
        <4>4. work \in Work /\ work.epoch = user.epoch
          BY <1>3, <4>2, UserIsTyped DEF Idle, Work, Steps, Kinds, Sound
        <4>5. QED
          BY <4>3, <4>4
      <3>3. CASE \E t \in Tabs : Boot(h, t) \/ Refresh(h, t)
        <4>1. PICK t \in Tabs, kind \in {"boot", "refresh"} : Send(h, t, kind, Presented)
          BY <3>3 DEF Boot, Refresh
        <4>2. PICK work : work = [Presented EXCEPT !.tab = t, !.kind = kind]
          OBVIOUS
        <4>3. Go(h, work)
          BY <4>1, <4>2 DEF Send
        <4>4. /\ work \in Work
              /\ work.pc = Presented.pc /\ work.epoch = Presented.epoch
          BY <4>2, PresentedIsTyped DEF Work, Kinds
        <4>5. QED
          BY <4>3, <4>4, PresentedIsTyped
      <3>4. CASE \E t \in Tabs : Logout(h, t)
        <4>1. PICK t \in Tabs : Send(h, t, "logout", [Idle EXCEPT !.pc = "left"])
          BY <3>4 DEF Logout
        <4>2. PICK work : work = [Idle EXCEPT !.pc = "left", !.tab = t, !.kind = "logout"]
          OBVIOUS
        <4>3. Go(h, work)
          BY <4>1, <4>2 DEF Send, Idle
        <4>4. work \in Work /\ work.pc = "left"
          BY <4>2 DEF Idle, Work, Steps, Kinds
        <4>5. QED
          BY <4>3, <4>4
      <3>5. CASE LoginWrong(h)
        <4>1. PICK work : work = [Idle EXCEPT !.pc = "fail", !.kind = "login",
                                              !.failed = user.failed]
          OBVIOUS
        <4>2. Go(h, work)
          BY <3>5, <4>1 DEF LoginWrong
        <4>3. work \in Work /\ work.pc = "fail"
          BY <1>3, <4>1, UserIsTyped DEF Idle, Work, Steps, Kinds, Sound
        <4>4. QED
          BY <4>2, <4>3
      <3>6. CASE \E l \in Links : ResetLoad(h, l)
        <4>1. PICK l \in Links : ResetLoad(h, l)
          BY <3>6
        <4>2. PICK work : work = [Idle EXCEPT !.pc = "reset", !.kind = "reset", !.link = l]
          OBVIOUS
        <4>3. Go(h, work)
          BY <4>1, <4>2 DEF ResetLoad
        <4>4. work \in Work /\ work.pc = "reset"
          BY <4>2 DEF Idle, Work, Steps, Kinds
        <4>5. QED
          BY <4>3, <4>4
      <3>7. QED
        BY <3>1, <3>2, <3>3, <3>4, <3>5, <3>6
    <2>3. QED
      BY <1>1, <1>3, <2>1, <2>2, ResetsStep
  <1>4. QED
    BY <1>2, <1>3

\* A request that goes on keeps its epoch, and one that ends has none.
LEMMA StepsKeepResets ==
    ASSUME Sound, Sound', ResetsSound, NEW h \in Reqs,
           \/ SignupCreate(h) \/ SignupMail(h) \/ LoginFail(h) \/ LoginClear(h)
           \/ Rotate(h) \/ Granted(h) \/ Denied(h) \/ Left(h) \/ Fail(h)
    PROVE ResetsSound'
  <1>1. CASE SignupCreate(h) /\ user = None
    BY <1>1, SignupResets DEF SignupCreate
  <1>2. CASE ~(SignupCreate(h) /\ user = None)
    <2>1. /\ user # None \/ user' = None
          /\ user # None => user'.epoch = user.epoch
      <3>1. user # None => /\ user \in User /\ Cleared.epoch = user.epoch
        BY UserIsTyped DEF Sound
      <3>2. user = None => ~At(h, "mail") /\ ~At(h, "fail") /\ ~At(h, "clear")
        BY DEF Sound, NothingBeforeSignup, At
      <3>3. QED
        BY <1>2, <3>1, <3>2
           DEF SignupCreate, SignupMail, LoginFail, LoginClear, Rotate, Granted, Denied, Left,
               Fail, Account, User
    <2>2. OnlyRevoked
      <3>1. CASE Rotate(h)
        BY <3>1, RotateIsSound
      <3>2. CASE ~Rotate(h)
        <4>1. tokens' = tokens
          BY <3>2 DEF SignupCreate, SignupMail, LoginFail, LoginClear, Granted, Denied, Left, Fail
        <4>2. QED
          BY <4>1, NoneAreRevoked DEF Sound
      <3>3. QED
        BY <3>1, <3>2
    <2>3. CASE Go(h, Idle)
      BY <2>1, <2>2, <2>3, IdleIsTyped, ResetsStep
    <2>4. CASE ~Go(h, Idle)
      <3>1. PICK pc \in {"denied", "issue"} :
               /\ Go(h, [reqs[h] EXCEPT !.pc = pc])
               /\ pc = "issue" => reqs[h].pc \in {"mail", "clear", "rotate"}
        BY <1>2, <2>4
           DEF SignupCreate, SignupMail, LoginFail, LoginClear, Rotate, Granted, Denied, Left,
               Fail, Answer, Then, Quit, At
      <3>2. PICK work : work = [reqs[h] EXCEPT !.pc = pc]
        OBVIOUS
      <3>3. work \in Work /\ work.pc = pc /\ work.epoch = reqs[h].epoch
        <4>1. pc \in Steps
          BY DEF Steps
        <4>2. QED
          BY <3>2, <4>1, ThenChangesPc DEF Sound
      <3>4. QED
        BY <2>1, <2>2, <3>1, <3>2, <3>3, ResetsStep
    <2>5. QED
      BY <2>3, <2>4
  <1>3. QED
    BY <1>1, <1>2

\* Nor do the steps of no request add a session or a request of before a reset.
LEMMA OthersKeepResets ==
    ASSUME Sound, ResetsSound,
           \/ VerifyEmail \/ Tick
           \/ \E l \in Links : RequestPasswordReset(l)
           \/ \E t \in Tabs : AccessExpires(t) \/ Reload(t)
    PROVE ResetsSound'
  <1>1. tokens' = tokens
    BY DEF VerifyEmail, Tick, RequestPasswordReset, AccessExpires, Reload, Account
  <1>2. /\ user # None \/ user' = None
        /\ user # None => user'.epoch = user.epoch
    <2>1. user # None => user \in User
      BY UserIsTyped DEF Sound
    <2>2. QED
      BY <2>1 DEF VerifyEmail, Tick, RequestPasswordReset, AccessExpires, Reload, Account, User
  <1>3. CASE user = None
    BY <1>2, <1>3 DEF ResetsSound
  <1>4. CASE user # None
    <2>1. Survivors' \in SUBSET Survivors
      BY <1>1, <1>2, <1>4 DEF Survivors
    <2>2. ASSUME NEW h \in Reqs, reqs'[h].pc # "idle"
          PROVE reqs'[h].pc = reqs[h].pc /\ reqs'[h].epoch = reqs[h].epoch
      <3>1. CASE \E t \in Tabs : Reload(t)
        <4>1. PICK t \in Tabs : Reload(t)
          BY <3>1
        <4>2. \/ reqs'[h] = reqs[h] \/ reqs'[h] = Idle
              \/ reqs'[h] = [reqs[h] EXCEPT !.tab = None]
          BY <4>1 DEF Reload
        <4>3. QED
          BY <2>2, <4>2, RequestIsTyped, IdleIsTyped DEF Sound, Work
      <3>2. CASE ~\E t \in Tabs : Reload(t)
        BY <3>2 DEF VerifyEmail, Tick, RequestPasswordReset, AccessExpires
      <3>3. QED
        BY <3>1, <3>2
    <2>3. LetInBefore' \in SUBSET LetInBefore
      BY <1>2, <1>4, <2>2 DEF LetInBefore
    <2>4. QED
      BY <1>4, <2>1, <2>3, ResetsFrame
  <1>5. QED
    BY <1>3, <1>4

-----------------------------------------------------------------------------
(* The browser, as long as nothing disturbs it.                            *)

BrowserSound == (~disturbed => OneAtATime /\ CookieIsGood) /\ NobodyIsTurnedOut

\* What is said of the cookie is said while the browser is undisturbed.
LEMMA BrowserSplit ==
    ASSUME disturbed' \/ (OneAtATime' /\ CookieIsGood' /\ NobodyIsTurnedOut')
    PROVE BrowserSound'
  BY DEF BrowserSound, NobodyIsTurnedOut

\* Rows that are there, and may still be presented, are matched.
LEMMA MatchesStay ==
    ASSUME \A i \in DOMAIN tokens : i \in DOMAIN tokens' /\ tokens'[i] = tokens[i], NEW token,
           Matches(token) # {}
    PROVE Matches(token)' # {}
  BY DEF Matches

\* A step of a request that is sent or answered by nobody.
LEMMA BrowserStep ==
    ASSUME Sound, BrowserSound, UNCHANGED <<cookie, tabs, now>>, disturbed' = disturbed,
           NEW h \in Reqs, NEW work \in Work, Go(h, work),
           \A i \in DOMAIN tokens : i \in DOMAIN tokens' /\ tokens'[i] = tokens[i],
           work.tab # None => work.tab = reqs[h].tab /\ work.kind = reqs[h].kind,
           reqs[h].tab # None /\ reqs[h].pc \in {"issue", "granted", "left"}
              => work.tab # None /\ work.pc \in {"issue", "granted", "left"},
           work.pc = "granted" => Matches(work.token)' # {},
           work.pc # "rotate",
           work.pc = "denied" => work.kind \notin {"boot", "refresh"}
    PROVE BrowserSound'
  <1>1. reqs'[h] = work /\ \A g \in Reqs : g # h => reqs'[g] = reqs[g]
    BY GoChangesOne DEF Sound
  <1>2. SUFFICES ASSUME ~disturbed
                 PROVE OneAtATime' /\ CookieIsGood' /\ NobodyIsTurnedOut'
    BY BrowserSplit
  <1>3. OneAtATime /\ CookieIsGood /\ NobodyIsTurnedOut
    BY <1>2 DEF BrowserSound
  <1>4. \A g \in Reqs : reqs'[g].tab # None =>
           reqs'[g].tab = reqs[g].tab /\ reqs'[g].kind = reqs[g].kind
    BY <1>1
  <1>5. OneAtATime'
    <2>1. \A g, k \in Reqs : reqs'[g].tab # None /\ reqs'[k].tab # None => g = k
      BY <1>3, <1>4 DEF OneAtATime
    <2>2. \A g \in Reqs : reqs'[g].tab # None =>
             /\ reqs'[g].kind = "boot" => tabs[reqs'[g].tab].loading
             /\ reqs'[g].kind = "refresh" => ~tabs[reqs'[g].tab].loading
      BY <1>3, <1>4 DEF OneAtATime
    <2>3. \A g \in Reqs : reqs'[g].pc = "rotate" => reqs'[g].tab # None
      BY <1>1, <1>3 DEF OneAtATime, At
    <2>4. QED
      BY <2>1, <2>2, <2>3 DEF OneAtATime, At
  <1>6. CookieIsGood'
    <2>1. ASSUME NEW g \in Reqs, reqs'[g].pc = "granted", NEW token, token = reqs'[g].token
          PROVE Matches(token)' # {}
      <3>1. CASE g = h
        BY <1>1, <2>1, <3>1
      <3>2. CASE g # h
        <4>1. Matches(token) # {}
          BY <1>1, <1>3, <2>1, <3>2 DEF CookieIsGood, At, Matches
        <4>2. QED
          BY <4>1, MatchesStay
      <3>3. QED
        BY <3>1, <3>2
    <2>2. \/ cookie = None \/ cookie + RefreshTime < now
          \/ Matches(cookie)' # {} \/ Replacing'
      <3>1. Replacing => Replacing'
        BY <1>1 DEF Replacing
      <3>2. Matches(cookie) # {} => Matches(cookie)' # {}
        <4>1. PICK token : token = cookie
          OBVIOUS
        <4>2. Matches(token) # {} => Matches(token)' # {}
          BY MatchesStay
        <4>3. QED
          BY <4>1, <4>2 DEF Matches
      <3>3. QED
        BY <1>3, <3>1, <3>2 DEF CookieIsGood
    <2>3. \A g \in Reqs : (At(g, "granted") => Matches(reqs[g].token) # {})'
      BY <2>1 DEF At, Matches
    <2>4. QED
      BY <2>2, <2>3 DEF CookieIsGood
  <1>7. NobodyIsTurnedOut'
    BY <1>1, <1>2, <1>3 DEF NobodyIsTurnedOut, At
  <1>8. QED
    BY <1>5, <1>6, <1>7

\* A request leaves an undisturbed browser when it has no other.
LEMMA SendsAlone ==
    ASSUME Sound, BrowserSound, ~disturbed', NEW h \in Reqs, NEW t \in Tabs, NEW kind, NEW w,
           Send(h, t, kind, w),
           kind = "boot" => tabs[t].loading /\ ~BusyWith(t, {"boot"}),
           kind = "refresh" => ~tabs[t].loading /\ ~BusyWith(t, {"refresh"})
    PROVE ~disturbed /\ \A g \in Reqs : reqs[g].tab = None
  <1>1. ~disturbed /\ ~Overlaps(t, kind)
    BY NoneAssumption DEF Send
  <1>2. OneAtATime
    BY <1>1 DEF BrowserSound
  <1>3. ASSUME NEW g \in Reqs, reqs[g].tab # None
        PROVE FALSE
    <2>1. reqs[g].tab = t /\ kind \in {"boot", "refresh"} /\ reqs[g].kind \in {"boot", "refresh"}
      BY <1>1, <1>3 DEF Overlaps
    <2>2. reqs[g].kind # kind
      BY <2>1 DEF BusyWith
    <2>3. QED
      BY <1>2, <1>3, <2>1, <2>2 DEF OneAtATime
  <1>4. QED
    BY <1>1, <1>3

\* A tab's request is then the only one.
LEMMA TabSends ==
    ASSUME Sound, BrowserSound, UNCHANGED <<cookie, tabs, now>>,
           NEW h \in Reqs, NEW t \in Tabs, NEW kind, NEW w, Send(h, t, kind, w),
           NEW work \in Work, Go(h, work), work.tab = t, work.kind = kind,
           kind = "boot" => tabs[t].loading /\ ~BusyWith(t, {"boot"}),
           kind = "refresh" => ~tabs[t].loading /\ ~BusyWith(t, {"refresh"}),
           tokens' = tokens \/ work.pc = "left",
           work.pc # "granted",
           work.pc = "denied" => cookie = None \/ cookie + RefreshTime < now \/ Matches(cookie) = {}
    PROVE BrowserSound'
  <1>1. SUFFICES ASSUME ~disturbed'
                 PROVE OneAtATime' /\ CookieIsGood' /\ NobodyIsTurnedOut'
    BY BrowserSplit
  <1>2. ~disturbed /\ \A g \in Reqs : reqs[g].tab = None
    BY <1>1, SendsAlone
  <1>3. OneAtATime /\ CookieIsGood
    BY <1>2 DEF BrowserSound
  <1>4. reqs'[h] = work /\ \A g \in Reqs : g # h => reqs'[g] = reqs[g]
    BY GoChangesOne DEF Sound
  <1>5. work.tab # None
    BY NoneAssumption
  <1>6. OneAtATime'
    <2>1. \A g \in Reqs : reqs'[g].tab # None => g = h
      BY <1>2, <1>4
    <2>2. \A g \in Reqs : reqs'[g].pc = "rotate" => reqs'[g].tab # None
      BY <1>3, <1>4, <1>5 DEF OneAtATime, At
    <2>3. QED
      BY <1>4, <2>1, <2>2 DEF OneAtATime, At
  <1>7. \A g \in Reqs : reqs'[g].pc \in {"granted", "denied"} => g = h
    BY <1>2, <1>4 DEF Sound, RequestsSound, At
  <1>8. \/ cookie = None \/ cookie + RefreshTime < now \/ Matches(cookie) # {}
    BY <1>2, <1>3 DEF CookieIsGood, Replacing
  <1>9. CookieIsGood'
    <2>1. \/ cookie = None \/ cookie + RefreshTime < now
          \/ Matches(cookie)' # {} \/ Replacing'
      <3>1. CASE tokens' = tokens
        BY <1>8, <3>1 DEF Matches
      <3>2. CASE work.pc = "left"
        BY <1>4, <1>5, <3>2 DEF Replacing
      <3>3. QED
        BY <3>1, <3>2
    <2>2. \A g \in Reqs : ~At(g, "granted")'
      BY <1>4, <1>7 DEF At
    <2>3. QED
      BY <2>1, <2>2 DEF CookieIsGood
  <1>10. NobodyIsTurnedOut'
    BY <1>4, <1>7, <1>8 DEF NobodyIsTurnedOut, At
  <1>11. QED
    BY <1>6, <1>9, <1>10

\* Signing in, from a tab or from elsewhere.
LEMMA SignInBrowser ==
    ASSUME Sound, BrowserSound, NEW h \in Reqs, NEW t \in Tabs \cup {None},
           SignupCheck(h, t) \/ LoginRight(h, t)
    PROVE BrowserSound'
  <1>1. UNCHANGED <<tokens, cookie, tabs, now>>
    BY DEF SignupCheck, LoginRight, World
  <1>2. PICK kind \in {"signup", "login"}, w \in Work :
           Send(h, t, kind, w) /\ w.pc \in {"create", "clear", "issue"}
    <2>1. CASE SignupCheck(h, t)
      <3>1. [Idle EXCEPT !.pc = "create"] \in Work
        BY DEF Idle, Work, Steps
      <3>2. QED
        BY <2>1, <3>1 DEF SignupCheck, Idle
    <2>2. CASE LoginRight(h, t)
      <3>1. PICK pc \in {"clear", "issue"} :
               Send(h, t, "login", [Idle EXCEPT !.pc = pc, !.epoch = user.epoch])
        BY <2>2 DEF LoginRight
      <3>2. user.epoch \in Nat
        BY <2>2, UserIsTyped DEF LoginRight, Sound
      <3>3. [Idle EXCEPT !.pc = pc, !.epoch = user.epoch] \in Work
        BY <3>2 DEF Idle, Work, Steps
      <3>4. QED
        BY <3>1, <3>3 DEF Idle
    <2>3. QED
      BY <2>1, <2>2
  <1>3. PICK work : work = [w EXCEPT !.tab = t, !.kind = kind]
    OBVIOUS
  <1>4. /\ work \in Work /\ work.pc \in {"create", "clear", "issue"}
        /\ work.tab = t /\ work.kind = kind
    BY <1>2, <1>3 DEF Work, Kinds
  <1>5. Go(h, work) /\ At(h, "idle")
    BY <1>2, <1>3 DEF Send
  <1>6. CASE t \in Tabs
    BY <1>1, <1>2, <1>4, <1>5, <1>6, TabSends
  <1>7. CASE t = None
    <2>1. disturbed' = disturbed
      BY <1>2, <1>7 DEF Send, Sound, TypeOK
    <2>2. QED
      BY <1>1, <1>4, <1>5, <1>7, <2>1, BrowserStep DEF At
  <1>8. QED
    BY <1>6, <1>7

\* Refreshing, and signing out.
LEMMA RefreshBrowser ==
    ASSUME Sound, BrowserSound, NEW h \in Reqs, NEW t \in Tabs,
           Boot(h, t) \/ Refresh(h, t) \/ Logout(h, t)
    PROVE BrowserSound'
  <1>1. UNCHANGED <<cookie, tabs, now>>
    BY DEF Boot, Refresh, Logout, World
  <1>2. CASE Boot(h, t) \/ Refresh(h, t)
    <2>1. PICK kind \in {"boot", "refresh"} :
             /\ Send(h, t, kind, Presented)
             /\ kind = "boot" => tabs[t].loading /\ ~BusyWith(t, {"boot"})
             /\ kind = "refresh" => ~tabs[t].loading /\ ~BusyWith(t, {"refresh"})
      BY <1>2 DEF Boot, Refresh, SingleFlight
    <2>2. PICK w, work : w = Presented /\ work = [w EXCEPT !.tab = t, !.kind = kind]
      OBVIOUS
    <2>3. Go(h, work) /\ Send(h, t, kind, w)
      BY <2>1, <2>2 DEF Send
    <2>4. work \in Work /\ work.pc = Presented.pc /\ work.tab = t /\ work.kind = kind
      BY <2>2, PresentedIsTyped DEF Work, Kinds
    <2>5. tokens' = tokens
      BY <1>2 DEF Boot, Refresh
    <2>6. work.pc # "granted" /\ (work.pc = "denied" =>
             cookie = None \/ cookie + RefreshTime < now \/ Matches(cookie) = {})
      BY <2>4, PresentedIsTyped
    <2>7. QED
      BY <1>1, <2>1, <2>3, <2>4, <2>5, <2>6, TabSends
  <1>3. CASE Logout(h, t)
    <2>1. PICK w, work : /\ w = [Idle EXCEPT !.pc = "left"]
                         /\ work = [w EXCEPT !.tab = t, !.kind = "logout"]
      OBVIOUS
    <2>2. Go(h, work) /\ Send(h, t, "logout", w)
      BY <1>3, <2>1 DEF Logout, Send
    <2>3. work \in Work /\ work.pc = "left" /\ work.tab = t /\ work.kind = "logout"
      BY <2>1 DEF Idle, Work, Steps, Kinds
    <2>4. QED
      BY <1>1, <2>2, <2>3, TabSends
  <1>4. QED
    BY <1>2, <1>3

\* The steps of a request on the server, but for those that revoke.
LEMMA ServerBrowser ==
    ASSUME Sound, BrowserSound, NEW h \in Reqs,
           \/ SignupCreate(h) \/ SignupMail(h) \/ LoginWrong(h) \/ LoginFail(h) \/ LoginClear(h)
           \/ \E l \in Links : ResetLoad(h, l)
    PROVE BrowserSound'
  <1>1. UNCHANGED <<tokens, cookie, tabs, disturbed, now>>
    BY DEF SignupCreate, SignupMail, LoginWrong, LoginFail, LoginClear, ResetLoad, Browser, World
  <1>2. CASE LoginWrong(h) \/ \E l \in Links : ResetLoad(h, l)
    <2>1. At(h, "idle")
      BY <1>2 DEF LoginWrong, ResetLoad
    <2>2. \E work \in Work : /\ Go(h, work) /\ work.tab = None
                             /\ work.pc \in {"fail", "reset"}
      <3>1. CASE LoginWrong(h)
        <4>1. user.failed \in Nat
          BY <3>1, UserIsTyped DEF LoginWrong, Sound
        <4>2. [Idle EXCEPT !.pc = "fail", !.kind = "login", !.failed = user.failed] \in Work
          BY <4>1 DEF Idle, Work, Steps, Kinds
        <4>3. QED
          BY <3>1, <4>2 DEF LoginWrong, Idle
      <3>2. CASE \E l \in Links : ResetLoad(h, l)
        <4>1. PICK l \in Links : ResetLoad(h, l)
          BY <3>2
        <4>2. [Idle EXCEPT !.pc = "reset", !.kind = "reset", !.link = l] \in Work
          BY DEF Idle, Work, Steps, Kinds
        <4>3. QED
          BY <4>1, <4>2 DEF ResetLoad, Idle
      <3>3. QED
        BY <1>2, <3>1, <3>2
    <2>3. QED
      BY <1>1, <2>1, <2>2, BrowserStep DEF At
  <1>3. CASE SignupCreate(h) \/ SignupMail(h) \/ LoginFail(h) \/ LoginClear(h)
    <2>1. reqs[h].pc \in {"create", "mail", "fail", "clear"}
      BY <1>3 DEF SignupCreate, SignupMail, LoginFail, LoginClear, At
    <2>2. CASE Go(h, Idle)
      BY <1>1, <2>1, <2>2, IdleIsTyped, BrowserStep
    <2>3. CASE ~Go(h, Idle)
      <3>1. PICK pc \in {"mail", "issue", "denied"} :
               /\ Go(h, [reqs[h] EXCEPT !.pc = pc])
               /\ pc = "denied" => At(h, "create")
        BY <1>3, <2>3 DEF SignupCreate, SignupMail, LoginFail, LoginClear, Answer, Then, Quit
      <3>2. PICK work : work = [reqs[h] EXCEPT !.pc = pc]
        OBVIOUS
      <3>3. work \in Work /\ work.pc = pc /\ work.tab = reqs[h].tab /\ work.kind = reqs[h].kind
        <4>1. pc \in Steps
          BY DEF Steps
        <4>2. QED
          BY <3>2, <4>1, ThenChangesPc DEF Sound
      <3>4. pc = "denied" => work.kind = "signup"
        BY <3>1, <3>3 DEF Sound, RequestsSound
      <3>5. QED
        BY <1>1, <2>1, <3>1, <3>2, <3>3, <3>4, BrowserStep
    <2>4. QED
      BY <2>2, <2>3
  <1>4. QED
    BY <1>2, <1>3

\* A refresh revokes the row of an undisturbed browser, which waits for the next.
LEMMA RotateBrowser ==
    ASSUME Sound, BrowserSound, NEW h \in Reqs, Rotate(h)
    PROVE BrowserSound'
  <1>1. At(h, "rotate") /\ UNCHANGED <<cookie, tabs, disturbed, now>>
    BY DEF Rotate, Browser, World
  <1>2. SUFFICES ASSUME ~disturbed'
                 PROVE OneAtATime' /\ CookieIsGood' /\ NobodyIsTurnedOut'
    BY BrowserSplit
  <1>3. OneAtATime
    BY <1>1, <1>2 DEF BrowserSound
  <1>4. reqs[h].tab # None
    BY <1>1, <1>3 DEF OneAtATime
  <1>5. PICK work : work = [reqs[h] EXCEPT !.pc = "issue"]
    OBVIOUS
  <1>6. /\ Go(h, work) /\ work.pc = "issue"
        /\ work.tab = reqs[h].tab /\ work.kind = reqs[h].kind
    BY <1>5, ThenChangesPc DEF Rotate, Then, Sound, Steps
  <1>7. reqs'[h] = work /\ \A g \in Reqs : g # h => reqs'[g] = reqs[g]
    BY <1>6, GoChangesOne DEF Sound
  <1>8. \A g \in Reqs : reqs[g].tab # None => g = h
    BY <1>3, <1>4 DEF OneAtATime
  <1>9. \A g \in Reqs : reqs'[g].pc \notin {"granted", "denied"}
    BY <1>6, <1>7, <1>8 DEF Sound, RequestsSound
  <1>10. OneAtATime'
    <2>1. \A g \in Reqs : reqs'[g].tab = reqs[g].tab /\ reqs'[g].kind = reqs[g].kind
      BY <1>6, <1>7
    <2>2. \A g \in Reqs : reqs'[g].pc = "rotate" => reqs[g].pc = "rotate"
      BY <1>6, <1>7
    <2>3. QED
      BY <1>1, <1>3, <2>1, <2>2 DEF OneAtATime, At
  <1>11. Replacing'
    BY <1>4, <1>6, <1>7 DEF Replacing
  <1>12. CookieIsGood' /\ NobodyIsTurnedOut'
    BY <1>9, <1>11 DEF CookieIsGood, NobodyIsTurnedOut, At
  <1>13. QED
    BY <1>10, <1>12

\* A token that is issued can be presented.
LEMMA IssueBrowser ==
    ASSUME Sound, BrowserSound, NEW h \in Reqs, Issue(h)
    PROVE BrowserSound'
  <1>1. At(h, "issue") /\ UNCHANGED <<cookie, tabs, disturbed, now>>
    BY DEF Issue, Browser, World
  <1>2. PICK row \in Tokens, work \in Work :
           /\ row.token = now /\ row.revoked = FALSE
           /\ tokens' = Append(tokens, row) /\ Go(h, work)
           /\ \/ reqs[h].tab = None /\ work = Idle
              \/ /\ reqs[h].tab # None /\ work.pc = "granted" /\ work.tab = reqs[h].tab
                 /\ work.kind = reqs[h].kind /\ work.token = now
    BY IssuedRow DEF Sound
  <1>3. /\ \A i \in DOMAIN tokens : i \in DOMAIN tokens' /\ tokens'[i] = tokens[i]
        /\ tokens'[Len(tokens) + 1] = row /\ Len(tokens) + 1 \in DOMAIN tokens'
    BY <1>2, AppendedRow DEF Sound
  <1>4. work.pc = "granted" => Matches(work.token)' # {}
    BY <1>2, <1>3, IdleIsTyped DEF Matches
  <1>5. /\ work.tab # None => work.tab = reqs[h].tab /\ work.kind = reqs[h].kind
        /\ work.pc \notin {"rotate", "denied"}
        /\ reqs[h].tab # None => work.tab # None /\ work.pc = "granted"
    BY <1>2, IdleIsTyped
  <1>6. QED
    BY <1>1, <1>2, <1>3, <1>4, <1>5, BrowserStep

\* The last request of an undisturbed browser ends, with the cookie it leaves.
LEMMA LastOneEnds ==
    ASSUME Sound, BrowserSound, ~disturbed', disturbed' = disturbed,
           NEW h \in Reqs, reqs[h].tab # None, Go(h, Idle),
           cookie' = None \/ cookie' + RefreshTime < now' \/ Matches(cookie)' # {}
    PROVE BrowserSound'
  <1>1. OneAtATime
    BY DEF BrowserSound
  <1>2. reqs'[h] = Idle /\ \A g \in Reqs : g # h => reqs'[g] = reqs[g]
    BY GoChangesOne DEF Sound
  <1>3. \A g \in Reqs : reqs'[g].tab = None
    BY <1>1, <1>2, IdleIsTyped DEF OneAtATime
  <1>4. \A g \in Reqs : reqs'[g].pc \notin {"rotate", "granted", "denied"}
    <2>1. ASSUME NEW g \in Reqs, g # h
          PROVE reqs[g].pc \notin {"rotate", "granted", "denied"}
      BY <1>1, <2>1 DEF OneAtATime, At, Sound, RequestsSound
    <2>2. QED
      BY <1>2, <2>1, IdleIsTyped
  <1>5. OneAtATime' /\ NobodyIsTurnedOut'
    BY <1>3, <1>4 DEF OneAtATime, NobodyIsTurnedOut, At
  <1>6. CookieIsGood'
    BY <1>4 DEF CookieIsGood, At
  <1>7. QED
    BY <1>5, <1>6 DEF BrowserSound

\* The answers that the browser is given, and those it is not.
LEMMA AnswersBrowser ==
    ASSUME Sound, BrowserSound, NEW h \in Reqs, Granted(h) \/ Denied(h) \/ Left(h) \/ Fail(h)
    PROVE BrowserSound'
  <1>1. tokens' = tokens /\ now' = now /\ Go(h, Idle)
    BY DEF Granted, Denied, Left, Fail, World, Quit
  <1>2. CASE disturbed'
    BY <1>2, BrowserSplit
  <1>3. CASE ~disturbed' /\ Fail(h)
    <2>1. reqs[h].tab = None /\ disturbed' = disturbed /\ UNCHANGED <<cookie, tabs>>
      BY <1>3 DEF Fail, Sound, TypeOK
    <2>2. QED
      BY <1>1, <2>1, IdleIsTyped, BrowserStep
  <1>4. CASE ~disturbed' /\ ~Fail(h)
    <2>1. disturbed' = disturbed /\ reqs[h].tab # None
      BY <1>4 DEF Granted, Denied, Left, Sound, RequestsSound, At
    <2>2. OneAtATime /\ CookieIsGood
      BY <1>4, <2>1 DEF BrowserSound
    <2>3. cookie' = None \/ cookie' + RefreshTime < now' \/ Matches(cookie)' # {}
      <3>1. CASE Granted(h)
        BY <1>1, <2>2, <3>1 DEF Granted, CookieIsGood, Matches, At
      <3>2. CASE Left(h)
        BY <3>2 DEF Left
      <3>3. CASE Denied(h)
        <4>1. cookie' = cookie
          BY <3>3 DEF Denied
        <4>2. ~Replacing
          BY <2>1, <2>2, <3>3 DEF Denied, At, OneAtATime, Replacing
        <4>3. QED
          BY <1>1, <2>2, <4>1, <4>2 DEF CookieIsGood, Matches
      <3>4. QED
        BY <1>4, <3>1, <3>2, <3>3
    <2>4. QED
      BY <1>1, <1>4, <2>1, <2>3, LastOneEnds
  <1>5. QED
    BY <1>2, <1>3, <1>4

\* What is neither a request's step nor the browser's.
LEMMA OthersBrowser ==
    ASSUME Sound, BrowserSound,
           \/ VerifyEmail \/ Tick \/ UNCHANGED vars
           \/ \E l \in Links : RequestPasswordReset(l)
           \/ \E t \in Tabs : AccessExpires(t) \/ Reload(t)
    PROVE BrowserSound'
  <1>1. SUFFICES ASSUME ~disturbed'
                 PROVE OneAtATime' /\ CookieIsGood' /\ NobodyIsTurnedOut'
    BY BrowserSplit
  <1>2. ~disturbed /\ UNCHANGED <<tokens, cookie>>
    <2>1. UNCHANGED <<tokens, cookie>>
      BY DEF VerifyEmail, Tick, RequestPasswordReset, AccessExpires, Reload, Browser, vars
    <2>2. CASE \E t \in Tabs : Reload(t)
      BY <1>1, <2>1, <2>2 DEF Reload
    <2>3. CASE ~\E t \in Tabs : Reload(t)
      <3>1. disturbed' = disturbed
        BY <2>3 DEF VerifyEmail, Tick, RequestPasswordReset, AccessExpires, Browser, vars
      <3>2. QED
        BY <1>1, <2>1, <3>1
    <2>4. QED
      BY <2>2, <2>3
  <1>3. OneAtATime /\ CookieIsGood /\ NobodyIsTurnedOut
    BY <1>2 DEF BrowserSound
  <1>4. reqs' = reqs
    <2>1. CASE \E t \in Tabs : Reload(t)
      <3>1. PICK t \in Tabs : Reload(t)
        BY <2>1
      <3>2. \A h \in Reqs : reqs[h].tab # t
        BY <1>1, <3>1 DEF Reload
      <3>3. \A h \in Reqs : reqs'[h] = reqs[h]
        BY <3>1, <3>2 DEF Reload
      <3>4. reqs' \in [Reqs -> Work] \/ DOMAIN reqs' = Reqs
        BY <3>1 DEF Reload
      <3>5. QED
        BY <3>1, <3>3 DEF Reload, Sound, TypeOK
    <2>2. CASE ~\E t \in Tabs : Reload(t)
      BY <2>2 DEF VerifyEmail, Tick, RequestPasswordReset, AccessExpires, vars
    <2>3. QED
      BY <2>1, <2>2
  <1>5. now \in Nat /\ now' \in Nat /\ now' >= now
    BY DEF Sound, TypeOK, VerifyEmail, Tick, RequestPasswordReset, AccessExpires, Reload, World,
           vars
  <1>6. cookie = None \/ cookie \in Nat
    BY DEF Sound, TypeOK
  <1>7. cookie # None /\ cookie + RefreshTime < now => cookie + RefreshTime < now'
    BY <1>5, <1>6, NumbersAssumption
  <1>8. CookieIsGood' /\ NobodyIsTurnedOut'
    BY <1>2, <1>3, <1>4, <1>7 DEF CookieIsGood, NobodyIsTurnedOut, Replacing, Matches, At
  <1>9. \A h \in Reqs : reqs[h].tab # None =>
           tabs'[reqs[h].tab].loading = tabs[reqs[h].tab].loading
    <2>1. ASSUME NEW h \in Reqs, reqs[h].tab # None
          PROVE tabs'[reqs[h].tab].loading = tabs[reqs[h].tab].loading
      <3>1. reqs[h].tab \in Tabs /\ tabs[reqs[h].tab] \in TabStates
        BY <2>1, RequestIsTyped DEF Sound, TypeOK
      <3>2. CASE \E t \in Tabs : Reload(t)
        BY <1>1, <3>1, <3>2 DEF Reload, Sound, TypeOK
      <3>3. CASE \E t \in Tabs : AccessExpires(t)
        BY <3>1, <3>3 DEF AccessExpires, TabStates, Sound, TypeOK
      <3>4. CASE ~\E t \in Tabs : AccessExpires(t) \/ Reload(t)
        BY <3>4 DEF VerifyEmail, Tick, RequestPasswordReset, Browser, vars
      <3>5. QED
        BY <3>2, <3>3, <3>4
    <2>2. QED
      BY <2>1
  <1>10. OneAtATime'
    BY <1>3, <1>4, <1>9 DEF OneAtATime, At
  <1>11. QED
    BY <1>8, <1>10

-----------------------------------------------------------------------------
(* The numbers choose(n, k).  The steps of the recursion of factorial are  *)
(* followed by hand: a set of numbers that holds 0 and, with each of its   *)
(* numbers, the next one, holds all of them.                               *)

\* Induction, for a set.
LEMMA AllNumbers ==
    ASSUME NEW S \in SUBSET Nat, 0 \in S, \A n \in S : n + 1 \in S
    PROVE \A n \in Nat : n \in S
  <1>1. ASSUME Nat \ S # {}
        PROVE FALSE
    <2>1. PICK n \in Nat \ S : \A m \in Nat \ S : n =< m
      BY <1>1, SmallestExists
    <2>2. n # 0
      BY <2>1
    <2>3. n - 1 \in Nat /\ ~(n =< n - 1)
      BY <2>1, <2>2
    <2>4. n - 1 \in S
      BY <2>1, <2>3
    <2>5. (n - 1) + 1 \in S
      BY <2>4
    <2>6. QED
      BY <2>1, <2>5
  <1>2. QED
    BY <1>1

\* g counts the factorials up to n's.
FactorialsTo(g, n) == /\ g \in [0..n -> Nat] /\ g[0] = 1
                      /\ \A i \in 1..n : g[i] = i * g[i - 1]

\* Any two such agree where both are defined.
LEMMA FactorialsAgree ==
    ASSUME NEW n \in Nat, NEW m \in Nat, NEW f, NEW g, FactorialsTo(f, n), FactorialsTo(g, m),
           NEW i \in Nat, i =< n, i =< m
    PROVE f[i] = g[i]
  <1> DEFINE bad == {j \in Nat : j =< n /\ j =< m /\ f[j] # g[j]}
  <1>1. ASSUME bad # {}
        PROVE FALSE
    <2>1. bad \in SUBSET Nat
      OBVIOUS
    <2> HIDE DEF bad
    <2>2. PICK j \in bad : \A k \in bad : j =< k
      BY <1>1, <2>1, SmallestExists
    <2>3. j \in Nat /\ j =< n /\ j =< m /\ f[j] # g[j]
      BY <2>2 DEF bad
    <2>4. j # 0
      BY <2>3 DEF FactorialsTo
    <2>5. j - 1 \in Nat /\ j - 1 =< n /\ j - 1 =< m /\ ~(j =< j - 1)
      BY <2>3, <2>4
    <2>6. f[j - 1] = g[j - 1]
      <3>1. j - 1 \notin bad
        BY <2>2, <2>5
      <3>2. QED
        BY <2>5, <3>1 DEF bad
    <2>7. j \in 1..n /\ j \in 1..m
      BY <2>3, <2>4
    <2>8. f[j] = j * f[j - 1] /\ g[j] = j * g[j - 1]
      BY <2>7 DEF FactorialsTo
    <2>9. QED
      BY <2>3, <2>6, <2>8
  <1>2. QED
    BY <1>1

\* There is one for every n.
LEMMA FactorialsExist ==
    ASSUME NEW n \in Nat
    PROVE \E g : FactorialsTo(g, n)
  <1> DEFINE S == {m \in Nat : \E g : FactorialsTo(g, m)}
  <1>1. 0 \in S
    <2>1. PICK g : g = [i \in 0..0 |-> 1]
      OBVIOUS
    <2>2. g \in [0..0 -> Nat] /\ g[0] = 1
      BY <2>1
    <2>3. FactorialsTo(g, 0)
      BY <2>2 DEF FactorialsTo
    <2>4. QED
      BY <2>3
  <1>2. ASSUME NEW m \in S
        PROVE m + 1 \in S
    <2>1. PICK g : FactorialsTo(g, m)
      OBVIOUS
    <2>2. PICK f : f = [i \in 0..(m + 1) |-> IF i =< m THEN g[i] ELSE (m + 1) * g[m]]
      OBVIOUS
    <2>3. g[m] \in Nat /\ \A i \in 0..m : g[i] \in Nat
      BY <2>1 DEF FactorialsTo
    <2>4. (m + 1) * g[m] \in Nat
      BY <2>3
    <2>5. /\ \A i \in 0..m : f[i] = g[i]
          /\ f[m + 1] = (m + 1) * g[m]
      BY <2>2
    <2>6. f \in [0..(m + 1) -> Nat]
      <3>1. \A i \in 0..(m + 1) : (IF i =< m THEN g[i] ELSE (m + 1) * g[m]) \in Nat
        BY <2>3, <2>4
      <3>2. QED
        BY <2>2, <3>1
    <2>7. f[0] = 1
      BY <2>1, <2>5 DEF FactorialsTo
    <2>8. ASSUME NEW i \in 1..(m + 1)
          PROVE f[i] = i * f[i - 1]
      <3>1. i - 1 \in 0..m
        OBVIOUS
      <3>2. f[i - 1] = g[i - 1]
        BY <2>5, <3>1
      <3>3. CASE i =< m
        <4>1. i \in 1..m /\ i \in 0..m
          BY <3>3
        <4>2. QED
          BY <2>1, <2>5, <3>2, <4>1 DEF FactorialsTo
      <3>4. CASE ~(i =< m)
        <4>1. i = m + 1 /\ i - 1 = m
          BY <3>4
        <4>2. QED
          BY <2>5, <3>2, <4>1
      <3>5. QED
        BY <3>3, <3>4
    <2>9. FactorialsTo(f, m + 1)
      BY <2>6, <2>7, <2>8 DEF FactorialsTo
    <2>10. QED
      BY <2>9
  <1>3. S \in SUBSET Nat
    OBVIOUS
  <1> HIDE DEF S
  <1>4. n \in S
    BY <1>1, <1>2, <1>3, AllNumbers
  <1>5. QED
    BY <1>4 DEF S

\* What the definition of factorial says of it.
LEMMA FactorialRecurs ==
    /\ factorial[0] = 1
    /\ \A n \in Nat : factorial[n + 1] = (n + 1) * factorial[n]
  <1> DEFINE upTo(n) == CHOOSE g : FactorialsTo(g, n)
  <1>1. \A n \in Nat : FactorialsTo(upTo(n), n)
    BY FactorialsExist
  <1> DEFINE F == [n \in Nat |-> upTo(n)[n]]
  <1> HIDE DEF upTo
  <1>2. F[0] = 1
    BY <1>1 DEF FactorialsTo
  <1>3. ASSUME NEW n \in Nat, n # 0
        PROVE F[n] = n * F[n - 1]
    <2>1. n - 1 \in Nat /\ n - 1 =< n /\ n \in 1..n /\ n - 1 =< n - 1
      BY <1>3
    <2>2. upTo(n)[n] = n * upTo(n)[n - 1]
      BY <1>1, <2>1 DEF FactorialsTo
    <2>3. upTo(n)[n - 1] = upTo(n - 1)[n - 1]
      BY <1>1, <2>1, FactorialsAgree
    <2>4. QED
      BY <2>1, <2>2, <2>3
  <1>4. F = [n \in Nat |-> IF n = 0 THEN 1 ELSE n * F[n - 1]]
    <2>1. F = [n \in Nat |-> F[n]]
      OBVIOUS
    <2> HIDE DEF F
    <2>2. QED
      BY <1>2, <1>3, <2>1
  <1>5. \E f : f = [n \in Nat |-> IF n = 0 THEN 1 ELSE n * f[n - 1]]
    <2> HIDE DEF F
    <2>1. QED
      BY <1>4
  <1>6. factorial = [n \in Nat |-> IF n = 0 THEN 1 ELSE n * factorial[n - 1]]
    BY <1>5 DEF factorial
  <1>7. factorial[0] = 1
    BY <1>6
  <1>8. ASSUME NEW n \in Nat
        PROVE factorial[n + 1] = (n + 1) * factorial[n]
    <2>1. PICK m \in Nat : m = n + 1
      OBVIOUS
    <2>2. m # 0 /\ m - 1 = n
      BY <2>1
    <2>3. factorial[m] = m * factorial[m - 1]
      BY <1>6, <2>2
    <2>4. QED
      BY <2>1, <2>2, <2>3
  <1>9. QED
    BY <1>7, <1>8

\* A factorial is a positive number.
LEMMA FactorialIsPositive ==
    ASSUME NEW n \in Nat
    PROVE factorial[n] \in Nat \ {0}
  <1> DEFINE S == {m \in Nat : factorial[m] \in Nat \ {0}}
  <1>1. 0 \in S
    BY FactorialRecurs
  <1>2. ASSUME NEW m \in S
        PROVE m + 1 \in S
    <2>1. PICK a \in Nat \ {0} : factorial[m] = a
      OBVIOUS
    <2>2. PICK b \in Nat \ {0} : m + 1 = b
      OBVIOUS
    <2>3. factorial[m + 1] = b * a
      BY <2>1, <2>2, FactorialRecurs
    <2>4. b * a \in Nat \ {0}
      OBVIOUS
    <2>5. QED
      BY <2>3, <2>4
  <1>3. S \in SUBSET Nat
    OBVIOUS
  <1> HIDE DEF S
  <1>4. n \in S
    BY <1>1, <1>2, <1>3, AllNumbers
  <1>5. QED
    BY <1>4 DEF S

\* Sums of two products with a common factor, as choose adds them up.
LEMMA TwoTerms ==
    ASSUME NEW p \in Nat, NEW q \in Nat, NEW a \in Nat, NEW b \in Nat,
           NEW c \in Nat, NEW k \in Nat, NEW f \in Nat,
           p * (a * (k * b)) = f, q * ((c * a) * b) = f
    PROVE (p + q) * ((c * a) * (k * b)) = (c + k) * f
  <1>1. p * ((c * a) * (k * b)) = c * (p * (a * (k * b)))
    OBVIOUS
  <1>2. q * ((c * a) * (k * b)) = k * (q * ((c * a) * b))
    OBVIOUS
  <1>3. (p + q) * ((c * a) * (k * b)) = p * ((c * a) * (k * b)) + q * ((c * a) * (k * b))
    OBVIOUS
  <1>4. (c + k) * f = c * f + k * f
    OBVIOUS
  <1>5. QED
    BY <1>1, <1>2, <1>3, <1>4

\* p is the number of ways to choose: it says what choose divides out.
Chooses(p, c, k) == p \in Nat /\ p * (factorial[c] * factorial[k]) = factorial[c + k]

\* Choosing all or none is done in one way.
LEMMA ChoosesAllOrNone ==
    ASSUME NEW c \in Nat
    PROVE Chooses(1, c, 0) /\ Chooses(1, 0, c)
  <1>1. PICK f \in Nat : factorial[c] = f
    BY FactorialIsPositive
  <1>2. factorial[0] = 1 /\ c + 0 = c /\ 0 + c = c
    BY FactorialRecurs
  <1>3. 1 * (f * 1) = f /\ 1 * (1 * f) = f
    OBVIOUS
  <1>4. QED
    BY <1>1, <1>2, <1>3 DEF Chooses

\* Pascal's rule.
LEMMA ChoosesAdd ==
    ASSUME NEW c \in Nat, NEW k \in Nat, NEW p, NEW q,
           Chooses(p, c, k + 1), Chooses(q, c + 1, k)
    PROVE Chooses(p + q, c + 1, k + 1)
  <1>1. PICK a \in Nat : factorial[c] = a
    BY FactorialIsPositive
  <1>2. PICK b \in Nat : factorial[k] = b
    BY FactorialIsPositive
  <1>3. PICK f \in Nat : factorial[c + k + 1] = f
    BY FactorialIsPositive
  <1>4. /\ factorial[c + 1] = (c + 1) * a /\ factorial[k + 1] = (k + 1) * b
        /\ factorial[(c + k + 1) + 1] = ((c + k + 1) + 1) * f
    BY <1>1, <1>2, <1>3, FactorialRecurs
  <1>5. c + (k + 1) = c + k + 1 /\ (c + 1) + k = c + k + 1
        /\ (c + 1) + (k + 1) = (c + k + 1) + 1
    OBVIOUS
  <1>6. p \in Nat /\ q \in Nat
    BY DEF Chooses
  <1>7. p * (a * ((k + 1) * b)) = f
    BY <1>1, <1>3, <1>4, <1>5 DEF Chooses
  <1>8. q * (((c + 1) * a) * b) = f
    BY <1>2, <1>3, <1>4, <1>5 DEF Chooses
  <1>9. (p + q) * (((c + 1) * a) * ((k + 1) * b)) = ((c + 1) + (k + 1)) * f
    BY <1>6, <1>7, <1>8, TwoTerms, c + 1 \in Nat, k + 1 \in Nat
  <1>10. (p + q) * (factorial[c + 1] * factorial[k + 1]) = factorial[(c + 1) + (k + 1)]
    BY <1>4, <1>5, <1>9
  <1>11. QED
    BY <1>6, <1>10 DEF Chooses

\* There is such a number for every c and k, by induction on their sum.
LEMMA ChoosesExists ==
    ASSUME NEW c \in Nat, NEW k \in Nat
    PROVE \E p \in Nat : Chooses(p, c, k)
  <1> DEFINE S == {n \in Nat : \A i, j \in Nat : i + j = n => \E p \in Nat : Chooses(p, i, j)}
  <1>1. 0 \in S
    <2>1. ASSUME NEW i \in Nat, NEW j \in Nat, i + j = 0
          PROVE \E p \in Nat : Chooses(p, i, j)
      <3>1. i = 0 /\ j = 0
        BY <2>1
      <3>2. QED
        BY <3>1, ChoosesAllOrNone
    <2>2. QED
      BY <2>1
  <1>2. ASSUME NEW n \in S
        PROVE n + 1 \in S
    <2>1. ASSUME NEW i \in Nat, NEW j \in Nat, i + j = n + 1
          PROVE \E p \in Nat : Chooses(p, i, j)
      <3>1. CASE i = 0 \/ j = 0
        BY <3>1, ChoosesAllOrNone
      <3>2. CASE i # 0 /\ j # 0
        <4>1. PICK l \in Nat : l + 1 = i
          BY <3>2, i - 1 \in Nat, (i - 1) + 1 = i
        <4>2. PICK m \in Nat : m + 1 = j
          BY <3>2, j - 1 \in Nat, (j - 1) + 1 = j
        <4>3. n \in Nat /\ l + (m + 1) = n /\ (l + 1) + m = n
          BY <2>1, <4>1, <4>2
        <4>4. PICK p \in Nat : Chooses(p, l, m + 1)
          BY <4>3, m + 1 \in Nat
        <4>5. PICK q \in Nat : Chooses(q, l + 1, m)
          BY <4>3, l + 1 \in Nat
        <4>6. Chooses(p + q, l + 1, m + 1)
          BY <4>4, <4>5, ChoosesAdd
        <4>7. QED
          BY <4>1, <4>2, <4>6
      <3>3. QED
        BY <3>1, <3>2
    <2>2. QED
      BY <2>1
  <1>3. S \in SUBSET Nat
    OBVIOUS
  <1> HIDE DEF S
  <1>4. c + k \in S
    BY <1>1, <1>2, <1>3, AllNumbers
  <1>5. QED
    BY <1>4 DEF S

\* A product divided by one of its factors.
LEMMA Quotient ==
    ASSUME NEW p \in Nat, NEW d \in Nat \ {0}
    PROVE (p * d) \div d = p
  OBVIOUS

\* It is what choose computes.
LEMMA ChooseIsExact ==
    ASSUME NEW c \in Nat, NEW k \in Nat, NEW p, Chooses(p, c, k)
    PROVE choose(c + k, k) = p
  <1>1. PICK a \in Nat \ {0} : factorial[c] = a
    BY FactorialIsPositive
  <1>2. PICK b \in Nat \ {0} : factorial[k] = b
    BY FactorialIsPositive
  <1>3. PICK d \in Nat \ {0} : d = b * a
    BY b * a \in Nat \ {0}
  <1>4. p \in Nat /\ factorial[c + k] = p * (a * b) /\ a * b = b * a
    BY <1>1, <1>2 DEF Chooses
  <1>5. factorial[c + k] = p * d
    BY <1>3, <1>4
  <1>6. (c + k) - k = c
    OBVIOUS
  <1>7. choose(c + k, k) = (p * d) \div d
    BY <1>1, <1>2, <1>3, <1>5, <1>6 DEF choose
  <1>8. QED
    BY <1>4, <1>7, Quotient

\* The wrong passwords that n - 1 requests of an old count allow below one
\* threshold, with c thresholds left.
Ways(c, n) == IF n = 0 THEN 0 ELSE choose(c + (n - 1), n - 1)

\* Its values, and how they add up.
LEMMA WaysAddUp ==
    /\ \A c, n \in Nat : Ways(c, n) \in Nat
    /\ \A c \in Nat : Ways(c, 0) = 0
    /\ \A n \in Nat : Ways(0, n + 1) = 1
    /\ \A c, n \in Nat : Ways(c + 1, n + 1) = Ways(c + 1, n) + Ways(c, n + 1)
  <1>1. ASSUME NEW c \in Nat, NEW n \in Nat
        PROVE \E p \in Nat : Chooses(p, c, n) /\ Ways(c, n + 1) = p
    <2>1. PICK p \in Nat : Chooses(p, c, n)
      BY ChoosesExists
    <2>2. choose(c + n, n) = p
      BY <2>1, ChooseIsExact
    <2>3. n + 1 # 0 /\ (n + 1) - 1 = n
      OBVIOUS
    <2>4. Ways(c, n + 1) = choose(c + n, n)
      BY <2>3 DEF Ways
    <2>5. QED
      BY <2>1, <2>2, <2>4
  <1>2. \A c \in Nat : Ways(c, 0) = 0
    BY DEF Ways
  <1>3. ASSUME NEW c \in Nat, NEW n \in Nat
        PROVE Ways(c, n) \in Nat
    <2>1. CASE n = 0
      BY <1>2, <2>1
    <2>2. CASE n # 0
      <3>1. PICK m \in Nat : m + 1 = n
        BY <2>2, n - 1 \in Nat, (n - 1) + 1 = n
      <3>2. QED
        BY <1>1, <3>1
    <2>3. QED
      BY <2>1, <2>2
  <1>4. ASSUME NEW c \in Nat, NEW n \in Nat, NEW p \in Nat, Chooses(p, c, n)
        PROVE Ways(c, n + 1) = p
    <2>1. PICK q \in Nat : Chooses(q, c, n) /\ Ways(c, n + 1) = q
      BY <1>1
    <2>2. choose(c + n, n) = p /\ choose(c + n, n) = q
      BY <1>4, <2>1, ChooseIsExact
    <2>3. QED
      BY <2>1, <2>2
  <1>5. ASSUME NEW n \in Nat
        PROVE Ways(0, n + 1) = 1
    BY <1>4, ChoosesAllOrNone
  <1>6. ASSUME NEW c \in Nat, NEW n \in Nat
        PROVE Ways(c + 1, n + 1) = Ways(c + 1, n) + Ways(c, n + 1)
    <2>1. PICK p \in Nat : Chooses(p, c, n) /\ Ways(c, n + 1) = p
      BY <1>1
    <2>2. CASE n = 0
      <3>1. Ways(c, 0 + 1) = 1 /\ Ways(c + 1, 0 + 1) = 1
        BY <1>4, ChoosesAllOrNone, c + 1 \in Nat
      <3>2. QED
        BY <1>2, <2>2, <3>1, c + 1 \in Nat
    <2>3. CASE n # 0
      <3>1. PICK m \in Nat : m + 1 = n
        BY <2>3, n - 1 \in Nat, (n - 1) + 1 = n
      <3>2. PICK q \in Nat : Chooses(q, c + 1, m) /\ Ways(c + 1, m + 1) = q
        BY <1>1, c + 1 \in Nat
      <3>3. Chooses(p + q, c + 1, m + 1)
        BY <2>1, <3>1, <3>2, ChoosesAdd
      <3>4. Ways(c + 1, n + 1) = p + q
        BY <1>4, <3>1, <3>3, c + 1 \in Nat, p + q \in Nat
      <3>5. QED
        BY <2>1, <3>1, <3>2, <3>4
    <2>4. QED
      BY <2>2, <2>3
  <1>7. QED
    BY <1>2, <1>3, <1>5, <1>6

-----------------------------------------------------------------------------
(* Wrong passwords between two locks.  For each count of failures under    *)
(* the limit, the highest first, a bound on those that left the account at *)
(* less.                                                                    *)

\* s bounds them, with c of the thresholds left and k[c] requests at it.
Bounds(s, k, n) == /\ s \in [0..n -> Nat] /\ s[0] = 0
                   /\ \A c \in 1..n : s[c] =< s[c - 1] + Ways(c, k[c])

\* More requests allow more.
LEMMA WaysGrow ==
    ASSUME NEW c \in Nat \ {0}, NEW a \in Nat, NEW b \in Nat, a =< b
    PROVE Ways(c, a) =< Ways(c, b)
  <1> DEFINE S == {m \in Nat : Ways(c, a) =< Ways(c, a + m)}
  <1>1. c - 1 \in Nat /\ (c - 1) + 1 = c
    OBVIOUS
  <1>2. 0 \in S
    <2>1. Ways(c, a) \in Nat /\ a + 0 = a
      BY WaysAddUp
    <2>2. QED
      BY <2>1
  <1>3. ASSUME NEW m \in S
        PROVE m + 1 \in S
    <2>1. m \in Nat /\ a + m \in Nat /\ (a + m) + 1 = a + (m + 1)
      OBVIOUS
    <2>2. Ways(c, (a + m) + 1) = Ways(c, a + m) + Ways(c - 1, (a + m) + 1)
      BY <1>1, <2>1, WaysAddUp
    <2>3. Ways(c, a) \in Nat /\ Ways(c, a + m) \in Nat /\ Ways(c - 1, (a + m) + 1) \in Nat
      BY <1>1, <2>1, WaysAddUp, (a + m) + 1 \in Nat
    <2>4. Ways(c, a) =< Ways(c, a + m)
      OBVIOUS
    <2>5. Ways(c, a) =< Ways(c, (a + m) + 1)
      BY <2>2, <2>3, <2>4
    <2>6. QED
      BY <2>1, <2>5
  <1>4. S \in SUBSET Nat
    OBVIOUS
  <1> HIDE DEF S
  <1>5. b - a \in S
    BY <1>2, <1>3, <1>4, AllNumbers, b - a \in Nat
  <1>6. a + (b - a) = b
    OBVIOUS
  <1>7. QED
    BY <1>5, <1>6 DEF S

\* With at most m requests at any of j thresholds, a bound on all of them.
LEMMA BoundsAddUp ==
    ASSUME NEW n \in Nat, NEW s, NEW k \in [1..n -> Nat], Bounds(s, k, n),
           NEW m \in Nat, NEW j \in 0..n, \A c \in 1..j : k[c] =< m
    PROVE s[j] + 1 =< Ways(j, m + 1)
  <1> DEFINE S == {i \in Nat : i =< j => s[i] + 1 =< Ways(i, m + 1)}
  <1>1. 0 \in S
    BY WaysAddUp DEF Bounds
  <1>2. ASSUME NEW i \in S
        PROVE i + 1 \in S
    <2>1. ASSUME i + 1 =< j
          PROVE s[i + 1] + 1 =< Ways(i + 1, m + 1)
      <3>1. /\ i \in Nat /\ i =< j /\ i \in 0..n /\ i + 1 \in 1..n /\ i + 1 \in 1..j
            /\ i + 1 \in 0..n /\ (i + 1) - 1 = i
        BY <2>1
      <3>2. s[i] \in Nat /\ s[i + 1] \in Nat
        BY <3>1 DEF Bounds
      <3>3. s[i] + 1 =< Ways(i, m + 1)
        BY <3>1
      <3>4. s[i + 1] =< s[i] + Ways(i + 1, k[i + 1])
        BY <3>1 DEF Bounds
      <3>5. Ways(i + 1, k[i + 1]) =< Ways(i + 1, m)
        <4>1. k[i + 1] \in Nat /\ k[i + 1] =< m /\ i + 1 \in Nat \ {0}
          BY <3>1
        <4>2. QED
          BY <4>1, WaysGrow
      <3>6. Ways(i + 1, m + 1) = Ways(i + 1, m) + Ways(i, m + 1)
        BY <3>1, WaysAddUp
      <3>7. /\ Ways(i + 1, m) \in Nat /\ Ways(i, m + 1) \in Nat /\ Ways(i + 1, k[i + 1]) \in Nat
            /\ Ways(i + 1, m + 1) \in Nat
        BY <3>1, WaysAddUp, i + 1 \in Nat, m + 1 \in Nat, k[i + 1] \in Nat
      <3>8. QED
        BY <3>2, <3>3, <3>4, <3>5, <3>6, <3>7
    <2>2. QED
      BY <2>1
  <1>3. S \in SUBSET Nat
    OBVIOUS
  <1> HIDE DEF S
  <1>4. j \in S
    BY <1>1, <1>2, <1>3, AllNumbers, j \in Nat
  <1>5. QED
    BY <1>4 DEF S

\* Inequalities added up.
LEMMA Inequalities ==
    ASSUME NEW a \in Nat, NEW b \in Nat, NEW v \in Nat, NEW w \in Nat, a =< b + v
    PROVE /\ v =< w => a + 1 =< (b + 1) + w
          /\ \A x, y \in Nat : b + 1 =< x /\ y = v + x /\ y =< w => a + 1 =< w
  OBVIOUS

\* One more wrong password, of a request that leaves the account at j: nothing
\* is known any more of the thresholds above, and the request itself is one
\* more at j's.
LEMMA BoundsRise ==
    ASSUME NEW n \in Nat, NEW s, NEW k \in [1..n -> Nat], Bounds(s, k, n),
           NEW k1 \in [1..n -> Nat], NEW j \in 1..n,
           \A c \in 1..j : k[c] =< k[j],
           k[j] + 1 =< k1[j],
           \A c \in j..n : k[c] =< k1[c]
    PROVE LET t == [c \in 0..n |-> IF c < j THEN 0 ELSE s[c] + 1]
          IN  Bounds(t, k1, n) /\ t[n] = s[n] + 1
  <1> DEFINE t == [c \in 0..n |-> IF c < j THEN 0 ELSE s[c] + 1]
  <1>1. s \in [0..n -> Nat]
    BY DEF Bounds
  <1>2. /\ \A c \in 0..n : c < j => t[c] = 0
        /\ \A c \in 0..n : ~(c < j) => t[c] = s[c] + 1
        /\ t \in [0..n -> Nat]
    BY <1>1
  <1> HIDE DEF t
  <1>3. t[0] = 0 /\ t[n] = s[n] + 1
    BY <1>2
  <1>4. ASSUME NEW c \in 1..n
        PROVE t[c] =< t[c - 1] + Ways(c, k1[c])
    <2>1. /\ c \in Nat \ {0} /\ c \in 0..n /\ c - 1 \in 0..n /\ c - 1 \in Nat
          /\ (c - 1) + 1 = c /\ k[c] \in Nat /\ k1[c] \in Nat
          /\ s[c] \in Nat /\ s[c - 1] \in Nat
      BY <1>1
    <2>2. Ways(c, k1[c]) \in Nat /\ Ways(c, k[c]) \in Nat
      BY <2>1, WaysAddUp
    <2>3. s[c] =< s[c - 1] + Ways(c, k[c])
      BY DEF Bounds
    <2>4. CASE c < j
      <3>1. t[c] = 0 /\ t[c - 1] = 0
        BY <1>2, <2>1, <2>4
      <3>2. QED
        BY <2>2, <3>1
    <2>5. CASE c = j
      <3>1. t[c] = s[c] + 1 /\ t[c - 1] = 0
        BY <1>2, <2>1, <2>5
      <3>2. s[c - 1] + 1 =< Ways(c - 1, k[c] + 1)
        <4>1. \A b \in 1..(c - 1) : k[b] =< k[c]
          BY <2>5
        <4>2. QED
          BY <2>1, <4>1, BoundsAddUp
      <3>3. Ways(c, k[c] + 1) = Ways(c, k[c]) + Ways(c - 1, k[c] + 1)
        BY <2>1, WaysAddUp
      <3>4. Ways(c, k[c] + 1) =< Ways(c, k1[c])
        <4>1. k[c] + 1 =< k1[c] /\ k[c] + 1 \in Nat
          BY <2>1, <2>5
        <4>2. QED
          BY <2>1, <4>1, WaysGrow
      <3>5. Ways(c - 1, k[c] + 1) \in Nat /\ Ways(c, k[c] + 1) \in Nat
        <4>1. k[c] + 1 \in Nat
          BY <2>1
        <4>2. QED
          BY <2>1, <4>1, WaysAddUp
      <3>6. s[c] + 1 =< Ways(c, k1[c])
        <4>1. PICK a \in Nat, b \in Nat : s[c] = a /\ s[c - 1] = b
          BY <2>1
        <4>2. PICK v \in Nat, w \in Nat : Ways(c, k[c]) = v /\ Ways(c, k1[c]) = w
          BY <2>2
        <4>3. PICK x \in Nat, y \in Nat : Ways(c - 1, k[c] + 1) = x /\ Ways(c, k[c] + 1) = y
          BY <3>5
        <4>4. a =< b + v /\ b + 1 =< x /\ y = v + x /\ y =< w
          BY <2>3, <3>2, <3>3, <3>4, <4>1, <4>2, <4>3
        <4>5. QED
          BY <4>1, <4>2, <4>4, Inequalities
      <3>7. 0 + Ways(c, k1[c]) = Ways(c, k1[c])
        BY <2>2
      <3>8. QED
        BY <3>1, <3>6, <3>7
    <2>6. CASE c > j
      <3>1. ~(c < j) /\ ~(c - 1 < j) /\ c \in j..n
        BY <2>1, <2>6
      <3>2. t[c] = s[c] + 1 /\ t[c - 1] = s[c - 1] + 1
        BY <1>2, <2>1, <3>1
      <3>3. Ways(c, k[c]) =< Ways(c, k1[c])
        BY <2>1, <3>1, WaysGrow
      <3>4. s[c] + 1 =< (s[c - 1] + 1) + Ways(c, k1[c])
        <4>1. PICK a \in Nat, b \in Nat : s[c] = a /\ s[c - 1] = b
          BY <2>1
        <4>2. PICK v \in Nat, w \in Nat : Ways(c, k[c]) = v /\ Ways(c, k1[c]) = w
          BY <2>2
        <4>3. a =< b + v /\ v =< w
          BY <2>3, <3>3, <4>1, <4>2
        <4>4. QED
          BY <4>1, <4>2, <4>3, Inequalities
      <3>5. QED
        BY <3>2, <3>4
    <2>7. QED
      BY <2>1, <2>4, <2>5, <2>6
  <1>5. QED
    BY <1>2, <1>3, <1>4 DEF Bounds, t

\* Requests that come or are finished allow no less.
LEMMA BoundsStay ==
    ASSUME NEW n \in Nat, NEW s, NEW k \in [1..n -> Nat], Bounds(s, k, n),
           NEW k1 \in [1..n -> Nat], \A c \in 1..n : k[c] =< k1[c]
    PROVE Bounds(s, k1, n)
  <1>1. ASSUME NEW c \in 1..n
        PROVE s[c] =< s[c - 1] + Ways(c, k1[c])
    <2>1. /\ c \in Nat \ {0} /\ c \in 0..n /\ c - 1 \in 0..n /\ k[c] \in Nat /\ k1[c] \in Nat
      OBVIOUS
    <2>2. s[c] \in Nat /\ s[c - 1] \in Nat /\ s[c] =< s[c - 1] + Ways(c, k[c])
      BY <2>1 DEF Bounds
    <2>3. Ways(c, k[c]) =< Ways(c, k1[c])
      BY <2>1, WaysGrow
    <2>4. Ways(c, k[c]) \in Nat /\ Ways(c, k1[c]) \in Nat
      BY <2>1, WaysAddUp
    <2>5. QED
      BY <2>2, <2>3, <2>4
  <1>2. QED
    BY <1>1 DEF Bounds

\* The slots that will not bring the account below the threshold with c of them
\* left, if it is not.
Reached(c) ==
    IF user = None THEN {}
    ELSE {h \in Reqs : /\ user.failed >= MaxFailed - c
                       /\ At(h, "fail") => reqs[h].failed >= MaxFailed - c}

ReachedBy == [c \in 1..(MaxFailed - 1) |-> Cardinality(Reached(c))]

\* The invariant: the wrong passwords are bounded at every threshold by the
\* requests that have reached it.
DelaysBounded ==
    \E s : Bounds(s, ReachedBy, MaxFailed - 1) /\ guesses =< s[MaxFailed - 1]

\* The counts are numbers, and a larger set counts no less.
LEMMA ReachedIsFinite ==
    ASSUME NEW S \in SUBSET Reqs
    PROVE IsFiniteSet(S) /\ Cardinality(S) \in Nat /\ Cardinality(S) =< Cardinality(Reqs)
  BY SlotsAssumption, FS_Subset, FS_CardinalityType

\* After a lock or a clear nothing is counted.
LEMMA NoGuesses ==
    ASSUME NEW k \in [1..(MaxFailed - 1) -> Nat]
    PROVE \E s : Bounds(s, k, MaxFailed - 1) /\ 0 =< s[MaxFailed - 1]
  <1>1. PICK n \in Nat : n = MaxFailed - 1
    BY NumbersAssumption
  <1>2. PICK s : s = [c \in 0..n |-> 0]
    OBVIOUS
  <1>3. s \in [0..n -> Nat] /\ \A c \in 0..n : s[c] = 0
    BY <1>2
  <1>4. ASSUME NEW c \in 1..n
        PROVE s[c] =< s[c - 1] + Ways(c, k[c])
    <2>1. s[c] = 0 /\ s[c - 1] = 0
      BY <1>3
    <2>2. c \in 1..(MaxFailed - 1) /\ c \in Nat
      BY <1>1
    <2>3. k[c] \in Nat
      BY <2>2
    <2>4. Ways(c, k[c]) \in Nat
      BY <2>2, <2>3, WaysAddUp
    <2>5. QED
      BY <2>1, <2>4
  <1>5. QED
    BY <1>1, <1>3, <1>4 DEF Bounds

\* The counts are numbers before and after a step.
LEMMA ReachedIsTyped ==
    /\ ReachedBy \in [1..(MaxFailed - 1) -> Nat]
    /\ ReachedBy' \in [1..(MaxFailed - 1) -> Nat]
  <1>1. \A c : Reached(c) \in SUBSET Reqs /\ Reached(c)' \in SUBSET Reqs
    BY DEF Reached
  <1>2. \A c : Cardinality(Reached(c)) \in Nat /\ Cardinality(Reached(c)') \in Nat
    BY <1>1, ReachedIsFinite
  <1>3. QED
    BY <1>2 DEF ReachedBy

\* A step that clears the count.
LEMMA ClearsDelays ==
    ASSUME guesses' = 0
    PROVE DelaysBounded'
  <1>1. PICK s : Bounds(s, ReachedBy', MaxFailed - 1) /\ 0 =< s[MaxFailed - 1]
    BY ReachedIsTyped, NoGuesses
  <1>2. QED
    BY <1>1 DEF DelaysBounded

\* A step that takes no slot from a threshold.
LEMMA DelaysStay ==
    ASSUME DelaysBounded, guesses' = guesses,
           \A c \in 1..(MaxFailed - 1) : Reached(c) \subseteq Reached(c)'
    PROVE DelaysBounded'
  <1>1. PICK s : Bounds(s, ReachedBy, MaxFailed - 1) /\ guesses =< s[MaxFailed - 1]
    BY DEF DelaysBounded
  <1>2. PICK n \in Nat : n = MaxFailed - 1
    BY NumbersAssumption
  <1>3. ASSUME NEW c \in 1..n
        PROVE ReachedBy[c] =< ReachedBy'[c]
    <2>1. Reached(c) \subseteq Reached(c)' /\ Reached(c)' \in SUBSET Reqs
      BY <1>2 DEF Reached
    <2>2. Cardinality(Reached(c)) =< Cardinality(Reached(c)')
      BY <2>1, ReachedIsFinite, FS_Subset
    <2>3. ReachedBy[c] = Cardinality(Reached(c)) /\ ReachedBy'[c] = Cardinality(Reached(c)')
      BY <1>2 DEF ReachedBy
    <2>4. QED
      BY <2>2, <2>3
  <1>4. Bounds(s, ReachedBy', n)
    BY <1>1, <1>2, <1>3, ReachedIsTyped, BoundsStay
  <1>5. QED
    BY <1>1, <1>2, <1>4 DEF DelaysBounded

\* Such is every step that changes neither the account's count nor a pending one.
LEMMA QuietSteps ==
    ASSUME TypeOK, TypeOK', DelaysBounded, guesses' = guesses,
           user = None \/ (user' # None /\ user'.failed = user.failed),
           \A h \in Reqs : \/ reqs'[h].pc # "fail"
                           \/ reqs[h].pc = "fail" /\ reqs'[h].failed = reqs[h].failed
                           \/ user # None /\ reqs'[h].failed = user.failed
    PROVE DelaysBounded'
  <1>1. ASSUME NEW c \in 1..(MaxFailed - 1)
        PROVE Reached(c) \subseteq Reached(c)'
    <2>1. ASSUME user # None
          PROVE Reached(c) \subseteq Reached(c)'
      <3>1. Reached(c) = {h \in Reqs : /\ user.failed >= MaxFailed - c
                                       /\ At(h, "fail") => reqs[h].failed >= MaxFailed - c}
        BY <2>1 DEF Reached
      <3>2. Reached(c)' = {h \in Reqs : /\ user'.failed >= MaxFailed - c
                                        /\ reqs'[h].pc = "fail" => reqs'[h].failed >= MaxFailed - c}
        BY <2>1 DEF Reached, At
      <3>3. user'.failed = user.failed
        BY <2>1
      <3>4. QED
        BY <2>1, <3>1, <3>2, <3>3 DEF At
    <2>2. QED
      BY <2>1 DEF Reached
  <1>2. QED
    BY <1>1, DelaysStay

\* A wrong password that does not lock: its request is one more at the threshold
\* it leaves the account at.
LEMMA WrongPasswordCounts ==
    ASSUME TypeOK, DelaysBounded, NEW h \in Reqs, LoginFail(h), user # None,
           ~Locks(reqs[h].failed + 1)
    PROVE DelaysBounded'
  <1>1. PICK n \in Nat : MaxFailed = n + 1
    BY NumbersAssumption
  <1>2. PICK s : Bounds(s, ReachedBy, n) /\ guesses =< s[n]
    BY <1>1, MaxFailed - 1 = n DEF DelaysBounded
  <1>3. PICK v \in Nat : reqs[h].failed = v
    BY RequestIsTyped
  <1>4. v < n
    BY <1>1, <1>3, NumbersAssumption DEF Locks
  <1>5. PICK j \in 1..n : j = n - v
    BY <1>4
  <1>6. /\ user' = [user EXCEPT !.failed = v + 1] /\ guesses' = guesses + 1
        /\ reqs' = [reqs EXCEPT ![h] = Idle]
    BY <1>3 DEF LoginFail, Quit, Go
  <1>7. user \in User /\ user.failed \in Nat /\ user'.failed = v + 1 /\ user' \in User
    BY <1>6 DEF TypeOK, User
  <1>8. user' # None
    BY <1>7, NoneAssumption
  <1>9. /\ \A g \in Reqs : g # h => reqs'[g] = reqs[g]
        /\ reqs'[h] = Idle /\ Idle.pc # "fail"
    BY <1>6 DEF TypeOK, Idle
  <1>10. \A c : Reached(c) = {g \in Reqs : /\ user.failed >= MaxFailed - c
                                           /\ reqs[g].pc = "fail" => reqs[g].failed >= MaxFailed - c}
    BY DEF Reached, At
  <1>11. \A c : Reached(c)' = {g \in Reqs : /\ v + 1 >= MaxFailed - c
                                            /\ reqs'[g].pc = "fail" => reqs'[g].failed >= MaxFailed - c}
    BY <1>7, <1>8 DEF Reached, At
  <1>12. \A g \in Reqs : reqs[g].failed \in Nat
    BY RequestIsTyped
  <1>13. ASSUME NEW c \in j..n
         PROVE Reached(c) \subseteq Reached(c)'
    <2>1. v + 1 >= MaxFailed - c
      BY <1>1, <1>5
    <2>2. QED
      BY <1>9, <1>10, <1>11, <2>1
  <1>14. h \notin Reached(j) /\ h \in Reached(j)'
    <2>1. MaxFailed - j = v + 1 /\ ~(v >= v + 1) /\ v + 1 >= v + 1
      BY <1>1, <1>5
    <2>2. reqs[h].pc = "fail"
      BY DEF LoginFail, At
    <2>3. h \notin Reached(j)
      BY <1>3, <1>10, <2>1, <2>2
    <2>4. h \in Reached(j)'
      BY <1>9, <1>11, <2>1
    <2>5. QED
      BY <2>3, <2>4
  <1>15. ASSUME NEW c \in 1..j
         PROVE Reached(c) \subseteq Reached(j)
    <2>1. PICK x \in Int, y \in Int : MaxFailed - c = x /\ MaxFailed - j = y /\ x >= y
      BY <1>1
    <2>2. QED
      BY <1>7, <1>10, <1>12, <2>1
  <1>16. \A c : Reached(c) \in SUBSET Reqs /\ Reached(c)' \in SUBSET Reqs
    BY DEF Reached
  <1>17. ReachedBy = [c \in 1..n |-> Cardinality(Reached(c))]
         /\ ReachedBy' = [c \in 1..n |-> Cardinality(Reached(c)')]
    BY <1>1, MaxFailed - 1 = n DEF ReachedBy
  <1>18. ReachedBy \in [1..n -> Nat] /\ ReachedBy' \in [1..n -> Nat]
    BY <1>1, MaxFailed - 1 = n, ReachedIsTyped
  <1>19. \A c \in 1..j : ReachedBy[c] =< ReachedBy[j]
    <2>1. ASSUME NEW c \in 1..j
          PROVE ReachedBy[c] =< ReachedBy[j]
      <3>1. Cardinality(Reached(c)) =< Cardinality(Reached(j))
        BY <1>15, <1>16, ReachedIsFinite, FS_Subset
      <3>2. QED
        BY <1>17, <3>1
    <2>2. QED
      BY <2>1
  <1>20. \A c \in j..n : ReachedBy[c] =< ReachedBy'[c]
    <2>1. ASSUME NEW c \in j..n
          PROVE ReachedBy[c] =< ReachedBy'[c]
      <3>1. Cardinality(Reached(c)) =< Cardinality(Reached(c)')
        BY <1>13, <1>16, ReachedIsFinite, FS_Subset
      <3>2. QED
        BY <1>17, <3>1
    <2>2. QED
      BY <2>1
  <1>21. ReachedBy[j] + 1 =< ReachedBy'[j]
    <2>1. Reached(j) \cup {h} \in SUBSET Reached(j)' /\ Reached(j)' \in SUBSET Reqs
      BY <1>13, <1>14, <1>16
    <2>2. Cardinality(Reached(j) \cup {h}) = Cardinality(Reached(j)) + 1
      BY <1>14, <1>16, ReachedIsFinite, FS_AddElement
    <2>3. Cardinality(Reached(j) \cup {h}) =< Cardinality(Reached(j)')
      BY <2>1, ReachedIsFinite, FS_Subset
    <2>4. QED
      BY <1>17, <2>2, <2>3
  <1>22. \E t : Bounds(t, ReachedBy', n) /\ t[n] = s[n] + 1
    BY <1>2, <1>18, <1>19, <1>20, <1>21, BoundsRise
  <1>23. PICK t : Bounds(t, ReachedBy', n) /\ t[n] = s[n] + 1
    BY <1>22
  <1>24. guesses' =< t[n]
    <2>1. s[n] \in Nat /\ guesses \in Nat
      BY <1>2 DEF Bounds, TypeOK
    <2>2. QED
      BY <1>2, <1>6, <1>23, <2>1
  <1>25. QED
    BY <1>1, <1>23, <1>24, MaxFailed - 1 = n DEF DelaysBounded

\* A step of one request, to no pending wrong password but one of the count it
\* reads.
LEMMA QuietRequest ==
    ASSUME TypeOK, TypeOK', DelaysBounded, guesses' = guesses,
           user = None \/ (user' # None /\ user'.failed = user.failed),
           NEW h \in Reqs, NEW work, Go(h, work),
           work.pc # "fail" \/ (user # None /\ work.failed = user.failed)
    PROVE DelaysBounded'
  <1>1. reqs'[h] = work /\ \A g \in Reqs : g # h => reqs'[g] = reqs[g]
    BY GoChangesOne
  <1>2. ASSUME NEW g \in Reqs
        PROVE \/ reqs'[g].pc # "fail"
              \/ reqs[g].pc = "fail" /\ reqs'[g].failed = reqs[g].failed
              \/ user # None /\ reqs'[g].failed = user.failed
    BY <1>1
  <1>3. QED
    BY <1>2, QuietSteps

\* A request that is sent starts where its first read left it.
LEMMA SentPc ==
    ASSUME NEW h \in Reqs, NEW t, NEW kind, NEW work \in Work, Send(h, t, kind, work),
           work.pc # "fail"
    PROVE \E w : Go(h, w) /\ w.pc # "fail"
  <1>1. PICK w : w = [work EXCEPT !.tab = t, !.kind = kind]
    OBVIOUS
  <1>2. w.pc = work.pc
    BY <1>1 DEF Work
  <1>3. QED
    BY <1>1, <1>2 DEF Send

\* The first read of a request.
LEMMA SendsKeepDelays ==
    ASSUME Sound, TypeOK', DelaysBounded, NEW h \in Reqs,
           \/ \E t \in Tabs \cup {None} : SignupCheck(h, t) \/ LoginRight(h, t)
           \/ \E t \in Tabs : Boot(h, t) \/ Refresh(h, t) \/ Logout(h, t)
           \/ LoginWrong(h) \/ \E l \in Links : ResetLoad(h, l)
    PROVE DelaysBounded'
  <1>1. user' = user /\ guesses' = guesses
    BY DEF SignupCheck, LoginRight, Boot, Refresh, Logout, LoginWrong, ResetLoad, Account
  <1>2. TypeOK
    BY DEF Sound
  <1>3. ASSUME NEW t, NEW kind, NEW pc \in Steps \ {"fail"}, NEW epoch \in Nat,
               Send(h, t, kind, [Idle EXCEPT !.pc = pc, !.epoch = epoch])
        PROVE \E work : Go(h, work) /\ work.pc # "fail"
    <2>1. PICK work : work = [Idle EXCEPT !.pc = pc, !.epoch = epoch]
      OBVIOUS
    <2>2. work \in Work /\ work.pc = pc
      BY <2>1, IdleIsTyped DEF Work
    <2>3. QED
      BY <1>3, <2>1, <2>2, SentPc
  <1>4. CASE LoginWrong(h)
    <2>1. PICK work : work = [Idle EXCEPT !.pc = "fail", !.kind = "login", !.failed = user.failed]
      OBVIOUS
    <2>2. Go(h, work) /\ user # None /\ work.failed = user.failed
      BY <1>4, <2>1 DEF LoginWrong, Idle
    <2>3. QED
      BY <1>1, <1>2, <2>2, QuietRequest
  <1>5. CASE ~LoginWrong(h)
    <2>1. \E work : Go(h, work) /\ work.pc # "fail"
      <3>1. ASSUME NEW pc \in Steps \ {"fail"}
            PROVE [Idle EXCEPT !.pc = pc] \in Work /\ [Idle EXCEPT !.pc = pc].pc # "fail"
        BY IdleIsTyped DEF Work
      <3>2. ASSUME NEW t \in Tabs \cup {None}, SignupCheck(h, t)
            PROVE \E work : Go(h, work) /\ work.pc # "fail"
        <4>1. Send(h, t, "signup", [Idle EXCEPT !.pc = "create"])
          BY <3>2 DEF SignupCheck
        <4>2. QED
          BY <3>1, <4>1, SentPc DEF Steps
      <3>3. ASSUME NEW t \in Tabs \cup {None}, LoginRight(h, t)
            PROVE \E work : Go(h, work) /\ work.pc # "fail"
        <4>1. PICK pc \in {"clear", "issue"} :
                 Send(h, t, "login", [Idle EXCEPT !.pc = pc, !.epoch = user.epoch])
          BY <3>3 DEF LoginRight
        <4>2. user.epoch \in Nat
          BY <1>2, <3>3, UserIsTyped DEF LoginRight
        <4>3. QED
          BY <1>3, <4>1, <4>2 DEF Steps
      <3>4. ASSUME NEW t \in Tabs, Boot(h, t) \/ Refresh(h, t)
            PROVE \E work : Go(h, work) /\ work.pc # "fail"
        <4>1. Send(h, t, "boot", Presented) \/ Send(h, t, "refresh", Presented)
          BY <3>4 DEF Boot, Refresh
        <4>2. Presented \in Work /\ Presented.pc # "fail"
          BY PresentedIsTyped
        <4>3. QED
          BY <4>1, <4>2, SentPc
      <3>5. ASSUME NEW t \in Tabs, Logout(h, t)
            PROVE \E work : Go(h, work) /\ work.pc # "fail"
        <4>1. Send(h, t, "logout", [Idle EXCEPT !.pc = "left"])
          BY <3>5 DEF Logout
        <4>2. QED
          BY <3>1, <4>1, SentPc DEF Steps
      <3>6. ASSUME NEW l \in Links, ResetLoad(h, l)
            PROVE \E work : Go(h, work) /\ work.pc # "fail"
        <4>1. PICK work : work = [Idle EXCEPT !.pc = "reset", !.kind = "reset", !.link = l]
          OBVIOUS
        <4>2. work.pc = "reset"
          BY <4>1 DEF Idle
        <4>3. QED
          BY <3>6, <4>1, <4>2 DEF ResetLoad
      <3>7. QED
        BY <1>5, <3>2, <3>3, <3>4, <3>5, <3>6
    <2>2. QED
      BY <1>1, <1>2, <2>1, QuietRequest
  <1>6. QED
    BY <1>4, <1>5

\* The later steps of a request, and its end.
LEMMA StepsKeepDelays ==
    ASSUME TypeOK, TypeOK', NothingBeforeSignup, DelaysBounded, NEW h \in Reqs,
           \/ SignupCreate(h) \/ SignupMail(h) \/ LoginFail(h) \/ LoginClear(h)
           \/ Rotate(h) \/ Issue(h) \/ ResetPassword(h)
           \/ Granted(h) \/ Denied(h) \/ Left(h) \/ Fail(h)
    PROVE DelaysBounded'
  <1>1. CASE LoginFail(h)
    <2>1. user # None
      BY <1>1 DEF NothingBeforeSignup, LoginFail, At
    <2>2. CASE Locks(reqs[h].failed + 1)
      BY <1>1, <2>2, ClearsDelays DEF LoginFail
    <2>3. QED
      BY <1>1, <2>1, <2>2, WrongPasswordCounts
  <1>2. CASE LoginClear(h) \/ ResetPassword(h)
    BY <1>2, ClearsDelays DEF LoginClear, ResetPassword
  <1>3. CASE \/ SignupCreate(h) \/ SignupMail(h) \/ Rotate(h) \/ Issue(h)
             \/ Granted(h) \/ Denied(h) \/ Left(h) \/ Fail(h)
    <2>1. guesses' = guesses
      BY <1>3 DEF SignupCreate, SignupMail, Rotate, Issue, Granted, Denied, Left, Fail, Account
    <2>2. user = None \/ (user' # None /\ user'.failed = user.failed)
      <3>1. CASE SignupMail(h) /\ user # None
        <4>1. user \in User
          BY <3>1 DEF TypeOK
        <4>2. user' = [user EXCEPT !.email = "sent"]
          BY <3>1 DEF SignupMail
        <4>3. user' \in User /\ user'.failed = user.failed
          BY <4>1, <4>2 DEF User
        <4>4. QED
          BY <4>3, NoneAssumption
      <3>2. CASE ~SignupMail(h)
        BY <1>3, <3>2 DEF SignupCreate, Rotate, Issue, Granted, Denied, Left, Fail, Account
      <3>3. QED
        BY <3>1, <3>2
    <2>3. reqs[h] \in Work /\ Idle.pc # "fail"
      BY RequestIsTyped, IdleIsTyped
    <2>4. \A pc \in Steps : [reqs[h] EXCEPT !.pc = pc].pc = pc
      BY ThenChangesPc
    <2>5. \E work : Go(h, work) /\ work.pc # "fail"
      <3>1. CASE SignupCreate(h)
        <4>1. Go(h, [reqs[h] EXCEPT !.pc = "mail"]) \/ Go(h, [reqs[h] EXCEPT !.pc = "denied"])
              \/ Go(h, Idle)
          BY <3>1 DEF SignupCreate, Answer, Then, Quit
        <4>2. QED
          BY <2>3, <2>4, <4>1 DEF Steps
      <3>2. CASE SignupMail(h) \/ Rotate(h)
        <4>1. Go(h, [reqs[h] EXCEPT !.pc = "issue"])
          BY <3>2 DEF SignupMail, Rotate, Then
        <4>2. QED
          BY <2>4, <4>1 DEF Steps
      <3>3. CASE Issue(h)
        <4>1. [reqs[h] EXCEPT !.pc = "granted", !.token = now].pc = "granted"
          BY <2>3 DEF Work
        <4>2. QED
          BY <2>3, <3>3, <4>1 DEF Issue, Quit
      <3>4. CASE Granted(h) \/ Denied(h) \/ Left(h) \/ Fail(h)
        BY <2>3, <3>4 DEF Granted, Denied, Left, Fail, Quit
      <3>5. QED
        BY <1>3, <3>1, <3>2, <3>3, <3>4
    <2>6. QED
      BY <2>1, <2>2, <2>5, QuietRequest
  <1>4. QED
    BY <1>1, <1>2, <1>3

\* The mail, the clock and the tabs.
LEMMA OthersKeepDelays ==
    ASSUME TypeOK, TypeOK', DelaysBounded,
           \/ VerifyEmail \/ Tick \/ \E l \in Links : RequestPasswordReset(l)
           \/ \E t \in Tabs : AccessExpires(t) \/ Reload(t)
           \/ UNCHANGED vars
    PROVE DelaysBounded'
  <1>1. guesses' = guesses
    BY DEF VerifyEmail, Tick, RequestPasswordReset, AccessExpires, Reload, Account, vars
  <1>2. user = None \/ (user' # None /\ user'.failed = user.failed)
    <2>1. CASE VerifyEmail
      <3>1. user \in User /\ user' = [user EXCEPT !.email = "verified"]
        BY <2>1 DEF VerifyEmail, TypeOK
      <3>2. user' \in User /\ user'.failed = user.failed
        BY <3>1 DEF User
      <3>3. QED
        BY <3>2, NoneAssumption
    <2>2. CASE ~VerifyEmail
      BY <2>2 DEF Tick, RequestPasswordReset, AccessExpires, Reload, Account, vars
    <2>3. QED
      BY <2>1, <2>2
  <1>3. ASSUME NEW h \in Reqs
        PROVE \/ reqs'[h].pc # "fail"
              \/ reqs[h].pc = "fail" /\ reqs'[h].failed = reqs[h].failed
    <2>1. CASE \E t \in Tabs : Reload(t)
      <3>1. \/ reqs'[h] = reqs[h] \/ reqs'[h] = Idle
            \/ reqs'[h] = [reqs[h] EXCEPT !.tab = None]
        BY <2>1 DEF Reload
      <3>2. reqs[h] \in Work /\ Idle.pc # "fail"
        BY RequestIsTyped, IdleIsTyped
      <3>3. /\ [reqs[h] EXCEPT !.tab = None].pc = reqs[h].pc
            /\ [reqs[h] EXCEPT !.tab = None].failed = reqs[h].failed
        BY <3>2 DEF Work
      <3>4. QED
        BY <3>1, <3>2, <3>3
    <2>2. CASE ~\E t \in Tabs : Reload(t)
      BY <2>2 DEF VerifyEmail, Tick, RequestPasswordReset, AccessExpires, vars
    <2>3. QED
      BY <2>1, <2>2
  <1>4. QED
    BY <1>1, <1>2, <1>3, QuietSteps

\* Every step keeps the bound.
LEMMA NextKeepsDelays ==
    ASSUME Sound, TypeOK', DelaysBounded, [Next]_vars
    PROVE DelaysBounded'
  <1>1. TypeOK /\ NothingBeforeSignup
    BY DEF Sound
  <1>2. QED
    BY <1>1, SendsKeepDelays, StepsKeepDelays, OthersKeepDelays DEF Next

\* It holds before the signup.
LEMMA InitDelays ==
    ASSUME Init
    PROVE DelaysBounded
  <1>1. \A c : Reached(c) = {}
    BY DEF Init, Reached
  <1>2. ReachedBy = [c \in 1..(MaxFailed - 1) |-> 0]
    BY <1>1, FS_EmptySet DEF ReachedBy
  <1>3. ReachedBy \in [1..(MaxFailed - 1) -> Nat]
    BY <1>2
  <1>4. PICK s : Bounds(s, ReachedBy, MaxFailed - 1) /\ 0 =< s[MaxFailed - 1]
    BY <1>3, NoGuesses
  <1>5. QED
    BY <1>4 DEF Init, DelaysBounded

\* At no threshold are there more requests than slots.
LEMMA DelaysAreBounded ==
    ASSUME TypeOK, DelaysBounded
    PROVE GuessesAreBounded
  <1>1. PICK n \in Nat : MaxFailed = n + 1 /\ MaxFailed - 1 = n
    BY NumbersAssumption
  <1>2. PICK s : Bounds(s, ReachedBy, n) /\ guesses =< s[n]
    BY <1>1 DEF DelaysBounded
  <1>3. PICK r \in Nat : r = Cardinality(Reqs)
    BY ReachedIsFinite
  <1>4. ASSUME NEW c \in 1..n
        PROVE Cardinality(Reached(c)) \in Nat /\ Cardinality(Reached(c)) =< r
    <2>1. Reached(c) \in SUBSET Reqs
      BY DEF Reached
    <2>2. QED
      BY <1>3, <2>1, ReachedIsFinite
  <1>5. ReachedBy = [c \in 1..n |-> Cardinality(Reached(c))]
    BY <1>1 DEF ReachedBy
  <1>6. ReachedBy \in [1..n -> Nat] /\ \A c \in 1..n : ReachedBy[c] =< r
    BY <1>4, <1>5
  <1>7. s[n] + 1 =< Ways(n, r + 1)
    BY <1>2, <1>6, BoundsAddUp, n \in 0..n
  <1>8. Ways(n, r + 1) = choose(n + r, r)
    <2>1. r + 1 # 0 /\ (r + 1) - 1 = r
      OBVIOUS
    <2>2. QED
      BY <2>1 DEF Ways
  <1>9. MaxFailed + r - 1 = n + r
    BY <1>1
  <1>10. s[n] \in Nat /\ guesses \in Nat /\ Ways(n, r + 1) \in Nat
    <2>1. s[n] \in Nat
      BY <1>2 DEF Bounds
    <2>2. Ways(n, r + 1) \in Nat
      BY WaysAddUp, r + 1 \in Nat
    <2>3. QED
      BY <2>1, <2>2 DEF TypeOK
  <1>11. guesses < Ways(n, r + 1)
    BY <1>2, <1>7, <1>10
  <1>12. QED
    BY <1>3, <1>8, <1>9, <1>11 DEF GuessesAreBounded

-----------------------------------------------------------------------------
(* The theorems.                                                           *)

\* The invariant, in the three parts.
LEMMA InvariantSplit == IInv <=> Sound /\ ResetsSound /\ BrowserSound
  BY DEF IInv, Sound, BrowserSound

\* The invariant holds before the signup.
LEMMA InitHolds ==
    ASSUME Init
    PROVE IInv
  <1>1. Sound
    <2>1. \A h \in Reqs : reqs[h] = Idle
      BY DEF Init
    <2>2. TypeOK
      <3>1. tokens \in Seq(Tokens)
        BY EmptySeq DEF Init
      <3>2. 0 \in 0..MaxTime /\ 0 \in 0..MaxFaults
        BY NumbersAssumption
      <3>3. QED
        BY <3>1, <3>2, IdleIsTyped DEF Init, TypeOK, Loading, TabStates
    <2>3. NothingBeforeSignup
      BY IdleIsTyped DEF Init, NothingBeforeSignup
    <2>4. RequestsSound
      BY <2>1, IdleIsTyped DEF RequestsSound, At
    <2>5. RevokedFirst
      BY DEF Init, RevokedFirst
    <2>6. QED
      BY <2>2, <2>3, <2>4, <2>5 DEF Sound
  <1>2. ResetsSound
    BY DEF Init, ResetsSound
  <1>3. BrowserSound
    BY IdleIsTyped DEF Init, BrowserSound, OneAtATime, CookieIsGood, NobodyIsTurnedOut, At
  <1>4. QED
    BY <1>1, <1>2, <1>3, InvariantSplit

\* Every step keeps the invariant.
LEMMA NextKeeps ==
    ASSUME IInv, [Next]_vars
    PROVE IInv'
  <1>1. Sound /\ ResetsSound /\ BrowserSound
    BY InvariantSplit
  <1>2. SUFFICES Sound' /\ ResetsSound' /\ BrowserSound'
    BY InvariantSplit, PTL
  <1>3. ASSUME NEW h \in Reqs, NEW t \in Tabs \cup {None}, SignupCheck(h, t) \/ LoginRight(h, t)
        PROVE Sound' /\ ResetsSound' /\ BrowserSound'
    BY <1>1, <1>3, SignInIsSound, SendsKeepResets, SignInBrowser
  <1>4. ASSUME NEW h \in Reqs, NEW t \in Tabs, Boot(h, t) \/ Refresh(h, t) \/ Logout(h, t)
        PROVE Sound' /\ ResetsSound' /\ BrowserSound'
    BY <1>1, <1>4, RefreshIsSound, LogoutIsSound, SendsKeepResets, RefreshBrowser
  <1>5. ASSUME NEW h \in Reqs, LoginWrong(h) \/ \E l \in Links : ResetLoad(h, l)
        PROVE Sound' /\ ResetsSound' /\ BrowserSound'
    BY <1>1, <1>5, ReadsAreSound, SendsKeepResets, ServerBrowser
  <1>6. ASSUME NEW h \in Reqs,
               SignupCreate(h) \/ SignupMail(h) \/ LoginFail(h) \/ LoginClear(h)
        PROVE Sound' /\ ResetsSound' /\ BrowserSound'
    BY <1>1, <1>6, SignupIsSound, LoginIsSound, StepsKeepResets, ServerBrowser
  <1>7. ASSUME NEW h \in Reqs, Rotate(h)
        PROVE Sound' /\ ResetsSound' /\ BrowserSound'
    BY <1>1, <1>7, RotateIsSound, StepsKeepResets, RotateBrowser
  <1>8. ASSUME NEW h \in Reqs, Issue(h)
        PROVE Sound' /\ ResetsSound' /\ BrowserSound'
    BY <1>1, <1>8, IssueIsSound, IssueResets, IssueBrowser
  <1>9. ASSUME NEW h \in Reqs, ResetPassword(h)
        PROVE Sound' /\ ResetsSound' /\ BrowserSound'
    <2>1. disturbed'
      BY <1>9 DEF ResetPassword
    <2>2. QED
      BY <1>1, <1>9, <2>1, ResetIsSound, ResetPasswordResets, BrowserSplit
  <1>10. ASSUME NEW h \in Reqs, Granted(h) \/ Denied(h) \/ Left(h) \/ Fail(h)
         PROVE Sound' /\ ResetsSound' /\ BrowserSound'
    BY <1>1, <1>10, AnswersAreSound, StepsKeepResets, AnswersBrowser
  <1>11. CASE \/ VerifyEmail \/ Tick
              \/ \E l \in Links : RequestPasswordReset(l)
              \/ \E t \in Tabs : AccessExpires(t) \/ Reload(t)
    BY <1>1, <1>11, OthersAreSound, ReloadIsSound, OthersKeepResets, OthersBrowser
  <1>12. CASE UNCHANGED vars
    <2>1. Sound'
      BY <1>1, <1>12 DEF vars, Sound, TypeOK, NothingBeforeSignup, RequestsSound, RevokedFirst, At
    <2>2. ResetsSound'
      BY <1>1, <1>12 DEF vars, ResetsSound, Survivors, LetInBefore
    <2>3. QED
      BY <1>1, <1>12, <2>1, <2>2, OthersBrowser
  <1>13. QED
    BY <1>3, <1>4, <1>5, <1>6, <1>7, <1>8, <1>9, <1>10, <1>11, <1>12 DEF Next

\* The inductive invariant holds of every state.
THEOREM InvariantStays == Spec => []IInv
  <1>1. Init => IInv
    BY InitHolds
  <1>2. IInv /\ [Next]_vars => IInv'
    BY NextKeeps
  <1>3. QED
    BY <1>1, <1>2, PTL DEF Spec

\* The variables keep their types.
THEOREM TypeStays == Spec => []TypeOK
  <1>1. IInv => TypeOK
    BY DEF IInv
  <1>2. QED
    BY <1>1, InvariantStays, PTL

\* A refresh token that was exchanged for another is revoked, in every
\* interleaving of any number of requests, and whatever of them failed.
THEOREM ExchangedStaysRevoked == Spec => []RevokedFirst
  <1>1. IInv => RevokedFirst
    BY DEF IInv
  <1>2. QED
    BY <1>1, InvariantStays, PTL

\* With r slots at most r - 1 sessions outlive a password reset.
THEOREM SurvivorsStayBounded == Spec => []SurvivorsAreBounded
  <1>1. IInv => SurvivorsAreBounded
    <2>1. ASSUME IInv, user # None
          PROVE Cardinality(Survivors) =< Cardinality(Reqs) - 1
      <3>1. Cardinality(Survivors) + Cardinality(LetInBefore) =< Cardinality(Reqs) - 1
        BY <2>1 DEF IInv, ResetsSound
      <3>2. /\ Cardinality(Survivors) \in Nat /\ Cardinality(LetInBefore) \in Nat
            /\ Cardinality(Reqs) \in Nat
        BY <2>1, InvariantSplit, ResetCountsAreFinite
      <3>3. QED
        BY <3>1, <3>2
    <2>2. QED
      BY <2>1 DEF SurvivorsAreBounded, Survivors
  <1>2. QED
    BY <1>1, InvariantStays, PTL

\* A browser whose requests are not disturbed is not turned out while its
\* cookie has not expired.
THEOREM NobodyIsEverTurnedOut == Spec => []NobodyIsTurnedOut
  <1>1. IInv => NobodyIsTurnedOut
    BY DEF IInv
  <1>2. QED
    BY <1>1, InvariantStays, PTL

\* However many requests overwrite each other's count of failures, with r slots
\* there are fewer than C(MaxFailed + r - 1, r) wrong passwords between two
\* locks.
THEOREM GuessesStayBounded == Spec => []GuessesAreBounded
  <1>1. Init => IInv /\ DelaysBounded
    BY InitHolds, InitDelays
  <1>2. IInv => Sound /\ TypeOK
    BY DEF IInv, Sound
  <1>3. Sound /\ TypeOK' /\ DelaysBounded /\ [Next]_vars => DelaysBounded'
    BY NextKeepsDelays
  <1>4. TypeOK /\ DelaysBounded => GuessesAreBounded
    BY DelaysAreBounded
  <1>5. QED
    BY <1>1, <1>2, <1>3, <1>4, InvariantStays, PTL DEF Spec

-----------------------------------------------------------------------------
(* The sessions that one is exchanged for.                                 *)

\* A request that is let in with row i is about to add a successor of it.
Trades(work, i) == work.pc \in {"rotate", "issue"} /\ work.id = i

\* Both sets that ExchangesSound counts are finite.
LEMMA ExchangesAreFinite ==
    ASSUME TypeOK, NEW i
    PROVE /\ IsFiniteSet(Successors(i)) /\ Cardinality(Successors(i)) \in Nat
          /\ IsFiniteSet(Exchanging(i)) /\ Cardinality(Exchanging(i)) \in Nat
          /\ Cardinality(Reqs) \in Nat /\ Cardinality(Exchanging(i)) =< Cardinality(Reqs)
  <1>1. IsFiniteSet(DOMAIN tokens)
    BY RowsAreTyped, FS_Interval
  <1>2. IsFiniteSet(Successors(i))
    BY <1>1, FS_Subset DEF Successors
  <1>3. /\ IsFiniteSet(Exchanging(i))
        /\ Cardinality(Exchanging(i)) =< Cardinality(Reqs)
    <2>1. Exchanging(i) \in SUBSET Reqs
      BY DEF Exchanging
    <2>2. QED
      BY <2>1, FS_Subset, SlotsAssumption
  <1>4. QED
    BY <1>2, <1>3, FS_CardinalityType, SlotsAssumption

\* The same of the next state.
LEMMA ExchangesAreFiniteNext ==
    ASSUME TypeOK', NEW i
    PROVE /\ IsFiniteSet(Successors(i)') /\ Cardinality(Successors(i)') \in Nat
          /\ IsFiniteSet(Exchanging(i)') /\ Cardinality(Exchanging(i)') \in Nat
          /\ Cardinality(Exchanging(i)') =< Cardinality(Reqs)
  <1>1. IsFiniteSet(DOMAIN tokens')
    <2>1. tokens' \in Seq(Tokens)
      BY DEF TypeOK
    <2>2. DOMAIN tokens' = 1..Len(tokens') /\ Len(tokens') \in Nat
      BY <2>1, LenProperties
    <2>3. QED
      BY <2>2, FS_Interval
  <1>2. IsFiniteSet(Successors(i)')
    BY <1>1, FS_Subset DEF Successors
  <1>3. /\ IsFiniteSet(Exchanging(i)')
        /\ Cardinality(Exchanging(i)') =< Cardinality(Reqs)
    <2>1. Exchanging(i)' \in SUBSET Reqs
      BY DEF Exchanging
    <2>2. QED
      BY <2>1, FS_Subset, SlotsAssumption
  <1>4. QED
    BY <1>2, <1>3, FS_CardinalityType

\* A step that adds no row, and lets requests in only with rows that are valid:
\* these have no successor yet.
LEMMA ExchangesFrame ==
    ASSUME Sound, TypeOK', ExchangesSound, OnlyRevoked,
           \A h \in Reqs : \A i \in DOMAIN tokens :
              Trades(reqs'[h], i) => Trades(reqs[h], i) \/ ~tokens[i].revoked
    PROVE ExchangesSound'
  <1>1. TypeOK /\ DOMAIN tokens' = DOMAIN tokens
    BY RevokingKeepsRows DEF Sound
  <1>2. SUFFICES ASSUME NEW i \in DOMAIN tokens
                 PROVE Cardinality(Successors(i)') + Cardinality(Exchanging(i)')
                          =< Cardinality(Reqs)
    BY <1>1 DEF ExchangesSound
  <1>3. Successors(i)' = Successors(i)
    BY <1>1 DEF Successors, OnlyRevoked
  <1>4. CASE tokens[i].revoked
    <2>1. Exchanging(i)' \in SUBSET Exchanging(i)
      BY <1>4 DEF Exchanging, Trades
    <2>2. Cardinality(Exchanging(i)') =< Cardinality(Exchanging(i))
      BY <1>1, <2>1, ExchangesAreFinite, FS_Subset
    <2>3. Cardinality(Successors(i)) + Cardinality(Exchanging(i)) =< Cardinality(Reqs)
      BY DEF ExchangesSound
    <2>4. QED
      BY <1>1, <1>3, <2>2, <2>3, ExchangesAreFinite, ExchangesAreFiniteNext
  <1>5. CASE ~tokens[i].revoked
    <2>1. Successors(i) = {}
      <3>1. i # 0
        BY <1>1, RowsAreTyped
      <3>2. QED
        BY <1>5, <3>1 DEF Sound, RevokedFirst, Successors
    <2>2. Cardinality(Successors(i)') = 0
      BY <1>3, <2>1, FS_EmptySet
    <2>3. /\ Cardinality(Exchanging(i)') =< Cardinality(Reqs)
          /\ Cardinality(Exchanging(i)') \in Nat /\ Cardinality(Reqs) \in Nat
      BY <1>1, ExchangesAreFinite, ExchangesAreFiniteNext
    <2>4. QED
      BY <2>2, <2>3
  <1>6. QED
    BY <1>4, <1>5

\* A step of one request that leaves the rows, or revokes some.
LEMMA ExchangesStep ==
    ASSUME Sound, TypeOK', ExchangesSound, OnlyRevoked, NEW h \in Reqs, NEW work,
           Go(h, work),
           \/ work.pc \notin {"rotate", "issue"} \/ work.id = 0
           \/ reqs[h].pc \in {"rotate", "issue"} /\ work.id = reqs[h].id
           \/ work.id \in DOMAIN tokens /\ ~tokens[work.id].revoked
    PROVE ExchangesSound'
  <1>1. reqs'[h] = work /\ \A g \in Reqs : g # h => reqs'[g] = reqs[g]
    BY GoChangesOne DEF Sound
  <1>2. 0 \notin DOMAIN tokens
    BY RowsAreTyped DEF Sound
  <1>3. ASSUME NEW g \in Reqs, NEW i \in DOMAIN tokens, Trades(reqs'[g], i)
        PROVE Trades(reqs[g], i) \/ ~tokens[i].revoked
    <2>1. CASE g = h
      BY <1>1, <1>2, <1>3, <2>1 DEF Trades
    <2>2. CASE g # h
      BY <1>1, <1>3, <2>2 DEF Trades
    <2>3. QED
      BY <2>1, <2>2
  <1>4. QED
    BY <1>3, ExchangesFrame

\* A request that is let in with no row.
LEMMA SendsExchangeNothing ==
    ASSUME Sound, TypeOK', ExchangesSound, OnlyRevoked, NEW h \in Reqs, NEW t, NEW kind,
           NEW work \in Work, Send(h, t, kind, work),
           \/ work.pc \notin {"rotate", "issue"} \/ work.id = 0
           \/ work.id \in DOMAIN tokens /\ ~tokens[work.id].revoked
    PROVE ExchangesSound'
  <1>1. PICK w : w = [work EXCEPT !.tab = t, !.kind = kind]
    OBVIOUS
  <1>2. w.pc = work.pc /\ w.id = work.id
    BY <1>1 DEF Work
  <1>3. Go(h, w)
    BY <1>1 DEF Send
  <1>4. QED
    BY <1>2, <1>3, ExchangesStep

\* The first read of a request.
LEMMA SendsKeepExchanges ==
    ASSUME Sound, TypeOK', ExchangesSound, NEW h \in Reqs,
           \/ \E t \in Tabs \cup {None} : SignupCheck(h, t) \/ LoginRight(h, t)
           \/ \E t \in Tabs : Boot(h, t) \/ Refresh(h, t) \/ Logout(h, t)
           \/ LoginWrong(h) \/ \E l \in Links : ResetLoad(h, l)
    PROVE ExchangesSound'
  <1>1. TypeOK
    BY DEF Sound
  <1>2. ASSUME NEW pc \in Steps, NEW epoch \in Nat
        PROVE /\ [Idle EXCEPT !.pc = pc] \in Work /\ [Idle EXCEPT !.pc = pc].id = 0
              /\ [Idle EXCEPT !.pc = pc, !.epoch = epoch] \in Work
              /\ [Idle EXCEPT !.pc = pc, !.epoch = epoch].id = 0
    BY IdleIsTyped DEF Work
  <1>3. ASSUME NEW t \in Tabs \cup {None}, SignupCheck(h, t)
        PROVE ExchangesSound'
    <2>1. Send(h, t, "signup", [Idle EXCEPT !.pc = "create"]) /\ tokens' = tokens
      BY <1>3 DEF SignupCheck
    <2>2. "create" \in Steps /\ 0 \in Nat
      BY DEF Steps
    <2>3. OnlyRevoked
      BY <1>1, <2>1, NoneAreRevoked
    <2>4. QED
      BY <1>2, <2>1, <2>2, <2>3, SendsExchangeNothing
  <1>4. ASSUME NEW t \in Tabs \cup {None}, LoginRight(h, t)
        PROVE ExchangesSound'
    <2>1. PICK pc \in {"clear", "issue"} :
             Send(h, t, "login", [Idle EXCEPT !.pc = pc, !.epoch = user.epoch])
      BY <1>4 DEF LoginRight
    <2>2. user.epoch \in Nat /\ pc \in Steps
      BY <1>1, <1>4, UserIsTyped DEF LoginRight, Steps
    <2>3. OnlyRevoked
      BY <1>1, <1>4, NoneAreRevoked DEF LoginRight
    <2>4. QED
      BY <1>2, <2>1, <2>2, <2>3, SendsExchangeNothing
  <1>5. ASSUME NEW t \in Tabs, Boot(h, t) \/ Refresh(h, t)
        PROVE ExchangesSound'
    <2>1. Send(h, t, "boot", Presented) \/ Send(h, t, "refresh", Presented)
      BY <1>5 DEF Boot, Refresh
    <2>2. /\ Presented \in Work
          /\ \/ Presented.pc \notin {"rotate", "issue"}
             \/ Presented.id \in DOMAIN tokens /\ ~tokens[Presented.id].revoked
      BY PresentedIsTyped DEF Matches
    <2>3. OnlyRevoked
      BY <1>1, <1>5, NoneAreRevoked DEF Boot, Refresh
    <2>4. QED
      BY <2>1, <2>2, <2>3, SendsExchangeNothing
  <1>6. ASSUME NEW t \in Tabs, Logout(h, t)
        PROVE ExchangesSound'
    <2>1. Send(h, t, "logout", [Idle EXCEPT !.pc = "left"]) /\ OnlyRevoked
      BY <1>6, LogoutIsSound DEF Logout
    <2>2. "left" \in Steps /\ 0 \in Nat
      BY DEF Steps
    <2>3. QED
      BY <1>2, <2>1, <2>2, SendsExchangeNothing
  <1>7. ASSUME LoginWrong(h) \/ \E l \in Links : ResetLoad(h, l)
        PROVE ExchangesSound'
    <2>1. OnlyRevoked
      BY <1>1, <1>7, NoneAreRevoked DEF LoginWrong, ResetLoad
    <2>2. \E work : Go(h, work) /\ work.id = 0
      <3>1. CASE LoginWrong(h)
        <4>1. PICK work : work = [Idle EXCEPT !.pc = "fail", !.kind = "login",
                                              !.failed = user.failed]
          OBVIOUS
        <4>2. work.id = 0
          BY <4>1 DEF Idle
        <4>3. QED
          BY <3>1, <4>1, <4>2 DEF LoginWrong
      <3>2. ASSUME NEW l \in Links, ResetLoad(h, l)
            PROVE \E work : Go(h, work) /\ work.id = 0
        <4>1. PICK work : work = [Idle EXCEPT !.pc = "reset", !.kind = "reset", !.link = l]
          OBVIOUS
        <4>2. work.id = 0
          BY <4>1 DEF Idle
        <4>3. QED
          BY <3>2, <4>1, <4>2 DEF ResetLoad
      <3>3. QED
        BY <1>7, <3>1, <3>2
    <2>3. QED
      BY <2>1, <2>2, ExchangesStep
  <1>8. QED
    BY <1>3, <1>4, <1>5, <1>6, <1>7

\* The row that is stored takes the place of its request among the successors.
LEMMA IssueExchanges ==
    ASSUME Sound, TypeOK', ExchangesSound, NEW h \in Reqs, Issue(h)
    PROVE ExchangesSound'
  <1>1. PICK row \in Tokens, work \in Work :
           /\ row.from = reqs[h].id /\ tokens' = Append(tokens, row) /\ Go(h, work)
           /\ work.pc \in {"idle", "granted"}
    BY IssuedRow, IdleIsTyped DEF Sound
  <1>2. At(h, "issue") /\ TypeOK /\ (reqs[h].id = 0 \/ reqs[h].id \in DOMAIN tokens)
    BY DEF Issue, Sound, RequestsSound
  <1>3. PICK n \in Nat : n = Len(tokens) + 1
    BY <1>2, RowsAreTyped
  <1>4. /\ DOMAIN tokens' = DOMAIN tokens \cup {n} /\ n \notin DOMAIN tokens /\ tokens'[n] = row
        /\ \A i \in DOMAIN tokens : tokens'[i] = tokens[i] /\ i < n /\ i # 0 /\ i \in Nat
    BY <1>1, <1>2, <1>3, AppendedRow, RowsAreTyped
  <1>5. reqs'[h] = work /\ \A g \in Reqs : g # h => reqs'[g] = reqs[g]
    BY <1>1, <1>2, GoChangesOne
  <1>6. SUFFICES ASSUME NEW i \in DOMAIN tokens'
                 PROVE Cardinality(Successors(i)') + Cardinality(Exchanging(i)')
                          =< Cardinality(Reqs)
    BY DEF ExchangesSound
  <1>7. ASSUME i \in DOMAIN tokens
        PROVE Cardinality(Successors(i)') + Cardinality(Exchanging(i)') =< Cardinality(Reqs)
    <2>1. Cardinality(Successors(i)) + Cardinality(Exchanging(i)) =< Cardinality(Reqs)
      BY <1>7 DEF ExchangesSound
    <2>2. CASE reqs[h].id = i
      <3>1. Successors(i)' \in SUBSET (Successors(i) \cup {n})
        BY <1>4 DEF Successors
      <3>2. n \notin Successors(i)
        BY <1>4 DEF Successors
      <3>3. h \in Exchanging(i) /\ Exchanging(i)' \in SUBSET (Exchanging(i) \ {h})
        BY <1>1, <1>2, <1>5, <2>2 DEF Exchanging, At
      <3>4. /\ IsFiniteSet(Successors(i) \cup {n})
            /\ Cardinality(Successors(i) \cup {n}) = Cardinality(Successors(i)) + 1
        BY <1>2, <3>2, ExchangesAreFinite, FS_AddElement
      <3>5. /\ IsFiniteSet(Exchanging(i) \ {h})
            /\ Cardinality(Exchanging(i) \ {h}) = Cardinality(Exchanging(i)) - 1
        BY <1>2, <3>3, ExchangesAreFinite, FS_RemoveElement
      <3>6. /\ Cardinality(Successors(i)') =< Cardinality(Successors(i)) + 1
            /\ Cardinality(Exchanging(i)') =< Cardinality(Exchanging(i)) - 1
        BY <3>1, <3>3, <3>4, <3>5, FS_Subset
      <3>7. QED
        BY <1>2, <2>1, <3>6, ExchangesAreFinite, ExchangesAreFiniteNext
    <2>3. CASE reqs[h].id # i
      <3>1. Successors(i)' = Successors(i)
        BY <1>1, <1>4, <2>3 DEF Successors
      <3>2. Exchanging(i)' \in SUBSET Exchanging(i)
        BY <1>1, <1>5 DEF Exchanging
      <3>3. Cardinality(Exchanging(i)') =< Cardinality(Exchanging(i))
        BY <1>2, <3>2, ExchangesAreFinite, FS_Subset
      <3>4. QED
        BY <1>2, <2>1, <3>1, <3>3, ExchangesAreFinite, ExchangesAreFiniteNext
    <2>4. QED
      BY <2>2, <2>3
  <1>8. ASSUME i = n
        PROVE Cardinality(Successors(i)') + Cardinality(Exchanging(i)') =< Cardinality(Reqs)
    <2>1. Successors(n)' = {}
      <3>1. \A j \in DOMAIN tokens : tokens[j].from # 0 => tokens[j].from < j
        BY DEF Sound, RevokedFirst
      <3>2. \A j \in DOMAIN tokens : tokens[j].from # n
        BY <1>2, <1>3, <1>4, <3>1, RowsAreTyped
      <3>3. row.from # n
        BY <1>1, <1>2, <1>3, <1>4, RowsAreTyped
      <3>4. QED
        BY <1>4, <3>2, <3>3 DEF Successors
    <2>2. Exchanging(n)' = {}
      <3>1. \A g \in Reqs : reqs[g].id # n
        BY <1>2, <1>3, <1>4, RowsAreTyped DEF Sound, RequestsSound
      <3>2. QED
        BY <1>1, <1>5, <3>1 DEF Exchanging
    <2>3. Cardinality(Successors(i)') = 0 /\ Cardinality(Exchanging(i)') = 0
      BY <1>8, <2>1, <2>2, FS_EmptySet
    <2>4. QED
      BY <1>2, <2>3, ExchangesAreFinite
  <1>9. QED
    BY <1>4, <1>7, <1>8

\* The later steps of a request, and its end.
LEMMA StepsKeepExchanges ==
    ASSUME Sound, TypeOK', ExchangesSound, NEW h \in Reqs,
           \/ SignupCreate(h) \/ SignupMail(h) \/ LoginFail(h) \/ LoginClear(h)
           \/ Rotate(h) \/ ResetPassword(h)
           \/ Granted(h) \/ Denied(h) \/ Left(h) \/ Fail(h)
    PROVE ExchangesSound'
  <1>1. TypeOK
    BY DEF Sound
  <1>2. OnlyRevoked
    <2>1. CASE Rotate(h) \/ ResetPassword(h)
      BY <2>1, RotateIsSound, ResetIsSound
    <2>2. CASE ~(Rotate(h) \/ ResetPassword(h))
      BY <1>1, <2>2, NoneAreRevoked
         DEF SignupCreate, SignupMail, LoginFail, LoginClear, Granted, Denied, Left, Fail
    <2>3. QED
      BY <2>1, <2>2
  <1>3. ASSUME NEW pc \in Steps
        PROVE /\ [reqs[h] EXCEPT !.pc = pc].pc = pc
              /\ [reqs[h] EXCEPT !.pc = pc].id = reqs[h].id
    BY <1>1, ThenChangesPc
  <1>4. \E work : /\ Go(h, work)
                  /\ \/ work.pc \notin {"rotate", "issue"} \/ work.id = 0
                     \/ reqs[h].pc \in {"rotate", "issue"} /\ work.id = reqs[h].id
    <2>1. CASE SignupCreate(h) \/ SignupMail(h) \/ LoginClear(h)
      <3>1. reqs[h].id = 0
        BY <2>1 DEF SignupCreate, SignupMail, LoginClear, Sound, RequestsSound, At
      <3>2. Idle.id = 0
        BY IdleIsTyped
      <3>3. \/ Go(h, [reqs[h] EXCEPT !.pc = "mail"]) \/ Go(h, [reqs[h] EXCEPT !.pc = "denied"])
            \/ Go(h, [reqs[h] EXCEPT !.pc = "issue"]) \/ Go(h, Idle)
        BY <2>1 DEF SignupCreate, SignupMail, LoginClear, Answer, Then, Quit
      <3>4. \A pc \in Steps : [reqs[h] EXCEPT !.pc = pc].id = 0
        BY <1>3, <3>1
      <3>5. {"mail", "denied", "issue"} \subseteq Steps
        BY DEF Steps
      <3>6. \E work : Go(h, work) /\ work.id = 0
        BY <3>2, <3>3, <3>4, <3>5
      <3>7. QED
        BY <3>6
    <2>2. CASE Rotate(h)
      <3>1. Go(h, [reqs[h] EXCEPT !.pc = "issue"]) /\ reqs[h].pc = "rotate"
        BY <2>2 DEF Rotate, Then, At
      <3>2. QED
        BY <1>3, <3>1 DEF Steps
    <2>3. CASE \/ LoginFail(h) \/ ResetPassword(h) \/ Granted(h) \/ Denied(h) \/ Left(h)
               \/ Fail(h)
      <3>1. Go(h, Idle)
        BY <2>3 DEF LoginFail, ResetPassword, Granted, Denied, Left, Fail, Quit
      <3>2. QED
        BY <3>1, IdleIsTyped
    <2>4. QED
      BY <2>1, <2>2, <2>3
  <1>5. QED
    BY <1>2, <1>4, ExchangesStep

\* The mail, the clock and the tabs.
LEMMA OthersKeepExchanges ==
    ASSUME Sound, TypeOK', ExchangesSound,
           \/ VerifyEmail \/ Tick \/ \E l \in Links : RequestPasswordReset(l)
           \/ \E t \in Tabs : AccessExpires(t) \/ Reload(t)
           \/ UNCHANGED vars
    PROVE ExchangesSound'
  <1>1. TypeOK
    BY DEF Sound
  <1>2. OnlyRevoked
    BY <1>1, NoneAreRevoked DEF VerifyEmail, Tick, RequestPasswordReset, AccessExpires,
                                Reload, vars
  <1>3. ASSUME NEW h \in Reqs, NEW i \in DOMAIN tokens, Trades(reqs'[h], i)
        PROVE Trades(reqs[h], i)
    <2>1. CASE \E t \in Tabs : Reload(t)
      <3>1. \/ reqs'[h] = reqs[h] \/ reqs'[h] = Idle
            \/ reqs'[h] = [reqs[h] EXCEPT !.tab = None]
        BY <2>1 DEF Reload
      <3>2. reqs[h] \in Work /\ Idle.pc = "idle"
        BY <1>1, RequestIsTyped, IdleIsTyped
      <3>3. /\ [reqs[h] EXCEPT !.tab = None].pc = reqs[h].pc
            /\ [reqs[h] EXCEPT !.tab = None].id = reqs[h].id
        BY <3>2 DEF Work
      <3>4. QED
        BY <1>3, <3>1, <3>2, <3>3 DEF Trades
    <2>2. CASE ~\E t \in Tabs : Reload(t)
      BY <1>3, <2>2 DEF VerifyEmail, Tick, RequestPasswordReset, AccessExpires, vars
    <2>3. QED
      BY <2>1, <2>2
  <1>4. QED
    BY <1>2, <1>3, ExchangesFrame

\* Every step keeps the number of a row's successors and exchanges.
LEMMA NextKeepsExchanges ==
    ASSUME Sound, TypeOK', ExchangesSound, [Next]_vars
    PROVE ExchangesSound'
  BY SendsKeepExchanges, IssueExchanges, StepsKeepExchanges, OthersKeepExchanges DEF Next

-----------------------------------------------------------------------------
(* The refinement of SessionLedger.                                        *)

\* A session of SessionLedger.
SessionRecords == [from : Nat, live : BOOLEAN]

\* There is a session for each row.
RowsMatch == /\ SessionsOf \in Seq(SessionRecords) /\ Len(SessionsOf) = Len(tokens)
             /\ DOMAIN SessionsOf = DOMAIN tokens
             /\ \A i \in DOMAIN tokens : SessionsOf[i] = SessionOf(tokens[i])

\* The sessions are a sequence as the rows are.
LEMMA RowsAreSessions == TypeOK => RowsMatch
  <1> SUFFICES ASSUME TypeOK PROVE RowsMatch
    OBVIOUS
  <1>1. \A i \in DOMAIN tokens : SessionOf(tokens[i]) \in SessionRecords
    BY RowsAreTyped DEF SessionOf, SessionRecords
  <1>2. /\ Len(tokens) \in Nat /\ SessionsOf \in [1..Len(tokens) -> SessionRecords]
        /\ \A i \in DOMAIN tokens : SessionsOf[i] = SessionOf(tokens[i])
    BY <1>1, RowsAreTyped DEF SessionsOf
  <1>3. SessionsOf \in Seq(SessionRecords)
    BY <1>2, SeqDef
  <1>4. QED
    BY <1>2, <1>3, RowsAreTyped, LenProperties DEF RowsMatch

\* The same of the next state.
LEMMA RowsAreSessionsNext == TypeOK' => RowsMatch'
  BY RowsAreSessions, PTL

\* A session that ends if it is among those that end.
LEMMA SessionEnds ==
    ASSUME NEW f, NEW live \in BOOLEAN, NEW ended \in BOOLEAN
    PROVE /\ [[from |-> f, live |-> live] EXCEPT !.live = @ /\ ~ended]
                = [from |-> f, live |-> live /\ ~ended]
          /\ [from |-> f, live |-> live].live = live
  <1>1. [from |-> f, live |-> live].live = live
    OBVIOUS
  <1>2. [[from |-> f, live |-> live] EXCEPT !.live = live /\ ~ended]
           = [from |-> f, live |-> live /\ ~ended]
    OBVIOUS
  <1>3. QED
    BY <1>1, <1>2

\* Rows that are only revoked are sessions that end.
LEMMA RevokingEnds ==
    ASSUME TypeOK, TypeOK', OnlyRevoked
    PROVE Ledger!Next
  <1> DEFINE S == {i \in DOMAIN tokens : tokens'[i].revoked}
  <1>1. /\ DOMAIN tokens' = DOMAIN tokens /\ RowsMatch /\ RowsMatch'
        /\ \A i \in DOMAIN tokens :
              /\ tokens'[i] \in Tokens
              /\ tokens'[i].from = tokens[i].from
              /\ tokens[i].revoked => tokens'[i].revoked
    BY RevokingKeepsRows, RowsAreSessions, RowsAreSessionsNext DEF OnlyRevoked
  <1>2. \A i \in DOMAIN tokens :
           SessionsOf'[i] = [SessionsOf[i] EXCEPT !.live = @ /\ i \notin S]
    <2> TAKE i \in DOMAIN tokens
    <2>1. SessionsOf[i] = [from |-> tokens[i].from, live |-> ~tokens[i].revoked]
      BY <1>1 DEF RowsMatch, SessionOf
    <2>2. SessionsOf'[i] = [from |-> tokens[i].from, live |-> ~tokens'[i].revoked]
      BY <1>1 DEF RowsMatch, SessionOf
    <2>3. (~tokens'[i].revoked) = ((~tokens[i].revoked) /\ i \notin S)
      <3>1. tokens'[i].revoked \in BOOLEAN /\ tokens[i].revoked \in BOOLEAN
        BY <1>1, RowsAreTyped DEF Tokens
      <3>2. QED
        BY <1>1, <3>1
    <2>4. [SessionsOf[i] EXCEPT !.live = @ /\ i \notin S]
             = [from |-> tokens[i].from, live |-> (~tokens[i].revoked) /\ i \notin S]
      <3>1. (~tokens[i].revoked) \in BOOLEAN /\ (i \in S) \in BOOLEAN
        OBVIOUS
      <3>2. QED
        BY <2>1, <3>1, SessionEnds
    <2>5. QED
      BY <2>2, <2>3, <2>4
  <1>3. /\ SessionsOf' = [i \in DOMAIN SessionsOf |-> SessionsOf'[i]]
        /\ DOMAIN SessionsOf = DOMAIN tokens
    BY <1>1 DEF RowsMatch, SessionsOf
  <1>4. Ledger!End(S)
    BY <1>2, <1>3 DEF Ledger!End
  <1>5. S \in SUBSET DOMAIN SessionsOf
    BY <1>3
  <1>6. QED
    BY <1>4, <1>5 DEF Ledger!Next

\* SessionLedger counts with an instance's Cardinality, which is the same.
LEMMA CountsAgree ==
    ASSUME NEW S
    PROVE Ledger!Cardinality(S) = Cardinality(S)
  BY DEF Ledger!Cardinality, Cardinality, Ledger!IsFiniteSet, IsFiniteSet

\* A row that is stored is a session that is opened, by a sign-in or for a row that
\* is revoked and has a successor fewer than there are slots.
LEMMA IssuingOpens ==
    ASSUME Sound, TypeOK', ExchangesSound, NEW h \in Reqs, Issue(h)
    PROVE Ledger!Next
  <1> DEFINE from == reqs[h].id
             new == [token |-> now, revoked |-> FALSE, from |-> from,
                     epoch |-> reqs[h].epoch]
             n == Len(tokens)
  <1>1. TypeOK /\ RowsMatch /\ RowsMatch' /\ tokens' = Append(tokens, new)
    BY RowsAreSessions, RowsAreSessionsNext DEF Sound, Issue
  <1>2. new \in Tokens /\ from \in Nat
    BY <1>1, IssuedRow, RequestIsTyped
  <1>3. /\ n \in Nat /\ DOMAIN tokens = 1..n /\ DOMAIN tokens' = 1..(n + 1)
        /\ Len(tokens') = n + 1
        /\ \A i \in 1..n : tokens'[i] = tokens[i]
        /\ tokens'[n + 1] = new
    <2>1. tokens \in Seq(Tokens)
      BY <1>1 DEF TypeOK
    <2>2. Len(tokens') = n + 1
      BY <1>1, <1>2, <2>1, AppendProperties
    <2>3. QED
      BY <1>1, <1>2, <2>1, <2>2, AppendProperties, LenProperties
  <1>4. SessionsOf' = Ledger!With(from)
    <2>1. SessionOf(new) = [from |-> from, live |-> TRUE]
      BY DEF SessionOf
    <2>2. [from |-> from, live |-> TRUE] \in SessionRecords
      BY <1>2 DEF SessionRecords
    <2>3. SessionsOf \in Seq(SessionRecords) /\ Len(SessionsOf) = n
      BY <1>1 DEF RowsMatch
    <2>4. /\ Ledger!With(from) \in Seq(SessionRecords) /\ Len(Ledger!With(from)) = n + 1
          /\ \A i \in 1..n : Ledger!With(from)[i] = SessionsOf[i]
          /\ Ledger!With(from)[n + 1] = [from |-> from, live |-> TRUE]
      BY <2>2, <2>3, AppendProperties DEF Ledger!With
    <2>5. /\ SessionsOf' \in Seq(SessionRecords) /\ Len(SessionsOf') = n + 1
          /\ \A i \in 1..(n + 1) : SessionsOf'[i] = SessionOf(tokens'[i])
      BY <1>1, <1>3 DEF RowsMatch
    <2>6. \A i \in 1..n : SessionsOf'[i] = SessionsOf[i]
      BY <1>1, <1>3, <2>5 DEF RowsMatch
    <2>7. \A i \in 1..(n + 1) : SessionsOf'[i] = Ledger!With(from)[i]
      <3>1. \A i \in 1..(n + 1) : i \in 1..n \/ i = n + 1
        BY <1>3
      <3>2. SessionsOf'[n + 1] = [from |-> from, live |-> TRUE]
        BY <1>3, <2>1, <2>5
      <3>3. QED
        BY <2>4, <2>6, <3>1, <3>2
    <2>8. QED
      BY <2>4, <2>5, <2>7, SeqEqual
  <1>5. CASE from = 0
    BY <1>4, <1>5 DEF Ledger!Next, Ledger!SignIn
  <1>6. CASE from # 0
    <2>1. from \in DOMAIN tokens /\ tokens[from].revoked
      BY <1>6 DEF Issue, Sound, RequestsSound, At
    <2>2. from \in DOMAIN SessionsOf /\ ~SessionsOf[from].live
      <3>1. SessionsOf[from] = SessionOf(tokens[from]) /\ from \in DOMAIN SessionsOf
        BY <1>1, <2>1 DEF RowsMatch
      <3>2. SessionOf(tokens[from]).live = (~tokens[from].revoked)
        BY SessionEnds DEF SessionOf
      <3>3. QED
        BY <2>1, <3>1, <3>2
    <2>3. Ledger!Successors(from) = Successors(from)
      BY <1>1 DEF Ledger!Successors, Successors, RowsMatch, SessionOf
    <2>4. Cardinality(Successors(from)) < Cardinality(Reqs)
      <3>1. h \in Exchanging(from)
        BY DEF Issue, At, Exchanging
      <3>2. Cardinality(Exchanging(from)) # 0
        BY <1>1, <3>1, ExchangesAreFinite, FS_EmptySet
      <3>3. Cardinality(Successors(from)) + Cardinality(Exchanging(from))
               =< Cardinality(Reqs)
        BY <2>1 DEF ExchangesSound
      <3>4. QED
        BY <1>1, <3>2, <3>3, ExchangesAreFinite
    <2>5. Ledger!Cardinality(Ledger!Successors(from)) < Cardinality(Reqs)
      BY <2>3, <2>4, CountsAgree
    <2>6. Ledger!Exchange(from)
      BY <1>4, <2>2, <2>5 DEF Ledger!Exchange
    <2>7. QED
      BY <2>2, <2>6 DEF Ledger!Next
  <1>7. QED
    BY <1>5, <1>6

\* No row has a successor before the signup.
LEMMA InitExchanges == Init => ExchangesSound
  BY DEF Init, ExchangesSound

\* Every step is one of the ledger's, or changes no session.
LEMMA NextIsOfTheLedger ==
    ASSUME Sound, TypeOK', ExchangesSound, [Next]_vars
    PROVE [Ledger!Next]_(SessionsOf)
  <1>1. TypeOK
    BY DEF Sound
  <1>2. CASE tokens' = tokens
    BY <1>2 DEF SessionsOf
  <1>3. CASE OnlyRevoked
    BY <1>1, <1>3, RevokingEnds
  <1>4. ASSUME NEW h \in Reqs, Issue(h)
        PROVE Ledger!Next
    BY <1>4, IssuingOpens
  <1>5. ASSUME NEW h \in Reqs, Rotate(h) \/ ResetPassword(h) \/ \E t \in Tabs : Logout(h, t)
        PROVE OnlyRevoked
    BY <1>5, RotateIsSound, ResetIsSound, LogoutIsSound
  <1>6. ASSUME NEW h \in Reqs,
               \/ \E t \in Tabs \cup {None} : SignupCheck(h, t) \/ LoginRight(h, t)
               \/ \E t \in Tabs : Boot(h, t) \/ Refresh(h, t)
               \/ SignupCreate(h) \/ SignupMail(h)
               \/ LoginWrong(h) \/ LoginFail(h) \/ LoginClear(h)
               \/ \E l \in Links : ResetLoad(h, l)
               \/ Granted(h) \/ Denied(h) \/ Left(h) \/ Fail(h)
        PROVE tokens' = tokens
    BY <1>6 DEF SignupCheck, LoginRight, Boot, Refresh, SignupCreate, SignupMail, LoginWrong,
                LoginFail, LoginClear, ResetLoad, Granted, Denied, Left, Fail
  <1>7. CASE \/ VerifyEmail \/ Tick \/ \E l \in Links : RequestPasswordReset(l)
             \/ \E t \in Tabs : AccessExpires(t) \/ Reload(t)
             \/ UNCHANGED vars
    BY <1>2, <1>7 DEF VerifyEmail, Tick, RequestPasswordReset, AccessExpires, Reload, vars
  <1>8. QED
    BY <1>2, <1>3, <1>4, <1>5, <1>6, <1>7 DEF Next

\* The owner's sessions are a session ledger in which a token that several requests
\* present at once is exchanged by no more than these, and no session that has ended
\* is live again (refresh, logout, resetPassword).
THEOREM LedgerImplemented == Spec => LedgerPromise
  <1>1. Init => Ledger!Init
    <2> SUFFICES ASSUME Init PROVE SessionsOf = <<>>
      BY DEF Ledger!Init
    <2>1. tokens = <<>> /\ TypeOK
      BY InitHolds DEF Init, IInv
    <2>2. SessionsOf \in Seq(SessionRecords) /\ Len(SessionsOf) = 0
      BY <2>1, RowsAreSessions, EmptySeq DEF RowsMatch
    <2>3. QED
      BY <2>2, EmptySeq
  <1>2. Init => ExchangesSound
    BY InitExchanges
  <1>3. IInv => Sound /\ TypeOK
    BY DEF IInv, Sound
  <1>4. Sound /\ TypeOK' /\ ExchangesSound /\ [Next]_vars => ExchangesSound'
    BY NextKeepsExchanges
  <1>5. Sound /\ TypeOK' /\ ExchangesSound /\ [Next]_vars => [Ledger!Next]_(SessionsOf)
    BY NextIsOfTheLedger
  <1>6. QED
    BY <1>1, <1>2, <1>3, <1>4, <1>5, InvariantStays, PTL DEF Spec, LedgerPromise, Ledger!Spec
=============================================================================
