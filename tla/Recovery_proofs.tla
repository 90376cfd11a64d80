-------------------------- MODULE Recovery_proofs ---------------------------
(***************************************************************************)
(* A patient shopper sets the password of the account whose code was       *)
(* verified, for any accounts, any number of requests and a stack of any   *)
(* depth.  The invariant says what the stack looks like: e-mail pages lie  *)
(* on sign-in pages, so that a tap on one - the only way to change the     *)
(* preference to another account - leaves no password page within reach    *)
(* of Back.                                                                *)
(***************************************************************************)
EXTENDS Recovery, TLAPS

\* What a push does to the stack, and to what is within reach of Back.
LEMMA PushFacts ==
  ASSUME TypeOK, NEW page \in Page, Push(page)
  PROVE  /\ pages' \in Seq(Page) /\ Len(pages') \in 1..MaxDepth
         /\ DOMAIN pages' = 1..(Len(pages) + 1) /\ Len(pages') = Len(pages) + 1
         /\ \A i \in DOMAIN pages : pages'[i] = pages[i]
         /\ pages'[Len(pages) + 1] = page
         /\ \A i \in DOMAIN pages : Reachable(i)' => Reachable(i)
         /\ page.kind = "signin" => \A i \in DOMAIN pages : ~Reachable(i)'
<1>1. pages' = Append(pages, page) /\ pages \in Seq(Page) /\ Len(pages) \in Nat
      /\ Len(pages) < MaxDepth /\ MaxDepth \in Nat
  BY DepthAssumption DEF TypeOK, Push, Depth
<1>2. /\ pages' \in Seq(Page) /\ Len(pages') = Len(pages) + 1
      /\ DOMAIN pages' = 1..(Len(pages) + 1) /\ DOMAIN pages = 1..Len(pages)
      /\ \A i \in 1..Len(pages) : pages'[i] = pages[i]
      /\ pages'[Len(pages) + 1] = page
  BY <1>1
<1>3. Len(pages') \in 1..MaxDepth
  BY <1>1, <1>2
<1>4. \A i \in DOMAIN pages : Reachable(i)' => Reachable(i)
  BY <1>1, <1>2 DEF Reachable
<1>5. ASSUME page.kind = "signin", NEW i \in DOMAIN pages
      PROVE  ~Reachable(i)'
  BY <1>1, <1>2, <1>5 DEF Reachable
<1>. QED BY <1>2, <1>3, <1>4, <1>5

LEMMA PlainPage ==
  ASSUME NEW kind \in {"home", "error", "signin", "email", "otp", "newpassword"}
  PROVE  /\ Plain(kind) \in Page /\ Plain(kind).kind = kind
         /\ Plain(kind).by = None
  BY DEF Plain, Page

LEMMA IdleRequest ==
  /\ Idle \in Request /\ Idle.pc = "idle" /\ Idle.page = 0
  BY DepthAssumption DEF Idle, Request

LEMMA Orphaned ==
  ASSUME NEW r \in Request
  PROVE  LET o == [r EXCEPT !.page = 0] IN
         o \in Request /\ o.pc = r.pc /\ o.kind = r.kind /\ o.page = 0
  BY DepthAssumption DEF Request

LEMMA InitInv == Init => IInv
<1>. SUFFICES ASSUME Init PROVE IInv
  OBVIOUS
<1>1. pages \in Seq(Page) /\ Len(pages) = 1 /\ DOMAIN pages = {1}
      /\ pages[1].kind = "home"
  BY PlainPage DEF Init
<1>2. \A q \in Slots : reqs[q] = Idle
  BY DEF Init
<1>3. TypeOK
  <2>1. Len(pages) \in 1..MaxDepth
    BY <1>1, DepthAssumption
  <2>2. reqs \in [Slots -> Request] /\ \A q \in Slots : reqs[q].page <= Len(pages)
    BY <1>1, <1>2, IdleRequest DEF Init
  <2>. QED BY <1>1, <2>1, <2>2 DEF Init, TypeOK
<1>4. EmailOnSignIn
  BY <1>1 DEF EmailOnSignIn
<1>5. PagesOfEmail /\ OneAtATime /\ UpdatesVerified
  BY <1>1, <1>2, IdleRequest
  DEF Init, PagesOfEmail, OneAtATime, UpdatesVerified, UnderWay
<1>. QED BY <1>3, <1>4, <1>5 DEF IInv

\* A page is pushed while the requests stay as they are.
LEMMA StepPlainPush ==
  ASSUME IInv, OpenSignIn \/ GoHome \/ OpenForgot
  PROVE  IInv'
<1>1. PICK kind \in {"home", "signin", "email"} :
        /\ Push(Plain(kind))
        /\ kind = "email" => Top.kind = "signin"
        /\ kind # "signin" => resetEmail' = resetEmail
  BY DEF OpenSignIn, GoHome, OpenForgot
<1>2. /\ UNCHANGED <<reqs, hasty, updates>> /\ resetEmail' \in {resetEmail, None}
      /\ Top.kind # "otp"
  BY DEF OpenSignIn, GoHome, OpenForgot
<1>3. /\ Plain(kind) \in Page /\ Plain(kind).kind = kind
  BY PlainPage
<1>4. /\ pages' \in Seq(Page) /\ Len(pages') \in 1..MaxDepth
      /\ DOMAIN pages' = 1..(Len(pages) + 1) /\ Len(pages') = Len(pages) + 1
      /\ \A i \in DOMAIN pages : pages'[i] = pages[i]
      /\ pages'[Len(pages) + 1] = Plain(kind)
      /\ \A i \in DOMAIN pages : Reachable(i)' => Reachable(i)
      /\ kind = "signin" => \A i \in DOMAIN pages : ~Reachable(i)'
  BY <1>1, <1>3, PushFacts DEF IInv
<1>5. DOMAIN pages = 1..Len(pages) /\ Len(pages) \in Nat \ {0}
  BY DepthAssumption DEF IInv, TypeOK
<1>6. TypeOK'
  <2>1. \A q \in Slots : reqs'[q].page <= Len(pages')
    BY <1>2, <1>4, <1>5 DEF IInv, TypeOK, Request
  <2>. QED BY <1>2, <1>4, <2>1 DEF IInv, TypeOK
<1>7. EmailOnSignIn'
  BY <1>1, <1>3, <1>4, <1>5 DEF IInv, EmailOnSignIn, Top, Depth
<1>8. ASSUME ~hasty' PROVE PagesOfEmail' /\ OneAtATime' /\ UpdatesVerified'
  <2>1. PagesOfEmail /\ OneAtATime /\ UpdatesVerified
    BY <1>2, <1>8 DEF IInv
  <2>2. OneAtATime' /\ UpdatesVerified'
    BY <1>2, <2>1 DEF OneAtATime, UpdatesVerified, UnderWay
  <2>3. ASSUME NEW q \in Slots, reqs'[q].pc # "idle", reqs'[q].kind = "verify",
               reqs'[q].page # 0
        PROVE  FALSE
    BY <1>2, <2>1, <2>3 DEF PagesOfEmail
  <2>4. ASSUME NEW i \in DOMAIN pages', pages'[i].kind = "newpassword", Reachable(i)'
        PROVE  pages'[i].by = resetEmail'
    <3>1. i \in DOMAIN pages
      BY <1>3, <1>4, <1>5, <2>4
    <3>2. kind # "signin" /\ Reachable(i) /\ pages[i].kind = "newpassword"
      BY <1>4, <2>4, <3>1
    <3>. QED BY <1>1, <1>4, <2>1, <3>1, <3>2 DEF PagesOfEmail
  <2>. QED BY <2>2, <2>3, <2>4 DEF PagesOfEmail
<1>. QED BY <1>6, <1>7, <1>8 DEF IInv

\* Back: what was within reach is what is.
LEMMA StepBack ==
  ASSUME IInv, Back
  PROVE  IInv'
<1>1. /\ pages \in Seq(Page) /\ Len(pages) \in Nat /\ Len(pages) > 1
      /\ Len(pages) <= MaxDepth /\ MaxDepth \in Nat
      /\ pages' = SubSeq(pages, 1, Len(pages) - 1)
      /\ Top.kind # "signin" /\ UNCHANGED <<resetEmail, hasty, updates>>
  BY DepthAssumption DEF IInv, TypeOK, Back, Pop, Depth
<1>2. /\ pages' \in Seq(Page) /\ Len(pages') = Len(pages) - 1
      /\ DOMAIN pages' = 1..(Len(pages) - 1) /\ DOMAIN pages = 1..Len(pages)
      /\ \A i \in 1..(Len(pages) - 1) : pages'[i] = pages[i]
  BY <1>1
<1>3. \A i \in DOMAIN pages' : Reachable(i)' => Reachable(i)
  BY <1>1, <1>2 DEF Reachable, Top, Depth
<1>4. \A q \in Slots :
        /\ reqs'[q] \in Request
        /\ reqs'[q].pc = reqs[q].pc /\ reqs'[q].kind = reqs[q].kind
        /\ reqs'[q].page <= Len(pages) - 1
        /\ reqs'[q].page # 0 => reqs[q].page # Len(pages) /\ reqs'[q].page = reqs[q].page
  <2>. SUFFICES ASSUME NEW q \in Slots
       PROVE /\ reqs'[q] \in Request
             /\ reqs'[q].pc = reqs[q].pc /\ reqs'[q].kind = reqs[q].kind
             /\ reqs'[q].page <= Len(pages) - 1
             /\ reqs'[q].page # 0 => reqs[q].page # Len(pages) /\ reqs'[q].page = reqs[q].page
    OBVIOUS
  <2>1. /\ reqs[q] \in Request /\ reqs[q].page \in 0..MaxDepth
        /\ reqs[q].page <= Len(pages)
    BY DEF IInv, TypeOK, Request
  <2>2. CASE reqs[q].page = Depth
    <3>1. reqs'[q] = [reqs[q] EXCEPT !.page = 0]
      BY <2>2 DEF Back, Pop
    <3>2. /\ reqs'[q] \in Request /\ reqs'[q].page = 0
          /\ reqs'[q].pc = reqs[q].pc /\ reqs'[q].kind = reqs[q].kind
      BY <2>1, <3>1, Orphaned
    <3>. QED BY <1>1, <3>2
  <2>3. CASE reqs[q].page # Depth
    <3>1. reqs'[q] = reqs[q]
      BY <2>3 DEF Back, Pop
    <3>. QED BY <1>1, <2>1, <2>3, <3>1 DEF Depth
  <2>. QED BY <2>2, <2>3
<1>5. reqs' \in [Slots -> Request]
  <2>1. reqs' = [q \in Slots |-> IF reqs[q].page = Depth
                                 THEN [reqs[q] EXCEPT !.page = 0] ELSE reqs[q]]
    BY DEF Back, Pop
  <2>. QED BY <1>4, <2>1
<1>6. TypeOK'
  BY <1>1, <1>2, <1>4, <1>5 DEF IInv, TypeOK
<1>7. EmailOnSignIn'
  BY <1>1, <1>2 DEF IInv, EmailOnSignIn
<1>8. ASSUME ~hasty' PROVE PagesOfEmail' /\ OneAtATime' /\ UpdatesVerified'
  <2>1. PagesOfEmail /\ OneAtATime /\ UpdatesVerified
    BY <1>1, <1>8 DEF IInv
  <2>2. OneAtATime' /\ UpdatesVerified'
    BY <1>1, <1>4, <2>1 DEF OneAtATime, UpdatesVerified, UnderWay
  <2>3. ASSUME NEW q \in Slots, reqs'[q].pc # "idle", reqs'[q].kind = "verify",
               reqs'[q].page # 0
        PROVE  FALSE
    BY <1>4, <2>1, <2>3 DEF PagesOfEmail, Depth
  <2>4. ASSUME NEW i \in DOMAIN pages', pages'[i].kind = "newpassword", Reachable(i)'
        PROVE  pages'[i].by = resetEmail'
    BY <1>1, <1>2, <1>3, <2>1, <2>4 DEF PagesOfEmail
  <2>. QED BY <2>2, <2>3, <2>4 DEF PagesOfEmail
<1>. QED BY <1>6, <1>7, <1>8 DEF IInv
\* A tap sends one request and disturbs the others not at all.
LEMMA AskFacts ==
  ASSUME TypeOK, NEW q \in Slots, NEW kind \in {"request", "verify", "update"},
         NEW to \in Emails \union {None}, Ask(q, kind, to)
  PROVE  /\ reqs' \in [Slots -> Request]
         /\ \A r \in Slots : reqs'[r].page <= Len(pages)
         /\ hasty' \in BOOLEAN
         /\ reqs'[q].kind = kind /\ reqs'[q].page = Depth /\ reqs'[q].to = to
         /\ \A r \in Slots \ {q} : reqs'[r] = reqs[r]
         /\ ~hasty' => ~hasty /\ \A r \in Slots : reqs[r].pc = "idle"
<1>. DEFINE new == [pc |-> "sent", kind |-> kind, page |-> Depth, to |-> to]
<1>1. Depth \in 0..MaxDepth /\ Depth = Len(pages) /\ Len(pages) \in Nat
  BY DepthAssumption DEF TypeOK, Depth
<1>2. new \in Request
  BY <1>1 DEF Request
<1>3. reqs' = [reqs EXCEPT ![q] = new] /\ hasty' = (hasty \/ UnderWay # {})
  BY DEF Ask
<1>4. /\ reqs' \in [Slots -> Request] /\ reqs'[q] = new
      /\ \A r \in Slots \ {q} : reqs'[r] = reqs[r]
  BY <1>2, <1>3 DEF TypeOK
<1>5. \A r \in Slots : reqs'[r].page <= Len(pages)
  BY <1>1, <1>4 DEF TypeOK
<1>. HIDE DEF new
<1>6. new.kind = kind /\ new.page = Depth /\ new.to = to
  BY DEF new
<1>. QED BY <1>3, <1>4, <1>5, <1>6 DEF TypeOK, UnderWay

\* With one request under way, it is the one of slot q.
LEMMA AskOne ==
  ASSUME TypeOK, NEW q \in Slots, NEW kind \in {"request", "verify", "update"},
         NEW to \in Emails \union {None}, Ask(q, kind, to), ~hasty'
  PROVE  OneAtATime' /\ \A r \in Slots \ {q} : reqs'[r].pc = "idle"
<1>1. \A r \in Slots \ {q} : reqs'[r].pc = "idle"
  BY AskFacts
<1>. QED BY <1>1 DEF OneAtATime, UnderWay

\* An e-mail page is on top, on a sign-in page: nothing below is in reach.
LEMMA StepRequestCode ==
  ASSUME IInv, NEW q \in Slots, NEW email \in Emails, RequestCode(q, email)
  PROVE  IInv'
<1>1. /\ Top.kind = "email" /\ Ask(q, "request", email) /\ resetEmail' = email
      /\ UNCHANGED <<pages, updates>>
  BY DEF RequestCode
<1>2. /\ reqs' \in [Slots -> Request]
      /\ \A r \in Slots : reqs'[r].page <= Len(pages)
      /\ hasty' \in BOOLEAN /\ reqs'[q].kind = "request"
      /\ ~hasty' => ~hasty
  BY <1>1, AskFacts DEF IInv
<1>3. TypeOK'
  BY <1>1, <1>2 DEF IInv, TypeOK
<1>4. EmailOnSignIn'
  BY <1>1 DEF IInv, EmailOnSignIn
<1>5. ASSUME ~hasty' PROVE PagesOfEmail' /\ OneAtATime' /\ UpdatesVerified'
  <2>1. OneAtATime' /\ \A r \in Slots \ {q} : reqs'[r].pc = "idle"
    BY <1>1, <1>5, AskOne DEF IInv
  <2>2. UpdatesVerified'
    BY <1>1, <1>2, <1>5 DEF IInv, UpdatesVerified
  <2>3. ASSUME NEW r \in Slots, reqs'[r].pc # "idle", reqs'[r].kind = "verify"
        PROVE  FALSE
    BY <1>2, <2>1, <2>3
  <2>4. ASSUME NEW i \in DOMAIN pages, pages[i].kind = "newpassword", Reachable(i)
        PROVE  FALSE
    <3>1. Len(pages) \in Nat \ {0} /\ DOMAIN pages = 1..Len(pages)
      BY DepthAssumption DEF IInv, TypeOK
    <3>2. Len(pages) > 1 /\ pages[Len(pages) - 1].kind = "signin"
      BY <1>1, <3>1 DEF IInv, EmailOnSignIn, Top, Depth
    <3>3. i # Len(pages) /\ i # Len(pages) - 1
      BY <1>1, <2>4, <3>2 DEF Top, Depth
    <3>. QED BY <2>4, <3>1, <3>2, <3>3 DEF Reachable
  <2>5. PagesOfEmail'
    BY <1>1, <2>3, <2>4 DEF PagesOfEmail, Reachable
  <2>. QED BY <2>1, <2>2, <2>5
<1>. QED BY <1>3, <1>4, <1>5 DEF IInv

LEMMA StepVerify ==
  ASSUME IInv, NEW q \in Slots, Verify(q)
  PROVE  IInv'
<1>1. /\ Top.kind = "otp" /\ Ask(q, "verify", resetEmail)
      /\ UNCHANGED <<resetEmail, pages, updates>>
      /\ resetEmail \in Emails \union {None}
  BY DEF Verify, IInv, TypeOK
<1>2. /\ reqs' \in [Slots -> Request]
      /\ \A r \in Slots : reqs'[r].page <= Len(pages)
      /\ hasty' \in BOOLEAN
      /\ reqs'[q].page = Depth /\ reqs'[q].to = resetEmail
      /\ ~hasty' => ~hasty
  BY <1>1, AskFacts DEF IInv
<1>3. TypeOK'
  BY <1>1, <1>2 DEF IInv, TypeOK
<1>4. EmailOnSignIn'
  BY <1>1 DEF IInv, EmailOnSignIn
<1>5. ASSUME ~hasty' PROVE PagesOfEmail' /\ OneAtATime' /\ UpdatesVerified'
  <2>1. OneAtATime' /\ \A r \in Slots \ {q} : reqs'[r].pc = "idle"
    BY <1>1, <1>5, AskOne DEF IInv
  <2>2. UpdatesVerified'
    BY <1>1, <1>2, <1>5 DEF IInv, UpdatesVerified
  <2>3. PagesOfEmail'
    BY <1>1, <1>2, <1>5, <2>1 DEF IInv, PagesOfEmail, Reachable, Depth, Top
  <2>. QED BY <2>1, <2>2, <2>3
<1>. QED BY <1>3, <1>4, <1>5 DEF IInv

\* The page on top is within reach, so it belongs to the preference.
LEMMA StepUpdate ==
  ASSUME IInv, NEW q \in Slots, Update(q)
  PROVE  IInv'
<1>1. /\ Top.kind = "newpassword" /\ Ask(q, "update", resetEmail)
      /\ updates' = updates \union {[to |-> resetEmail, by |-> Top.by]}
      /\ UNCHANGED <<resetEmail, pages>>
      /\ resetEmail \in Emails \union {None}
  BY DEF Update, IInv, TypeOK
<1>2. /\ reqs' \in [Slots -> Request]
      /\ \A r \in Slots : reqs'[r].page <= Len(pages)
      /\ hasty' \in BOOLEAN /\ reqs'[q].kind = "update"
      /\ ~hasty' => ~hasty
  BY <1>1, AskFacts DEF IInv
<1>3. /\ Len(pages) \in Nat \ {0} /\ DOMAIN pages = 1..Len(pages)
      /\ Top = pages[Len(pages)] /\ Top \in Page
  BY DepthAssumption DEF IInv, TypeOK, Top, Depth
<1>4. TypeOK'
  <2>1. Top.by \in Emails \union {None}
    BY <1>3 DEF Page
  <2>2. updates' \subseteq [to : Emails \union {None}, by : Emails \union {None}]
    BY <1>1, <2>1 DEF IInv, TypeOK
  <2>. QED BY <1>1, <1>2, <2>2 DEF IInv, TypeOK
<1>5. EmailOnSignIn'
  BY <1>1 DEF IInv, EmailOnSignIn
<1>6. ASSUME ~hasty' PROVE PagesOfEmail' /\ OneAtATime' /\ UpdatesVerified'
  <2>1. OneAtATime' /\ \A r \in Slots \ {q} : reqs'[r].pc = "idle"
    BY <1>1, <1>6, AskOne DEF IInv
  <2>2. PagesOfEmail
    BY <1>2, <1>6 DEF IInv
  <2>3. Top.by = resetEmail
    <3>1. Reachable(Len(pages))
      BY <1>3 DEF Reachable
    <3>. QED BY <1>1, <1>3, <2>2, <3>1 DEF PagesOfEmail
  <2>4. UpdatesVerified'
    BY <1>1, <1>2, <1>6, <2>3 DEF IInv, UpdatesVerified
  <2>5. PagesOfEmail'
    BY <1>1, <1>2, <2>1, <2>2 DEF PagesOfEmail, Reachable
  <2>. QED BY <2>1, <2>4, <2>5
<1>. QED BY <1>4, <1>5, <1>6 DEF IInv

\* The shop answers, or the connection breaks.
LEMMA StepShop ==
  ASSUME IInv, NEW q \in Slots,
         Lose(q) \/ \E answer \in {"ok", "refused", "down"} : Serve(q, answer)
  PROVE  IInv'
<1>1. UNCHANGED <<resetEmail, pages, hasty, updates>>
  BY DEF Lose, Serve
<1>2. /\ reqs' \in [Slots -> Request]
      /\ \A r \in Slots : reqs'[r].page <= Len(pages)
      /\ \A r \in Slots : reqs'[r].pc = "idle" \/
           /\ reqs[r].pc # "idle" /\ reqs'[r].kind = reqs[r].kind
           /\ reqs'[r].page = reqs[r].page /\ reqs'[r].to = reqs[r].to
  <2>1. CASE Lose(q)
    BY <2>1, IdleRequest, DepthAssumption DEF Lose, IInv, TypeOK
  <2>2. ASSUME NEW answer \in {"ok", "refused", "down"}, Serve(q, answer)
        PROVE  /\ reqs' \in [Slots -> Request]
               /\ \A r \in Slots : reqs'[r].page <= Len(pages)
               /\ \A r \in Slots : reqs'[r].pc = "idle" \/
                    /\ reqs[r].pc # "idle" /\ reqs'[r].kind = reqs[r].kind
                    /\ reqs'[r].page = reqs[r].page /\ reqs'[r].to = reqs[r].to
    BY <2>2 DEF Serve, IInv, TypeOK, Request
  <2>. QED BY <2>1, <2>2
<1>3. TypeOK'
  BY <1>1, <1>2 DEF IInv, TypeOK
<1>4. EmailOnSignIn'
  BY <1>1 DEF IInv, EmailOnSignIn
<1>5. ASSUME ~hasty' PROVE PagesOfEmail' /\ OneAtATime' /\ UpdatesVerified'
  BY <1>1, <1>2, <1>5
  DEF IInv, PagesOfEmail, OneAtATime, UpdatesVerified, UnderWay, Reachable, Depth, Top
<1>. QED BY <1>3, <1>4, <1>5 DEF IInv

\* An answer ends its request; it pushes at most one page, and a password
\* page only for the account in the preference.
LEMMA StepAnswer ==
  ASSUME IInv, NEW q \in Slots, Answer(q)
  PROVE  IInv'
<1>. DEFINE r == reqs[q]
<1>1. /\ reqs' = [reqs EXCEPT ![q] = Idle] /\ r \in Request
      /\ r.pc \in {"ok", "refused", "down"}
      /\ UNCHANGED <<resetEmail, hasty, updates>>
  BY DEF Answer, IInv, TypeOK
<1>2. /\ reqs' \in [Slots -> Request] /\ reqs'[q] = Idle
      /\ \A t \in Slots \ {q} : reqs'[t] = reqs[t]
  BY <1>1, IdleRequest DEF IInv, TypeOK
<1>3. Len(pages) \in Nat \ {0} /\ DOMAIN pages = 1..Len(pages) /\ pages \in Seq(Page)
  BY DepthAssumption DEF IInv, TypeOK
<1>4. ASSUME ~hasty'
      PROVE  /\ PagesOfEmail /\ \A t \in Slots : reqs'[t].pc = "idle"
             /\ OneAtATime' /\ UpdatesVerified'
  <2>1. PagesOfEmail /\ OneAtATime /\ UpdatesVerified
    BY <1>1, <1>4 DEF IInv
  <2>2. \A t \in Slots : reqs'[t].pc = "idle"
    BY <1>1, <1>2, <2>1, IdleRequest DEF OneAtATime, UnderWay
  <2>. QED BY <1>1, <2>1, <2>2 DEF OneAtATime, UpdatesVerified, UnderWay
<1>5. CASE UNCHANGED pages
  <2>1. \A t \in Slots : reqs'[t].page <= Len(pages)
    BY <1>2, <1>3, IdleRequest DEF IInv, TypeOK
  <2>2. TypeOK' /\ EmailOnSignIn'
    BY <1>1, <1>2, <1>5, <2>1 DEF IInv, TypeOK, EmailOnSignIn
  <2>3. ~hasty' => PagesOfEmail'
    BY <1>1, <1>4, <1>5 DEF PagesOfEmail, Reachable
  <2>. QED BY <1>4, <2>2, <2>3 DEF IInv
<1>6. ASSUME NEW page \in Page, Push(page), page.kind # "email",
             page.kind = "newpassword" =>
               page.by = r.to /\ r.kind = "verify" /\ r.page # 0
      PROVE  IInv'
  <2>1. /\ pages' \in Seq(Page) /\ Len(pages') \in 1..MaxDepth
        /\ DOMAIN pages' = 1..(Len(pages) + 1) /\ Len(pages') = Len(pages) + 1
        /\ \A i \in DOMAIN pages : pages'[i] = pages[i]
        /\ pages'[Len(pages) + 1] = page
        /\ \A i \in DOMAIN pages : Reachable(i)' => Reachable(i)
    BY <1>6, PushFacts DEF IInv
  <2>2. \A t \in Slots : reqs'[t].page <= Len(pages')
    <3>. SUFFICES ASSUME NEW t \in Slots PROVE reqs'[t].page <= Len(pages) + 1
      BY <2>1
    <3>1. CASE t = q
      BY <1>2, <1>3, <3>1, IdleRequest
    <3>2. CASE t # q
      <4>1. reqs[t].page \in 0..MaxDepth /\ reqs[t].page <= Len(pages)
        BY DEF IInv, TypeOK, Request
      <4>. QED BY <1>2, <1>3, <3>2, <4>1, DepthAssumption
    <3>. QED BY <3>1, <3>2
  <2>3. TypeOK'
    BY <1>1, <1>2, <2>1, <2>2 DEF IInv, TypeOK
  <2>4. EmailOnSignIn'
    BY <1>3, <1>6, <2>1 DEF IInv, EmailOnSignIn
  <2>5. ASSUME ~hasty' PROVE PagesOfEmail'
    <3>1. ASSUME NEW i \in DOMAIN pages', pages'[i].kind = "newpassword", Reachable(i)'
          PROVE  pages'[i].by = resetEmail
      <4>1. CASE i \in DOMAIN pages
        BY <1>4, <2>1, <2>5, <3>1, <4>1 DEF PagesOfEmail
      <4>2. CASE i = Len(pages) + 1
        BY <1>1, <1>4, <1>6, <2>1, <2>5, <3>1, <4>2 DEF PagesOfEmail
      <4>. QED BY <1>3, <2>1, <4>1, <4>2
    <3>. QED BY <1>1, <1>4, <2>5, <3>1 DEF PagesOfEmail
  <2>. QED BY <1>4, <2>3, <2>4, <2>5 DEF IInv
<1>7. CASE r.pc = "ok" /\ r.page # 0
  <2>1. Push(Following(r))
    BY <1>7 DEF Answer
  <2>2. r.kind \in {"request", "verify", "update"} /\ r.to \in Emails \union {None}
    BY <1>1 DEF Request
  <2>3. CASE r.kind = "verify"
    <3>1. Following(r) = [kind |-> "newpassword", by |-> r.to]
      BY <2>3 DEF Following
    <3>. QED BY <1>6, <1>7, <2>1, <2>2, <2>3, <3>1 DEF Page
  <2>4. CASE r.kind # "verify"
    <3>1. PICK kind \in {"otp", "signin"} : Following(r) = Plain(kind)
      BY <2>2, <2>4 DEF Following
    <3>. QED BY <1>6, <2>1, <3>1, PlainPage
  <2>. QED BY <2>3, <2>4
<1>8. CASE r.pc = "down"
  <2>1. Push(Plain("error"))
    BY <1>8 DEF Answer
  <2>. QED BY <1>6, <2>1, PlainPage
<1>9. CASE ~(r.pc = "ok" /\ r.page # 0) /\ r.pc # "down"
  <2>1. UNCHANGED pages
    BY <1>9 DEF Answer
  <2>. QED BY <1>5, <2>1
<1>. QED BY <1>7, <1>8, <1>9

LEMMA StepRestart ==
  ASSUME IInv, Restart
  PROVE  IInv'
<1>1. /\ pages' \in Seq(Page) /\ Len(pages') = 1 /\ DOMAIN pages' = {1}
      /\ pages'[1].kind = "home" /\ UNCHANGED <<resetEmail, hasty, updates>>
  BY PlainPage DEF Restart
<1>2. reqs' \in [Slots -> Request] /\ \A q \in Slots : reqs'[q] = Idle
  BY IdleRequest DEF Restart
<1>3. TypeOK'
  <2>1. Len(pages') \in 1..MaxDepth /\ \A q \in Slots : reqs'[q].page <= Len(pages')
    BY <1>1, <1>2, IdleRequest, DepthAssumption
  <2>. QED BY <1>1, <1>2, <2>1 DEF IInv, TypeOK
<1>4. EmailOnSignIn'
  BY <1>1 DEF EmailOnSignIn
<1>5. PagesOfEmail' /\ OneAtATime'
  BY <1>1, <1>2, IdleRequest DEF PagesOfEmail, OneAtATime, UnderWay
<1>. QED BY <1>1, <1>3, <1>4, <1>5 DEF IInv, UpdatesVerified

LEMMA Inductive == IInv /\ [Next]_vars => IInv'
<1>. SUFFICES ASSUME IInv, [Next]_vars PROVE IInv'
  OBVIOUS
<1>1. CASE Next
  BY <1>1, StepPlainPush, StepBack, StepRequestCode, StepVerify, StepUpdate,
     StepShop, StepAnswer, StepRestart DEF Next
<1>2. CASE UNCHANGED vars
  BY <1>2 DEF vars, IInv, TypeOK, EmailOnSignIn, PagesOfEmail, OneAtATime,
              UpdatesVerified, UnderWay, Reachable, Depth, Top
<1>. QED BY <1>1, <1>2

(***************************************************************************)
(* The invariant holds: pages, requests and the preference agree in the    *)
(* way Recovery says (forgot_password).                                  *)
(***************************************************************************)
THEOREM Invariance == Spec => []IInv
<1>. QED BY InitInv, Inductive, PTL DEF Spec

(***************************************************************************)
(* A shopper who waits for the answers sets the password of the account    *)
(* whose code was verified, though every page reads the account anew       *)
(* from the preference (newpassword.dart).                                 *)
(***************************************************************************)
THEOREM PasswordOfVerified == Spec => []UpdatesVerified
<1>1. IInv => UpdatesVerified
  BY DEF IInv, UpdatesVerified
<1>. QED BY <1>1, Invariance, PTL
=============================================================================
