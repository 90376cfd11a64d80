------------------------ MODULE Registration_proofs -------------------------
(***************************************************************************)
(* For a shopper who leaves the form alone while it is at work, the code   *)
(* page belongs to a registered account and a code that is asked for again *)
(* goes to the e-mail the page verifies - for any e-mails, any number of   *)
(* requests and a stack of any depth.                                      *)
(*                                                                         *)
(* Back stops at a sign-in page, and every sign-up page lies on one, so    *)
(* that it reaches one code page at most; and the request under way        *)
(* belongs to the top page, or no code page is in reach, so no answer      *)
(* changes the preference under a code page that is.                       *)
(***************************************************************************)
EXTENDS Registration, TLAPS

\* What a push does to the stack, and to what is within reach of Back.
LEMMA PushFacts ==
  ASSUME TypeOK, NEW page \in Page, Push(page)
  PROVE  /\ pages' \in Seq(Page) /\ Len(pages') \in 1..MaxDepth
         /\ DOMAIN pages' = 1..(Len(pages) + 1) /\ Len(pages') = Len(pages) + 1
         /\ \A i \in DOMAIN pages : pages'[i] = pages[i]
         /\ pages'[Len(pages) + 1] = page
         /\ \A i \in DOMAIN pages : Reachable(i)' => Reachable(i)
         /\ page.kind = "signin" => \A i \in DOMAIN pages : ~Reachable(i)'
<1>1. pages' = Append(pages, page) /\ pages \in Seq(Page) /\ Len(pages) \in Nat
      /\ Len(pages) < MaxDepth /\ MaxDepth \in Nat
  BY DepthAssumption DEF TypeOK, Push, Depth
<1>2. /\ pages' \in Seq(Page) /\ Len(pages') = Len(pages) + 1
      /\ DOMAIN pages' = 1..(Len(pages) + 1) /\ DOMAIN pages = 1..Len(pages)
      /\ \A i \in 1..Len(pages) : pages'[i] = pages[i]
      /\ pages'[Len(pages) + 1] = page
  BY <1>1
<1>3. Len(pages') \in 1..MaxDepth
  BY <1>1, <1>2
<1>4. \A i \in DOMAIN pages : Reachable(i)' => Reachable(i)
  BY <1>1, <1>2 DEF Reachable
<1>5. ASSUME page.kind = "signin", NEW i \in DOMAIN pages
      PROVE  ~Reachable(i)'
  BY <1>1, <1>2, <1>5 DEF Reachable
<1>. QED BY <1>2, <1>3, <1>4, <1>5

LEMMA PlainPage ==
  ASSUME NEW kind \in {"home", "error", "signin", "signup", "otp"}
  PROVE  Plain(kind) \in Page /\ Plain(kind).kind = kind
  BY DEF Plain, Page

LEMMA IdleRequest ==
  /\ Idle \in Request /\ Idle.pc = "idle" /\ Idle.page = 0
  BY DepthAssumption DEF Idle, Request

LEMMA Stack ==
  ASSUME TypeOK
  PROVE  /\ pages \in Seq(Page) /\ Len(pages) \in Nat \ {0} /\ Len(pages) <= MaxDepth
         /\ MaxDepth \in Nat
         /\ DOMAIN pages = 1..Len(pages) /\ Depth = Len(pages)
         /\ Top = pages[Len(pages)] /\ Top \in Page
  BY DepthAssumption DEF TypeOK, Depth, Top

LEMMA InitInv == Init => IInv
<1>. SUFFICES ASSUME Init PROVE IInv
  OBVIOUS
<1>1. pages \in Seq(Page) /\ Len(pages) = 1 /\ DOMAIN pages = {1}
      /\ pages[1].kind = "home"
  BY PlainPage DEF Init
<1>2. \A q \in Slots : reqs[q] = Idle
  BY DEF Init
<1>3. TypeOK
  <2>1. Len(pages) \in 1..MaxDepth
    BY <1>1, DepthAssumption
  <2>2. reqs \in [Slots -> Request] /\ \A q \in Slots : reqs[q].page <= Len(pages)
    BY <1>1, <1>2, IdleRequest DEF Init
  <2>. QED BY <1>1, <2>1, <2>2 DEF Init, TypeOK
<1>4. Stacked /\ OneCodeInReach /\ PagesOfEmail /\ CodeForAccount
  BY <1>1 DEF Stacked, OneCodeInReach, PagesOfEmail, CodeInReach, CodeForAccount
<1>5. RequestsOfTop /\ OneAtATime
  BY <1>2, IdleRequest DEF RequestsOfTop, OneAtATime
<1>6. ResendReachesShown
  BY DEF Init, ResendReachesShown
<1>. QED BY <1>3, <1>4, <1>5, <1>6 DEF IInv

\* Under a sign-up or a sign-in page no code page is within reach.
LEMMA NoCodeUnder ==
  ASSUME IInv, Top.kind \in {"signin", "signup"}
  PROVE  NoCodeInReach
<1>1. /\ Len(pages) \in Nat \ {0} /\ DOMAIN pages = 1..Len(pages)
      /\ Top = pages[Len(pages)]
  BY Stack DEF IInv
<1>2. PICK k \in DOMAIN pages :
        pages[k].kind = "signin" /\ (k = Len(pages) \/ k = Len(pages) - 1)
  BY <1>1 DEF IInv, Stacked
<1>3. ASSUME NEW i \in DOMAIN pages PROVE ~CodeInReach(i)
  <2>1. CASE i < k
    BY <1>2, <2>1 DEF CodeInReach, Reachable
  <2>2. CASE i >= k
    BY <1>1, <1>2, <2>2 DEF CodeInReach
  <2>. QED BY <1>1, <2>1, <2>2
<1>. QED BY <1>3 DEF NoCodeInReach

\* A page is pushed while the requests stay as they are.
LEMMA StepPlainPush ==
  ASSUME IInv, OpenSignIn \/ GoHome \/ OpenSignUp
  PROVE  IInv'
<1>1. PICK kind \in {"home", "signin", "signup"} :
        /\ Push(Plain(kind))
        /\ kind = "signup" => Top.kind = "signin"
        /\ kind # "signin" => registerEmail' = registerEmail
  BY DEF OpenSignIn, GoHome, OpenSignUp
<1>2. /\ UNCHANGED <<reqs, accounts, hasty, resends>>
      /\ registerEmail' \in {registerEmail, None}
      /\ Top.kind \notin {"otp", "signup"}
  BY DEF OpenSignIn, GoHome, OpenSignUp
<1>3. Plain(kind) \in Page /\ Plain(kind).kind = kind
  BY PlainPage
<1>4. /\ pages' \in Seq(Page) /\ Len(pages') \in 1..MaxDepth
      /\ DOMAIN pages' = 1..(Len(pages) + 1) /\ Len(pages') = Len(pages) + 1
      /\ \A i \in DOMAIN pages : pages'[i] = pages[i]
      /\ pages'[Len(pages) + 1] = Plain(kind)
      /\ \A i \in DOMAIN pages : Reachable(i)' => Reachable(i)
      /\ kind = "signin" => \A i \in DOMAIN pages : ~Reachable(i)'
  BY <1>1, <1>3, PushFacts DEF IInv
<1>5. DOMAIN pages = 1..Len(pages) /\ Len(pages) \in Nat \ {0}
      /\ Top = pages[Len(pages)]
  BY Stack DEF IInv
<1>6. TypeOK'
  <2>1. \A q \in Slots : reqs'[q].page <= Len(pages')
    BY <1>2, <1>4, <1>5 DEF IInv, TypeOK, Request
  <2>. QED BY <1>2, <1>4, <2>1 DEF IInv, TypeOK
<1>7. Stacked'
  BY <1>1, <1>2, <1>3, <1>4, <1>5 DEF IInv, Stacked
<1>8. ASSUME ~hasty'
      PROVE  /\ PagesOfEmail' /\ RequestsOfTop' /\ OneAtATime'
             /\ CodeForAccount' /\ ResendReachesShown' /\ OneCodeInReach'
  <2>1. /\ PagesOfEmail /\ RequestsOfTop /\ OneAtATime
        /\ CodeForAccount /\ ResendReachesShown /\ OneCodeInReach /\ ~hasty
    BY <1>2, <1>8 DEF IInv
  <2>2. OneAtATime' /\ ResendReachesShown'
    BY <1>2, <2>1 DEF OneAtATime, ResendReachesShown
  <2>3. ASSUME NEW i \in DOMAIN pages', CodeInReach(i)'
        PROVE  /\ i \in DOMAIN pages /\ CodeInReach(i) /\ kind # "signin"
               /\ pages'[i] = pages[i]
    BY <1>3, <1>4, <1>5, <2>3 DEF CodeInReach
  <2>4. PagesOfEmail'
    BY <1>1, <2>1, <2>3 DEF PagesOfEmail
  <2>5. CodeForAccount'
    BY <1>2, <1>3, <1>4, <1>5, <2>1 DEF CodeForAccount
  <2>6. RequestsOfTop'
    <3>1. NoCodeInReach => NoCodeInReach'
      BY <2>3 DEF NoCodeInReach
    <3>2. \A q \in Slots : reqs[q].page # 0 => pages'[reqs[q].page] = pages[reqs[q].page]
      BY <1>4, <1>5 DEF IInv, TypeOK, Request
    <3>. QED BY <1>2, <2>1, <3>1, <3>2 DEF RequestsOfTop
  <2>7. OneCodeInReach'
    BY <2>1, <2>3 DEF OneCodeInReach
  <2>. QED BY <2>2, <2>4, <2>5, <2>6, <2>7
<1>. QED BY <1>6, <1>7, <1>8 DEF IInv

\* A request whose page is popped keeps everything but the page and the text.
LEMMA Orphaned ==
  ASSUME NEW r \in Request, NEW text \in Emails \union {None}
  PROVE  /\ Orphan(r, text) \in Request /\ Orphan(r, text).pc = r.pc
         /\ Orphan(r, text).kind = r.kind /\ Orphan(r, text).page = 0
         /\ Orphan(r, text).to = r.to
<1>1. 0 \in 0..MaxDepth
  BY DepthAssumption
<1>. QED BY <1>1 DEF Orphan, Request

\* Back: nothing new comes within reach, and no code page at all while the
\* page that is left has a request under way.
LEMMA StepBack ==
  ASSUME IInv, Back
  PROVE  IInv'
<1>1. /\ pages \in Seq(Page) /\ Len(pages) \in Nat /\ Len(pages) > 1
      /\ Len(pages) <= MaxDepth /\ MaxDepth \in Nat
      /\ pages' = SubSeq(pages, 1, Len(pages) - 1)
      /\ DOMAIN pages = 1..Len(pages) /\ Top = pages[Len(pages)]
      /\ Top.kind # "signin" /\ Top.text \in Emails \union {None}
      /\ UNCHANGED <<registerEmail, accounts, hasty, resends>>
  BY Stack DEF IInv, Back, Page
<1>2. /\ pages' \in Seq(Page) /\ Len(pages') = Len(pages) - 1
      /\ DOMAIN pages' = 1..(Len(pages) - 1)
      /\ \A i \in 1..(Len(pages) - 1) : pages'[i] = pages[i]
  BY <1>1
<1>3. \A i \in DOMAIN pages' : CodeInReach(i)' => CodeInReach(i)
  BY <1>1, <1>2, SMTT(30) DEF CodeInReach, Reachable
<1>4. ASSUME NEW q \in Slots
      PROVE  /\ reqs'[q] \in Request
             /\ reqs'[q].pc = reqs[q].pc /\ reqs'[q].kind = reqs[q].kind
             /\ reqs'[q].to = reqs[q].to
             /\ reqs'[q].page <= Len(pages) - 1
             /\ IF reqs[q].page = Len(pages) THEN reqs'[q].page = 0
                                             ELSE reqs'[q].page = reqs[q].page
  <2>1. /\ reqs[q] \in Request /\ reqs[q].page \in 0..MaxDepth
        /\ reqs[q].page <= Len(pages)
    BY DEF IInv, TypeOK, Request
  <2>2. CASE reqs[q].page = Len(pages)
    <3>1. reqs'[q] = Orphan(reqs[q], Top.text)
      BY <2>2 DEF Back, Depth
    <3>2. /\ reqs'[q] \in Request /\ reqs'[q].pc = reqs[q].pc
          /\ reqs'[q].kind = reqs[q].kind /\ reqs'[q].page = 0
          /\ reqs'[q].to = reqs[q].to
      <4>1. Top.text \in Emails \union {None} /\ reqs[q] \in Request
        BY <1>1, <2>1
      <4>. QED BY <3>1, <4>1, Orphaned
    <3>. QED BY <1>1, <2>2, <3>2
  <2>3. CASE reqs[q].page # Len(pages)
    <3>1. reqs'[q] = reqs[q]
      BY <2>3 DEF Back, Depth
    <3>. QED BY <1>1, <2>1, <2>3, <3>1
  <2>. QED BY <2>2, <2>3
<1>5. reqs' \in [Slots -> Request]
  <2>1. reqs' = [q \in Slots |->
                   IF reqs[q].page = Depth THEN Orphan(reqs[q], Top.text) ELSE reqs[q]]
    BY DEF Back
  <2>. QED BY <1>4, <2>1
<1>6. TypeOK'
  BY <1>1, <1>2, <1>4, <1>5 DEF IInv, TypeOK
<1>7. Stacked'
  BY <1>1, <1>2 DEF IInv, Stacked
<1>8. ASSUME ~hasty'
      PROVE  /\ PagesOfEmail' /\ RequestsOfTop' /\ OneAtATime'
             /\ CodeForAccount' /\ ResendReachesShown' /\ OneCodeInReach'
  <2>1. /\ PagesOfEmail /\ RequestsOfTop /\ OneAtATime
        /\ CodeForAccount /\ ResendReachesShown /\ OneCodeInReach /\ ~hasty
    BY <1>1, <1>8 DEF IInv
  <2>2. OneAtATime' /\ ResendReachesShown' /\ CodeForAccount'
    BY <1>1, <1>2, <1>4, <2>1 DEF OneAtATime, ResendReachesShown, CodeForAccount
  <2>3. PagesOfEmail'
    BY <1>1, <1>2, <1>3, <2>1 DEF PagesOfEmail
  <2>4. ASSUME NEW q \in Slots, reqs'[q].pc # "idle", reqs'[q].kind # "signin"
        PROVE  reqs'[q].page = 0
    BY <1>1, <1>4, <2>1, <2>4, Stack DEF RequestsOfTop, IInv
  <2>5. ASSUME NEW q \in Slots, reqs'[q].pc # "idle",
               reqs'[q].kind \notin {"resend", "signin"}
        PROVE  NoCodeInReach'
    <3>1. CASE reqs[q].page = 0
      BY <1>2, <1>1, <1>3, <1>4, <2>1, <2>5, <3>1 DEF RequestsOfTop, NoCodeInReach
    <3>2. CASE reqs[q].page # 0
      <4>1. Top.kind \in {"signup", "otp"}
        BY <1>4, <2>1, <2>5, <3>2 DEF RequestsOfTop
      <4>2. CASE Top.kind = "signup"
        <5>1. NoCodeInReach
          BY <4>2, NoCodeUnder
        <5>. QED BY <1>1, <1>2, <1>3, <5>1 DEF NoCodeInReach
      <4>3. CASE Top.kind = "otp"
        <5>1. Len(pages) \in DOMAIN pages /\ CodeInReach(Len(pages))
          BY <1>1, <4>3 DEF CodeInReach, Reachable
        <5>2. \A i \in DOMAIN pages' : i \in DOMAIN pages /\ i # Len(pages)
          BY <1>1, <1>2
        <5>. QED BY <1>3, <2>1, <5>1, <5>2 DEF NoCodeInReach, OneCodeInReach
      <4>. QED BY <4>1, <4>2, <4>3
    <3>. QED BY <3>1, <3>2
  <2>6. ASSUME NEW q \in Slots, reqs'[q].pc # "idle", reqs'[q].kind = "signin"
        PROVE  /\ reqs'[q].page # 0
               /\ pages'[reqs'[q].page].kind = "signin"
               /\ pages'[reqs'[q].page].text = reqs'[q].to
               /\ NoCodeInReach'
    <3>1. /\ reqs[q].page # 0 /\ pages[reqs[q].page].kind = "signin"
          /\ pages[reqs[q].page].text = reqs[q].to /\ NoCodeInReach
      BY <1>4, <2>1, <2>6 DEF RequestsOfTop
    <3>2. reqs'[q].page = reqs[q].page /\ reqs'[q].page \in 1..(Len(pages) - 1)
      BY <1>1, <1>4, <3>1 DEF Request
    <3>3. NoCodeInReach'
      BY <1>1, <1>2, <1>3, <3>1 DEF NoCodeInReach
    <3>. QED BY <1>2, <1>4, <3>1, <3>2, <3>3
  <2>7. RequestsOfTop'
    BY <1>1, <1>4, <2>1, <2>4, <2>5, <2>6 DEF RequestsOfTop
  <2>8. OneCodeInReach'
    BY <1>1, <1>2, <1>3, <2>1 DEF OneCodeInReach
  <2>. QED BY <2>2, <2>3, <2>7, <2>8
<1>. QED BY <1>6, <1>7, <1>8 DEF IInv

\* Typing: the shopper who waits has no request under way.
LEMMA StepType ==
  ASSUME IInv, NEW email \in Emails, Type(email)
  PROVE  IInv'
<1>1. /\ pages \in Seq(Page) /\ Len(pages) \in Nat \ {0} /\ Depth = Len(pages)
      /\ DOMAIN pages = 1..Len(pages) /\ Top = pages[Len(pages)] /\ Top \in Page
      /\ Top.kind \in {"signin", "signup"} /\ hasty' = (hasty \/ Busy)
      /\ UNCHANGED <<registerEmail, reqs, accounts, resends>>
  BY Stack DEF IInv, Type
<1>2. [Top EXCEPT !.text = email] \in Page
      /\ [Top EXCEPT !.text = email].kind = Top.kind
  BY <1>1 DEF Page
<1>3. pages' = [pages EXCEPT ![Len(pages)] = [Top EXCEPT !.text = email]]
  BY <1>1 DEF Type
<1>4. /\ pages' \in Seq(Page) /\ Len(pages') = Len(pages)
      /\ DOMAIN pages' = DOMAIN pages
      /\ \A i \in DOMAIN pages : /\ pages'[i].kind = pages[i].kind
                                 /\ pages[i].kind = "otp" => pages'[i] = pages[i]
  BY <1>1, <1>2, <1>3
<1>5. TypeOK'
  BY <1>1, <1>4 DEF IInv, TypeOK, Busy
<1>6. Stacked'
  <2>1. ~hasty' => ~hasty
    BY <1>1
  <2>2. ASSUME NEW i \in DOMAIN pages
        PROVE  pages[i].kind = "signup" => i > 1 /\ pages[i - 1].kind = "signin"
    BY <2>1, <2>2 DEF IInv, Stacked
  <2>3. \A i \in DOMAIN pages : i > 1 => i - 1 \in DOMAIN pages
    BY <1>1
  <2>. QED BY <1>4, <2>2, <2>3 DEF Stacked
<1>7. ASSUME ~hasty'
      PROVE  /\ PagesOfEmail' /\ RequestsOfTop' /\ OneAtATime'
             /\ CodeForAccount' /\ ResendReachesShown' /\ OneCodeInReach'
  <2>1. /\ PagesOfEmail /\ CodeForAccount /\ ResendReachesShown /\ OneCodeInReach /\ ~hasty
        /\ \A q \in Slots : reqs'[q].pc = "idle"
    BY <1>1, <1>7 DEF IInv, Busy
  <2>2. \A i \in DOMAIN pages' : CodeInReach(i)' => CodeInReach(i)
    BY <1>4 DEF CodeInReach, Reachable
  <2>3. PagesOfEmail' /\ CodeForAccount' /\ ResendReachesShown'
    BY <1>1, <1>4, <2>1, <2>2
    DEF PagesOfEmail, CodeForAccount, ResendReachesShown, CodeInReach
  <2>4. RequestsOfTop' /\ OneAtATime'
    BY <2>1 DEF RequestsOfTop, OneAtATime
  <2>5. OneCodeInReach'
    BY <1>4, <2>1, <2>2 DEF OneCodeInReach
  <2>. QED BY <2>3, <2>4, <2>5
<1>. QED BY <1>5, <1>6, <1>7 DEF IInv

\* A tap sends one request; for a shopper who waits it is the only one.
LEMMA AskFacts ==
  ASSUME TypeOK, NEW q \in Slots,
         NEW kind \in {"signin", "register", "sendcode", "verify", "resend"},
         NEW to \in Emails \union {None}, Ask(q, kind, to)
  PROVE  /\ reqs' \in [Slots -> Request]
         /\ \A r \in Slots : reqs'[r].page <= Len(pages)
         /\ hasty' \in BOOLEAN
         /\ reqs'[q].pc = "sent" /\ reqs'[q].kind = kind
         /\ reqs'[q].page = Depth /\ reqs'[q].to = to
         /\ ~hasty' => ~hasty /\ \A r \in Slots \ {q} : reqs'[r].pc = "idle"
<1>. DEFINE new == Sent(kind, Depth, to)
<1>1. Depth \in 0..MaxDepth /\ Depth = Len(pages) /\ Len(pages) \in Nat
  BY Stack
<1>2. /\ new \in Request /\ new.pc = "sent" /\ new.kind = kind
      /\ new.page = Depth /\ new.to = to
  BY <1>1 DEF Sent, Request
<1>. HIDE DEF new
<1>3. reqs' = [reqs EXCEPT ![q] = new] /\ hasty' = (hasty \/ Busy)
  BY DEF Ask, new
<1>4. /\ reqs' \in [Slots -> Request] /\ reqs'[q] = new
      /\ \A r \in Slots \ {q} : reqs'[r] = reqs[r]
  BY <1>2, <1>3 DEF TypeOK
<1>5. \A r \in Slots : reqs'[r].page <= Len(pages)
  BY <1>1, <1>2, <1>4 DEF TypeOK
<1>6. hasty' \in BOOLEAN /\ (~hasty' => ~hasty /\ \A r \in Slots : reqs[r].pc = "idle")
  BY <1>3 DEF TypeOK, Busy
<1>. QED BY <1>2, <1>4, <1>5, <1>6

\* "Continue" and "Resend": the top page is the one that asks.
LEMMA StepTap ==
  ASSUME IInv, NEW q \in Slots, SignIn(q) \/ SignUp(q) \/ Verify(q) \/ Resend(q)
  PROVE  IInv'
<1>1. /\ pages \in Seq(Page) /\ Len(pages) \in Nat \ {0} /\ Depth = Len(pages)
      /\ DOMAIN pages = 1..Len(pages) /\ Top = pages[Len(pages)]
      /\ Top.text \in Emails \union {None} /\ registerEmail \in Emails \union {None}
      /\ UNCHANGED <<registerEmail, pages, accounts>>
  BY Stack DEF IInv, TypeOK, Page, SignIn, SignUp, Verify, Resend
<1>2. PICK kind \in {"signin", "register", "verify", "resend"}, to \in Emails \union {None} :
        /\ Ask(q, kind, to)
        /\ Top.kind = CASE kind = "signin" -> "signin"
                        [] kind = "register" -> "signup"
                        [] OTHER -> "otp"
        /\ kind \in {"signin", "register"} => to = Top.text
        /\ IF kind = "resend"
           THEN resends' = resends \union {[to |-> registerEmail, shown |-> Top.text]}
           ELSE resends' = resends
  BY <1>1 DEF SignIn, SignUp, Verify, Resend
<1>3. /\ reqs' \in [Slots -> Request]
      /\ \A r \in Slots : reqs'[r].page <= Len(pages)
      /\ hasty' \in BOOLEAN
      /\ reqs'[q].pc = "sent" /\ reqs'[q].kind = kind
      /\ reqs'[q].page = Depth /\ reqs'[q].to = to
      /\ ~hasty' => ~hasty /\ \A r \in Slots \ {q} : reqs'[r].pc = "idle"
  BY <1>2, AskFacts DEF IInv
<1>4. TypeOK'
  <2>1. resends' \subseteq [to : Emails \union {None}, shown : Emails \union {None}]
    BY <1>1, <1>2 DEF IInv, TypeOK
  <2>. QED BY <1>1, <1>3, <2>1 DEF IInv, TypeOK
<1>5. Stacked'
  BY <1>1, <1>3 DEF IInv, Stacked
<1>6. ASSUME ~hasty'
      PROVE  /\ PagesOfEmail' /\ RequestsOfTop' /\ OneAtATime'
             /\ CodeForAccount' /\ ResendReachesShown' /\ OneCodeInReach'
  <2>1. /\ PagesOfEmail /\ CodeForAccount /\ ResendReachesShown /\ OneCodeInReach
        /\ \A r \in Slots \ {q} : reqs'[r].pc = "idle"
    BY <1>3, <1>6 DEF IInv
  <2>2. PagesOfEmail' /\ CodeForAccount' /\ OneCodeInReach'
    BY <1>1, <1>3, <1>6, <2>1
    DEF PagesOfEmail, CodeForAccount, OneCodeInReach, CodeInReach, Reachable
  <2>3. ResendReachesShown'
    <3>1. kind = "resend" => Top.text = registerEmail
      BY <1>1, <1>2, <2>1 DEF PagesOfEmail, CodeInReach, Reachable
    <3>2. \A r \in resends : r.to = r.shown
      BY <1>3, <1>6, <2>1 DEF ResendReachesShown
    <3>3. \A r \in resends' : r.to = r.shown
      BY <1>2, <3>1, <3>2
    <3>. QED BY <3>3 DEF ResendReachesShown
  <2>4. OneAtATime'
    BY <2>1 DEF OneAtATime
  <2>5. kind = "signin" => NoCodeInReach'
    <3>1. kind = "signin" => NoCodeInReach
      BY <1>2, NoCodeUnder
    <3>. QED BY <1>1, <3>1 DEF NoCodeInReach, CodeInReach, Reachable
  <2>6. RequestsOfTop'
    BY <1>1, <1>2, <1>3, <2>1, <2>5 DEF RequestsOfTop, Depth, Top
  <2>. QED BY <2>2, <2>3, <2>4, <2>6
<1>. QED BY <1>4, <1>5, <1>6 DEF IInv

\* The shop answers, or the connection breaks.
LEMMA ServedRequest ==
  ASSUME NEW r \in Request, NEW answer \in {"ok", "unverified", "refused", "down"}
  PROVE  LET o == [r EXCEPT !.pc = answer] IN
         /\ o \in Request /\ o.pc = answer /\ o.kind = r.kind /\ o.page = r.page
         /\ o.to = r.to
  BY DEF Request

LEMMA StepShop ==
  ASSUME IInv, NEW q \in Slots, Serve(q) \/ Lose(q)
  PROVE  IInv'
<1>. DEFINE r == reqs[q]
<1>1. /\ UNCHANGED <<registerEmail, pages, hasty, resends>>
      /\ r.pc # "idle" /\ r \in Request /\ r.to \in Emails \union {None}
      /\ reqs \in [Slots -> Request] /\ r.page <= Len(pages)
      /\ accounts \subseteq Emails \union {None}
  BY DEF Serve, Lose, IInv, TypeOK, Request
<1>2. /\ accounts \subseteq accounts' /\ accounts' \subseteq Emails \union {None}
      /\ reqs' \in [Slots -> Request]
      /\ \A t \in Slots \ {q} : reqs'[t] = reqs[t]
      /\ \/ reqs'[q] = Idle
         \/ /\ reqs'[q].pc \in {"ok", "unverified", "refused", "down"}
            /\ reqs'[q].kind = r.kind /\ reqs'[q].page = r.page /\ reqs'[q].to = r.to
            /\ reqs'[q].pc = "ok" /\ r.kind = "register" => r.to \in accounts'
            /\ reqs'[q].pc = "unverified" => r.to \in accounts'
  <2>1. CASE Lose(q)
    <3>1. reqs' = [reqs EXCEPT ![q] = Idle] /\ accounts' = accounts
      BY <2>1 DEF Lose
    <3>. QED BY <1>1, <3>1, IdleRequest
  <2>2. CASE Serve(q)
    <3>1. PICK answer \in {"ok", "unverified", "refused", "down"} :
            /\ reqs' = [reqs EXCEPT ![q].pc = answer]
            /\ accounts' = IF answer = "ok" /\ r.kind = "register"
                           THEN accounts \union {r.to} ELSE accounts
            /\ answer = "unverified" => r.to \in accounts
      BY <2>2, Zenon DEF Serve
    <3>2. DEFINE o == [r EXCEPT !.pc = answer]
    <3>3. /\ o \in Request /\ o.pc = answer /\ o.kind = r.kind
          /\ o.page = r.page /\ o.to = r.to
      BY <1>1, ServedRequest, ZenonT(40)
    <3>4. reqs' = [reqs EXCEPT ![q] = o]
      BY <3>1
    <3>5. /\ accounts \subseteq accounts' /\ accounts' \subseteq Emails \union {None}
          /\ answer = "ok" /\ r.kind = "register" => r.to \in accounts'
          /\ answer = "unverified" => r.to \in accounts'
      BY <1>1, <3>1
    <3>. HIDE DEF o, r
    <3>. QED BY <1>1, <3>3, <3>4, <3>5 DEF r
  <2>. QED BY <2>1, <2>2
<1>3. \A t \in Slots : reqs'[t].page <= Len(pages)
  BY <1>1, <1>2, IdleRequest, Stack DEF IInv, TypeOK
<1>4. TypeOK'
  BY <1>1, <1>2, <1>3 DEF IInv, TypeOK
<1>5. Stacked'
  BY <1>1 DEF IInv, Stacked
<1>6. ASSUME ~hasty'
      PROVE  /\ PagesOfEmail' /\ RequestsOfTop' /\ OneAtATime'
             /\ CodeForAccount' /\ ResendReachesShown' /\ OneCodeInReach'
  <2>1. /\ PagesOfEmail /\ RequestsOfTop /\ OneAtATime
        /\ CodeForAccount /\ ResendReachesShown /\ OneCodeInReach /\ ~hasty
    BY <1>1, <1>6 DEF IInv
  <2>2. PagesOfEmail' /\ CodeForAccount' /\ ResendReachesShown' /\ OneCodeInReach'
    BY <1>1, <1>2, <2>1
    DEF PagesOfEmail, CodeForAccount, ResendReachesShown, OneCodeInReach, CodeInReach,
        Reachable
  <2>3. OneAtATime' /\ \A t \in Slots \ {q} : reqs'[t].pc = "idle"
    BY <1>1, <1>2, <2>1 DEF OneAtATime
  <2>4. RequestsOfTop'
    <3>. SUFFICES ASSUME reqs'[q].pc # "idle", reqs'[q] # Idle
         PROVE  RequestsOfTop'
      BY <2>3, IdleRequest DEF RequestsOfTop
    <3>. QED BY <1>1, <1>2, <2>1, <2>3
         DEF RequestsOfTop, Top, Depth, NoCodeInReach, CodeInReach, Reachable
  <2>. QED BY <2>2, <2>3, <2>4
<1>. QED BY <1>4, <1>5, <1>6 DEF IInv

\* What the answers need: the text they read, and the end of the request.
LEMMA TextOfType ==
  ASSUME TypeOK, NEW q \in Slots
  PROVE  TextOf(reqs[q]) \in Emails \union {None}
<1>1. /\ reqs[q] \in Request /\ reqs[q].page \in 0..MaxDepth
      /\ reqs[q].page <= Len(pages) /\ reqs[q].text \in Emails \union {None}
  BY DEF TypeOK, Request
<1>2. reqs[q].page # 0 => pages[reqs[q].page] \in Page
  BY <1>1, Stack
<1>. QED BY <1>1, <1>2 DEF TextOf, Page

LEMMA EndFacts ==
  ASSUME IInv, NEW q \in Slots, End(q), reqs[q].pc # "idle", hasty' = hasty,
         resends' = resends
  PROVE  /\ reqs' \in [Slots -> Request]
         /\ \A t \in Slots : reqs'[t].page <= Len(pages)
         /\ ~hasty' => RequestsOfTop' /\ OneAtATime' /\ ResendReachesShown'
<1>1. /\ reqs' = [reqs EXCEPT ![q] = Idle] /\ reqs \in [Slots -> Request]
      /\ \A t \in Slots : reqs[t].page <= Len(pages)
  BY DEF End, IInv, TypeOK
<1>2. /\ reqs' \in [Slots -> Request] /\ reqs'[q] = Idle
      /\ \A t \in Slots \ {q} : reqs'[t] = reqs[t]
  BY <1>1, IdleRequest
<1>3. \A t \in Slots : reqs'[t].page <= Len(pages)
  BY <1>1, <1>2, IdleRequest, Stack DEF IInv
<1>4. ASSUME ~hasty' PROVE RequestsOfTop' /\ OneAtATime' /\ ResendReachesShown'
  <2>1. OneAtATime /\ ResendReachesShown
    BY <1>4 DEF IInv
  <2>2. \A t \in Slots : reqs'[t].pc = "idle"
    BY <1>2, <2>1, IdleRequest DEF OneAtATime
  <2>3. RequestsOfTop' /\ OneAtATime'
    BY <2>2, IdleRequest DEF RequestsOfTop, OneAtATime, Idle
  <2>. QED BY <2>1, <2>3 DEF ResendReachesShown
<1>. QED BY <1>2, <1>3, <1>4

\* An answer that opens no page only touches the preference when no code
\* page is within reach.
LEMMA EndStay ==
  ASSUME IInv, NEW q \in Slots, End(q), reqs[q].pc # "idle",
         UNCHANGED <<pages, accounts, hasty, resends>>,
         registerEmail' \in Emails \union {None},
         ~hasty /\ registerEmail' # registerEmail => NoCodeInReach
  PROVE  IInv'
<1>1. /\ reqs' \in [Slots -> Request]
      /\ \A t \in Slots : reqs'[t].page <= Len(pages)
      /\ ~hasty' => RequestsOfTop' /\ OneAtATime' /\ ResendReachesShown'
  BY EndFacts
<1>2. TypeOK'
  BY <1>1 DEF IInv, TypeOK
<1>3. Stacked'
  BY DEF IInv, Stacked
<1>4. ~hasty' => PagesOfEmail' /\ CodeForAccount' /\ OneCodeInReach'
  BY DEF IInv, PagesOfEmail, CodeForAccount, OneCodeInReach, NoCodeInReach, CodeInReach,
     Reachable
<1>. QED BY <1>1, <1>2, <1>3, <1>4 DEF IInv

\* One that opens a page: the code page of a registered account when there
\* is no other in reach, a sign-in page, or one that leaves the preference
\* alone.
LEMMA EndPush ==
  ASSUME IInv, NEW q \in Slots, End(q), reqs[q].pc # "idle",
         NEW page \in Page, Push(page), page.kind # "signup",
         UNCHANGED <<accounts, hasty, resends>>,
         registerEmail' \in Emails \union {None},
         ~hasty /\ page.kind = "otp" =>
           /\ NoCodeInReach /\ page.text \in accounts
           /\ page.text = registerEmail',
         ~hasty /\ page.kind \notin {"otp", "signin"} => registerEmail' = registerEmail
  PROVE  IInv'
<1>1. /\ reqs' \in [Slots -> Request]
      /\ \A t \in Slots : reqs'[t].page <= Len(pages)
      /\ ~hasty' => RequestsOfTop' /\ OneAtATime' /\ ResendReachesShown'
  BY EndFacts
<1>2. /\ pages' \in Seq(Page) /\ Len(pages') \in 1..MaxDepth
      /\ DOMAIN pages' = 1..(Len(pages) + 1) /\ Len(pages') = Len(pages) + 1
      /\ \A i \in DOMAIN pages : pages'[i] = pages[i]
      /\ pages'[Len(pages) + 1] = page
      /\ \A i \in DOMAIN pages : Reachable(i)' => Reachable(i)
      /\ page.kind = "signin" => \A i \in DOMAIN pages : ~Reachable(i)'
  BY PushFacts DEF IInv
<1>3. DOMAIN pages = 1..Len(pages) /\ Len(pages) \in Nat \ {0}
      /\ Top = pages[Len(pages)]
  BY Stack DEF IInv
<1>4. TypeOK'
  <2>1. ASSUME NEW t \in Slots PROVE reqs'[t].page <= Len(pages')
    <3>1. reqs'[t].page \in 0..MaxDepth /\ reqs'[t].page <= Len(pages)
      BY <1>1 DEF Request
    <3>. QED BY <1>2, <1>3, <3>1, DepthAssumption
  <2>. QED BY <1>1, <1>2, <2>1 DEF IInv, TypeOK
<1>5. Stacked'
  BY <1>2, <1>3 DEF IInv, Stacked
<1>6. ASSUME ~hasty' PROVE PagesOfEmail' /\ CodeForAccount' /\ OneCodeInReach'
  <2>1. PagesOfEmail /\ CodeForAccount /\ OneCodeInReach /\ ~hasty
    BY <1>6 DEF IInv
  <2>2. CodeForAccount'
    BY <1>2, <1>3, <2>1 DEF CodeForAccount
  <2>3. ASSUME NEW i \in DOMAIN pages', CodeInReach(i)'
        PROVE  /\ pages'[i].text = registerEmail'
               /\ IF page.kind = "otp" THEN i = Len(pages) + 1
                  ELSE i \in DOMAIN pages /\ CodeInReach(i)
    <3>1. CASE i = Len(pages) + 1
      BY <1>2, <2>1, <2>3, <3>1 DEF CodeInReach
    <3>2. CASE i \in DOMAIN pages
      <4>1. CodeInReach(i) /\ page.kind # "signin" /\ pages'[i] = pages[i]
        BY <1>2, <2>3, <3>2 DEF CodeInReach
      <4>2. page.kind # "otp"
        BY <2>1, <3>2, <4>1 DEF NoCodeInReach
      <4>. QED BY <2>1, <3>2, <4>1, <4>2 DEF PagesOfEmail
    <3>. QED BY <1>2, <1>3, <3>1, <3>2
  <2>4. OneCodeInReach'
    BY <2>1, <2>3 DEF OneCodeInReach
  <2>. QED BY <2>2, <2>3, <2>4 DEF PagesOfEmail
<1>. QED BY <1>1, <1>4, <1>5, <1>6 DEF IInv

\* The registration is answered: the code is asked for under the e-mail that
\* was registered, since the field has not been touched.
LEMMA StepAnswerRegister ==
  ASSUME IInv, NEW q \in Slots, AnswerRegister(q)
  PROVE  IInv'
<1>. DEFINE r == reqs[q]
<1>1. /\ r \in Request /\ r.pc \notin {"idle", "sent"} /\ r.kind = "register"
      /\ UNCHANGED <<registerEmail, pages, accounts, hasty, resends>>
  BY DEF AnswerRegister, Answered, IInv, TypeOK
<1>2. CASE r.pc = "ok" /\ r.page # 0
  <2>. DEFINE new == Sent("sendcode", r.page, TextOf(r))
  <2>1. reqs' = [reqs EXCEPT ![q] = new] /\ reqs \in [Slots -> Request]
    BY <1>2 DEF AnswerRegister, IInv, TypeOK
  <2>2. /\ new \in Request /\ new.pc = "sent" /\ new.kind = "sendcode"
        /\ new.page = r.page /\ new.to = TextOf(r)
    <3>1. TextOf(r) \in Emails \union {None} /\ r.page \in 0..MaxDepth
      BY <1>1, TextOfType DEF IInv, Request
    <3>. QED BY <3>1 DEF Sent, Request
  <2>. HIDE DEF new
  <2>3. /\ reqs' \in [Slots -> Request] /\ reqs'[q] = new
        /\ \A t \in Slots \ {q} : reqs'[t] = reqs[t]
    BY <2>1, <2>2
  <2>4. TypeOK' /\ Stacked'
    BY <1>1, <2>2, <2>3 DEF IInv, TypeOK, Stacked
  <2>5. ASSUME ~hasty'
        PROVE  /\ PagesOfEmail' /\ RequestsOfTop' /\ OneAtATime'
               /\ CodeForAccount' /\ ResendReachesShown' /\ OneCodeInReach'
    <3>1. /\ PagesOfEmail /\ RequestsOfTop /\ OneAtATime
          /\ CodeForAccount /\ ResendReachesShown /\ OneCodeInReach
      BY <1>1, <2>5 DEF IInv
    <3>2. OneAtATime' /\ \A t \in Slots \ {q} : reqs'[t].pc = "idle"
      BY <1>1, <2>3, <3>1 DEF OneAtATime
    <3>3. PagesOfEmail' /\ CodeForAccount' /\ ResendReachesShown' /\ OneCodeInReach'
      BY <1>1, <3>1
      DEF PagesOfEmail, CodeForAccount, ResendReachesShown, OneCodeInReach, CodeInReach,
          Reachable
    <3>4. r.page = Depth /\ Top.kind = "signup" /\ Top.text = r.to /\ r.to \in accounts
      BY <1>1, <1>2, <3>1 DEF RequestsOfTop
    <3>5. TextOf(r) = r.to
      BY <1>2, <3>4 DEF TextOf, Top
    <3>6. RequestsOfTop'
      BY <1>1, <1>2, <2>2, <2>3, <3>2, <3>4, <3>5 DEF RequestsOfTop, Top, Depth
    <3>. QED BY <3>1, <3>2, <3>3, <3>6
  <2>. QED BY <2>4, <2>5 DEF IInv
<1>3. CASE ~(r.pc = "ok" /\ r.page # 0)
  <2>1. End(q)
    BY <1>3 DEF AnswerRegister, End
  <2>. QED BY <1>1, <2>1, EndStay DEF IInv, TypeOK
<1>. QED BY <1>2, <1>3

\* The sign-in is answered: no code page is in reach, wherever the shopper
\* has gone since, and the field still holds the account's e-mail.
LEMMA StepAnswerSignIn ==
  ASSUME IInv, NEW q \in Slots, AnswerSignIn(q)
  PROVE  IInv'
<1>. DEFINE r == reqs[q]
<1>1. /\ r.pc # "idle" /\ r.kind = "signin" /\ End(q)
      /\ registerEmail' = (IF r.pc = "unverified" THEN TextOf(r) ELSE registerEmail)
      /\ UNCHANGED <<accounts, hasty, resends>>
      /\ CASE r.pc = "ok" -> Push(Plain("home"))
           [] r.pc = "unverified" -> Push([kind |-> "otp", text |-> TextOf(r)])
           [] OTHER -> UNCHANGED pages
  BY DEF AnswerSignIn, Answered
<1>2. TextOf(r) \in Emails \union {None} /\ registerEmail \in Emails \union {None}
  BY TextOfType DEF IInv, TypeOK
<1>3. CASE r.pc = "ok"
  <2>1. Plain("home") \in Page /\ Plain("home").kind = "home"
    BY PlainPage
  <2>2. Push(Plain("home")) /\ registerEmail' = registerEmail
    BY <1>1, <1>3
  <2>. QED BY <1>1, <1>2, <2>1, <2>2, EndPush
<1>4. CASE r.pc = "unverified"
  <2>. DEFINE page == [kind |-> "otp", text |-> TextOf(r)]
  <2>1. page \in Page /\ page.kind = "otp" /\ page.text = TextOf(r)
    BY <1>2 DEF Page
  <2>2. Push(page) /\ registerEmail' = TextOf(r)
    BY <1>1, <1>4
  <2>3. ASSUME ~hasty PROVE NoCodeInReach /\ TextOf(r) \in accounts
    <3>1. /\ r.page # 0 /\ pages[r.page].text = r.to /\ r.to \in accounts
          /\ NoCodeInReach
      BY <1>1, <1>4, <2>3 DEF IInv, RequestsOfTop
    <3>. QED BY <3>1 DEF TextOf
  <2>. HIDE DEF page
  <2>. QED BY <1>1, <1>2, <2>1, <2>2, <2>3, EndPush
<1>5. CASE r.pc \notin {"ok", "unverified"}
  <2>1. UNCHANGED pages /\ registerEmail' = registerEmail
    BY <1>1, <1>5
  <2>. QED BY <1>1, <1>2, <2>1, EndStay
<1>. QED BY <1>3, <1>4, <1>5

LEMMA StepAnswerSendCode ==
  ASSUME IInv, NEW q \in Slots, AnswerSendCode(q)
  PROVE  IInv'
<1>. DEFINE r == reqs[q]
<1>1. /\ r.pc # "idle" /\ r.kind = "sendcode" /\ End(q)
      /\ registerEmail' = TextOf(r) /\ UNCHANGED <<accounts, hasty, resends>>
      /\ IF r.page # 0 THEN Push([kind |-> "otp", text |-> TextOf(r)])
                       ELSE UNCHANGED pages
  BY DEF AnswerSendCode, Answered
<1>2. TextOf(r) \in Emails \union {None}
  BY TextOfType DEF IInv
<1>3. CASE r.page = 0
  <2>1. ~hasty => NoCodeInReach
    BY <1>1, <1>3 DEF IInv, RequestsOfTop
  <2>. QED BY <1>1, <1>2, <1>3, <2>1, EndStay
<1>4. CASE r.page # 0
  <2>. DEFINE page == [kind |-> "otp", text |-> TextOf(r)]
  <2>1. page \in Page /\ page.kind = "otp" /\ page.text = TextOf(r)
    BY <1>2 DEF Page
  <2>2. Push(page)
    BY <1>1, <1>4
  <2>3. ASSUME ~hasty PROVE NoCodeInReach /\ TextOf(r) \in accounts
    <3>1. /\ r.page = Depth /\ Top.kind = "signup" /\ Top.text = r.to
          /\ r.to \in accounts
      BY <1>1, <1>4, <2>3 DEF IInv, RequestsOfTop
    <3>. QED BY <1>4, <3>1, NoCodeUnder DEF TextOf, Top
  <2>. HIDE DEF page
  <2>. QED BY <1>1, <1>2, <2>1, <2>2, <2>3, EndPush
<1>. QED BY <1>3, <1>4

LEMMA StepAnswerVerify ==
  ASSUME IInv, NEW q \in Slots, AnswerVerify(q)
  PROVE  IInv'
<1>. DEFINE r == reqs[q]
<1>1. /\ r.pc # "idle" /\ r.kind = "verify" /\ End(q)
      /\ registerEmail' = (IF r.pc = "ok" THEN None ELSE registerEmail)
      /\ registerEmail' \in Emails \union {None}
      /\ UNCHANGED <<accounts, hasty, resends>>
      /\ IF r.pc = "ok" /\ r.page # 0 THEN Push(Plain("signin")) ELSE UNCHANGED pages
  BY DEF AnswerVerify, Answered, IInv, TypeOK
<1>2. CASE r.pc = "ok" /\ r.page # 0
  <2>1. Plain("signin") \in Page /\ Plain("signin").kind = "signin"
    BY PlainPage
  <2>. QED BY <1>1, <1>2, <2>1, EndPush
<1>3. CASE ~(r.pc = "ok" /\ r.page # 0)
  <2>1. ~hasty /\ r.page = 0 => NoCodeInReach
    BY <1>1 DEF IInv, RequestsOfTop
  <2>. QED BY <1>1, <1>3, <2>1, EndStay
<1>. QED BY <1>2, <1>3

LEMMA StepAnswerResend ==
  ASSUME IInv, NEW q \in Slots, AnswerResend(q)
  PROVE  IInv'
<1>1. /\ reqs[q].pc # "idle" /\ End(q)
      /\ UNCHANGED <<registerEmail, accounts, hasty, resends>>
      /\ registerEmail \in Emails \union {None}
      /\ Push(Plain("error")) \/ UNCHANGED pages
  BY DEF AnswerResend, Answered, IInv, TypeOK
<1>2. CASE Push(Plain("error"))
  <2>1. Plain("error") \in Page /\ Plain("error").kind = "error"
    BY PlainPage
  <2>. QED BY <1>1, <1>2, <2>1, EndPush
<1>3. CASE UNCHANGED pages
  BY <1>1, <1>3, EndStay
<1>. QED BY <1>1, <1>2, <1>3

\* A restart keeps the preference and opens the home page.
LEMMA StepRestart ==
  ASSUME IInv, Restart
  PROVE  IInv'
<1>1. /\ pages' = <<Plain("home")>> /\ Plain("home") \in Page
      /\ Plain("home").kind = "home"
      /\ UNCHANGED <<registerEmail, accounts, hasty, resends>>
  BY PlainPage DEF Restart
<1>2. /\ pages' \in Seq(Page) /\ Len(pages') = 1 /\ DOMAIN pages' = {1}
      /\ pages'[1].kind = "home"
  BY <1>1
<1>3. reqs' = [q \in Slots |-> Idle] /\ \A q \in Slots : reqs'[q] = Idle
  BY DEF Restart
<1>4. TypeOK'
  <2>1. reqs' \in [Slots -> Request] /\ \A q \in Slots : reqs'[q].page <= Len(pages')
    BY <1>2, <1>3, IdleRequest
  <2>. QED BY <1>1, <1>2, <2>1, DepthAssumption DEF IInv, TypeOK
<1>5. Stacked' /\ OneCodeInReach' /\ PagesOfEmail' /\ CodeForAccount'
  BY <1>2 DEF Stacked, OneCodeInReach, PagesOfEmail, CodeInReach, CodeForAccount
<1>6. RequestsOfTop' /\ OneAtATime'
  BY <1>3, IdleRequest DEF RequestsOfTop, OneAtATime
<1>7. ~hasty' => ResendReachesShown'
  BY <1>1 DEF IInv, ResendReachesShown
<1>. QED BY <1>4, <1>5, <1>6, <1>7 DEF IInv

-----------------------------------------------------------------------------
LEMMA Inductive == IInv /\ [Next]_vars => IInv'
<1>. SUFFICES ASSUME IInv, [Next]_vars PROVE IInv'
  OBVIOUS
<1>1. CASE OpenSignIn \/ GoHome \/ OpenSignUp
  BY <1>1, StepPlainPush
<1>2. CASE Back
  BY <1>2, StepBack
<1>3. CASE Restart
  BY <1>3, StepRestart
<1>4. ASSUME NEW email \in Emails, Type(email) PROVE IInv'
  BY <1>4, StepType
<1>5. ASSUME NEW q \in Slots, SignIn(q) \/ SignUp(q) \/ Verify(q) \/ Resend(q) PROVE IInv'
  BY <1>5, StepTap
<1>6. ASSUME NEW q \in Slots, Serve(q) \/ Lose(q) PROVE IInv'
  BY <1>6, StepShop
<1>7. ASSUME NEW q \in Slots, AnswerRegister(q) PROVE IInv'
  BY <1>7, StepAnswerRegister
<1>8. ASSUME NEW q \in Slots, AnswerSendCode(q) PROVE IInv'
  BY <1>8, StepAnswerSendCode
<1>9. ASSUME NEW q \in Slots, AnswerVerify(q) PROVE IInv'
  BY <1>9, StepAnswerVerify
<1>10. ASSUME NEW q \in Slots, AnswerResend(q) PROVE IInv'
  BY <1>10, StepAnswerResend
<1>11. ASSUME NEW q \in Slots, AnswerSignIn(q) PROVE IInv'
  BY <1>11, StepAnswerSignIn
<1>12. CASE UNCHANGED vars
  BY <1>12 DEF vars, IInv, TypeOK, Stacked, PagesOfEmail, RequestsOfTop, OneAtATime,
     CodeForAccount, ResendReachesShown, OneCodeInReach, NoCodeInReach, CodeInReach,
     Reachable, Top, Depth
<1>. QED
  BY <1>1, <1>2, <1>3, <1>4, <1>5, <1>6, <1>7, <1>8, <1>9, <1>10, <1>11,
     <1>12 DEF Next

\* The invariant of the registration: the shape of the stack, and for a
\* shopper who waits what lies within reach and what is under way.
THEOREM Invariance == Spec => []IInv
<1>. QED BY InitInv, Inductive, PTL DEF Spec

\* A code page belongs to a registered account, if the form is left alone.
THEOREM CodePageOfAccount == Spec => []CodeForAccount
<1>1. IInv => CodeForAccount
  BY DEF IInv, CodeForAccount
<1>. QED BY <1>1, Invariance, PTL

\* Another code goes to the e-mail the page verifies, for the same shopper.
THEOREM ResendToShown == Spec => []ResendReachesShown
<1>1. IInv => ResendReachesShown
  BY DEF IInv, ResendReachesShown
<1>. QED BY <1>1, Invariance, PTL
=============================================================================
