--------------------------- MODULE Account_proofs ----------------------------
(***************************************************************************)
(* Two pages whose contents are fetched: "My Account" (Profile) and a page *)
(* of products (Catalogue).  They share no state; each has a section.      *)
(*                                                                         *)
(* For any customers, depth of the stack, and number of saves under way,   *)
(* taps and faults: a change of password carries the e-mail of its token   *)
(* (MailInv: the preference follows the account, unless it was renamed),   *)
(* the form that is shown is the token's (OwnInv: so is every form that    *)
(* Back can come to, see Reached), and accounts say what was meant         *)
(* (MeantInv: those forms do, but for what was typed in, and the shop      *)
(* does, but for the one save under way).                                  *)
(*                                                                         *)
(* For any products, and any number of requests, taps and faults: the      *)
(* marks that a page of products shows when nothing is under way are the   *)
(* wishlist.  While no heart was tapped during a request, at most one      *)
(* request of the page is under way (Single); so whatever the shop has     *)
(* answered is still true, and what is shown is, when nothing is under way *)
(* (Fresh).                                                                *)
(***************************************************************************)
EXTENDS Profile, Catalogue, SequenceTheorems, TLAPS

-----------------------------------------------------------------------------
(* The invariant of the account page                                       *)

AccPage == {Plain(k) : k \in PlainKinds} \union ProfilePage \union FormPage

Save(q) == Busy(q) /\ reqs[q].kind = "save"

\* The form is validated.
Filled == \A q \in Slots : Save(q) => reqs[q].text \in [Fields -> Values]

MailInv == token \notin renamed \union {None} => mail = shop[token]["email"]

\* The kinds of pages Back takes off.
Popped == {"home", "dialog", "password", "error"}

\* The forms that are shown, or come up again by nothing but Back.
Reached(ps) == {k \in 1..Len(ps) : /\ ps[k].kind = "form"
                                   /\ \A j \in (k + 1)..Len(ps) : ps[j].kind \in Popped}

OnProfile(ps) == \A k \in 1..Len(ps) : ps[k].kind = "form" => k > 1 /\ ps[k - 1].kind = "profile"

OwnInv ==
  ~hasty =>
    /\ \A k \in Reached(pages) : pages[k].owner = token
    /\ \A q \in Slots : Save(q) => Top.kind = "form" /\ reqs[q].page = Depth
    /\ \A q, r \in Slots : Save(q) /\ Save(r) => q = r

\* A form says what its customer means, but for what has been typed.
FormOk(p, said) ==
  /\ p.typed # Blank => p.profile = Over /\ p.get = Over
  /\ \A f \in Fields : p.text[f] # None =>
       p.text[f] = IF p.typed[f] = None THEN said[f] ELSE p.typed[f]
  /\ p.profile.pc = "answered" => p.profile.text = said
  /\ p.get.pc = "answered" => p.get.text = said

Quiet == ~hasty /\ ~early /\ ~dead /\ ~faulty
Carries(q, c) == Save(q) /\ reqs[q].pc = "sent" /\ reqs[q].as = c

MeantInv ==
  Quiet =>
    /\ \A k \in Reached(pages) :
         pages[k].owner # None => FormOk(pages[k], meant[pages[k].owner])
    /\ \A q \in Slots, c \in Customers : Carries(q, c) =>
         /\ reqs[q].text = meant[c] /\ Top.owner = c
         /\ shop[c] = meant[c] \/ (Top.profile = Over /\ Top.get = Over)
    /\ \A c \in Customers : shop[c] = meant[c] \/ \E q \in Slots : Carries(q, c)

AccInv ==
  /\ TypeOK /\ Filled
  /\ MailInv /\ PasswordByOwnEmail
  /\ OnProfile(pages) /\ OwnInv /\ MeantInv

-----------------------------------------------------------------------------
(* Pages and requests                                                      *)

LEMMA NoneFacts == None \notin Values /\ Customers \subseteq Values
  BY ValuesAssumption DEF Values

LEMMA FetchKinds ==
  \A x \in Fetch : /\ x.pc \in {"sent", "over", "answered"}
                   /\ x = Sent <=> x.pc = "sent"
                   /\ x = Over <=> x.pc = "over"
                   /\ x.pc = "answered" => x.text \in [Fields -> Values]
  BY DEF Fetch, Sent, Over, Account

LEMMA AccPageKinds ==
  /\ \A p \in AccPage : p.kind \in PlainKinds \union {"profile", "form"}
  /\ \A p \in AccPage : p.kind = "form" <=> p \in FormPage
  /\ \A k \in PlainKinds : Plain(k) \in AccPage /\ Plain(k).kind = k
  /\ \A p \in AccPage : p.kind = "profile" => p \in ProfilePage
  /\ \A p \in ProfilePage : p \in AccPage /\ p.kind = "profile"
  /\ FormPage \subseteq AccPage
<1>1. \A k : Plain(k).kind = k
  BY DEF Plain
<1>2. \A p \in ProfilePage : p.kind = "profile"
  BY DEF ProfilePage
<1>3. \A p \in FormPage : p.kind = "form"
  BY DEF FormPage
<1>4. "form" \notin PlainKinds /\ "profile" \notin PlainKinds
  BY DEF PlainKinds
<1>5. \A p \in AccPage : \/ \E k \in PlainKinds : p = Plain(k)
                        \/ p \in ProfilePage
                        \/ p \in FormPage
  BY DEF AccPage
<1>6. /\ FormPage \subseteq AccPage
      /\ \A k \in PlainKinds : Plain(k) \in AccPage
      /\ ProfilePage \subseteq AccPage
  BY DEF AccPage
<1>. QED BY <1>1, <1>2, <1>3, <1>4, <1>5, <1>6

LEMMA ProfileFacts ==
  /\ NewProfilePage \in ProfilePage
  /\ \A p \in ProfilePage, b \in BOOLEAN : [p EXCEPT !.asked = b] \in ProfilePage
  BY DEF ProfilePage, NewProfilePage

LEMMA FormFacts ==
  ASSUME NEW p \in FormPage
  PROVE  /\ p.kind = "form" /\ p.owner \in Customers \union {None}
         /\ p.text \in Text /\ p.typed \in Text /\ p.profile \in Fetch /\ p.get \in Fetch
         /\ \A t \in Text : [p EXCEPT !.text = t] \in FormPage
         /\ \A t \in Text : [p EXCEPT !.typed = t] \in FormPage
         /\ \A x \in Fetch : [p EXCEPT !.profile = x] \in FormPage
         /\ \A x \in Fetch : [p EXCEPT !.get = x] \in FormPage
         /\ \A t, u \in Text : [p EXCEPT !.text = t, !.typed = u] \in FormPage
         /\ \A t \in Text, x \in Fetch : [p EXCEPT !.text = t, !.profile = x] \in FormPage
         /\ \A t \in Text, x \in Fetch : [p EXCEPT !.text = t, !.get = x] \in FormPage
  BY DEF FormPage

LEMMA AccFacts ==
  ASSUME TypeOK
  PROVE  /\ Depth = Len(pages) /\ Depth \in 1..MaxDepth /\ Depth \in Nat /\ MaxDepth \in Nat
         /\ Len(pages) \in Nat /\ Len(pages) \in 1..MaxDepth
         /\ pages \in Seq(AccPage) /\ DOMAIN pages = 1..Depth
         /\ \A k \in 1..Depth : pages[k] \in AccPage
         /\ Top = pages[Depth] /\ Top \in AccPage
         /\ \A q \in Slots : Busy(q) => reqs[q] \in Request
         /\ reqs \in [Slots -> {Idle} \union Request]
         /\ acts \in Nat /\ acts <= MaxActs /\ MaxActs \in Nat
         /\ token \in Customers \union {None} /\ mail \in Values \union {None}
<1>1. MaxDepth \in Nat /\ MaxActs \in Nat
  BY BoundsAssumption
<1>2. pages \in Seq(AccPage) /\ Len(pages) \in 1..MaxDepth
  BY DEF TypeOK, AccPage
<1>3. Len(pages) \in Nat /\ DOMAIN pages = 1..Len(pages)
      /\ \A k \in 1..Len(pages) : pages[k] \in AccPage
  BY <1>1, <1>2
<1>4. Top = pages[Len(pages)] /\ Depth = Len(pages)
  BY DEF Top, Last, Depth
<1>5. \A q \in Slots : Busy(q) => reqs[q] \in Request
  BY DEF TypeOK, Busy
<1>6. acts \in Nat /\ acts <= MaxActs
  BY <1>1 DEF TypeOK
<1>7. Top \in AccPage
  BY <1>1, <1>2, <1>3, <1>4
<1>. QED BY <1>1, <1>2, <1>3, <1>4, <1>5, <1>6, <1>7 DEF TypeOK

LEMMA AccPushFacts ==
  ASSUME NEW ps \in Seq(AccPage), NEW p \in AccPage
  PROVE  /\ Append(ps, p) \in Seq(AccPage) /\ Len(ps) \in Nat
         /\ Len(Append(ps, p)) = Len(ps) + 1
         /\ Append(ps, p)[Len(ps) + 1] = p
         /\ \A k \in 1..Len(ps) : Append(ps, p)[k] = ps[k]
  BY AppendProperties, LenProperties

LEMMA AccFrontFacts ==
  ASSUME TypeOK, Depth > 1
  PROVE  /\ Front(pages) \in Seq(AccPage) /\ Len(Front(pages)) = Depth - 1
         /\ \A k \in 1..(Depth - 1) : Front(pages)[k] = pages[k]
<1>1. /\ Depth = Len(pages) /\ Depth \in Nat /\ pages \in Seq(AccPage)
  BY AccFacts
<1>2. Front(pages) = SubSeq(pages, 1, Depth - 1)
  BY <1>1 DEF Front
<1>. QED BY <1>1, <1>2

LEMMA AccExceptFacts ==
  ASSUME TypeOK, NEW k \in 1..Depth, NEW p \in AccPage
  PROVE  /\ [pages EXCEPT ![k] = p] \in Seq(AccPage)
         /\ Len([pages EXCEPT ![k] = p]) = Depth
         /\ [pages EXCEPT ![k] = p][k] = p
         /\ \A j \in 1..Depth : j # k => [pages EXCEPT ![k] = p][j] = pages[j]
  BY AccFacts, ExceptSeq

LEMMA RequestFacts ==
  \A r \in Request : r # Idle
  BY DEF Request, Idle

\* What becomes of a request after its tap.
Like(r, r2) ==
  /\ r2.kind = r.kind /\ r2.as = r.as /\ r2.text = r.text /\ r2.pic = r.pic
  /\ r2.mail = r.mail /\ r2.page \in {0, r.page}
  /\ r2.pc = "sent" => r.pc = "sent"

Kept(q) == reqs'[q] # Idle => reqs[q] # Idle /\ Like(reqs[q], reqs'[q])

-----------------------------------------------------------------------------
(* The requests of a step                                                  *)

LEMMA OneRequest ==
  ASSUME TypeOK, Filled, NEW q \in Slots, NEW x, x = Idle \/ x \in Request,
         x # Idle /\ x.kind = "save" => x.text \in [Fields -> Values],
         reqs' = [reqs EXCEPT ![q] = x]
  PROVE  /\ reqs' \in [Slots -> {Idle} \union Request] /\ Filled'
         /\ reqs'[q] = x /\ \A r \in Slots : r # q => reqs'[r] = reqs[r]
<1>1. reqs \in [Slots -> {Idle} \union Request]
  BY AccFacts
<1>2. reqs'[q] = x /\ \A r \in Slots : r # q => reqs'[r] = reqs[r]
  BY <1>1
<1>3. reqs' \in [Slots -> {Idle} \union Request]
  BY <1>1
<1>. QED BY <1>2, <1>3 DEF Filled, Save, Busy

\* A request is answered by the shop.
LEMMA ServedFacts ==
  ASSUME TypeOK, Filled, NEW q \in Slots, Busy(q), NEW pc \in {"ok", "refused"},
         reqs' = [reqs EXCEPT ![q] = [reqs[q] EXCEPT !.pc = pc]]
  PROVE  /\ reqs' \in [Slots -> {Idle} \union Request] /\ Filled'
         /\ reqs'[q] # Idle /\ reqs'[q].pc = pc /\ \A r \in Slots : r # q => reqs'[r] = reqs[r]
         /\ reqs'[q].page = reqs[q].page
         /\ \A r \in Slots : Kept(r)
<1>. DEFINE x == [reqs[q] EXCEPT !.pc = pc]
<1>1. reqs[q] \in Request
  BY AccFacts
<1>2. /\ x \in Request /\ x.pc = pc /\ x.kind = reqs[q].kind /\ x.text = reqs[q].text
      /\ x.as = reqs[q].as /\ x.pic = reqs[q].pic /\ x.mail = reqs[q].mail
      /\ x.page = reqs[q].page
  BY <1>1 DEF Request
<1>3. x # Idle /\ Like(reqs[q], x) /\ \A r \in Slots : reqs[r] # Idle => Like(reqs[r], reqs[r])
  BY <1>2, RequestFacts DEF Like
<1>4. x.kind = "save" => x.text \in [Fields -> Values]
  BY <1>2 DEF Filled, Save
<1>. HIDE DEF x
<1>5. reqs' = [reqs EXCEPT ![q] = x]
  BY DEF x
<1>6. /\ reqs' \in [Slots -> {Idle} \union Request] /\ Filled'
      /\ reqs'[q] = x /\ \A r \in Slots : r # q => reqs'[r] = reqs[r]
  BY <1>2, <1>4, <1>5, OneRequest
<1>7. \A r \in Slots : Kept(r)
  BY <1>3, <1>6 DEF Kept, Busy
<1>. QED BY <1>2, <1>3, <1>6, <1>7

\* A request is over.
LEMMA EndedFacts ==
  ASSUME TypeOK, Filled, NEW q \in Slots, reqs' = [reqs EXCEPT ![q] = Idle]
  PROVE  /\ reqs' \in [Slots -> {Idle} \union Request] /\ Filled'
         /\ reqs'[q] = Idle /\ \A r \in Slots : r # q => reqs'[r] = reqs[r]
         /\ \A r \in Slots : Kept(r)
<1>1. /\ reqs' \in [Slots -> {Idle} \union Request] /\ Filled'
      /\ reqs'[q] = Idle /\ \A r \in Slots : r # q => reqs'[r] = reqs[r]
  BY OneRequest
<1>2. \A r \in Slots : reqs[r] # Idle => Like(reqs[r], reqs[r])
  BY DEF Like
<1>. QED BY <1>1, <1>2 DEF Kept

LEMMA SameRequests ==
  ASSUME TypeOK, Filled, UNCHANGED reqs
  PROVE  /\ reqs' \in [Slots -> {Idle} \union Request] /\ Filled'
         /\ \A r \in Slots : Kept(r)
  BY AccFacts DEF Filled, Save, Busy, Kept, Like

\* A page goes, and its requests with it.
LEMMA ForgetFacts ==
  ASSUME TypeOK, Filled
  PROVE  /\ Forget(Depth) \in [Slots -> {Idle} \union Request]
         /\ \A q \in Slots : /\ Forget(Depth)[q] # Idle => reqs[q] # Idle
                             /\ reqs[q] # Idle => Forget(Depth)[q] # Idle
                             /\ reqs[q] # Idle => /\ Like(reqs[q], Forget(Depth)[q])
                                                  /\ Forget(Depth)[q].pc = reqs[q].pc
<1>1. ASSUME NEW q \in Slots, reqs[q] # Idle
      PROVE  /\ Forget(Depth)[q] \in Request /\ Like(reqs[q], Forget(Depth)[q])
             /\ Forget(Depth)[q].pc = reqs[q].pc
  <2>1. reqs[q] \in Request /\ MaxDepth \in Nat
    BY <1>1, AccFacts DEF Busy
  <2>2. Forget(Depth)[q] = IF reqs[q].page = Depth THEN [reqs[q] EXCEPT !.page = 0] ELSE reqs[q]
    BY <1>1 DEF Forget, Busy
  <2>3. /\ [reqs[q] EXCEPT !.page = 0] \in Request
        /\ Like(reqs[q], [reqs[q] EXCEPT !.page = 0]) /\ Like(reqs[q], reqs[q])
        /\ [reqs[q] EXCEPT !.page = 0].pc = reqs[q].pc
    BY <2>1 DEF Request, Like
  <2>. QED BY <2>1, <2>2, <2>3
<1>2. ASSUME NEW q \in Slots, reqs[q] = Idle
      PROVE  Forget(Depth)[q] = Idle
  BY <1>2 DEF Forget, Busy
<1>3. Forget(Depth) \in [Slots -> {Idle} \union Request]
  <2>1. Forget(Depth) = [q \in Slots |-> Forget(Depth)[q]]
    BY DEF Forget
  <2>2. \A q \in Slots : Forget(Depth)[q] \in {Idle} \union Request
    BY <1>1, <1>2
  <2>. QED BY <2>1, <2>2
<1>. QED BY <1>1, <1>2, <1>3, RequestFacts

LEMMA ForgottenFacts ==
  ASSUME TypeOK, Filled, reqs' = Forget(Depth)
  PROVE  /\ reqs' \in [Slots -> {Idle} \union Request] /\ Filled'
         /\ \A r \in Slots : Kept(r)
<1>1. \A r \in Slots : Kept(r)
  BY ForgetFacts DEF Kept
<1>2. Filled'
  BY <1>1 DEF Filled, Save, Busy, Kept, Like
<1>. QED BY <1>1, <1>2, ForgetFacts

LEMMA DoneFacts ==
  ASSUME TypeOK, Filled, NEW q \in Slots, reqs' = Done(q)
  PROVE  /\ reqs' \in [Slots -> {Idle} \union Request] /\ Filled'
         /\ reqs'[q] = Idle /\ \A r \in Slots : Kept(r)
<1>1. /\ Forget(Depth) \in [Slots -> {Idle} \union Request]
      /\ \A r \in Slots : /\ Forget(Depth)[r] # Idle => reqs[r] # Idle
                          /\ reqs[r] # Idle => Like(reqs[r], Forget(Depth)[r])
  BY ForgetFacts
<1>2. reqs' = [Forget(Depth) EXCEPT ![q] = Idle]
  BY DEF Done
<1>3. /\ reqs' \in [Slots -> {Idle} \union Request] /\ reqs'[q] = Idle
      /\ \A r \in Slots : r # q => reqs'[r] = Forget(Depth)[r]
  BY <1>1, <1>2
<1>4. \A r \in Slots : Kept(r)
  BY <1>1, <1>3 DEF Kept
<1>5. Filled'
  BY <1>4 DEF Filled, Save, Busy, Kept, Like
<1>. QED BY <1>3, <1>4, <1>5

\* The process ends.
LEMMA NoRequests ==
  ASSUME reqs' = [q \in Slots |-> Idle]
  PROVE  /\ reqs' \in [Slots -> {Idle} \union Request] /\ Filled'
         /\ \A r \in Slots : Kept(r)
<1>1. \A r \in Slots : reqs'[r] = Idle
  OBVIOUS
<1>. QED BY <1>1 DEF Filled, Save, Busy, Kept

-----------------------------------------------------------------------------
(* Types                                                                   *)

LEMMA ActFacts ==
  ASSUME TypeOK, acts' = acts \/ Act
  PROVE  acts' \in 0..MaxActs
  BY AccFacts DEF Act

LEMMA AccTypes ==
  ASSUME AccInv,
         shop' \in [Customers -> Account],
         token' \in Customers \union {None}, mail' \in Values \union {None},
         file' \in {"none", "picked", "gone"},
         pages' \in Seq(AccPage), Len(pages') \in 1..MaxDepth,
         reqs' \in [Slots -> {Idle} \union Request],
         acts' = acts \/ Act,
         meant' \in [Customers -> Account], renamed' \subseteq Customers,
         faulty' \in BOOLEAN, hasty' \in BOOLEAN, early' \in BOOLEAN, dead' \in BOOLEAN
  PROVE  TypeOK'
<1>1. acts' \in 0..MaxActs
  BY ActFacts DEF AccInv
<1>. QED BY <1>1 DEF TypeOK, AccPage

\* A page on top of a stack that is as high as this one.
LEMMA HigherFacts ==
  ASSUME TypeOK, NEW ps \in Seq(AccPage), Len(ps) = Depth, NEW p \in AccPage,
         Depth < MaxDepth, pages' = Append(ps, p)
  PROVE  /\ pages' \in Seq(AccPage) /\ Len(pages') = Depth + 1
         /\ Len(pages') \in 1..MaxDepth
         /\ pages'[Depth + 1] = p /\ \A k \in 1..Depth : pages'[k] = ps[k]
         /\ Top' = p
<1>1. /\ pages' \in Seq(AccPage) /\ Len(pages') = Depth + 1 /\ pages'[Depth + 1] = p
      /\ \A k \in 1..Depth : pages'[k] = ps[k]
  BY AccPushFacts
<1>2. Top' = pages'[Len(pages')]
  BY DEF Top, Last
<1>3. Len(pages') \in 1..MaxDepth
  BY <1>1, AccFacts
<1>. QED BY <1>1, <1>2, <1>3

LEMMA PushFacts ==
  ASSUME TypeOK, NEW p \in AccPage, Push(p)
  PROVE  /\ pages' \in Seq(AccPage) /\ Len(pages') = Depth + 1
         /\ Len(pages') \in 1..MaxDepth
         /\ pages'[Depth + 1] = p /\ \A k \in 1..Depth : pages'[k] = pages[k]
         /\ Top' = p
<1>1. /\ Depth < MaxDepth /\ pages' = Append(pages, p) /\ pages \in Seq(AccPage)
      /\ Len(pages) = Depth
  BY AccFacts DEF Push
<1>. QED BY <1>1, HigherFacts

\* A page changes, somewhere in the stack.
LEMMA PageChanged ==
  ASSUME TypeOK, NEW k \in 1..Depth, NEW p \in AccPage, pages' = [pages EXCEPT ![k] = p]
  PROVE  /\ pages' \in Seq(AccPage) /\ Len(pages') = Depth /\ Len(pages') \in 1..MaxDepth
         /\ pages'[k] = p /\ \A j \in 1..Depth : j # k => pages'[j] = pages[j]
  BY AccFacts, AccExceptFacts

LEMMA BlankFacts == Blank \in Text /\ \A f \in Fields : Blank[f] = None
  BY DEF Blank, Text

LEMMA NewFormFacts ==
  ASSUME NEW c \in Customers \union {None}
  PROVE  [kind |-> "form", owner |-> c, text |-> Blank, typed |-> Blank,
          profile |-> Sent, get |-> Sent] \in FormPage
  BY BlankFacts DEF FormPage, Fetch

\* The pages a step can lead to.
LEMMA PagesStep ==
  ASSUME AccInv, Next
  PROVE  pages' \in Seq(AccPage) /\ Len(pages') \in 1..MaxDepth
<1>. USE DEF AccInv
<1>0. /\ pages \in Seq(AccPage) /\ Len(pages) \in 1..MaxDepth /\ Len(pages) = Depth
      /\ Depth \in Nat /\ MaxDepth \in Nat /\ DOMAIN pages = 1..Depth
      /\ Top = pages[Depth] /\ Top \in AccPage /\ Depth \in 1..Depth
  BY AccFacts
<1>. DEFINE Goal == pages' \in Seq(AccPage) /\ Len(pages') \in 1..MaxDepth
<1>1. ASSUME NEW p \in AccPage, Push(p) PROVE Goal
  BY <1>1, PushFacts
<1>2. ASSUME NEW k \in 1..Depth, NEW p \in AccPage, pages' = [pages EXCEPT ![k] = p] PROVE Goal
  BY <1>2, PageChanged
<1>3. ASSUME UNCHANGED pages PROVE Goal
  BY <1>0, <1>3
<1>4. ASSUME NEW ps \in Seq(AccPage), Len(ps) = Depth, NEW p \in AccPage, Depth < MaxDepth,
             pages' = Append(ps, p)
      PROVE  Goal
  BY <1>4, HigherFacts
<1>5. \A k \in PlainKinds : Plain(k) \in AccPage
  BY AccPageKinds
<1>6. FormPage \subseteq AccPage /\ ProfilePage \subseteq AccPage /\ NewProfilePage \in AccPage
  BY AccPageKinds, ProfileFacts
<1>. SUFFICES Goal
  OBVIOUS
<1>. HIDE DEF Goal
<1>7. CASE OpenHome \/ SignOut \/ OpenSignIn \/ OpenPassword
           \/ \E c \in Customers : SignIn(c)
  <2>1. \E k \in PlainKinds : Push(Plain(k))
    BY <1>7 DEF OpenHome, SignOut, OpenSignIn, OpenPassword, SignIn, PlainKinds
  <2>. QED BY <1>1, <1>5, <2>1
<1>8. CASE OpenProfile
  BY <1>1, <1>6, <1>8 DEF OpenProfile
<1>9. CASE OpenForm
  <2>1. token \in Customers \union {None}
    BY AccFacts
  <2>2. [kind |-> "form", owner |-> token, text |-> Blank, typed |-> Blank,
          profile |-> Sent, get |-> Sent] \in AccPage
    BY <2>1, NewFormFacts, AccPageKinds
  <2>. QED BY <1>1, <1>9, <2>2 DEF OpenForm
<1>10. ASSUME Pop PROVE Goal
  <2>1. Depth > 1 /\ pages' = Front(pages)
    BY <1>10 DEF Pop
  <2>. QED BY <1>0, <2>1, AccFrontFacts DEF Goal
<1>11. CASE Back
  <2>1. \/ Pop \/ Push(NewProfilePage) \/ Push(Plain("home"))
    BY <1>11 DEF Back
  <2>2. Plain("home") \in AccPage /\ NewProfilePage \in AccPage
    BY <1>5, <1>6 DEF PlainKinds
  <2>. QED BY <1>1, <1>10, <2>1, <2>2
<1>12. CASE Restart
  <2>1. pages' = <<Plain("home")>> /\ Plain("home") \in AccPage
    BY <1>5, <1>12 DEF Restart, PlainKinds
  <2>. QED BY <1>0, <2>1 DEF Goal
<1>13. ASSUME NEW f \in Fields, NEW v \in Others, Type(f, v) PROVE Goal
  <2>1. Top \in FormPage
    BY <1>0, <1>13, AccPageKinds DEF Type
  <2>2. /\ [Top.text EXCEPT ![f] = v] \in Text /\ [Top.typed EXCEPT ![f] = v] \in Text
    BY <2>1, FormFacts DEF Text, Values
  <2>3. [Top EXCEPT !.text = [Top.text EXCEPT ![f] = v],
                    !.typed = [Top.typed EXCEPT ![f] = v]] \in FormPage
    BY <2>1, <2>2, FormFacts
  <2>4. pages' = [pages EXCEPT ![Depth] =
            [Top EXCEPT !.text = [Top.text EXCEPT ![f] = v],
                        !.typed = [Top.typed EXCEPT ![f] = v]]]
    BY <1>13 DEF Type, SetTop
  <2>. QED BY <1>0, <1>2, <1>6, <2>3, <2>4
<1>14. ASSUME Saved PROVE Goal
  <2>1. Top \in FormPage /\ pages' = [pages EXCEPT ![Depth] = [Top EXCEPT !.typed = Blank]]
    BY <1>0, <1>14, AccPageKinds DEF Saved, SetTop
  <2>2. [Top EXCEPT !.typed = Blank] \in FormPage
    BY <2>1, FormFacts, BlankFacts
  <2>. QED BY <1>0, <1>2, <1>6, <2>1, <2>2
<1>15. ASSUME NEW q \in Slots, AnswerSave(q) PROVE Goal
  <2>1. \/ UNCHANGED pages
        \/ pages' = Append(Front(pages), Plain("home"))
        \/ Depth < MaxDepth /\ pages' = Append(pages, Plain("home"))
    BY <1>15 DEF AnswerSave
  <2>2. Plain("home") \in AccPage
    BY <1>5 DEF PlainKinds
  <2>3. ASSUME pages' = Append(Front(pages), Plain("home")) PROVE Goal
    <3>1. Front(pages) \in Seq(AccPage) /\ Len(Front(pages)) = Depth - 1
      <4>1. Front(pages) = SubSeq(pages, 1, Depth - 1)
        BY <1>0 DEF Front
      <4>. QED BY <1>0, <4>1
    <3>. QED BY <1>0, <2>2, <2>3, <3>1, AccPushFacts DEF Goal
  <2>. QED BY <1>0, <1>3, <1>4, <2>1, <2>2, <2>3
<1>16. ASSUME NEW k \in DOMAIN pages,
              ServeFetch(k) \/ LoseFetch(k) \/ FailFetch(k) \/ AnswerProfile(k) \/ AnswerGet(k)
       PROVE  Goal
  <2>1. k \in 1..Depth /\ pages[k] \in FormPage
    BY <1>0, <1>16, AccFacts, AccPageKinds
       DEF ServeFetch, LoseFetch, FailFetch, AnswerProfile, AnswerGet
  <2>2. CASE ServeFetch(k)
    <3>. DEFINE answer == [pc |-> "answered", text |-> shop[pages[k].owner]]
    <3>1. answer \in Fetch
      BY <2>1, <2>2, FormFacts DEF ServeFetch, TypeOK, Fetch
    <3>2. \/ pages' = [pages EXCEPT ![k] = [pages[k] EXCEPT !.profile = answer]]
          \/ pages' = [pages EXCEPT ![k] = [pages[k] EXCEPT !.get = answer]]
      BY <2>2 DEF ServeFetch
    <3>. HIDE DEF answer
    <3>. QED BY <1>2, <1>6, <2>1, <3>1, <3>2, FormFacts
  <2>3. Over \in Fetch
    BY DEF Fetch
  <2>4. CASE LoseFetch(k)
    <3>1. \/ pages' = [pages EXCEPT ![k] = [pages[k] EXCEPT !.profile = Over]]
          \/ pages' = [pages EXCEPT ![k] = [pages[k] EXCEPT !.get = Over]]
      BY <2>4 DEF LoseFetch
    <3>. QED BY <1>2, <1>6, <2>1, <2>3, <3>1, FormFacts
  <2>5. CASE FailFetch(k)
    <3>. DEFINE p == [pages[k] EXCEPT !.profile = Over]
    <3>1. /\ pages' = Append([pages EXCEPT ![k] = p], Plain("error")) /\ Depth < MaxDepth
      BY <2>5 DEF FailFetch
    <3>2. p \in AccPage /\ Plain("error") \in AccPage
      BY <1>5, <2>1, <2>3, FormFacts, AccPageKinds DEF PlainKinds
    <3>. HIDE DEF p
    <3>3. [pages EXCEPT ![k] = p] \in Seq(AccPage) /\ Len([pages EXCEPT ![k] = p]) = Depth
      BY <2>1, <3>2, AccExceptFacts
    <3>. QED BY <1>4, <3>1, <3>2, <3>3
  <2>6. CASE AnswerProfile(k)
    <3>1. pages' = [pages EXCEPT ![k] =
                      [pages[k] EXCEPT !.text = pages[k].profile.text, !.profile = Over]]
      BY <2>6 DEF AnswerProfile
    <3>2. pages[k].profile.text \in Text
      BY <2>1, <2>6, FormFacts, FetchKinds DEF AnswerProfile, Text
    <3>. QED BY <1>2, <1>6, <2>1, <2>3, <3>1, <3>2, FormFacts
  <2>7. CASE AnswerGet(k)
    <3>. DEFINE t == [pages[k].text EXCEPT !["name"] = pages[k].get.text["name"]]
    <3>1. pages' = [pages EXCEPT ![k] = [pages[k] EXCEPT !.text = t, !.get = Over]]
      BY <2>7 DEF AnswerGet
    <3>2. pages[k].get.text \in [Fields -> Values] /\ pages[k].text \in Text
      BY <2>1, <2>7, FormFacts, FetchKinds DEF AnswerGet
    <3>3. t \in Text
      BY <3>2 DEF Text, Fields
    <3>. HIDE DEF t
    <3>. QED BY <1>2, <1>6, <2>1, <2>3, <3>1, <3>3, FormFacts
  <2>. QED BY <1>16, <2>2, <2>4, <2>5, <2>6, <2>7
<1>17. CASE Pick \/ RemovePicture
            \/ \E q \in Slots : TapPassword(q) \/ ServeSave(q) \/ ServePassword(q) \/ Refuse(q)
                                \/ AnswerPassword(q) \/ Lose(q)
  BY <1>3, <1>17 DEF Pick, RemovePicture, TapPassword, ServeSave, ServePassword, Refuse,
                     AnswerPassword, Lose
<1>18. CASE TapSaveRemoved \/ \E q \in Slots : TapSave(q)
  BY <1>14, <1>18 DEF TapSaveRemoved, TapSave
<1>19. CASE OpenDialog
  <2>1. /\ Top \in ProfilePage /\ pages' = [pages EXCEPT ![Depth] = [Top EXCEPT !.asked = TRUE]]
    BY <1>0, <1>19, AccPageKinds DEF OpenDialog, Menu
  <2>2. [Top EXCEPT !.asked = TRUE] \in AccPage
    BY <1>6, <2>1, ProfileFacts
  <2>. QED BY <1>0, <1>2, <2>1, <2>2
<1>20. ASSUME NEW k \in DOMAIN pages, ShowDialog(k) PROVE Goal
  <2>. DEFINE p == [pages[k] EXCEPT !.asked = FALSE]
  <2>1. /\ k \in 1..Depth /\ Depth < MaxDepth
        /\ \E kind \in {"dialog", "error"} : pages' = Append([pages EXCEPT ![k] = p], Plain(kind))
    BY <1>0, <1>20 DEF ShowDialog
  <2>2. p \in AccPage
    BY <1>6, <1>20, <2>1, AccFacts, AccPageKinds, ProfileFacts DEF ShowDialog
  <2>. HIDE DEF p
  <2>3. [pages EXCEPT ![k] = p] \in Seq(AccPage) /\ Len([pages EXCEPT ![k] = p]) = Depth
    BY <2>1, <2>2, AccExceptFacts
  <2>4. \A kind \in {"dialog", "error"} : Plain(kind) \in AccPage
    BY <1>5 DEF PlainKinds
  <2>. QED BY <1>4, <2>1, <2>3, <2>4
<1>. QED BY ONLY Next, <1>7, <1>8, <1>9, <1>11, <1>12, <1>13, <1>15, <1>16, <1>17, <1>18,
                <1>19, <1>20 DEF Next

\* What "Continue" sends.
LEMMA TapSaveFacts ==
  ASSUME AccInv, NEW q \in Slots, TapSave(q)
  PROVE  /\ reqs' \in [Slots -> {Idle} \union Request] /\ Filled'
         /\ \A r \in Slots : r # q => reqs'[r] = reqs[r]
         /\ reqs'[q] # Idle /\ reqs'[q].kind = "save" /\ reqs'[q].pc = "sent"
         /\ reqs'[q].page = Depth /\ reqs'[q].as = token /\ reqs'[q].text = Top.text
         /\ Top \in FormPage /\ Top.text \in [Fields -> Values]
<1>. DEFINE x == [pc |-> "sent", kind |-> "save", page |-> Depth,
                  as |-> token, text |-> Top.text, pic |-> file = "picked", mail |-> None]
<1>1. /\ Saved /\ ~Busy(q) /\ reqs' = [reqs EXCEPT ![q] = x]
  BY DEF TapSave
<1>2. Top \in FormPage /\ Top.text \in Text
  BY <1>1, AccFacts, AccPageKinds, FormFacts DEF Saved, AccInv
<1>3. Top.text \in [Fields -> Values]
  BY <1>1, <1>2 DEF Saved, Text
<1>4. /\ Depth \in 0..MaxDepth /\ token \in Customers \union {None}
  BY AccFacts DEF AccInv
<1>5. x \in Request
  BY <1>2, <1>4 DEF Request
<1>6. x # Idle /\ x.kind = "save" /\ x.pc = "sent" /\ x.page = Depth /\ x.as = token
      /\ x.text = Top.text
  BY <1>5, RequestFacts
<1>. HIDE DEF x
<1>7. /\ reqs' \in [Slots -> {Idle} \union Request] /\ Filled'
      /\ reqs'[q] = x /\ \A r \in Slots : r # q => reqs'[r] = reqs[r]
  BY <1>1, <1>3, <1>5, <1>6, OneRequest DEF AccInv
<1>. QED BY <1>2, <1>3, <1>6, <1>7

LEMMA TapPasswordFacts ==
  ASSUME AccInv, NEW q \in Slots, TapPassword(q)
  PROVE  /\ reqs' \in [Slots -> {Idle} \union Request] /\ Filled'
         /\ \A r \in Slots : r # q => reqs'[r] = reqs[r]
         /\ reqs'[q] # Idle /\ reqs'[q].kind = "password"
         /\ reqs'[q].as = token /\ reqs'[q].mail = mail
<1>. DEFINE x == [pc |-> "sent", kind |-> "password", page |-> Depth,
                  as |-> token, text |-> Blank, pic |-> FALSE, mail |-> mail]
<1>1. reqs' = [reqs EXCEPT ![q] = x]
  BY DEF TapPassword
<1>2. Depth \in 0..MaxDepth /\ token \in Customers \union {None} /\ mail \in Values \union {None}
  BY AccFacts DEF AccInv
<1>3. x \in Request
  BY <1>2, BlankFacts DEF Request
<1>4. x # Idle /\ x.kind = "password" /\ x.as = token /\ x.mail = mail
  BY <1>3, RequestFacts
<1>. HIDE DEF x
<1>5. /\ reqs' \in [Slots -> {Idle} \union Request] /\ Filled'
      /\ reqs'[q] = x /\ \A r \in Slots : r # q => reqs'[r] = reqs[r]
  BY <1>1, <1>3, <1>4, OneRequest DEF AccInv
<1>. QED BY <1>4, <1>5

LEMMA ServeSaveFacts ==
  ASSUME AccInv, NEW q \in Slots, ServeSave(q)
  PROVE  /\ Save(q) /\ reqs[q].pc = "sent" /\ reqs[q].as \in Customers
         /\ reqs[q].text \in [Fields -> Values]
         /\ shop' \in [Customers -> Account]
         /\ \A c \in Customers : c # reqs[q].as => shop'[c] = shop[c]
         /\ shop'[reqs[q].as] = reqs[q].text
<1>. DEFINE r == reqs[q]
<1>1. /\ Busy(q) /\ r.kind = "save" /\ r.pc = "sent" /\ r.as # None
      /\ shop' = [shop EXCEPT ![r.as] = r.text]
  BY DEF ServeSave
<1>2. r \in Request /\ r.text \in [Fields -> Values] /\ shop \in [Customers -> Account]
  BY <1>1, AccFacts DEF AccInv, Filled, Save, TypeOK
<1>3. r.as \in Customers /\ r.text \in Account
  BY <1>1, <1>2 DEF Request, Account
<1>4. /\ shop' \in [Customers -> Account] /\ shop'[r.as] = r.text
      /\ \A c \in Customers : c # r.as => shop'[c] = shop[c]
  BY <1>1, <1>2, <1>3
<1>. QED BY <1>1, <1>2, <1>3, <1>4 DEF Save

\* Every request of a step was there before, or was tapped.
LEMMA ReqsStep ==
  ASSUME AccInv, Next
  PROVE  /\ reqs' \in [Slots -> {Idle} \union Request] /\ Filled'
         /\ \A r \in Slots : Kept(r) \/ TapSave(r) \/ TapPassword(r)
<1>0. TypeOK /\ Filled
  BY DEF AccInv
<1>. DEFINE Goal == /\ reqs' \in [Slots -> {Idle} \union Request] /\ Filled'
                    /\ \A r \in Slots : Kept(r) \/ TapSave(r) \/ TapPassword(r)
<1>1. ASSUME UNCHANGED reqs PROVE Goal
  BY <1>0, <1>1, SameRequests
<1>2. ASSUME NEW q \in Slots, Busy(q), NEW pc \in {"ok", "refused"},
             reqs' = [reqs EXCEPT ![q] = [reqs[q] EXCEPT !.pc = pc]]
      PROVE  Goal
  BY <1>0, <1>2, ServedFacts
<1>3. ASSUME NEW q \in Slots, reqs' = [reqs EXCEPT ![q] = Idle] PROVE Goal
  BY <1>0, <1>3, EndedFacts
<1>4. ASSUME reqs' = Forget(Depth) PROVE Goal
  BY <1>0, <1>4, ForgottenFacts
<1>5. ASSUME NEW q \in Slots, reqs' = Done(q) PROVE Goal
  BY <1>0, <1>5, DoneFacts
<1>6. ASSUME reqs' = [q \in Slots |-> Idle] PROVE Goal
  BY <1>6, NoRequests
<1>7. \A r \in Slots : reqs'[r] = reqs[r] => Kept(r)
  BY DEF Kept, Like
<1>8. ASSUME NEW q \in Slots, TapSave(q) PROVE Goal
  BY <1>7, <1>8, TapSaveFacts
<1>9. ASSUME NEW q \in Slots, TapPassword(q) PROVE Goal
  BY <1>7, <1>9, TapPasswordFacts
<1>. SUFFICES Goal
  OBVIOUS
<1>. HIDE DEF Goal
<1>10. CASE OpenHome \/ OpenProfile \/ OpenSignIn \/ OpenDialog \/ SignOut
            \/ OpenForm \/ OpenPassword \/ Pick \/ RemovePicture \/ TapSaveRemoved
            \/ (\E c \in Customers : SignIn(c))
            \/ \E f \in Fields, v \in Others : Type(f, v)
  BY <1>1, <1>10 DEF OpenHome, OpenProfile, OpenSignIn, OpenDialog, SignOut, OpenForm,
                     OpenPassword, Pick, RemovePicture, TapSaveRemoved, SignIn, Type
<1>11. CASE Back
  BY <1>1, <1>4, <1>11 DEF Back, Pop
<1>12. CASE Restart
  BY <1>6, <1>12 DEF Restart
<1>13. ASSUME NEW q \in Slots, ServeSave(q) PROVE Goal
  <2>1. Busy(q) /\ reqs' = [reqs EXCEPT ![q] = [reqs[q] EXCEPT !.pc = "ok"]]
    BY <1>13 DEF ServeSave
  <2>. QED BY <1>2, <2>1
<1>14. ASSUME NEW q \in Slots, ServePassword(q) \/ Refuse(q) PROVE Goal
  <2>1. Busy(q)
    BY <1>14 DEF ServePassword, Refuse
  <2>2. \/ reqs' = [reqs EXCEPT ![q] = [reqs[q] EXCEPT !.pc = "ok"]]
        \/ reqs' = [reqs EXCEPT ![q] = [reqs[q] EXCEPT !.pc = "refused"]]
    BY <1>14 DEF ServePassword, Refuse
  <2>. QED BY <1>2, <2>1, <2>2
<1>15. ASSUME NEW q \in Slots, AnswerSave(q) \/ AnswerPassword(q) \/ Lose(q) PROVE Goal
  <2>1. reqs' = [reqs EXCEPT ![q] = Idle] \/ reqs' = Done(q)
    BY <1>15 DEF AnswerSave, AnswerPassword, Lose
  <2>. QED BY <1>3, <1>5, <2>1
<1>16. ASSUME NEW k \in DOMAIN pages, \/ ServeFetch(k) \/ LoseFetch(k) \/ FailFetch(k)
                                      \/ AnswerProfile(k) \/ AnswerGet(k) \/ ShowDialog(k)
       PROVE  Goal
  BY <1>1, <1>16 DEF ServeFetch, LoseFetch, FailFetch, AnswerProfile, AnswerGet, ShowDialog
<1>. QED BY ONLY Next, <1>8, <1>9, <1>10, <1>11, <1>12, <1>13, <1>14, <1>15, <1>16 DEF Next

\* What a customer means after saving.
LEMMA MeantTyped ==
  ASSUME AccInv, Saved
  PROVE  /\ meant' \in [Customers -> Account]
         /\ \A c \in Customers : c # Top.owner => meant'[c] = meant[c]
         /\ Top.owner \in Customers => meant'[Top.owner] = Meaning(Top.owner)
<1>1. Top \in FormPage /\ meant \in [Customers -> Account]
  BY AccFacts, AccPageKinds DEF Saved, AccInv, TypeOK
<1>2. meant' = IF Top.owner \in Customers
               THEN [meant EXCEPT ![Top.owner] = Meaning(Top.owner)] ELSE meant
  BY DEF Saved
<1>3. ASSUME Top.owner \in Customers PROVE Meaning(Top.owner) \in Account
  BY <1>1, <1>3, FormFacts DEF Meaning, Text, Account
<1>. HIDE DEF Meaning
<1>. QED BY <1>1, <1>2, <1>3

\* Who changes what.
LEMMA AccFrame ==
  ASSUME Next
  PROVE  /\ acts' = acts \/ Act
         /\ (\E q \in Slots : ServeSave(q)) \/ UNCHANGED <<shop, renamed>>
         /\ \/ \E c \in Customers : SignIn(c)
            \/ token' = None /\ mail' = None
            \/ UNCHANGED <<token, mail>>
         /\ file' \in {"none", "picked", "gone"} \/ UNCHANGED file
         /\ Saved \/ UNCHANGED meant
         /\ faulty' = TRUE \/ UNCHANGED faulty
         /\ dead' = TRUE \/ UNCHANGED dead
         /\ \/ hasty' = (hasty \/ Saving) \/ hasty' = (hasty \/ (Top.kind = "form" /\ Saving))
            \/ UNCHANGED hasty
         /\ (early' = (early \/ Top.profile # Over \/ Top.get # Over)) \/ UNCHANGED early
<1>. USE DEF Next, OpenHome, OpenProfile, OpenSignIn, OpenDialog, SignOut, OpenForm, OpenPassword,
             Back, Pop, Leave, Restart, SignIn, Type, Pick, RemovePicture, TapSaveRemoved, TapSave,
             TapPassword, ServeSave, ServePassword, Refuse, AnswerSave, AnswerPassword, Lose,
             ServeFetch, LoseFetch, FailFetch, AnswerProfile, AnswerGet, ShowDialog, counters, history
<1>1. acts' = acts \/ Act
  BY DEF Saved, Fault
<1>2. (\E q \in Slots : ServeSave(q)) \/ UNCHANGED <<shop, renamed>>
  OBVIOUS
<1>3. \/ \E c \in Customers : SignIn(c)
      \/ token' = None /\ mail' = None
      \/ UNCHANGED <<token, mail>>
  OBVIOUS
<1>4. file' \in {"none", "picked", "gone"} \/ UNCHANGED file
  OBVIOUS
<1>5. Saved \/ UNCHANGED meant
  OBVIOUS
<1>6. faulty' = TRUE \/ UNCHANGED faulty
  BY DEF Fault
<1>7. dead' = TRUE \/ UNCHANGED dead
  OBVIOUS
<1>8. \/ hasty' = (hasty \/ Saving) \/ hasty' = (hasty \/ (Top.kind = "form" /\ Saving))
      \/ UNCHANGED hasty
  BY DEF Saved
<1>9. (early' = (early \/ Top.profile # Over \/ Top.get # Over)) \/ UNCHANGED early
  OBVIOUS
<1>. QED BY ONLY <1>1, <1>2, <1>3, <1>4, <1>5, <1>6, <1>7, <1>8, <1>9

LEMMA TypeStep ==
  ASSUME AccInv, Next
  PROVE  TypeOK' /\ Filled'
<1>1. pages' \in Seq(AccPage) /\ Len(pages') \in 1..MaxDepth
  BY PagesStep
<1>2. reqs' \in [Slots -> {Idle} \union Request] /\ Filled'
  BY ReqsStep
<1>3. acts' = acts \/ Act
  BY AccFrame
<1>4. /\ faulty \in BOOLEAN /\ hasty \in BOOLEAN /\ early \in BOOLEAN /\ dead \in BOOLEAN
      /\ renamed \subseteq Customers /\ meant \in [Customers -> Account]
      /\ shop \in [Customers -> Account] /\ token \in Customers \union {None}
      /\ mail \in Values \union {None} /\ file \in {"none", "picked", "gone"}
  BY DEF AccInv, TypeOK
<1>5. shop' \in [Customers -> Account] /\ renamed' \subseteq Customers
  <2>1. ASSUME NEW q \in Slots, ServeSave(q)
        PROVE  shop' \in [Customers -> Account] /\ renamed' \subseteq Customers
    <3>1. renamed' = renamed \union {reqs[q].as} \/ renamed' = renamed
      BY <2>1 DEF ServeSave
    <3>2. shop' \in [Customers -> Account] /\ reqs[q].as \in Customers
      BY <2>1, ServeSaveFacts
    <3>. QED BY <1>4, <3>1, <3>2
  <2>2. (\E q \in Slots : ServeSave(q)) \/ UNCHANGED <<shop, renamed>>
    BY AccFrame
  <2>. QED BY <1>4, <2>1, <2>2
<1>6. token' \in Customers \union {None} /\ mail' \in Values \union {None}
  <2>1. ASSUME NEW c \in Customers, SignIn(c)
        PROVE  token' \in Customers \union {None} /\ mail' \in Values \union {None}
    BY <1>4, <2>1 DEF SignIn, Account, Fields
  <2>. QED BY <1>4, <2>1, AccFrame
<1>7. file' \in {"none", "picked", "gone"}
  BY <1>4, AccFrame
<1>8. meant' \in [Customers -> Account]
  BY <1>4, MeantTyped, AccFrame
<1>9. faulty' \in BOOLEAN /\ dead' \in BOOLEAN
  BY <1>4, AccFrame
<1>10. hasty' \in BOOLEAN /\ early' \in BOOLEAN
  <2>1. hasty' \in BOOLEAN
    BY <1>4, AccFrame
  <2>2. early' \in BOOLEAN
    BY <1>4, AccFrame
  <2>. QED BY <2>1, <2>2
<1>11. TypeOK'
  BY <1>1, <1>2, <1>3, <1>5, <1>6, <1>7, <1>8, <1>9, <1>10, AccTypes
<1>. QED BY <1>2, <1>11

-----------------------------------------------------------------------------
(* The e-mail of a change of password                                      *)

LEMMA MailStep ==
  ASSUME AccInv, Next
  PROVE  MailInv' /\ PasswordByOwnEmail'
<1>1. /\ token \notin renamed \union {None} => mail = shop[token]["email"]
      /\ \A q \in Slots : Busy(q) /\ reqs[q].kind = "password" /\ reqs[q].as \notin renamed \union {None}
                            => reqs[q].mail = shop[reqs[q].as]["email"]
      /\ token \in Customers \union {None}
  BY DEF AccInv, MailInv, PasswordByOwnEmail, TypeOK
\* An e-mail that the shop changes is that of a customer who changed it.
<1>2. /\ renamed \subseteq renamed'
      /\ \A c \in Customers : c \notin renamed' => shop'[c]["email"] = shop[c]["email"]
  <2>1. ASSUME NEW q \in Slots, ServeSave(q)
        PROVE  /\ renamed \subseteq renamed'
               /\ \A c \in Customers : c \notin renamed' => shop'[c]["email"] = shop[c]["email"]
    <3>1. renamed' = IF reqs[q].text["email"] # shop[reqs[q].as]["email"]
                     THEN renamed \union {reqs[q].as} ELSE renamed
      BY <2>1 DEF ServeSave
    <3>2. /\ \A c \in Customers : c # reqs[q].as => shop'[c] = shop[c]
          /\ shop'[reqs[q].as] = reqs[q].text
      BY <2>1, ServeSaveFacts
    <3>. QED BY <3>1, <3>2
  <2>. QED BY <2>1, AccFrame
<1>3. MailInv'
  <2>1. ASSUME NEW c \in Customers, SignIn(c) PROVE MailInv'
    BY <2>1 DEF SignIn, MailInv
  <2>2. ASSUME token' = None PROVE MailInv'
    BY <2>2 DEF MailInv
  <2>3. ASSUME UNCHANGED <<token, mail>> PROVE MailInv'
    BY <1>1, <1>2, <2>3 DEF MailInv
  <2>. QED BY <2>1, <2>2, <2>3, AccFrame
<1>4. ASSUME NEW q \in Slots, reqs'[q] # Idle, reqs'[q].kind = "password",
             reqs'[q].as \notin renamed' \union {None}
      PROVE  reqs'[q].mail = shop'[reqs'[q].as]["email"]
  <2>1. CASE TapPassword(q)
    <3>1. reqs'[q].as = token /\ reqs'[q].mail = mail /\ UNCHANGED <<shop, renamed>>
      BY <2>1, TapPasswordFacts DEF TapPassword, history
    <3>. QED BY <1>1, <1>4, <3>1
  <2>2. CASE TapSave(q)
    BY <1>4, <2>2, TapSaveFacts
  <2>3. CASE Kept(q)
    <3>1. /\ Busy(q) /\ reqs[q] \in Request /\ reqs[q].kind = "password"
          /\ reqs'[q].as = reqs[q].as /\ reqs'[q].mail = reqs[q].mail
      BY <1>4, <2>3, AccFacts DEF Kept, Like, Busy, AccInv
    <3>2. reqs[q].as \in Customers
      BY <1>4, <3>1 DEF Request
    <3>. QED BY <1>1, <1>2, <1>4, <3>1, <3>2
  <2>. QED BY <2>1, <2>2, <2>3, ReqsStep
<1>5. PasswordByOwnEmail'
  BY <1>4 DEF PasswordByOwnEmail, Busy
<1>. QED BY <1>3, <1>5

-----------------------------------------------------------------------------
(* The stack                                                               *)

\* A stack with the same pages, whose forms may say something else.
Alike(ps) ==
  /\ ps \in Seq(AccPage) /\ Len(ps) = Depth
  /\ \A j \in 1..Depth : /\ ps[j].kind = pages[j].kind
                         /\ pages[j].kind = "form" => ps[j].owner = pages[j].owner

LEMMA AlikeFacts ==
  ASSUME AccInv, NEW ps, Alike(ps)
  PROVE  OnProfile(ps) /\ Reached(ps) = Reached(pages)
<1>1. Len(ps) = Depth /\ Len(pages) = Depth /\ Depth \in Nat
  BY AccFacts DEF Alike, AccInv
<1>2. \A j \in 1..Depth : ps[j].kind = pages[j].kind
  BY DEF Alike
<1>3. OnProfile(ps)
  BY <1>1, <1>2 DEF OnProfile, AccInv
<1>. QED BY <1>1, <1>2, <1>3 DEF Reached

LEMMA TopReached ==
  ASSUME AccInv
  PROVE  /\ Top.kind = "form" => Reached(pages) = {Depth}
         /\ Top.kind \notin Popped \union {"form"} => Reached(pages) = {}
         /\ \A k \in Reached(pages) : k \in 1..Depth /\ pages[k] \in FormPage
<1>1. Len(pages) = Depth /\ Depth \in Nat /\ Depth \in 1..Depth /\ Top = pages[Depth]
      /\ \A k \in 1..Depth : pages[k] \in AccPage
  BY AccFacts DEF AccInv
<1>2. \A k \in Reached(pages) : k \in 1..Depth /\ pages[k] \in FormPage
  BY <1>1, AccPageKinds DEF Reached
<1>3. ASSUME NEW k \in Reached(pages), k # Depth PROVE Top.kind \in Popped
  BY <1>1, <1>3 DEF Reached
<1>4. Top.kind = "form" => Depth \in Reached(pages)
  BY <1>1 DEF Reached
<1>5. "form" \notin Popped
  BY DEF Popped
<1>6. ASSUME NEW k \in Reached(pages), k = Depth PROVE Top.kind = "form"
  BY <1>1, <1>6 DEF Reached
<1>. QED BY <1>2, <1>3, <1>4, <1>5, <1>6

\* A page on top hides the forms below it, unless Back takes it off.
LEMMA HigherReached ==
  ASSUME AccInv, NEW ps, Alike(ps), NEW p \in AccPage, pages' = Append(ps, p),
         p.kind = "form" => Top.kind = "profile"
  PROVE  /\ OnProfile(pages') /\ Len(pages') = Depth + 1
         /\ pages'[Depth + 1] = p /\ \A k \in 1..Depth : pages'[k] = ps[k]
         /\ p.kind = "form" => Reached(pages') = {Depth + 1}
         /\ p.kind \in Popped => Reached(pages') = Reached(pages)
         /\ p.kind \notin Popped \union {"form"} => Reached(pages') = {}
<1>1. /\ Depth \in Nat /\ Depth \in 1..Depth /\ Len(pages) = Depth /\ Top = pages[Depth]
  BY AccFacts DEF AccInv
<1>2. ps \in Seq(AccPage) /\ Len(ps) = Depth /\ ps[Depth].kind = Top.kind
  BY <1>1 DEF Alike
<1>3. /\ Len(pages') = Depth + 1 /\ pages'[Depth + 1] = p
      /\ \A k \in 1..Depth : pages'[k] = ps[k]
  BY <1>2, AccPushFacts
<1>4. OnProfile(ps) /\ Reached(ps) = Reached(pages)
  BY AlikeFacts
<1>5. OnProfile(pages')
  <2>. SUFFICES ASSUME NEW k \in 1..(Depth + 1), pages'[k].kind = "form"
       PROVE  k > 1 /\ pages'[k - 1].kind = "profile"
    BY <1>3 DEF OnProfile
  <2>1. CASE k = Depth + 1
    BY <1>1, <1>2, <1>3, <2>1
  <2>2. CASE k \in 1..Depth
    <3>1. k > 1 /\ ps[k - 1].kind = "profile"
      BY <1>2, <1>3, <1>4, <2>2 DEF OnProfile
    <3>. QED BY <1>1, <1>3, <2>2, <3>1
  <2>3. k = Depth + 1 \/ k \in 1..Depth
    BY <1>1
  <2>. QED BY <2>1, <2>2, <2>3
<1>6. "form" \notin Popped
  BY DEF Popped
<1>7. \A k \in 1..Depth : k \in Reached(pages') <=> k \in Reached(ps) /\ p.kind \in Popped
  <2>. SUFFICES ASSUME NEW k \in 1..Depth
       PROVE  k \in Reached(pages') <=> k \in Reached(ps) /\ p.kind \in Popped
    OBVIOUS
  <2>1. (\A j \in (k + 1)..(Depth + 1) : pages'[j].kind \in Popped)
          <=> (\A j \in (k + 1)..Depth : ps[j].kind \in Popped) /\ p.kind \in Popped
    BY <1>1, <1>3
  <2>. QED BY <1>1, <1>2, <1>3, <2>1 DEF Reached
<1>8. Depth + 1 \in Reached(pages') <=> p.kind = "form"
  BY <1>1, <1>3 DEF Reached
<1>9. \A k \in Reached(pages') : k \in 1..Depth \/ k = Depth + 1
  BY <1>1, <1>3 DEF Reached
<1>10. \A k \in Reached(ps) : k \in 1..Depth
  BY <1>2 DEF Reached
<1>11. p.kind = "form" => Reached(pages') = {Depth + 1}
  BY ONLY <1>6, <1>7, <1>8, <1>9
<1>12. p.kind \in Popped => Reached(pages') = Reached(ps)
  BY ONLY <1>6, <1>7, <1>8, <1>9, <1>10
<1>13. p.kind \notin Popped \union {"form"} => Reached(pages') = {}
  BY ONLY <1>7, <1>8, <1>9
<1>. QED BY <1>3, <1>4, <1>5, <1>11, <1>12, <1>13

LEMMA LowerReached ==
  ASSUME AccInv, Depth > 1, Top.kind \in Popped, pages' = Front(pages)
  PROVE  /\ OnProfile(pages') /\ Len(pages') = Depth - 1
         /\ \A k \in 1..(Depth - 1) : pages'[k] = pages[k]
         /\ Reached(pages') = Reached(pages)
<1>1. /\ Depth \in Nat /\ Len(pages) = Depth /\ Top = pages[Depth]
  BY AccFacts DEF AccInv
<1>2. /\ Len(pages') = Depth - 1 /\ \A k \in 1..(Depth - 1) : pages'[k] = pages[k]
  BY AccFrontFacts DEF AccInv
<1>3. OnProfile(pages')
  BY <1>1, <1>2 DEF AccInv, OnProfile
<1>4. "form" \notin Popped
  BY DEF Popped
<1>5. \A k \in 1..(Depth - 1) : k \in Reached(pages') <=> k \in Reached(pages)
  <2>. SUFFICES ASSUME NEW k \in 1..(Depth - 1)
       PROVE  k \in Reached(pages') <=> k \in Reached(pages)
    OBVIOUS
  <2>1. (\A j \in (k + 1)..(Depth - 1) : pages'[j].kind \in Popped)
          <=> \A j \in (k + 1)..Depth : pages[j].kind \in Popped
    BY <1>1, <1>2
  <2>. QED BY <1>1, <1>2, <2>1 DEF Reached
<1>6. \A k \in Reached(pages') : k \in 1..(Depth - 1)
  BY <1>2 DEF Reached
<1>7. \A k \in Reached(pages) : k \in 1..(Depth - 1)
  BY <1>1, <1>4 DEF Reached
<1>. QED BY <1>2, <1>3, <1>5, <1>6, <1>7

\* The top page is replaced.
LEMMA ReplacedReached ==
  ASSUME AccInv, pages' = Append(Front(pages), Plain("home"))
  PROVE  /\ OnProfile(pages') /\ Len(pages') = Depth /\ pages'[Depth] = Plain("home")
         /\ \A k \in 1..(Depth - 1) : pages'[k] = pages[k]
         /\ Top.kind = "form" => Reached(pages') = {}
<1>1. /\ Depth \in Nat /\ Depth \in 1..Depth /\ Len(pages) = Depth /\ Top = pages[Depth]
      /\ pages \in Seq(AccPage)
  BY AccFacts DEF AccInv
<1>2. /\ Front(pages) \in Seq(AccPage) /\ Len(Front(pages)) = Depth - 1
      /\ \A k \in 1..(Depth - 1) : Front(pages)[k] = pages[k]
  <2>1. Front(pages) = SubSeq(pages, 1, Depth - 1)
    BY <1>1 DEF Front
  <2>. QED BY <1>1, <2>1
<1>3. Plain("home") \in AccPage /\ Plain("home").kind = "home"
  BY AccPageKinds DEF PlainKinds
<1>4. /\ Len(pages') = Depth /\ pages'[Depth] = Plain("home")
      /\ \A k \in 1..(Depth - 1) : pages'[k] = pages[k]
  BY <1>1, <1>2, <1>3, AccPushFacts
<1>5. OnProfile(pages')
  <2>. SUFFICES ASSUME NEW k \in 1..Depth, pages'[k].kind = "form"
       PROVE  k > 1 /\ pages'[k - 1].kind = "profile"
    BY <1>4 DEF OnProfile
  <2>1. k # Depth
    BY <1>3, <1>4
  <2>2. k \in 1..(Depth - 1) /\ pages'[k] = pages[k]
    BY <1>1, <1>4, <2>1
  <2>3. k > 1 /\ pages[k - 1].kind = "profile"
    BY <1>1, <2>2 DEF AccInv, OnProfile
  <2>. QED BY <1>1, <1>4, <2>2, <2>3
<1>6. ASSUME Top.kind = "form" PROVE Reached(pages') = {}
  <2>1. Depth > 1 /\ pages[Depth - 1].kind = "profile"
    BY <1>1, <1>6 DEF AccInv, OnProfile
  <2>. SUFFICES ASSUME NEW k \in Reached(pages') PROVE FALSE
    OBVIOUS
  <2>2. k \in 1..Depth /\ pages'[k].kind = "form"
        /\ \A j \in (k + 1)..Depth : pages'[j].kind \in Popped
    BY <1>4 DEF Reached
  <2>3. k # Depth
    BY <1>3, <1>4, <2>2
  <2>4. k # Depth - 1
    BY <1>1, <1>4, <2>1, <2>2
  <2>5. pages'[Depth - 1].kind = "profile" /\ Depth - 1 \in (k + 1)..Depth
    BY <1>1, <1>4, <2>1, <2>2, <2>3, <2>4
  <2>. QED BY <2>2, <2>5 DEF Popped
<1>. QED BY <1>4, <1>5, <1>6

-----------------------------------------------------------------------------
(* The owner of the form that is shown, and what it says                   *)

\* Without a save that the shop has still to carry out, an account is as meant.
LEMMA Settled ==
  ASSUME AccInv, Quiet, \A q \in Slots : ~(Save(q) /\ reqs[q].pc = "sent")
  PROVE  \A c \in Customers : shop[c] = meant[c]
  BY DEF AccInv, MeantInv, Carries

LEMMA StepHigher ==
  ASSUME AccInv, NEW ps, Alike(ps), NEW p \in AccPage, pages' = Append(ps, p),
         p.kind = "form" => /\ Top.kind = "profile" /\ p.owner = token'
                            /\ p.text = Blank /\ p.typed = Blank
                            /\ p.profile = Sent /\ p.get = Sent,
         ~hasty' => ~hasty /\ \A q \in Slots : ~Save(q)',
         token' = token \/ p.kind \notin Popped \/ Top.kind = "signin",
         Quiet' => /\ Quiet /\ UNCHANGED <<shop, meant>> /\ \A k \in Reached(pages) : ps[k] = pages[k]
                   /\ \A q \in Slots : ~(Save(q) /\ reqs[q].pc = "sent")
  PROVE  OnProfile(pages') /\ OwnInv' /\ MeantInv'
<1>1. /\ OnProfile(pages') /\ Len(pages') = Depth + 1
      /\ pages'[Depth + 1] = p /\ \A k \in 1..Depth : pages'[k] = ps[k]
      /\ p.kind = "form" => Reached(pages') = {Depth + 1}
      /\ p.kind \in Popped => Reached(pages') = Reached(pages)
      /\ p.kind \notin Popped \union {"form"} => Reached(pages') = {}
  BY HigherReached
<1>2. /\ \A k \in Reached(pages) : k \in 1..Depth /\ pages[k].kind = "form"
      /\ Top.kind = "signin" => Reached(pages) = {}
  BY TopReached DEF Reached, Popped
<1>3. OwnInv'
  <2>. SUFFICES ASSUME ~hasty', NEW k \in Reached(pages')
       PROVE  pages'[k].owner = token'
    BY DEF OwnInv
  <2>1. CASE p.kind = "form"
    BY <1>1, <2>1
  <2>2. CASE p.kind \in Popped
    <3>1. k \in Reached(pages) /\ token' = token /\ ~hasty
      BY <1>1, <1>2, <2>2
    <3>2. pages[k].owner = token
      BY <3>1 DEF AccInv, OwnInv
    <3>3. pages'[k] = ps[k] /\ ps[k].owner = pages[k].owner
      BY <1>1, <1>2, <3>1 DEF Alike
    <3>. QED BY <3>1, <3>2, <3>3
  <2>. QED BY <1>1, <2>1, <2>2
<1>4. MeantInv'
  <2>. SUFFICES ASSUME Quiet'
       PROVE  /\ \A k \in Reached(pages') : pages'[k].owner # None =>
                   FormOk(pages'[k], meant'[pages'[k].owner])
              /\ \A q \in Slots : ~Save(q)'
              /\ \A c \in Customers : shop'[c] = meant'[c]
    BY DEF MeantInv, Carries
  <2>1. /\ Quiet /\ UNCHANGED <<shop, meant>> /\ \A k \in Reached(pages) : ps[k] = pages[k]
        /\ \A q \in Slots : ~(Save(q) /\ reqs[q].pc = "sent")
    OBVIOUS
  <2>2. \A q \in Slots : ~Save(q)'
    BY DEF Quiet
  <2>3. \A c \in Customers : shop'[c] = meant'[c]
    BY <2>1, Settled
  <2>4. ASSUME NEW k \in Reached(pages'), pages'[k].owner # None
        PROVE  FormOk(pages'[k], meant'[pages'[k].owner])
    <3>1. CASE p.kind = "form"
      <4>1. pages'[k] = p
        BY <1>1, <3>1
      <4>2. \A f \in Fields : p.text[f] = None
        BY <3>1, BlankFacts
      <4>. QED BY <3>1, <4>1, <4>2 DEF FormOk, Sent
    <3>2. CASE p.kind \in Popped
      <4>1. k \in Reached(pages) /\ pages'[k] = pages[k]
        BY <1>1, <1>2, <2>1, <3>2
      <4>. QED BY <2>1, <2>4, <4>1 DEF AccInv, MeantInv
    <3>. QED BY <1>1, <2>4, <3>1, <3>2
  <2>. QED BY <2>2, <2>3, <2>4
<1>. QED BY <1>1, <1>3, <1>4

\* The pages stay, but for what a form says.
LEMMA StepSteady ==
  ASSUME AccInv, Alike(pages'), token' = token,
         ~hasty' => ~hasty /\ \A q \in Slots : Save(q)' => Save(q) /\ reqs'[q].page = reqs[q].page
  PROVE  /\ OnProfile(pages') /\ OwnInv' /\ Reached(pages') = Reached(pages)
         /\ Depth' = Depth /\ Top' = pages'[Depth] /\ Top'.kind = Top.kind
<1>1. OnProfile(pages') /\ Reached(pages') = Reached(pages)
  BY AlikeFacts
<1>2. Depth = Len(pages) /\ Depth \in 1..Depth /\ Top = pages[Depth]
  BY AccFacts DEF AccInv
<1>3. Depth' = Depth /\ Top' = pages'[Depth] /\ Top'.kind = Top.kind
  BY <1>2 DEF Alike, Depth, Top, Last
<1>4. \A k \in Reached(pages) : pages'[k].owner = pages[k].owner
  BY TopReached, AccPageKinds DEF Alike
<1>5. OwnInv'
  BY <1>1, <1>3, <1>4 DEF AccInv, OwnInv
<1>. QED BY <1>1, <1>3, <1>5

\* Nothing changes that the account and the forms say.
LEMMA StepUnsaid ==
  ASSUME AccInv, UNCHANGED pages,
         Quiet' => /\ Quiet /\ UNCHANGED <<shop, meant>>
                   /\ \A q \in Slots : (Save(q)' <=> Save(q))
                   /\ \A q \in Slots : Save(q) => reqs'[q] = reqs[q]
  PROVE  MeantInv'
<1>. SUFFICES ASSUME Quiet' PROVE MeantInv'
  BY DEF MeantInv
<1>1. /\ Quiet /\ UNCHANGED <<shop, meant>>
      /\ \A q \in Slots : (Save(q)' <=> Save(q))
      /\ \A q \in Slots : Save(q) => reqs'[q] = reqs[q]
  OBVIOUS
<1>2. \A q \in Slots, c \in Customers : /\ Carries(q, c)' <=> Carries(q, c)
                                        /\ Carries(q, c) => reqs'[q].text = reqs[q].text
  BY <1>1 DEF Carries
<1>3. Top' = Top
  BY DEF Top, Last
<1>. QED BY <1>1, <1>2, <1>3 DEF AccInv, MeantInv

\* What a fetch does to a form.
LEMMA StepFetch ==
  ASSUME AccInv, NEW k \in 1..Depth, pages[k].kind = "form", NEW p \in FormPage,
         p.owner = pages[k].owner, pages' = [pages EXCEPT ![k] = p],
         UNCHANGED <<shop, token, reqs, meant, hasty, early, dead>>, faulty => faulty',
         pages[k].profile = Over => p.profile = Over, pages[k].get = Over => p.get = Over,
         Quiet' /\ k \in Reached(pages) /\ p.owner # None => FormOk(p, meant[p.owner])
  PROVE  OnProfile(pages') /\ OwnInv' /\ MeantInv'
<1>1. /\ pages' \in Seq(AccPage) /\ Len(pages') = Depth
      /\ pages'[k] = p /\ \A j \in 1..Depth : j # k => pages'[j] = pages[j]
  BY PageChanged, AccPageKinds DEF AccInv
<1>2. p.kind = "form"
  BY FormFacts
<1>3. Alike(pages')
  BY <1>1, <1>2 DEF Alike
<1>4. \A q \in Slots : Save(q)' <=> Save(q)
  BY DEF Save, Busy
<1>5. /\ OnProfile(pages') /\ OwnInv' /\ Reached(pages') = Reached(pages)
      /\ Depth' = Depth /\ Top' = pages'[Depth]
  BY <1>3, <1>4, StepSteady
<1>6. Depth \in 1..Depth /\ Top = pages[Depth] /\ \A j \in Reached(pages) : j \in 1..Depth
  BY AccFacts, TopReached DEF AccInv
<1>7. MeantInv'
  <2>. SUFFICES ASSUME Quiet' PROVE MeantInv'
    BY DEF MeantInv
  <2>1. Quiet
    BY DEF Quiet
  <2>2. \A j \in Reached(pages') : pages'[j].owner # None =>
          FormOk(pages'[j], meant'[pages'[j].owner])
    BY <1>1, <1>5, <1>6, <2>1 DEF AccInv, MeantInv
  <2>3. /\ Top'.owner = Top.owner
        /\ Top.profile = Over /\ Top.get = Over => Top'.profile = Over /\ Top'.get = Over
    BY <1>1, <1>5, <1>6
  <2>4. \A q \in Slots, c \in Customers : Carries(q, c)' <=> Carries(q, c)
    BY DEF Carries, Save, Busy
  <2>. QED BY <2>1, <2>2, <2>3, <2>4 DEF AccInv, MeantInv
<1>. QED BY <1>5, <1>7

\* A page is pushed from another than a form.
LEMMA StepPush ==
  ASSUME AccInv, NEW p \in AccPage, Push(p), Top.kind # "form",
         UNCHANGED <<shop, reqs, faulty, meant, hasty, early, dead>>,
         p.kind = "form" => /\ Top.kind = "profile" /\ p.owner = token'
                            /\ p.text = Blank /\ p.typed = Blank
                            /\ p.profile = Sent /\ p.get = Sent,
         token' = token \/ p.kind \notin Popped \/ Top.kind = "signin"
  PROVE  OnProfile(pages') /\ OwnInv' /\ MeantInv'
<1>1. pages' = Append(pages, p)
  BY DEF Push
<1>2. Alike(pages)
  BY AccFacts DEF Alike, AccInv
<1>3. ~hasty => \A q \in Slots : ~Save(q)
  BY DEF AccInv, OwnInv
<1>4. \A q \in Slots : (Save(q)' <=> Save(q))
  BY DEF Save, Busy
<1>5. Quiet' => Quiet
  BY DEF Quiet
<1>6. ~hasty' => ~hasty /\ \A q \in Slots : ~Save(q)'
  BY <1>3, <1>4
<1>7. Quiet' => /\ Quiet /\ UNCHANGED <<shop, meant>> /\ \A k \in Reached(pages) : pages[k] = pages[k]
                /\ \A q \in Slots : ~(Save(q) /\ reqs[q].pc = "sent")
  BY <1>3, <1>5 DEF Quiet
<1>. HIDE DEF Quiet
<1>. QED BY <1>1, <1>2, <1>6, <1>7, StepHigher

LEMMA StepOpenings ==
  ASSUME AccInv, \/ OpenHome \/ OpenProfile \/ OpenSignIn \/ SignOut
                 \/ OpenForm \/ OpenPassword \/ \E c \in Customers : SignIn(c)
  PROVE  OnProfile(pages') /\ OwnInv' /\ MeantInv'
<1>1. /\ \A k \in PlainKinds : Plain(k) \in AccPage /\ Plain(k).kind = k
      /\ NewProfilePage \in AccPage /\ NewProfilePage.kind = "profile"
  BY AccPageKinds, ProfileFacts
<1>2. CASE OpenHome \/ OpenPassword
  <2>1. /\ Top.kind # "form" /\ UNCHANGED <<shop, reqs, faulty, meant, hasty, early, dead>>
        /\ token' = token /\ \E k \in PlainKinds : Push(Plain(k))
    BY <1>2 DEF OpenHome, OpenPassword, Menu, counters, history, PlainKinds
  <2>2. PICK k \in PlainKinds : Push(Plain(k))
    BY <2>1
  <2>3. Plain(k) \in AccPage /\ Plain(k).kind # "form"
    BY <1>1 DEF PlainKinds
  <2>. QED BY <2>1, <2>2, <2>3, StepPush
<1>3. CASE OpenSignIn \/ SignOut
  <2>1. /\ Top.kind # "form" /\ UNCHANGED <<shop, reqs, faulty, meant, hasty, early, dead>>
        /\ Push(Plain("signin"))
    BY <1>1, <1>3 DEF OpenSignIn, SignOut, counters, history
  <2>2. Plain("signin") \in AccPage /\ Plain("signin").kind = "signin"
    BY <1>1 DEF PlainKinds
  <2>. QED BY <2>1, <2>2, StepPush DEF Popped
<1>4. ASSUME NEW c \in Customers, SignIn(c) PROVE OnProfile(pages') /\ OwnInv' /\ MeantInv'
  <2>1. /\ Top.kind = "signin" /\ UNCHANGED <<shop, reqs, faulty, meant, hasty, early, dead>>
        /\ Push(Plain("home"))
    BY <1>4 DEF SignIn
  <2>2. Plain("home") \in AccPage /\ Plain("home").kind = "home"
    BY <1>1 DEF PlainKinds
  <2>. QED BY <2>1, <2>2, StepPush
<1>5. CASE OpenProfile
  <2>1. /\ Top.kind = "home" /\ UNCHANGED <<shop, reqs, faulty, meant, hasty, early, dead>>
        /\ Push(NewProfilePage) /\ token' = token
    BY <1>5 DEF OpenProfile, counters, history
  <2>. QED BY <1>1, <2>1, StepPush
<1>6. CASE OpenForm
  <2>. DEFINE p == [kind |-> "form", owner |-> token, text |-> Blank, typed |-> Blank,
                    profile |-> Sent, get |-> Sent]
  <2>1. /\ Top.kind = "profile" /\ UNCHANGED <<shop, reqs, faulty, meant, hasty, early, dead>>
        /\ Push(p) /\ token' = token
    BY <1>6 DEF OpenForm, Menu, counters, history
  <2>2. p \in AccPage
    BY NewFormFacts, AccFacts, AccPageKinds DEF AccInv
  <2>3. /\ p.owner = token' /\ p.text = Blank /\ p.typed = Blank
        /\ p.profile = Sent /\ p.get = Sent
    BY <2>1
  <2>. HIDE DEF p
  <2>. QED BY <2>1, <2>2, <2>3, StepPush
<1>. QED BY <1>2, <1>3, <1>4, <1>5, <1>6

\* Leaving a form while a save is under way is hasty.
LEMMA Left ==
  ASSUME AccInv, Leave
  PROVE  ~hasty' => ~hasty /\ \A q \in Slots : ~Save(q)
<1>. SUFFICES ASSUME ~hasty' PROVE ~hasty /\ \A q \in Slots : ~Save(q)
  OBVIOUS
<1>1. ~hasty /\ ~(Top.kind = "form" /\ Saving)
  BY DEF Leave
<1>2. (\E q \in Slots : Save(q)) => Saving /\ Top.kind = "form"
  BY <1>1 DEF AccInv, OwnInv, Saving, Save
<1>. QED BY <1>1, <1>2

LEMMA StepPop ==
  ASSUME AccInv, Top.kind \in Popped, Pop
  PROVE  OnProfile(pages') /\ OwnInv' /\ MeantInv'
<1>1. /\ Depth > 1 /\ pages' = Front(pages) /\ reqs' = Forget(Depth) /\ Leave
      /\ UNCHANGED <<shop, token, counters, meant, early, dead>>
  BY DEF Pop
<1>2. /\ OnProfile(pages') /\ Len(pages') = Depth - 1
      /\ \A k \in 1..(Depth - 1) : pages'[k] = pages[k]
      /\ Reached(pages') = Reached(pages)
  BY <1>1, LowerReached
<1>3. ~hasty' => ~hasty /\ \A q \in Slots : ~Save(q)
  BY <1>1, Left
<1>4. \A q \in Slots : Save(q)' => Save(q)
  BY <1>1, ForgottenFacts DEF AccInv, Save, Busy, Kept, Like
<1>5. ASSUME NEW k \in Reached(pages) PROVE pages'[k] = pages[k]
  BY <1>2, <1>5 DEF Reached
<1>6. OwnInv'
  BY <1>1, <1>2, <1>3, <1>4, <1>5 DEF AccInv, OwnInv
<1>7. MeantInv'
  <2>. SUFFICES ASSUME Quiet' PROVE MeantInv'
    BY DEF MeantInv
  <2>1. Quiet /\ \A q \in Slots : ~Save(q) /\ ~Save(q)'
    BY <1>1, <1>3, <1>4 DEF Quiet, counters
  <2>2. \A c \in Customers : shop'[c] = meant'[c]
    BY <1>1, <2>1, Settled
  <2>3. \A k \in Reached(pages') : pages'[k].owner # None =>
          FormOk(pages'[k], meant'[pages'[k].owner])
    BY <1>1, <1>2, <1>5, <2>1 DEF AccInv, MeantInv
  <2>. QED BY <2>1, <2>2, <2>3 DEF MeantInv, Carries
<1>. QED BY <1>2, <1>6, <1>7

LEMMA StepBack ==
  ASSUME AccInv, Back
  PROVE  OnProfile(pages') /\ OwnInv' /\ MeantInv'
<1>1. CASE Top.kind \in Popped /\ Pop
  BY <1>1, StepPop
<1>2. CASE /\ \/ Push(NewProfilePage) \/ Push(Plain("home"))
           /\ Leave
           /\ UNCHANGED <<shop, token, reqs, counters, meant, early, dead>>
  <2>1. PICK p \in AccPage : Push(p) /\ p.kind # "form"
    <3>1. /\ NewProfilePage \in AccPage /\ NewProfilePage.kind # "form"
          /\ Plain("home") \in AccPage /\ Plain("home").kind # "form"
      BY AccPageKinds, ProfileFacts DEF PlainKinds
    <3>. QED BY <1>2, <3>1
  <2>2. pages' = Append(pages, p)
    BY <2>1 DEF Push
  <2>3. Alike(pages)
    BY AccFacts DEF Alike, AccInv
  <2>4. ~hasty' => ~hasty /\ \A q \in Slots : ~Save(q)
    BY <1>2, Left
  <2>5. \A q \in Slots : (Save(q)' <=> Save(q))
    BY <1>2 DEF Save, Busy
  <2>6. Quiet' => Quiet /\ ~hasty'
    BY <1>2, <2>4 DEF Quiet, counters
  <2>7. token' = token /\ UNCHANGED <<shop, meant>>
    BY <1>2
  <2>8. ~hasty' => ~hasty /\ \A q \in Slots : ~Save(q)'
    BY <2>4, <2>5
  <2>9. Quiet' => /\ Quiet /\ UNCHANGED <<shop, meant>> /\ \A k \in Reached(pages) : pages[k] = pages[k]
                  /\ \A q \in Slots : ~(Save(q) /\ reqs[q].pc = "sent")
    BY <2>4, <2>6, <2>7
  <2>. QED BY <2>1, <2>2, <2>3, <2>7, <2>8, <2>9, StepHigher
<1>. QED BY <1>1, <1>2 DEF Back, Popped

LEMMA StepRestart ==
  ASSUME AccInv, Restart
  PROVE  OnProfile(pages') /\ OwnInv' /\ MeantInv'
<1>1. /\ pages' = <<Plain("home")>> /\ hasty' = (hasty \/ Saving)
      /\ \A q \in Slots : reqs'[q] = Idle
      /\ UNCHANGED <<shop, counters, meant, early, dead>>
  BY DEF Restart
<1>2. Len(pages') = 1 /\ pages'[1].kind = "home"
  BY <1>1, AccPageKinds DEF PlainKinds
<1>3. OnProfile(pages') /\ Reached(pages') = {}
  <2>1. \A k \in 1..1 : k = 1
    OBVIOUS
  <2>. QED BY <1>2, <2>1 DEF OnProfile, Reached
<1>4. \A q \in Slots : ~Save(q)'
  BY <1>1 DEF Save, Busy
<1>5. OwnInv'
  BY <1>3, <1>4 DEF OwnInv
<1>6. MeantInv'
  <2>. SUFFICES ASSUME Quiet' PROVE MeantInv'
    BY DEF MeantInv
  <2>1. Quiet /\ \A q \in Slots : ~Save(q)
    BY <1>1 DEF Quiet, counters, Saving, Save
  <2>2. \A c \in Customers : shop'[c] = meant'[c]
    BY <1>1, <2>1, Settled
  <2>. QED BY <1>3, <1>4, <2>2 DEF MeantInv, Carries
<1>. QED BY <1>3, <1>5, <1>6

\* A field is typed in: after the two fetches, if it is not to be early.
LEMMA StepType ==
  ASSUME AccInv, NEW f \in Fields, NEW v \in Others, Type(f, v)
  PROVE  OnProfile(pages') /\ OwnInv' /\ MeantInv'
<1>. DEFINE p == [Top EXCEPT !.text = [Top.text EXCEPT ![f] = v],
                             !.typed = [Top.typed EXCEPT ![f] = v]]
<1>1. /\ Depth \in 1..Depth /\ Top = pages[Depth] /\ Top \in FormPage /\ Top.kind = "form"
  BY AccFacts, AccPageKinds DEF Type, AccInv
<1>2. /\ pages' = [pages EXCEPT ![Depth] = p]
      /\ early' = (early \/ Top.profile # Over \/ Top.get # Over)
      /\ UNCHANGED <<shop, token, reqs, faulty, meant, hasty, dead>>
  BY DEF Type, SetTop
<1>3. /\ [Top.text EXCEPT ![f] = v] \in Text /\ [Top.typed EXCEPT ![f] = v] \in Text
      /\ v # None
  BY <1>1, FormFacts, NoneFacts DEF Text, Values
<1>4. /\ p \in FormPage /\ p.kind = "form" /\ p.owner = Top.owner
      /\ p.text = [Top.text EXCEPT ![f] = v] /\ p.typed = [Top.typed EXCEPT ![f] = v]
      /\ p.profile = Top.profile /\ p.get = Top.get
  BY <1>1, <1>3, FormFacts DEF FormPage
<1>. HIDE DEF p
<1>5. /\ pages' \in Seq(AccPage) /\ Len(pages') = Depth
      /\ pages'[Depth] = p /\ \A j \in 1..Depth : j # Depth => pages'[j] = pages[j]
  BY <1>1, <1>2, <1>4, PageChanged, AccPageKinds DEF AccInv
<1>6. Alike(pages')
  BY <1>1, <1>4, <1>5 DEF Alike
<1>7. \A q \in Slots : (Save(q)' <=> Save(q))
  BY <1>2 DEF Save, Busy
<1>8. /\ OnProfile(pages') /\ OwnInv' /\ Reached(pages') = Reached(pages)
      /\ Depth' = Depth /\ Top' = p
  BY <1>2, <1>5, <1>6, <1>7, StepSteady
<1>9. Reached(pages) = {Depth}
  BY <1>1, TopReached
<1>10. MeantInv'
  <2>. SUFFICES ASSUME Quiet' PROVE MeantInv'
    BY DEF MeantInv
  <2>1. Quiet /\ Top.profile = Over /\ Top.get = Over
    BY <1>2 DEF Quiet
  <2>2. ASSUME Top.owner # None PROVE FormOk(p, meant[Top.owner])
    <3>1. FormOk(Top, meant[Top.owner])
      BY <1>1, <1>9, <2>1, <2>2 DEF AccInv, MeantInv
    <3>2. Top.text \in Text /\ Top.typed \in Text
      BY <1>1, FormFacts
    <3>3. \A g \in Fields : /\ p.text[g] = IF g = f THEN v ELSE Top.text[g]
                            /\ p.typed[g] = IF g = f THEN v ELSE Top.typed[g]
      BY <1>4, <3>2 DEF Text
    <3>. QED BY <1>3, <1>4, <2>1, <3>1, <3>3 DEF FormOk, Over
  <2>3. \A j \in Reached(pages') : pages'[j].owner # None =>
          FormOk(pages'[j], meant'[pages'[j].owner])
    <3>1. \A j \in Reached(pages') : j = Depth
      BY <1>8, <1>9
    <3>2. /\ pages'[Depth] = p /\ meant' = meant /\ p.owner = Top.owner
      BY <1>2, <1>4, <1>5
    <3>. QED BY ONLY <2>2, <3>1, <3>2
  <2>4. \A q \in Slots, c \in Customers : Carries(q, c)' <=> Carries(q, c)
    BY <1>2 DEF Carries, Save, Busy
  <2>. QED BY <1>2, <1>4, <1>8, <2>1, <2>3, <2>4 DEF AccInv, MeantInv
<1>. QED BY <1>8, <1>10

\* What "Continue" does of the form.
LEMMA SavedFacts ==
  ASSUME AccInv, Saved
  PROVE  LET p == [Top EXCEPT !.typed = Blank] IN
         /\ Depth \in 1..Depth /\ Top = pages[Depth] /\ Top \in FormPage /\ Top.kind = "form"
         /\ p \in FormPage /\ p.owner = Top.owner /\ p.text = Top.text /\ p.typed = Blank
         /\ p.profile = Top.profile /\ p.get = Top.get
         /\ pages' = [pages EXCEPT ![Depth] = p] /\ pages'[Depth] = p /\ Alike(pages')
         /\ Reached(pages) = {Depth}
         /\ ~hasty' => ~hasty /\ \A q \in Slots : ~Save(q)
<1>. DEFINE p == [Top EXCEPT !.typed = Blank]
<1>1. /\ Depth \in 1..Depth /\ Top = pages[Depth] /\ Top \in FormPage /\ Top.kind = "form"
      /\ pages' = [pages EXCEPT ![Depth] = p] /\ hasty' = (hasty \/ Saving)
  BY AccFacts, AccPageKinds DEF Saved, SetTop, AccInv
<1>2. /\ p \in FormPage /\ p.owner = Top.owner /\ p.text = Top.text /\ p.typed = Blank
      /\ p.profile = Top.profile /\ p.get = Top.get /\ p.kind = "form"
  BY <1>1, BlankFacts, FormFacts DEF FormPage
<1>. HIDE DEF p
<1>3. /\ pages' \in Seq(AccPage) /\ Len(pages') = Depth
      /\ pages'[Depth] = p /\ \A j \in 1..Depth : j # Depth => pages'[j] = pages[j]
  BY <1>1, <1>2, PageChanged, AccPageKinds DEF AccInv
<1>4. Alike(pages')
  BY <1>1, <1>2, <1>3 DEF Alike
<1>5. Reached(pages) = {Depth}
  BY <1>1, TopReached
<1>6. ~hasty' => ~hasty /\ \A q \in Slots : ~Save(q)
  BY <1>1 DEF Saving, Save
<1>. QED BY <1>1, <1>2, <1>3, <1>4, <1>5, <1>6 DEF p

LEMMA StepTapSave ==
  ASSUME AccInv, NEW q \in Slots, TapSave(q)
  PROVE  OnProfile(pages') /\ OwnInv' /\ MeantInv'
<1>. DEFINE p == [Top EXCEPT !.typed = Blank]
            c == Top.owner
<1>1. Saved /\ UNCHANGED <<shop, token, faulty, early, dead>>
      /\ None \notin {Top.text[f] : f \in Fields}
  BY DEF TapSave, Saved
<1>2. /\ Depth \in 1..Depth /\ Top = pages[Depth] /\ Top \in FormPage /\ Top.kind = "form"
      /\ p.owner = Top.owner /\ p.text = Top.text /\ p.typed = Blank
      /\ p.profile = Top.profile /\ p.get = Top.get
      /\ pages'[Depth] = p /\ Alike(pages')
      /\ Reached(pages) = {Depth}
      /\ ~hasty' => ~hasty /\ \A r \in Slots : ~Save(r)
  BY <1>1, SavedFacts
<1>. HIDE DEF p
<1>3. /\ \A r \in Slots : r # q => reqs'[r] = reqs[r]
      /\ reqs'[q] # Idle /\ reqs'[q].kind = "save" /\ reqs'[q].pc = "sent"
      /\ reqs'[q].page = Depth /\ reqs'[q].as = token /\ reqs'[q].text = Top.text
  BY TapSaveFacts
<1>4. OnProfile(pages') /\ Reached(pages') = Reached(pages)
  BY <1>2, AlikeFacts
<1>5. Depth' = Depth /\ Top' = p
  BY <1>2, AccFacts DEF Alike, Depth, Top, Last, AccInv
<1>6. ~hasty' => ~hasty /\ token = c /\ \A r \in Slots : (Save(r)' <=> r = q)
  BY <1>2, <1>3 DEF Save, Busy, AccInv, OwnInv
<1>7. p.kind = "form"
  BY <1>2, FormFacts DEF p, FormPage
<1>8. OwnInv'
  BY <1>1, <1>2, <1>3, <1>4, <1>5, <1>6, <1>7 DEF OwnInv
<1>9. MeantInv'
  <2>. SUFFICES ASSUME Quiet' PROVE MeantInv'
    BY DEF MeantInv
  <2>1. Quiet /\ ~hasty'
    BY <1>1, <1>6 DEF Quiet
  <2>2. /\ token = c /\ \A r \in Slots : ~Save(r)
        /\ \A r \in Slots : (Save(r)' <=> r = q)
    BY <1>2, <1>6, <2>1
  <2>3. \A d \in Customers : shop[d] = meant[d]
    BY <2>1, <2>2, Settled
  <2>4. /\ \A d \in Customers : d # c => meant'[d] = meant[d]
        /\ c \in Customers => meant'[c] = Meaning(c)
    BY <1>1, MeantTyped
  <2>5. c \in Customers \union {None} /\ None \notin Customers
    BY <1>2, FormFacts, NoneFacts
  <2>6. ASSUME c \in Customers
        PROVE  /\ meant'[c] = Top.text /\ FormOk(p, meant'[c])
               /\ shop[c] = meant'[c] \/ (p.profile = Over /\ p.get = Over)
    <3>1. FormOk(Top, meant[c])
      BY <1>2, <2>1, <2>5, <2>6 DEF AccInv, MeantInv
    <3>2. Top.text \in [Fields -> Values]
      BY TapSaveFacts
    <3>3. \A f \in Fields : Top.text[f] = IF Top.typed[f] = None THEN meant[c][f] ELSE Top.typed[f]
      BY <1>1, <3>1 DEF FormOk
    <3>4. Meaning(c) = Top.text
      BY <3>2, <3>3 DEF Meaning
    <3>5. meant'[c] = Top.text
      BY <2>4, <2>6, <3>4
    <3>6. CASE Top.typed = Blank
      <4>1. \A f \in Fields : Top.text[f] = meant[c][f]
        BY <3>3, <3>6, BlankFacts
      <4>2. meant[c] \in [Fields -> Values]
        BY <2>6 DEF AccInv, TypeOK, Account
      <4>3. meant[c] = Top.text
        BY <3>2, <4>1, <4>2
      <4>4. FormOk(p, meant'[c])
        BY <1>2, <3>1, <3>5, <4>3, BlankFacts DEF FormOk
      <4>. QED BY <2>3, <2>6, <3>5, <4>3, <4>4
    <3>7. CASE Top.typed # Blank
      <4>1. p.profile = Over /\ p.get = Over
        BY <1>2, <3>1, <3>7 DEF FormOk
      <4>2. FormOk(p, meant'[c])
        BY <1>2, <3>5, <4>1, BlankFacts DEF FormOk, Over
      <4>. QED BY <3>5, <4>1, <4>2
    <3>. QED BY <3>6, <3>7
  <2>7. \A k \in Reached(pages') : pages'[k].owner # None =>
          FormOk(pages'[k], meant'[pages'[k].owner])
    BY <1>2, <1>4, <2>5, <2>6
  <2>8. \A r \in Slots, d \in Customers : Carries(r, d)' <=> r = q /\ d = c
    BY <1>3, <2>2 DEF Carries
  <2>9. \A r \in Slots, d \in Customers : Carries(r, d)' =>
          /\ reqs'[r].text = meant'[d] /\ Top'.owner = d
          /\ shop'[d] = meant'[d] \/ (Top'.profile = Over /\ Top'.get = Over)
    BY <1>1, <1>2, <1>3, <1>5, <2>6, <2>8
  <2>10. \A d \in Customers : shop'[d] = meant'[d] \/ \E r \in Slots : Carries(r, d)'
    BY <1>1, <2>3, <2>4, <2>8
  <2>. QED BY <2>7, <2>9, <2>10 DEF MeantInv
<1>. QED BY <1>4, <1>8, <1>9

LEMMA StepTapSaveRemoved ==
  ASSUME AccInv, TapSaveRemoved
  PROVE  OnProfile(pages') /\ OwnInv' /\ MeantInv'
<1>1. Saved /\ UNCHANGED <<token, reqs>> /\ dead' = TRUE
  BY DEF TapSaveRemoved
<1>2. Alike(pages') /\ (~hasty' => ~hasty /\ \A r \in Slots : ~Save(r))
  BY <1>1, SavedFacts
<1>3. \A q \in Slots : Save(q)' => Save(q) /\ reqs'[q].page = reqs[q].page
  BY <1>1 DEF Save, Busy
<1>4. OnProfile(pages') /\ OwnInv'
  BY <1>1, <1>2, <1>3, StepSteady
<1>. QED BY <1>1, <1>4 DEF MeantInv, Quiet

\* The two fetches of a form are answered, lost, or shown.
LEMMA StepFetches ==
  ASSUME AccInv, NEW k \in DOMAIN pages,
         ServeFetch(k) \/ LoseFetch(k) \/ AnswerProfile(k) \/ AnswerGet(k)
  PROVE  OnProfile(pages') /\ OwnInv' /\ MeantInv'
<1>. DEFINE w == pages[k]
            c == w.owner
<1>1. /\ k \in 1..Depth /\ w \in FormPage /\ w.kind = "form" /\ Depth \in 1..Depth
      /\ Top = pages[Depth]
  BY AccFacts, AccPageKinds DEF ServeFetch, LoseFetch, AnswerProfile, AnswerGet, AccInv
<1>2. /\ UNCHANGED <<shop, token, reqs, meant, hasty, early, dead>>
      /\ faulty' = TRUE \/ UNCHANGED faulty
  BY DEF ServeFetch, LoseFetch, AnswerProfile, AnswerGet, Fault, counters, history
<1>3. faulty => faulty'
  BY <1>2
<1>4. /\ w.owner \in Customers \union {None} /\ w.text \in Text /\ w.typed \in Text
      /\ w.profile \in Fetch /\ w.get \in Fetch /\ Over \in Fetch
  BY <1>1, FormFacts DEF Fetch
\* What the form says before the step, and what the shop would answer.
<1>5. ASSUME Quiet, k \in Reached(pages), c # None
      PROVE  /\ FormOk(w, meant[c])
             /\ ~(w.profile = Over /\ w.get = Over) => shop[c] = meant[c]
  <2>1. FormOk(w, meant[c])
    BY <1>5 DEF AccInv, MeantInv
  <2>2. c \in Customers
    BY <1>4, <1>5
  <2>3. \/ shop[c] = meant[c]
        \/ \E q \in Slots : Carries(q, c)
    BY <1>5, <2>2 DEF AccInv, MeantInv
  <2>4. ASSUME NEW q \in Slots, Carries(q, c), ~(w.profile = Over /\ w.get = Over)
        PROVE  shop[c] = meant[c]
    <3>1. Top.kind = "form"
      BY <1>5, <2>4 DEF AccInv, OwnInv, Quiet, Carries
    <3>2. k = Depth
      BY <1>5, <3>1, TopReached
    <3>. QED BY <1>1, <1>5, <2>2, <2>4, <3>2 DEF AccInv, MeantInv
  <2>. QED BY <2>1, <2>3, <2>4
<1>6. Quiet' => Quiet
  BY <1>2 DEF Quiet
<1>7. CASE ServeFetch(k)
  <2>. DEFINE answer == [pc |-> "answered", text |-> shop[c]]
              p1 == [w EXCEPT !.profile = answer]
              p2 == [w EXCEPT !.get = answer]
  <2>1. /\ c # None
        /\ \/ w.profile = Sent /\ pages' = [pages EXCEPT ![k] = p1]
           \/ w.get = Sent /\ pages' = [pages EXCEPT ![k] = p2]
    BY <1>7 DEF ServeFetch
  <2>2. answer \in Fetch /\ answer.pc = "answered" /\ answer.text = shop[c]
    BY <1>4, <2>1 DEF AccInv, TypeOK, Account, Fetch
  <2>. HIDE DEF answer
  <2>3. /\ p1 \in FormPage /\ p1.owner = c /\ p1.text = w.text /\ p1.typed = w.typed
        /\ p1.profile = answer /\ p1.get = w.get
        /\ p2 \in FormPage /\ p2.owner = c /\ p2.text = w.text /\ p2.typed = w.typed
        /\ p2.profile = w.profile /\ p2.get = answer
    BY <1>1, <2>2, FormFacts DEF FormPage
  <2>. HIDE DEF p1, p2
  <2>4. Sent # Over
    BY DEF Sent, Over
  <2>5. ASSUME w.profile = Sent, pages' = [pages EXCEPT ![k] = p1]
        PROVE  OnProfile(pages') /\ OwnInv' /\ MeantInv'
    <3>1. Quiet' /\ k \in Reached(pages) /\ p1.owner # None => FormOk(p1, meant[p1.owner])
      BY <1>5, <1>6, <2>2, <2>3, <2>4, <2>5 DEF FormOk
    <3>2. (pages[k].profile = Over => p1.profile = Over) /\ (pages[k].get = Over => p1.get = Over)
      BY <2>3, <2>4, <2>5
    <3>. QED BY <1>1, <1>2, <1>3, <2>3, <2>5, <3>1, <3>2, StepFetch
  <2>6. ASSUME w.get = Sent, pages' = [pages EXCEPT ![k] = p2]
        PROVE  OnProfile(pages') /\ OwnInv' /\ MeantInv'
    <3>1. Quiet' /\ k \in Reached(pages) /\ p2.owner # None => FormOk(p2, meant[p2.owner])
      BY <1>5, <1>6, <2>2, <2>3, <2>4, <2>6 DEF FormOk
    <3>2. (pages[k].profile = Over => p2.profile = Over) /\ (pages[k].get = Over => p2.get = Over)
      BY <2>3, <2>4, <2>6
    <3>. QED BY <1>1, <1>2, <1>3, <2>3, <2>6, <3>1, <3>2, StepFetch
  <2>. QED BY <2>1, <2>5, <2>6
<1>8. CASE LoseFetch(k)
  <2>1. ~Quiet'
    BY <1>8 DEF LoseFetch, Fault, Quiet
  <2>. DEFINE p1 == [w EXCEPT !.profile = Over]
              p2 == [w EXCEPT !.get = Over]
  <2>2. pages' = [pages EXCEPT ![k] = p1] \/ pages' = [pages EXCEPT ![k] = p2]
    BY <1>8 DEF LoseFetch
  <2>3. /\ p1 \in FormPage /\ p1.owner = c /\ p1.profile = Over /\ p1.get = w.get
        /\ p2 \in FormPage /\ p2.owner = c /\ p2.profile = w.profile /\ p2.get = Over
    BY <1>1, <1>4, FormFacts DEF FormPage
  <2>. HIDE DEF p1, p2
  <2>4. ASSUME pages' = [pages EXCEPT ![k] = p1]
        PROVE  OnProfile(pages') /\ OwnInv' /\ MeantInv'
    <3>1. (pages[k].profile = Over => p1.profile = Over) /\ (pages[k].get = Over => p1.get = Over)
      BY <2>3
    <3>. QED BY <1>1, <1>2, <1>3, <2>1, <2>3, <2>4, <3>1, StepFetch
  <2>5. ASSUME pages' = [pages EXCEPT ![k] = p2]
        PROVE  OnProfile(pages') /\ OwnInv' /\ MeantInv'
    <3>1. (pages[k].profile = Over => p2.profile = Over) /\ (pages[k].get = Over => p2.get = Over)
      BY <2>3
    <3>. QED BY <1>1, <1>2, <1>3, <2>1, <2>3, <2>5, <3>1, StepFetch
  <2>. QED BY <2>2, <2>4, <2>5
<1>9. CASE AnswerProfile(k)
  <2>. DEFINE p == [w EXCEPT !.text = w.profile.text, !.profile = Over]
  <2>1. /\ w.profile.pc = "answered" /\ pages' = [pages EXCEPT ![k] = p]
    BY <1>9 DEF AnswerProfile
  <2>2. w.profile.text \in Text /\ w.profile # Over
    BY <1>4, <2>1, FetchKinds DEF Text, Over
  <2>3. /\ p \in FormPage /\ p.owner = c /\ p.text = w.profile.text /\ p.typed = w.typed
        /\ p.profile = Over /\ p.get = w.get
    BY <1>1, <1>4, <2>2, FormFacts DEF FormPage
  <2>. HIDE DEF p
  <2>4. Quiet' /\ k \in Reached(pages) /\ p.owner # None => FormOk(p, meant[p.owner])
    <3>. SUFFICES ASSUME Quiet', k \in Reached(pages), c # None
         PROVE  FormOk(p, meant[c])
      BY <2>3
    <3>1. FormOk(w, meant[c])
      BY <1>5, <1>6
    <3>2. w.typed = Blank /\ w.profile.text = meant[c]
      BY <2>1, <2>2, <3>1 DEF FormOk
    <3>. QED BY <2>3, <3>1, <3>2, BlankFacts DEF FormOk, Over
  <2>. QED BY <1>1, <1>2, <1>3, <2>1, <2>2, <2>3, <2>4, StepFetch
<1>10. CASE AnswerGet(k)
  <2>. DEFINE t == [w.text EXCEPT !["name"] = w.get.text["name"]]
              p == [w EXCEPT !.text = t, !.get = Over]
  <2>1. /\ w.get.pc = "answered" /\ pages' = [pages EXCEPT ![k] = p]
    BY <1>10 DEF AnswerGet
  <2>2. w.get.text \in [Fields -> Values] /\ w.get # Over
    BY <1>4, <2>1, FetchKinds DEF Over
  <2>3. /\ t \in Text
        /\ \A f \in Fields : t[f] = IF f = "name" THEN w.get.text[f] ELSE w.text[f]
    BY <1>4, <2>2 DEF Text, Fields
  <2>. HIDE DEF t
  <2>4. /\ p \in FormPage /\ p.owner = c /\ p.text = t /\ p.typed = w.typed
        /\ p.profile = w.profile /\ p.get = Over
    BY <1>1, <1>4, <2>3, FormFacts DEF FormPage
  <2>. HIDE DEF p
  <2>5. Quiet' /\ k \in Reached(pages) /\ p.owner # None => FormOk(p, meant[p.owner])
    <3>. SUFFICES ASSUME Quiet', k \in Reached(pages), c # None
         PROVE  FormOk(p, meant[c])
      BY <2>4
    <3>1. FormOk(w, meant[c])
      BY <1>5, <1>6
    <3>2. w.typed = Blank /\ w.get.text = meant[c]
      BY <2>1, <2>2, <3>1 DEF FormOk
    <3>. QED BY <2>3, <2>4, <3>1, <3>2, BlankFacts DEF FormOk, Over
  <2>. QED BY <1>1, <1>2, <1>3, <2>1, <2>2, <2>4, <2>5, StepFetch
<1>. QED BY <1>7, <1>8, <1>9, <1>10

LEMMA StepFailFetch ==
  ASSUME AccInv, NEW k \in DOMAIN pages, FailFetch(k)
  PROVE  OnProfile(pages') /\ OwnInv' /\ MeantInv'
<1>. DEFINE p == [pages[k] EXCEPT !.profile = Over]
            ps == [pages EXCEPT ![k] = p]
<1>1. /\ k \in 1..Depth /\ pages[k] \in FormPage /\ pages[k].kind = "form"
      /\ pages' = Append(ps, Plain("error"))
      /\ Leave /\ UNCHANGED <<token, reqs>> /\ faulty' = TRUE
  BY AccFacts, AccPageKinds DEF FailFetch, Fault, AccInv
<1>2. p \in FormPage /\ p.kind = "form" /\ p.owner = pages[k].owner /\ p \in AccPage
  <2>1. Over \in Fetch
    BY DEF Fetch
  <2>2. p \in FormPage
    BY <1>1, <2>1, FormFacts
  <2>. QED BY <1>1, <2>2, AccPageKinds DEF FormPage
<1>3. Alike(ps)
  <2>1. /\ ps \in Seq(AccPage) /\ Len(ps) = Depth
        /\ ps[k] = p /\ \A j \in 1..Depth : j # k => ps[j] = pages[j]
    BY <1>1, <1>2, AccExceptFacts DEF AccInv
  <2>. HIDE DEF p, ps
  <2>. QED BY <1>1, <1>2, <2>1 DEF Alike
<1>. HIDE DEF p, ps
<1>4. Plain("error") \in AccPage /\ Plain("error").kind = "error"
  BY AccPageKinds DEF PlainKinds
<1>5. ~hasty' => ~hasty /\ \A q \in Slots : ~Save(q)'
  BY <1>1, Left DEF Save, Busy
<1>6. ~Quiet'
  BY <1>1 DEF Quiet
<1>. QED BY <1>1, <1>3, <1>4, <1>5, <1>6, StepHigher

\* The dialog is asked for, on a profile page, and comes.
LEMMA StepOpenDialog ==
  ASSUME AccInv, OpenDialog
  PROVE  OnProfile(pages') /\ OwnInv' /\ MeantInv'
<1>. DEFINE p == [Top EXCEPT !.asked = TRUE]
<1>1. /\ Depth \in 1..Depth /\ Top = pages[Depth] /\ Top \in ProfilePage
      /\ Top.kind = "profile" /\ pages' = [pages EXCEPT ![Depth] = p]
      /\ UNCHANGED <<shop, token, reqs, faulty, meant, hasty, early, dead>>
  <2>1. Top = pages[Depth] /\ Top \in AccPage /\ Depth \in 1..Depth
    BY AccFacts DEF AccInv
  <2>2. Top.kind = "profile" /\ pages' = [pages EXCEPT ![Depth] = [pages[Depth] EXCEPT !.asked = TRUE]]
    BY DEF OpenDialog, Menu
  <2>3. UNCHANGED <<shop, token, reqs, faulty, meant, hasty, early, dead>>
    BY DEF OpenDialog, counters, history
  <2>. QED BY <2>1, <2>2, <2>3, AccPageKinds
<1>2. p \in AccPage /\ p.kind = "profile"
  BY <1>1, AccPageKinds, ProfileFacts
<1>. HIDE DEF p
<1>3. /\ pages' \in Seq(AccPage) /\ Len(pages') = Depth
      /\ pages'[Depth] = p /\ \A j \in 1..Depth : j # Depth => pages'[j] = pages[j]
  BY <1>1, <1>2, PageChanged DEF AccInv
<1>4. Alike(pages')
  BY <1>1, <1>2, <1>3 DEF Alike
<1>5. \A q \in Slots : Save(q)' <=> Save(q)
  BY <1>1 DEF Save, Busy
<1>6. OnProfile(pages') /\ OwnInv' /\ Reached(pages') = Reached(pages)
  BY <1>1, <1>4, <1>5, StepSteady
<1>7. Reached(pages) = {}
  BY <1>1, TopReached DEF Popped
<1>8. MeantInv'
  <2>. SUFFICES ASSUME Quiet' PROVE MeantInv'
    BY DEF MeantInv
  <2>1. Quiet /\ \A q \in Slots : ~Save(q) /\ ~Save(q)'
    BY <1>1, <1>5 DEF Quiet, AccInv, OwnInv
  <2>2. \A c \in Customers : shop'[c] = meant'[c]
    BY <1>1, <2>1, Settled
  <2>. QED BY <1>6, <1>7, <2>1, <2>2 DEF MeantInv, Carries
<1>. QED BY <1>6, <1>8

LEMMA StepShowDialog ==
  ASSUME AccInv, NEW k \in DOMAIN pages, ShowDialog(k)
  PROVE  OnProfile(pages') /\ OwnInv' /\ MeantInv'
<1>. DEFINE p == [pages[k] EXCEPT !.asked = FALSE]
            ps == [pages EXCEPT ![k] = p]
<1>1. PICK kind \in {"dialog", "error"} :
        /\ pages' = Append(ps, Plain(kind))
        /\ IF kind = "error" THEN Fault ELSE UNCHANGED counters
  BY DEF ShowDialog
<1>2. /\ k \in 1..Depth /\ pages[k].kind = "profile" /\ pages[k] \in ProfilePage
      /\ Leave /\ UNCHANGED <<shop, token, reqs, meant, early, dead>>
  BY AccFacts, AccPageKinds DEF ShowDialog, AccInv
<1>3. p \in AccPage /\ p.kind = "profile"
  BY <1>2, AccPageKinds, ProfileFacts
<1>4. /\ ps \in Seq(AccPage) /\ Len(ps) = Depth
      /\ ps[k] = p /\ \A j \in 1..Depth : j # k => ps[j] = pages[j]
  BY <1>2, <1>3, AccExceptFacts DEF AccInv
<1>. HIDE DEF p, ps
<1>5. Alike(ps)
  BY <1>2, <1>3, <1>4 DEF Alike
<1>6. Plain(kind) \in AccPage /\ Plain(kind).kind # "form"
  BY AccPageKinds DEF PlainKinds
<1>7. ~hasty' => ~hasty /\ \A q \in Slots : ~Save(q) /\ ~Save(q)'
  BY <1>2, Left DEF Save, Busy
<1>8. Quiet' => Quiet
  BY <1>1, <1>2, <1>7 DEF Quiet, Fault, counters
<1>9. \A j \in Reached(pages) : ps[j] = pages[j]
  BY <1>2, <1>4, TopReached, AccPageKinds
<1>10. Quiet' => /\ Quiet /\ UNCHANGED <<shop, meant>>
                 /\ \A j \in Reached(pages) : ps[j] = pages[j]
                 /\ \A q \in Slots : ~(Save(q) /\ reqs[q].pc = "sent")
  BY <1>2, <1>7, <1>8, <1>9 DEF Quiet
<1>. HIDE DEF Quiet
<1>. QED BY <1>1, <1>2, <1>5, <1>6, <1>7, <1>10, StepHigher

\* The answer to a save: the home page, on the form or in its place.
LEMMA StepAnswerSave ==
  ASSUME AccInv, NEW q \in Slots, AnswerSave(q)
  PROVE  OnProfile(pages') /\ OwnInv' /\ MeantInv'
<1>1. /\ Save(q) /\ reqs[q].pc # "sent" /\ reqs'[q] = Idle
      /\ \A r \in Slots : Kept(r)
      /\ UNCHANGED <<shop, token, mail, file, counters, history>>
  <2>1. reqs' = [reqs EXCEPT ![q] = Idle] \/ reqs' = Done(q)
    BY DEF AnswerSave
  <2>2. reqs'[q] = Idle /\ \A r \in Slots : Kept(r)
    BY <2>1, EndedFacts, DoneFacts DEF AccInv
  <2>. QED BY <2>2 DEF AnswerSave, Save
<1>2. ~hasty => /\ Top.kind = "form" /\ \A r \in Slots : Save(r) => r = q
                /\ \A r \in Slots : ~Save(r)'
  <2>. SUFFICES ASSUME ~hasty
       PROVE  /\ Top.kind = "form" /\ \A r \in Slots : Save(r) => r = q
              /\ \A r \in Slots : ~Save(r)'
    OBVIOUS
  <2>1. Top.kind = "form" /\ \A r \in Slots : Save(r) => r = q
    BY <1>1 DEF AccInv, OwnInv
  <2>2. \A r \in Slots : Save(r)' => Save(r) /\ r # q
    BY <1>1 DEF Kept, Like, Save, Busy
  <2>. QED BY <2>1, <2>2
<1>3. Quiet' => /\ Quiet /\ ~hasty /\ UNCHANGED <<shop, meant>>
                /\ \A r \in Slots : ~(Save(r) /\ reqs[r].pc = "sent")
  BY <1>1, <1>2 DEF Quiet, counters, history
<1>4. hasty' = hasty
  BY <1>1 DEF history
<1>5. CASE UNCHANGED pages
  <2>1. Alike(pages')
    BY <1>5, AccFacts DEF Alike, AccInv
  <2>2. /\ OnProfile(pages') /\ OwnInv' /\ Reached(pages') = Reached(pages)
    BY <1>1, <1>2, <1>4, <2>1, StepSteady
  <2>3. MeantInv'
    <3>. SUFFICES ASSUME Quiet' PROVE MeantInv'
      BY DEF MeantInv
    <3>1. /\ Quiet /\ ~hasty /\ UNCHANGED <<shop, meant>>
          /\ \A r \in Slots : ~Save(r)'
          /\ \A c \in Customers : shop[c] = meant[c]
      BY <1>2, <1>3, Settled
    <3>. QED BY <1>5, <2>2, <3>1 DEF AccInv, MeantInv, Carries
  <2>. QED BY <2>2, <2>3
<1>6. CASE pages' = Append(pages, Plain("home"))
  <2>1. Alike(pages)
    BY AccFacts DEF Alike, AccInv
  <2>2. Plain("home") \in AccPage /\ Plain("home").kind = "home"
    BY AccPageKinds DEF PlainKinds
  <2>3. ~hasty' => ~hasty /\ \A r \in Slots : ~Save(r)'
    BY <1>2, <1>4
  <2>4. Quiet' => /\ Quiet /\ UNCHANGED <<shop, meant>> /\ \A k \in Reached(pages) : pages[k] = pages[k]
                  /\ \A r \in Slots : ~(Save(r) /\ reqs[r].pc = "sent")
    BY <1>3
  <2>. QED BY <1>1, <1>6, <2>1, <2>2, <2>3, <2>4, StepHigher
<1>7. CASE pages' = Append(Front(pages), Plain("home"))
  <2>1. OnProfile(pages') /\ (Top.kind = "form" => Reached(pages') = {})
    BY <1>7, ReplacedReached
  <2>2. OwnInv'
    BY <1>2, <1>4, <2>1 DEF OwnInv
  <2>3. MeantInv'
    <3>. SUFFICES ASSUME Quiet' PROVE MeantInv'
      BY DEF MeantInv
    <3>1. /\ Quiet /\ Top.kind = "form" /\ UNCHANGED <<shop, meant>>
          /\ \A r \in Slots : ~Save(r)'
          /\ \A c \in Customers : shop[c] = meant[c]
      BY <1>2, <1>3, Settled
    <3>. QED BY <2>1, <3>1 DEF MeantInv, Carries
  <2>. QED BY <2>1, <2>2, <2>3
<1>. QED BY <1>5, <1>6, <1>7 DEF AnswerSave

\* The shop carries a save out.
LEMMA StepServeSave ==
  ASSUME AccInv, NEW q \in Slots, ServeSave(q)
  PROVE  OnProfile(pages') /\ OwnInv' /\ MeantInv'
<1>. DEFINE c == reqs[q].as
<1>1. /\ Save(q) /\ reqs[q].pc = "sent" /\ c \in Customers
      /\ \A d \in Customers : d # c => shop'[d] = shop[d]
      /\ shop'[c] = reqs[q].text
  BY ServeSaveFacts
<1>2. /\ reqs' = [reqs EXCEPT ![q] = [reqs[q] EXCEPT !.pc = "ok"]] /\ Busy(q)
      /\ UNCHANGED <<pages, token, counters, meant, hasty, early, dead>>
  BY DEF ServeSave
<1>3. /\ reqs'[q] # Idle /\ reqs'[q].pc = "ok" /\ \A r \in Slots : r # q => reqs'[r] = reqs[r]
      /\ reqs'[q].page = reqs[q].page /\ \A r \in Slots : Kept(r)
  BY <1>2, ServedFacts DEF AccInv
<1>4. \A r \in Slots : Save(r)' => Save(r) /\ reqs'[r].page = reqs[r].page
  BY <1>3 DEF Save, Busy, Kept, Like
<1>5. Alike(pages')
  BY <1>2, AccFacts DEF Alike, AccInv
<1>6. OnProfile(pages') /\ OwnInv' /\ Reached(pages') = Reached(pages)
  BY <1>2, <1>4, <1>5, StepSteady
<1>7. MeantInv'
  <2>. SUFFICES ASSUME Quiet' PROVE MeantInv'
    BY DEF MeantInv
  <2>1. Quiet
    BY <1>2 DEF Quiet, counters
  <2>2. \A r \in Slots : Save(r) => r = q
    BY <1>1, <2>1 DEF AccInv, OwnInv, Quiet
  <2>3. \A r \in Slots, d \in Customers : ~Carries(r, d)'
    BY <1>3, <1>4, <2>2 DEF Carries
  <2>4. reqs[q].text = meant[c]
    BY <1>1, <2>1 DEF AccInv, MeantInv, Carries
  <2>5. \A d \in Customers : d # c => shop[d] = meant[d]
    BY <1>1, <2>1, <2>2 DEF AccInv, MeantInv, Carries
  <2>6. \A d \in Customers : shop'[d] = meant'[d]
    BY <1>1, <1>2, <2>4, <2>5
  <2>. QED BY <1>2, <1>6, <2>1, <2>3, <2>6 DEF AccInv, MeantInv
<1>. QED BY <1>6, <1>7

\* Steps that are about no form.
LEMMA StepBeside ==
  ASSUME AccInv, \/ Pick \/ RemovePicture
                 \/ \E q \in Slots : \/ TapPassword(q) \/ ServePassword(q)
                                     \/ Refuse(q) \/ AnswerPassword(q) \/ Lose(q)
  PROVE  OnProfile(pages') /\ OwnInv' /\ MeantInv'
<1>1. /\ UNCHANGED <<shop, token, pages, meant, hasty, early, dead>>
      /\ faulty' = TRUE \/ UNCHANGED faulty
  BY DEF Pick, RemovePicture, TapPassword, ServePassword, Refuse, AnswerPassword, Lose,
         Fault, counters, history
<1>2. Alike(pages')
  BY <1>1, AccFacts DEF Alike, AccInv
<1>3. ASSUME \A r \in Slots : Save(r)' => Save(r) /\ reqs'[r].page = reqs[r].page
      PROVE  OnProfile(pages') /\ OwnInv'
  BY <1>1, <1>2, <1>3, StepSteady
<1>4. Quiet' => Quiet /\ UNCHANGED <<shop, meant>>
  BY <1>1 DEF Quiet
<1>5. ASSUME \A r \in Slots : (Save(r)' <=> Save(r)),
             \A r \in Slots : Save(r) => reqs'[r] = reqs[r]
      PROVE  OnProfile(pages') /\ OwnInv' /\ MeantInv'
  <2>1. OnProfile(pages') /\ OwnInv'
    BY <1>3, <1>5
  <2>2. MeantInv'
    BY <1>1, <1>4, <1>5, StepUnsaid
  <2>. QED BY <2>1, <2>2
<1>6. CASE Pick \/ RemovePicture
  <2>1. UNCHANGED reqs
    BY <1>6 DEF Pick, RemovePicture
  <2>. QED BY <1>5, <2>1 DEF Save, Busy
<1>7. ASSUME NEW q \in Slots, TapPassword(q) PROVE OnProfile(pages') /\ OwnInv' /\ MeantInv'
  <2>1. /\ \A r \in Slots : r # q => reqs'[r] = reqs[r]
        /\ reqs'[q].kind = "password" /\ ~Busy(q)
    BY <1>7, TapPasswordFacts DEF TapPassword
  <2>. QED BY <1>5, <2>1 DEF Save, Busy
<1>8. ASSUME NEW q \in Slots, ServePassword(q) \/ AnswerPassword(q)
      PROVE  OnProfile(pages') /\ OwnInv' /\ MeantInv'
  <2>1. /\ Busy(q) /\ reqs[q].kind = "password"
        /\ \/ reqs' = [reqs EXCEPT ![q] = [reqs[q] EXCEPT !.pc = "ok"]]
           \/ reqs' = [reqs EXCEPT ![q] = Idle]
    BY <1>8 DEF ServePassword, AnswerPassword
  <2>2. (\A r \in Slots : r # q => reqs'[r] = reqs[r]) /\ Kept(q)
    BY <2>1, ServedFacts, EndedFacts DEF AccInv
  <2>3. ~Save(q) /\ ~Save(q)'
    BY <2>1, <2>2 DEF Kept, Like, Save, Busy
  <2>. QED BY <1>5, <2>2, <2>3 DEF Save, Busy
<1>9. ASSUME NEW q \in Slots, Refuse(q) \/ Lose(q)
      PROVE  OnProfile(pages') /\ OwnInv' /\ MeantInv'
  <2>1. /\ Busy(q)
        /\ \/ reqs' = [reqs EXCEPT ![q] = [reqs[q] EXCEPT !.pc = "refused"]]
           \/ reqs' = [reqs EXCEPT ![q] = Idle]
    BY <1>9 DEF Refuse, Lose
  <2>2. /\ \A r \in Slots : r # q => reqs'[r] = reqs[r]
        /\ \A r \in Slots : Kept(r)
        /\ reqs'[q] # Idle => reqs'[q].pc = "refused" /\ reqs'[q].page = reqs[q].page
    BY <2>1, ServedFacts, EndedFacts DEF AccInv
  <2>3. \A r \in Slots : Save(r)' => Save(r) /\ reqs'[r].page = reqs[r].page
    BY <2>2 DEF Kept, Like, Save, Busy
  <2>4. OnProfile(pages') /\ OwnInv'
    BY <1>3, <2>3
  <2>5. MeantInv'
    <3>. SUFFICES ASSUME Quiet' PROVE MeantInv'
      BY DEF MeantInv
    <3>1. reqs[q].as = None
      BY <1>9 DEF Refuse, Lose, Fault, Quiet
    <3>2. Quiet /\ UNCHANGED <<shop, meant>> /\ None \notin Customers
      BY <1>4, NoneFacts, ValuesAssumption
    <3>3. \A r \in Slots, c \in Customers : (Carries(r, c)' <=> Carries(r, c))
      <4>1. \A c \in Customers : ~Carries(q, c) /\ ~Carries(q, c)'
        BY <2>2, <3>1, <3>2 DEF Carries, Save, Busy, Kept, Like
      <4>2. \A r \in Slots, c \in Customers : r # q => (Carries(r, c)' <=> Carries(r, c))
        BY <2>2 DEF Carries, Save, Busy
      <4>. QED BY <4>1, <4>2
    <3>4. \A r \in Slots, c \in Customers : Carries(r, c)' => reqs'[r].text = reqs[r].text
      BY <2>2 DEF Carries, Save, Busy, Kept, Like
    <3>5. Top' = Top
      BY <1>1 DEF Top, Last
    <3>. QED BY <1>1, <3>2, <3>3, <3>4, <3>5 DEF AccInv, MeantInv
  <2>. QED BY <2>4, <2>5
<1>. QED BY <1>6, <1>7, <1>8, <1>9

LEMMA StepPages ==
  ASSUME AccInv, Next
  PROVE  OnProfile(pages') /\ OwnInv' /\ MeantInv'
<1>. DEFINE Goal == OnProfile(pages') /\ OwnInv' /\ MeantInv'
<1>. SUFFICES Goal
  OBVIOUS
<1>. HIDE DEF Goal
<1>1. CASE \/ OpenHome \/ OpenProfile \/ OpenSignIn \/ SignOut
           \/ OpenForm \/ OpenPassword \/ \E c \in Customers : SignIn(c)
  BY ONLY AccInv, <1>1, StepOpenings DEF Goal
<1>2. CASE Back \/ Restart \/ OpenDialog \/ TapSaveRemoved
  BY ONLY AccInv, <1>2, StepBack, StepRestart, StepOpenDialog, StepTapSaveRemoved DEF Goal
<1>3. CASE \E f \in Fields, v \in Others : Type(f, v)
  <2>1. PICK f \in Fields, v \in Others : Type(f, v)
    BY ONLY <1>3
  <2>. QED BY ONLY AccInv, <2>1, StepType DEF Goal
<1>4. CASE \/ Pick \/ RemovePicture
           \/ \E q \in Slots : \/ TapPassword(q) \/ ServePassword(q)
                               \/ Refuse(q) \/ AnswerPassword(q) \/ Lose(q)
  BY ONLY AccInv, <1>4, StepBeside DEF Goal
<1>5. ASSUME NEW q \in Slots, TapSave(q) \/ ServeSave(q) \/ AnswerSave(q)
      PROVE  Goal
  BY ONLY AccInv, <1>5, StepTapSave, StepServeSave, StepAnswerSave DEF Goal
<1>6. ASSUME NEW k \in DOMAIN pages,
             \/ ServeFetch(k) \/ LoseFetch(k) \/ FailFetch(k)
             \/ AnswerProfile(k) \/ AnswerGet(k) \/ ShowDialog(k)
      PROVE  Goal
  BY ONLY AccInv, <1>6, StepFetches, StepFailFetch, StepShowDialog DEF Goal
<1>. QED BY ONLY Next, <1>1, <1>2, <1>3, <1>4, <1>5, <1>6 DEF Next

LEMMA InitAccount == Init => AccInv
<1>. SUFFICES ASSUME Init PROVE AccInv
  OBVIOUS
<1>1. /\ pages = <<Plain("home")>> /\ reqs = [q \in Slots |-> Idle]
      /\ acts = 0 /\ faulty = FALSE /\ renamed = {} /\ hasty = FALSE
      /\ early = FALSE /\ dead = FALSE
      /\ token \in Customers \union {None} /\ mail = token /\ file = "none"
      /\ shop = [c \in Customers |-> [f \in Fields |-> c]] /\ meant = shop
  BY DEF Init
<1>2. /\ Plain("home") \in AccPage /\ Plain("home").kind = "home"
      /\ Len(pages) = 1 /\ pages[1] = Plain("home") /\ pages \in Seq(AccPage)
  BY <1>1, AccPageKinds DEF PlainKinds
<1>3. /\ \A c \in Customers : /\ [f \in Fields |-> c] \in [Fields -> Values]
                              /\ [f \in Fields |-> c]["email"] = c
      /\ shop \in [Customers -> Account] /\ meant \in [Customers -> Account]
      /\ \A c \in Customers : shop[c] = meant[c] /\ shop[c]["email"] = c
  BY <1>1, NoneFacts DEF Account, Fields
<1>4. \A q \in Slots : reqs[q] = Idle /\ ~Busy(q) /\ ~Save(q)
  BY <1>1 DEF Busy, Save
<1>5. TypeOK
  <2>1. reqs \in [Slots -> {Idle} \union Request]
    BY <1>1
  <2>2. Len(pages) \in 1..MaxDepth /\ acts \in 0..MaxActs
    BY <1>1, <1>2, BoundsAssumption
  <2>3. mail \in Values \union {None}
    BY <1>1, NoneFacts
  <2>. QED BY <1>1, <1>2, <1>3, <2>1, <2>2, <2>3 DEF TypeOK, AccPage
<1>6. Filled /\ PasswordByOwnEmail
  BY <1>4 DEF Filled, PasswordByOwnEmail
<1>7. MailInv
  BY <1>1, <1>3 DEF MailInv
<1>8. OnProfile(pages) /\ OwnInv /\ MeantInv
  <2>1. OnProfile(pages) /\ Reached(pages) = {}
    BY <1>2 DEF OnProfile, Reached
  <2>. QED BY <1>3, <1>4, <2>1 DEF OwnInv, MeantInv, Carries
<1>. QED BY <1>5, <1>6, <1>7, <1>8 DEF AccInv

LEMMA StepAccount == AccInv /\ [Next]_vars => AccInv'
<1>. SUFFICES ASSUME AccInv, [Next]_vars PROVE AccInv'
  OBVIOUS
<1>1. CASE Next
  BY ONLY AccInv, <1>1, TypeStep, MailStep, StepPages DEF AccInv
<1>2. CASE UNCHANGED vars
  BY ONLY AccInv, <1>2
     DEF AccInv, vars, counters, history, TypeOK, Filled, MailInv, PasswordByOwnEmail,
         OnProfile, OwnInv, MeantInv, Reached, Save, Busy, Carries,
         Quiet, Top, Depth, FormOk, Last
<1>. QED BY <1>1, <1>2

LEMMA AccInvariance == Spec => []AccInv
BY InitAccount, StepAccount, PTL DEF Spec

\* Every request knows the page that sent it or that it is gone, every form
\* has the texts and fetches of a form, and there is room for the pages the
\* answers push.
THEOREM ProfileTypes == Spec => []TypeOK
<1>1. AccInv => TypeOK
  BY DEF AccInv
<1>. QED BY <1>1, AccInvariance, PTL

\* Every change of password carries the e-mail of the account whose token it
\* carries, as long as that account was not renamed by the form.
THEOREM PasswordsByOwnEmail == Spec => []PasswordByOwnEmail
<1>1. AccInv => PasswordByOwnEmail
  BY DEF AccInv
<1>. QED BY <1>1, AccInvariance, PTL

\* However deep the stack and whoever signed in on the way, the account form on
\* top was opened by the customer who is signed in, if nobody left a form or
\* saved again while a save was under way: Back, the only way to a page opened
\* earlier, never takes off a form, a profile page or a sign-in page.
THEOREM FormsOfSession == Spec => []FormOfSession
<1>1. AccInv => FormOfSession
  <2>. SUFFICES ASSUME AccInv, ~hasty, Top.kind = "form"
       PROVE  Top.owner = token
    BY DEF FormOfSession
  <2>1. Reached(pages) = {Depth} /\ Top = pages[Depth]
    BY TopReached, AccFacts DEF AccInv
  <2>. QED BY <2>1 DEF AccInv, OwnInv
<1>. QED BY <1>1, AccInvariance, PTL

\* When no save is under way every account says what its customer meant last,
\* however the two fetches that fill a form were interleaved with the saves, if
\* no save was doubled or left, nothing was typed into a form that was not yet
\* filled, no save was tapped after "Remove" and nothing failed.
THEOREM ProfileAsMeant == Spec => []AsMeant
<1>1. AccInv => AsMeant
  <2>. SUFFICES ASSUME AccInv, Quiet, ~Saving
       PROVE  shop = meant
    BY DEF AsMeant, Quiet
  <2>1. \A q \in Slots, c \in Customers : ~Carries(q, c)
    BY DEF Saving, Carries, Save
  <2>2. \A c \in Customers : shop[c] = meant[c]
    BY <2>1 DEF AccInv, MeantInv
  <2>3. shop \in [Customers -> Account] /\ meant \in [Customers -> Account]
    BY DEF AccInv, TypeOK
  <2>. QED BY <2>2, <2>3
<1>. QED BY <1>1, AccInvariance, PTL

-----------------------------------------------------------------------------
(* The page of products                                                    *)

PageCalls == {r \in Call : r.kind = "list" => r.of = {}}

Single ==
  Open /\ ~overlap =>
    /\ \A q \in Calls : Pending(q) => calls[q].alive
    /\ \A q, r \in Calls : Pending(q) /\ Pending(r) => q = r

Calm == Open /\ ~overlap /\ ~elsewhere /\ faults = 0

Fresh ==
  Calm =>
    /\ \A q \in Calls : Pending(q) /\ calls[q].pc = "ok" /\ calls[q].kind = "list" =>
         calls[q].marks = wish
    /\ (\A q \in Calls : ~Pending(q)) => page.filled /\ page.marks = wish

PageInv ==
  /\ CatalogueTypeOK
  /\ \A q \in Calls : calls[q] = Free \/ calls[q] \in PageCalls
  /\ calls = [q \in Calls |-> calls[q]]
  /\ Single /\ Fresh

LEMMA FreeFacts == \A r \in PageCalls : r # Free
  BY DEF PageCalls, Call, Free

LEMMA CalledFacts ==
  ASSUME NEW kind \in {"list", "heart"}, NEW of \in SUBSET Products, kind = "list" => of = {}
  PROVE  /\ Called(kind, of) \in PageCalls /\ Called(kind, of) # Free
         /\ Called(kind, of).pc = "sent" /\ Called(kind, of).alive
  BY DEF Called, PageCalls, Call, Free

\* One request changes, and is of the page that is open if it is of one.
LEMMA PageTypesKept ==
  ASSUME PageInv, NEW q \in Calls, NEW x, x = Free \/ x \in PageCalls,
         calls' = [calls EXCEPT ![q] = x],
         x # Free => (x.alive => page' # NoPage),
         page # NoPage => page' # NoPage,
         page' = NoPage \/ page' \in Page, wish' \subseteq Products,
         taps' \in 0..MaxTaps, faults' \in 0..MaxFaults,
         overlap' \in BOOLEAN, elsewhere' \in BOOLEAN
  PROVE  /\ CatalogueTypeOK'
         /\ \A r \in Calls : calls'[r] = Free \/ calls'[r] \in PageCalls
         /\ calls' = [r \in Calls |-> calls'[r]]
         /\ calls'[q] = x /\ \A r \in Calls : r # q => calls'[r] = calls[r]
<1>1. calls = [r \in Calls |-> calls[r]]
  BY DEF PageInv
<1>2. calls'[q] = x /\ \A r \in Calls : r # q => calls'[r] = calls[r]
  BY <1>1
<1>3. calls' = [r \in Calls |-> calls'[r]]
  BY <1>1
<1>4. \A r \in Calls : calls'[r] = Free \/ calls'[r] \in PageCalls
  BY <1>2 DEF PageInv
<1>5. \A r \in Calls : \/ calls'[r] = Free
                       \/ calls'[r] \in Call /\ (calls'[r].alive => page' # NoPage)
  BY <1>2 DEF PageInv, CatalogueTypeOK, PageCalls
<1>6. CatalogueTypeOK'
  BY <1>5 DEF CatalogueTypeOK
<1>. QED BY <1>2, <1>3, <1>4, <1>6

LEMMA InitPageInv == CatalogueInit => PageInv
<1>. SUFFICES ASSUME CatalogueInit PROVE PageInv
  OBVIOUS
<1>1. \A q \in Calls : calls[q] = Free
  BY DEF CatalogueInit
<1>2. CatalogueTypeOK
  <2>1. 0 \in 0..MaxTaps /\ 0 \in 0..MaxFaults
    BY CatalogueBounds
  <2>. QED BY <1>1, <2>1 DEF CatalogueInit, CatalogueTypeOK
<1>3. Single /\ Fresh
  BY DEF CatalogueInit, Single, Fresh, Calm, Open
<1>4. calls = [q \in Calls |-> calls[q]]
  BY DEF CatalogueInit
<1>. QED BY <1>1, <1>2, <1>3, <1>4 DEF PageInv

LEMMA StepOpen ==
  ASSUME PageInv, NEW q \in Calls, NEW kind \in {"category", "featured"}, OpenPage(q, kind)
  PROVE  PageInv'
<1>. DEFINE x == Called("list", {})
<1>1. /\ ~Pending(q) /\ calls' = [calls EXCEPT ![q] = x]
      /\ page' = [kind |-> kind, filled |-> FALSE, marks |-> {}, loading |-> TRUE]
      /\ elsewhere' = FALSE /\ overlap' = (\E r \in Calls : Pending(r))
      /\ UNCHANGED <<wish, taps, faults>>
  BY DEF OpenPage
<1>2. x \in PageCalls /\ x # Free /\ x.pc = "sent" /\ x.alive
  BY CalledFacts
<1>. HIDE DEF x
<1>3. page' \in Page /\ page' # NoPage
  <2>1. page' \in Page
    BY <1>1 DEF Page
  <2>. QED BY <1>1, <2>1 DEF Page, NoPage
<1>4. wish' \subseteq Products /\ taps' \in 0..MaxTaps /\ faults' \in 0..MaxFaults
      /\ overlap' \in BOOLEAN /\ elsewhere' \in BOOLEAN
  BY <1>1 DEF PageInv, CatalogueTypeOK
<1>5. /\ CatalogueTypeOK'
      /\ \A r \in Calls : calls'[r] = Free \/ calls'[r] \in PageCalls
      /\ calls' = [r \in Calls |-> calls'[r]]
      /\ calls'[q] = x /\ \A r \in Calls : r # q => calls'[r] = calls[r]
  BY <1>1, <1>2, <1>3, <1>4, PageTypesKept
<1>6. Single' /\ Fresh'
  BY <1>1, <1>2, <1>5 DEF Single, Fresh, Calm, Pending
<1>. QED BY <1>5, <1>6 DEF PageInv

LEMMA StepLeavePage ==
  ASSUME PageInv, LeavePage
  PROVE  PageInv'
<1>1. /\ page' = NoPage /\ UNCHANGED <<wish, taps, faults, overlap, elsewhere>>
      /\ calls' = [q \in Calls |-> IF Pending(q) THEN [calls[q] EXCEPT !.alive = FALSE] ELSE Free]
  BY DEF LeavePage
<1>2. \A q \in Calls : \/ calls'[q] = Free
                       \/ calls'[q] \in PageCalls /\ ~calls'[q].alive
  <2>. SUFFICES ASSUME NEW q \in Calls, Pending(q)
       PROVE  /\ [calls[q] EXCEPT !.alive = FALSE] \in PageCalls
              /\ ~[calls[q] EXCEPT !.alive = FALSE].alive
    BY <1>1
  <2>1. calls[q] \in PageCalls
    BY DEF PageInv, Pending
  <2>. QED BY <2>1 DEF PageCalls, Call
<1>3. CatalogueTypeOK'
  BY <1>1, <1>2 DEF PageInv, CatalogueTypeOK, PageCalls
<1>4. Single' /\ Fresh'
  BY <1>1 DEF Single, Fresh, Calm, Open
<1>. QED BY <1>1, <1>2, <1>3, <1>4 DEF PageInv

LEMMA StepLoaderEnds ==
  ASSUME PageInv, LoaderEnds
  PROVE  PageInv'
<1>1. /\ page' = [page EXCEPT !.loading = FALSE] /\ page \in Page
      /\ UNCHANGED <<wish, calls, taps, faults, overlap, elsewhere>>
  BY DEF LoaderEnds, Open, PageInv, CatalogueTypeOK
<1>2. page' \in Page /\ page'.filled = page.filled /\ page'.marks = page.marks
  BY <1>1 DEF Page
<1>3. page # NoPage /\ page' # NoPage
  BY <1>1, <1>2 DEF Page, NoPage
<1>4. CatalogueTypeOK'
  BY <1>1, <1>2, <1>3 DEF PageInv, CatalogueTypeOK
<1>5. Single' /\ Fresh'
  BY <1>1, <1>2, <1>3 DEF PageInv, Single, Fresh, Calm, Open, Pending
<1>. QED BY <1>1, <1>4, <1>5 DEF PageInv

LEMMA StepTapHeart ==
  ASSUME PageInv, NEW q \in Calls, NEW p \in Products, TapHeart(q, p)
  PROVE  PageInv'
<1>. DEFINE x == Called("heart", {p})
<1>1. /\ ~Pending(q) /\ Open /\ taps < MaxTaps /\ taps' = taps + 1
      /\ calls' = [calls EXCEPT ![q] = x] /\ overlap' = (overlap \/ Waiting)
      /\ UNCHANGED <<wish, page, faults, elsewhere>>
  BY DEF TapHeart, Shows
<1>2. x \in PageCalls /\ x # Free /\ x.pc = "sent" /\ x.alive
  BY CalledFacts
<1>. HIDE DEF x
<1>3. /\ page' \in Page /\ page' # NoPage /\ wish' \subseteq Products
      /\ faults' \in 0..MaxFaults /\ overlap' \in BOOLEAN /\ elsewhere' \in BOOLEAN
  BY <1>1 DEF PageInv, CatalogueTypeOK, Open
<1>4. taps' \in 0..MaxTaps
  BY <1>1, CatalogueBounds DEF PageInv, CatalogueTypeOK
<1>5. /\ CatalogueTypeOK'
      /\ \A r \in Calls : calls'[r] = Free \/ calls'[r] \in PageCalls
      /\ calls' = [r \in Calls |-> calls'[r]]
      /\ calls'[q] = x /\ \A r \in Calls : r # q => calls'[r] = calls[r]
  BY <1>1, <1>2, <1>3, <1>4, PageTypesKept
<1>6. ~overlap' => ~overlap /\ \A r \in Calls : ~Pending(r)
  BY <1>1 DEF PageInv, Single, Waiting
<1>7. Single' /\ Fresh'
  BY <1>1, <1>2, <1>5, <1>6 DEF Single, Fresh, Calm, Pending
<1>. QED BY <1>5, <1>7 DEF PageInv

LEMMA StepElsewhere ==
  ASSUME PageInv, NEW p \in Products, ChangeElsewhere(p)
  PROVE  PageInv'
<1>1. /\ elsewhere' = TRUE /\ UNCHANGED <<page, calls, faults, overlap>>
      /\ wish' \subseteq Products
  BY DEF ChangeElsewhere, PageInv, CatalogueTypeOK
<1>2. taps' \in 0..MaxTaps
  BY CatalogueBounds DEF ChangeElsewhere, PageInv, CatalogueTypeOK
<1>3. CatalogueTypeOK' /\ Single' /\ Fresh'
  BY <1>1, <1>2 DEF PageInv, CatalogueTypeOK, Single, Fresh, Calm, Open, Pending
<1>. QED BY <1>1, <1>3 DEF PageInv

LEMMA StepServe ==
  ASSUME PageInv, NEW q \in Calls, Serve(q)
  PROVE  PageInv'
<1>. DEFINE x == [calls[q] EXCEPT !.pc = "ok", !.marks = wish]
<1>1. /\ Pending(q) /\ calls[q] \in PageCalls /\ calls' = [calls EXCEPT ![q] = x]
      /\ wish' = wish \union calls[q].of
      /\ UNCHANGED <<page, taps, faults, overlap, elsewhere>>
      /\ wish \subseteq Products
  BY DEF Serve, PageInv, CatalogueTypeOK, Pending
<1>2. /\ x \in PageCalls /\ x.kind = calls[q].kind /\ x.marks = wish
      /\ x.alive = calls[q].alive /\ calls[q].of \subseteq Products
      /\ calls[q].kind = "list" => calls[q].of = {}
  BY <1>1 DEF PageCalls, Call
<1>. HIDE DEF x
<1>3. /\ page' = NoPage \/ page' \in Page
      /\ x # Free => (x.alive => page' # NoPage)
      /\ page # NoPage => page' # NoPage
  BY <1>1, <1>2 DEF PageInv, CatalogueTypeOK, Pending
<1>4. /\ wish' \subseteq Products /\ taps' \in 0..MaxTaps /\ faults' \in 0..MaxFaults
      /\ overlap' \in BOOLEAN /\ elsewhere' \in BOOLEAN
  BY <1>1, <1>2 DEF PageInv, CatalogueTypeOK
<1>5. /\ CatalogueTypeOK'
      /\ \A r \in Calls : calls'[r] = Free \/ calls'[r] \in PageCalls
      /\ calls' = [r \in Calls |-> calls'[r]]
      /\ calls'[q] = x /\ \A r \in Calls : r # q => calls'[r] = calls[r]
  BY <1>1, <1>2, <1>3, <1>4, PageTypesKept
<1>6. x # Free
  BY <1>2, FreeFacts
<1>7. Single'
  BY <1>1, <1>2, <1>5 DEF PageInv, Single, Open, Pending
<1>8. Fresh'
  <2>. SUFFICES ASSUME Calm' PROVE
         /\ \A r \in Calls : Pending(r)' /\ calls'[r].pc = "ok" /\ calls'[r].kind = "list" =>
              calls'[r].marks = wish'
         /\ (\A r \in Calls : ~Pending(r)') => page'.filled /\ page'.marks = wish'
    BY DEF Fresh
  <2>1. \A r \in Calls : Pending(r)' => r = q
    BY <1>1, <1>5, <1>6, <1>7 DEF Single, Calm, Pending
  <2>2. Pending(q)'
    BY <1>5, <1>6 DEF Pending
  <2>3. x.kind = "list" => x.marks = wish'
    BY <1>1, <1>2
  <2>. QED BY <1>5, <2>1, <2>2, <2>3
<1>. QED BY <1>5, <1>7, <1>8 DEF PageInv

LEMMA StepLoseCall ==
  ASSUME PageInv, NEW q \in Calls, LoseCall(q)
  PROVE  PageInv'
<1>1. /\ calls' = [calls EXCEPT ![q] = Free] /\ faults' = faults + 1 /\ faults < MaxFaults
      /\ UNCHANGED <<wish, page, taps, overlap, elsewhere>>
  BY DEF LoseCall
<1>2. faults' \in 0..MaxFaults /\ faults' # 0
  BY <1>1, CatalogueBounds DEF PageInv, CatalogueTypeOK
<1>3. /\ page' = NoPage \/ page' \in Page
      /\ page # NoPage => page' # NoPage
      /\ wish' \subseteq Products /\ taps' \in 0..MaxTaps
      /\ overlap' \in BOOLEAN /\ elsewhere' \in BOOLEAN
  BY <1>1 DEF PageInv, CatalogueTypeOK
<1>4. /\ CatalogueTypeOK'
      /\ \A r \in Calls : calls'[r] = Free \/ calls'[r] \in PageCalls
      /\ calls' = [r \in Calls |-> calls'[r]]
      /\ calls'[q] = Free /\ \A r \in Calls : r # q => calls'[r] = calls[r]
  BY <1>1, <1>2, <1>3, PageTypesKept
<1>5. Single'
  BY <1>1, <1>4 DEF PageInv, Single, Open, Pending
<1>6. Fresh'
  BY <1>2 DEF Fresh, Calm
<1>. QED BY <1>4, <1>5, <1>6 DEF PageInv

LEMMA StepAnswerList ==
  ASSUME PageInv, NEW q \in Calls, AnswerList(q)
  PROVE  PageInv'
<1>1. /\ Pending(q) /\ calls[q] \in PageCalls /\ calls[q].pc = "ok" /\ calls[q].kind = "list"
      /\ calls' = [calls EXCEPT ![q] = Free]
      /\ page' = IF calls[q].alive
                 THEN [page EXCEPT !.filled = TRUE, !.marks = calls[q].marks] ELSE page
      /\ UNCHANGED <<wish, taps, faults, overlap, elsewhere>>
  BY DEF AnswerList, Answered, PageInv, Pending
<1>2. calls[q].alive =>
        page # NoPage /\ page' \in Page /\ page'.filled /\ page'.marks = calls[q].marks
  <2>. SUFFICES ASSUME calls[q].alive
       PROVE  page # NoPage /\ page' \in Page /\ page'.filled /\ page'.marks = calls[q].marks
    OBVIOUS
  <2>1. page \in Page /\ page # NoPage
    BY <1>1 DEF PageInv, CatalogueTypeOK, Pending
  <2>2. calls[q].marks \in SUBSET Products
    BY <1>1 DEF PageCalls, Call
  <2>. QED BY <1>1, <2>1, <2>2 DEF Page
<1>3. (page' = NoPage \/ page' \in Page) /\ (page # NoPage => page' # NoPage)
  <2>1. \A p \in Page : p # NoPage
    BY DEF Page, NoPage
  <2>2. page = NoPage \/ page \in Page
    BY DEF PageInv, CatalogueTypeOK
  <2>. QED BY <1>1, <1>2, <2>1, <2>2
<1>4. /\ wish' \subseteq Products /\ taps' \in 0..MaxTaps /\ faults' \in 0..MaxFaults
      /\ overlap' \in BOOLEAN /\ elsewhere' \in BOOLEAN
  BY <1>1 DEF PageInv, CatalogueTypeOK
<1>5. /\ CatalogueTypeOK'
      /\ \A r \in Calls : calls'[r] = Free \/ calls'[r] \in PageCalls
      /\ calls' = [r \in Calls |-> calls'[r]]
      /\ calls'[q] = Free /\ \A r \in Calls : r # q => calls'[r] = calls[r]
  BY <1>1, <1>3, <1>4, PageTypesKept
<1>6. Open' => Open
  BY <1>1, <1>2 DEF Open
<1>7. Single'
  BY <1>1, <1>5, <1>6 DEF PageInv, Single, Pending
<1>8. Fresh'
  <2>. SUFFICES ASSUME Calm' PROVE
         /\ \A r \in Calls : ~Pending(r)'
         /\ page'.filled /\ page'.marks = wish'
    BY DEF Fresh
  <2>1. Calm
    BY <1>1, <1>6 DEF Calm
  <2>2. calls[q].alive /\ \A r \in Calls : Pending(r) => r = q
    BY <1>1, <2>1 DEF PageInv, Single, Calm
  <2>3. calls[q].marks = wish
    BY <1>1, <2>1 DEF PageInv, Fresh
  <2>. QED BY <1>1, <1>2, <1>5, <2>2, <2>3 DEF Pending
<1>. QED BY <1>5, <1>7, <1>8 DEF PageInv

LEMMA StepAnswerHeart ==
  ASSUME PageInv, NEW q \in Calls, AnswerHeart(q)
  PROVE  PageInv'
<1>. DEFINE x == IF calls[q].alive THEN Called("list", {}) ELSE Free
<1>1. /\ Pending(q) /\ calls[q] \in PageCalls
      /\ calls' = [calls EXCEPT ![q] = x]
      /\ page' = IF calls[q].alive THEN Refreshed ELSE page
      /\ UNCHANGED <<wish, taps, faults, overlap, elsewhere>>
  BY DEF AnswerHeart, Answered, PageInv, Pending
<1>2. /\ Called("list", {}) \in PageCalls /\ Called("list", {}) # Free
      /\ Called("list", {}).pc = "sent" /\ Called("list", {}).alive
  BY CalledFacts
<1>3. /\ x = Free \/ x \in PageCalls
      /\ x # Free => x.pc = "sent" /\ x.alive /\ calls[q].alive
      /\ calls[q].alive => x # Free
  BY <1>2
<1>. HIDE DEF x
<1>4. /\ page' = NoPage \/ page' \in Page
      /\ page # NoPage <=> page' # NoPage
      /\ x # Free => page' # NoPage
  <2>1. \A p \in Page : p # NoPage
    BY DEF Page, NoPage
  <2>2. page = NoPage \/ page \in Page
    BY DEF PageInv, CatalogueTypeOK
  <2>3. calls[q].alive => page # NoPage
    BY <1>1 DEF PageInv, CatalogueTypeOK, Pending
  <2>4. page \in Page => Refreshed \in Page
    BY DEF Page, Refreshed
  <2>. QED BY <1>1, <1>3, <2>1, <2>2, <2>3, <2>4
<1>5. /\ wish' \subseteq Products /\ taps' \in 0..MaxTaps /\ faults' \in 0..MaxFaults
      /\ overlap' \in BOOLEAN /\ elsewhere' \in BOOLEAN
  BY <1>1 DEF PageInv, CatalogueTypeOK
<1>6. /\ CatalogueTypeOK'
      /\ \A r \in Calls : calls'[r] = Free \/ calls'[r] \in PageCalls
      /\ calls' = [r \in Calls |-> calls'[r]]
      /\ calls'[q] = x /\ \A r \in Calls : r # q => calls'[r] = calls[r]
  BY <1>1, <1>3, <1>4, <1>5, PageTypesKept
<1>7. Single'
  BY <1>1, <1>3, <1>4, <1>6 DEF PageInv, Single, Open, Pending
<1>8. Fresh'
  <2>. SUFFICES ASSUME Calm' PROVE Fresh'
    BY DEF Fresh
  <2>1. Calm
    BY <1>1, <1>4 DEF Calm, Open
  <2>2. calls[q].alive /\ \A r \in Calls : Pending(r) => r = q
    BY <1>1, <2>1 DEF PageInv, Single, Calm
  <2>. QED BY <1>3, <1>6, <2>2 DEF Fresh, Pending
<1>. QED BY <1>6, <1>7, <1>8 DEF PageInv

LEMMA PageInductive == PageInv /\ [CatalogueNext]_catalogueVars => PageInv'
<1>. SUFFICES ASSUME PageInv, [CatalogueNext]_catalogueVars PROVE PageInv'
  OBVIOUS
<1>1. CASE UNCHANGED catalogueVars
  BY <1>1 DEF catalogueVars, PageInv, CatalogueTypeOK, Single, Fresh, Calm, Open, Pending
<1>2. ASSUME NEW q \in Calls,
             \/ \E kind \in {"category", "featured"} : OpenPage(q, kind)
             \/ \E p \in Products : TapHeart(q, p)
             \/ Serve(q) \/ Answer(q) \/ LoseCall(q)
      PROVE  PageInv'
  BY <1>2, StepOpen, StepTapHeart, StepServe, StepAnswerList, StepAnswerHeart, StepLoseCall
     DEF Answer
<1>3. CASE LeavePage \/ LoaderEnds \/ \E p \in Products : ChangeElsewhere(p)
  BY <1>3, StepLeavePage, StepLoaderEnds, StepElsewhere
<1>. QED BY <1>1, <1>2, <1>3 DEF CatalogueNext

(***************************************************************************)
(* While hearts are only tapped on a page at rest, at most one request of  *)
(* it is under way, and what the shop has answered is still true.          *)
(***************************************************************************)
THEOREM PageInvariance == CatalogueSpec => []PageInv
  BY InitPageInv, PageInductive, PTL DEF CatalogueSpec

(***************************************************************************)
(* The marks that a page shows when nothing is under way are the wishlist, *)
(* unless hearts were tapped during a request, the wishlist was changed    *)
(* elsewhere, or a request was lost.                                       *)
(***************************************************************************)
THEOREM MarksAreTheWishlist == CatalogueSpec => []MarksFollow
<1>1. PageInv => MarksFollow
  BY DEF PageInv, Single, Fresh, Calm, MarksFollow, Waiting
<1>. QED BY <1>1, PageInvariance, PTL
=============================================================================
