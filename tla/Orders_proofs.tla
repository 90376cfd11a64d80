--------------------------- MODULE Orders_proofs ----------------------------
(***************************************************************************)
(* For any orders, any number of requests and a stack of any depth: a      *)
(* refund is only asked for a completed order and matches it, the page of  *)
(* an order never goes back to a state the order has left, and the cart    *)
(* comes to hold what was reordered.                                       *)
(*                                                                         *)
(* The invariant relates what is known of an order at the shop, in the     *)
(* answers under way and on the pages: the shop's state is always one the  *)
(* order can have reached from the state a page or an answer says; and an  *)
(* answer is on its way to a page of its own order, though pages come and  *)
(* go meanwhile.  A second invariant (CountInv) counts: what was tapped is *)
(* what is in the cart and what the requests under way will add.           *)
(***************************************************************************)
EXTENDS Orders, FiniteSetTheorems, TLAPS

\* The states an order can have come to from a state.
Later == [pending    |-> Status,
          processing |-> {"processing", "completed", "closed"},
          completed  |-> {"completed", "closed"},
          closed     |-> {"closed"},
          canceled   |-> {"canceled"}]

Onward(st, st2) == \A o \in Orders : st2[o] \in Later[st[o]]

LEMMA LaterFacts ==
  /\ \A s \in Status : s \in Later[s] /\ Later[s] \subseteq Status
  /\ \A s \in Status : \A t \in Later[s] : \A u \in Later[t] : u \in Later[s]
  /\ \A s \in Status : \A t \in Later[s] : Rank[t] >= Rank[s]
  /\ \A s \in DOMAIN After : After[s] \in Later[s] /\ s \in Status
  /\ "canceled" \in Later["pending"]
  BY DEF Later, Status, Rank, After

-----------------------------------------------------------------------------
(* The invariant                                                           *)

Pages == ListPage \union Detail \union Refund \union {Error}
Requests == [pc   : {"sent", "ok", "refused"},
             kind : {"list", "order", "reorder", "cancel", "refund"},
             page : Nat, id : Orders \union {None}, is : Status \union {""}]

Typed ==
  /\ status \in [Orders -> Status]
  /\ pages \in Seq(Pages) /\ pages # <<>>
  /\ reqs \in [Slots -> {Idle} \union Requests]
  /\ hasty \in BOOLEAN
  /\ \A a \in asked : a.id \in Orders

\* The quantities of a refund are those of the order where none was changed.
Filled(o, qty, spun) ==
  Len(qty) = Lines[o] /\ \A i \in 1..Lines[o] : i \notin spun => qty[i] = 1

\* What a page says of its order, if st are the states of the orders.
PageOk(p, st) ==
  /\ p.kind = "detail" /\ p.status # "" => st[p.id] \in Later[p.status]
  /\ p.kind = "refund" =>
       st[p.id] \in Later["completed"] /\ (p.qty = <<>> \/ Filled(p.id, p.qty, p.spun))

\* A request r of page p, if the shopper is (not) hasty.
Belongs(r, p, h) ==
  /\ r.kind = "list" => p.kind = "list"
  /\ r.kind = "cancel" => p.kind = "detail"
  /\ r.kind = "order" =>
       /\ p.kind \in {"detail", "refund"} /\ p.id = r.id
       /\ ~h /\ r.pc = "ok" /\ p.kind = "detail" /\ p.status # "" =>
            r.is \in Later[p.status]

ReqOk(r, ps, st, h) ==
  r # Idle =>
    /\ r.page <= Len(ps)
    /\ r.kind = "order" =>
         r.id \in Orders /\ (r.pc = "ok" => r.is \in Status /\ st[r.id] \in Later[r.is])
    /\ r.page # 0 => Belongs(r, ps[r.page], h)

Asks(r, k) == r # Idle /\ r.page = k /\ r.kind \in {"cancel", "order"}

\* Of one page, at most one request that may change it is under way.
Alone ==
  ~hasty => \A q, r \in Slots, k \in Nat \ {0} :
              Asks(reqs[q], k) /\ Asks(reqs[r], k) => q = r

AskedOk ==
  \A a \in asked : status[a.id] \in Later["completed"] /\ Filled(a.id, a.qty, a.spun)

IInv ==
  /\ Typed
  /\ \A k \in 1..Len(pages) : PageOk(pages[k], status)
  /\ \A q \in Slots : ReqOk(reqs[q], pages, status, hasty)
  /\ Alone
  /\ AskedOk

-----------------------------------------------------------------------------
(* What stays true when orders move on and pages come and go               *)

LEMMA PageKinds ==
  ASSUME NEW p \in Pages
  PROVE  /\ p.kind \in {"list", "detail", "refund", "error"}
         /\ p.kind = "list" => p \in ListPage
         /\ p.kind = "detail" => p \in Detail
         /\ p.kind = "refund" => p \in Refund
<1>1. CASE p \in ListPage
  BY <1>1 DEF ListPage
<1>2. CASE p \in Detail
  BY <1>2 DEF Detail
<1>3. CASE p \in Refund
  BY <1>3 DEF Refund
<1>4. CASE p = Error
  BY <1>4 DEF Error
<1>. QED BY <1>1, <1>2, <1>3, <1>4 DEF Pages

LEMMA PageKept ==
  ASSUME NEW p \in Pages, NEW st \in [Orders -> Status], NEW st2 \in [Orders -> Status],
         Onward(st, st2), PageOk(p, st)
  PROVE  PageOk(p, st2)
<1>1. p.kind = "detail" => p.id \in Orders /\ p.status \in Status \union {""}
  BY PageKinds DEF Detail
<1>2. p.kind = "refund" => p.id \in Orders
  BY PageKinds DEF Refund
<1>3. "completed" \in Status
  BY DEF Status
<1>. QED BY <1>1, <1>2, <1>3, LaterFacts DEF PageOk, Onward

\* A page that differs in nothing a request of it depends on.
Alike(p, p2) ==
  /\ p2.kind = p.kind
  /\ p.kind \in {"detail", "refund"} => p2.id = p.id
  /\ p.kind = "detail" => p2.status = p.status

LEMMA RequestKept ==
  ASSUME NEW r \in {Idle} \union Requests, NEW ps, NEW ps2,
         NEW st \in [Orders -> Status], NEW st2 \in [Orders -> Status], Onward(st, st2),
         NEW h, NEW h2, h => h2,
         ReqOk(r, ps, st, h),
         r # Idle => r.page <= Len(ps2) /\ (r.page # 0 => Alike(ps[r.page], ps2[r.page]))
  PROVE  ReqOk(r, ps2, st2, h2)
<1>. SUFFICES ASSUME r # Idle PROVE ReqOk(r, ps2, st2, h2)
  BY DEF ReqOk
<1>1. r.kind = "order" => r.id \in Orders
        /\ (r.pc = "ok" => r.is \in Status /\ st2[r.id] \in Later[r.is])
  BY LaterFacts DEF ReqOk, Onward
<1>2. ASSUME r.page # 0 PROVE Belongs(r, ps2[r.page], h2)
  BY <1>2 DEF ReqOk, Belongs, Alike
<1>. QED BY <1>1, <1>2 DEF ReqOk

\* The page of a request goes.
LEMMA RequestOrphaned ==
  ASSUME NEW r \in Requests, NEW ps, NEW ps2,
         NEW st \in [Orders -> Status], NEW h,
         ReqOk(r, ps, st, h), Len(ps2) \in Nat, r # Idle
  PROVE  /\ [r EXCEPT !.page = 0] \in Requests
         /\ ReqOk([r EXCEPT !.page = 0], ps2, st, h)
<1>. DEFINE o == [r EXCEPT !.page = 0]
<1>1. /\ o \in Requests /\ o.page = 0
      /\ o.kind = r.kind /\ o.id = r.id /\ o.is = r.is /\ o.pc = r.pc
  BY DEF Requests
<1>. HIDE DEF o
<1>2. ReqOk(o, ps2, st, h)
  BY <1>1 DEF ReqOk
<1>. QED BY <1>1, <1>2 DEF o

\* No request that may change a page comes up but in the place of another.
LEMMA AloneKept ==
  ASSUME Alone, hasty => hasty',
         \A q \in Slots, k \in Nat \ {0} : Asks(reqs'[q], k) => Asks(reqs[q], k)
  PROVE  Alone'
  BY DEF Alone

LEMMA AskedKept ==
  ASSUME Typed, AskedOk, asked' = asked, status' \in [Orders -> Status],
         Onward(status, status')
  PROVE  AskedOk'
<1>1. "completed" \in Status
  BY DEF Status
<1>. QED BY <1>1, LaterFacts DEF Typed, AskedOk, Onward

LEMMA OnwardSame ==
  ASSUME NEW st \in [Orders -> Status]
  PROVE  Onward(st, st)
  BY LaterFacts DEF Onward

LEMMA InitInv == Init => IInv
<1>. SUFFICES ASSUME Init PROVE IInv
  OBVIOUS
<1>1. pages \in Seq(Pages) /\ Len(pages) = 1 /\ pages # <<>> /\ pages[1].kind = "list"
  BY DEF Init, Pages, ListPage
<1>2. \A q \in Slots : reqs[q] = Idle
  BY DEF Init
<1>3. reqs \in [Slots -> {Idle} \union Requests]
  BY DEF Init
<1>4. Typed
  BY <1>1, <1>3 DEF Init, Typed
<1>5. ASSUME NEW k \in 1..Len(pages) PROVE PageOk(pages[k], status)
  <2>1. k = 1
    BY <1>1
  <2>. QED BY <1>1, <2>1 DEF PageOk
<1>6. Alone /\ \A q \in Slots : ReqOk(reqs[q], pages, status, hasty)
  BY <1>2 DEF ReqOk, Alone, Asks
<1>7. AskedOk
  BY DEF Init, AskedOk
<1>. QED BY <1>4, <1>5, <1>6, <1>7 DEF IInv

-----------------------------------------------------------------------------
(* The stack and the requests                                              *)

LEMMA Stack ==
  ASSUME Typed
  PROVE  /\ pages \in Seq(Pages) /\ Len(pages) \in Nat \ {0}
         /\ DOMAIN pages = 1..Len(pages)
         /\ \A k \in DOMAIN pages : pages[k] \in Pages
         /\ Top = pages[Len(pages)] /\ Top \in Pages
  BY DEF Typed, Last, Top

\* A page is pushed that says nothing wrong.
LEMMA Pushed ==
  ASSUME Typed, NEW page \in Pages, pages' = Append(pages, page)
  PROVE  /\ pages' \in Seq(Pages) /\ pages' # <<>> /\ Len(pages') = Len(pages) + 1
         /\ \A k \in 1..Len(pages) : pages'[k] = pages[k]
         /\ pages'[Len(pages) + 1] = page
  BY Stack

\* The page at a position is written to.
LEMMA Written ==
  ASSUME Typed, NEW k \in 1..Len(pages), NEW page \in Pages,
         pages' = [pages EXCEPT ![k] = page]
  PROVE  /\ pages' \in Seq(Pages) /\ pages' # <<>> /\ Len(pages') = Len(pages)
         /\ \A i \in 1..Len(pages) : i # k => pages'[i] = pages[i]
         /\ pages'[k] = page
<1>1. pages \in Seq(Pages) /\ Len(pages) \in Nat \ {0} /\ DOMAIN pages = 1..Len(pages)
  BY Stack
<1>2. pages' \in [1..Len(pages) -> Pages]
  BY <1>1
<1>3. pages' \in Seq(Pages) /\ Len(pages') = Len(pages)
  BY <1>1, <1>2
<1>. QED BY <1>1, <1>2, <1>3

\* Every request is as it was, or its page has gone, or it is new and in order.
LEMMA RequestsKept ==
  ASSUME IInv, Typed', Onward(status, status'), hasty => hasty',
         \A q \in Slots :
           \/ reqs'[q] = Idle
           \/ /\ reqs'[q] = reqs[q]
              /\ reqs[q].page <= Len(pages')
              /\ reqs[q].page # 0 => Alike(pages[reqs[q].page], pages'[reqs[q].page])
           \/ reqs[q] # Idle /\ reqs'[q] = [reqs[q] EXCEPT !.page = 0]
           \/ ReqOk(reqs'[q], pages', status', hasty')
  PROVE  \A q \in Slots : ReqOk(reqs'[q], pages', status', hasty')
<1>. SUFFICES ASSUME NEW q \in Slots PROVE ReqOk(reqs'[q], pages', status', hasty')
  OBVIOUS
<1>1. /\ status \in [Orders -> Status] /\ status' \in [Orders -> Status]
      /\ hasty \in BOOLEAN /\ hasty' \in BOOLEAN
      /\ reqs[q] \in {Idle} \union Requests
      /\ ReqOk(reqs[q], pages, status, hasty)
  BY DEF IInv, Typed
<1>2. CASE reqs'[q] = Idle
  BY <1>2 DEF ReqOk
<1>3. CASE /\ reqs'[q] = reqs[q]
           /\ reqs[q].page <= Len(pages')
           /\ reqs[q].page # 0 => Alike(pages[reqs[q].page], pages'[reqs[q].page])
  <2>1. reqs[q] # Idle =>
          /\ reqs[q].page <= Len(pages')
          /\ reqs[q].page # 0 => Alike(pages[reqs[q].page], pages'[reqs[q].page])
    BY <1>3
  <2>2. ReqOk(reqs[q], pages', status', hasty')
    BY <1>1, <2>1, RequestKept, ZenonT(40)
  <2>. QED BY <1>3, <2>2
<1>4. CASE reqs[q] # Idle /\ reqs'[q] = [reqs[q] EXCEPT !.page = 0]
  <2>1. reqs[q] \in Requests
    BY <1>1, <1>4
  <2>2. /\ reqs'[q] \in Requests /\ ReqOk(reqs'[q], pages', status, hasty)
        /\ reqs'[q].page = 0 /\ Len(pages') \in Nat
    <3>1. Len(pages') \in Nat
      BY Typed' DEF Typed
    <3>2. /\ [reqs[q] EXCEPT !.page = 0] \in Requests
          /\ ReqOk([reqs[q] EXCEPT !.page = 0], pages', status, hasty)
      BY <1>1, <1>4, <2>1, <3>1, RequestOrphaned, Zenon
    <3>3. [reqs[q] EXCEPT !.page = 0].page = 0
      BY <2>1 DEF Requests
    <3>. QED BY <1>4, <3>1, <3>2, <3>3
  <2>3. reqs'[q] # Idle =>
          /\ reqs'[q].page <= Len(pages')
          /\ reqs'[q].page # 0 => Alike(pages'[reqs'[q].page], pages'[reqs'[q].page])
    BY <2>2
  <2>4. reqs'[q] \in {Idle} \union Requests
    BY <2>2
  <2>. QED BY <1>1, <2>2, <2>3, <2>4, RequestKept, ZenonT(40)
<1>. QED BY <1>2, <1>3, <1>4

\* Every page is as it was, or says nothing wrong; every request is as it was,
\* or its page has gone, or it is new and in order.
LEMMA Kept ==
  ASSUME IInv, Typed', Alone', Onward(status, status'), hasty => hasty',
         asked' = asked,
         \A k \in 1..Len(pages') :
           \/ k \in 1..Len(pages) /\ pages'[k] = pages[k]
           \/ PageOk(pages'[k], status'),
         \A q \in Slots :
           \/ reqs'[q] = Idle
           \/ /\ reqs'[q] = reqs[q]
              /\ reqs[q].page <= Len(pages')
              /\ reqs[q].page # 0 => Alike(pages[reqs[q].page], pages'[reqs[q].page])
           \/ reqs[q] # Idle /\ reqs'[q] = [reqs[q] EXCEPT !.page = 0]
           \/ ReqOk(reqs'[q], pages', status', hasty')
  PROVE  IInv'
<1>1. \A q \in Slots : ReqOk(reqs'[q], pages', status', hasty')
  BY RequestsKept
<1>2. ASSUME NEW k \in 1..Len(pages') PROVE PageOk(pages'[k], status')
  <2>1. CASE k \in 1..Len(pages) /\ pages'[k] = pages[k]
    <3>1. pages[k] \in Pages /\ PageOk(pages[k], status)
      BY <2>1 DEF IInv, Typed
    <3>2. status \in [Orders -> Status] /\ status' \in [Orders -> Status]
      BY DEF IInv, Typed
    <3>. QED BY <2>1, <3>1, <3>2, PageKept
  <2>. QED BY <2>1
<1>3. AskedOk'
  <2>1. status' \in [Orders -> Status]
    BY DEF Typed
  <2>. QED BY <2>1, AskedKept DEF IInv
<1>. QED BY <1>1, <1>2, <1>3 DEF IInv

\* What every request knows of its page, while nothing changes.
LEMMA InPlace ==
  ASSUME IInv, NEW q \in Slots, reqs[q] # Idle
  PROVE  /\ reqs[q] \in Requests /\ reqs[q].page \in 0..Len(pages)
         /\ reqs[q].page # 0 => /\ pages[reqs[q].page] \in Pages
                                /\ Belongs(reqs[q], pages[reqs[q].page], hasty)
         /\ reqs[q].kind = "order" => reqs[q].id \in Orders
<1>1. reqs[q] \in Requests /\ ReqOk(reqs[q], pages, status, hasty)
  BY DEF IInv, Typed
<1>2. reqs[q].page \in Nat
  BY <1>1 DEF Requests
<1>3. Len(pages) \in Nat \ {0} /\ pages \in Seq(Pages)
  BY Stack DEF IInv
<1>. QED BY <1>1, <1>2, <1>3 DEF ReqOk

LEMMA SentFacts ==
  ASSUME NEW kind \in {"list", "order", "reorder", "cancel", "refund"},
         NEW page \in Nat, NEW id \in Orders \union {None}
  PROVE  LET r == Sent(kind, page, id) IN
         /\ r \in Requests /\ r # Idle /\ r.pc = "sent"
         /\ r.kind = kind /\ r.page = page /\ r.id = id
  BY DEF Sent, Requests, Idle

-----------------------------------------------------------------------------
(* The actions                                                             *)

LEMMA StepProceed ==
  ASSUME IInv, NEW o \in Orders, Proceed(o)
  PROVE  IInv'
<1>1. status \in [Orders -> Status] /\ UNCHANGED <<pages, reqs, asked, hasty>>
      /\ status' = [status EXCEPT ![o] = After[@]] /\ status[o] \in DOMAIN After
  BY DEF IInv, Typed, Proceed
<1>2. After[status[o]] \in Later[status[o]] /\ After[status[o]] \in Status
  BY <1>1, LaterFacts
<1>3. status' \in [Orders -> Status] /\ Onward(status, status')
  BY <1>1, <1>2, LaterFacts DEF Onward
<1>4. Typed' /\ Alone'
  BY <1>1, <1>3 DEF IInv, Typed, Alone
<1>5. ASSUME NEW q \in Slots, reqs[q] # Idle
      PROVE  /\ reqs[q].page <= Len(pages')
             /\ reqs[q].page # 0 => Alike(pages[reqs[q].page], pages'[reqs[q].page])
  BY <1>1, <1>5, InPlace, Stack DEF Alike, IInv
<1>. QED BY <1>1, <1>3, <1>4, <1>5, Kept

\* One request moves on; no page changes.
LEMMA OneMoves ==
  ASSUME IInv, NEW q \in Slots, NEW x \in {Idle} \union Requests,
         reqs' = [reqs EXCEPT ![q] = x], UNCHANGED <<pages, asked, hasty>>,
         status' \in [Orders -> Status], Onward(status, status'),
         ReqOk(x, pages', status', hasty'),
         \A k \in Nat \ {0} : Asks(x, k) => Asks(reqs[q], k)
  PROVE  IInv'
<1>1. reqs \in [Slots -> {Idle} \union Requests]
  BY DEF IInv, Typed
<1>2. reqs'[q] = x /\ \A r \in Slots : r # q => reqs'[r] = reqs[r]
  BY <1>1
<1>3. Typed'
  BY DEF IInv, Typed
<1>4. Alone'
  <2>1. \A r \in Slots, k \in Nat \ {0} : Asks(reqs'[r], k) => Asks(reqs[r], k)
    BY <1>2
  <2>. QED BY <2>1, AloneKept DEF IInv
<1>5. ASSUME NEW r \in Slots, reqs[r] # Idle
      PROVE  /\ reqs[r].page <= Len(pages')
             /\ reqs[r].page # 0 => Alike(pages[reqs[r].page], pages'[reqs[r].page])
  BY <1>5, InPlace, Stack DEF Alike, IInv
<1>6. \A r \in Slots :
        \/ reqs'[r] = Idle
        \/ /\ reqs'[r] = reqs[r]
           /\ reqs[r].page <= Len(pages')
           /\ reqs[r].page # 0 => Alike(pages[reqs[r].page], pages'[reqs[r].page])
        \/ ReqOk(reqs'[r], pages', status', hasty')
  BY <1>2, <1>5
<1>. QED BY <1>3, <1>4, <1>6, Kept

LEMMA StepDone ==
  ASSUME IInv, NEW q \in Slots, Done(q), UNCHANGED <<status, pages, asked, hasty>>
  PROVE  IInv'
<1>1. status' \in [Orders -> Status] /\ Onward(status, status')
  BY OnwardSame DEF IInv, Typed
<1>2. ReqOk(Idle, pages', status', hasty') /\ \A k \in Nat \ {0} : ~Asks(Idle, k)
  BY DEF ReqOk, Asks
<1>. QED BY <1>1, <1>2, OneMoves DEF Done

LEMMA StepRefuse ==
  ASSUME IInv, NEW q \in Slots, Refuse(q)
  PROVE  IInv'
<1>1. status' \in [Orders -> Status] /\ Onward(status, status')
      /\ UNCHANGED <<status, pages, asked, hasty>>
  BY OnwardSame DEF IInv, Typed, Refuse
<1>. DEFINE x == [reqs[q] EXCEPT !.pc = "refused"]
<1>2. reqs[q] # Idle /\ reqs[q] \in Requests /\ reqs' = [reqs EXCEPT ![q] = x]
      /\ ReqOk(reqs[q], pages, status, hasty)
  BY DEF IInv, Typed, Refuse, Busy
<1>3. /\ x \in Requests /\ x.pc = "refused" /\ x.kind = reqs[q].kind
      /\ x.page = reqs[q].page /\ x.id = reqs[q].id
  BY <1>2 DEF Requests
<1>. HIDE DEF x
<1>4. ReqOk(x, pages', status', hasty')
  BY <1>1, <1>2, <1>3 DEF ReqOk, Belongs
<1>5. \A k \in Nat \ {0} : Asks(x, k) => Asks(reqs[q], k)
  BY <1>2, <1>3 DEF Asks
<1>. QED BY <1>1, <1>2, <1>3, <1>4, <1>5, OneMoves

LEMMA StepServe ==
  ASSUME IInv, NEW q \in Slots, Serve(q)
  PROVE  IInv'
<1>1. reqs[q] # Idle /\ reqs[q] \in Requests /\ ~Impossible(reqs[q])
      /\ status \in [Orders -> Status] /\ UNCHANGED <<pages, asked, hasty>>
      /\ ReqOk(reqs[q], pages, status, hasty)
      /\ status' = IF reqs[q].kind = "cancel"
                   THEN [status EXCEPT ![reqs[q].id] = "canceled"] ELSE status
  BY DEF IInv, Typed, Serve, Busy
<1>2. status' \in [Orders -> Status] /\ Onward(status, status')
  <2>1. CASE reqs[q].kind = "cancel"
    <3>1. reqs[q].id \in Orders /\ status[reqs[q].id] = "pending"
      BY <1>1, <2>1 DEF Impossible, Requests
    <3>2. "canceled" \in Status
      BY DEF Status
    <3>. QED BY <1>1, <2>1, <3>1, <3>2, LaterFacts DEF Onward
  <2>2. CASE reqs[q].kind # "cancel"
    BY <1>1, <2>2, OnwardSame
  <2>. QED BY <2>1, <2>2
<1>3. CASE reqs[q].kind = "order"
  <2>. DEFINE x == [Answered(q) EXCEPT !.is = status[reqs[q].id]]
  <2>1. reqs' = [reqs EXCEPT ![q] = x]
    BY <1>3 DEF Serve
  <2>2. reqs[q].id \in Orders
    BY <1>1, <1>3, InPlace
  <2>3. /\ x \in Requests /\ x # Idle /\ x.pc = "ok" /\ x.kind = "order"
        /\ x.page = reqs[q].page /\ x.id = reqs[q].id /\ x.is = status[reqs[q].id]
    BY <1>1, <1>3, <2>2 DEF Requests, Answered, Idle
  <2>. HIDE DEF x
  <2>4. x.is \in Status /\ status'[x.id] \in Later[x.is]
    BY <1>1, <1>2, <2>2, <2>3 DEF Onward
  <2>5. ASSUME x.page # 0 PROVE Belongs(x, pages'[x.page], hasty')
    <3>1. /\ x.page \in 1..Len(pages) /\ Belongs(reqs[q], pages[x.page], hasty)
      BY <1>1, <2>3, <2>5, InPlace, Stack DEF IInv
    <3>2. PageOk(pages[x.page], status)
      BY <3>1 DEF IInv
    <3>. QED BY <1>1, <1>3, <2>3, <3>1, <3>2 DEF Belongs, PageOk
  <2>6. ReqOk(x, pages', status', hasty')
    BY <1>1, <2>2, <2>3, <2>4, <2>5 DEF ReqOk
  <2>7. \A k \in Nat \ {0} : Asks(x, k) => Asks(reqs[q], k)
    BY <1>1, <1>3, <2>3 DEF Asks
  <2>. QED BY <1>1, <1>2, <2>1, <2>3, <2>6, <2>7, OneMoves
<1>4. CASE reqs[q].kind # "order"
  <2>. DEFINE x == Answered(q)
  <2>1. reqs' = [reqs EXCEPT ![q] = x]
    BY <1>4 DEF Serve
  <2>2. /\ x \in Requests /\ x.kind = reqs[q].kind /\ x.page = reqs[q].page
    BY <1>1 DEF Requests, Answered
  <2>. HIDE DEF x
  <2>3. ReqOk(x, pages', status', hasty')
    BY <1>1, <1>4, <2>2 DEF ReqOk, Belongs
  <2>4. \A k \in Nat \ {0} : Asks(x, k) => Asks(reqs[q], k)
    BY <1>1, <2>2 DEF Asks
  <2>. QED BY <1>1, <1>2, <2>1, <2>2, <2>3, <2>4, OneMoves
<1>. QED BY <1>3, <1>4

LEMMA StepAnswerCancel ==
  ASSUME IInv, NEW q \in Slots, AnswerCancel(q)
  PROVE  IInv'
<1>1. /\ reqs[q] # Idle /\ reqs[q] \in Requests /\ reqs[q].kind = "cancel"
      /\ UNCHANGED <<status, pages, asked, hasty>>
  BY DEF IInv, Typed, AnswerCancel, At, Busy
<1>2. CASE ~Alive(q)
  BY <1>1, <1>2, StepDone DEF AnswerCancel
<1>3. CASE Alive(q)
  <2>. DEFINE k == reqs[q].page
              x == Sent("order", k, pages[k].id)
  <2>1. reqs' = [reqs EXCEPT ![q] = x]
    BY <1>3 DEF AnswerCancel
  <2>2. k \in Nat \ {0} /\ k <= Len(pages) /\ pages[k].kind = "detail" /\ pages[k].id \in Orders
    <3>1. /\ k \in Nat \ {0} /\ k <= Len(pages) /\ pages[k] \in Pages
          /\ Belongs(reqs[q], pages[k], hasty)
      BY <1>1, <1>3, InPlace, Stack DEF Alive, IInv
    <3>2. pages[k].kind = "detail"
      BY <1>1, <3>1 DEF Belongs
    <3>. QED BY <3>1, <3>2, PageKinds DEF Detail
  <2>3. /\ x \in Requests /\ x.pc = "sent" /\ x.kind = "order"
        /\ x.page = k /\ x.id = pages[k].id
    BY <2>2, SentFacts
  <2>. HIDE DEF x
  <2>4. ReqOk(x, pages', status', hasty')
    BY <1>1, <2>2, <2>3 DEF ReqOk, Belongs
  <2>5. \A i \in Nat \ {0} : Asks(x, i) => Asks(reqs[q], i)
    BY <1>1, <2>3 DEF Asks
  <2>6. status' \in [Orders -> Status] /\ Onward(status, status')
    BY <1>1, OnwardSame DEF IInv, Typed
  <2>. QED BY <1>1, <2>1, <2>3, <2>4, <2>5, <2>6, OneMoves
<1>. QED BY <1>2, <1>3

\* The buttons: a new request of the top page.
LEMMA StepAsk ==
  ASSUME IInv, NEW q \in Slots, ~Busy(q), UNCHANGED <<status, pages>>,
         NEW kind \in {"reorder", "cancel", "refund"}, NEW id \in Orders \union {None},
         reqs' = [reqs EXCEPT ![q] = Sent(kind, Len(pages), id)],
         hasty' \in BOOLEAN, hasty => hasty',
         kind # "cancel" => hasty' = hasty,
         kind = "cancel" => /\ Top.kind = "detail"
                            /\ hasty \/ Waiting(Len(pages), {"cancel", "order"}) => hasty',
         AskedOk', \A a \in asked' : a.id \in Orders
  PROVE  IInv'
<1>. DEFINE x == Sent(kind, Len(pages), id)
<1>1. /\ pages \in Seq(Pages) /\ Len(pages) \in Nat \ {0} /\ Top = pages[Len(pages)]
      /\ status \in [Orders -> Status]
      /\ reqs \in [Slots -> {Idle} \union Requests] /\ reqs[q] = Idle
  BY Stack DEF IInv, Typed, Busy
<1>2. /\ x \in Requests /\ x # Idle /\ x.pc = "sent"
      /\ x.kind = kind /\ x.page = Len(pages) /\ x.id = id
  BY <1>1, SentFacts
<1>. HIDE DEF x
<1>3. reqs'[q] = x /\ \A r \in Slots : r # q => reqs'[r] = reqs[r]
  BY <1>1 DEF x
<1>4. Typed'
  <2>1. reqs' \in [Slots -> {Idle} \union Requests]
    BY <1>1, <1>2 DEF x
  <2>. QED BY <1>1, <2>1 DEF IInv, Typed
<1>5. \A r \in Slots : ReqOk(reqs'[r], pages', status', hasty')
  <2>1. ReqOk(x, pages', status', hasty')
    BY <1>1, <1>2 DEF ReqOk, Belongs
  <2>2. ASSUME NEW r \in Slots, reqs[r] # Idle
        PROVE  /\ reqs[r].page <= Len(pages')
               /\ reqs[r].page # 0 => Alike(pages[reqs[r].page], pages'[reqs[r].page])
    BY <1>1, <2>2, InPlace DEF Alike
  <2>3. Onward(status, status')
    BY <1>1, OnwardSame
  <2>4. \A r \in Slots :
          \/ reqs'[r] = Idle
          \/ /\ reqs'[r] = reqs[r]
             /\ reqs[r].page <= Len(pages')
             /\ reqs[r].page # 0 => Alike(pages[reqs[r].page], pages'[reqs[r].page])
          \/ ReqOk(reqs'[r], pages', status', hasty')
    BY <1>3, <2>1, <2>2
  <2>. QED BY <1>4, <2>3, <2>4, RequestsKept
<1>6. Alone'
  <2>1. CASE kind # "cancel"
    <3>1. \A r \in Slots, k \in Nat \ {0} : Asks(reqs'[r], k) => Asks(reqs[r], k)
      BY <1>2, <1>3, <2>1 DEF Asks
    <3>. QED BY <3>1, AloneKept DEF IInv
  <2>2. CASE kind = "cancel"
    <3>. SUFFICES ASSUME ~hasty', NEW p \in Slots, NEW r \in Slots, NEW k \in Nat \ {0},
                         Asks(reqs'[p], k), Asks(reqs'[r], k)
         PROVE  p = r
      BY DEF Alone
    <3>1. \A s \in Slots : ~Asks(reqs[s], Len(pages))
      BY <2>2 DEF Waiting, Asks, Busy
    <3>2. \A s \in Slots : s # q => reqs'[s] = reqs[s]
      BY <1>3
    <3>3. CASE p = q \/ r = q
      BY <1>2, <1>3, <3>1, <3>2, <3>3 DEF Asks
    <3>4. CASE p # q /\ r # q
      BY <1>3, <3>2, <3>4 DEF IInv, Alone
    <3>. QED BY <3>3, <3>4
  <2>. QED BY <2>1, <2>2
<1>. QED BY <1>1, <1>4, <1>5, <1>6 DEF IInv

\* A page is pushed over the top; its request, if any, is q's new one.
LEMMA StepPush ==
  ASSUME IInv, NEW q \in Slots, NEW page \in Pages, NEW x \in {Idle} \union Requests,
         pages' = Append(pages, page), reqs' = [reqs EXCEPT ![q] = x],
         UNCHANGED <<status, asked, hasty>>,
         PageOk(page, status),
         x # Idle => /\ x.page = Len(pages) + 1 /\ x.pc = "sent" /\ Belongs(x, page, hasty)
                     /\ x.kind = "order" => x.id \in Orders
  PROVE  IInv'
<1>1. /\ pages' \in Seq(Pages) /\ pages' # <<>> /\ Len(pages') = Len(pages) + 1
      /\ \A k \in 1..Len(pages) : pages'[k] = pages[k]
      /\ pages'[Len(pages) + 1] = page /\ Len(pages) \in Nat \ {0}
  BY Pushed, Stack DEF IInv
<1>2. reqs \in [Slots -> {Idle} \union Requests] /\ status \in [Orders -> Status]
  BY DEF IInv, Typed
<1>3. reqs'[q] = x /\ \A r \in Slots : r # q => reqs'[r] = reqs[r]
  BY <1>2
<1>4. Typed'
  BY <1>1, <1>2 DEF IInv, Typed
<1>5. \A k \in 1..Len(pages') :
        \/ k \in 1..Len(pages) /\ pages'[k] = pages[k]
        \/ PageOk(pages'[k], status')
  BY <1>1
<1>6. ReqOk(x, pages', status', hasty')
  BY <1>1 DEF ReqOk
<1>7. ASSUME NEW r \in Slots, reqs[r] # Idle
      PROVE  /\ reqs[r].page <= Len(pages')
             /\ reqs[r].page # 0 => Alike(pages[reqs[r].page], pages'[reqs[r].page])
  BY <1>1, <1>7, InPlace DEF Alike
<1>8. \A r \in Slots :
        \/ reqs'[r] = Idle
        \/ /\ reqs'[r] = reqs[r]
           /\ reqs[r].page <= Len(pages')
           /\ reqs[r].page # 0 => Alike(pages[reqs[r].page], pages'[reqs[r].page])
        \/ ReqOk(reqs'[r], pages', status', hasty')
  BY <1>3, <1>6, <1>7
<1>9. Alone'
  <2>. SUFFICES ASSUME ~hasty', NEW p \in Slots, NEW r \in Slots, NEW k \in Nat \ {0},
                       Asks(reqs'[p], k), Asks(reqs'[r], k)
       PROVE  p = r
    BY DEF Alone
  <2>1. CASE k = Len(pages) + 1
    <3>1. \A s \in Slots : reqs[s] # Idle => reqs[s].page # k
      BY <1>1, <2>1, InPlace
    <3>. QED BY <1>3, <3>1 DEF Asks
  <2>2. CASE k # Len(pages) + 1
    <3>1. p # q /\ r # q
      BY <1>3, <2>2 DEF Asks
    <3>. QED BY <1>3, <3>1 DEF IInv, Alone
  <2>. QED BY <2>1, <2>2
<1>10. Onward(status, status')
  BY <1>2, OnwardSame
<1>. QED BY <1>4, <1>5, <1>8, <1>9, <1>10, Kept

LEMMA StepViewDetail ==
  ASSUME IInv, NEW q \in Slots, NEW o \in Orders, ViewDetail(q, o)
  PROVE  IInv'
<1>. DEFINE page == [kind |-> "detail", id |-> o, status |-> ""]
            x == Sent("order", Len(pages) + 1, o)
<1>1. /\ pages' = Append(pages, page) /\ reqs' = [reqs EXCEPT ![q] = x]
      /\ UNCHANGED <<status, asked, hasty>>
  BY DEF ViewDetail, Push
<1>2. page \in Pages /\ page.kind = "detail" /\ page.id = o /\ page.status = ""
  BY DEF Pages, Detail
<1>3. /\ x \in Requests /\ x.pc = "sent" /\ x.kind = "order"
      /\ x.page = Len(pages) + 1 /\ x.id = o
  BY SentFacts, Stack DEF IInv
<1>. HIDE DEF page, x
<1>4. PageOk(page, status) /\ Belongs(x, page, hasty)
  BY <1>2, <1>3 DEF PageOk, Belongs
<1>. QED BY <1>1, <1>2, <1>3, <1>4, StepPush

LEMMA StepOpenRefund ==
  ASSUME IInv, NEW q \in Slots, OpenRefund(q)
  PROVE  IInv'
<1>. DEFINE o == Top.id
            x == Sent("order", Len(pages) + 1, o)
<1>1. /\ pages' = Append(pages, Form(o)) /\ reqs' = [reqs EXCEPT ![q] = x]
      /\ UNCHANGED <<status, asked, hasty>>
      /\ Top.kind = "detail" /\ Top.status = "completed"
  BY DEF OpenRefund, Push
<1>2. Top \in Pages /\ PageOk(Top, status) /\ Len(pages) \in Nat \ {0}
  BY Stack DEF IInv
<1>3. o \in Orders /\ status[o] \in Later["completed"]
  BY <1>1, <1>2, PageKinds DEF Detail, PageOk
<1>4. Form(o) \in Pages /\ Form(o).kind = "refund" /\ Form(o).id = o /\ Form(o).qty = <<>>
  <2>1. <<>> \in Seq(0..MaxQty)
    OBVIOUS
  <2>. QED BY <1>3, <2>1 DEF Pages, Form, Refund
<1>. HIDE DEF o
<1>5. /\ x \in Requests /\ x.pc = "sent" /\ x.kind = "order"
      /\ x.page = Len(pages) + 1 /\ x.id = o
  <2>1. Len(pages) + 1 \in Nat /\ o \in Orders \union {None}
    BY <1>2, <1>3
  <2>. QED BY <2>1, x = Sent("order", Len(pages) + 1, o) DEF Sent, Requests
<1>. HIDE DEF x
<1>6. PageOk(Form(o), status) /\ Belongs(x, Form(o), hasty)
  BY <1>3, <1>4, <1>5 DEF PageOk, Belongs
<1>. QED BY <1>1, <1>3, <1>4, <1>5, <1>6, StepPush

LEMMA StepAnswerRefund ==
  ASSUME IInv, NEW q \in Slots, AnswerRefund(q)
  PROVE  IInv'
<1>1. UNCHANGED <<status, asked, hasty>>
  BY DEF AnswerRefund
<1>2. CASE ~(Alive(q) /\ reqs[q].pc = "ok")
  BY <1>1, <1>2, StepDone DEF AnswerRefund
<1>3. CASE Alive(q) /\ reqs[q].pc = "ok"
  <2>. DEFINE page == [kind |-> "list", loaded |-> FALSE]
              x == Sent("list", Len(pages) + 1, None)
  <2>1. pages' = Append(pages, page) /\ reqs' = [reqs EXCEPT ![q] = x]
    BY <1>3 DEF AnswerRefund, Push
  <2>2. page \in Pages /\ page.kind = "list"
    BY DEF Pages, ListPage
  <2>3. /\ x \in Requests /\ x.pc = "sent" /\ x.kind = "list" /\ x.page = Len(pages) + 1
    BY SentFacts, Stack DEF IInv
  <2>. HIDE DEF page, x
  <2>4. PageOk(page, status) /\ Belongs(x, page, hasty)
    BY <2>2, <2>3 DEF PageOk, Belongs
  <2>. QED BY <1>1, <2>1, <2>2, <2>3, <2>4, StepPush
<1>. QED BY <1>2, <1>3

LEMMA StepFail ==
  ASSUME IInv, NEW q \in Slots, Fail(q)
  PROVE  IInv'
<1>1. /\ pages' = Append(pages, Error) /\ reqs' = [reqs EXCEPT ![q] = Idle]
      /\ UNCHANGED <<status, asked, hasty>>
  BY DEF Fail, Done
<1>2. Error \in Pages /\ PageOk(Error, status)
  BY DEF Pages, Error, PageOk
<1>. QED BY <1>1, <1>2, StepPush

LEMMA StepBack ==
  ASSUME IInv, Back
  PROVE  IInv'
<1>1. /\ pages \in Seq(Pages) /\ Len(pages) \in Nat /\ Len(pages) > 1
      /\ pages' = SubSeq(pages, 1, Len(pages) - 1)
      /\ UNCHANGED <<status, asked, hasty>>
      /\ status \in [Orders -> Status]
  BY Stack DEF IInv, Typed, Back, Front
<1>2. /\ pages' \in Seq(Pages) /\ Len(pages') = Len(pages) - 1 /\ pages' # <<>>
      /\ \A k \in 1..(Len(pages) - 1) : pages'[k] = pages[k]
  <2>1. /\ pages' \in Seq(Pages) /\ Len(pages') = Len(pages) - 1
        /\ \A k \in 1..(Len(pages) - 1) : pages'[k] = pages[k]
    BY <1>1
  <2>2. pages' # <<>>
    BY <1>1, <2>1
  <2>. QED BY <2>1, <2>2
<1>3. \A r \in Slots :
        \/ reqs[r] # Idle /\ reqs'[r] = [reqs[r] EXCEPT !.page = 0]
        \/ reqs'[r] = reqs[r] /\ (reqs[r] # Idle => reqs[r].page # Len(pages))
  BY DEF Back, Busy
<1>4. \A r \in Slots : reqs[r] # Idle => reqs[r] \in Requests
  BY DEF IInv, Typed
<1>5. reqs' \in [Slots -> {Idle} \union Requests]
  <2>1. DOMAIN reqs' = Slots /\ reqs' = [r \in Slots |-> reqs'[r]]
    BY DEF Back
  <2>2. ASSUME NEW r \in Slots PROVE reqs'[r] \in {Idle} \union Requests
    <3>1. reqs[r] # Idle => [reqs[r] EXCEPT !.page = 0] \in Requests
      BY <1>4 DEF Requests
    <3>2. reqs[r] \in {Idle} \union Requests
      BY DEF IInv, Typed
    <3>. QED BY <1>3, <3>1, <3>2
  <2>. QED BY <2>1, <2>2
<1>6. Typed'
  BY <1>1, <1>2, <1>5 DEF IInv, Typed
<1>7. \A k \in 1..Len(pages') : k \in 1..Len(pages) /\ pages'[k] = pages[k]
  BY <1>1, <1>2
<1>8. \A r \in Slots :
        \/ reqs'[r] = Idle
        \/ /\ reqs'[r] = reqs[r]
           /\ reqs[r].page <= Len(pages')
           /\ reqs[r].page # 0 => Alike(pages[reqs[r].page], pages'[reqs[r].page])
        \/ reqs[r] # Idle /\ reqs'[r] = [reqs[r] EXCEPT !.page = 0]
  <2>. SUFFICES ASSUME NEW r \in Slots, reqs[r] # Idle, reqs'[r] = reqs[r],
                       reqs[r].page # Len(pages)
       PROVE  /\ reqs[r].page <= Len(pages')
              /\ reqs[r].page # 0 => Alike(pages[reqs[r].page], pages'[reqs[r].page])
    BY <1>3
  <2>. QED BY <1>1, <1>2, InPlace DEF Alike
<1>9. \A r \in Slots, k \in Nat \ {0} : Asks(reqs'[r], k) => Asks(reqs[r], k)
  <2>. SUFFICES ASSUME NEW r \in Slots, NEW k \in Nat \ {0}, Asks(reqs'[r], k)
       PROVE  Asks(reqs[r], k)
    OBVIOUS
  <2>1. CASE reqs[r] # Idle /\ reqs'[r] = [reqs[r] EXCEPT !.page = 0]
    <3>1. reqs'[r].page = 0
      BY <1>4, <2>1 DEF Requests
    <3>. QED BY <3>1 DEF Asks
  <2>. QED BY <1>3, <2>1
<1>10. Alone' /\ Onward(status, status')
  BY <1>1, <1>9, AloneKept, OnwardSame DEF IInv
<1>. QED BY <1>1, <1>6, <1>7, <1>8, <1>10, Kept

\* A page is written to, but for what its requests depend on.
LEMMA StepWrite ==
  ASSUME IInv, NEW k \in 1..Len(pages), NEW page \in Pages,
         pages' = [pages EXCEPT ![k] = page],
         PageOk(page, status), Alike(pages[k], page),
         UNCHANGED <<status, asked, hasty>>,
         reqs' \in [Slots -> {Idle} \union Requests],
         \A r \in Slots : reqs'[r] = Idle \/ reqs'[r] = reqs[r]
  PROVE  IInv'
<1>1. /\ pages' \in Seq(Pages) /\ pages' # <<>> /\ Len(pages') = Len(pages)
      /\ \A i \in 1..Len(pages) : i # k => pages'[i] = pages[i]
      /\ pages'[k] = page /\ Len(pages) \in Nat
  BY Written, Stack DEF IInv
<1>2. Typed' /\ Onward(status, status')
  BY <1>1, OnwardSame DEF IInv, Typed
<1>3. Alone'
  <2>1. \A r \in Slots, i \in Nat \ {0} : Asks(reqs'[r], i) => Asks(reqs[r], i)
    BY DEF Asks
  <2>. QED BY <2>1, AloneKept DEF IInv
<1>4. \A i \in 1..Len(pages') :
        \/ i \in 1..Len(pages) /\ pages'[i] = pages[i]
        \/ PageOk(pages'[i], status')
  BY <1>1
<1>5. ASSUME NEW r \in Slots, reqs[r] # Idle
      PROVE  /\ reqs[r].page <= Len(pages')
             /\ reqs[r].page # 0 => Alike(pages[reqs[r].page], pages'[reqs[r].page])
  BY <1>1, <1>5, InPlace DEF Alike
<1>. QED BY <1>2, <1>3, <1>4, <1>5, Kept

LEMMA StepSwipe ==
  ASSUME IInv, NEW i, Swipe(i), i \in 1..Len(Top.qty)
  PROVE  IInv'
<1>. DEFINE page == [Top EXCEPT !.swiped = Top.swiped \union {i}]
<1>1. /\ Top = pages[Len(pages)] /\ Len(pages) \in 1..Len(pages) /\ Top \in Pages
      /\ PageOk(Top, status) /\ Top.kind = "refund" /\ Top \in Refund
  BY Stack, PageKinds DEF IInv, Swipe
<1>2. pages' = [pages EXCEPT ![Len(pages)] = page]
      /\ UNCHANGED <<status, reqs, asked, hasty>>
  BY <1>1 DEF Swipe
<1>3. /\ page \in Refund /\ page.kind = "refund" /\ page.id = Top.id
      /\ page.qty = Top.qty /\ page.spun = Top.spun
  BY <1>1 DEF Refund
<1>. HIDE DEF page
<1>4. page \in Pages /\ PageOk(page, status) /\ Alike(Top, page)
  BY <1>1, <1>3 DEF Pages, PageOk, Alike
<1>. QED BY <1>1, <1>2, <1>4, StepWrite DEF IInv, Typed

LEMMA Overwritten ==
  ASSUME NEW S, NEW s \in Seq(S), NEW i \in 1..Len(s), NEW x \in S
  PROVE  /\ [s EXCEPT ![i] = x] \in Seq(S) /\ Len([s EXCEPT ![i] = x]) = Len(s)
         /\ \A j \in 1..Len(s) : j # i => [s EXCEPT ![i] = x][j] = s[j]
<1>. DEFINE t == [s EXCEPT ![i] = x]
<1>1. Len(s) \in Nat /\ DOMAIN s = 1..Len(s) /\ \A j \in 1..Len(s) : s[j] \in S
  OBVIOUS
<1>2. DOMAIN t = 1..Len(s) /\ \A j \in 1..Len(s) : t[j] = IF j = i THEN x ELSE s[j]
  BY <1>1
<1>3. t \in [1..Len(s) -> S]
  BY <1>1, <1>2
<1>4. t \in Seq(S) /\ Len(t) = Len(s)
  BY <1>1, <1>3
<1>. QED BY <1>2, <1>4

LEMMA StepSpin ==
  ASSUME IInv, NEW i, NEW n \in 0..MaxQty, Spin(i, n), i \in 1..Len(Top.qty)
  PROVE  IInv'
<1>. DEFINE qty == [Top.qty EXCEPT ![i] = n]
            page == [Top EXCEPT !.qty = qty, !.swiped = {}, !.spun = Top.spun \union {i}]
<1>1. /\ Top = pages[Len(pages)] /\ Len(pages) \in 1..Len(pages) /\ Top \in Pages
      /\ PageOk(Top, status) /\ Top.kind = "refund" /\ Top \in Refund
  BY Stack, PageKinds DEF IInv, Spin
<1>2. pages' = [pages EXCEPT ![Len(pages)] = page]
      /\ UNCHANGED <<status, reqs, asked, hasty>>
  BY <1>1 DEF Spin
<1>3. Top.qty \in Seq(0..MaxQty) /\ Top.spun \subseteq Nat /\ Len(Top.qty) \in Nat
  BY <1>1 DEF Refund
<1>4. /\ qty \in Seq(0..MaxQty) /\ Len(qty) = Len(Top.qty)
      /\ \A j \in 1..Len(qty) : j # i => qty[j] = Top.qty[j]
  BY <1>3, Overwritten
<1>. HIDE DEF qty
<1>5. /\ page \in Refund /\ page.kind = "refund" /\ page.id = Top.id
      /\ page.qty = qty /\ page.spun = Top.spun \union {i}
  <2>1. Top.spun \union {i} \in SUBSET Nat
    BY <1>3
  <2>. QED BY <1>1, <1>4, <2>1 DEF Refund
<1>. HIDE DEF page
<1>6. PageOk(page, status)
  <2>1. Filled(Top.id, Top.qty, Top.spun)
    BY <1>1, <1>3 DEF PageOk
  <2>2. Filled(Top.id, qty, Top.spun \union {i})
    BY <1>3, <1>4, <2>1 DEF Filled
  <2>. QED BY <1>1, <1>5, <2>2 DEF PageOk
<1>7. page \in Pages /\ Alike(Top, page)
  BY <1>1, <1>5 DEF Pages, Alike
<1>. QED BY <1>1, <1>2, <1>6, <1>7, StepWrite DEF IInv, Typed

LEMMA StepAnswerList ==
  ASSUME IInv, NEW q \in Slots, AnswerList(q)
  PROVE  IInv'
<1>1. /\ reqs[q] # Idle /\ reqs[q].kind = "list" /\ Done(q)
      /\ UNCHANGED <<status, asked, hasty>>
      /\ reqs \in [Slots -> {Idle} \union Requests]
  BY DEF IInv, Typed, AnswerList, At, Busy
<1>2. CASE ~(Alive(q) /\ reqs[q].pc = "ok")
  BY <1>1, <1>2, StepDone DEF AnswerList
<1>3. CASE Alive(q) /\ reqs[q].pc = "ok"
  <2>. DEFINE k == reqs[q].page
              page == [pages[k] EXCEPT !.loaded = TRUE]
  <2>1. /\ k \in 1..Len(pages) /\ pages[k] \in Pages /\ pages[k].kind = "list"
    <3>1. /\ k \in Nat \ {0} /\ k <= Len(pages) /\ pages[k] \in Pages
          /\ Belongs(reqs[q], pages[k], hasty) /\ Len(pages) \in Nat
      BY <1>1, <1>3, InPlace, Stack DEF Alive, IInv
    <3>. QED BY <1>1, <3>1 DEF Belongs
  <2>2. pages' = [pages EXCEPT ![k] = page]
    BY <1>3 DEF AnswerList
  <2>3. page \in Pages /\ page.kind = "list"
    <3>1. pages[k] \in ListPage
      BY <2>1, PageKinds
    <3>. QED BY <3>1 DEF ListPage, Pages
  <2>. HIDE DEF page
  <2>4. PageOk(page, status) /\ Alike(pages[k], page)
    BY <2>1, <2>3 DEF PageOk, Alike
  <2>5. /\ reqs' \in [Slots -> {Idle} \union Requests]
        /\ \A r \in Slots : reqs'[r] = Idle \/ reqs'[r] = reqs[r]
    BY <1>1 DEF Done
  <2>. HIDE DEF k
  <2>. QED BY <1>1, <2>1, <2>2, <2>3, <2>4, <2>5, StepWrite
<1>. QED BY <1>2, <1>3

\* What an answer to "order" finds.
LEMMA OrderFacts ==
  ASSUME IInv, NEW q \in Slots, AnswerOrder(q), Alive(q), reqs[q].pc # "refused"
  PROVE  LET k == reqs[q].page IN
         /\ k \in 1..Len(pages) /\ pages[k] \in Pages
         /\ reqs[q].kind = "order" /\ reqs[q] # Idle
         /\ pages[k].kind \in {"detail", "refund"} /\ pages[k].id = reqs[q].id
         /\ reqs[q].id \in Orders /\ reqs[q].is \in Status
         /\ status[reqs[q].id] \in Later[reqs[q].is]
         /\ ~hasty /\ pages[k].kind = "detail" /\ pages[k].status # "" =>
              reqs[q].is \in Later[pages[k].status]
<1>1. /\ reqs[q] # Idle /\ reqs[q].kind = "order" /\ reqs[q].pc = "ok"
      /\ ReqOk(reqs[q], pages, status, hasty)
  BY DEF IInv, AnswerOrder, At, Busy
<1>2. /\ reqs[q].page \in 1..Len(pages) /\ pages[reqs[q].page] \in Pages
      /\ Belongs(reqs[q], pages[reqs[q].page], hasty)
  BY <1>1, InPlace, Stack DEF Alive, IInv
<1>. QED BY <1>1, <1>2 DEF ReqOk, Belongs

\* The page of an order shows what the answer says.
LEMMA StepShow ==
  ASSUME IInv, NEW q \in Slots, AnswerOrder(q), Alive(q), reqs[q].pc # "refused",
         pages[reqs[q].page].kind = "detail"
  PROVE  IInv'
<1>. DEFINE k == reqs[q].page
            page == [pages[k] EXCEPT !.status = reqs[q].is]
<1>1. /\ k \in 1..Len(pages) /\ pages[k] \in Detail
      /\ reqs[q].kind = "order" /\ reqs[q] # Idle /\ pages[k].id = reqs[q].id
      /\ reqs[q].id \in Orders /\ reqs[q].is \in Status
      /\ status[reqs[q].id] \in Later[reqs[q].is]
  BY OrderFacts, PageKinds
<1>2. /\ pages' = [pages EXCEPT ![k] = page] /\ Done(q)
      /\ UNCHANGED <<status, asked, hasty>>
      /\ reqs \in [Slots -> {Idle} \union Requests] /\ status \in [Orders -> Status]
  BY DEF AnswerOrder, IInv, Typed
<1>3. page \in Pages /\ page.kind = "detail" /\ page.id = reqs[q].id /\ page.status = reqs[q].is
  BY <1>1 DEF Detail, Pages
<1>4. PageOk(page, status)
  BY <1>1, <1>3 DEF PageOk
<1>. HIDE DEF page
<1>5. /\ pages' \in Seq(Pages) /\ pages' # <<>> /\ Len(pages') = Len(pages)
      /\ \A i \in 1..Len(pages) : i # k => pages'[i] = pages[i]
      /\ pages'[k] = page /\ Len(pages) \in Nat
  BY <1>1, <1>2, <1>3, Written, Stack DEF IInv
<1>6. /\ reqs'[q] = Idle /\ \A r \in Slots : r # q => reqs'[r] = reqs[r]
      /\ reqs' \in [Slots -> {Idle} \union Requests]
  BY <1>2 DEF Done
<1>7. Typed' /\ Onward(status, status')
  BY <1>2, <1>5, <1>6, OnwardSame DEF IInv, Typed
<1>8. Alone'
  <2>1. \A r \in Slots, i \in Nat \ {0} : Asks(reqs'[r], i) => Asks(reqs[r], i)
    BY <1>6 DEF Asks
  <2>. QED BY <1>2, <2>1, AloneKept DEF IInv
<1>9. \A i \in 1..Len(pages') :
        \/ i \in 1..Len(pages) /\ pages'[i] = pages[i]
        \/ PageOk(pages'[i], status')
  BY <1>2, <1>4, <1>5
<1>10. ASSUME NEW r \in Slots, r # q, reqs[r] # Idle
       PROVE  \/ /\ reqs[r].page <= Len(pages')
                 /\ reqs[r].page # 0 => Alike(pages[reqs[r].page], pages'[reqs[r].page])
              \/ ReqOk(reqs'[r], pages', status', hasty')
  <2>1. CASE reqs[r].page # k
    BY <1>5, <1>10, <2>1, InPlace DEF Alike
  <2>2. CASE reqs[r].page = k
    <3>1. /\ ReqOk(reqs[r], pages, status, hasty) /\ reqs'[r] = reqs[r]
          /\ Belongs(reqs[r], pages[k], hasty)
      BY <1>1, <1>6, <1>10, <2>2, InPlace DEF IInv
    <3>2. reqs[r].kind \in {"cancel", "order"} => hasty
      BY <1>1, <1>10, <2>2 DEF IInv, Alone, Asks
    <3>3. Belongs(reqs[r], page, hasty)
      BY <1>1, <1>3, <3>1, <3>2 DEF Belongs, Detail
    <3>. QED BY <1>2, <1>5, <1>10, <2>2, <3>1, <3>3 DEF ReqOk
  <2>. QED BY <2>1, <2>2
<1>11. \A r \in Slots :
         \/ reqs'[r] = Idle
         \/ /\ reqs'[r] = reqs[r]
            /\ reqs[r].page <= Len(pages')
            /\ reqs[r].page # 0 => Alike(pages[reqs[r].page], pages'[reqs[r].page])
         \/ ReqOk(reqs'[r], pages', status', hasty')
  BY <1>6, <1>10
<1>. QED BY <1>2, <1>7, <1>8, <1>9, <1>11, Kept

LEMMA Listed ==
  ASSUME NEW n \in Nat, NEW S, NEW f \in [1..n -> S]
  PROVE  f \in Seq(S) /\ Len(f) = n
  OBVIOUS

LEMMA OrderedFacts ==
  ASSUME NEW o \in Orders
  PROVE  /\ Ordered(o) \in Seq(0..MaxQty) /\ Len(Ordered(o)) = Lines[o]
         /\ \A i \in 1..Lines[o] : Ordered(o)[i] = 1
<1>1. Lines[o] \in Nat /\ 1 \in 0..MaxQty
  BY BoundsAssumption
<1>2. Ordered(o) \in [1..Lines[o] -> 0..MaxQty]
  BY <1>1 DEF Ordered
<1>. QED BY <1>1, <1>2, Listed DEF Ordered

\* The form gets the quantities of the order.
LEMMA StepFill ==
  ASSUME IInv, NEW q \in Slots, AnswerOrder(q), Alive(q), reqs[q].pc # "refused",
         pages[reqs[q].page].kind = "refund"
  PROVE  IInv'
<1>. DEFINE k == reqs[q].page
            o == reqs[q].id
            page == [pages[k] EXCEPT !.qty = Ordered(o)]
<1>1. /\ k \in 1..Len(pages) /\ pages[k] \in Refund /\ pages[k].id = o /\ o \in Orders
      /\ PageOk(pages[k], status)
  BY OrderFacts, PageKinds DEF IInv
<1>2. /\ pages' = [pages EXCEPT ![k] = page] /\ Done(q)
      /\ UNCHANGED <<status, asked, hasty>>
      /\ reqs \in [Slots -> {Idle} \union Requests]
  BY DEF AnswerOrder, IInv, Typed
<1>3. /\ Ordered(o) \in Seq(0..MaxQty) /\ Len(Ordered(o)) = Lines[o]
      /\ \A i \in 1..Lines[o] : Ordered(o)[i] = 1
  BY <1>1, OrderedFacts
<1>4. /\ page \in Refund /\ page.kind = "refund" /\ page.id = o
      /\ page.qty = Ordered(o) /\ page.spun = pages[k].spun
  BY <1>1, <1>3 DEF Refund
<1>. HIDE DEF page
<1>5. PageOk(page, status)
  <2>1. Filled(o, Ordered(o), page.spun)
    BY <1>3 DEF Filled
  <2>. QED BY <1>1, <1>4, <2>1 DEF PageOk, Refund
<1>6. page \in Pages /\ Alike(pages[k], page)
  BY <1>1, <1>4 DEF Pages, Alike, Refund
<1>7. /\ reqs' \in [Slots -> {Idle} \union Requests]
      /\ \A r \in Slots : reqs'[r] = Idle \/ reqs'[r] = reqs[r]
  BY <1>2 DEF Done
<1>. HIDE DEF k
<1>. QED BY <1>1, <1>2, <1>5, <1>6, <1>7, StepWrite

LEMMA StepAnswerOrder ==
  ASSUME IInv, NEW q \in Slots, AnswerOrder(q)
  PROVE  IInv'
<1>1. CASE ~Alive(q) \/ reqs[q].pc = "refused"
  BY <1>1, StepDone DEF AnswerOrder
<1>2. CASE Alive(q) /\ reqs[q].pc # "refused"
  BY <1>2, OrderFacts, StepShow, StepFill
<1>. QED BY <1>1, <1>2

\* The number of the order that the page of an order shows.
LEMMA ShownFacts ==
  ASSUME IInv, Top.kind = "detail"
  PROVE  Shown \in Orders \union {None}
<1>1. Top \in Pages
  BY Stack DEF IInv
<1>. QED BY <1>1, PageKinds DEF Shown, Detail

LEMMA AskedSame ==
  ASSUME IInv, UNCHANGED <<status, asked>>
  PROVE  AskedOk' /\ \A a \in asked' : a.id \in Orders
  BY DEF IInv, Typed, AskedOk

LEMMA StepTapReorder ==
  ASSUME IInv, NEW q \in Slots, TapReorder(q)
  PROVE  IInv'
<1>1. /\ ~Busy(q) /\ UNCHANGED <<status, pages, asked, hasty>>
      /\ reqs' = [reqs EXCEPT ![q] = Sent("reorder", Len(pages), Shown)]
      /\ hasty \in BOOLEAN
  BY DEF TapReorder, Ask, IInv, Typed
<1>2. Shown \in Orders \union {None} /\ "reorder" \in {"reorder", "cancel", "refund"}
  BY ShownFacts DEF TapReorder
<1>. QED BY <1>1, <1>2, AskedSame, StepAsk

LEMMA StepTapCancel ==
  ASSUME IInv, NEW q \in Slots, TapCancel(q)
  PROVE  IInv'
<1>1. /\ ~Busy(q) /\ UNCHANGED <<status, pages, asked>>
      /\ reqs' = [reqs EXCEPT ![q] = Sent("cancel", Len(pages), Shown)]
      /\ Top.kind = "detail"
      /\ hasty' = (hasty \/ Waiting(Len(pages), {"cancel", "order"}))
  BY DEF TapCancel, Ask
<1>2. /\ hasty' \in BOOLEAN /\ hasty => hasty'
      /\ hasty \/ Waiting(Len(pages), {"cancel", "order"}) => hasty'
  BY <1>1 DEF IInv, Typed
<1>3. Shown \in Orders \union {None} /\ "cancel" \in {"reorder", "cancel", "refund"}
  BY <1>1, ShownFacts
<1>. QED BY <1>1, <1>2, <1>3, AskedSame, StepAsk

LEMMA StepTapRefund ==
  ASSUME IInv, NEW q \in Slots, TapRefund(q)
  PROVE  IInv'
<1>. DEFINE a == [id |-> Top.id, qty |-> Top.qty, spun |-> Top.spun]
<1>1. /\ ~Busy(q) /\ UNCHANGED <<status, pages, hasty>>
      /\ reqs' = [reqs EXCEPT ![q] = Sent("refund", Len(pages), Top.id)]
      /\ asked' = asked \union {a}
      /\ Top.kind = "refund" /\ Top.qty # <<>> /\ hasty \in BOOLEAN
  BY DEF TapRefund, Ask, IInv, Typed
<1>2. Top.id \in Orders /\ PageOk(Top, status)
  BY <1>1, Stack, PageKinds DEF IInv, Refund
<1>3. status[Top.id] \in Later["completed"] /\ Filled(Top.id, Top.qty, Top.spun)
  BY <1>1, <1>2 DEF PageOk
<1>4. AskedOk' /\ \A b \in asked' : b.id \in Orders
  <2>1. /\ a.id \in Orders
        /\ status'[a.id] \in Later["completed"] /\ Filled(a.id, a.qty, a.spun)
    BY <1>1, <1>2, <1>3
  <2>. HIDE DEF a
  <2>. QED BY <1>1, <2>1 DEF IInv, Typed, AskedOk
<1>5. "refund" \in {"reorder", "cancel", "refund"} /\ Top.id \in Orders \union {None}
  BY <1>2
<1>. QED BY <1>1, <1>4, <1>5, StepAsk

LEMMA StepEnds ==
  ASSUME IInv, NEW q \in Slots, AnswerReorder(q) \/ Lose(q)
  PROVE  IInv'
  BY StepDone DEF AnswerReorder, Lose

LEMMA StepStays ==
  ASSUME IInv, UNCHANGED vars
  PROVE  IInv'
<1>1. UNCHANGED <<status, pages, reqs, asked, hasty>>
  BY DEF vars
<1>. QED BY <1>1 DEF IInv, Typed, Alone, AskedOk

LEMMA StepInv == IInv /\ [Next]_vars => IInv'
<1>. SUFFICES ASSUME IInv, [Next]_vars PROVE IInv'
  OBVIOUS
<1>1. CASE UNCHANGED vars
  BY <1>1, StepStays
<1>2. ASSUME NEW q \in Slots, \E o \in Orders : ViewDetail(q, o) PROVE IInv'
  BY <1>2, StepViewDetail
<1>3. ASSUME NEW q \in Slots, OpenRefund(q) \/ TapReorder(q) \/ TapCancel(q) \/ TapRefund(q)
      PROVE  IInv'
  BY <1>3, StepOpenRefund, StepTapReorder, StepTapCancel, StepTapRefund
<1>4. ASSUME NEW q \in Slots, Serve(q) \/ Refuse(q) \/ Lose(q) \/ Fail(q) PROVE IInv'
  BY <1>4, StepServe, StepRefuse, StepEnds, StepFail
<1>5. ASSUME NEW q \in Slots, Answer(q) PROVE IInv'
  BY <1>5, StepAnswerList, StepAnswerOrder, StepEnds, StepAnswerCancel, StepAnswerRefund
     DEF Answer
<1>6. ASSUME NEW i \in DOMAIN (IF Top.kind = "refund" THEN Top.qty ELSE <<>>),
             Swipe(i) \/ \E n \in 0..MaxQty : Spin(i, n)
      PROVE  IInv'
  <2>1. Top.kind = "refund" /\ Top \in Pages
    BY <1>6, Stack DEF Swipe, Spin, IInv
  <2>2. Top.qty \in Seq(0..MaxQty)
    BY <2>1, PageKinds DEF Refund
  <2>3. i \in 1..Len(Top.qty)
    BY <2>1, <2>2
  <2>. QED BY <1>6, <2>3, StepSwipe, StepSpin
<1>7. ASSUME NEW o \in Orders, Proceed(o) PROVE IInv'
  BY <1>7, StepProceed
<1>8. CASE Back
  BY <1>8, StepBack
<1>. QED BY <1>1, <1>2, <1>3, <1>4, <1>5, <1>6, <1>7, <1>8 DEF Next

(***************************************************************************)
(* What is known of an order, on the pages, in the answers and in the      *)
(* refunds that were sent, always agrees with the shop.                    *)
(***************************************************************************)
THEOREM Invariant == Spec => []IInv
  BY InitInv, StepInv, PTL DEF Spec

(***************************************************************************)
(* A refund is only asked for an order that has been completed, with its   *)
(* own lines and, where the shopper changed none, its own quantities.      *)
(***************************************************************************)
THEOREM RefundMatches == Spec => []RefundMatchesOrder
<1>1. IInv => RefundMatchesOrder
  <2>. SUFFICES ASSUME IInv, NEW a \in asked
       PROVE  /\ status[a.id] \in {"completed", "closed"}
              /\ Len(a.qty) = Lines[a.id]
              /\ \A i \in 1..Lines[a.id] : i \notin a.spun => a.qty[i] = Ordered(a.id)[i]
    BY DEF RefundMatchesOrder
  <2>1. status[a.id] \in Later["completed"] /\ Filled(a.id, a.qty, a.spun)
    BY DEF IInv, AskedOk
  <2>. QED BY <2>1 DEF Later, Filled, Ordered
<1>. QED BY <1>1, Invariant, PTL

\* What a step may do to what the page of an order shows.
Forward ==
  \A k \in DOMAIN pages \cap DOMAIN pages' :
    pages[k].kind = "detail" /\ pages[k].status # "" /\ ~hasty
      => pages'[k].status # "" /\ Rank[pages'[k].status] >= Rank[pages[k].status]

LEMMA RankFacts ==
  ASSUME NEW p \in Pages, p.kind = "detail", p.status # ""
  PROVE  p.status \in Status /\ Rank[p.status] >= Rank[p.status]
<1>1. p.status \in Status
  BY PageKinds DEF Detail
<1>. QED BY <1>1, LaterFacts

\* Every page that stays is as it was, or is not the page of an order.
LEMMA ForwardKept ==
  ASSUME Typed,
         \A k \in DOMAIN pages \cap DOMAIN pages' :
           pages'[k] = pages[k] \/ pages[k].kind # "detail"
  PROVE  Forward
<1>. SUFFICES ASSUME NEW k \in DOMAIN pages \cap DOMAIN pages',
                     pages[k].kind = "detail", pages[k].status # ""
     PROVE  pages'[k].status # "" /\ Rank[pages'[k].status] >= Rank[pages[k].status]
  BY DEF Forward
<1>1. pages[k] \in Pages
  BY Stack
<1>2. pages'[k] = pages[k]
  OBVIOUS
<1>. QED BY <1>1, <1>2, RankFacts

LEMMA ForwardOrder ==
  ASSUME IInv, NEW q \in Slots, AnswerOrder(q)
  PROVE  Forward
<1>1. CASE ~Alive(q) \/ reqs[q].pc = "refused"
  BY <1>1, ForwardKept DEF AnswerOrder, IInv
<1>2. CASE Alive(q) /\ reqs[q].pc # "refused"
  <2>. DEFINE k == reqs[q].page
  <2>1. /\ k \in 1..Len(pages) /\ pages[k] \in Pages
        /\ pages[k].kind \in {"detail", "refund"} /\ reqs[q].is \in Status
        /\ ~hasty /\ pages[k].kind = "detail" /\ pages[k].status # "" =>
             reqs[q].is \in Later[pages[k].status]
    BY <1>2, OrderFacts
  <2>2. pages' = [pages EXCEPT ![k] = IF pages[k].kind = "detail"
                                      THEN [pages[k] EXCEPT !.status = reqs[q].is]
                                      ELSE [pages[k] EXCEPT !.qty = Ordered(reqs[q].id)]]
    BY <1>2 DEF AnswerOrder
  <2>3. DOMAIN pages = 1..Len(pages) /\ \A i \in DOMAIN pages : i # k => pages'[i] = pages[i]
    BY <2>2, Stack DEF IInv
  <2>4. CASE pages[k].kind = "refund"
    <3>1. \A i \in DOMAIN pages \cap DOMAIN pages' :
            pages'[i] = pages[i] \/ pages[i].kind # "detail"
      BY <2>3, <2>4
    <3>. QED BY <3>1, ForwardKept DEF IInv
  <2>5. CASE pages[k].kind = "detail"
    <3>1. pages'[k] = [pages[k] EXCEPT !.status = reqs[q].is] /\ pages[k] \in Detail
      BY <2>1, <2>2, <2>3, <2>5, PageKinds
    <3>2. pages'[k].status = reqs[q].is
      BY <3>1 DEF Detail
    <3>. SUFFICES ASSUME NEW i \in DOMAIN pages \cap DOMAIN pages',
                         pages[i].kind = "detail", pages[i].status # "", ~hasty
         PROVE  pages'[i].status # "" /\ Rank[pages'[i].status] >= Rank[pages[i].status]
      BY DEF Forward
    <3>3. CASE i # k
      <4>1. pages'[i] = pages[i] /\ pages[i] \in Pages
        BY <2>3, <3>3, Stack DEF IInv
      <4>. QED BY <4>1, RankFacts
    <3>4. CASE i = k
      <4>1. pages[k].status \in Status /\ reqs[q].is \in Later[pages[k].status]
        BY <2>1, <2>5, <3>4, RankFacts
      <4>2. Rank[reqs[q].is] >= Rank[pages[k].status] /\ reqs[q].is # ""
        BY <2>1, <4>1, LaterFacts DEF Status
      <4>. QED BY <3>2, <3>4, <4>2
    <3>. QED BY <3>3, <3>4
  <2>. QED BY <2>1, <2>4, <2>5
<1>. QED BY <1>1, <1>2

\* The other steps that touch the stack.
LEMMA ForwardPush ==
  ASSUME IInv, NEW page, pages' = Append(pages, page)
  PROVE  Forward
<1>1. \A k \in DOMAIN pages : pages'[k] = pages[k]
  BY Stack DEF IInv
<1>. QED BY <1>1, ForwardKept DEF IInv

LEMMA ForwardOther ==
  ASSUME IInv, NEW k \in 1..Len(pages), NEW page,
         pages' = [pages EXCEPT ![k] = page], pages[k].kind # "detail"
  PROVE  Forward
<1>1. \A i \in DOMAIN pages : i # k => pages'[i] = pages[i]
  BY Stack DEF IInv
<1>. QED BY <1>1, ForwardKept DEF IInv

LEMMA ForwardSame ==
  ASSUME IInv, pages' = pages
  PROVE  Forward
  BY ForwardKept DEF IInv

LEMMA ForwardBack ==
  ASSUME IInv, Back
  PROVE  Forward
<1>1. /\ pages \in Seq(Pages) /\ Len(pages) \in Nat /\ Len(pages) > 1
      /\ pages' = SubSeq(pages, 1, Len(pages) - 1)
  BY Stack DEF IInv, Typed, Back, Front
<1>2. \A k \in DOMAIN pages' : pages'[k] = pages[k]
  BY <1>1
<1>. QED BY <1>2, ForwardKept DEF IInv

LEMMA ForwardAnswers ==
  ASSUME IInv, NEW q \in Slots, AnswerList(q) \/ AnswerRefund(q)
  PROVE  Forward
<1>1. CASE AnswerList(q)
  <2>1. CASE Alive(q) /\ reqs[q].pc = "ok"
    <3>1. /\ reqs[q] # Idle /\ reqs[q].kind = "list"
          /\ pages' = [pages EXCEPT ![reqs[q].page] = [pages[reqs[q].page] EXCEPT !.loaded = TRUE]]
      BY <1>1, <2>1 DEF AnswerList, At, Busy
    <3>2. /\ reqs[q].page \in 1..Len(pages)
          /\ Belongs(reqs[q], pages[reqs[q].page], hasty)
      BY <2>1, <3>1, InPlace, Stack DEF Alive, IInv
    <3>3. pages[reqs[q].page].kind = "list"
      BY <3>1, <3>2 DEF Belongs
    <3>. QED BY <3>1, <3>2, <3>3, ForwardOther
  <2>. QED BY <1>1, <2>1, ForwardSame DEF AnswerList
<1>2. CASE AnswerRefund(q)
  BY <1>2, ForwardPush, ForwardSame DEF AnswerRefund, Push
<1>. QED BY <1>1, <1>2

LEMMA StepForward == IInv /\ [Next]_vars => Forward
<1>. SUFFICES ASSUME IInv, [Next]_vars PROVE Forward
  OBVIOUS
<1>1. CASE UNCHANGED vars
  BY <1>1, ForwardSame DEF vars
<1>2. ASSUME NEW q \in Slots, (\E o \in Orders : ViewDetail(q, o)) \/ OpenRefund(q) \/ Fail(q)
      PROVE  Forward
  BY <1>2, ForwardPush DEF ViewDetail, OpenRefund, Push, Fail
<1>3. ASSUME NEW q \in Slots,
             TapReorder(q) \/ TapCancel(q) \/ TapRefund(q) \/ Serve(q) \/ Refuse(q) \/ Lose(q)
      PROVE  Forward
  BY <1>3, ForwardSame DEF TapReorder, TapCancel, TapRefund, Serve, Refuse, Lose
<1>4. ASSUME NEW q \in Slots, Answer(q) PROVE Forward
  BY <1>4, ForwardAnswers, ForwardOrder, ForwardSame DEF Answer, AnswerReorder, AnswerCancel
<1>5. ASSUME NEW i, Swipe(i) \/ \E n \in 0..MaxQty : Spin(i, n) PROVE Forward
  <2>1. Top = pages[Len(pages)] /\ Len(pages) \in 1..Len(pages)
    BY Stack DEF IInv
  <2>. QED BY <1>5, <2>1, ForwardOther DEF Swipe, Spin
<1>6. ASSUME NEW o \in Orders, Proceed(o) PROVE Forward
  BY <1>6, ForwardSame DEF Proceed
<1>7. CASE Back
  BY <1>7, ForwardBack
<1>. QED BY <1>1, <1>2, <1>3, <1>4, <1>5, <1>6, <1>7 DEF Next

(***************************************************************************)
(* The state that the page of an order shows never goes back, unless       *)
(* "Cancel" was tapped while the page was still waiting.                   *)
(***************************************************************************)
THEOREM GoesForward == Spec => NeverGoesBack
<1>1. IInv /\ [Next]_vars => [Forward]_vars
  BY StepForward
<1>2. [][Forward]_vars <=> NeverGoesBack
  BY DEF Forward, NeverGoesBack
<1>. QED BY <1>1, <1>2, Invariant, PTL DEF Spec

-----------------------------------------------------------------------------
(* "Add to Cart"                                                           *)

\* A request to put o into the cart again is on its way to the shop.
ToCart(r, o) == r # Idle /\ r.kind = "reorder" /\ r.pc = "sent" /\ r.id = o

Due(rs, o) == {q \in Slots : ToCart(rs[q], o)}

Reorders(r) == r # Idle /\ r.kind = "reorder"

\* While nothing is lost, what a tap asked for is in the cart or on its way.
CountInv ==
  /\ cart \in [Orders -> Nat] /\ again \in [Orders -> Nat] /\ faults \in Nat
  /\ ~early => \A q \in Slots : Reorders(reqs[q]) => reqs[q].id # None
  /\ ~early /\ faults = 0 =>
       \A o \in Orders : /\ IsFiniteSet(Due(reqs, o))
                         /\ again[o] = cart[o] + Cardinality(Due(reqs, o))

LEMMA CountInit == Init => CountInv
<1>. SUFFICES ASSUME Init PROVE CountInv
  OBVIOUS
<1>1. /\ cart = [o \in Orders |-> 0] /\ again = cart /\ faults = 0
      /\ \A q \in Slots : reqs[q] = Idle
  BY DEF Init
<1>2. \A o \in Orders : Due(reqs, o) = {}
  BY <1>1 DEF Due, ToCart
<1>3. \A o \in Orders : IsFiniteSet(Due(reqs, o)) /\ Cardinality(Due(reqs, o)) = 0
  BY <1>2, FS_EmptySet
<1>. QED BY <1>1, <1>3 DEF CountInv, Reorders

\* The requests for the cart are as many as they were, or something was lost.
LEMMA CountFrame ==
  ASSUME CountInv, UNCHANGED <<cart, again, early>>, faults' \in Nat,
         faults' = 0 => faults = 0,
         \A q \in Slots : Reorders(reqs'[q]) => Reorders(reqs[q]) /\ reqs'[q].id = reqs[q].id,
         faults' = 0 /\ ~early =>
           \A q \in Slots, o \in Orders : ToCart(reqs'[q], o) <=> ToCart(reqs[q], o)
  PROVE  CountInv'
<1>1. ~early => \A q \in Slots : Reorders(reqs'[q]) => reqs'[q].id # None
  BY DEF CountInv
<1>2. ASSUME ~early, faults' = 0, NEW o \in Orders
      PROVE  /\ IsFiniteSet(Due(reqs', o))
             /\ again[o] = cart[o] + Cardinality(Due(reqs', o))
  <2>1. Due(reqs', o) = Due(reqs, o)
    BY <1>2 DEF Due
  <2>. QED BY <1>2, <2>1 DEF CountInv
<1>. QED BY <1>1, <1>2 DEF CountInv, Due, Reorders, ToCart

\* Of one request at most a step makes another.
LEMMA CountOne ==
  ASSUME IInv, CountInv, UNCHANGED <<cart, again, early, faults>>,
         NEW q \in Slots, NEW x, reqs' = [reqs EXCEPT ![q] = x],
         ~Reorders(x), ~Reorders(reqs[q]) \/ reqs[q].pc # "sent"
  PROVE  CountInv'
<1>1. reqs'[q] = x /\ \A r \in Slots : r # q => reqs'[r] = reqs[r]
  BY DEF IInv, Typed
<1>2. \A o \in Orders : ~ToCart(reqs'[q], o) /\ ~ToCart(reqs[q], o)
  BY <1>1 DEF ToCart, Reorders
<1>3. faults \in Nat
  BY DEF CountInv
<1>. QED BY <1>1, <1>2, <1>3, CountFrame

LEMMA NotReorders ==
  /\ ~Reorders(Idle)
  /\ \A kind \in {"list", "order", "cancel", "refund"}, page \in Nat,
        id \in Orders \union {None} : ~Reorders(Sent(kind, page, id))
BY DEF Reorders, Sent

\* A new page, which asks for something, or an answer that does.
LEMMA CountAsks ==
  ASSUME IInv, CountInv, UNCHANGED <<cart, again, early, faults>>,
         NEW q \in Slots, NEW kind \in {"list", "order", "cancel", "refund"}, NEW page, NEW id,
         reqs' = [reqs EXCEPT ![q] = Sent(kind, page, id)],
         ~Busy(q) \/ reqs[q].pc # "sent"
  PROVE  CountInv'
<1>1. ~Reorders(Sent(kind, page, id))
  BY DEF Reorders, Sent
<1>2. ~Reorders(reqs[q]) \/ reqs[q].pc # "sent"
  BY DEF Reorders, Busy
<1>. QED BY <1>1, <1>2, CountOne

LEMMA CountReorder ==
  ASSUME IInv, CountInv, NEW q \in Slots, TapReorder(q)
  PROVE  CountInv'
<1>. DEFINE o == Top.id
            x == Sent("reorder", Len(pages), Shown)
<1>1. /\ Top.kind = "detail" /\ reqs[q] = Idle
      /\ reqs' = [reqs EXCEPT ![q] = x] /\ again' = [again EXCEPT ![o] = @ + 1]
      /\ early' = (early \/ Shown = None) /\ UNCHANGED <<cart, faults>>
  BY DEF TapReorder, Ask, Busy
<1>2. o \in Orders
  BY <1>1, Stack, PageKinds DEF IInv, Detail
<1>3. again' \in [Orders -> Nat] /\ again'[o] = again[o] + 1
      /\ \A p \in Orders : p # o => again'[p] = again[p]
  BY <1>1, <1>2 DEF CountInv
<1>4. reqs'[q] = x /\ \A r \in Slots : r # q => reqs'[r] = reqs[r]
  BY <1>1 DEF IInv, Typed
<1>5. x # Idle /\ x.kind = "reorder" /\ x.pc = "sent" /\ x.id = Shown
  BY DEF Sent, Idle
<1>6. ~early' => ~early /\ Shown # None /\ Shown = o
  BY <1>1 DEF Shown
<1>7. ~early' => \A r \in Slots : Reorders(reqs'[r]) => reqs'[r].id # None
  BY <1>4, <1>5, <1>6 DEF CountInv
<1>8. ASSUME ~early', faults = 0, NEW p \in Orders
      PROVE  /\ IsFiniteSet(Due(reqs', p))
             /\ again'[p] = cart[p] + Cardinality(Due(reqs', p))
  <2>1. /\ IsFiniteSet(Due(reqs, p)) /\ again[p] = cart[p] + Cardinality(Due(reqs, p))
        /\ cart[p] \in Nat /\ again[p] \in Nat
    BY <1>6, <1>8 DEF CountInv
  <2>2. CASE p = o
    <3>1. q \notin Due(reqs, p) /\ Due(reqs', p) = Due(reqs, p) \union {q}
      BY <1>1, <1>4, <1>5, <1>6, <1>8, <2>2 DEF Due, ToCart
    <3>2. /\ IsFiniteSet(Due(reqs', p))
          /\ Cardinality(Due(reqs', p)) = Cardinality(Due(reqs, p)) + 1
          /\ Cardinality(Due(reqs, p)) \in Nat
      BY <2>1, <3>1, FS_AddElement, FS_CardinalityType
    <3>. QED BY <1>3, <2>1, <2>2, <3>2
  <2>3. CASE p # o
    <3>1. Due(reqs', p) = Due(reqs, p)
      BY <1>1, <1>4, <1>5, <1>6, <1>8, <2>3 DEF Due, ToCart
    <3>. QED BY <1>3, <2>1, <2>3, <3>1
  <2>. QED BY <2>2, <2>3
<1>. QED BY <1>1, <1>3, <1>7, <1>8 DEF CountInv, Due, Reorders, ToCart

\* The shop puts into the cart what was asked for.
LEMMA CountServe ==
  ASSUME IInv, CountInv, NEW q \in Slots, Serve(q)
  PROVE  CountInv'
<1>. DEFINE r == reqs[q]
            x == reqs'[q]
<1>1. /\ r # Idle /\ r.pc = "sent" /\ ~Impossible(r) /\ r \in Requests
      /\ reqs \in [Slots -> {Idle} \union Requests]
      /\ reqs' = [reqs EXCEPT ![q] = IF r.kind = "order"
                                     THEN [Answered(q) EXCEPT !.is = status[r.id]]
                                     ELSE Answered(q)]
      /\ cart' = (IF r.kind = "reorder" THEN [cart EXCEPT ![r.id] = @ + 1] ELSE cart)
      /\ UNCHANGED <<again, early, faults>>
  BY DEF Serve, Busy, IInv, Typed
<1>2. /\ x # Idle => x.kind = r.kind /\ x.id = r.id /\ x.pc = "ok"
      /\ \A s \in Slots : s # q => reqs'[s] = reqs[s]
  BY <1>1 DEF Answered, Requests
<1>. HIDE DEF x
<1>3. CASE r.kind # "reorder"
  <2>1. \A s \in Slots : Reorders(reqs'[s]) => Reorders(reqs[s]) /\ reqs'[s] = reqs[s]
    BY <1>2, <1>3 DEF Reorders, x
  <2>2. \A s \in Slots, o \in Orders : ToCart(reqs'[s], o) <=> ToCart(reqs[s], o)
    BY <1>2, <1>3 DEF ToCart, x
  <2>3. cart' = cart /\ faults \in Nat
    BY <1>1, <1>3 DEF CountInv
  <2>. QED BY <1>1, <2>1, <2>2, <2>3, CountFrame
<1>4. CASE r.kind = "reorder"
  <2>. DEFINE o == r.id
  <2>1. o \in Orders
    BY <1>1, <1>4 DEF Impossible, Requests
  <2>2. /\ cart' \in [Orders -> Nat] /\ cart'[o] = cart[o] + 1
        /\ \A p \in Orders : p # o => cart'[p] = cart[p]
    BY <1>1, <1>4, <2>1 DEF CountInv
  <2>3. ~early' => \A s \in Slots : Reorders(reqs'[s]) => reqs'[s].id # None
    BY <1>1, <1>2 DEF CountInv, Reorders, x
  <2>4. ASSUME ~early, faults = 0, NEW p \in Orders
        PROVE  /\ IsFiniteSet(Due(reqs', p))
               /\ again[p] = cart'[p] + Cardinality(Due(reqs', p))
    <3>1. /\ IsFiniteSet(Due(reqs, p)) /\ again[p] = cart[p] + Cardinality(Due(reqs, p))
          /\ cart[p] \in Nat /\ again[p] \in Nat
      BY <2>4 DEF CountInv
    <3>2. CASE p = o
      <4>1. q \in Due(reqs, p) /\ Due(reqs', p) = Due(reqs, p) \ {q}
        BY <1>1, <1>2, <1>4, <3>2 DEF Due, ToCart, x
      <4>2. /\ IsFiniteSet(Due(reqs', p))
            /\ Cardinality(Due(reqs', p)) = Cardinality(Due(reqs, p)) - 1
            /\ Cardinality(Due(reqs, p)) \in Nat
        BY <3>1, <4>1, FS_RemoveElement, FS_CardinalityType
      <4>. QED BY <2>2, <3>1, <3>2, <4>2
    <3>3. CASE p # o
      <4>1. Due(reqs', p) = Due(reqs, p)
        BY <1>1, <1>2, <3>3 DEF Due, ToCart, x
      <4>. QED BY <2>2, <3>1, <3>3, <4>1
    <3>. QED BY <3>2, <3>3
  <2>. QED BY <1>1, <2>2, <2>3, <2>4 DEF CountInv, Due, Reorders, ToCart
<1>. QED BY <1>3, <1>4

\* A tap that nothing can come of was early; any other refusal is a fault.
LEMMA CountRefuse ==
  ASSUME IInv, CountInv, NEW q \in Slots, Refuse(q)
  PROVE  CountInv'
<1>. DEFINE r == reqs[q]
            x == [r EXCEPT !.pc = "refused"]
<1>1. /\ r # Idle /\ r.pc = "sent" /\ r \in Requests /\ reqs' = [reqs EXCEPT ![q] = x]
      /\ reqs \in [Slots -> {Idle} \union Requests] /\ faults \in Nat
      /\ UNCHANGED <<cart, again, early>>
      /\ \/ Impossible(r) /\ faults' = faults
         \/ faults' = faults + 1
  BY DEF Refuse, Busy, IInv, Typed, CountInv
<1>2. /\ x.kind = r.kind /\ x.id = r.id /\ x.pc = "refused"
      /\ reqs'[q] = x /\ \A s \in Slots : s # q => reqs'[s] = reqs[s]
  BY <1>1 DEF Requests
<1>. HIDE DEF x
<1>3. \A s \in Slots : Reorders(reqs'[s]) => Reorders(reqs[s]) /\ reqs'[s].id = reqs[s].id
  BY <1>1, <1>2 DEF Reorders
<1>4. ASSUME faults' = 0, ~early, NEW s \in Slots, NEW o \in Orders
      PROVE  ToCart(reqs'[s], o) <=> ToCart(reqs[s], o)
  <2>1. Impossible(r)
    BY <1>1, <1>4
  <2>2. r.kind # "reorder"
    <3>1. r.kind = "reorder" => r.id = None
      BY <2>1 DEF Impossible
    <3>. QED BY <1>1, <1>4, <3>1 DEF CountInv, Reorders
  <2>. QED BY <1>2, <2>2 DEF ToCart
<1>. QED BY <1>1, <1>3, <1>4, CountFrame

LEMMA CountBack ==
  ASSUME IInv, CountInv, Back
  PROVE  CountInv'
<1>1. UNCHANGED <<cart, again, early, faults>> /\ faults \in Nat
  BY DEF Back, CountInv
<1>2. ASSUME NEW q \in Slots
      PROVE  \/ reqs'[q] = reqs[q]
             \/ reqs[q] # Idle /\ reqs'[q] # Idle /\ reqs'[q].kind = reqs[q].kind
                /\ reqs'[q].id = reqs[q].id /\ reqs'[q].pc = reqs[q].pc
  <2>1. reqs'[q] = IF Busy(q) /\ reqs[q].page = Len(pages)
                   THEN [reqs[q] EXCEPT !.page = 0] ELSE reqs[q]
    BY DEF Back
  <2>2. CASE Busy(q)
    <3>1. reqs[q] \in Requests
      BY <2>2 DEF IInv, Typed, Busy
    <3>. QED BY <2>1, <2>2, <3>1 DEF Requests, Idle, Busy
  <2>. QED BY <2>1, <2>2
<1>3. \A q \in Slots : Reorders(reqs'[q]) => Reorders(reqs[q]) /\ reqs'[q].id = reqs[q].id
  BY <1>2 DEF Reorders
<1>4. \A q \in Slots, o \in Orders : ToCart(reqs'[q], o) <=> ToCart(reqs[q], o)
  BY <1>2 DEF ToCart
<1>. QED BY <1>1, <1>3, <1>4, CountFrame

LEMMA CountLost ==
  ASSUME IInv, CountInv, NEW q \in Slots, Lose(q) \/ Fail(q)
  PROVE  CountInv'
<1>1. /\ UNCHANGED <<cart, again, early>> /\ faults \in Nat /\ faults' = faults + 1
      /\ reqs' = [reqs EXCEPT ![q] = Idle]
  BY DEF Lose, Fail, Done, CountInv
<1>2. \A s \in Slots : reqs'[s] = Idle \/ reqs'[s] = reqs[s]
  BY <1>1 DEF IInv, Typed
<1>3. \A s \in Slots : Reorders(reqs'[s]) => Reorders(reqs[s]) /\ reqs'[s].id = reqs[s].id
  BY <1>2 DEF Reorders
<1>4. faults' \in Nat /\ faults' # 0
  BY <1>1
<1>. QED BY <1>1, <1>3, <1>4, CountFrame

LEMMA CountAnswer ==
  ASSUME IInv, CountInv, NEW q \in Slots, Answer(q)
  PROVE  CountInv'
<1>1. /\ reqs[q] # Idle /\ reqs[q].pc # "sent" /\ UNCHANGED <<cart, again, early, faults>>
      /\ \/ reqs' = [reqs EXCEPT ![q] = Idle]
         \/ \E page, id : reqs' = [reqs EXCEPT ![q] = Sent("order", page, id)]
         \/ \E page, id : reqs' = [reqs EXCEPT ![q] = Sent("list", page, id)]
  BY DEF Answer, AnswerList, AnswerOrder, AnswerReorder, AnswerCancel, AnswerRefund, At, Busy,
     Done, Push
<1>2. CASE reqs' = [reqs EXCEPT ![q] = Idle]
  BY <1>1, <1>2, NotReorders, CountOne
<1>3. CASE \E page, id : reqs' = [reqs EXCEPT ![q] = Sent("order", page, id)]
  BY <1>1, <1>3, CountAsks
<1>4. CASE \E page, id : reqs' = [reqs EXCEPT ![q] = Sent("list", page, id)]
  BY <1>1, <1>4, CountAsks
<1>. QED BY <1>1, <1>2, <1>3, <1>4

LEMMA CountStep == IInv /\ CountInv /\ [Next]_vars => CountInv'
<1>. SUFFICES ASSUME IInv, CountInv, [Next]_vars PROVE CountInv'
  OBVIOUS
<1>1. ASSUME UNCHANGED <<cart, again, early, faults, reqs>> PROVE CountInv'
  BY <1>1 DEF CountInv
<1>2. ASSUME NEW q \in Slots, (\E o \in Orders : ViewDetail(q, o)) \/ OpenRefund(q)
      PROVE  CountInv'
  <2>1. PICK page, id : reqs' = [reqs EXCEPT ![q] = Sent("order", page, id)]
    BY <1>2 DEF ViewDetail, OpenRefund, Push
  <2>2. ~Busy(q) /\ UNCHANGED <<cart, again, early, faults>>
    BY <1>2 DEF ViewDetail, OpenRefund
  <2>. QED BY <2>1, <2>2, CountAsks
<1>3. ASSUME NEW q \in Slots, TapCancel(q) PROVE CountInv'
  BY <1>3, CountAsks DEF TapCancel, Ask
<1>4. ASSUME NEW q \in Slots, TapRefund(q) PROVE CountInv'
  BY <1>4, CountAsks DEF TapRefund, Ask
<1>5. ASSUME NEW i, NEW n, Swipe(i) \/ Spin(i, n) PROVE CountInv'
  BY <1>1, <1>5 DEF Swipe, Spin
<1>6. ASSUME NEW o \in Orders, Proceed(o) PROVE CountInv'
  BY <1>1, <1>6 DEF Proceed
<1>7. CASE UNCHANGED vars
  BY <1>1, <1>7 DEF vars
<1>8. ASSUME NEW q \in Slots, TapReorder(q) \/ Serve(q) \/ Refuse(q) \/ Answer(q) PROVE CountInv'
  BY <1>8, CountReorder, CountServe, CountRefuse, CountAnswer
<1>9. ASSUME NEW q \in Slots, Lose(q) \/ Fail(q) PROVE CountInv'
  BY <1>9, CountLost
<1>. QED BY <1>2, <1>3, <1>4, <1>5, <1>6, <1>7, <1>8, <1>9, CountBack DEF Next

(***************************************************************************)
(* Every tap on "Add to Cart" counts once: when none is under way, the     *)
(* cart holds as many of every order as were asked for, if the order had   *)
(* arrived on its page before each tap and nothing was refused or lost.    *)
(***************************************************************************)
THEOREM EveryTapCounts == Spec => []ReordersCount
<1>1. CountInv => ReordersCount
  <2>. SUFFICES ASSUME CountInv, ~early, faults = 0,
                       ~(\E q \in Slots : Busy(q) /\ reqs[q].kind = "reorder")
       PROVE  cart = again
    BY DEF ReordersCount
  <2>1. ASSUME NEW o \in Orders PROVE cart[o] = again[o]
    <3>1. Due(reqs, o) = {}
      BY DEF Due, ToCart, Busy
    <3>2. Cardinality(Due(reqs, o)) = 0
      BY <3>1, FS_EmptySet
    <3>. QED BY <3>2 DEF CountInv
  <2>. QED BY <2>1 DEF CountInv
<1>. QED BY <1>1, InitInv, StepInv, CountInit, CountStep, PTL DEF Spec
=============================================================================
