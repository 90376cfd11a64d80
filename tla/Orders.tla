-------------------------------- MODULE Orders --------------------------------
(***************************************************************************)
(* The shopper's orders: the list, the page of one order with its buttons  *)
(* ("Add to Cart", "Cancel", "Refund"), and the form that asks for a       *)
(* refund, on the navigator's stack.                                       *)
(*                                                                         *)
(* Every page fetches what it shows once, when it is opened; only a        *)
(* cancellation fetches the order again.  Meanwhile the merchant moves the *)
(* orders on, so that a button may act on a state that is over, and old    *)
(* pages stay usable below new ones.  The page of an order is there before *)
(* the order is (its loader waits five seconds and not for the answer):    *)
(* until then the order's number is 0.                                     *)
(***************************************************************************)
EXTENDS Integers, Sequences, SequencesExt, FiniteSets

CONSTANTS Orders,        \* the shopper's orders
          None,          \* the order 0 of a page whose order has not arrived
          Lines,         \* Orders -> how many lines an order has
          Slots,         \* requests that can be under way at a time
          MaxQty,        \* bound: quantities typed into the refund form
          MaxPages,      \* bound: pages on the stack
          MaxTaps,       \* bound: requests the shopper makes
          MaxFaults      \* bound: requests refused or lost

ASSUME NoneAssumption == None \notin Orders
ASSUME BoundsAssumption ==
  /\ {MaxQty, MaxPages} \subseteq Nat \ {0} /\ {MaxTaps, MaxFaults} \subseteq Nat
  /\ Lines \in [Orders -> Nat \ {0}]

Status == {"pending", "processing", "completed", "closed", "canceled"}

\* What the merchant does next with an order that is not canceled.
After == [pending |-> "processing", processing |-> "completed", completed |-> "closed"]

\* Every line was ordered once.
Ordered(o) == [i \in 1..Lines[o] |-> 1]

VARIABLES status,        \* of each order, at the shop
          cart,          \* how often an order was put into the cart again
          pages,         \* the navigator's stack, the top page last
          reqs,          \* the requests under way
          taps, faults,  \* how much of the bounds is used up
          asked,         \* history: the refunds that were sent
          again,         \* history: the taps on "Add to Cart"
          early,         \* history: one of them before its order had arrived
          hasty          \* history: "Cancel" was tapped on a page that was
                         \* still waiting for the one before

vars == <<status, cart, pages, reqs, taps, faults, asked, again, early, hasty>>

ListPage == [kind : {"list"}, loaded : BOOLEAN]
Detail   == [kind : {"detail"}, id : Orders, status : Status \union {""}]

\* qty: the quantities in the form, none before the order has arrived
\* swiped: the lines swiped away, which stay in the form's order
\* spun: history: the lines whose quantity was changed
Refund   == [kind : {"refund"}, id : Orders, qty : Seq(0..MaxQty),
             swiped : SUBSET Nat, spun : SUBSET Nat]

Idle == [pc |-> "idle"]
Request == [pc   : {"sent", "ok", "refused"},
            kind : {"list", "order", "reorder", "cancel", "refund"},
            page : 0..MaxPages,          \* the page that asked, 0: gone
            id   : Orders \union {None},
            is   : Status \union {""}]   \* the answer to "order"

Error == [kind |-> "error"]

TypeOK ==
  /\ status \in [Orders -> Status] /\ cart \in [Orders -> Nat]
  /\ pages \in Seq(ListPage \union Detail \union Refund \union {Error}) /\ Len(pages) \in 1..MaxPages
  /\ \A q \in Slots : reqs[q] = Idle \/ reqs[q] \in Request
  /\ taps \in 0..MaxTaps /\ faults \in 0..MaxFaults
  /\ \A a \in asked : a.id \in Orders /\ a.qty \in Seq(0..MaxQty) \ {<<>>}
  /\ again \in [Orders -> Nat] /\ early \in BOOLEAN /\ hasty \in BOOLEAN

Top == Last(pages)
Busy(q) == reqs[q] # Idle
Waiting(k, kinds) ==
  \E q \in Slots : Busy(q) /\ reqs[q].page = k /\ reqs[q].kind \in kinds

Init ==
  /\ status \in [Orders -> Status]
  /\ cart = [o \in Orders |-> 0] /\ again = cart
  /\ pages = <<[kind |-> "list", loaded |-> TRUE]>>
  /\ reqs = [q \in Slots |-> Idle]
  /\ taps = 0 /\ faults = 0
  /\ asked = {} /\ early = FALSE /\ hasty = FALSE

-----------------------------------------------------------------------------
(* The pages                                                               *)

Sent(kind, page, id) ==
  [pc |-> "sent", kind |-> kind, page |-> page, id |-> id, is |-> ""]

\* MaxPages leaves room for the list that every refund may push.
Room == Len(pages) + Cardinality({q \in Slots : Busy(q) /\ reqs[q].kind = "refund"})
          < MaxPages

\* A page is pushed, whose initState asks for `kind` of `id`.
Push(q, page, kind, id) ==
  /\ pages' = Append(pages, page)
  /\ reqs' = [reqs EXCEPT ![q] = Sent(kind, Len(pages) + 1, id)]

\* "View Detail" of a row: the rows of the list are its orders.
ViewDetail(q, o) ==
  /\ Top.kind = "list" /\ Top.loaded /\ ~Busy(q) /\ Room
  /\ Push(q, [kind |-> "detail", id |-> o, status |-> ""], "order", o)
  /\ UNCHANGED <<status, cart, taps, faults, asked, again, early, hasty>>

Form(o) == [kind |-> "refund", id |-> o, qty |-> <<>>, swiped |-> {}, spun |-> {}]

\* Fault for the mutant runs: "Refund" is there whatever the order's state.
OpenRefundAlways(q) ==
  /\ Top.kind = "detail" /\ Top.status # "" /\ ~Busy(q) /\ Room
  /\ Push(q, Form(Top.id), "order", Top.id)
  /\ UNCHANGED <<status, cart, taps, faults, asked, again, early, hasty>>

\* "Refund", which a completed order shows.
OpenRefund(q) ==
  /\ Top.kind = "detail" /\ Top.status = "completed" /\ ~Busy(q) /\ Room
  /\ Push(q, Form(Top.id), "order", Top.id)
  /\ UNCHANGED <<status, cart, taps, faults, asked, again, early, hasty>>

Back ==
  /\ Len(pages) > 1
  /\ pages' = Front(pages)
  /\ reqs' = [q \in Slots |-> IF Busy(q) /\ reqs[q].page = Len(pages)
                              THEN [reqs[q] EXCEPT !.page = 0] ELSE reqs[q]]
  /\ UNCHANGED <<status, cart, taps, faults, asked, again, early, hasty>>

\* The spin box of line i writes into the form's order and draws the form
\* anew, with the lines that had been swiped away.
Spin(i, n) ==
  /\ Top.kind = "refund" /\ i \in DOMAIN Top.qty \ Top.swiped /\ Top.qty[i] # n
  /\ pages' = [pages EXCEPT ![Len(pages)] =
                 [@ EXCEPT !.qty = [Top.qty EXCEPT ![i] = n],
                           !.swiped = {}, !.spun = Top.spun \union {i}]]
  /\ UNCHANGED <<status, cart, reqs, taps, faults, asked, again, early, hasty>>

\* A line is swiped away: onDismissed does nothing.
Swipe(i) ==
  /\ Top.kind = "refund" /\ i \in DOMAIN Top.qty \ Top.swiped
  /\ pages' = [pages EXCEPT ![Len(pages)] = [@ EXCEPT !.swiped = Top.swiped \union {i}]]
  /\ UNCHANGED <<status, cart, reqs, taps, faults, asked, again, early, hasty>>

-----------------------------------------------------------------------------
(* The buttons, up to their await                                          *)

Ask(q, kind, id) ==
  /\ ~Busy(q) /\ taps < MaxTaps
  /\ taps' = taps + 1
  /\ reqs' = [reqs EXCEPT ![q] = Sent(kind, Len(pages), id)]
  /\ UNCHANGED <<status, cart, faults>>

\* The number of the order a page shows, 0 until the order has arrived.
Shown == IF Top.status = "" THEN None ELSE Top.id

\* Fault for the mutant runs: a tap is swallowed while the page is waiting.
TapReorderSwallowed(q) ==
  /\ Top.kind = "detail" /\ ~Busy(q) /\ taps < MaxTaps
  /\ taps' = taps + 1
  /\ reqs' = IF Waiting(Len(pages), {"order", "reorder", "cancel"}) THEN reqs
             ELSE [reqs EXCEPT ![q] = Sent("reorder", Len(pages), Shown)]
  /\ again' = [again EXCEPT ![Top.id] = @ + 1]
  /\ early' = (early \/ Shown = None)
  /\ UNCHANGED <<status, cart, faults, pages, asked, hasty>>

\* "Add to Cart" is always there.
TapReorder(q) ==
  /\ Top.kind = "detail"
  /\ Ask(q, "reorder", Shown)
  /\ again' = [again EXCEPT ![Top.id] = @ + 1]
  /\ early' = (early \/ Shown = None)
  /\ UNCHANGED <<pages, asked, hasty>>

\* "Cancel", which a pending order shows.
TapCancel(q) ==
  /\ Top.kind = "detail" /\ Top.status = "pending"
  /\ Ask(q, "cancel", Shown)
  /\ hasty' = (hasty \/ Waiting(Len(pages), {"cancel", "order"}))
  /\ UNCHANGED <<pages, asked, again, early>>

\* "Submit" with a reason filled in: every line of the form's order, swiped
\* away or not.  Before the order has arrived the handler ends in a
\* RangeError.  (MaxPages leaves room for the list the answer pushes.)
TapRefund(q) ==
  /\ Top.kind = "refund" /\ Top.qty # <<>> /\ Room
  /\ Ask(q, "refund", Top.id)
  /\ asked' = asked \union {[id |-> Top.id, qty |-> Top.qty, spun |-> Top.spun]}
  /\ UNCHANGED <<pages, again, early, hasty>>

-----------------------------------------------------------------------------
(* The shop (external)                                                     *)

At(q, pcs, kinds) == Busy(q) /\ reqs[q].pc \in pcs /\ reqs[q].kind \in kinds

\* The merchant moves an order on.
Proceed(o) ==
  /\ status[o] \in DOMAIN After
  /\ status' = [status EXCEPT ![o] = After[@]]
  /\ UNCHANGED <<cart, pages, reqs, taps, faults, asked, again, early, hasty>>

Answered(q) == [reqs[q] EXCEPT !.pc = "ok"]

\* Only a pending order can be canceled, and no order is called 0.
Impossible(r) ==
  \/ r.id = None /\ r.kind # "list"
  \/ r.kind = "cancel" /\ status[r.id] # "pending"

\* A refund request waits for the merchant and changes no order.
Serve(q) ==
  LET r == reqs[q] IN
  /\ Busy(q) /\ r.pc = "sent" /\ ~Impossible(r)
  /\ status' = IF r.kind = "cancel" THEN [status EXCEPT ![r.id] = "canceled"] ELSE status
  /\ cart' = IF r.kind = "reorder" THEN [cart EXCEPT ![r.id] = @ + 1] ELSE cart
  /\ reqs' = [reqs EXCEPT ![q] = IF r.kind = "order"
                                 THEN [Answered(q) EXCEPT !.is = status[r.id]]
                                 ELSE Answered(q)]
  /\ UNCHANGED <<pages, taps, faults, asked, again, early, hasty>>

\* A 4xx answer, for a reason of the shop's own if the request is possible.
Refuse(q) ==
  /\ Busy(q) /\ reqs[q].pc = "sent"
  /\ IF Impossible(reqs[q]) THEN UNCHANGED faults
     ELSE faults < MaxFaults /\ faults' = faults + 1
  /\ reqs' = [reqs EXCEPT ![q] = [@ EXCEPT !.pc = "refused"]]
  /\ UNCHANGED <<status, cart, pages, taps, asked, again, early, hasty>>

-----------------------------------------------------------------------------
(* The answers                                                             *)

Alive(q) == reqs[q].page # 0
Done(q) == reqs' = [reqs EXCEPT ![q] = Idle]

\* getOrder: the rows are shown.
AnswerList(q) ==
  /\ At(q, {"ok", "refused"}, {"list"})
  /\ Done(q)
  /\ pages' = IF Alive(q) /\ reqs[q].pc = "ok"
              THEN [pages EXCEPT ![reqs[q].page] = [@ EXCEPT !.loaded = TRUE]]
              ELSE pages
  /\ UNCHANGED <<status, cart, taps, faults, asked, again, early, hasty>>

\* getOrderDetail, of either page; an error cannot be decoded.
AnswerOrder(q) ==
  LET k == reqs[q].page IN
  /\ At(q, {"ok", "refused"}, {"order"})
  /\ Done(q)
  /\ pages' = IF ~Alive(q) \/ reqs[q].pc = "refused" THEN pages
              ELSE [pages EXCEPT ![k] =
                      IF pages[k].kind = "detail"
                      THEN [@ EXCEPT !.status = reqs[q].is]
                      ELSE [@ EXCEPT !.qty = Ordered(reqs[q].id)]]
  /\ UNCHANGED <<status, cart, taps, faults, asked, again, early, hasty>>

\* The message is shown.
AnswerReorder(q) ==
  /\ At(q, {"ok", "refused"}, {"reorder"})
  /\ Done(q)
  /\ UNCHANGED <<status, cart, pages, taps, faults, asked, again, early, hasty>>

\* Fault for the mutant runs: the order is fetched again only after a success.
AnswerCancelOk(q) ==
  /\ At(q, {"ok", "refused"}, {"cancel"})
  /\ IF Alive(q) /\ reqs[q].pc = "ok"
     THEN reqs' = [reqs EXCEPT ![q] = Sent("order", reqs[q].page, pages[reqs[q].page].id)]
     ELSE Done(q)
  /\ UNCHANGED <<status, cart, pages, taps, faults, asked, again, early, hasty>>

\* Fault for the mutant runs: the page shows "canceled" before it is known.
AnswerCancelAtOnce(q) ==
  /\ At(q, {"ok", "refused"}, {"cancel"})
  /\ IF Alive(q)
     THEN /\ reqs' = [reqs EXCEPT ![q] = Sent("order", reqs[q].page, pages[reqs[q].page].id)]
          /\ pages' = [pages EXCEPT ![reqs[q].page] = [@ EXCEPT !.status = "canceled"]]
     ELSE Done(q) /\ UNCHANGED pages
  /\ UNCHANGED <<status, cart, taps, faults, asked, again, early, hasty>>

\* Whatever the shop said, the order is fetched again.
AnswerCancel(q) ==
  /\ At(q, {"ok", "refused"}, {"cancel"})
  /\ IF Alive(q)
     THEN reqs' = [reqs EXCEPT ![q] = Sent("order", reqs[q].page, pages[reqs[q].page].id)]
     ELSE Done(q)
  /\ UNCHANGED <<status, cart, pages, taps, faults, asked, again, early, hasty>>

\* A success opens a new list over whatever is on top.
AnswerRefund(q) ==
  /\ At(q, {"ok", "refused"}, {"refund"})
  /\ IF Alive(q) /\ reqs[q].pc = "ok"
     THEN Push(q, [kind |-> "list", loaded |-> FALSE], "list", None)
     ELSE Done(q) /\ UNCHANGED pages
  /\ UNCHANGED <<status, cart, taps, faults, asked, again, early, hasty>>

\* A broken connection, before the shop has carried out the request or after.
Lose(q) ==
  /\ Busy(q) /\ reqs[q].pc # "refused"
  /\ faults < MaxFaults /\ faults' = faults + 1
  /\ Done(q)
  /\ UNCHANGED <<status, cart, pages, taps, asked, again, early, hasty>>

\* A 500, of the same two kinds: the error page comes on top, and the missing
\* message ends the handler.
Fail(q) ==
  /\ Busy(q) /\ reqs[q].pc # "refused" /\ Room
  /\ faults < MaxFaults /\ faults' = faults + 1
  /\ Done(q)
  /\ pages' = Append(pages, Error)
  /\ UNCHANGED <<status, cart, taps, asked, again, early, hasty>>

Answer(q) ==
  \/ AnswerList(q) \/ AnswerOrder(q) \/ AnswerReorder(q) \/ AnswerCancel(q)
  \/ AnswerRefund(q)

-----------------------------------------------------------------------------
Next ==
  \/ \E q \in Slots :
       \/ \E o \in Orders : ViewDetail(q, o)
       \/ OpenRefund(q) \/ TapReorder(q) \/ TapCancel(q) \/ TapRefund(q)
       \/ Serve(q) \/ Refuse(q) \/ Answer(q) \/ Lose(q) \/ Fail(q)
  \/ \E i \in DOMAIN (IF Top.kind = "refund" THEN Top.qty ELSE <<>>) :
       Swipe(i) \/ \E n \in 0..MaxQty : Spin(i, n)
  \/ \E o \in Orders : Proceed(o)
  \/ Back

(***************************************************************************)
(* The shop answers every request, and the event loop runs every callback. *)
(***************************************************************************)
Fairness == \A q \in Slots : WF_vars(Serve(q) \/ Refuse(q)) /\ WF_vars(Answer(q))

Spec == Init /\ [][Next]_vars /\ Fairness

-----------------------------------------------------------------------------
(* Properties                                                              *)

(***************************************************************************)
(* A refund is only ever asked for an order that has been completed, with  *)
(* a quantity for each of its own lines, and with the quantity that was    *)
(* ordered where the shopper changed none - from whichever old pages the   *)
(* form was reached.                                                       *)
(***************************************************************************)
RefundMatchesOrder ==
  \A a \in asked :
    /\ status[a.id] \in {"completed", "closed"}
    /\ Len(a.qty) = Lines[a.id]
    /\ \A i \in 1..Lines[a.id] : i \notin a.spun => a.qty[i] = Ordered(a.id)[i]

(***************************************************************************)
(* Every tap on "Add to Cart" puts the order of the page into the cart     *)
(* once, unless it comes before the order has arrived.                     *)
(***************************************************************************)
ReordersCount ==
  ~early /\ faults = 0 /\ ~(\E q \in Slots : Busy(q) /\ reqs[q].kind = "reorder") =>
    cart = again

Rank == [pending |-> 1, processing |-> 2, completed |-> 3, closed |-> 4, canceled |-> 4]

(***************************************************************************)
(* The state of an order never goes back on its page: late answers cannot  *)
(* undo what was shown, unless "Cancel" was tapped again while the page    *)
(* was still waiting.                                                      *)
(***************************************************************************)
NeverGoesBack ==
  [][\A k \in DOMAIN pages \cap DOMAIN pages' :
       pages[k].kind = "detail" /\ pages[k].status # "" /\ ~hasty
         => pages'[k].status # "" /\ Rank[pages'[k].status] >= Rank[pages[k].status]]_vars

(***************************************************************************)
(* A page on which "Cancel" was tapped does not go on offering it: it      *)
(* comes to show what has become of the order, unless it is left or an     *)
(* answer is lost or refused.                                              *)
(***************************************************************************)
CancelIsSettled ==
  \A k \in 1..MaxPages :
    Waiting(k, {"cancel"}) ~>
      (k \notin DOMAIN pages \/ pages[k].kind # "detail" \/ pages[k].status # "pending" \/ faults > 0)
=============================================================================
