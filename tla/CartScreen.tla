----------------------------- MODULE CartScreen -----------------------------
(***************************************************************************)
(* The cart screen (CartUnitTesting): a list of rows copied from the shop, *)
(* refreshed by a 3-second timer and after every change, and changed by    *)
(* requests computed from the copy.                                        *)
(*                                                                         *)
(*  - a quantity change is sent as an absolute quantity, computed from the *)
(*    row as displayed when it is tapped;                                  *)
(*  - a swipe remembers the row's index, sends the removal, fetches the    *)
(*    cart once for nothing, starts a refresh, and then removes the row    *)
(*    that has that index by now;                                          *)
(*  - every fetch is copied to the screen whenever its answer arrives, in  *)
(*    whatever order; the timer of a screen is never cancelled;            *)
(*  - "Empty" pushes another cart screen with a timer of its own.          *)
(*                                                                         *)
(* The changes carry "Bearer <token>", which for a guest is "Bearer null": *)
(* the shop refuses them, while a guest's cart is fetched with the cookie. *)
(***************************************************************************)
EXTENDS Integers, Sequences, SequencesExt, FiniteSets

CONSTANTS Products,      \* what the cart can hold
          Slots,         \* requests that can be under way at a time
          MaxQty,        \* bound: quantities asked for
          MaxTaps,       \* bound: changes the shopper makes
          MaxFaults,     \* bound: requests refused or lost
          MaxScreens     \* bound: cart screens opened

ASSUME BoundsAssumption ==
  /\ IsFiniteSet(Products) /\ Products # {}
  /\ {MaxQty, MaxScreens} \subseteq Nat \ {0}
  /\ {MaxTaps, MaxFaults} \subseteq Nat

Screens == 1..MaxScreens
Row == [id : Products, qty : 1..MaxQty]

VARIABLES guest,         \* no token: decided before the screen is opened
          shop,          \* the rows of the cart at the shop
          view,          \* cartModel of each screen
          open,          \* the stack of cart screens, the top one last
          made,          \* screens made so far, each with a running timer
          reqs,          \* the requests under way
          taps, faults,  \* how much of the bounds is used up
          want,          \* history: the quantities the shopper asked for
          hasty,         \* history: a change was made from a stale row, or
                         \* while another one was under way, or down to zero
          held           \* history: the rows the shop has held

screenVars == <<guest, shop, view, open, made, reqs, taps, faults, want, hasty, held>>

(***************************************************************************)
(* kind: get     a fetch whose answer is displayed                         *)
(*       extra   the fetch after a removal, whose answer is not used       *)
(*       put     a change of quantity      drop    a removal               *)
(*       wish    a move to the wishlist    empty   emptying the cart       *)
(*       coupon  a voucher                                                 *)
(***************************************************************************)
Changing == {"put", "drop", "wish", "empty"}
Idle == [pc |-> "idle"]
Request == [pc    : {"sent", "answered"},
            kind  : Changing \union {"get", "extra", "coupon"},
            scr   : Screens,             \* the screen that awaits the answer
            row   : [id : Products, qty : 0..MaxQty],
            index : Nat,                 \* index remembered by a swipe
            rows  : Seq(Row)]            \* the answer of a get

Ids(rows) == {r.id : r \in ToSet(rows)}
QtyOf(rows, p) ==
  IF p \in Ids(rows) THEN (CHOOSE r \in ToSet(rows) : r.id = p).qty ELSE 0
Without(rows, p) ==
  IF p \in Ids(rows) THEN RemoveAt(rows, CHOOSE i \in DOMAIN rows : rows[i].id = p) ELSE rows
\* The row of r's product becomes r.
With(rows, r) == [i \in DOMAIN rows |-> IF rows[i].id = r.id THEN r ELSE rows[i]]
Top == Last(open)
NoRow == [id |-> CHOOSE p \in Products : TRUE, qty |-> 0]

ScreenTypeOK ==
  /\ guest \in BOOLEAN /\ hasty \in BOOLEAN
  /\ shop \in Seq(Row)
  /\ view \in [Screens -> Seq(Row)]
  /\ open \in Seq(Screens) \ {<<>>} /\ made \in Screens
  /\ reqs \in [Slots -> {Idle} \union Request]
  /\ taps \in 0..MaxTaps /\ faults \in 0..MaxFaults
  /\ want \in [Products -> Int]
  /\ held \subseteq Row

ScreenInit ==
  /\ guest \in BOOLEAN
  /\ shop \in {[i \in DOMAIN ps |-> [id |-> ps[i], qty |-> 1]] :
                 ps \in SetToAllKPermutations(Products)}
  /\ view = [s \in Screens |-> <<>>]
  /\ open = <<1>> /\ made = 1
  /\ reqs = [q \in Slots |-> Idle]
  /\ taps = 0 /\ faults = 0
  /\ want = [p \in Products |-> QtyOf(shop, p)]
  /\ hasty = FALSE
  /\ held = ToSet(shop)

-----------------------------------------------------------------------------
Ask(q, kind, s, row, index) ==
  reqs' = [reqs EXCEPT ![q] = [pc |-> "sent", kind |-> kind, scr |-> s,
                               row |-> row, index |-> index, rows |-> <<>>]]

\* getCartData, up to its await.
GetCartData(q, s) == Ask(q, "get", s, NoRow, 0)

\* The timer started by initState of screen s, shown, covered or gone.
Tick(q, s) ==
  /\ s <= made
  /\ reqs[q] = Idle
  /\ GetCartData(q, s)
  /\ UNCHANGED <<guest, shop, view, open, made, taps, faults, want, hasty, held>>

UnderWay == \E q \in Slots : reqs[q] # Idle /\ reqs[q].kind \in Changing

\* A change asked for on the top screen leaves the shopper wanting `wanted`.
Change(wanted) ==
  /\ taps < MaxTaps
  /\ taps' = taps + 1
  /\ want' = wanted
  /\ hasty' = (\/ hasty \/ UnderWay \/ view[Top] # shop
               \/ \E p \in Products : wanted[p] < 0)
  /\ UNCHANGED <<guest, shop, open, made, faults, held>>

\* The rows a change can start from.
Shown == DOMAIN view[Top]

\* Fault for the mutant runs: the first row is sent, whichever was tapped.
TapQuantityFirstRow(q, i, delta) ==
  LET row == view[Top][i] IN
  /\ reqs[q] = Idle
  /\ row.qty + delta <= MaxQty
  /\ Change([want EXCEPT ![row.id] = IF row.qty + delta < 1 THEN -1 ELSE @ + delta])
  /\ Ask(q, "put", Top, [view[Top][1] EXCEPT !.qty = @ + delta], 0)
  /\ UNCHANGED view

\* Fault for the mutant runs: the new quantity is displayed at once.
TapQuantityOptimistic(q, i, delta) ==
  LET row == view[Top][i] IN
  /\ reqs[q] = Idle
  /\ row.qty + delta <= MaxQty
  /\ Change([want EXCEPT ![row.id] = IF row.qty + delta < 1 THEN -1 ELSE @ + delta])
  /\ Ask(q, "put", Top, [row EXCEPT !.qty = @ + delta], 0)
  /\ view' = [view EXCEPT ![Top][i].qty = @ + delta]

\* The plus and minus icons: the displayed quantity and one more or less.
\* Nothing keeps minus from asking for none; what comes of it is the shop's
\* choice, so want no longer tells (-1).
TapQuantity(q, i, delta) ==
  LET row == view[Top][i] IN
  /\ reqs[q] = Idle
  /\ row.qty + delta <= MaxQty
  /\ Change([want EXCEPT ![row.id] = IF row.qty + delta < 1 THEN -1 ELSE @ + delta])
  /\ Ask(q, "put", Top, [row EXCEPT !.qty = @ + delta], 0)
  /\ UNCHANGED view

Swipe(q, i) ==
  /\ reqs[q] = Idle
  /\ Change([want EXCEPT ![view[Top][i].id] = 0])
  /\ Ask(q, "drop", Top, view[Top][i], i)
  /\ UNCHANGED view

TapHeart(q, i) ==
  /\ reqs[q] = Idle
  /\ Change([want EXCEPT ![view[Top][i].id] = 0])
  /\ Ask(q, "wish", Top, view[Top][i], 0)
  /\ UNCHANGED view

\* "Empty" is only there while rows are displayed.  (MaxScreens leaves room
\* for the screen every answer pushes.)
Emptying == {q \in Slots : reqs[q] # Idle /\ reqs[q].kind = "empty"}

TapEmpty(q) ==
  /\ reqs[q] = Idle
  /\ made + Cardinality(Emptying) < MaxScreens
  /\ view[Top] # <<>>
  /\ Change([p \in Products |-> 0])
  /\ Ask(q, "empty", Top, NoRow, 0)
  /\ UNCHANGED view

\* A voucher changes prices, no row; its answer is handled as a change's.
TapCoupon(q) ==
  /\ reqs[q] = Idle
  /\ taps < MaxTaps
  /\ taps' = taps + 1
  /\ Ask(q, "coupon", Top, NoRow, 0)
  /\ UNCHANGED <<guest, shop, view, open, made, faults, want, hasty, held>>

\* Back from a cart screen: the screen is disposed of, its timer goes on.
Back ==
  /\ Len(open) > 1
  /\ open' = Front(open)
  /\ UNCHANGED <<guest, shop, view, made, reqs, taps, faults, want, hasty, held>>

-----------------------------------------------------------------------------
(* The shop (external)                                                     *)

Answered(q) == [reqs[q] EXCEPT !.pc = "answered"]

Settle(rows) ==
  /\ shop' = rows
  /\ held' = held \union ToSet(rows)

\* A fetch reads the cart of the token, or of a guest's cookie; a voucher
\* leaves the rows alone.
ServeFetch(q) ==
  /\ reqs[q] # Idle /\ reqs[q].pc = "sent" /\ reqs[q].kind \in {"get", "extra", "coupon"}
  /\ reqs' = [reqs EXCEPT ![q] = [Answered(q) EXCEPT !.rows = shop]]
  /\ UNCHANGED <<guest, shop, view, open, made, taps, faults, want, hasty, held>>

\* What the change r makes of the rows.
Changed(rows, r) ==
  CASE r.kind = "put"   -> With(rows, r.row)
    [] r.kind = "empty" -> <<>>
    [] OTHER            -> Without(rows, r.row.id)

\* A change is carried out.
ServeChange(q) ==
  /\ reqs[q] # Idle /\ reqs[q].pc = "sent" /\ reqs[q].kind \in Changing
  /\ ~guest
  /\ reqs[q].kind = "put" => reqs[q].row.qty > 0
  /\ Settle(Changed(shop, reqs[q]))
  /\ reqs' = [reqs EXCEPT ![q] = Answered(q)]
  /\ UNCHANGED <<guest, view, open, made, taps, faults, want, hasty>>

\* A 4xx answer: always for a guest or a quantity of none, otherwise when
\* the shop has a reason of its own.
Refuse(q) ==
  /\ reqs[q] # Idle /\ reqs[q].pc = "sent" /\ reqs[q].kind \in Changing
  /\ IF guest \/ (reqs[q].kind = "put" /\ reqs[q].row.qty < 1)
     THEN UNCHANGED faults
     ELSE faults < MaxFaults /\ faults' = faults + 1
  /\ reqs' = [reqs EXCEPT ![q] = Answered(q)]
  /\ UNCHANGED <<guest, shop, view, open, made, taps, want, hasty, held>>

\* A product page below the cart screen adds one of p.
AddElsewhere(p) ==
  /\ taps < MaxTaps
  /\ taps' = taps + 1
  /\ QtyOf(shop, p) < MaxQty
  /\ Settle(IF p \in Ids(shop)
            THEN With(shop, [id |-> p, qty |-> QtyOf(shop, p) + 1])
            ELSE Append(shop, [id |-> p, qty |-> 1]))
  /\ want' = [want EXCEPT ![p] = @ + 1]
  /\ hasty' = (hasty \/ UnderWay)
  /\ UNCHANGED <<guest, view, open, made, reqs, faults>>

-----------------------------------------------------------------------------
(* The answers                                                             *)

Displayed(s) == s \in ToSet(open)

\* Only a screen that still exists can be given rows.
Show(s, rows) == view' = IF Displayed(s) THEN [view EXCEPT ![s] = rows] ELSE view

Arrived(q, kinds) ==
  reqs[q] # Idle /\ reqs[q].pc = "answered" /\ reqs[q].kind \in kinds

\* Fault for the mutant runs: only the first answer is displayed.
AnswerGetFirst(q) ==
  LET s == reqs[q].scr IN
  /\ Arrived(q, {"get"})
  /\ Show(s, IF view[s] = <<>> THEN reqs[q].rows ELSE view[s])
  /\ reqs' = [reqs EXCEPT ![q] = Idle]
  /\ UNCHANGED <<guest, shop, open, made, taps, faults, want, hasty, held>>

AnswerGet(q) ==
  /\ Arrived(q, {"get"})
  /\ Show(reqs[q].scr, reqs[q].rows)
  /\ reqs' = [reqs EXCEPT ![q] = Idle]
  /\ UNCHANGED <<guest, shop, open, made, taps, faults, want, hasty, held>>

\* The message of a quantity change or a voucher is shown and the cart fetched again.
AnswerPut(q) ==
  /\ Arrived(q, {"put", "coupon"})
  /\ GetCartData(q, reqs[q].scr)
  /\ UNCHANGED <<guest, shop, view, open, made, taps, faults, want, hasty, held>>

\* Whatever the shop said to a removal, the cart is fetched ...
AnswerDrop(q) ==
  /\ Arrived(q, {"drop"})
  /\ Ask(q, "extra", reqs[q].scr, reqs[q].row, reqs[q].index)
  /\ UNCHANGED <<guest, shop, view, open, made, taps, faults, want, hasty, held>>

\* ... and after that answer a refresh is started, and the row at the
\* remembered index, if there is one, leaves the list displayed by now.
AnswerExtra(q) ==
  LET s == reqs[q].scr
      i == reqs[q].index IN
  /\ Arrived(q, {"extra"})
  /\ GetCartData(q, s)
  /\ Show(s, IF i \in DOMAIN view[s] THEN RemoveAt(view[s], i) ELSE view[s])
  /\ UNCHANGED <<guest, shop, open, made, taps, faults, want, hasty, held>>

\* A move to the wishlist shows the message and fetches nothing.
AnswerWish(q) ==
  /\ Arrived(q, {"wish"})
  /\ reqs' = [reqs EXCEPT ![q] = Idle]
  /\ UNCHANGED <<guest, shop, view, open, made, taps, faults, want, hasty, held>>

\* Whatever the shop said, a new and still empty cart screen is pushed,
\* unless the screen that asked is gone.
AnswerEmpty(q) ==
  /\ Arrived(q, {"empty"})
  /\ reqs' = [reqs EXCEPT ![q] = Idle]
  /\ IF Displayed(reqs[q].scr)
     THEN made' = made + 1 /\ open' = Append(open, made')
     ELSE UNCHANGED <<open, made>>
  /\ UNCHANGED <<guest, shop, view, taps, faults, want, hasty, held>>

\* A broken connection, an answer that cannot be decoded, or a 500 where the
\* handler reads the message of no answer: the handler ends in an exception.
Fail(q) ==
  /\ reqs[q] # Idle
  /\ faults < MaxFaults
  /\ faults' = faults + 1
  /\ reqs' = [reqs EXCEPT ![q] = Idle]
  /\ UNCHANGED <<guest, shop, view, open, made, taps, want, hasty, held>>

-----------------------------------------------------------------------------
Reply(q) ==
  \/ AnswerGet(q) \/ AnswerPut(q) \/ AnswerDrop(q)
  \/ AnswerExtra(q) \/ AnswerWish(q) \/ AnswerEmpty(q)

ScreenNext ==
  \/ \E q \in Slots :
       \/ \E s \in Screens : Tick(q, s)
       \/ \E i \in Shown, delta \in {-1, 1} : TapQuantity(q, i, delta)
       \/ \E i \in Shown : Swipe(q, i) \/ TapHeart(q, i)
       \/ TapEmpty(q) \/ TapCoupon(q)
       \/ ServeFetch(q) \/ ServeChange(q) \/ Refuse(q)
       \/ Reply(q) \/ Fail(q)
  \/ Back
  \/ \E p \in Products : AddElsewhere(p)

(***************************************************************************)
(* The network answers, the event loop runs every callback, and a periodic *)
(* timer fires again and again (strong fairness, because in the model a    *)
(* tick has to find a free slot).                                          *)
(***************************************************************************)
ScreenFairness ==
  /\ \A q \in Slots : /\ WF_screenVars(ServeFetch(q)) /\ WF_screenVars(ServeChange(q) \/ Refuse(q))
                       /\ WF_screenVars(Reply(q))
  /\ \A s \in Screens : SF_screenVars(\E q \in Slots : Tick(q, s))

ScreenSpec == ScreenInit /\ [][ScreenNext]_screenVars /\ ScreenFairness

-----------------------------------------------------------------------------
(* Properties                                                              *)

(***************************************************************************)
(* A shopper who waits until the screen shows what the shop holds before   *)
(* the next change gets every change: the absolute quantities computed     *)
(* from the display add up to the taps.                                    *)
(***************************************************************************)
CarefulTapsCount ==
  ~guest /\ ~hasty /\ faults = 0 /\ ~UnderWay =>
    \A p \in Products : QtyOf(shop, p) = want[p]

(***************************************************************************)
(* The screen never shows a product in a quantity the shop has not held:   *)
(* refreshes in any order, removals by index and disposed screens lose     *)
(* rows for a while, but make none up and show no product twice.           *)
(***************************************************************************)
NothingMadeUp ==
  \A s \in Screens :
    /\ ToSet(view[s]) \subseteq held
    /\ Cardinality(Ids(view[s])) = Len(view[s])

(***************************************************************************)
(* The display heals: when the shopper stops, the top screen comes to show *)
(* the cart of the shop for good, however many answers are late and        *)
(* whichever row an index removed.                                         *)
(***************************************************************************)
DisplayHeals == <>[](view[Top] = shop)
=============================================================================
