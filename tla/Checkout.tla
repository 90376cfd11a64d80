------------------------------ MODULE Checkout ------------------------------
(***************************************************************************)
(* From the cart to an order: the pages of the checkout, for customers and *)
(* for guests, on the navigator's stack.                                   *)
(*                                                                         *)
(*   address -> shipping -> payment -> receipt -> success -> home          *)
(*                                                                         *)
(* Each page sends a request when its button is tapped, and the answer     *)
(* pushes the next page - on top of whatever the stack has become by then, *)
(* and only if the page that asked is still in it.  Nothing ties the       *)
(* requests of one walk together but the identity they are sent under,     *)
(* which is read from the preferences at every tap: a customer's token, or *)
(* the cookie of a guest.  A customer's receipt saves the payment method   *)
(* again every three seconds, to have the cart to show; the timer that     *)
(* does it is never cancelled.                                             *)
(*                                                                         *)
(* A 500 puts the page /serverError on top of the stack, which has a       *)
(* button to home; from the sign-in page, and from the success page, Back  *)
(* pushes home, so the pages below them are out of reach, though they      *)
(* live.  The pages between home and the address page are left out: they   *)
(* keep no state of the checkout.                                          *)
(***************************************************************************)
EXTENDS Integers, Sequences, SequencesExt, FiniteSets

CONSTANTS Users,         \* customer accounts
          Sessions,      \* guest sessions of the shop
          None,
          Slots,         \* requests that can be under way at a time
          MaxDepth,      \* bound: pages on the stack
          MaxGen,        \* bound: carts an owner fills
          MaxMoves       \* bound: sign-ins and sign-outs (once they are
                         \* used up, nobody opens the sign-in page)

ASSUME OwnersAssumption == Users \cap Sessions = {} /\ None \notin Users \union Sessions
ASSUME BoundsAssumption == {MaxDepth, MaxGen} \subseteq Nat \ {0} /\ MaxMoves \in Nat

VARIABLES login,         \* preference "loggedIntoken" (and "UserID")
          cookie,        \* preference "GuestUserCookies"
          pages,         \* the navigator's stack, the top page last
          reqs,          \* the requests under way
          orphans,       \* a customer's receipt was left: its timer runs on
          carts,         \* the shop: the cart of each owner
          orders,        \* the shop: the orders, with how they came about
          moves,         \* history: sign-ins and sign-outs so far
          chosen         \* history: the carts "Cash" was tapped for

vars == <<login, cookie, pages, reqs, orphans, carts, orders, moves, chosen>>

Owners == Users \union Sessions

(***************************************************************************)
(* An owner fills one cart after the other; an order closes the cart.      *)
(***************************************************************************)
Cart == [gen : 0..MaxGen, items : BOOLEAN,
         address : BOOLEAN, shipping : BOOLEAN, payment : BOOLEAN]

Key == [owner : Owners, gen : 0..MaxGen]

KeyOf(o) == [owner |-> o, gen |-> carts[o].gen]

Unfilled(gen) == [gen |-> gen, items |-> FALSE,
                  address |-> FALSE, shipping |-> FALSE, payment |-> FALSE]

(***************************************************************************)
(* by:      history: the cart the address of this walk was saved for       *)
(* skipped: history: saving the shipping method failed, the walk went on   *)
(* shows:   the cart a receipt displays                                    *)
(* since:   history: moves when the walk began                             *)
(***************************************************************************)
Page == [kind  : {"home", "signin", "error", "address", "shipping", "payment",
                  "receipt", "success"},
         guest : BOOLEAN, by : Key \union {None}, skipped : BOOLEAN,
         shows : Key \union {None}, since : 0..MaxMoves,
         onPressedValue : BOOLEAN]

Idle == [pc |-> "idle"]

(***************************************************************************)
(* page: the position of the page that asked, 0 when it is gone; the stack *)
(*       only changes at its top, so a position stands for one page        *)
(* from: the page as it was at the tap     cart: the cart the shop used    *)
(* moved: history: the shopper had signed in or out since the walk began   *)
(***************************************************************************)
Request == [pc : {"sent", "ok", "failed", "down"},
            kind : {"address", "shipping", "payment", "poll", "order"},
            page : 0..MaxDepth, from : Page, to : Owners \union {None},
            moved : BOOLEAN, cart : Key \union {None}]

Order == [cart : Key, from : Page, moved : BOOLEAN,
          address : BOOLEAN, shipping : BOOLEAN, payment : BOOLEAN]

TypeOK ==
  /\ login \in Users \union {None} /\ cookie \in Sessions \union {None}
  /\ Len(pages) \in 1..MaxDepth
  /\ \A i \in DOMAIN pages : pages[i] \in Page
  /\ \A q \in Slots : reqs[q] = Idle \/ reqs[q] \in Request
  /\ \A q \in Slots : reqs[q] # Idle => reqs[q].page <= Len(pages)
  /\ orphans \in BOOLEAN
  /\ \A o \in Owners : carts[o] \in Cart
  /\ \A o \in orders : o \in Order
  /\ moves \in 0..MaxMoves /\ chosen \subseteq Key

Fresh(kind, guest) ==
  [kind |-> kind, guest |-> guest, by |-> None, skipped |-> FALSE,
   shows |-> None, since |-> moves, onPressedValue |-> TRUE]

Plain(kind) == [Fresh(kind, FALSE) EXCEPT !.since = 0]
Home == Plain("home")

\* A customer with goods in the cart, or a guest who has got a session.
Init ==
  /\ login \in Users \union {None}
  /\ cookie \in IF login = None THEN Sessions ELSE {None}
  /\ moves = 0
  /\ pages = <<Home>>
  /\ reqs = [q \in Slots |-> Idle]
  /\ orphans = FALSE
  /\ carts = [o \in Owners |->
                [Unfilled(0) EXCEPT !.items = o \in Users \union {cookie}]]
  /\ orders = {} /\ chosen = {}

-----------------------------------------------------------------------------
(* Identities                                                              *)

\* SaveAddress, SaveShipping and SavePayment: the customer's pages send the
\* token, the guest's pages the cookie, whoever is signed in by now.
StepIdentity(guest) == IF guest THEN cookie ELSE login

\* Fault for the mutant runs: the order goes the way of the other steps, but
\* with the cookie for everybody.
OrderIdentityCookie == cookie

\* SaveOrder, from either receipt: the token if there is one.
OrderIdentity == IF login # None THEN login ELSE cookie

-----------------------------------------------------------------------------
(* Navigation                                                              *)

Depth == Len(pages)
Top == pages[Depth]

\* The bound leaves room for the pages the answers under way will push.
Pushing == {q \in Slots : reqs[q] # Idle /\ reqs[q].kind # "poll"}
Failing == {q \in Slots : reqs[q] # Idle /\ reqs[q].pc = "down"}
Room == Depth + Cardinality(Pushing) + Cardinality(Failing) < MaxDepth

Push(page) == Room /\ pages' = Append(pages, page)

\* "Check Out" on the cart screen: a guest enters an address, a customer
\* chooses one.
TapCheckOut ==
  /\ Top.kind = "home"
  /\ Push(Fresh("address", login = None))
  /\ UNCHANGED <<login, cookie, reqs, orphans, carts, orders, moves, chosen>>

Back ==
  /\ Depth > 1 /\ Top.kind \notin {"success", "signin"}
  /\ pages' = Front(pages)
  /\ orphans' = (orphans \/ (Top.kind = "receipt" /\ ~Top.guest))
  /\ reqs' = [q \in Slots |-> IF reqs[q] # Idle /\ reqs[q].page = Depth
                              THEN [reqs[q] EXCEPT !.page = 0] ELSE reqs[q]]
  /\ UNCHANGED <<login, cookie, carts, orders, moves, chosen>>

\* Back from the success page or the sign-in page, and the button of the
\* error page, push home; the button of the success page puts home in its place.
GoHome ==
  /\ \/ Top.kind \in {"success", "signin", "error"} /\ Push(Home)
     \/ Top.kind = "success" /\ pages' = [pages EXCEPT ![Depth] = Home]
  /\ UNCHANGED <<login, cookie, reqs, orphans, carts, orders, moves, chosen>>

\* "Log Out", and "Log In" of the profile page, clear the preferences first;
\* the favourites icon takes a guest to the sign-in page as he is.
OpenSignIn ==
  /\ Top.kind = "home" /\ moves < MaxMoves /\ Push(Plain("signin"))
  /\ \/ login' = None /\ cookie' = None /\ moves' = moves + 1
     \/ login = None /\ UNCHANGED <<login, cookie, moves>>
  /\ UNCHANGED <<reqs, orphans, carts, orders, chosen>>

SignIn(u) ==
  /\ Top.kind = "signin" /\ moves < MaxMoves /\ Push(Home)
  /\ login' = u /\ moves' = moves + 1
  /\ UNCHANGED <<cookie, reqs, orphans, carts, orders, chosen>>

\* Goods are added under the present identity; a guest who has no cookie
\* gets a session (GuestCart is the module about that).
AddGoods ==
  /\ Top.kind = "home"
  /\ \E o \in IF OrderIdentity # None THEN {OrderIdentity}
              ELSE {s \in Sessions : carts[s] = Unfilled(0)} :
       /\ carts[o].gen < MaxGen /\ ~carts[o].items
       /\ carts' = [carts EXCEPT ![o].items = TRUE]
       /\ cookie' = IF o \in Sessions THEN o ELSE cookie
  /\ UNCHANGED <<login, pages, reqs, orphans, orders, moves, chosen>>

-----------------------------------------------------------------------------
(* Taps                                                                    *)

Ask(q, kind, page, from, to) ==
  /\ reqs[q] = Idle
  /\ reqs' = [reqs EXCEPT ![q] =
                [pc |-> "sent", kind |-> kind, page |-> page, from |-> from,
                 to |-> to, moved |-> moves # from.since, cart |-> None]]

\* "Select" of an address, or "Continue" of a guest's form, which disables
\* itself.
TapAddress(q) ==
  /\ Top.kind = "address" /\ Top.onPressedValue /\ Room
  /\ Ask(q, "address", Depth, Top, StepIdentity(Top.guest))
  /\ pages' = [pages EXCEPT ![Depth].onPressedValue = ~Top.guest]
  /\ UNCHANGED <<login, cookie, orphans, carts, orders, moves, chosen>>

TapShipping(q) ==
  /\ Top.kind = "shipping" /\ Room
  /\ Ask(q, "shipping", Depth, Top, StepIdentity(Top.guest))
  /\ UNCHANGED <<login, cookie, pages, orphans, carts, orders, moves, chosen>>

\* "Cash".  ("Card" writes a preference nobody reads.)
TapCash(q) ==
  /\ Top.kind = "payment" /\ Room
  /\ Ask(q, "payment", Depth, Top, StepIdentity(Top.guest))
  /\ chosen' = chosen \union
                 {KeyOf(o) : o \in {StepIdentity(Top.guest)} \ {None}}
  /\ UNCHANGED <<login, cookie, pages, orphans, carts, orders, moves>>

\* "Checkout" on a receipt disables itself.
TapOrder(q) ==
  /\ Top.kind = "receipt" /\ Top.onPressedValue /\ Room
  /\ Ask(q, "order", Depth, Top, OrderIdentity)
  /\ pages' = [pages EXCEPT ![Depth].onPressedValue = FALSE]
  /\ UNCHANGED <<login, cookie, orphans, carts, orders, moves, chosen>>

\* The timer of a disabled button (SubmitButton is the module about it).
Rearm(i) ==
  /\ ~pages[i].onPressedValue
  /\ pages' = [pages EXCEPT ![i].onPressedValue = TRUE]
  /\ UNCHANGED <<login, cookie, reqs, orphans, carts, orders, moves, chosen>>

Polling(i) == pages[i].kind = "receipt" /\ ~pages[i].guest

\* Fault for the mutant runs: the timer is started a page too early.
PollEarly(q) ==
  /\ \/ \E i \in DOMAIN pages :
          /\ pages[i].kind \in {"payment", "receipt"} /\ ~pages[i].guest
          /\ Ask(q, "poll", i, Fresh("receipt", FALSE), login)
     \/ orphans /\ Ask(q, "poll", 0, Fresh("receipt", FALSE), login)
  /\ UNCHANGED <<login, cookie, pages, orphans, carts, orders, moves, chosen>>

\* The timer of a customer's receipt, wherever the receipt is.
Poll(q) ==
  /\ \/ \E i \in DOMAIN pages : Polling(i) /\ Ask(q, "poll", i, Fresh("receipt", FALSE), login)
     \/ orphans /\ Ask(q, "poll", 0, Fresh("receipt", FALSE), login)
  /\ UNCHANGED <<login, cookie, pages, orphans, carts, orders, moves, chosen>>

-----------------------------------------------------------------------------
(* The shop (external)                                                     *)

Sent(q) == reqs[q] # Idle /\ reqs[q].pc = "sent"

\* A step is carried out if its cart has goods in it; the shop may ask for
\* no order of the steps.
ServeStep(q) ==
  LET r == reqs[q] IN
  /\ Sent(q) /\ r.kind # "order"
  /\ r.to # None /\ carts[r.to].items
  /\ carts' = CASE r.kind = "address"  -> [carts EXCEPT ![r.to].address = TRUE]
                [] r.kind = "shipping" -> [carts EXCEPT ![r.to].shipping = TRUE]
                [] OTHER               -> [carts EXCEPT ![r.to].payment = TRUE]
  /\ reqs' = [reqs EXCEPT ![q].pc = "ok", ![q].cart = KeyOf(r.to)]
  /\ UNCHANGED <<login, cookie, pages, orphans, orders, moves, chosen>>

ServeOrder(q) ==
  LET r == reqs[q]
      cart == carts[r.to] IN
  /\ Sent(q) /\ r.kind = "order"
  /\ r.to # None /\ cart.items
  /\ orders' = orders \union
       {[cart |-> KeyOf(r.to), from |-> r.from, moved |-> r.moved,
         address |-> cart.address, shipping |-> cart.shipping,
         payment |-> cart.payment]}
  /\ carts' = [carts EXCEPT ![r.to] = Unfilled(cart.gen + 1)]
  /\ reqs' = [reqs EXCEPT ![q].pc = "ok", ![q].cart = KeyOf(r.to)]
  /\ UNCHANGED <<login, cookie, pages, orphans, moves, chosen>>

\* A 4xx or a 500: no identity, no goods, or a reason of the shop's own.
ServeError(q) ==
  /\ Sent(q)
  /\ \/ reqs' = [reqs EXCEPT ![q].pc = "failed"]
     \/ Room /\ reqs' = [reqs EXCEPT ![q].pc = "down"]
  /\ UNCHANGED <<login, cookie, pages, orphans, carts, orders, moves, chosen>>

\* The connection breaks, before or after the shop served the request.
Lose(q) ==
  /\ reqs[q] # Idle
  /\ reqs' = [reqs EXCEPT ![q] = Idle]
  /\ UNCHANGED <<login, cookie, pages, orphans, carts, orders, moves, chosen>>

-----------------------------------------------------------------------------
(* Answers                                                                 *)

Answered(q, kind) ==
  reqs[q] # Idle /\ reqs[q].kind = kind /\ reqs[q].pc # "sent"

\* What the API module does with a 500, before it returns null.
WithError(q) == IF reqs[q].pc = "down" THEN Append(pages, Plain("error")) ELSE pages

\* The handler of request q ends, and goes on to `page` if `goes` - unless
\* its own page is gone: then the navigator cannot be found and it throws.
Finish(q, goes, page) ==
  /\ reqs' = [reqs EXCEPT ![q] = Idle]
  /\ pages' = IF goes /\ reqs[q].page # 0 THEN Append(WithError(q), page)
              ELSE WithError(q)

\* Fault for the mutant runs: the answer is not looked at.
AnswerAddressUnchecked(q) ==
  LET r == reqs[q] IN
  /\ Answered(q, "address")
  /\ Finish(q, r.to # None, [r.from EXCEPT !.kind = "shipping",
                               !.by = [owner |-> r.to, gen |-> carts[r.to].gen]])
  /\ UNCHANGED <<login, cookie, orphans, carts, orders, moves, chosen>>

\* The shipping rates of an address that was refused cannot be decoded.
AnswerAddress(q) ==
  LET r == reqs[q] IN
  /\ Answered(q, "address")
  /\ Finish(q, r.pc = "ok", [r.from EXCEPT !.kind = "shipping", !.by = r.cart])
  /\ UNCHANGED <<login, cookie, orphans, carts, orders, moves, chosen>>

\* The answer of SaveShipping is not looked at.
AnswerShipping(q) ==
  LET r == reqs[q] IN
  /\ Answered(q, "shipping")
  /\ Finish(q, TRUE, [r.from EXCEPT !.kind = "payment", !.skipped = r.pc # "ok"])
  /\ UNCHANGED <<login, cookie, orphans, carts, orders, moves, chosen>>

\* The message, or the receipt, of a payment that was refused cannot be
\* decoded.  A guest's receipt shows this very answer, a customer's is blank
\* until its own poll is answered.
AnswerPayment(q) ==
  LET r == reqs[q]
      receipt == [r.from EXCEPT !.kind = "receipt"] IN
  /\ Answered(q, "payment")
  /\ Finish(q, r.pc = "ok",
            IF r.from.guest THEN [receipt EXCEPT !.shows = r.cart] ELSE receipt)
  /\ UNCHANGED <<login, cookie, orphans, carts, orders, moves, chosen>>

\* Fault for the mutant runs: the poll goes through the handler of "Cash".
AnswerPollAsCash(q) ==
  LET r == reqs[q] IN
  /\ Answered(q, "poll")
  /\ Finish(q, r.pc = "ok", [r.from EXCEPT !.shows = r.cart])
  /\ UNCHANGED <<login, cookie, orphans, carts, orders, moves, chosen>>

\* A poll that was refused cannot be decoded and leaves the receipt as it is.
AnswerPoll(q) ==
  LET r == reqs[q] IN
  /\ Answered(q, "poll")
  /\ reqs' = [reqs EXCEPT ![q] = Idle]
  /\ pages' = IF r.pc = "ok" /\ r.page # 0
              THEN [pages EXCEPT ![r.page].shows = r.cart] ELSE WithError(q)
  /\ UNCHANGED <<login, cookie, orphans, carts, orders, moves, chosen>>

AnswerOrder(q) ==
  LET r == reqs[q] IN
  /\ Answered(q, "order")
  /\ Finish(q, r.pc = "ok", Fresh("success", r.from.guest))
  /\ UNCHANGED <<login, cookie, orphans, carts, orders, moves, chosen>>

-----------------------------------------------------------------------------
Next ==
  \/ TapCheckOut \/ Back \/ GoHome \/ AddGoods
  \/ OpenSignIn
  \/ \E u \in Users : SignIn(u)
  \/ \E i \in DOMAIN pages : Rearm(i)
  \/ \E q \in Slots :
       \/ TapAddress(q) \/ TapShipping(q) \/ TapCash(q) \/ TapOrder(q) \/ Poll(q)
       \/ ServeStep(q) \/ ServeOrder(q) \/ ServeError(q) \/ Lose(q)
       \/ AnswerAddress(q) \/ AnswerShipping(q) \/ AnswerPayment(q)
       \/ AnswerPoll(q) \/ AnswerOrder(q)

Spec == Init /\ [][Next]_vars

-----------------------------------------------------------------------------
(* Properties                                                              *)

(***************************************************************************)
(* An order of the cart the shopper walked through the checkout with has   *)
(* its address and its payment method saved, and its shipping method too   *)
(* unless saving it failed (nobody looks at that answer), or somebody      *)
(* signed in or out since the walk began: a late answer may then push the  *)
(* walk's next page over the session of another customer, for whom the     *)
(* next steps are saved.  The shop is not relied on to check it.           *)
(***************************************************************************)
WizardCompletes ==
  \A o \in orders :
    ~o.moved /\ o.from.by = o.cart =>
      o.address /\ o.payment /\ (o.shipping \/ o.from.skipped)

(***************************************************************************)
(* The cart that is ordered belongs to the shopper whose address the walk  *)
(* took, and to whom the receipt was showing at the tap, unless somebody   *)
(* signed in or out since the walk began.  (A guest's steps go by the      *)
(* cookie, SaveOrder goes by the token: a guest's page that is pushed      *)
(* late, over a shopper who has signed in, would order another cart.)      *)
(***************************************************************************)
OrderedAsShown ==
  \A o \in orders :
    ~o.moved => /\ o.from.by.owner = o.cart.owner
                /\ o.from.shows # None => o.from.shows.owner = o.cart.owner

(***************************************************************************)
(* Before the first order and the first sign-in or sign-out, no payment    *)
(* method is saved for a cart whose shopper has not tapped it: the poll of *)
(* a receipt, which saves it over and over, only repeats that choice.      *)
(* (Later on a receipt that was left behind chooses for carts to come.)    *)
(***************************************************************************)
NoChoiceNoPayment ==
  moves = 0 => \A o \in Owners :
    carts[o].gen = 0 /\ carts[o].payment => KeyOf(o) \in chosen
=============================================================================
