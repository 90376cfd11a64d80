# IrisBag: a TLA+ model of the shopping app

IrisBag is a Flutter client of a web shop. There is no state of its own beyond
the preferences on the device, the widgets on the navigator's stack and the
requests that are under way; the cart, the orders and the accounts are the
shop's. All that is hard in it comes from one pattern, which nearly every screen
repeats:

    read a preference or a field  ->  await a request  ->  act on what the state
                                                           has become meanwhile

Dart runs one event loop, so a step of the models is the code from one `await`
to the next. Between two steps anything may happen: another tap, a timer, a late
answer, Back, a 500 that puts the page `/serverError` on the stack, a sign-out
that clears every preference, or the end of the process.

Paths below are relative to `src/lib/`.

## 1. Inventory

| Component | State it keeps | Operations | Interacts with |
|---|---|---|---|
| Guest identity, adding to the cart (`constant/api_services.dart` `AddToCart`; the add buttons of home, category, slider, details, feature and filter pages) | preferences `GuestUserCookies`, `loggedIntoken`, `UserID` | add as customer, as known guest, as new guest (stores `set-cookie`) | everything that reads the identity; sign-in, sign-out |
| Cart screen (`screens/cart_unit_test/cart/cart_screen.dart`) | `cartModel`, one periodic timer per screen | fetch, plus/minus, swipe away, to the wishlist, empty, coupon, check out | the shop's cart; checkout |
| Checkout (`screens/billing_address`, `shipment`, `Billing_Recipt`, `order_success`) | the pages on the stack and what each was opened with | address, shipping method, payment method, receipt (polls), order | identity, sign-in, the shop's cart |
| Self-disabling buttons (`unpaid_page*.dart`, `shipment_form*.dart`) | `onPressedValue`, a timer | press, re-enable | the requests of those pages |
| Session (`screens/sign_in`, `widget/alert_dialog.dart`, profile) | eleven preferences, in memory and on the device | four ways to sign in, two ways out | every page that asks whether somebody is signed in |
| Password recovery (`screens/forgot_password`) | preference `ResetPasswordEmail`, three pages | request a code, verify, set the password | sign-in |
| Registration (`screens/sign_up`, `screens/otp`, the 405 of `screens/sign_in`) | preference `registerEmail`, the fields of both forms, the code page's copy | register, ask for a code, verify, resend; a sign-in answered 405 opens the code page too | sign-in |
| Wishlist (`screens/wishlistproducts`, hearts of `components/product_card.dart`) | per page a copy that is fetched once, two flags that hide it | add (by product), take off, move to the cart (by entry) | cart |
| Orders (`screens/orders/orders.dart`, `orderdetail.dart`, `refund_request.dart`) | per page an order fetched once, the quantities of the refund form | cancel, reorder, ask for a refund | cart, the merchant |
| Addresses (`screens/addresslist`, `shipment`, `updateshipment`) | per page a copy of the list and what is drawn of it, the fields of a form | add, edit, delete | checkout |
| Profile (`screens/complete_profile`, `change_password`) | the fields of a form, a static picture, two preferences | change fields, picture, password | session, navigator |
| Category and featured products (`screens/category`, `feature_view`) | the list with its marks, a loader | hearts | wishlist |
| Search, filters, home and product pages | one fetched answer per page | search, filter, scroll | add-to-cart, wishlist |
| Reviews (`screens/orders/reviews.dart`) | a form | send | - |
| Start-up, connectivity, push (`main.dart`, `screens/splash`) | connection status, the message that started the app | open home, open a page for a message | navigator |
| JSON models, look and feel, card form | none | decode, draw | - |

What is hard, component by component, and the property that makes it correct:

* **Adding to the cart.** Whether there is a cookie is decided before the
  request, the cookie is stored after it. Two first adds open two sessions and one
  basket is stranded; a late answer may write into a state that was cleared.
  Correct: an acknowledged add is in the basket the device leads to; a basket
  that was thrown away stays away.
* **Cart screen.** The display is a copy; quantities are absolute numbers
  computed from the copy; a swipe remembers an index over two awaits; answers are shown
  in order of arrival; timers are never cancelled. Correct: a careful shopper's changes
  add up; the display makes nothing up and heals.
* **Checkout.** Each answer pushes the next page on whatever the stack has become,
  and each step reads the identity anew. Correct: an order has every step its
  pages promise, and orders the cart that was shown.
* **Buttons.** The timer enables the button again, not the answer. Correct: one request
  per page at a time, if the shop is fast enough; the button comes back.
* **Session.** Eleven writes reach the device one by one; different screens ask
  different keys. Correct: no token without a profile, no profile of somebody else.
* **Recovery, registration.** The e-mail is read again from a preference, or from
  a text field, after awaits, by pages that may be several deep. Correct: the
  password of the verified account is set; the code goes to the account that is
  verified, though a sign-in opens the same code page and writes the same preference.
* **Addresses.** A list draws its copy at one time and replaces it at another; a tap
  goes to an index of the copy. Correct: a shopper who waits changes the address
  that was meant; opening the list anew heals it.
* **Orders.** Pages keep a state of the order that the merchant moves on. Correct: a
  refund is for a completed order and its own lines; no page goes back to an older
  state; a refused cancellation does not leave the button there.
* **Wishlist.** Hearts name products, rows name entries, which the shop makes anew each
  time; rows outlive their entries; success is reported unread; the answer of a removal
  replaces whatever page is on top. Correct: no entry leaves the list but for the cart or
  by its own icon, and none by the row of an older one; no other page is thrown away.
* **Profile.** A form of one customer can lie below the session of another, and the
  sign-out dialog comes after an await, over any page. Correct: the form that is shown belongs to the token; no old form puts
  an old value back; a password is changed for one account.
* **Category and featured products.** The list is emptied, then fetched, after every
  heart. Correct: the marks are the wishlist, and the products come back.

`PROJECT.json` lists each hazard at its line, with the properties that cover it.

## 2. Modules

    Basket  <---- implemented by ---- GuestCart
    CartScreen   Checkout   SubmitButton   Session   Recovery   Registration
    Addresses    Orders     Wishlist       Profile   Catalogue

    Cart_proofs          about GuestCart, CartScreen
    Checkout_proofs      about Checkout
    Customer_proofs      about Session, Wishlist
    Recovery_proofs      about Recovery
    Registration_proofs  about Registration
    Orders_proofs        about Orders
    Address_proofs       about Addresses, SubmitButton
    Account_proofs       about Profile, Catalogue

A proof module that is about two components extends both. They share no state and
no name, which is why some modules qualify theirs (`ScreenTypeOK`, `WishSpec`,
`ButtonInit`, `CatalogueNext`); each theorem speaks of the specification of one of them.

`MC...` modules only define what TLC needs: symmetry sets, constants, and the constraints
`Waiting`, `Bounded` and `DialogSoon` (see Bounds); the `.cfg` files give the constants
their values. `Fault for the mutant runs` marks an operator that no
specification uses: it is a wrong form of the operator after it (a missing check,
a swapped order), kept to show that a property tells the two apart.

The modules share conventions. A request is a record in a slot, from "sent"
through the shop's answer to the handler that reads it; the shop is a set of
external actions (`Serve...`, `Lose`, `Expire`). Pages are records on a sequence, and a
request remembers the position of the page that asked, or 0 when it is gone
(the stack changes at its top only, so a position stands for one page):
in Flutter a handler whose page is gone ends in an exception at its first use of
`context`, after everything it did before that. History variables are only written.

### GuestCart (and Basket)
`cookie` and `login` are the preferences; `calls` holds one record per tap on an
add button; `carts` is the shop. `AddToCart` takes the branch of the code
(`Identity`: token, else cookie, else nothing), the three kinds of buttons differ in
which identity they offer (`AddFromCatalogue`, `AddFromDetails`, `AddFromSlider`).
`AnswerOk` stores the session's cookie only for an add that was sent
without one, `AnswerError` is the other statuses and the page `/serverError`.
`ServeFresh` opens a session, also for a cookie the shop has forgotten, whose new
`set-cookie` the code does not store. Products and quantities are left out: `carts` is
a set of calls. `Basket` is the promise in three lines: a basket gains a
thing or is emptied, and is never exchanged for another.

### CartScreen
`shop` and `view[s]` are sequences of rows (the order matters: handlers index
them), `open` the stack of cart screens, `made` how many there have ever been -
each keeps its timer. `Tick` is the timer, `TapQuantity`, `Swipe`, `TapHeart`,
`TapEmpty`, `TapCoupon` the buttons up to their await, the `Answer...` actions what
follows. A swipe has two awaits (`AnswerDrop`, `AnswerExtra`). The changes go out as
`Bearer null` for a guest, and `Refuse` is the shop's answer to that.

### Checkout
One stack of pages for both kinds of shoppers (`guest` in the page says which of
the twin screens it is), one record per request. A page carries the cart it began
with, whether saving the shipping method failed, and what the receipt
shows. `StepIdentity` and `OrderIdentity` are two operators because the code
has two rules. `GoHome` and `OpenSignIn` are the barriers of the stack: from the
sign-in and success pages Back does not go down but pushes home. `Poll` is the
receipt's timer, which saves the payment method every three seconds.

### SubmitButton
Real time in whole ticks. `Press` disables the button, starts the timer, and
sends only if the form validates; `Rearm` is the timer's callback. A tick waits for
timers that are due. It covers the 30-second buttons of the two receipts and the
5-second buttons of the two address forms; `Debounce` is a constant.

### Session
`cache` and `disk` are the two copies of the preferences, `pending` the values the
device will hold after each write still to come. `Version` is the order of the writes:
`UserID` first, the token last. A crash loses `pending`. A sign-in answered 405 touches
none of these keys and is one of the failures here; what it does instead is in
Registration.

### Recovery, Registration
The pages of the flow, the home page, the sign-in page (a barrier, as above), and
the error page on one stack. `hasty` becomes true when the shopper
does not wait; the safety properties are for the others, and are false without it
(see the hazards). In Registration the three reads of the sign-up form's field are
`SignUp`, `AnswerRegister` and `AnswerSendCode`. The sign-in page has a field too, which is
read by `SignIn` and, when the answer is 405 ("unverified"), again by `AnswerSignIn`:
it writes `registerEmail` and pushes the code page, on the sign-in page or
whatever has been pushed on it since.

### Addresses
A list page has two copies: `have`, which an answer replaces, and `shown`, which is
drawn when the loader's five seconds are over (`LoaderEnds`) or a deletion is
answered (`AnswerDelete`, before the list is fetched again). A tap takes row `i` of
`have`. `TapEdit` pushes a form whose fetch fills the field over what was typed.
`AnswerEdit` opens a list only after a success, `AnswerAdd` always. `want` says what the
shopper means to have, as long as the shopper waits and no request fails (`excused`).

### Orders
`status` is the shop's, moved on by `Proceed` (the merchant). `Detail` pages have a
status of their own, `""` until it has arrived; the page's number is then 0 (`None`),
and "Add to Cart" sends it. `TapCancel` is answered by fetching the order again, also
after a refusal (`AnswerCancel`). `Spin` and `Swipe` change the refund form: a line
that was swiped away is still sent.

### Wishlist
`made` numbers the entries the shop ever made, `wish` holds the ids of those on the
list. `TapHeart` sends a product, `TapCart` and `TapTrash` send the id in their row of
the copy (`Target`, `data[index].id` in the code); a row left from before the product was
moved and wished again names an entry that is no more, and the shop refuses it. A page has
`have`, `shown`, and the two flags (`loaded`, `icons`) that decide when the copy is
drawn. `AnswerCart` reports success whatever was answered; `AnswerTrash` replaces
the top page. `Other` stands for the product pages with hearts. What the shopper means
by a tap is about the row's entry if it is still on the list, else about nothing.

### Profile
Pages carry the owner they were opened under, requests the token (`as`) and, for a
password, the preference `email`. `file` says whether there is a static picture and
whether it can be read: "gone" is the path that "Remove" leaves. Whose picture it is, is
left out. `OpenDialog` is the tap on "Log Out", which awaits the dialog's colours;
`ShowDialog` brings it up over whatever page is on top by then, or an error page. `ServeFetch`/`AnswerProfile`/`AnswerGet` are the two fetches that fill
the form. `AnswerSave` has the code's two ways to go home. `Back` of the form, the
profile page and the sign-in page pushes. `Restart` keeps the preferences only.

### Catalogue
One page at a time, of two kinds: `AnswerHeart` empties the list of a category page
before it fetches and leaves that of the featured page. `ChangeElsewhere` is the
wishlist changed by another page.

### A 500
In every module the answer 500 puts the page `/serverError` on top of the stack before
the handler goes on, or ends (`AnswerError`, `Error`, `WithError`, `Fail`,
`FailFetch`). It is more than a message: handlers that replace the top page may replace it.

## 3. Runs

| Run | Question | Size |
|---|---|---|
| `guest_cart` | which acknowledged guest adds can be lost, is there one basket until then? (with the refinement of `Basket`) | 3 adds, 3 sessions, 1 customer |
| `cart_screen` | do careful taps add up, does the list make nothing up, does it converge? (safety, liveness) | 2 products, 2 requests, 2 changes, 1 fault, 2 screens |
| `submit_button` | how long must a button stay disabled, does it come back? (safety, liveness) | 2 pages, 3 requests, 3 ticks against 2 |
| `session` | what does a crash between two writes leave? | 2 customers, 2 sign-ins, 3 keys, 7 pending writes |
| `checkout` | is an order complete, and is the right cart ordered? | 2 requests, stack of 6, 2 sign-ins or sign-outs |
| `recovery` | whose password is set? | 2 accounts, 2 requests, stack of 7 |
| `registration` | whose account is verified, where does "Resend" go? | 2 e-mails, 2 requests, stack of 8, while the shopper waits |
| `addresses` | is the address changed that was meant, does a new list show what is gone? | 2 addresses, 2 requests, stack of 4, 2 changes or 1 and a fault |
| `orders` | are reorders counted, does a page go back, what refunds are asked for, does a page stop offering "Cancel"? (safety, liveness) | 1 order of 1 line, 2 requests, stack of 4, 2 taps, 1 fault |
| `wishlist` | what can leave the wishlist, and what is the shopper told? | 2 products, 2 requests, stack of 3, 3 changes, or fewer and a fault |
| `profile` | whose password is changed, whose form comes up, does an old form put old values back? | 2 customers, 1 request, stack of 7, 3 acts (see Bounds) |
| `catalogue` | do the marks follow, do the products come back? (safety, liveness) | 2 products, 2 requests, 3 taps, 1 fault |

What they show:

* `guest_cart`: an acknowledged guest add is in the cart the cookie leads to, except
  after a sign-out, after the shop forgot the session, or after two first adds
  overlapped - the last is a defect of `AddToCart` and the invariant
  says that there is no other of its kind. A cookie once stored is only removed by a
  sign-out, and late answers never bring a removed one back.
  Until two first adds overlap, GuestCart implements `Basket`.
* `cart_screen`: a shopper who waits for the display before each tap gets every
  change. No row that the shop never held, and no product twice, is ever shown, by
  whatever order of answers and removals by a stale index.
  The top screen ends up showing the shop's cart for good.
* `submit_button`: with a shop that answers faster than the timer, one request per
  page; the button always comes back.
* `session`: a token never comes without the profile, even after a crash (the token
  is written last, and the sign-out is one write), and the profile is the token's
  unless somebody signed in over another customer.
* `checkout`: an order has address, payment and, unless saving it failed, the
  shipping method; it orders the cart the walk was made for and the receipt showed.
  Both hold unless somebody signed in or out since the walk began: an error page hides
  the walk, home is pushed over it, another customer signs in, and a late answer
  pushes the walk's next page over that session. (For completeness that takes two
  customers, two requests and four moves, more than the run has; it came up
  in the proof.) A polling receipt never pays for a cart whose shopper did not
  choose, until the first order or change of shopper.
* `recovery`, `registration`: for a shopper who waits for each answer, the new
  password goes to the account whose code was verified, a code page belongs to a
  registered account, and "Resend" reaches the e-mail the page verifies - whether the
  page was opened by a sign-up or by a sign-in answered 405.
* `addresses`: a list never holds an address that was deleted before the list was
  opened. A shopper who makes one change at a time, waits for an edit form to be
  filled, and opens the list anew after a deletion gets what was meant. The last is
  needed: the rows drawn after a deletion are those of the copy before it.
* `orders`: a refund is only sent for an order that was completed, with a quantity for
  each of its own lines, from however old a page. Every reorder counts once, unless it
  was tapped before the order had arrived. A page does not go back, unless "Cancel"
  was tapped on it twice; and after "Cancel" it comes to show what became of the order.
* `wishlist`: an entry that leaves the list is in the cart, or the icon of its own row
  was tapped - in every state, with old pages, refusals and lost answers. A shopper who
  makes one change at a time gets what was meant; the row of an old entry does not
  touch the product's new one. The success message, which is shown unread, is
  true of an entry whose icon was not tapped, also for the impatient, as long as the shop
  refuses nothing it could do: an entry that cannot be moved has been moved before. No
  other page is replaced unless the shopper covered the one that waits.
* `profile`: a password goes with the token and the e-mail of one account, unless
  the e-mail was changed in the form, which does not write the preference. The form on
  top is the token's, no old form restores old values, unless a save was doubled or
  left.
* `catalogue`: when nothing is under way the marks are the wishlist, unless hearts
  overlapped, another page changed it or a request was lost; an emptied list is filled.

### Bounds
Each bound is a constant, named in the module that declares it, or the size of a
set of slots.

* Two requests at a time are enough for every race described above: each needs one
  late answer and one other step. Three adds let a third one follow a race of two.
* A walk through the checkout needs six pages (home, address, shipping, payment,
  receipt, success). What takes more room (an error page, a sign-in page, or a
  duplicate in a whole walk) or more customers is covered by the proofs. The flows of
  Recovery and Registration need five pages; 7 leaves room for an error page or a second
  start from a sign-in page, and 8, in Registration, for a second code page, of a sign-in,
  over the first.
* Registration runs only as long as the shopper waits (`Waiting`): both its properties are
  about this shopper, and one who was hasty once stays so. The state after the first
  haste is still checked, and none after it can violate them.
* The cart screen may be opened on any cart of one piece each, so that two changes are
  enough for the one that makes the copy stale and the one that is computed from it.
* Two screens, two accounts, two e-mails: one to act and one to be mistaken for it.
* Addresses, Orders, Wishlist: a stack of 3 or 4 has an old page, the page that acts,
  and the page an answer opens above it; two changes (but see Wishlist below) are the
  one that makes a copy stale and the one that goes by it. The guards leave a place (`Room`) for what the
  answers under way will push, so that no answer is blocked by the bound.
* Orders: one order and one line keep the liveness check small; that a refund's
  lines are those of its own order, whatever other orders there are, is proved.
* Addresses and Profile: one bound (`MaxEvents`, `MaxActs`) for what the shopper does
  and what goes wrong together, so that a fault takes the place of a change. In Profile
  three acts are what each property needs: a field typed in and two saves, or two
  sign-ins and a change of the password, or a save, a sign-in and another save. Home,
  profile page, form, the home page after a save, the profile page, its dialog and the
  sign-in page are 6 pages and a place for an answer's. A second save while one is under
  way would be excused in any case (`hasty`), so that one slot is enough. The process
  may start with a customer signed in.
* `DialogSoon` lets the dialog of "Log Out" be awaited on a stack of up to four pages. So
  it can come over a home page, a form, a password page or another profile page pushed
  since; what happens deeper is covered by the proof.
* Wishlist: an old row that outlives its entry takes three changes: the product
  moved or taken off, wished again, and the old row tapped. With a fault, or for a shopper
  who does not wait, there are two (`Bounded`; the state that exceeds it is still checked).
* Catalogue: three hearts are one at rest, one while its fetch is under way and one
  after.
* Two of the eleven keys of a profile beside the token: properties compare keys with
  the token and with each other.
* `MaxGen`, `MaxMoves`, `MaxTaps`, `MaxFaults`, `MaxEvents`, `MaxActs`, `MaxQty`,
  `MaxPending` bound what has no bound in the code. `MaxGen = 1` lets an order be
  followed by a second cart.

`CHECK_DEADLOCK FALSE` stands in the runs that really stop: GuestCart, where every
call has been used, and Checkout, Recovery and Registration, where a page that needs
to be pushed finds the stack at `MaxDepth`. In the others TLC checks for deadlock.

Symmetry is only used with safety properties (and with `SettledCookie`, `BasketSpec`
and `NothingVanishes`, which speak of single steps and are symmetric in the permuted
values); the runs with liveness properties go without.

### Fairness
Four specifications state fairness, as liveness needs it.

* CartScreen: weak fairness of the shop's answers and of the handlers (the event loop
  runs every callback of a completed future), strong fairness of each screen's tick:
  a periodic timer fires again and again, and the slots, a device of the model, must not
  keep it from doing so. Nothing is assumed of the shopper. Faults are bounded, so the
  property is about a network that works again.
* SubmitButton: weak fairness of time, of timers and of answers.
* Orders, Catalogue: weak fairness of the shop's answer to each request and of its
  handler, and of the loader's timer. Faults are in the properties' excuses: after a
  lost answer nothing in the code would try again.

The other specifications are safety only.

## 4. Proofs

TLAPS checks the following for every value of the constants, with the
assumptions named in the modules (`None` is not a name of anything; bounds
are natural numbers; customers and guest sessions are different things). Some bounds have
to leave room for the initial state and are positive: the depth of a stack (`MaxDepth`,
`MaxPages`, `MaxScreens`), the carts of an owner (`MaxGen`), ids and quantities. Every safety invariant and
every action property that a run checks is a theorem.

| Module | About | Theorems | Argument |
|---|---|---|---|
| `Cart_proofs` | GuestCart | `TypeCorrect`, `AcknowledgedKept`, `SignOutIsFinal`, `CookieSettles`, `OneBasket` | `IInv` adds that every session named anywhere has been opened, that an opening add next to another one or next to a cookie has been noticed as a race, and that an acknowledged add is in the cart it was put into. Without the second part, `SettledCookie` is not inductive: the answer that changes the cookie is written down long before it is read. The refinement of `Basket` maps each action to `Put`, `Forget` or a stutter; the step that makes the first race is a `Forget`, after which nothing is promised. |
| | CartScreen | `ScreenTypes`, `ScreenMakesNothingUp`, `ScreenCountsTaps` | `RowsInv`: the rows of the shop, of every screen and of every request are rows the shop has held, each product once; `RoomInv`: there is room for the screens still to be pushed; `CountInv`: what a shopper who waits wants is the shop's cart, or will be when it has carried out the one change under way. |
| `Customer_proofs` | Session | `NoTokenAlone`, `NoMixedProfile` | every value on its way to the device is as good as the one on it, so any prefix of the writes is. |
| | Wishlist | `WishTypes`, `WishesAsMeant`, `SuccessIsTrue`, `ReplacesItself`, `KeptOrTrashed` | `WishInv`: no product is on the list twice (`OnceInv`), so that an entry stands for a product; a page draws nothing or its copy (`PagesInv`); a request knows its page, and a list is fetched once, for a page without rows (`ReqsInv`, `ListsInv`); a removal from a page that was not covered belongs to the top page (`LeftInv`); every entry a page knows is on the list, in the cart, or was trashed (`EverInv`), so that a refused move is of an entry that has left (`ToldInv`); wishlist and cart are what is meant, or will be when the shop has carried out, or refused, the one change under way (`MeantInv`, with `Due`). `NothingVanishes` rests on `ReqsInv` alone (a removal names an entry whose icon was tapped); it and `ToldIsTrue` hold of impatient shoppers too. |
| `Recovery_proofs` | Recovery | `Invariance`, `PasswordOfVerified` | e-mail pages lie on sign-in pages, beyond which Back does not reach; so whenever the preference changes, no password page is within reach. `PagesOfEmail` says that those within reach belong to the preference. |
| `Registration_proofs` | Registration | `Invariance`, `CodePageOfAccount`, `ResendToShown` | every sign-up page lies on a sign-in page (`Stacked`), and Back stops at a sign-in page; what is under way for a shopper who waits belongs to the top page or, while no code page is in reach, to a page that is gone or a sign-in page below (`RequestsOfTop`). So whichever request pushes a code page, it is the only one in reach (`OneCodeInReach`), and the preference is its e-mail (`PagesOfEmail`). |
| `Orders_proofs` | Orders | `Invariant`, `RefundMatches`, `GoesForward`, `EveryTapCounts` | what a page or an answer under way says of an order is a state the shop's order has come from (`Later`), and an answer is on its way to a page of its own order. The second part is needed although pages are named by position: a page that is left takes its requests along. A refund form is filled from a completed order, and completed orders are only closed. `CountInv`, for the reorders, is an account: what was tapped is what is in the cart and what the requests under way will add. |
| `Address_proofs` | SubmitButton | `ButtonInvariance`, `GuardHolds` | `RunTogether`: a request's age and its page's timer add up to `Debounce`, so the timer cannot be due before the request is too old to be under way. For every `MaxLatency < Debounce`. |
| | Addresses | `AddressTypes`, `NewListsAreFresh`, `AddressesAsMeant` | `AdrInv`: there is room for the pages and the ids that requests under way will make (`RoomInv`); ids are unique (`ShopInv`), so that an index and an id say the same; no list page holds what was gone when it was opened (`StackInv`), nor does an answer on its way to it (`ReqsInv`), of which there is one until the page is deleted from (`ListsInv`); a form is for the address that is meant, and what the shopper wants is the shop's list, or will be when it has carried out the one change under way (`MeantInv`, with `Changed`). |
| `Account_proofs` | Profile | `ProfileTypes`, `PasswordsByOwnEmail`, `FormsOfSession`, `ProfileAsMeant` | see below. |
| | Catalogue | `PageInvariance`, `MarksAreTheWishlist` | `Single`: without overlap one request is under way at most. So an answer that was given is still true when it is drawn (`Fresh`). |
| `Checkout_proofs` | Checkout | `CheckoutTypes`, `Invariant`, `OrdersAreComplete`, `OrdersAreAsShown`, `PollsOnlyRepeat` | see below. |

**Checkout.** Nothing in the shop ties the steps together, so the invariant has to.
`Evolves` says how the shop's carts and the preferences may change in a step: carts
are numbered upwards, what was saved for a cart stays saved, and while `moves` stays
the same so do the identities. `PageOk` and `ReqOk` say what a page, or a request
with its copy of a page, promises: while nobody came or went since the walk began,
its steps go to the owner of the walk's cart, and, if that owner still has this cart,
what the page's kind stands for has been saved. `PageKept` and `ReqKept` show that
these facts survive every evolution of the world, so an action only has to
answer for what it writes. `ChoiceInv` is a second invariant, about the polls:
whoever's payment is being saved has tapped "Cash" for that cart. These speak of
unbounded types; `Bounded` adds the bounds for `CheckoutTypes`: the stack has room for
the page each request will push, and for the error page of each that failed.

**Profile.** The property is about the form on top, but a form lies on the stack for
long, below pages of other sessions, and comes up again. So the invariant is about every
form that Back can still come to (`Reached`): those above which there are only pages that
Back takes off. Forms lie on profile pages (`OnProfile`), which Back never takes off, so
there is at most one; a sign-in pushes a home page on a sign-in page and leaves none. `OwnInv`:
the form within reach is the token's, and at most one save, of the form on top, is under
way while nobody hurries. `MeantInv`: that form and the answers on their way to it
say what its customer means, but for what has been typed; and the shop does, but for the
one save under way - whose form's fetches are over, so that none can bring back the text
from before the save. `MailInv` relates the two preferences: the e-mail follows the account
unless it was renamed. A dialog that is awaited changes none of this: where it comes up
Back takes it off again, and its sign-out pushes a sign-in page.

The inductive invariants are stated in the proof modules, next to the lemmas that need
them, except those named `IInv` in GuestCart, Session, Recovery and Registration and
`ButtonInv` in SubmitButton.

Only model-checked: the liveness properties (`DisplayHeals`, `ButtonComesBack`,
`CancelIsSettled`, `ProductsComeBack`), which the prover does not reach.

## 5. What is not modelled, and what is simplified

* Products, prices, texts, images and themes. Of decoding an answer only this much is
  modelled: where the code decodes an answer of another shape than it expects, the
  handler ends there.
* Pictures: Profile knows whether there is one, not whose it is. `_file` is static and only
  the end of the process or "Remove" changes it, so nothing in the code keeps the picture
  picked by one customer from the next save of another.
* The shop is external: it may refuse or fail any request. What it is assumed to do
  when it answers 200 is in the `Serve...` actions.
* Preferences are written to memory at once. Their way to the device is modelled in
  Session, and elsewhere a restart keeps them.
* Taps that only navigate between pages without state of their own are left out; a
  stack starts at the home page.
* In Registration the page for a forgotten password, which has a sign-up link of its own,
  is left out; it too lies on a sign-in page.
* Search, filters, home and product pages: each fetches once and shows the answer, and
  the order of suggestions is the type-ahead package's. What their buttons change is
  in GuestCart and Wishlist. The filter's two lists are changed by one callback.
* Reviews: one request and no state. (Sent without stars, the handler reads a `late`
  variable that was never set and ends there.)
* Start-up, connectivity and push messages: they choose a page or show a toast and
  keep nothing.
* The JSON models (only whether an answer can be decoded matters, and that is in the
  actions that decode it), themes and icons, and the card form, which nothing opens.
* `src/ios/Pods` and the other vendored, generated or platform code (the larger part of
  the files by far): no line of it is this application's.

## 6. Plan

Done, in this order: GuestCart with Basket (the identity that everything goes by),
CartScreen, SubmitButton, Session, Checkout, Recovery, Registration, Orders, Addresses,
Wishlist, Profile, Catalogue; the proofs of all their safety properties.

What would come next:

1. An abstract shop of the Wishlist and of the Addresses (a product is on the list, in
   the cart, or gone; an address is one of those wanted), as `Basket` is of the cart, and
   the proof that the detailed modules implement it.
2. One composition of CartScreen with Wishlist: `TapHeart` moves a product one way
   while `TapCart` moves it the other.
3. `Catalogue` with several pages on the stack, instead of `ChangeElsewhere`.
