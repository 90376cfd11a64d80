------------------------------ MODULE Wishlist ------------------------------
(***************************************************************************)
(* The wishlist of a customer who is signed in: the hearts of the product  *)
(* pages put products on it, its own page moves them to the cart or takes  *)
(* them off.                                                               *)
(*                                                                         *)
(*  - The page fetches the list once and never draws an answer: it draws   *)
(*    its copy when the loader's five seconds are over and when the icons  *)
(*    have arrived, whichever comes last.                                  *)
(*  - A heart names the product; a row names its entry of the wishlist,    *)
(*    which the shop makes anew each time the product is wished.  A row    *)
(*    that was left from before goes to an entry that is no more.          *)
(*  - Moving a product to the cart says "Item Added Cart Succesfully"      *)
(*    whatever the shop answered, and leaves the row where it is.          *)
(*  - After taking a product off, the page replaces itself - or rather     *)
(*    whatever page is on top by then - with a new one.                    *)
(***************************************************************************)
EXTENDS Integers, Sequences, SequencesExt, FiniteSets

CONSTANTS Products,
          Slots,         \* requests that can be under way at a time
          MaxPages,      \* bound: pages on the stack
          MaxTaps,       \* bound: changes the shopper makes
          MaxFaults      \* bound: requests refused or lost

ASSUME BoundsAssumption ==
  /\ IsFiniteSet(Products)
  /\ MaxPages \in Nat \ {0} /\ {MaxTaps, MaxFaults} \subseteq Nat

VARIABLES made,          \* the product of every entry the shop ever made; the
                         \* id of an entry is its position
          wish,          \* the entries on the wishlist, in the shop's order
          cart,          \* the entries that were moved to the cart
          pages,         \* the navigator's stack, the top page last
          reqs,          \* the requests under way
          taps, faults,  \* how much of the bounds is used up
          told,          \* history: the entries said to be in the cart
          trashed,       \* history: the entries whose trash icon was tapped
          wishMeant,     \* history: the products meant to be on the wishlist
          cartMeant,     \* history: the entries meant to be in the cart
          hasty,         \* history: two changes at a time
          left,          \* history: a wishlist page was covered while it was
                         \* waiting for a removal
          lost           \* history: pages replaced by an answer for another

wishVars == <<made, wish, cart, pages, reqs, taps, faults, told, trashed,
              wishMeant, cartMeant, hasty, left, lost>>
shop == <<made, wish, cart>>
meant == <<wishMeant, cartMeant, hasty>>

Other == [kind |-> "other"]
Error == [kind |-> "error"]
WishPage == [kind : {"wish"}, have : Seq(Nat), shown : Seq(Nat),
             loaded : BOOLEAN, icons : BOOLEAN]
NewWishPage == [kind |-> "wish", have |-> <<>>, shown |-> <<>>,
                loaded |-> FALSE, icons |-> FALSE]

Changing == {"heart", "cart", "trash"}
Idle == [pc |-> "idle"]
Request == [pc   : {"sent", "ok", "refused"},
            kind : Changing \union {"list"},
            page : 0..MaxPages,          \* the page that asked, 0: gone
            of   : Products \union Nat,  \* the product of a heart, the entry of a row
            rows : Seq(Nat)]             \* the answer of a list

\* The products on the wishlist.
Wished == {made[e] : e \in ToSet(wish)}

WishTypeOK ==
  /\ made \in Seq(Products) /\ wish \in Seq(Nat)
  /\ ToSet(wish) \subseteq DOMAIN made /\ Cardinality(Wished) = Len(wish)
  /\ {cart, told, trashed, cartMeant} \subseteq SUBSET Nat /\ wishMeant \subseteq Products
  /\ pages \in Seq(WishPage \union {Other, Error}) /\ Len(pages) \in 1..MaxPages
  /\ reqs \in [Slots -> {Idle} \union Request]
  /\ taps \in 0..MaxTaps /\ faults \in 0..MaxFaults /\ lost \in Nat
  /\ hasty \in BOOLEAN /\ left \in BOOLEAN

Top == Last(pages)
Busy(q) == reqs[q] # Idle
UnderWay == \E q \in Slots : Busy(q) /\ reqs[q].kind \in Changing
Waiting(k) == \E q \in Slots : Busy(q) /\ reqs[q].page = k /\ reqs[q].kind = "trash"

WishInit ==
  /\ made \in UNION {{f \in [1..n -> Products] : IsInjective(f)} :
                        n \in 0..Cardinality(Products)}
  /\ wish = [e \in DOMAIN made |-> e]
  /\ cart = {} /\ told = {} /\ trashed = {}
  /\ wishMeant = Wished /\ cartMeant = {}
  /\ pages = <<Other>>
  /\ reqs = [q \in Slots |-> Idle]
  /\ taps = 0 /\ faults = 0 /\ lost = 0
  /\ hasty = FALSE /\ left = FALSE

-----------------------------------------------------------------------------
(* The pages                                                               *)

Sent(kind, page, of) ==
  [pc |-> "sent", kind |-> kind, page |-> page, of |-> of, rows |-> <<>>]

\* The requests when the page at position k goes.
Forget(k) == [q \in Slots |-> IF Busy(q) /\ reqs[q].page = k
                              THEN [reqs[q] EXCEPT !.page = 0] ELSE reqs[q]]

Covered == left' = (left \/ (Top.kind = "wish" /\ Waiting(Len(pages))))

\* The bottom bar's heart pushes a wishlist page, which fetches the list.
OpenWishlist(q) ==
  /\ Top # Error /\ ~Busy(q) /\ Len(pages) < MaxPages
  /\ pages' = Append(pages, NewWishPage)
  /\ reqs' = [reqs EXCEPT ![q] = Sent("list", Len(pages) + 1, 0)]
  /\ Covered
  /\ UNCHANGED <<shop, taps, faults, told, trashed, meant, lost>>

\* Its other icons, and the icon of the error page, push other pages.
OpenOther ==
  /\ Len(pages) < MaxPages
  /\ pages' = Append(pages, Other)
  /\ Covered
  /\ UNCHANGED <<shop, reqs, taps, faults, told, trashed, meant, lost>>

Back ==
  /\ Len(pages) > 1
  /\ pages' = Front(pages)
  /\ reqs' = Forget(Len(pages))
  /\ UNCHANGED <<shop, taps, faults, told, trashed, meant, left, lost>>

\* The five seconds of a page are over, or its icons have arrived: it is
\* drawn.  Until both have happened there are no rows that can be tapped.
LoaderEnds(k) ==
  /\ pages[k].kind = "wish" /\ ~pages[k].loaded
  /\ pages' = [pages EXCEPT ![k] = [@ EXCEPT !.loaded = TRUE, !.shown = pages[k].have]]
  /\ UNCHANGED <<shop, reqs, taps, faults, told, trashed, meant, left, lost>>

IconsArrive(k) ==
  /\ pages[k].kind = "wish" /\ ~pages[k].icons
  /\ pages' = [pages EXCEPT ![k] = [@ EXCEPT !.icons = TRUE, !.shown = pages[k].have]]
  /\ UNCHANGED <<shop, reqs, taps, faults, told, trashed, meant, left, lost>>

-----------------------------------------------------------------------------
(* Changes, up to their await                                              *)

Change(q, kind, of, wished, put) ==
  /\ ~Busy(q) /\ taps < MaxTaps
  /\ taps' = taps + 1
  /\ reqs' = [reqs EXCEPT ![q] = Sent(kind, Len(pages), of)]
  /\ wishMeant' = wished /\ cartMeant' = put
  /\ hasty' = (hasty \/ UnderWay)
  /\ UNCHANGED <<shop, pages, faults, left, lost>>

\* A heart on a product page.
TapHeart(q, p) ==
  /\ Top.kind = "other"
  /\ Change(q, "heart", p, wishMeant \union {p}, cartMeant)
  /\ UNCHANGED <<told, trashed>>

Tappable(i) ==
  Top.kind = "wish" /\ Top.loaded /\ Top.icons /\ i \in DOMAIN Top.shown

\* Fault for the mutant runs: the row names its product, and goes to whatever
\* entry that product has now.
TargetProduct(i) ==
  LET e == Top.have[i]
      now == {f \in ToSet(wish) : made[f] = made[e]}
  IN  IF now = {} THEN e ELSE CHOOSE f \in now : TRUE

\* What a tap on row i goes to: the entry in that row of the copy.
Target(i) == Top.have[i]

\* Fault for the mutant runs: the index is off by one.
TargetNext(i) == IF i < Len(Top.have) THEN Top.have[i + 1] ELSE Top.have[1]

\* The products meant to be wished when row i is moved or taken off: a row
\* whose entry has left the list stands for nothing.
LessRow(i) == wishMeant \ {made[e] : e \in ToSet(wish) \intersect {Top.shown[i]}}
PlusRow(i) == cartMeant \union (ToSet(wish) \intersect {Top.shown[i]})

\* Fault for the mutant runs: the success is told before the answer.
TapCartTold(q, i) ==
  /\ Tappable(i)
  /\ Change(q, "cart", Target(i), LessRow(i), PlusRow(i))
  /\ told' = told \union {Target(i)}
  /\ UNCHANGED trashed

TapCart(q, i) ==
  /\ Tappable(i)
  /\ Change(q, "cart", Target(i), LessRow(i), PlusRow(i))
  /\ UNCHANGED <<told, trashed>>

\* Fault for the mutant runs: the trash icon goes to the row after.
TapTrashNext(q, i) ==
  /\ Tappable(i)
  /\ Change(q, "trash", TargetNext(i), LessRow(i), cartMeant)
  /\ trashed' = trashed \union {Top.shown[i]}
  /\ UNCHANGED told

TapTrash(q, i) ==
  /\ Tappable(i)
  /\ Change(q, "trash", Target(i), LessRow(i), cartMeant)
  /\ trashed' = trashed \union {Top.shown[i]}
  /\ UNCHANGED told

-----------------------------------------------------------------------------
(* The shop (external)                                                     *)

\* Only an entry on the list can leave it; no product is on it twice.
Impossible(r) ==
  CASE r.kind = "heart" -> r.of \in Wished
    [] r.kind \in {"cart", "trash"} -> r.of \notin ToSet(wish)
    [] OTHER -> FALSE

\* The list without an entry that is on it.
Without(rows, e) == RemoveAt(rows, CHOOSE i \in DOMAIN rows : rows[i] = e)

Serve(q) ==
  LET r == reqs[q] IN
  /\ Busy(q) /\ r.pc = "sent" /\ ~Impossible(r)
  /\ made' = IF r.kind = "heart" THEN Append(made, r.of) ELSE made
  /\ wish' = CASE r.kind = "heart" -> Append(wish, Len(made) + 1)
               [] r.kind \in {"cart", "trash"} -> Without(wish, r.of)
               [] OTHER -> wish
  /\ cart' = IF r.kind = "cart" THEN cart \union {r.of} ELSE cart
  /\ reqs' = [reqs EXCEPT ![q] = [r EXCEPT !.pc = "ok",
                                 !.rows = IF r.kind = "list" THEN wish ELSE <<>>]]
  /\ UNCHANGED <<pages, taps, faults, told, trashed, meant, left, lost>>

\* A 4xx answer.
Refuse(q) ==
  /\ Busy(q) /\ reqs[q].pc = "sent"
  /\ IF Impossible(reqs[q]) THEN UNCHANGED faults
     ELSE faults < MaxFaults /\ faults' = faults + 1
  /\ reqs' = [reqs EXCEPT ![q] = [@ EXCEPT !.pc = "refused"]]
  /\ UNCHANGED <<shop, pages, taps, told, trashed, meant, left, lost>>

-----------------------------------------------------------------------------
(* The answers                                                             *)

At(q, kind) == Busy(q) /\ reqs[q].pc \in {"ok", "refused"} /\ reqs[q].kind = kind
Alive(q) == reqs[q].page # 0
Done(q) == reqs' = [reqs EXCEPT ![q] = Idle]

\* getData: a new copy, not drawn; an error cannot be decoded.
AnswerList(q) ==
  /\ At(q, "list")
  /\ Done(q)
  /\ pages' = IF Alive(q) /\ reqs[q].pc = "ok"
              THEN [pages EXCEPT ![reqs[q].page] = [@ EXCEPT !.have = reqs[q].rows]]
              ELSE pages
  /\ UNCHANGED <<shop, taps, faults, told, trashed, meant, left, lost>>

\* The message, if any, is shown.
AnswerHeart(q) ==
  /\ At(q, "heart")
  /\ Done(q)
  /\ UNCHANGED <<shop, pages, taps, faults, told, trashed, meant, left, lost>>

\* "Item Added Cart Succesfully", whatever the shop said.
AnswerCart(q) ==
  /\ At(q, "cart")
  /\ Done(q)
  /\ told' = told \union {reqs[q].of}
  /\ UNCHANGED <<shop, pages, taps, faults, trashed, meant, left, lost>>

\* pushReplacement: the top page goes, a new wishlist page takes its place.
ReplaceTop(q) ==
  /\ pages' = Append(Front(pages), NewWishPage)
  /\ reqs' = [Forget(Len(pages)) EXCEPT ![q] = Sent("list", Len(pages), 0)]
  /\ lost' = IF reqs[q].page = Len(pages) THEN lost ELSE lost + 1

\* Fault for the mutant runs: the app's navigator is used, not the page's.
AnswerTrashGlobal(q) ==
  /\ At(q, "trash")
  /\ ReplaceTop(q)
  /\ UNCHANGED <<shop, taps, faults, told, trashed, meant, left>>

\* Fault for the mutant runs: the page is popped, also when it is gone.
AnswerTrashPop(q) ==
  /\ At(q, "trash")
  /\ pages' = Front(pages)
  /\ reqs' = [Forget(Len(pages)) EXCEPT ![q] = Idle]
  /\ UNCHANGED <<shop, taps, faults, told, trashed, meant, left, lost>>

\* Whatever the shop said, the message is shown and the page replaced; the
\* handler of a page that is gone ends in an exception.
AnswerTrash(q) ==
  /\ At(q, "trash")
  /\ IF Alive(q) THEN ReplaceTop(q) ELSE Done(q) /\ UNCHANGED <<pages, lost>>
  /\ UNCHANGED <<shop, taps, faults, told, trashed, meant, left>>

\* A broken connection, before the shop has carried out the request or after.
Lose(q) ==
  /\ Busy(q) /\ reqs[q].pc # "refused"
  /\ faults < MaxFaults /\ faults' = faults + 1
  /\ Done(q)
  /\ UNCHANGED <<shop, pages, taps, told, trashed, meant, left, lost>>

\* A 500, of the same two kinds, puts the error page on top; the answer that
\* is missing then ends the handler, but for a move, which does not look at it.
Fail(q) ==
  /\ Busy(q) /\ reqs[q].pc # "refused" /\ Len(pages) < MaxPages
  /\ faults < MaxFaults /\ faults' = faults + 1
  /\ Done(q)
  /\ pages' = Append(pages, Error) /\ Covered
  /\ told' = IF reqs[q].kind = "cart" THEN told \union {reqs[q].of} ELSE told
  /\ UNCHANGED <<shop, taps, trashed, meant, lost>>

Answer(q) == AnswerList(q) \/ AnswerHeart(q) \/ AnswerCart(q) \/ AnswerTrash(q)

-----------------------------------------------------------------------------
WishNext ==
  \/ \E q \in Slots :
       \/ OpenWishlist(q) \/ \E p \in Products : TapHeart(q, p)
       \/ \E i \in DOMAIN (IF Top.kind = "wish" THEN Top.shown ELSE <<>>) :
            TapCart(q, i) \/ TapTrash(q, i)
       \/ Serve(q) \/ Refuse(q) \/ Answer(q) \/ Lose(q) \/ Fail(q)
  \/ \E k \in DOMAIN pages : LoaderEnds(k) \/ IconsArrive(k)
  \/ OpenOther \/ Back

WishSpec == WishInit /\ [][WishNext]_wishVars

-----------------------------------------------------------------------------
(* Properties                                                              *)

(***************************************************************************)
(* Whatever is tapped, refused, lost or answered late, and from however    *)
(* old a page: an entry that leaves the wishlist is in the cart, unless    *)
(* the trash icon of its own row was tapped.                               *)
(***************************************************************************)
NothingVanishes ==
  [][ToSet(wish) \subseteq ToSet(wish') \union cart' \union trashed]_wish

(***************************************************************************)
(* A shopper who makes one change at a time gets the wishlist and the cart *)
(* that were meant, though the rows of a page outlive their entries: a     *)
(* product that was wished again is not moved or taken off by the row of   *)
(* its old entry.                                                          *)
(***************************************************************************)
AsMeant ==
  ~hasty /\ faults = 0 /\ ~UnderWay => Wished = wishMeant /\ cart = cartMeant

(***************************************************************************)
(* As long as the shop refuses nothing it could do, "Item Added Cart       *)
(* Succesfully" is said of an entry in the cart, or of one whose own trash *)
(* icon had been tapped - also when the shop refused, and to a shopper who *)
(* waits for nothing.                                                      *)
(***************************************************************************)
ToldIsTrue == faults = 0 => told \subseteq cart \union trashed

(***************************************************************************)
(* The replacement after a removal throws away no other page, unless the   *)
(* shopper covered the wishlist page while it was waiting.                 *)
(***************************************************************************)
NoPageLost == ~left => lost = 0
=============================================================================
