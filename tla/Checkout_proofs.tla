--------------------------- MODULE Checkout_proofs ---------------------------
(***************************************************************************)
(* For any customers and guests, any number of requests, carts, sign-ins   *)
(* and pages: an order has the steps its pages promise and closes the cart *)
(* that was shown, unless somebody signed in or out since the walk began;  *)
(* and a receipt that polls chooses no payment method for a shopper who    *)
(* did not.                                                                *)
(*                                                                         *)
(* The invariant follows a walk through its pages and the requests between *)
(* them.  A page carries the cart its walk began with (by); as long as     *)
(* nobody has come or gone (since = moves) the steps go to the owner of    *)
(* that cart, so what the page's kind promises has been saved for it - if  *)
(* the owner still has this cart (the numbers are equal) and has not       *)
(* ordered it from another page.  Carts are only numbered upwards, and     *)
(* what was saved for a cart stays saved; so a page, or the copy of it in  *)
(* a request, stays as right as it was while the world evolves.            *)
(*                                                                         *)
(* That argument speaks of unbounded types; a second invariant (Bounded)   *)
(* adds the bounds: there is always room for the pages that the requests   *)
(* under way will push, and for the error pages of those that failed.      *)
(***************************************************************************)
EXTENDS Checkout, FiniteSetTheorems, SequenceTheorems, TLAPS

Keys  == [owner : Owners, gen : Nat]
Carts == [gen : Nat, items : BOOLEAN,
          address : BOOLEAN, shipping : BOOLEAN, payment : BOOLEAN]
Pages == [kind  : {"home", "signin", "error", "address", "shipping", "payment",
                   "receipt", "success"},
          guest : BOOLEAN, by : Keys \union {None}, skipped : BOOLEAN,
          shows : Keys \union {None}, since : Nat, onPressedValue : BOOLEAN]
Requests == [pc : {"sent", "ok", "failed", "down"},
             kind : {"address", "shipping", "payment", "poll", "order"},
             page : Nat, from : Pages, to : Owners \union {None},
             moved : BOOLEAN, cart : Keys \union {None}]

\* What pages and requests depend on.
World == [carts |-> carts, login |-> login, cookie |-> cookie, moves |-> moves]
Worlds == [carts : [Owners -> Carts], login : Users \union {None},
           cookie : Sessions \union {None}, moves : Nat]

Typed ==
  /\ World \in Worlds
  /\ pages \in Seq(Pages) /\ pages # <<>>
  /\ reqs \in [Slots -> {Idle} \union Requests]

\* A cart that is still the same one has lost nothing.
Follows(c, c2) ==
  /\ c.gen <= c2.gen
  /\ c.gen = c2.gen => /\ c.address => c2.address
                       /\ c.shipping => c2.shipping
                       /\ c.payment => c2.payment

Evolves(w, w2) ==
  /\ \A o \in Owners : Follows(w.carts[o], w2.carts[o])
  /\ w.moves <= w2.moves
  /\ w.moves = w2.moves => w2.login = w.login /\ (w.cookie # None => w2.cookie = w.cookie)

-----------------------------------------------------------------------------
(* The invariant                                                           *)

Identity(guest, w) == IF guest THEN w.cookie ELSE w.login

Stepped == {"shipping", "payment", "receipt"}

\* What the kind of a page promises of its cart.
Saved(p, cart) ==
  /\ cart.address
  /\ p.kind \in {"payment", "receipt"} => cart.shipping \/ p.skipped
  /\ p.kind = "receipt" => cart.payment

PageOk(p, w) ==
  /\ p.since <= w.moves
  /\ p.kind \in Stepped \union {"address"} /\ p.since = w.moves => p.guest = (w.login = None)
  /\ p.shows # None /\ p.since = w.moves => p.shows.owner = Identity(p.guest, w)
  /\ p.kind \in Stepped =>
       /\ p.by \in Keys /\ p.by.gen <= w.carts[p.by.owner].gen
       /\ p.since = w.moves =>
            /\ p.by.owner = Identity(p.guest, w)
            /\ w.carts[p.by.owner].gen = p.by.gen => Saved(p, w.carts[p.by.owner])

\* The page a request is made from.
Source == [address |-> "address", shipping |-> "shipping", payment |-> "payment",
           order |-> "receipt"]

\* What the answer to a step says of the cart of the walk.
Took(r, w) ==
  /\ r.to \in Owners /\ r.cart \in Keys /\ r.cart.owner = r.to
  /\ r.cart.gen <= w.carts[r.to].gen
  /\ r.kind = "address" /\ w.carts[r.to].gen = r.cart.gen => w.carts[r.to].address
  /\ r.from.kind \in Stepped /\ r.from.by.owner = r.to
       /\ w.carts[r.to].gen = r.from.by.gen =>
         /\ r.kind = "shipping" => w.carts[r.to].shipping
         /\ r.kind = "payment" => w.carts[r.to].payment

StepOk(r, w) ==
  /\ PageOk(r.from, w) /\ r.from.kind = Source[r.kind]
  /\ r.kind # "order" /\ r.from.since = w.moves /\ r.to # None =>
       r.to = Identity(r.from.guest, w)
  /\ r.kind # "order" /\ r.pc = "ok" => Took(r, w)

OrderOk(r, w) ==
  ~r.moved =>
    /\ r.to # None => /\ r.from.by.owner = r.to
                      /\ r.from.shows # None => r.from.shows.owner = r.to
    /\ w.carts[r.from.by.owner].gen = r.from.by.gen =>
         Saved(r.from, w.carts[r.from.by.owner])

PollOk(r, ps, w) ==
  /\ r.pc = "ok" => r.to \in Owners /\ r.cart \in Keys /\ r.cart.owner = r.to
  /\ r.page # 0 => /\ ps[r.page].kind = "receipt" /\ ~ps[r.page].guest
                   /\ ps[r.page].since = w.moves /\ r.to # None => r.to = w.login

ReqOk(r, ps, w) ==
  r # Idle =>
    /\ r.page <= Len(ps)
    /\ r.kind = "poll" => PollOk(r, ps, w)
    /\ r.kind # "poll" => StepOk(r, w)
    /\ r.kind = "order" => OrderOk(r, w)

IInv ==
  /\ Typed
  /\ \A k \in 1..Len(pages) : PageOk(pages[k], World)
  /\ \A q \in Slots : ReqOk(reqs[q], pages, World)
  /\ WizardCompletes /\ OrderedAsShown

-----------------------------------------------------------------------------
(* What is right stays right while the world evolves                       *)

LEMMA Owned == None \notin Owners /\ Users \subseteq Owners /\ Sessions \subseteq Owners
  BY OwnersAssumption DEF Owners

\* The identity of a walk, while nobody comes or goes.
LEMMA IdentityKept ==
  ASSUME NEW w \in Worlds, NEW w2 \in Worlds, Evolves(w, w2), w.moves = w2.moves,
         NEW guest \in BOOLEAN, NEW o \in Owners, o = Identity(guest, w)
  PROVE  o = Identity(guest, w2)
  BY Owned DEF Evolves, Identity

LEMMA CartKept ==
  ASSUME NEW w \in Worlds, NEW w2 \in Worlds, Evolves(w, w2), NEW o \in Owners
  PROVE  /\ w.carts[o] \in Carts /\ w2.carts[o] \in Carts
         /\ Follows(w.carts[o], w2.carts[o])
  BY DEF Worlds, Evolves

LEMMA PageKept ==
  ASSUME NEW p \in Pages, NEW w \in Worlds, NEW w2 \in Worlds, Evolves(w, w2),
         PageOk(p, w)
  PROVE  PageOk(p, w2)
<1>1. p.since \in Nat /\ w.moves \in Nat /\ w2.moves \in Nat /\ w.moves <= w2.moves
      /\ p.guest \in BOOLEAN
  BY DEF Pages, Worlds, Evolves
<1>2. p.since <= w.moves /\ p.since <= w2.moves
      /\ (p.since = w2.moves => p.since = w.moves /\ w.moves = w2.moves)
  BY <1>1 DEF PageOk
<1>3. p.kind \in Stepped \union {"address"} /\ p.since = w2.moves =>
        p.guest = (w2.login = None)
  BY <1>2 DEF PageOk, Evolves
<1>4. p.shows # None /\ p.since = w2.moves => p.shows.owner = Identity(p.guest, w2)
  <2>. SUFFICES ASSUME p.shows # None, p.since = w2.moves
       PROVE  p.shows.owner = Identity(p.guest, w2)
    OBVIOUS
  <2>1. p.shows.owner \in Owners
    BY DEF Pages, Keys
  <2>2. p.shows.owner = Identity(p.guest, w)
    BY <1>2 DEF PageOk
  <2>. QED BY <1>1, <1>2, <2>1, <2>2, IdentityKept
<1>5. ASSUME p.kind \in Stepped
      PROVE  /\ p.by \in Keys /\ p.by.gen <= w2.carts[p.by.owner].gen
             /\ p.since = w2.moves =>
                  /\ p.by.owner = Identity(p.guest, w2)
                  /\ w2.carts[p.by.owner].gen = p.by.gen => Saved(p, w2.carts[p.by.owner])
  <2>1. /\ p.by \in Keys /\ p.by.gen <= w.carts[p.by.owner].gen
        /\ p.by.owner \in Owners /\ p.by.gen \in Nat
    BY <1>5 DEF PageOk, Keys
  <2>2. /\ w.carts[p.by.owner] \in Carts /\ w2.carts[p.by.owner] \in Carts
        /\ Follows(w.carts[p.by.owner], w2.carts[p.by.owner])
    BY <2>1, CartKept
  <2>3. p.by.gen <= w2.carts[p.by.owner].gen
    BY <2>1, <2>2 DEF Follows, Carts
  <2>4. ASSUME p.since = w2.moves
        PROVE  /\ p.by.owner = Identity(p.guest, w2)
               /\ w2.carts[p.by.owner].gen = p.by.gen => Saved(p, w2.carts[p.by.owner])
    <3>1. /\ p.by.owner = Identity(p.guest, w)
          /\ w.carts[p.by.owner].gen = p.by.gen => Saved(p, w.carts[p.by.owner])
      BY <1>2, <1>5, <2>4 DEF PageOk
    <3>2. p.by.owner = Identity(p.guest, w2)
      BY <1>1, <1>2, <2>1, <2>4, <3>1, IdentityKept
    <3>3. w2.carts[p.by.owner].gen = p.by.gen => Saved(p, w2.carts[p.by.owner])
      BY <2>1, <2>2, <3>1 DEF Follows, Carts, Saved
    <3>. QED BY <3>2, <3>3
  <2>. QED BY <2>1, <2>3, <2>4
<1>. QED BY <1>2, <1>3, <1>4, <1>5 DEF PageOk

\* The facts about a page that the polls of it rest on.
Same(p, p2) ==
  p.kind = "receipt" => p2.kind = "receipt" /\ p2.guest = p.guest /\ p2.since = p.since

LEMMA TookKept ==
  ASSUME NEW r \in Requests, NEW w \in Worlds, NEW w2 \in Worlds, Evolves(w, w2),
         PageOk(r.from, w), Took(r, w)
  PROVE  Took(r, w2)
<1>1. /\ r.to \in Owners /\ r.cart \in Keys /\ r.cart.owner = r.to
      /\ r.cart.gen \in Nat /\ r.cart.gen <= w.carts[r.to].gen
  BY DEF Took, Keys
<1>2. /\ w.carts[r.to] \in Carts /\ w2.carts[r.to] \in Carts
      /\ Follows(w.carts[r.to], w2.carts[r.to])
  BY <1>1, CartKept
<1>3. r.cart.gen <= w2.carts[r.to].gen
  BY <1>1, <1>2 DEF Follows, Carts
<1>4. r.kind = "address" /\ w2.carts[r.to].gen = r.cart.gen => w2.carts[r.to].address
  <2>1. w2.carts[r.to].gen = r.cart.gen => w.carts[r.to].gen = r.cart.gen
    BY <1>1, <1>2 DEF Follows, Carts
  <2>. QED BY <1>2, <2>1 DEF Took, Follows
<1>5. ASSUME r.from.kind \in Stepped, r.from.by.owner = r.to, w2.carts[r.to].gen = r.from.by.gen
      PROVE  /\ r.kind = "shipping" => w2.carts[r.to].shipping
             /\ r.kind = "payment" => w2.carts[r.to].payment
  <2>1. r.from.by.gen \in Nat /\ r.from.by.gen <= w.carts[r.to].gen
    BY <1>5 DEF PageOk, Keys
  <2>2. w.carts[r.to].gen = r.from.by.gen
    BY <1>2, <1>5, <2>1 DEF Follows, Carts
  <2>. QED BY <1>2, <1>5, <2>2 DEF Took, Follows
<1>. QED BY <1>1, <1>3, <1>4, <1>5 DEF Took

LEMMA ReqKept ==
  ASSUME NEW r \in {Idle} \union Requests, NEW ps, NEW ps2,
         NEW w \in Worlds, NEW w2 \in Worlds, Evolves(w, w2), ReqOk(r, ps, w),
         r # Idle => /\ r.page <= Len(ps2)
                     /\ r.page # 0 => /\ ps[r.page] \in Pages /\ Same(ps[r.page], ps2[r.page])
                                      /\ PageOk(ps[r.page], w)
  PROVE  ReqOk(r, ps2, w2)
<1>. SUFFICES ASSUME r # Idle PROVE ReqOk(r, ps2, w2)
  BY DEF ReqOk
<1>1. r \in Requests /\ r.from \in Pages /\ r.to \in Owners \union {None}
  BY DEF Requests
<1>2. w.moves \in Nat /\ w2.moves \in Nat /\ w.moves <= w2.moves
  BY DEF Worlds, Evolves
<1>3. ASSUME r.kind = "poll" PROVE PollOk(r, ps2, w2)
  <2>1. PollOk(r, ps, w)
    BY <1>3 DEF ReqOk
  <2>2. ASSUME r.page # 0
        PROVE  /\ ps2[r.page].kind = "receipt" /\ ~ps2[r.page].guest
               /\ ps2[r.page].since = w2.moves /\ r.to # None => r.to = w2.login
    <3>1. /\ ps[r.page].kind = "receipt" /\ ~ps[r.page].guest
          /\ ps[r.page].since = w.moves /\ r.to # None => r.to = w.login
      BY <2>1, <2>2 DEF PollOk
    <3>2. /\ ps2[r.page].kind = "receipt" /\ ps2[r.page].guest = ps[r.page].guest
          /\ ps2[r.page].since = ps[r.page].since
      BY <2>2, <3>1 DEF Same
    <3>3. ps[r.page].since \in Nat /\ ps[r.page].since <= w.moves
      BY <2>2 DEF Pages, PageOk
    <3>4. ps2[r.page].since = w2.moves => w.moves = w2.moves /\ ps[r.page].since = w.moves
      BY <1>2, <3>2, <3>3
    <3>5. w.moves = w2.moves => w2.login = w.login
      BY DEF Evolves
    <3>. QED BY <3>1, <3>2, <3>4, <3>5
  <2>. QED BY <2>1, <2>2 DEF PollOk
<1>4. ASSUME r.kind # "poll" PROVE StepOk(r, w2)
  <2>1. StepOk(r, w)
    BY <1>4 DEF ReqOk
  <2>2. PageOk(r.from, w) /\ PageOk(r.from, w2)
    BY <1>1, <2>1, PageKept DEF StepOk
  <2>3. r.kind # "order" /\ r.pc = "ok" => Took(r, w2)
    BY <1>1, <2>1, TookKept DEF StepOk
  <2>4. ASSUME r.kind # "order", r.from.since = w2.moves, r.to # None
        PROVE  r.to = Identity(r.from.guest, w2)
    <3>1. r.from.since \in Nat /\ r.from.guest \in BOOLEAN /\ r.from.since <= w.moves
      BY <1>1, <2>2 DEF Pages, PageOk
    <3>2. w.moves = w2.moves /\ r.from.since = w.moves
      BY <1>2, <2>4, <3>1
    <3>3. r.to = Identity(r.from.guest, w)
      BY <2>1, <2>4, <3>2 DEF StepOk
    <3>. QED BY <1>1, <2>4, <3>1, <3>2, <3>3, IdentityKept
  <2>. QED BY <2>1, <2>2, <2>3, <2>4 DEF StepOk
<1>5. ASSUME r.kind = "order" PROVE OrderOk(r, w2)
  <2>1. OrderOk(r, w) /\ PageOk(r.from, w) /\ r.from.kind = "receipt"
    BY <1>5 DEF ReqOk, StepOk, Source
  <2>2. /\ r.from.by \in Keys /\ r.from.by.owner \in Owners /\ r.from.by.gen \in Nat
        /\ r.from.by.gen <= w.carts[r.from.by.owner].gen
    BY <2>1 DEF PageOk, Stepped, Keys
  <2>3. /\ w.carts[r.from.by.owner] \in Carts /\ w2.carts[r.from.by.owner] \in Carts
        /\ Follows(w.carts[r.from.by.owner], w2.carts[r.from.by.owner])
    BY <2>2, CartKept
  <2>4. ASSUME ~r.moved, w2.carts[r.from.by.owner].gen = r.from.by.gen
        PROVE  Saved(r.from, w2.carts[r.from.by.owner])
    <3>1. w.carts[r.from.by.owner].gen = r.from.by.gen => Saved(r.from, w.carts[r.from.by.owner])
      BY <2>1, <2>4 DEF OrderOk
    <3>. QED BY <2>2, <2>3, <2>4, <3>1 DEF Follows, Carts, Saved
  <2>. QED BY <2>1, <2>4 DEF OrderOk
<1>. QED BY <1>3, <1>4, <1>5 DEF ReqOk
-----------------------------------------------------------------------------
(* The stack                                                               *)

LEMMA Stack ==
  ASSUME Typed
  PROVE  /\ pages \in Seq(Pages) /\ Len(pages) \in Nat \ {0} /\ Depth = Len(pages)
         /\ DOMAIN pages = 1..Len(pages)
         /\ \A k \in DOMAIN pages : pages[k] \in Pages
         /\ Top = pages[Len(pages)] /\ Top \in Pages
  BY DEF Typed, Depth, Top

LEMMA WorldKept ==
  ASSUME Typed, UNCHANGED <<carts, login, cookie, moves>>
  PROVE  World' = World /\ World' \in Worlds /\ Evolves(World, World')
<1>1. World' = World /\ World \in Worlds
  BY DEF World, Typed
<1>2. Evolves(World, World)
  BY <1>1 DEF Evolves, Follows, Worlds, Carts
<1>. QED BY <1>1, <1>2

\* Goods are put into a cart, or a step is saved for it.
LEMMA CartSet ==
  ASSUME NEW c \in Carts
  PROVE  /\ [c EXCEPT !.items = TRUE] \in Carts /\ Follows(c, [c EXCEPT !.items = TRUE])
         /\ [c EXCEPT !.address = TRUE] \in Carts /\ Follows(c, [c EXCEPT !.address = TRUE])
         /\ [c EXCEPT !.shipping = TRUE] \in Carts /\ Follows(c, [c EXCEPT !.shipping = TRUE])
         /\ [c EXCEPT !.payment = TRUE] \in Carts /\ Follows(c, [c EXCEPT !.payment = TRUE])
<1>1. ASSUME NEW d \in Carts, d.gen = c.gen, c.address => d.address,
             c.shipping => d.shipping, c.payment => d.payment
      PROVE  Follows(c, d)
  BY <1>1 DEF Follows, Carts
<1>2. /\ [c EXCEPT !.items = TRUE] \in Carts /\ [c EXCEPT !.address = TRUE] \in Carts
      /\ [c EXCEPT !.shipping = TRUE] \in Carts /\ [c EXCEPT !.payment = TRUE] \in Carts
  BY DEF Carts
<1>3. Follows(c, [c EXCEPT !.items = TRUE])
  <2>. DEFINE d == [c EXCEPT !.items = TRUE]
  <2>1. /\ d.gen = c.gen /\ d.address = c.address
        /\ d.shipping = c.shipping /\ d.payment = c.payment
    BY DEF Carts
  <2>2. d \in Carts
    BY <1>2
  <2>. HIDE DEF d
  <2>3. Follows(c, d)
    BY <1>1, <2>1, <2>2
  <2>. QED BY <2>3 DEF d
<1>4. Follows(c, [c EXCEPT !.address = TRUE])
  <2>. DEFINE d == [c EXCEPT !.address = TRUE]
  <2>1. /\ d.gen = c.gen /\ d.address = TRUE
        /\ d.shipping = c.shipping /\ d.payment = c.payment
    BY DEF Carts
  <2>2. d \in Carts
    BY <1>2
  <2>. HIDE DEF d
  <2>3. Follows(c, d)
    BY <1>1, <2>1, <2>2
  <2>. QED BY <2>3 DEF d
<1>5. Follows(c, [c EXCEPT !.shipping = TRUE])
  <2>. DEFINE d == [c EXCEPT !.shipping = TRUE]
  <2>1. /\ d.gen = c.gen /\ d.address = c.address
        /\ d.shipping = TRUE /\ d.payment = c.payment
    BY DEF Carts
  <2>2. d \in Carts
    BY <1>2
  <2>. HIDE DEF d
  <2>3. Follows(c, d)
    BY <1>1, <2>1, <2>2
  <2>. QED BY <2>3 DEF d
<1>6. Follows(c, [c EXCEPT !.payment = TRUE])
  <2>. DEFINE d == [c EXCEPT !.payment = TRUE]
  <2>1. /\ d.gen = c.gen /\ d.address = c.address
        /\ d.shipping = c.shipping /\ d.payment = TRUE
    BY DEF Carts
  <2>2. d \in Carts
    BY <1>2
  <2>. HIDE DEF d
  <2>3. Follows(c, d)
    BY <1>1, <2>1, <2>2
  <2>. QED BY <2>3 DEF d
<1>. QED BY <1>2, <1>3, <1>4, <1>5, <1>6

\* Nothing is taken from the stack, and what is new is right.
LEMMA Grow ==
  ASSUME IInv, World' \in Worlds, Evolves(World, World'),
         WizardCompletes', OrderedAsShown',
         pages' \in Seq(Pages), Len(pages) <= Len(pages'),
         \A k \in 1..Len(pages) :
           pages'[k] = pages[k] \/ (PageOk(pages'[k], World') /\ Same(pages[k], pages'[k])),
         \A k \in (Len(pages) + 1)..Len(pages') : PageOk(pages'[k], World'),
         reqs' \in [Slots -> {Idle} \union Requests],
         \A q \in Slots :
           reqs'[q] = Idle \/ reqs'[q] = reqs[q] \/ ReqOk(reqs'[q], pages', World')
  PROVE  IInv'
<1>1. /\ World \in Worlds /\ Len(pages) \in Nat \ {0} /\ Len(pages') \in Nat
      /\ \A k \in 1..Len(pages) : pages[k] \in Pages /\ PageOk(pages[k], World)
      /\ \A q \in Slots : /\ ReqOk(reqs[q], pages, World)
                          /\ reqs[q] \in {Idle} \union Requests
  BY Stack DEF IInv, Typed
<1>2. Typed'
  BY <1>1 DEF Typed
<1>3. ASSUME NEW k \in 1..Len(pages') PROVE PageOk(pages'[k], World')
  <2>1. CASE k \in 1..Len(pages) /\ pages'[k] = pages[k]
    BY <1>1, <2>1, PageKept
  <2>2. CASE ~(k \in 1..Len(pages) /\ pages'[k] = pages[k])
    BY <1>1, <2>2
  <2>. QED BY <2>1, <2>2
<1>4. ASSUME NEW q \in Slots PROVE ReqOk(reqs'[q], pages', World')
  <2>1. CASE reqs'[q] = Idle
    BY <2>1 DEF ReqOk
  <2>2. CASE reqs'[q] = reqs[q] /\ reqs[q] # Idle
    <3>1. reqs[q] \in Requests /\ ReqOk(reqs[q], pages, World)
      BY <1>1, <2>2
    <3>2. reqs[q].page \in Nat /\ reqs[q].page <= Len(pages)
      BY <2>2, <3>1 DEF Requests, ReqOk
    <3>3. reqs[q].page <= Len(pages')
      BY <1>1, <3>2
    <3>4. ASSUME reqs[q].page # 0
          PROVE  /\ pages[reqs[q].page] \in Pages /\ PageOk(pages[reqs[q].page], World)
                 /\ Same(pages[reqs[q].page], pages'[reqs[q].page])
      <4>1. reqs[q].page \in 1..Len(pages)
        BY <1>1, <3>2, <3>4
      <4>. QED BY <1>1, <4>1 DEF Same
    <3>5. ReqOk(reqs[q], pages', World')
      BY <1>1, <3>1, <3>3, <3>4, ReqKept
    <3>. QED BY <2>2, <3>5
  <2>. QED BY <2>1, <2>2
<1>. QED BY <1>2, <1>3, <1>4 DEF IInv

\* Only requests change.
LEMMA Still ==
  ASSUME IInv, UNCHANGED <<pages, orders>>, World' \in Worlds, Evolves(World, World'),
         reqs' \in [Slots -> {Idle} \union Requests],
         \A q \in Slots :
           reqs'[q] = Idle \/ reqs'[q] = reqs[q] \/ ReqOk(reqs'[q], pages', World')
  PROVE  IInv'
<1>1. WizardCompletes' /\ OrderedAsShown'
  BY DEF IInv, WizardCompletes, OrderedAsShown
<1>2. /\ pages' \in Seq(Pages) /\ Len(pages') = Len(pages) /\ Len(pages) \in Nat
      /\ \A k \in 1..Len(pages) : pages'[k] = pages[k]
  BY Stack DEF IInv
<1>3. \A k \in (Len(pages) + 1)..Len(pages') : PageOk(pages'[k], World')
  BY <1>2
<1>. QED BY <1>1, <1>2, <1>3, Grow

\* One page is pushed, and no request changes.
LEMMA PushOk ==
  ASSUME IInv, NEW page \in Pages, pages' = Append(pages, page), UNCHANGED <<reqs, orders>>,
         World' \in Worlds, Evolves(World, World'), PageOk(page, World')
  PROVE  IInv'
<1>1. WizardCompletes' /\ OrderedAsShown'
  BY DEF IInv, WizardCompletes, OrderedAsShown
<1>2. /\ pages' \in Seq(Pages) /\ Len(pages') = Len(pages) + 1 /\ Len(pages) \in Nat
      /\ \A k \in 1..Len(pages) : pages'[k] = pages[k]
      /\ pages'[Len(pages) + 1] = page
  BY Stack DEF IInv
<1>3. \A k \in (Len(pages) + 1)..Len(pages') : PageOk(pages'[k], World')
  BY <1>2
<1>4. reqs' \in [Slots -> {Idle} \union Requests] /\ \A q \in Slots : reqs'[q] = reqs[q]
  BY DEF IInv, Typed
<1>. QED BY <1>1, <1>2, <1>3, <1>4, Grow

\* A page is written to.
LEMMA Written ==
  ASSUME Typed, NEW k \in 1..Len(pages), NEW page \in Pages,
         pages' = [pages EXCEPT ![k] = page]
  PROVE  /\ pages' \in Seq(Pages) /\ Len(pages') = Len(pages)
         /\ \A i \in 1..Len(pages) : i # k => pages'[i] = pages[i]
         /\ pages'[k] = page
<1>1. pages \in Seq(Pages) /\ Len(pages) \in Nat \ {0} /\ DOMAIN pages = 1..Len(pages)
  BY Stack
<1>2. pages' \in [1..Len(pages) -> Pages]
  BY <1>1
<1>3. pages' \in Seq(Pages) /\ Len(pages') = Len(pages)
  BY <1>1, <1>2
<1>. QED BY <1>1, <1>2, <1>3

LEMMA WriteOk ==
  ASSUME IInv, NEW k \in 1..Len(pages), NEW page \in Pages,
         pages' = [pages EXCEPT ![k] = page], PageOk(page, World), Same(pages[k], page),
         UNCHANGED <<carts, login, cookie, moves, orders>>,
         reqs' \in [Slots -> {Idle} \union Requests],
         \A q \in Slots :
           reqs'[q] = Idle \/ reqs'[q] = reqs[q] \/ ReqOk(reqs'[q], pages', World')
  PROVE  IInv'
<1>1. WizardCompletes' /\ OrderedAsShown'
  BY DEF IInv, WizardCompletes, OrderedAsShown
<1>2. World' = World /\ World' \in Worlds /\ Evolves(World, World')
  BY WorldKept DEF IInv
<1>3. /\ pages' \in Seq(Pages) /\ Len(pages') = Len(pages) /\ Len(pages) \in Nat
      /\ \A i \in 1..Len(pages) : i # k => pages'[i] = pages[i]
      /\ pages'[k] = page
  BY Written, Stack DEF IInv
<1>4. \A i \in (Len(pages) + 1)..Len(pages') : PageOk(pages'[i], World')
  BY <1>3
<1>5. \A i \in 1..Len(pages) :
        pages'[i] = pages[i] \/ (PageOk(pages'[i], World') /\ Same(pages[i], pages'[i]))
  BY <1>2, <1>3
<1>6. Len(pages) <= Len(pages')
  BY <1>3
<1>. HIDE DEF IInv
<1>. QED BY <1>1, <1>2, <1>3, <1>4, <1>5, <1>6, Grow, Zenon

\* A page that promises nothing.
LEMMA PlainOk ==
  ASSUME NEW p \in Pages, NEW w \in Worlds, p.since = 0 \/ p.since = w.moves, p.shows = None,
         p.kind \notin Stepped,
         p.kind = "address" => p.guest = (w.login = None)
  PROVE  PageOk(p, w)
<1>1. w.moves \in Nat /\ "address" \notin Stepped
  BY DEF Worlds, Stepped
<1>. QED BY <1>1 DEF PageOk

LEMMA FreshFacts ==
  ASSUME Typed, NEW guest \in BOOLEAN,
         NEW kind \in {"home", "signin", "error", "address", "receipt", "success"}
  PROVE  /\ Fresh(kind, guest) \in Pages /\ Fresh(kind, guest).kind = kind
         /\ Fresh(kind, guest).since = moves /\ Fresh(kind, guest).shows = None
         /\ Fresh(kind, guest).guest = guest
         /\ Plain(kind) \in Pages /\ Plain(kind).kind = kind /\ Plain(kind).since = 0
         /\ Plain(kind).shows = None /\ Plain(kind).guest = FALSE
<1>1. moves \in Nat
  BY DEF Typed, World, Worlds
<1>. QED BY <1>1 DEF Fresh, Plain, Pages

\* The pages that are pushed without a request.
LEMMA PlainPage ==
  ASSUME Typed, NEW w \in Worlds, NEW kind \in {"home", "signin", "error"}
  PROVE  Plain(kind) \in Pages /\ PageOk(Plain(kind), w)
<1>1. /\ Plain(kind) \in Pages /\ Plain(kind).kind = kind /\ Plain(kind).since = 0
      /\ Plain(kind).shows = None
  BY FreshFacts
<1>2. kind \notin Stepped /\ kind # "address"
  BY DEF Stepped
<1>. QED BY <1>1, <1>2, PlainOk

LEMMA InitInv == Init => IInv
<1>. SUFFICES ASSUME Init PROVE IInv
  OBVIOUS
<1>1. World \in Worlds
  <2>1. login \in Users \union {None} /\ cookie \in Sessions \union {None} /\ moves = 0
    BY DEF Init
  <2>2. \A b \in BOOLEAN : [Unfilled(0) EXCEPT !.items = b] \in Carts
    BY DEF Unfilled, Carts
  <2>3. \A o \in Owners : (o \in Users \union {cookie}) \in BOOLEAN
    OBVIOUS
  <2>4. carts \in [Owners -> Carts]
    BY <2>2, <2>3 DEF Init
  <2>. QED BY <2>1, <2>4 DEF World, Worlds
<1>2. Home \in Pages /\ Home.since = 0 /\ Home.shows = None /\ Home.kind = "home"
  BY DEF Init, Home, Plain, Fresh, Pages
<1>3. PageOk(Home, World)
  BY <1>1, <1>2, PlainOk DEF Stepped
<1>4. pages \in Seq(Pages) /\ pages # <<>> /\ \A k \in 1..Len(pages) : PageOk(pages[k], World)
  BY <1>2, <1>3 DEF Init
<1>5. reqs \in [Slots -> {Idle} \union Requests] /\ \A q \in Slots : ReqOk(reqs[q], pages, World)
  BY DEF Init, ReqOk
<1>6. WizardCompletes /\ OrderedAsShown
  BY DEF Init, WizardCompletes, OrderedAsShown
<1>. QED BY <1>1, <1>4, <1>5, <1>6 DEF IInv, Typed

-----------------------------------------------------------------------------
(* The actions: navigation                                                 *)

LEMMA StepCheckOut ==
  ASSUME IInv, TapCheckOut
  PROVE  IInv'
<1>. DEFINE page == Fresh("address", login = None)
<1>1. /\ pages' = Append(pages, page)
      /\ UNCHANGED <<reqs, orders, carts, login, cookie, moves>>
  BY DEF TapCheckOut, Push
<1>2. World' = World /\ World' \in Worlds /\ Evolves(World, World')
  BY <1>1, WorldKept DEF IInv
<1>3. /\ page \in Pages /\ page.kind = "address" /\ page.since = moves
      /\ page.shows = None /\ page.guest = (login = None)
  BY FreshFacts DEF IInv
<1>. HIDE DEF page
<1>4. World.moves = moves /\ World.login = login
  BY DEF World
<1>5. PageOk(page, World')
  BY <1>2, <1>3, <1>4, PlainOk DEF Stepped
<1>. QED BY <1>1, <1>2, <1>3, <1>5, PushOk

LEMMA StepGoHome ==
  ASSUME IInv, GoHome
  PROVE  IInv'
<1>1. UNCHANGED <<reqs, orders, carts, login, cookie, moves>>
  BY DEF GoHome
<1>2. World' = World /\ World' \in Worlds /\ Evolves(World, World')
  BY <1>1, WorldKept DEF IInv
<1>3. Home \in Pages /\ PageOk(Home, World)
  BY <1>2, PlainPage DEF IInv, Typed, Home
<1>4. CASE pages' = Append(pages, Home)
  BY <1>1, <1>2, <1>3, <1>4, PushOk
<1>5. CASE Top.kind = "success" /\ pages' = [pages EXCEPT ![Depth] = Home]
  <2>1. /\ Len(pages) \in 1..Len(pages) /\ Top = pages[Len(pages)] /\ Depth = Len(pages)
        /\ reqs \in [Slots -> {Idle} \union Requests]
    BY Stack DEF IInv, Typed
  <2>2. Same(pages[Len(pages)], Home)
    BY <1>5, <2>1 DEF Same
  <2>. QED BY <1>1, <1>2, <1>3, <1>5, <2>1, <2>2, WriteOk
<1>. QED BY <1>4, <1>5 DEF GoHome, Push

\* Somebody comes or goes.
LEMMA Moved ==
  ASSUME Typed, moves' = moves + 1, UNCHANGED carts,
         login' \in Users \union {None}, cookie' \in Sessions \union {None}
  PROVE  World' \in Worlds /\ Evolves(World, World')
<1>1. World \in Worlds /\ moves \in Nat /\ carts \in [Owners -> Carts]
  BY DEF Typed, World, Worlds
<1>2. World' \in Worlds
  BY <1>1 DEF World, Worlds
<1>3. \A o \in Owners : Follows(carts[o], carts[o])
  BY <1>1 DEF Follows, Carts
<1>. QED BY <1>1, <1>2, <1>3 DEF World, Evolves

LEMMA StepOpenSignIn ==
  ASSUME IInv, OpenSignIn
  PROVE  IInv'
<1>1. pages' = Append(pages, Plain("signin")) /\ UNCHANGED <<reqs, orders, carts>>
  BY DEF OpenSignIn, Push
<1>2. World' \in Worlds /\ Evolves(World, World')
  <2>1. CASE login' = None /\ cookie' = None /\ moves' = moves + 1
    BY <1>1, <2>1, Moved DEF IInv
  <2>2. CASE UNCHANGED <<login, cookie, moves>>
    BY <1>1, <2>2, WorldKept DEF IInv
  <2>. QED BY <2>1, <2>2 DEF OpenSignIn
<1>3. Plain("signin") \in Pages /\ PageOk(Plain("signin"), World')
  BY <1>2, PlainPage DEF IInv
<1>. QED BY <1>1, <1>2, <1>3, PushOk

LEMMA StepSignIn ==
  ASSUME IInv, NEW u \in Users, SignIn(u)
  PROVE  IInv'
<1>1. /\ pages' = Append(pages, Home) /\ UNCHANGED <<reqs, orders, carts, cookie>>
      /\ login' = u /\ moves' = moves + 1
  BY DEF SignIn, Push
<1>2. cookie \in Sessions \union {None}
  BY DEF IInv, Typed, World, Worlds
<1>3. World' \in Worlds /\ Evolves(World, World')
  BY <1>1, <1>2, Moved DEF IInv
<1>4. Home \in Pages /\ PageOk(Home, World')
  BY <1>3, PlainPage DEF IInv, Home
<1>. QED BY <1>1, <1>3, <1>4, PushOk

LEMMA StepAddGoods ==
  ASSUME IInv, AddGoods
  PROVE  IInv'
<1>1. UNCHANGED <<pages, reqs, orders, login, moves>>
  BY DEF AddGoods
<1>2. /\ World \in Worlds /\ carts \in [Owners -> Carts] /\ moves \in Nat
      /\ login \in Users \union {None} /\ cookie \in Sessions \union {None}
      /\ reqs \in [Slots -> {Idle} \union Requests]
  BY DEF IInv, Typed, World, Worlds
<1>3. PICK o \in IF OrderIdentity # None THEN {OrderIdentity}
                 ELSE {s \in Sessions : carts[s] = Unfilled(0)} :
        /\ carts' = [carts EXCEPT ![o].items = TRUE]
        /\ cookie' = IF o \in Sessions THEN o ELSE cookie
  BY DEF AddGoods
<1>4. o \in Owners /\ (cookie # None => cookie' = cookie) /\ cookie' \in Sessions \union {None}
  BY <1>2, <1>3, Owned, OwnersAssumption DEF OrderIdentity, Owners
<1>5. /\ carts' \in [Owners -> Carts]
      /\ \A p \in Owners : Follows(carts[p], carts'[p])
  <2>1. carts[o] \in Carts /\ carts' = [carts EXCEPT ![o] = [carts[o] EXCEPT !.items = TRUE]]
    BY <1>2, <1>3, <1>4
  <2>2. /\ [carts[o] EXCEPT !.items = TRUE] \in Carts
        /\ Follows(carts[o], [carts[o] EXCEPT !.items = TRUE])
    BY <2>1, CartSet
  <2>3. \A p \in Owners : Follows(carts[p], carts[p])
    BY <1>2 DEF Follows, Carts
  <2>. QED BY <1>2, <1>4, <2>1, <2>2, <2>3
<1>6. World' \in Worlds /\ Evolves(World, World')
  BY <1>1, <1>2, <1>4, <1>5 DEF World, Worlds, Evolves
<1>. QED BY <1>1, <1>2, <1>6, Still

LEMMA StepRearm ==
  ASSUME IInv, NEW i \in DOMAIN pages, Rearm(i)
  PROVE  IInv'
<1>. DEFINE page == [pages[i] EXCEPT !.onPressedValue = TRUE]
<1>1. /\ i \in 1..Len(pages) /\ pages[i] \in Pages /\ PageOk(pages[i], World)
      /\ reqs \in [Slots -> {Idle} \union Requests]
  BY Stack DEF IInv, Typed
<1>2. pages' = [pages EXCEPT ![i] = page]
      /\ UNCHANGED <<reqs, orders, carts, login, cookie, moves>>
  BY DEF Rearm
<1>3. /\ page \in Pages /\ page.kind = pages[i].kind /\ page.guest = pages[i].guest
      /\ page.by = pages[i].by /\ page.skipped = pages[i].skipped
      /\ page.shows = pages[i].shows /\ page.since = pages[i].since
  BY <1>1 DEF Pages
<1>. HIDE DEF page
<1>4. PageOk(page, World) /\ Same(pages[i], page)
  BY <1>1, <1>3 DEF PageOk, Saved, Same
<1>. QED BY <1>1, <1>2, <1>3, <1>4, WriteOk

\* The page of a request goes.
LEMMA Orphaned ==
  ASSUME NEW r \in Requests, NEW ps, NEW ps2, NEW w \in Worlds, ReqOk(r, ps, w), r # Idle,
         Len(ps2) \in Nat
  PROVE  [r EXCEPT !.page = 0] \in Requests /\ ReqOk([r EXCEPT !.page = 0], ps2, w)
<1>. DEFINE o == [r EXCEPT !.page = 0]
<1>1. /\ o \in Requests /\ o.page = 0 /\ o.kind = r.kind /\ o.from = r.from
      /\ o.to = r.to /\ o.moved = r.moved /\ o.cart = r.cart /\ o.pc = r.pc
  BY DEF Requests
<1>. HIDE DEF o
<1>2. ReqOk(o, ps2, w)
  BY <1>1 DEF ReqOk, PollOk, StepOk, OrderOk, Took
<1>. QED BY <1>1, <1>2 DEF o

LEMMA StepBack ==
  ASSUME IInv, Back
  PROVE  IInv'
<1>1. /\ pages \in Seq(Pages) /\ Len(pages) \in Nat /\ Len(pages) > 1
      /\ pages' = SubSeq(pages, 1, Len(pages) - 1)
      /\ UNCHANGED <<orders, carts, login, cookie, moves>>
      /\ reqs' = [q \in Slots |-> IF reqs[q] # Idle /\ reqs[q].page = Len(pages)
                                  THEN [reqs[q] EXCEPT !.page = 0] ELSE reqs[q]]
      /\ reqs \in [Slots -> {Idle} \union Requests]
  BY Stack DEF IInv, Typed, Back, Front, Depth
<1>2. World' = World /\ World' \in Worlds /\ Evolves(World, World')
  BY <1>1, WorldKept DEF IInv
<1>3. /\ pages' \in Seq(Pages) /\ Len(pages') = Len(pages) - 1
      /\ \A k \in 1..(Len(pages) - 1) : pages'[k] = pages[k]
  BY <1>1
<1>4. pages' # <<>> /\ Len(pages') \in Nat
  <2>1. Len(pages') \in Nat /\ Len(pages') # 0
    BY <1>1, <1>3
  <2>2. pages' = <<>> => Len(pages') = 0
    OBVIOUS
  <2>. QED BY <2>1, <2>2
<1>5. \A k \in 1..Len(pages') : PageOk(pages'[k], World')
  BY <1>1, <1>2, <1>3 DEF IInv
<1>6. ASSUME NEW q \in Slots
      PROVE  reqs'[q] \in {Idle} \union Requests /\ ReqOk(reqs'[q], pages', World')
  <2>1. reqs[q] \in {Idle} \union Requests /\ ReqOk(reqs[q], pages, World)
    BY <1>1 DEF IInv
  <2>2. CASE reqs[q] # Idle /\ reqs[q].page = Len(pages)
    <3>1. reqs'[q] = [reqs[q] EXCEPT !.page = 0] /\ reqs[q] \in Requests
      BY <1>1, <2>1, <2>2
    <3>2. /\ [reqs[q] EXCEPT !.page = 0] \in Requests
          /\ ReqOk([reqs[q] EXCEPT !.page = 0], pages', World)
      BY <1>2, <1>4, <2>1, <2>2, <3>1, Orphaned
    <3>. QED BY <1>2, <3>1, <3>2
  <2>3. CASE reqs[q] # Idle /\ reqs[q].page # Len(pages)
    <3>1. reqs'[q] = reqs[q] /\ reqs[q].page \in Nat /\ reqs[q].page <= Len(pages)
      BY <1>1, <2>1, <2>3 DEF Requests, ReqOk
    <3>2. reqs[q].page <= Len(pages')
      BY <1>1, <1>3, <2>3, <3>1
    <3>3. ASSUME reqs[q].page # 0
          PROVE  /\ pages[reqs[q].page] \in Pages /\ PageOk(pages[reqs[q].page], World)
                 /\ Same(pages[reqs[q].page], pages'[reqs[q].page])
      <4>1. reqs[q].page \in 1..(Len(pages) - 1)
        BY <1>1, <1>3, <3>1, <3>2, <3>3
      <4>. QED BY <1>1, <1>3, <4>1 DEF IInv, Same
    <3>4. ReqOk(reqs[q], pages', World')
      BY <1>2, <2>1, <3>2, <3>3, ReqKept
    <3>. QED BY <2>1, <3>1, <3>4
  <2>4. CASE reqs[q] = Idle
    BY <1>1, <2>4 DEF ReqOk
  <2>. QED BY <2>2, <2>3, <2>4
<1>7. WizardCompletes' /\ OrderedAsShown'
  BY <1>1 DEF IInv, WizardCompletes, OrderedAsShown
<1>8. reqs' \in [Slots -> {Idle} \union Requests]
  <2>1. reqs' = [q \in Slots |-> reqs'[q]]
    BY <1>1
  <2>. QED BY <1>6, <2>1
<1>. QED BY <1>2, <1>3, <1>4, <1>5, <1>6, <1>7, <1>8 DEF IInv, Typed

-----------------------------------------------------------------------------
(* The actions: taps                                                       *)

LEMMA Asked ==
  ASSUME Typed, NEW q \in Slots,
         NEW kind \in {"address", "shipping", "payment", "poll", "order"},
         NEW page \in Nat, NEW from \in Pages, NEW to \in Owners \union {None},
         Ask(q, kind, page, from, to)
  PROVE  /\ reqs' \in [Slots -> {Idle} \union Requests]
         /\ \A s \in Slots : s # q => reqs'[s] = reqs[s]
         /\ reqs'[q].pc = "sent" /\ reqs'[q].kind = kind /\ reqs'[q].page = page
         /\ reqs'[q].from = from /\ reqs'[q].to = to
         /\ reqs'[q].moved = (moves # from.since)
<1>. DEFINE r == [pc |-> "sent", kind |-> kind, page |-> page, from |-> from,
                  to |-> to, moved |-> moves # from.since, cart |-> None]
<1>1. reqs' = [reqs EXCEPT ![q] = r] /\ reqs \in [Slots -> {Idle} \union Requests]
  BY DEF Ask, Typed
<1>2. /\ r.pc = "sent" /\ r.kind = kind /\ r.page = page /\ r.from = from /\ r.to = to
      /\ r.moved = (moves # from.since)
  OBVIOUS
<1>3. r \in Requests
  <2>1. \A b \in BOOLEAN :
          [pc |-> "sent", kind |-> kind, page |-> page, from |-> from,
           to |-> to, moved |-> b, cart |-> None] \in Requests
    BY DEF Requests
  <2>2. (moves # from.since) \in BOOLEAN
    OBVIOUS
  <2>. QED BY <2>1, <2>2
<1>. HIDE DEF r
<1>. QED BY <1>1, <1>2, <1>3

LEMMA Identified ==
  ASSUME Typed
  PROVE  /\ OrderIdentity \in Owners \union {None}
         /\ OrderIdentity = Identity(login = None, World)
         /\ \A guest \in BOOLEAN : /\ StepIdentity(guest) \in Owners \union {None}
                                   /\ StepIdentity(guest) = Identity(guest, World)
<1>1. /\ login \in Users \union {None} /\ cookie \in Sessions \union {None}
      /\ World.login = login /\ World.cookie = cookie
  BY DEF Typed, World, Worlds
<1>. QED BY <1>1, Owned DEF OrderIdentity, StepIdentity, Identity

\* A step, or an order, is asked for from the top page.
LEMMA TapOk ==
  ASSUME IInv, NEW q \in Slots, NEW kind \in {"address", "shipping", "payment", "order"},
         Top.kind = Source[kind],
         NEW to, to = IF kind = "order" THEN OrderIdentity ELSE StepIdentity(Top.guest),
         Ask(q, kind, Depth, Top, to), Len(pages') = Len(pages),
         UNCHANGED <<carts, login, cookie, moves>>
  PROVE  /\ reqs' \in [Slots -> {Idle} \union Requests]
         /\ \A s \in Slots : reqs'[s] = Idle \/ reqs'[s] = reqs[s]
                               \/ ReqOk(reqs'[s], pages', World')
<1>1. /\ Depth = Len(pages) /\ Len(pages) \in Nat /\ Top \in Pages /\ PageOk(Top, World)
      /\ Top.guest \in BOOLEAN
  BY Stack DEF IInv, Pages
<1>2. to \in Owners \union {None}
  BY <1>1, Identified DEF IInv
<1>3. /\ reqs' \in [Slots -> {Idle} \union Requests]
      /\ \A s \in Slots : s # q => reqs'[s] = reqs[s]
      /\ reqs'[q].pc = "sent" /\ reqs'[q].kind = kind /\ reqs'[q].page = Depth
      /\ reqs'[q].from = Top /\ reqs'[q].to = to
      /\ reqs'[q].moved = (moves # Top.since)
  BY <1>1, <1>2, Asked DEF IInv
<1>4. World' = World /\ World.moves = moves /\ World.login = login
  BY WorldKept DEF IInv, World
<1>5. StepOk(reqs'[q], World)
  <2>1. kind # "order" => to = Identity(Top.guest, World)
    BY <1>1, Identified DEF IInv
  <2>. QED BY <1>1, <1>3, <2>1 DEF StepOk
<1>6. kind = "order" => OrderOk(reqs'[q], World)
  <2>. SUFFICES ASSUME kind = "order", Top.since = moves
       PROVE  /\ to # None => /\ Top.by.owner = to
                              /\ Top.shows # None => Top.shows.owner = to
              /\ World.carts[Top.by.owner].gen = Top.by.gen =>
                   Saved(Top, World.carts[Top.by.owner])
    BY <1>3 DEF OrderOk
  <2>1. Top.kind = "receipt" /\ "receipt" \in Stepped
    BY DEF Source, Stepped
  <2>2. Top.guest = (login = None)
    BY <1>1, <1>4, <2>1 DEF PageOk
  <2>3. to = Identity(Top.guest, World)
    BY <2>2, Identified DEF IInv
  <2>. QED BY <1>1, <1>4, <2>1, <2>3 DEF PageOk
<1>7. ReqOk(reqs'[q], pages', World')
  BY <1>1, <1>3, <1>4, <1>5, <1>6 DEF ReqOk
<1>. QED BY <1>3, <1>7

LEMMA StepTapAddress ==
  ASSUME IInv, NEW q \in Slots, TapAddress(q)
  PROVE  IInv'
<1>. DEFINE page == [Top EXCEPT !.onPressedValue = ~Top.guest]
<1>1. /\ Len(pages) \in 1..Len(pages) /\ Depth = Len(pages) /\ Top = pages[Len(pages)]
      /\ Top \in Pages /\ PageOk(Top, World) /\ Top.guest \in BOOLEAN
  BY Stack DEF IInv, Pages
<1>2. /\ Top.kind = Source["address"]
      /\ Ask(q, "address", Depth, Top, StepIdentity(Top.guest))
      /\ pages' = [pages EXCEPT ![Len(pages)] = page]
      /\ UNCHANGED <<orders, carts, login, cookie, moves>>
  BY <1>1 DEF TapAddress, Source
<1>3. /\ page \in Pages /\ page.kind = Top.kind /\ page.guest = Top.guest
      /\ page.by = Top.by /\ page.skipped = Top.skipped
      /\ page.shows = Top.shows /\ page.since = Top.since
  <2>1. \A b \in BOOLEAN : LET p == [Top EXCEPT !.onPressedValue = b] IN
          /\ p \in Pages /\ p.kind = Top.kind /\ p.guest = Top.guest
          /\ p.by = Top.by /\ p.skipped = Top.skipped
          /\ p.shows = Top.shows /\ p.since = Top.since
    BY <1>1 DEF Pages
  <2>. QED BY <1>1, <2>1
<1>. HIDE DEF page
<1>4. PageOk(page, World) /\ Same(Top, page)
  BY <1>1, <1>3 DEF PageOk, Saved, Same
<1>5. Len(pages') = Len(pages)
  BY <1>1, <1>2, <1>3, Written DEF IInv
<1>6. /\ reqs' \in [Slots -> {Idle} \union Requests]
      /\ \A s \in Slots : reqs'[s] = Idle \/ reqs'[s] = reqs[s]
                            \/ ReqOk(reqs'[s], pages', World')
  BY <1>2, <1>5, TapOk
<1>. QED BY <1>1, <1>2, <1>3, <1>4, <1>6, WriteOk

LEMMA StepTapOrder ==
  ASSUME IInv, NEW q \in Slots, TapOrder(q)
  PROVE  IInv'
<1>. DEFINE page == [Top EXCEPT !.onPressedValue = FALSE]
<1>1. /\ Len(pages) \in 1..Len(pages) /\ Depth = Len(pages) /\ Top = pages[Len(pages)]
      /\ Top \in Pages /\ PageOk(Top, World)
  BY Stack DEF IInv
<1>2. /\ Top.kind = Source["order"]
      /\ Ask(q, "order", Depth, Top, OrderIdentity)
      /\ pages' = [pages EXCEPT ![Len(pages)] = page]
      /\ UNCHANGED <<orders, carts, login, cookie, moves>>
  BY <1>1 DEF TapOrder, Source
<1>3. /\ page \in Pages /\ page.kind = Top.kind /\ page.guest = Top.guest
      /\ page.by = Top.by /\ page.skipped = Top.skipped
      /\ page.shows = Top.shows /\ page.since = Top.since
  BY <1>1 DEF Pages
<1>. HIDE DEF page
<1>4. PageOk(page, World) /\ Same(Top, page)
  BY <1>1, <1>3 DEF PageOk, Saved, Same
<1>5. Len(pages') = Len(pages)
  BY <1>1, <1>2, <1>3, Written DEF IInv
<1>6. /\ reqs' \in [Slots -> {Idle} \union Requests]
      /\ \A s \in Slots : reqs'[s] = Idle \/ reqs'[s] = reqs[s]
                            \/ ReqOk(reqs'[s], pages', World')
  BY <1>2, <1>5, TapOk
<1>. QED BY <1>1, <1>2, <1>3, <1>4, <1>6, WriteOk

LEMMA StepTapShipping ==
  ASSUME IInv, NEW q \in Slots, TapShipping(q)
  PROVE  IInv'
<1>1. /\ Top.kind = Source["shipping"]
      /\ Ask(q, "shipping", Depth, Top, StepIdentity(Top.guest))
      /\ UNCHANGED <<pages, orders, carts, login, cookie, moves>>
  BY DEF TapShipping, Source
<1>2. /\ reqs' \in [Slots -> {Idle} \union Requests]
      /\ \A s \in Slots : reqs'[s] = Idle \/ reqs'[s] = reqs[s]
                            \/ ReqOk(reqs'[s], pages', World')
  BY <1>1, TapOk
<1>. QED BY <1>1, <1>2, WorldKept, Still DEF IInv

LEMMA StepTapCash ==
  ASSUME IInv, NEW q \in Slots, TapCash(q)
  PROVE  IInv'
<1>1. /\ Top.kind = Source["payment"]
      /\ Ask(q, "payment", Depth, Top, StepIdentity(Top.guest))
      /\ UNCHANGED <<pages, orders, carts, login, cookie, moves>>
  BY DEF TapCash, Source
<1>2. /\ reqs' \in [Slots -> {Idle} \union Requests]
      /\ \A s \in Slots : reqs'[s] = Idle \/ reqs'[s] = reqs[s]
                            \/ ReqOk(reqs'[s], pages', World')
  BY <1>1, TapOk
<1>. QED BY <1>1, <1>2, WorldKept, Still DEF IInv

LEMMA Polled ==
  ASSUME IInv, NEW q \in Slots, NEW page \in Nat, page <= Len(pages),
         page # 0 => pages[page].kind = "receipt" /\ ~pages[page].guest,
         Ask(q, "poll", page, Fresh("receipt", FALSE), login),
         UNCHANGED <<pages, orders, carts, login, cookie, moves>>
  PROVE  IInv'
<1>1. World' = World /\ World' \in Worlds /\ Evolves(World, World') /\ World.login = login
  BY WorldKept DEF IInv, World
<1>2. Fresh("receipt", FALSE) \in Pages /\ login \in Owners \union {None} /\ Typed
  <2>1. login \in Users \union {None}
    BY DEF IInv, Typed, World, Worlds
  <2>. QED BY <2>1, Owned, FreshFacts DEF IInv
<1>3. ASSUME NEW from \in Pages, from = Fresh("receipt", FALSE)
      PROVE  /\ reqs' \in [Slots -> {Idle} \union Requests]
             /\ \A s \in Slots : s # q => reqs'[s] = reqs[s]
             /\ reqs'[q].pc = "sent" /\ reqs'[q].kind = "poll" /\ reqs'[q].page = page
             /\ reqs'[q].to = login
  <2>1. ASSUME NEW kind \in {"address", "shipping", "payment", "poll", "order"}, kind = "poll"
        PROVE  /\ reqs' \in [Slots -> {Idle} \union Requests]
               /\ \A s \in Slots : s # q => reqs'[s] = reqs[s]
               /\ reqs'[q].pc = "sent" /\ reqs'[q].kind = kind /\ reqs'[q].page = page
               /\ reqs'[q].to = login
    <3>1. Ask(q, kind, page, from, login)
      BY <1>3, <2>1
    <3>. HIDE DEF IInv
    <3>. QED BY <1>2, <3>1, Asked
  <2>. QED BY <2>1
<1>4. /\ reqs' \in [Slots -> {Idle} \union Requests]
      /\ \A s \in Slots : s # q => reqs'[s] = reqs[s]
      /\ reqs'[q].pc = "sent" /\ reqs'[q].kind = "poll" /\ reqs'[q].page = page
      /\ reqs'[q].to = login
  BY <1>2, <1>3
<1>5. ReqOk(reqs'[q], pages', World')
  BY <1>1, <1>4 DEF ReqOk, PollOk
<1>. QED BY <1>1, <1>4, <1>5, Still

LEMMA StepPoll ==
  ASSUME IInv, NEW q \in Slots, Poll(q)
  PROVE  IInv'
<1>1. UNCHANGED <<pages, orders, carts, login, cookie, moves>>
  BY DEF Poll
<1>2. Len(pages) \in Nat /\ DOMAIN pages = 1..Len(pages)
  BY Stack DEF IInv
<1>3. ASSUME NEW i \in DOMAIN pages, Polling(i),
             Ask(q, "poll", i, Fresh("receipt", FALSE), login)
      PROVE  IInv'
  <2>1. i \in Nat /\ i <= Len(pages) /\ pages[i].kind = "receipt" /\ ~pages[i].guest
    BY <1>2, <1>3 DEF Polling
  <2>. QED BY <1>1, <1>3, <2>1, Polled
<1>4. ASSUME Ask(q, "poll", 0, Fresh("receipt", FALSE), login)
      PROVE  IInv'
  <2>1. 0 \in Nat /\ 0 <= Len(pages) /\ ~(0 # 0)
    BY <1>2
  <2>. QED BY <1>1, <1>4, <2>1, Polled, Zenon
<1>. QED BY <1>3, <1>4 DEF Poll

-----------------------------------------------------------------------------
(* The actions: the shop                                                   *)

\* The facts about a request that somebody serves.
LEMMA Served ==
  ASSUME IInv, NEW q \in Slots, reqs[q] # Idle
  PROVE  /\ reqs \in [Slots -> {Idle} \union Requests]
         /\ reqs[q] \in Requests /\ ReqOk(reqs[q], pages, World)
         /\ reqs[q].page \in Nat /\ reqs[q].page <= Len(pages)
  BY DEF IInv, Typed, ReqOk, Requests

LEMMA StepLose ==
  ASSUME IInv, NEW q \in Slots, Lose(q)
  PROVE  IInv'
<1>1. /\ reqs' = [reqs EXCEPT ![q] = Idle]
      /\ UNCHANGED <<pages, orders, carts, login, cookie, moves>>
  BY DEF Lose
<1>2. reqs \in [Slots -> {Idle} \union Requests]
  BY DEF IInv, Typed
<1>3. /\ reqs' \in [Slots -> {Idle} \union Requests]
      /\ \A s \in Slots : reqs'[s] = Idle \/ reqs'[s] = reqs[s]
  BY <1>1, <1>2
<1>. QED BY <1>1, <1>3, WorldKept, Still DEF IInv

LEMMA Refused ==
  ASSUME NEW r \in Requests, NEW ps, NEW w \in Worlds, ReqOk(r, ps, w), r # Idle,
         NEW pc \in {"failed", "down"}
  PROVE  [r EXCEPT !.pc = pc] \in Requests /\ ReqOk([r EXCEPT !.pc = pc], ps, w)
<1>. DEFINE o == [r EXCEPT !.pc = pc]
<1>1. /\ o \in Requests /\ o.page = r.page /\ o.kind = r.kind /\ o.from = r.from
      /\ o.to = r.to /\ o.moved = r.moved /\ o.cart = r.cart /\ o.pc # "ok"
  BY DEF Requests
<1>. HIDE DEF o
<1>2. ReqOk(o, ps, w)
  BY <1>1 DEF ReqOk, PollOk, StepOk, OrderOk
<1>. QED BY <1>1, <1>2 DEF o

LEMMA StepServeError ==
  ASSUME IInv, NEW q \in Slots, ServeError(q)
  PROVE  IInv'
<1>1. reqs[q] # Idle /\ UNCHANGED <<pages, orders, carts, login, cookie, moves>>
  BY DEF ServeError, Sent
<1>2. PICK pc \in {"failed", "down"} : reqs' = [reqs EXCEPT ![q].pc = pc]
  BY DEF ServeError
<1>3. World' = World /\ World' \in Worlds /\ Evolves(World, World')
  BY <1>1, WorldKept DEF IInv
<1>4. /\ reqs \in [Slots -> {Idle} \union Requests]
      /\ reqs[q] \in Requests /\ ReqOk(reqs[q], pages, World)
  BY <1>1, Served
<1>5. /\ [reqs[q] EXCEPT !.pc = pc] \in Requests
      /\ ReqOk([reqs[q] EXCEPT !.pc = pc], pages, World)
  BY <1>1, <1>3, <1>4, Refused
<1>6. reqs' = [reqs EXCEPT ![q] = [reqs[q] EXCEPT !.pc = pc]]
  BY <1>2, <1>4
<1>7. /\ reqs' \in [Slots -> {Idle} \union Requests]
      /\ reqs'[q] = [reqs[q] EXCEPT !.pc = pc]
      /\ \A s \in Slots : s # q => reqs'[s] = reqs[s]
  BY <1>4, <1>5, <1>6
<1>8. ReqOk(reqs'[q], pages', World')
  BY <1>1, <1>3, <1>5, <1>7
<1>. QED BY <1>1, <1>3, <1>7, <1>8, Still

\* A step has been carried out.
LEMMA Accepted ==
  ASSUME NEW r \in Requests, NEW ps, NEW w \in Worlds, ReqOk(r, ps, w), r # Idle,
         r.kind # "order", r.to \in Owners, NEW cart \in Keys,
         cart.owner = r.to, cart.gen = w.carts[r.to].gen,
         r.kind = "address" => w.carts[r.to].address,
         r.kind = "shipping" => w.carts[r.to].shipping,
         r.kind = "payment" => w.carts[r.to].payment
  PROVE  /\ [r EXCEPT !.pc = "ok", !.cart = cart] \in Requests
         /\ ReqOk([r EXCEPT !.pc = "ok", !.cart = cart], ps, w)
<1>. DEFINE o == [r EXCEPT !.pc = "ok", !.cart = cart]
<1>1. /\ o \in Requests /\ o.page = r.page /\ o.kind = r.kind /\ o.from = r.from
      /\ o.to = r.to /\ o.moved = r.moved /\ o.cart = cart
  BY DEF Requests
<1>. HIDE DEF o
<1>2. Took(o, w)
  <2>1. o.cart.gen \in Nat /\ o.cart.gen <= w.carts[o.to].gen
    BY <1>1 DEF Keys
  <2>. QED BY <1>1, <2>1 DEF Took
<1>3. ReqOk(o, ps, w)
  BY <1>1, <1>2 DEF ReqOk, PollOk, StepOk
<1>. QED BY <1>1, <1>3 DEF o

\* What a served step leaves of the carts.
LEMMA CartWritten ==
  ASSUME Typed, NEW o \in Owners, NEW cart \in Carts, Follows(carts[o], cart),
         carts' = [carts EXCEPT ![o] = cart], UNCHANGED <<login, cookie, moves>>
  PROVE  World' \in Worlds /\ Evolves(World, World') /\ World'.carts[o] = cart
<1>1. World \in Worlds /\ moves \in Nat /\ carts \in [Owners -> Carts]
  BY DEF Typed, World, Worlds
<1>2. /\ carts' \in [Owners -> Carts] /\ carts'[o] = cart
      /\ \A p \in Owners : p # o => carts'[p] = carts[p]
  BY <1>1
<1>3. \A p \in Owners : Follows(carts[p], carts'[p])
  <2>1. \A p \in Owners : Follows(carts[p], carts[p])
    BY <1>1 DEF Follows, Carts
  <2>. QED BY <1>2, <2>1
<1>. QED BY <1>1, <1>2, <1>3 DEF World, Worlds, Evolves

LEMMA StepServeStep ==
  ASSUME IInv, NEW q \in Slots, ServeStep(q)
  PROVE  IInv'
<1>. DEFINE r == reqs[q]
            cart == CASE r.kind = "address"  -> [carts[r.to] EXCEPT !.address = TRUE]
                      [] r.kind = "shipping" -> [carts[r.to] EXCEPT !.shipping = TRUE]
                      [] OTHER               -> [carts[r.to] EXCEPT !.payment = TRUE]
<1>1. /\ r # Idle /\ r.kind # "order" /\ r.to # None
      /\ UNCHANGED <<pages, orders, login, cookie, moves>>
  BY DEF ServeStep, Sent
<1>2. /\ World \in Worlds /\ carts \in [Owners -> Carts]
      /\ reqs \in [Slots -> {Idle} \union Requests]
      /\ r \in Requests /\ ReqOk(r, pages, World) /\ r.to \in Owners
      /\ r.kind \in {"address", "shipping", "payment", "poll"}
      /\ carts[r.to] \in Carts /\ World.carts = carts
      /\ r.page \in Nat /\ r.page <= Len(pages)
  <2>1. r \in Requests /\ reqs \in [Slots -> {Idle} \union Requests] /\ ReqOk(r, pages, World)
        /\ r.page \in Nat /\ r.page <= Len(pages)
    BY <1>1, Served
  <2>2. r.to \in Owners /\ r.kind \in {"address", "shipping", "payment", "poll"}
    BY <1>1, <2>1 DEF Requests
  <2>3. World \in Worlds /\ carts \in [Owners -> Carts] /\ World.carts = carts
    BY DEF IInv, Typed, World, Worlds
  <2>. QED BY <2>1, <2>2, <2>3
<1>3. /\ cart \in Carts /\ Follows(carts[r.to], cart) /\ cart.gen = carts[r.to].gen
      /\ r.kind = "address" => cart.address
      /\ r.kind = "shipping" => cart.shipping
      /\ r.kind = "payment" => cart.payment
      /\ carts' = [carts EXCEPT ![r.to] = cart]
  <2>1. CASE r.kind = "address"
    <3>1. cart = [carts[r.to] EXCEPT !.address = TRUE]
      BY <2>1
    <3>2. cart.gen = carts[r.to].gen /\ cart.address
      BY <1>2, <3>1 DEF Carts
    <3>3. carts' = [carts EXCEPT ![r.to] = cart]
      BY <1>2, <2>1, <3>1 DEF ServeStep
    <3>. QED BY <1>2, <2>1, <3>1, <3>2, <3>3, CartSet
  <2>2. CASE r.kind = "shipping"
    <3>1. cart = [carts[r.to] EXCEPT !.shipping = TRUE]
      BY <2>2
    <3>2. cart.gen = carts[r.to].gen /\ cart.shipping
      BY <1>2, <3>1 DEF Carts
    <3>3. carts' = [carts EXCEPT ![r.to] = cart]
      BY <1>2, <2>2, <3>1 DEF ServeStep
    <3>. QED BY <1>2, <2>2, <3>1, <3>2, <3>3, CartSet
  <2>3. CASE r.kind \in {"payment", "poll"}
    <3>1. cart = [carts[r.to] EXCEPT !.payment = TRUE]
      BY <2>3
    <3>2. cart.gen = carts[r.to].gen /\ cart.payment
      BY <1>2, <3>1 DEF Carts
    <3>3. carts' = [carts EXCEPT ![r.to] = cart]
      BY <1>2, <2>3, <3>1 DEF ServeStep
    <3>. QED BY <1>2, <2>3, <3>1, <3>2, <3>3, CartSet
  <2>. QED BY <1>2, <2>1, <2>2, <2>3
<1>. HIDE DEF cart
<1>4. /\ World' \in Worlds /\ Evolves(World, World') /\ World'.carts[r.to] = cart
  BY <1>1, <1>2, <1>3, CartWritten DEF IInv
<1>5. ReqOk(r, pages, World')
  <2>1. r.page # 0 => pages[r.page] \in Pages /\ PageOk(pages[r.page], World)
    BY <1>2, Stack DEF IInv
  <2>. QED BY <1>2, <1>4, <2>1, ReqKept DEF Same
<1>. DEFINE key == KeyOf(r.to)
            o == [r EXCEPT !.pc = "ok", !.cart = key]
<1>6. key \in Keys /\ key.owner = r.to /\ key.gen = carts[r.to].gen
  BY <1>2 DEF KeyOf, Keys, Carts
<1>. HIDE DEF key
<1>7. o \in Requests /\ ReqOk(o, pages, World')
  <2>1. key.gen = World'.carts[r.to].gen
    BY <1>3, <1>4, <1>6
  <2>. HIDE DEF r
  <2>. QED BY <1>1, <1>2, <1>3, <1>4, <1>5, <1>6, <2>1, Accepted
<1>8. reqs' = [reqs EXCEPT ![q] = o]
  BY <1>2 DEF ServeStep, key
<1>. HIDE DEF o
<1>9. /\ reqs' \in [Slots -> {Idle} \union Requests] /\ reqs'[q] = o
      /\ \A s \in Slots : s # q => reqs'[s] = reqs[s]
  BY <1>2, <1>7, <1>8
<1>10. ReqOk(reqs'[q], pages', World')
  BY <1>1, <1>7, <1>9
<1>. QED BY <1>1, <1>4, <1>9, <1>10, Still

\* An order closes its cart.
LEMMA Closed ==
  ASSUME NEW c \in Carts
  PROVE  Unfilled(c.gen + 1) \in Carts /\ Follows(c, Unfilled(c.gen + 1))
<1>1. c.gen \in Nat
  BY DEF Carts
<1>2. Unfilled(c.gen + 1) \in Carts /\ Unfilled(c.gen + 1).gen = c.gen + 1
  BY <1>1 DEF Unfilled, Carts
<1>. QED BY <1>1, <1>2 DEF Follows

LEMMA StepServeOrder ==
  ASSUME IInv, NEW q \in Slots, ServeOrder(q)
  PROVE  IInv'
<1>. DEFINE r == reqs[q]
            cart == carts[r.to]
            key == KeyOf(r.to)
            o == [r EXCEPT !.pc = "ok", !.cart = key]
            order == [cart |-> key, from |-> r.from, moved |-> r.moved,
                      address |-> cart.address, shipping |-> cart.shipping,
                      payment |-> cart.payment]
<1>1. /\ r # Idle /\ r.kind = "order" /\ r.to # None
      /\ orders' = orders \union {order}
      /\ carts' = [carts EXCEPT ![r.to] = Unfilled(cart.gen + 1)]
      /\ UNCHANGED <<pages, login, cookie, moves>>
  BY DEF ServeOrder, Sent
<1>2. /\ World \in Worlds /\ carts \in [Owners -> Carts] /\ World.carts = carts
      /\ reqs \in [Slots -> {Idle} \union Requests]
      /\ r \in Requests /\ ReqOk(r, pages, World) /\ r.to \in Owners
      /\ cart \in Carts /\ r.page \in Nat /\ r.page <= Len(pages)
  <2>1. r \in Requests /\ reqs \in [Slots -> {Idle} \union Requests] /\ ReqOk(r, pages, World)
        /\ r.page \in Nat /\ r.page <= Len(pages)
    BY <1>1, Served
  <2>2. r.to \in Owners
    BY <1>1, <2>1 DEF Requests
  <2>3. World \in Worlds /\ carts \in [Owners -> Carts] /\ World.carts = carts
    BY DEF IInv, Typed, World, Worlds
  <2>. QED BY <2>1, <2>2, <2>3
<1>3. World' \in Worlds /\ Evolves(World, World')
  <2>1. Unfilled(cart.gen + 1) \in Carts /\ Follows(cart, Unfilled(cart.gen + 1))
    BY <1>2, Closed
  <2>. QED BY <1>1, <1>2, <2>1, CartWritten DEF IInv
<1>4. ReqOk(r, pages, World')
  <2>1. r.page # 0 => pages[r.page] \in Pages /\ PageOk(pages[r.page], World)
    BY <1>2, Stack DEF IInv
  <2>. QED BY <1>2, <1>3, <2>1, ReqKept DEF Same
<1>5. key \in Keys /\ key.owner = r.to /\ key.gen = cart.gen
  BY <1>2 DEF KeyOf, Keys, Carts
<1>6. reqs' = [reqs EXCEPT ![q] = o]
  BY <1>2 DEF ServeOrder
<1>7. /\ order.cart = key /\ order.from = r.from /\ order.moved = r.moved
      /\ order.address = cart.address /\ order.shipping = cart.shipping
      /\ order.payment = cart.payment
  OBVIOUS
<1>. HIDE DEF key, order
<1>8. o \in Requests /\ ReqOk(o, pages, World')
  <2>1. /\ o \in Requests /\ o.page = r.page /\ o.kind = r.kind /\ o.from = r.from
        /\ o.to = r.to /\ o.moved = r.moved
    BY <1>2, <1>5 DEF Requests
  <2>. HIDE DEF o
  <2>. QED BY <1>1, <1>4, <2>1 DEF ReqOk, StepOk, OrderOk
<1>. HIDE DEF o
<1>9. /\ reqs' \in [Slots -> {Idle} \union Requests] /\ reqs'[q] = o
      /\ \A s \in Slots : s # q => reqs'[s] = reqs[s]
  BY <1>2, <1>6, <1>8
<1>10. OrderOk(r, World) /\ r.from.kind = "receipt"
  BY <1>1, <1>2 DEF ReqOk, StepOk, Source
<1>11. ~order.moved =>
         /\ order.from.by.owner = order.cart.owner
         /\ order.from.shows # None => order.from.shows.owner = order.cart.owner
  BY <1>1, <1>5, <1>7, <1>10 DEF OrderOk
<1>12. ~order.moved /\ order.from.by = order.cart =>
         order.address /\ order.payment /\ (order.shipping \/ order.from.skipped)
  <2>. SUFFICES ASSUME ~r.moved, r.from.by = key
       PROVE  cart.address /\ cart.payment /\ (cart.shipping \/ r.from.skipped)
    BY <1>7
  <2>1. Saved(r.from, carts[r.from.by.owner])
    BY <1>2, <1>5, <1>10 DEF OrderOk
  <2>. QED BY <1>5, <1>10, <2>1 DEF Saved
<1>13. WizardCompletes' /\ OrderedAsShown'
  BY <1>1, <1>11, <1>12 DEF IInv, WizardCompletes, OrderedAsShown
<1>14. /\ pages' \in Seq(Pages) /\ Len(pages') = Len(pages) /\ Len(pages) \in Nat
       /\ pages' = pages
  BY <1>1, Stack DEF IInv
<1>15. ReqOk(reqs'[q], pages', World')
  BY <1>1, <1>8, <1>9
<1>. HIDE DEF IInv, r, cart
<1>. QED BY <1>3, <1>9, <1>13, <1>14, <1>15, Grow

-----------------------------------------------------------------------------
(* The actions: answers                                                    *)

\* A handler ends, and the error page, the page it goes on to, or both are
\* pushed.
LEMMA Finished ==
  ASSUME IInv, NEW q \in Slots, NEW goes \in BOOLEAN, NEW page, Finish(q, goes, page),
         goes => page \in Pages /\ PageOk(page, World),
         UNCHANGED <<orders, carts, login, cookie, moves>>
  PROVE  IInv'
<1>. DEFINE ps == WithError(q)
            error == Plain("error")
<1>1. /\ World' = World /\ World' \in Worlds /\ Evolves(World, World')
      /\ pages \in Seq(Pages) /\ Len(pages) \in Nat
      /\ reqs \in [Slots -> {Idle} \union Requests]
      /\ error \in Pages /\ PageOk(error, World)
  BY WorldKept, Stack, PlainPage DEF IInv, Typed
<1>2. reqs' = [reqs EXCEPT ![q] = Idle]
      /\ (pages' = ps \/ (goes /\ pages' = Append(ps, page)))
      /\ (ps = pages \/ ps = Append(pages, error))
  BY DEF Finish, WithError
<1>. HIDE DEF ps, error
<1>3. /\ ps \in Seq(Pages) /\ Len(ps) \in Nat /\ Len(pages) <= Len(ps)
      /\ \A k \in 1..Len(pages) : ps[k] = pages[k]
      /\ \A k \in (Len(pages) + 1)..Len(ps) : PageOk(ps[k], World)
  <2>1. CASE ps = pages
    BY <1>1, <2>1
  <2>2. CASE ps = Append(pages, error)
    BY <1>1, <2>2
  <2>. QED BY <1>2, <2>1, <2>2
<1>4. /\ pages' \in Seq(Pages) /\ Len(pages) <= Len(pages')
      /\ \A k \in 1..Len(pages) : pages'[k] = pages[k]
      /\ \A k \in (Len(pages) + 1)..Len(pages') : PageOk(pages'[k], World')
  <2>1. CASE pages' = ps
    BY <1>1, <1>3, <2>1
  <2>2. CASE goes /\ pages' = Append(ps, page)
    <3>1. /\ pages' \in Seq(Pages) /\ Len(pages') = Len(ps) + 1
          /\ \A k \in 1..Len(ps) : pages'[k] = ps[k]
          /\ pages'[Len(ps) + 1] = page /\ PageOk(page, World)
      BY <1>3, <2>2
    <3>2. ASSUME NEW k \in (Len(pages) + 1)..Len(pages') PROVE PageOk(pages'[k], World')
      <4>1. k \in (Len(pages) + 1)..Len(ps) \/ k = Len(ps) + 1
        BY <1>1, <1>3, <3>1
      <4>2. k \in (Len(pages) + 1)..Len(ps) => k \in 1..Len(ps)
        BY <1>1, <1>3
      <4>. QED BY <1>1, <1>3, <3>1, <4>1, <4>2
    <3>3. \A k \in 1..Len(pages) : k \in 1..Len(ps)
      BY <1>1, <1>3
    <3>. QED BY <1>1, <1>3, <3>1, <3>2, <3>3
  <2>. QED BY <1>2, <2>1, <2>2
<1>5. /\ reqs' \in [Slots -> {Idle} \union Requests]
      /\ \A s \in Slots : reqs'[s] = Idle \/ reqs'[s] = reqs[s]
  BY <1>1, <1>2
<1>6. WizardCompletes' /\ OrderedAsShown'
  BY DEF IInv, WizardCompletes, OrderedAsShown
<1>. HIDE DEF IInv
<1>. QED BY <1>1, <1>4, <1>5, <1>6, Grow

LEMMA StepAnswerAddress ==
  ASSUME IInv, NEW q \in Slots, AnswerAddress(q)
  PROVE  IInv'
<1>. DEFINE r == reqs[q]
            page == [r.from EXCEPT !.kind = "shipping", !.by = r.cart]
<1>1. /\ r # Idle /\ r.kind = "address" /\ Finish(q, r.pc = "ok", page)
      /\ UNCHANGED <<orders, carts, login, cookie, moves>>
  BY DEF AnswerAddress, Answered
<1>2. /\ r \in Requests /\ r.from \in Pages /\ r.cart \in Keys \union {None}
      /\ PageOk(r.from, World) /\ r.from.kind = "address" /\ StepOk(r, World)
  BY <1>1, Served DEF ReqOk, StepOk, Source, Requests
<1>3. ASSUME r.pc = "ok" PROVE page \in Pages /\ PageOk(page, World)
  <2>1. /\ page \in Pages /\ page.kind = "shipping" /\ page.guest = r.from.guest
        /\ page.by = r.cart /\ page.shows = r.from.shows /\ page.since = r.from.since
    BY <1>2 DEF Pages
  <2>2. Took(r, World) /\ (r.from.since = World.moves => r.to = Identity(r.from.guest, World))
    <3>1. Took(r, World) /\ r.to # None
      BY <1>1, <1>2, <1>3, Owned DEF StepOk, Took
    <3>. QED BY <1>1, <1>2, <3>1 DEF StepOk
  <2>. HIDE DEF page, r
  <2>3. /\ page.by \in Keys /\ page.by.owner = r.to
        /\ page.by.gen <= World.carts[page.by.owner].gen
        /\ World.carts[page.by.owner].gen = page.by.gen => Saved(page, World.carts[page.by.owner])
    BY <1>1, <2>1, <2>2 DEF Took, Saved
  <2>. QED BY <1>2, <2>1, <2>2, <2>3 DEF PageOk, Stepped
<1>. HIDE DEF page
<1>. QED BY <1>1, <1>3, Finished

LEMMA StepAnswerShipping ==
  ASSUME IInv, NEW q \in Slots, AnswerShipping(q)
  PROVE  IInv'
<1>. DEFINE r == reqs[q]
            page == [r.from EXCEPT !.kind = "payment", !.skipped = r.pc # "ok"]
<1>1. /\ r # Idle /\ r.kind = "shipping" /\ Finish(q, TRUE, page)
      /\ UNCHANGED <<orders, carts, login, cookie, moves>>
  BY DEF AnswerShipping, Answered
<1>2. /\ r \in Requests /\ r.from \in Pages
      /\ PageOk(r.from, World) /\ r.from.kind = "shipping" /\ StepOk(r, World)
  BY <1>1, Served DEF ReqOk, StepOk, Source, Requests
<1>3. /\ page \in Pages /\ page.kind = "payment" /\ page.guest = r.from.guest
      /\ page.by = r.from.by /\ page.shows = r.from.shows /\ page.since = r.from.since
      /\ page.skipped = (r.pc # "ok")
  <2>1. \A b \in BOOLEAN : LET p == [r.from EXCEPT !.kind = "payment", !.skipped = b] IN
          /\ p \in Pages /\ p.kind = "payment" /\ p.guest = r.from.guest
          /\ p.by = r.from.by /\ p.shows = r.from.shows /\ p.since = r.from.since
          /\ p.skipped = b
    BY <1>2 DEF Pages
  <2>2. (r.pc # "ok") \in BOOLEAN
    OBVIOUS
  <2>. QED BY <2>1, <2>2
<1>. HIDE DEF page, r
<1>4. /\ r.from.by \in Keys /\ r.from.by.gen <= World.carts[r.from.by.owner].gen
      /\ r.from.since = World.moves =>
           /\ r.from.by.owner = Identity(r.from.guest, World)
           /\ World.carts[r.from.by.owner].gen = r.from.by.gen =>
                World.carts[r.from.by.owner].address
  BY <1>2 DEF PageOk, Stepped, Saved
<1>5. ASSUME r.from.since = World.moves, r.pc = "ok",
             World.carts[r.from.by.owner].gen = r.from.by.gen
      PROVE  World.carts[r.from.by.owner].shipping
  <2>1. Took(r, World) /\ r.to # None
    BY <1>1, <1>2, <1>5, Owned DEF StepOk, Took
  <2>2. r.to = r.from.by.owner
    BY <1>1, <1>2, <1>4, <1>5, <2>1 DEF StepOk
  <2>. QED BY <1>1, <1>2, <1>5, <2>1, <2>2 DEF Took, Stepped
<1>6. PageOk(page, World)
  BY <1>2, <1>3, <1>4, <1>5 DEF PageOk, Stepped, Saved
<1>. QED BY <1>1, <1>3, <1>6, Finished DEF r

LEMMA StepAnswerPayment ==
  ASSUME IInv, NEW q \in Slots, AnswerPayment(q)
  PROVE  IInv'
<1>. DEFINE r == reqs[q]
            receipt == [r.from EXCEPT !.kind = "receipt"]
            page == IF r.from.guest THEN [receipt EXCEPT !.shows = r.cart] ELSE receipt
<1>1. /\ r # Idle /\ r.kind = "payment" /\ Finish(q, r.pc = "ok", page)
      /\ UNCHANGED <<orders, carts, login, cookie, moves>>
  BY DEF AnswerPayment, Answered
<1>2. /\ r \in Requests /\ r.from \in Pages /\ r.cart \in Keys \union {None}
      /\ PageOk(r.from, World) /\ r.from.kind = "payment" /\ StepOk(r, World)
  BY <1>1, Served DEF ReqOk, StepOk, Source, Requests
<1>3. /\ page \in Pages /\ page.kind = "receipt" /\ page.guest = r.from.guest
      /\ page.by = r.from.by /\ page.skipped = r.from.skipped /\ page.since = r.from.since
      /\ page.shows = r.from.shows \/ page.shows = r.cart
  <2>1. /\ receipt \in Pages /\ receipt.kind = "receipt" /\ receipt.guest = r.from.guest
        /\ receipt.by = r.from.by /\ receipt.skipped = r.from.skipped
        /\ receipt.since = r.from.since /\ receipt.shows = r.from.shows
    BY <1>2 DEF Pages
  <2>. HIDE DEF receipt
  <2>2. LET p == [receipt EXCEPT !.shows = r.cart] IN
          /\ p \in Pages /\ p.kind = "receipt" /\ p.guest = r.from.guest
          /\ p.by = r.from.by /\ p.skipped = r.from.skipped /\ p.since = r.from.since
          /\ p.shows = r.cart
    BY <1>2, <2>1 DEF Pages
  <2>. QED BY <2>1, <2>2
<1>. HIDE DEF page, r
<1>4. /\ r.from.by \in Keys /\ r.from.by.gen <= World.carts[r.from.by.owner].gen
      /\ r.from.since = World.moves =>
           /\ r.from.by.owner = Identity(r.from.guest, World)
           /\ World.carts[r.from.by.owner].gen = r.from.by.gen =>
                /\ World.carts[r.from.by.owner].address
                /\ World.carts[r.from.by.owner].shipping \/ r.from.skipped
  BY <1>2 DEF PageOk, Stepped, Saved
<1>5. ASSUME r.pc = "ok" PROVE PageOk(page, World)
  <2>1. Took(r, World) /\ r.to # None /\ r.cart.owner = r.to
    BY <1>1, <1>2, <1>5, Owned DEF StepOk, Took
  <2>2. r.from.since = World.moves => r.to = Identity(r.from.guest, World)
    BY <1>1, <1>2, <2>1 DEF StepOk
  <2>3. ASSUME r.from.since = World.moves, World.carts[r.from.by.owner].gen = r.from.by.gen
        PROVE  World.carts[r.from.by.owner].payment
    <3>1. r.to = r.from.by.owner
      BY <1>4, <2>2, <2>3
    <3>. QED BY <1>1, <1>2, <2>1, <2>3, <3>1 DEF Took, Stepped
  <2>4. page.shows # None /\ page.since = World.moves =>
          page.shows.owner = Identity(page.guest, World)
    BY <1>2, <1>3, <2>1, <2>2 DEF PageOk
  <2>. QED BY <1>2, <1>3, <1>4, <2>3, <2>4 DEF PageOk, Stepped, Saved
<1>. QED BY <1>1, <1>3, <1>5, Finished DEF r

LEMMA StepAnswerPoll ==
  ASSUME IInv, NEW q \in Slots, AnswerPoll(q)
  PROVE  IInv'
<1>. DEFINE r == reqs[q]
            page == [pages[r.page] EXCEPT !.shows = r.cart]
<1>1. /\ r # Idle /\ r.kind = "poll" /\ reqs' = [reqs EXCEPT ![q] = Idle]
      /\ UNCHANGED <<orders, carts, login, cookie, moves>>
  BY DEF AnswerPoll, Answered
<1>2. /\ reqs \in [Slots -> {Idle} \union Requests]
      /\ r \in Requests /\ r.cart \in Keys \union {None} /\ PollOk(r, pages, World)
      /\ r.page \in Nat /\ r.page <= Len(pages) /\ Len(pages) \in Nat
  BY <1>1, Served, Stack DEF ReqOk, Requests, IInv
<1>3. CASE r.pc = "ok" /\ r.page # 0
  <2>1. /\ r.page \in 1..Len(pages) /\ pages[r.page] \in Pages /\ PageOk(pages[r.page], World)
    BY <1>2, <1>3, Stack DEF IInv
  <2>2. /\ pages[r.page].kind = "receipt" /\ ~pages[r.page].guest
        /\ pages[r.page].since = World.moves /\ r.to # None => r.to = World.login
        /\ r.to \in Owners /\ r.cart.owner = r.to
    BY <1>2, <1>3 DEF PollOk
  <2>3. /\ page \in Pages /\ page.kind = pages[r.page].kind
        /\ page.guest = pages[r.page].guest /\ page.by = pages[r.page].by
        /\ page.skipped = pages[r.page].skipped /\ page.since = pages[r.page].since
        /\ page.shows = r.cart
    BY <1>2, <2>1 DEF Pages
  <2>4. pages' = [pages EXCEPT ![r.page] = page]
    BY <1>2, <1>3, <2>1 DEF AnswerPoll
  <2>. HIDE DEF page
  <2>5. page.shows # None /\ page.since = World.moves =>
          page.shows.owner = Identity(page.guest, World)
    BY <2>2, <2>3, Owned DEF Identity
  <2>6. PageOk(page, World) /\ Same(pages[r.page], page)
    BY <2>1, <2>3, <2>5 DEF PageOk, Same, Saved
  <2>7. /\ reqs' \in [Slots -> {Idle} \union Requests]
        /\ \A s \in Slots : reqs'[s] = Idle \/ reqs'[s] = reqs[s]
    BY <1>1, <1>2
  <2>. HIDE DEF r
  <2>. QED BY <1>1, <2>1, <2>3, <2>4, <2>6, <2>7, WriteOk
<1>4. CASE ~(r.pc = "ok" /\ r.page # 0)
  <2>1. Finish(q, FALSE, Home)
    BY <1>1, <1>4 DEF AnswerPoll, Finish
  <2>. QED BY <1>1, <2>1, Finished
<1>. QED BY <1>3, <1>4

LEMMA StepAnswerOrder ==
  ASSUME IInv, NEW q \in Slots, AnswerOrder(q)
  PROVE  IInv'
<1>. DEFINE page == Fresh("success", reqs[q].from.guest)
<1>1. /\ reqs[q] # Idle /\ Finish(q, reqs[q].pc = "ok", page)
      /\ UNCHANGED <<orders, carts, login, cookie, moves>>
  BY DEF AnswerOrder, Answered
<1>2. reqs[q].from.guest \in BOOLEAN
  BY <1>1, Served DEF Requests, Pages
<1>3. /\ page \in Pages /\ page.kind = "success" /\ page.since = moves /\ page.shows = None
  BY <1>2, FreshFacts DEF IInv
<1>. HIDE DEF page
<1>4. PageOk(page, World)
  BY <1>3, PlainOk DEF IInv, Typed, World, Stepped
<1>. QED BY <1>1, <1>3, <1>4, Finished

-----------------------------------------------------------------------------
(* The theorems                                                            *)

LEMMA StepInv == IInv /\ [Next]_vars => IInv'
<1>. SUFFICES ASSUME IInv, [Next]_vars PROVE IInv'
  OBVIOUS
<1>1. CASE UNCHANGED vars
  <2>1. /\ UNCHANGED <<pages, reqs, orders, carts, login, cookie, moves>>
        /\ reqs' \in [Slots -> {Idle} \union Requests]
    BY <1>1 DEF vars, IInv, Typed
  <2>. QED BY <2>1, WorldKept, Still DEF IInv
<1>2. CASE TapCheckOut \/ Back \/ GoHome \/ AddGoods \/ OpenSignIn
  BY <1>2, StepCheckOut, StepBack, StepGoHome, StepAddGoods, StepOpenSignIn
<1>3. ASSUME NEW u \in Users, SignIn(u) PROVE IInv'
  BY <1>3, StepSignIn
<1>4. ASSUME NEW i \in DOMAIN pages, Rearm(i) PROVE IInv'
  BY <1>4, StepRearm
<1>5. ASSUME NEW q \in Slots,
             TapAddress(q) \/ TapShipping(q) \/ TapCash(q) \/ TapOrder(q) \/ Poll(q)
      PROVE  IInv'
  BY <1>5, StepTapAddress, StepTapShipping, StepTapCash, StepTapOrder, StepPoll
<1>6. ASSUME NEW q \in Slots,
             ServeStep(q) \/ ServeOrder(q) \/ ServeError(q) \/ Lose(q)
      PROVE  IInv'
  BY <1>6, StepServeStep, StepServeOrder, StepServeError, StepLose
<1>7. ASSUME NEW q \in Slots,
             \/ AnswerAddress(q) \/ AnswerShipping(q) \/ AnswerPayment(q)
             \/ AnswerPoll(q) \/ AnswerOrder(q)
      PROVE  IInv'
  BY <1>7, StepAnswerAddress, StepAnswerShipping, StepAnswerPayment, StepAnswerPoll,
     StepAnswerOrder
<1>. QED BY <1>1, <1>2, <1>3, <1>4, <1>5, <1>6, <1>7 DEF Next

\* The pages of every walk, and the requests between them, carry the cart the
\* walk began with, and have what they promise saved for it.
THEOREM Invariant == Spec => []IInv
  BY InitInv, StepInv, PTL DEF Spec

\* An order of the cart the walk began with has its address and its payment
\* method, and its shipping method too unless saving it failed, as long as
\* nobody signed in or out: for any number of taps, walks and answers that
\* overlap, although the shop asks for no order of the steps.
THEOREM OrdersAreComplete == Spec => []WizardCompletes
<1>1. IInv => WizardCompletes
  BY DEF IInv
<1>. QED BY <1>1, Invariant, PTL

\* SaveOrder takes its identity from the token first and from the cookie
\* then, the steps take theirs from the page they are on: the two agree as
\* long as nobody signed in or out, so the cart that is ordered is the
\* owner's whom the receipt showed.
THEOREM OrdersAreAsShown == Spec => []OrderedAsShown
<1>1. IInv => OrderedAsShown
  BY DEF IInv
<1>. QED BY <1>1, Invariant, PTL

-----------------------------------------------------------------------------
(* Nobody pays who did not choose to                                       *)

Chose(o, cs, choices) == cs[o].gen = 0 => [owner |-> o, gen |-> 0] \in choices

Choice == {"payment", "poll"}

\* A timer of a customer's receipt runs.
Polls(ps, left) == left \/ \E k \in 1..Len(ps) : ps[k].kind = "receipt" /\ ~ps[k].guest

\* Whoever's choice is being saved, has made it.
ChoiceInv ==
  moves = 0 =>
    /\ \A o \in Owners : carts[o].payment => Chose(o, carts, chosen)
    /\ \A q \in Slots : reqs[q] # Idle /\ reqs[q].kind \in Choice /\ reqs[q].to # None
                          => Chose(reqs[q].to, carts, chosen)
    /\ Polls(pages, orphans) /\ login # None => Chose(login, carts, chosen)

\* What a step may do.
LEMMA ChoiceKept ==
  ASSUME IInv, ChoiceInv,
         moves' = 0 => moves = 0 /\ login' = login,
         \A o \in Owners : carts'[o].gen = 0 => carts[o].gen = 0, chosen \subseteq chosen',
         \A o \in Owners : carts'[o].payment =>
           carts[o].payment \/ moves # 0 \/ Chose(o, carts', chosen'),
         \A q \in Slots :
           \/ reqs'[q] = Idle
           \/ /\ reqs[q] # Idle
              /\ reqs'[q].kind = reqs[q].kind /\ reqs'[q].to = reqs[q].to
           \/ reqs'[q].kind \notin Choice
           \/ reqs'[q].to # None /\ moves = 0 => Chose(reqs'[q].to, carts', chosen'),
         Polls(pages', orphans') =>
           \/ Polls(pages, orphans)
           \/ login # None /\ moves = 0 => Chose(login, carts', chosen')
  PROVE  ChoiceInv'
<1>. SUFFICES ASSUME moves' = 0
     PROVE  /\ \A o \in Owners : carts'[o].payment => Chose(o, carts', chosen')
            /\ \A q \in Slots :
                 reqs'[q] # Idle /\ reqs'[q].kind \in Choice /\ reqs'[q].to # None
                   => Chose(reqs'[q].to, carts', chosen')
            /\ Polls(pages', orphans') /\ login' # None => Chose(login', carts', chosen')
  BY Zenon DEF ChoiceInv
<1>1. moves = 0 /\ login' = login /\ (login # None => login \in Owners)
  BY Owned DEF IInv, Typed, World, Worlds
<1>2. \A o \in Owners : Chose(o, carts, chosen) => Chose(o, carts', chosen')
  BY DEF Chose
<1>3. \A o \in Owners : carts'[o].payment => Chose(o, carts', chosen')
  BY <1>1, <1>2 DEF ChoiceInv
<1>4. Polls(pages', orphans') /\ login' # None => Chose(login', carts', chosen')
  BY <1>1, <1>2 DEF ChoiceInv
<1>5. ASSUME NEW q \in Slots, reqs'[q] # Idle, reqs'[q].kind \in Choice, reqs'[q].to # None
      PROVE  Chose(reqs'[q].to, carts', chosen')
  <2>1. CASE /\ reqs[q] # Idle
             /\ reqs'[q].kind = reqs[q].kind /\ reqs'[q].to = reqs[q].to
    <3>1. reqs[q].to \in Owners
      BY <1>5, <2>1, Served DEF Requests
    <3>2. Chose(reqs[q].to, carts, chosen)
      BY <1>1, <1>5, <2>1 DEF ChoiceInv
    <3>. QED BY <1>2, <2>1, <3>1, <3>2
  <2>. QED BY <1>1, <1>5, <2>1
<1>. QED BY <1>3, <1>4, <1>5

\* Steps that leave the carts alone.
LEMMA ChoiceStays ==
  ASSUME IInv, ChoiceInv, UNCHANGED <<carts, chosen>>,
         moves' = 0 => moves = 0 /\ login' = login,
         \A q \in Slots :
           \/ reqs'[q] = Idle
           \/ /\ reqs[q] # Idle
              /\ reqs'[q].kind = reqs[q].kind /\ reqs'[q].to = reqs[q].to
           \/ reqs'[q].kind \notin Choice,
         Polls(pages', orphans') => Polls(pages, orphans)
  PROVE  ChoiceInv'
<1>1. \A o \in Owners : carts'[o].gen = 0 => carts[o].gen = 0
  OBVIOUS
<1>2. \A o \in Owners : carts'[o].payment => carts[o].payment
  OBVIOUS
<1>. HIDE DEF IInv, ChoiceInv
<1>. QED BY <1>1, <1>2, ChoiceKept

LEMMA PollsAppend ==
  ASSUME NEW ps \in Seq(Pages), NEW p \in Pages, NEW left,
         Polls(Append(ps, p), left)
  PROVE  Polls(ps, left) \/ (p.kind = "receipt" /\ ~p.guest)
<1>1. /\ Len(ps) \in Nat /\ Len(Append(ps, p)) = Len(ps) + 1
      /\ Append(ps, p)[Len(ps) + 1] = p
      /\ \A k \in 1..Len(ps) : Append(ps, p)[k] = ps[k]
  OBVIOUS
<1>2. \A k \in 1..(Len(ps) + 1) : k \in 1..Len(ps) \/ k = Len(ps) + 1
  BY <1>1
<1>. QED BY <1>1, <1>2 DEF Polls

LEMMA PollsWrite ==
  ASSUME Typed, NEW k \in 1..Len(pages), NEW p \in Pages, pages' = [pages EXCEPT ![k] = p],
         p.kind # "receipt" \/ (p.kind = pages[k].kind /\ p.guest = pages[k].guest),
         NEW left
  PROVE  Polls(pages', left) => Polls(pages, left)
<1>1. /\ Len(pages') = Len(pages) /\ pages'[k] = p
      /\ \A i \in 1..Len(pages) : i # k => pages'[i] = pages[i]
  BY Written
<1>. QED BY <1>1 DEF Polls

LEMMA PollsFinish ==
  ASSUME IInv, NEW q \in Slots, NEW goes \in BOOLEAN, NEW page, Finish(q, goes, page),
         goes => page \in Pages, NEW left, Polls(pages', left)
  PROVE  Polls(pages, left) \/ (goes /\ page.kind = "receipt" /\ ~page.guest)
<1>1. /\ pages \in Seq(Pages) /\ Plain("error") \in Pages /\ Plain("error").kind = "error"
  BY Stack, FreshFacts DEF IInv
<1>2. /\ WithError(q) \in Seq(Pages)
      /\ Polls(WithError(q), left) => Polls(pages, left)
  <2>1. CASE WithError(q) = pages
    BY <1>1, <2>1
  <2>2. CASE WithError(q) = Append(pages, Plain("error"))
    <3>1. Append(pages, Plain("error")) \in Seq(Pages)
      BY <1>1
    <3>2. Polls(Append(pages, Plain("error")), left) => Polls(pages, left)
      BY <1>1, PollsAppend
    <3>. QED BY <2>2, <3>1, <3>2
  <2>. QED BY <2>1, <2>2 DEF WithError
<1>3. pages' = WithError(q) \/ (goes /\ pages' = Append(WithError(q), page))
  BY DEF Finish
<1>. QED BY <1>2, <1>3, PollsAppend

LEMMA ChoiceNavigation ==
  ASSUME IInv, ChoiceInv,
         \/ TapCheckOut \/ GoHome \/ OpenSignIn \/ Back
         \/ \E u \in Users : SignIn(u)
         \/ \E i \in DOMAIN pages : Rearm(i)
  PROVE  ChoiceInv'
<1>1. /\ moves \in Nat /\ pages \in Seq(Pages) /\ Len(pages) \in Nat \ {0}
      /\ DOMAIN pages = 1..Len(pages) /\ Depth = Len(pages)
      /\ \A k \in 1..Len(pages) : pages[k] \in Pages
      /\ Top = pages[Len(pages)]
      /\ reqs \in [Slots -> {Idle} \union Requests]
  BY Stack DEF IInv, Typed, World, Worlds
<1>2. /\ Home \in Pages /\ Home.kind = "home"
      /\ Plain("signin") \in Pages /\ Plain("signin").kind = "signin"
      /\ Fresh("address", login = None) \in Pages /\ Fresh("address", login = None).kind = "address"
  BY FreshFacts DEF IInv, Home
<1>3. UNCHANGED <<carts, chosen>> /\ (moves' = 0 => moves = 0 /\ login' = login)
  BY <1>1 DEF TapCheckOut, GoHome, OpenSignIn, Back, SignIn, Rearm
<1>4. \A q \in Slots :
        \/ reqs'[q] = Idle
        \/ /\ reqs[q] # Idle
           /\ reqs'[q].kind = reqs[q].kind /\ reqs'[q].to = reqs[q].to
  <2>1. CASE Back
    <3>. SUFFICES ASSUME NEW q \in Slots, reqs[q] # Idle
         PROVE  reqs'[q].kind = reqs[q].kind /\ reqs'[q].to = reqs[q].to
      BY <2>1 DEF Back
    <3>1. reqs[q] \in Requests
      BY <1>1
    <3>2. reqs'[q] = [reqs[q] EXCEPT !.page = 0] \/ reqs'[q] = reqs[q]
      BY <2>1 DEF Back
    <3>. QED BY <3>1, <3>2 DEF Requests
  <2>2. CASE UNCHANGED reqs
    BY <2>2
  <2>. QED BY <2>1, <2>2 DEF TapCheckOut, GoHome, OpenSignIn, SignIn, Rearm
<1>5. Polls(pages', orphans') => Polls(pages, orphans)
  <2>1. CASE \E p \in {Home, Plain("signin"), Fresh("address", login = None)} :
               pages' = Append(pages, p) /\ orphans' = orphans
    BY <1>1, <1>2, <2>1, PollsAppend
  <2>2. CASE pages' = [pages EXCEPT ![Len(pages)] = Home] /\ orphans' = orphans
    <3>1. Len(pages) \in 1..Len(pages)
      BY <1>1
    <3>2. Polls(pages', orphans) => Polls(pages, orphans)
      BY <1>2, <2>2, <3>1, PollsWrite DEF IInv
    <3>. QED BY <2>2, <3>2
  <2>3. ASSUME NEW i \in DOMAIN pages, Rearm(i)
        PROVE  Polls(pages', orphans') => Polls(pages, orphans)
    <3>. DEFINE p == [pages[i] EXCEPT !.onPressedValue = TRUE]
    <3>1. p \in Pages /\ p.kind = pages[i].kind /\ p.guest = pages[i].guest
      BY <1>1 DEF Pages
    <3>2. pages' = [pages EXCEPT ![i] = p] /\ orphans' = orphans
      BY <2>3 DEF Rearm
    <3>. HIDE DEF p
    <3>. QED BY <1>1, <3>1, <3>2, PollsWrite DEF IInv
  <2>4. CASE Back
    <3>1. /\ Len(pages') = Len(pages) - 1
          /\ \A k \in 1..(Len(pages) - 1) : pages'[k] = pages[k]
      BY <1>1, <2>4 DEF Back, Front
    <3>2. orphans' => orphans \/ (Top.kind = "receipt" /\ ~Top.guest)
      BY <2>4, Zenon DEF Back
    <3>3. Len(pages) \in 1..Len(pages)
          /\ \A k \in 1..(Len(pages) - 1) : k \in 1..Len(pages)
      BY <1>1
    <3>4. ASSUME orphans' PROVE Polls(pages, orphans)
      BY <1>1, <3>2, <3>3, <3>4, Zenon DEF Polls
    <3>5. ASSUME NEW k \in 1..Len(pages'), pages'[k].kind = "receipt", ~pages'[k].guest
          PROVE  Polls(pages, orphans)
      <4>1. k \in 1..(Len(pages) - 1) /\ k \in 1..Len(pages) /\ pages'[k] = pages[k]
        BY <3>1, <3>3
      <4>. QED BY <3>5, <4>1, Zenon DEF Polls
    <3>. QED BY <3>4, <3>5, Zenon DEF Polls
  <2>. QED BY <1>1, <2>1, <2>2, <2>3, <2>4 DEF TapCheckOut, GoHome, OpenSignIn, SignIn, Push
<1>. HIDE DEF IInv, ChoiceInv
<1>. QED BY <1>3, <1>4, <1>5, ChoiceStays

LEMMA AskedFor ==
  ASSUME Typed, NEW q \in Slots, NEW kind, NEW page, NEW from, NEW to,
         Ask(q, kind, page, from, to)
  PROVE  /\ reqs'[q].kind = kind /\ reqs'[q].to = to
         /\ \A s \in Slots : s # q => reqs'[s] = reqs[s]
<1>. DEFINE r == [pc |-> "sent", kind |-> kind, page |-> page, from |-> from,
                  to |-> to, moved |-> moves # from.since, cart |-> None]
<1>1. reqs' = [reqs EXCEPT ![q] = r] /\ reqs \in [Slots -> {Idle} \union Requests]
  BY DEF Ask, Typed
<1>2. r.kind = kind /\ r.to = to
  OBVIOUS
<1>. HIDE DEF r
<1>. QED BY <1>1, <1>2

LEMMA ChoiceTaps ==
  ASSUME IInv, ChoiceInv, NEW q \in Slots,
         TapAddress(q) \/ TapShipping(q) \/ TapOrder(q)
  PROVE  ChoiceInv'
<1>1. /\ Len(pages) \in 1..Len(pages) /\ Depth = Len(pages) /\ Top = pages[Len(pages)]
      /\ Top \in Pages
  BY Stack DEF IInv
<1>2. UNCHANGED <<carts, chosen, moves, login, orphans>>
  BY DEF TapAddress, TapShipping, TapOrder
<1>3. PICK kind \in {"address", "shipping", "order"} :
        \E to : Ask(q, kind, Depth, Top, to)
  BY DEF TapAddress, TapShipping, TapOrder
<1>4. /\ reqs'[q].kind \notin Choice
      /\ \A s \in Slots : s # q => reqs'[s] = reqs[s]
  BY <1>3, AskedFor DEF IInv, Choice
<1>5. Polls(pages', orphans') => Polls(pages, orphans)
  <2>1. \A b \in BOOLEAN : LET p == [Top EXCEPT !.onPressedValue = b] IN
          p \in Pages /\ p.kind = Top.kind /\ p.guest = Top.guest
    BY <1>1 DEF Pages
  <2>2. (~Top.guest) \in BOOLEAN
    BY <1>1 DEF Pages
  <2>3. \/ pages' = pages
        \/ \E b \in BOOLEAN :
             pages' = [pages EXCEPT ![Len(pages)] = [Top EXCEPT !.onPressedValue = b]]
    BY <1>1, <2>2 DEF TapAddress, TapShipping, TapOrder
  <2>4. CASE pages' = pages
    BY <1>2, <2>4
  <2>5. ASSUME NEW p \in Pages, p.kind = Top.kind, p.guest = Top.guest,
               pages' = [pages EXCEPT ![Len(pages)] = p]
        PROVE  Polls(pages', orphans) => Polls(pages, orphans)
    <3>1. p.kind = pages[Len(pages)].kind /\ p.guest = pages[Len(pages)].guest
      BY <1>1, <2>5
    <3>. QED BY <1>1, <2>5, <3>1, PollsWrite DEF IInv
  <2>. QED BY <1>2, <2>1, <2>3, <2>4, <2>5
<1>6. \A s \in Slots : \/ reqs'[s] = Idle
                       \/ /\ reqs[s] # Idle
                          /\ reqs'[s].kind = reqs[s].kind /\ reqs'[s].to = reqs[s].to
                       \/ reqs'[s].kind \notin Choice
  BY <1>4
<1>. HIDE DEF IInv, ChoiceInv
<1>. QED BY <1>2, <1>5, <1>6, ChoiceStays

LEMMA ChoiceTapCash ==
  ASSUME IInv, ChoiceInv, NEW q \in Slots, TapCash(q)
  PROVE  ChoiceInv'
<1>. DEFINE to == StepIdentity(Top.guest)
<1>1. /\ Ask(q, "payment", Depth, Top, to)
      /\ chosen' = chosen \union {KeyOf(o) : o \in {to} \ {None}}
      /\ UNCHANGED <<carts, pages, orphans, moves, login>>
  BY DEF TapCash
<1>. HIDE DEF to
<1>2. /\ reqs'[q].to = to
      /\ \A s \in Slots : s # q => reqs'[s] = reqs[s]
  BY <1>1, AskedFor DEF IInv
<1>3. to # None => Chose(to, carts', chosen')
  BY <1>1 DEF Chose, KeyOf
<1>4. /\ \A o \in Owners : carts'[o].gen = 0 => carts[o].gen = 0
      /\ \A o \in Owners : carts'[o].payment => carts[o].payment
      /\ chosen \subseteq chosen' /\ (Polls(pages', orphans') => Polls(pages, orphans))
      /\ (moves' = 0 => moves = 0 /\ login' = login)
  BY <1>1
<1>5. \A s \in Slots :
        \/ reqs'[s] = Idle
        \/ /\ reqs[s] # Idle
           /\ reqs'[s].kind = reqs[s].kind /\ reqs'[s].to = reqs[s].to
        \/ reqs'[s].kind \notin Choice
        \/ reqs'[s].to # None /\ moves = 0 => Chose(reqs'[s].to, carts', chosen')
  BY <1>2, <1>3
<1>. HIDE DEF IInv, ChoiceInv
<1>. QED BY <1>4, <1>5, ChoiceKept

LEMMA ChoicePoll ==
  ASSUME IInv, ChoiceInv, NEW q \in Slots, Poll(q)
  PROVE  ChoiceInv'
<1>1. UNCHANGED <<carts, chosen, pages, orphans, moves, login>>
  BY DEF Poll
<1>2. /\ reqs'[q].to = login
      /\ \A s \in Slots : s # q => reqs'[s] = reqs[s]
  BY AskedFor DEF Poll, IInv
<1>3. Polls(pages, orphans)
  BY Stack DEF Poll, Polling, Polls, IInv
<1>4. login # None /\ moves = 0 => Chose(login, carts', chosen')
  BY <1>1, <1>3 DEF ChoiceInv
<1>5. /\ \A o \in Owners : carts'[o].gen = 0 => carts[o].gen = 0
      /\ \A o \in Owners : carts'[o].payment => carts[o].payment
      /\ chosen \subseteq chosen' /\ (Polls(pages', orphans') => Polls(pages, orphans))
      /\ (moves' = 0 => moves = 0 /\ login' = login)
  BY <1>1
<1>6. \A s \in Slots :
        \/ reqs'[s] = Idle
        \/ /\ reqs[s] # Idle
           /\ reqs'[s].kind = reqs[s].kind /\ reqs'[s].to = reqs[s].to
        \/ reqs'[s].kind \notin Choice
        \/ reqs'[s].to # None /\ moves = 0 => Chose(reqs'[s].to, carts', chosen')
  BY <1>2, <1>4
<1>. HIDE DEF IInv, ChoiceInv
<1>. QED BY <1>5, <1>6, ChoiceKept

LEMMA ChoiceShop ==
  ASSUME IInv, ChoiceInv, AddGoods \/ \E q \in Slots : ServeStep(q) \/ ServeOrder(q)
  PROVE  ChoiceInv'
<1>1. /\ carts \in [Owners -> Carts] /\ UNCHANGED <<pages, orphans, moves, login, chosen>>
      /\ reqs \in [Slots -> {Idle} \union Requests]
  BY DEF IInv, Typed, World, Worlds, AddGoods, ServeStep, ServeOrder
<1>2. \A s \in Slots :
        \/ reqs'[s] = Idle
        \/ /\ reqs[s] # Idle
           /\ reqs'[s].kind = reqs[s].kind /\ reqs'[s].to = reqs[s].to
  <2>1. CASE UNCHANGED reqs
    BY <2>1
  <2>2. ASSUME NEW q \in Slots, ServeStep(q) \/ ServeOrder(q), NEW s \in Slots, reqs[s] # Idle
        PROVE  reqs'[s].kind = reqs[s].kind /\ reqs'[s].to = reqs[s].to
    <3>1. reqs[s] \in Requests
      BY <1>1, <2>2
    <3>2. \/ reqs'[s] = reqs[s]
          \/ reqs'[s] = [reqs[s] EXCEPT !.pc = "ok", !.cart = KeyOf(reqs[s].to)]
      BY <1>1, <2>2, ZenonT(40) DEF ServeStep, ServeOrder
    <3>. QED BY <3>1, <3>2 DEF Requests
  <2>3. ASSUME NEW q \in Slots, ServeStep(q) \/ ServeOrder(q), NEW s \in Slots, reqs[s] = Idle
        PROVE  reqs'[s] = Idle
    BY <1>1, <2>3 DEF ServeStep, ServeOrder, Sent
  <2>. QED BY <2>1, <2>2, <2>3 DEF AddGoods
<1>3. ASSUME NEW o \in Owners
      PROVE  /\ carts'[o].gen = 0 => carts[o].gen = 0
             /\ carts'[o].payment => carts[o].payment \/ moves # 0 \/ Chose(o, carts', chosen')
  <2>1. carts[o] \in Carts
    BY <1>1
  <2>2. CASE AddGoods
    <3>1. carts'[o] = carts[o] \/ carts'[o] = [carts[o] EXCEPT !.items = TRUE]
      BY <1>1, <2>2 DEF AddGoods
    <3>. QED BY <2>1, <3>1 DEF Carts
  <2>3. ASSUME NEW q \in Slots, ServeOrder(q)
        PROVE  /\ carts'[o].gen = 0 => carts[o].gen = 0
               /\ carts'[o].payment => carts[o].payment
    <3>1. carts'[o] = carts[o] \/ carts'[o] = Unfilled(carts[o].gen + 1)
      BY <1>1, <2>3 DEF ServeOrder
    <3>. QED BY <2>1, <3>1 DEF Unfilled, Carts
  <2>4. ASSUME NEW q \in Slots, ServeStep(q)
        PROVE  /\ carts'[o].gen = 0 => carts[o].gen = 0
               /\ carts'[o].payment => carts[o].payment \/ moves # 0 \/ Chose(o, carts', chosen')
    <3>1. /\ reqs[q] # Idle /\ reqs[q].to # None /\ reqs[q].kind # "order"
          /\ reqs[q] \in Requests
      BY <1>1, <2>4 DEF ServeStep, Sent
    <3>2. \/ carts'[o] = carts[o]
          \/ /\ reqs[q].kind \in {"address", "shipping"}
             /\ \/ carts'[o] = [carts[o] EXCEPT !.address = TRUE]
                \/ carts'[o] = [carts[o] EXCEPT !.shipping = TRUE]
          \/ /\ reqs[q].kind \in Choice /\ o = reqs[q].to
             /\ carts'[o] = [carts[o] EXCEPT !.payment = TRUE]
      <4>1. reqs[q].kind \in {"address", "shipping"} \union Choice
        BY <3>1 DEF Requests, Choice
      <4>2. CASE reqs[q].kind = "address"
        BY <1>1, <2>4, <4>2 DEF ServeStep
      <4>3. CASE reqs[q].kind = "shipping"
        BY <1>1, <2>4, <4>3 DEF ServeStep
      <4>4. CASE reqs[q].kind \in Choice
        BY <1>1, <2>4, <4>4 DEF ServeStep, Choice
      <4>. QED BY <4>1, <4>2, <4>3, <4>4
    <3>3. CASE ~(reqs[q].kind \in Choice /\ o = reqs[q].to)
      BY <2>1, <3>2, <3>3 DEF Carts
    <3>4. CASE reqs[q].kind \in Choice /\ o = reqs[q].to
      <4>1. moves = 0 => Chose(o, carts, chosen)
        BY <3>1, <3>4 DEF ChoiceInv
      <4>2. carts'[o].gen = carts[o].gen
        BY <2>1, <3>2 DEF Carts
      <4>. QED BY <1>1, <4>1, <4>2 DEF Chose
    <3>. QED BY <3>3, <3>4
  <2>. QED BY <2>2, <2>3, <2>4
<1>. HIDE DEF IInv, ChoiceInv
<1>. QED BY <1>1, <1>2, <1>3, ChoiceKept

LEMMA ChoiceError ==
  ASSUME IInv, ChoiceInv, NEW q \in Slots, ServeError(q) \/ Lose(q)
  PROVE  ChoiceInv'
<1>1. UNCHANGED <<carts, chosen, pages, orphans, moves, login>>
  BY DEF ServeError, Lose
<1>2. /\ reqs \in [Slots -> {Idle} \union Requests] /\ reqs[q] # Idle /\ reqs[q] \in Requests
  BY DEF IInv, Typed, ServeError, Lose, Sent
<1>3. ASSUME NEW s \in Slots
      PROVE  \/ reqs'[s] = Idle
             \/ /\ reqs[s] # Idle
                /\ reqs'[s].kind = reqs[s].kind /\ reqs'[s].to = reqs[s].to
  <2>1. CASE s = q
    <3>1. reqs'[q] = Idle \/ \E pc \in {"failed", "down"} : reqs'[q] = [reqs[q] EXCEPT !.pc = pc]
      BY <1>2 DEF ServeError, Lose
    <3>. QED BY <1>2, <2>1, <3>1 DEF Requests
  <2>2. CASE s # q
    BY <1>2, <2>2 DEF ServeError, Lose
  <2>. QED BY <2>1, <2>2
<1>. HIDE DEF IInv, ChoiceInv
<1>. QED BY <1>1, <1>3, ChoiceStays

LEMMA ChoiceAnswers ==
  ASSUME IInv, ChoiceInv, NEW q \in Slots,
         AnswerAddress(q) \/ AnswerShipping(q) \/ AnswerOrder(q) \/ AnswerPoll(q)
  PROVE  ChoiceInv'
<1>1. /\ UNCHANGED <<carts, chosen, orphans, moves, login>>
      /\ reqs' = [reqs EXCEPT ![q] = Idle] /\ reqs[q] # Idle
  BY DEF AnswerAddress, AnswerShipping, AnswerOrder, AnswerPoll, Finish, Answered
<1>2. /\ reqs \in [Slots -> {Idle} \union Requests]
      /\ reqs[q] \in Requests /\ reqs[q].from \in Pages /\ reqs[q].cart \in Keys \union {None}
      /\ reqs[q].page \in Nat /\ reqs[q].page <= Len(pages) /\ Len(pages) \in Nat
      /\ \A k \in 1..Len(pages) : pages[k] \in Pages
  BY <1>1, Served, Stack DEF Requests, IInv
<1>3. \A s \in Slots : reqs'[s] = Idle \/ (reqs'[s] = reqs[s] /\ (reqs[s] # Idle \/ reqs'[s] = Idle))
  BY <1>1, <1>2
<1>4. Polls(pages', orphans) => Polls(pages, orphans)
  <2>1. ASSUME NEW goes \in BOOLEAN, NEW page \in Pages, page.kind # "receipt",
               Finish(q, goes, page)
        PROVE  Polls(pages', orphans) => Polls(pages, orphans)
    BY <2>1, PollsFinish
  <2>2. CASE AnswerAddress(q)
    <3>. DEFINE page == [reqs[q].from EXCEPT !.kind = "shipping", !.by = reqs[q].cart]
    <3>1. page \in Pages /\ page.kind # "receipt"
      BY <1>2, <2>2, Served DEF AnswerAddress, Pages
    <3>2. Finish(q, reqs[q].pc = "ok", page)
      BY <2>2 DEF AnswerAddress
    <3>. HIDE DEF page
    <3>. QED BY <2>1, <3>1, <3>2
  <2>3. CASE AnswerShipping(q)
    <3>1. \A b \in BOOLEAN : LET p == [reqs[q].from EXCEPT !.kind = "payment", !.skipped = b] IN
            p \in Pages /\ p.kind # "receipt"
      BY <1>2 DEF Pages
    <3>. DEFINE page == [reqs[q].from EXCEPT !.kind = "payment", !.skipped = reqs[q].pc # "ok"]
    <3>2. page \in Pages /\ page.kind # "receipt"
      BY <3>1
    <3>3. Finish(q, TRUE, page)
      BY <2>3 DEF AnswerShipping
    <3>. HIDE DEF page
    <3>. QED BY <2>1, <3>2, <3>3
  <2>4. CASE AnswerOrder(q)
    <3>. DEFINE page == Fresh("success", reqs[q].from.guest)
    <3>1. page \in Pages /\ page.kind # "receipt"
      BY <1>2, FreshFacts, ZenonT(40) DEF IInv, Pages
    <3>2. Finish(q, reqs[q].pc = "ok", page)
      BY <2>4 DEF AnswerOrder
    <3>. HIDE DEF page
    <3>. QED BY <2>1, <3>1, <3>2
  <2>5. CASE AnswerPoll(q)
    <3>1. CASE reqs[q].pc = "ok" /\ reqs[q].page # 0
      <4>. DEFINE k == reqs[q].page
                  p == [pages[k] EXCEPT !.shows = reqs[q].cart]
      <4>1. k \in 1..Len(pages)
        BY <1>2, <3>1
      <4>2. p \in Pages /\ p.kind = pages[k].kind /\ p.guest = pages[k].guest
        BY <1>2, <4>1 DEF Pages
      <4>3. pages' = [pages EXCEPT ![k] = p]
        BY <1>2, <2>5, <3>1, <4>1 DEF AnswerPoll
      <4>. HIDE DEF p, k
      <4>. QED BY <4>1, <4>2, <4>3, PollsWrite DEF IInv
    <3>2. CASE ~(reqs[q].pc = "ok" /\ reqs[q].page # 0)
      <4>1. Finish(q, FALSE, Home)
        BY <2>5, <3>2 DEF AnswerPoll, Finish
      <4>2. Home \in Pages /\ Home.kind = "home"
        BY FreshFacts DEF IInv, Home
      <4>. QED BY <2>1, <4>1, <4>2
    <3>. QED BY <3>1, <3>2
  <2>. QED BY <2>2, <2>3, <2>4, <2>5
<1>. HIDE DEF IInv, ChoiceInv
<1>. QED BY <1>1, <1>3, <1>4, ChoiceStays

\* A customer's receipt is pushed for whom "Cash" was tapped.
LEMMA ChoiceAnswerPayment ==
  ASSUME IInv, ChoiceInv, NEW q \in Slots, AnswerPayment(q)
  PROVE  ChoiceInv'
<1>. DEFINE r == reqs[q]
            receipt == [r.from EXCEPT !.kind = "receipt"]
            page == IF r.from.guest THEN [receipt EXCEPT !.shows = r.cart] ELSE receipt
<1>1. /\ r # Idle /\ r.kind = "payment" /\ Finish(q, r.pc = "ok", page)
      /\ reqs' = [reqs EXCEPT ![q] = Idle]
      /\ UNCHANGED <<carts, chosen, orphans, moves, login>>
  BY DEF AnswerPayment, Answered, Finish
<1>2. /\ reqs \in [Slots -> {Idle} \union Requests]
      /\ r \in Requests /\ r.from \in Pages /\ r.cart \in Keys \union {None}
      /\ PageOk(r.from, World) /\ StepOk(r, World)
  BY <1>1, Served DEF ReqOk, StepOk, Requests
<1>3. page \in Pages /\ page.guest = r.from.guest
  <2>1. receipt \in Pages /\ receipt.guest = r.from.guest
    BY <1>2 DEF Pages
  <2>. HIDE DEF receipt
  <2>2. [receipt EXCEPT !.shows = r.cart] \in Pages
        /\ [receipt EXCEPT !.shows = r.cart].guest = receipt.guest
    BY <1>2, <2>1 DEF Pages
  <2>. QED BY <2>1, <2>2
<1>. HIDE DEF page
<1>4. Polls(pages', orphans') =>
        Polls(pages, orphans) \/ (r.pc = "ok" /\ ~r.from.guest)
  BY <1>1, <1>3, PollsFinish
<1>5. ASSUME r.pc = "ok", ~r.from.guest, login # None, moves = 0
      PROVE  Chose(login, carts', chosen')
  <2>1. r.to # None
    BY <1>1, <1>2, <1>5, Owned DEF StepOk, Took
  <2>2. r.from.since = World.moves /\ World.login = login
    BY <1>2, <1>5 DEF PageOk, Pages, World
  <2>3. r.to = login
    BY <1>1, <1>2, <1>5, <2>1, <2>2 DEF StepOk, Identity
  <2>. QED BY <1>1, <1>5, <2>1, <2>3 DEF ChoiceInv, Choice
<1>6. \A s \in Slots : reqs'[s] = Idle \/ (reqs'[s] = reqs[s] /\ reqs[s] # Idle)
  BY <1>1, <1>2
<1>7. /\ \A o \in Owners : carts'[o].gen = 0 => carts[o].gen = 0
      /\ \A o \in Owners : carts'[o].payment => carts[o].payment
      /\ chosen \subseteq chosen' /\ (moves' = 0 => moves = 0 /\ login' = login)
  BY <1>1
<1>. HIDE DEF IInv, ChoiceInv, r
<1>. QED BY <1>4, <1>5, <1>6, <1>7, ChoiceKept

LEMMA ChoiceInit == Init => ChoiceInv
  BY DEF Init, ChoiceInv, Polls, Home, Plain, Fresh, Unfilled

LEMMA ChoiceStep == IInv /\ ChoiceInv /\ [Next]_vars => ChoiceInv'
<1>. SUFFICES ASSUME IInv, ChoiceInv, [Next]_vars PROVE ChoiceInv'
  OBVIOUS
<1>1. CASE UNCHANGED vars
  BY <1>1 DEF vars, ChoiceInv
<1>2. CASE TapCheckOut \/ Back \/ GoHome \/ OpenSignIn \/ (\E u \in Users : SignIn(u))
             \/ (\E i \in DOMAIN pages : Rearm(i))
  BY <1>2, ChoiceNavigation
<1>3. CASE AddGoods \/ \E q \in Slots : ServeStep(q) \/ ServeOrder(q)
  BY <1>3, ChoiceShop
<1>4. ASSUME NEW q \in Slots,
             TapAddress(q) \/ TapShipping(q) \/ TapCash(q) \/ TapOrder(q) \/ Poll(q)
      PROVE  ChoiceInv'
  BY <1>4, ChoiceTaps, ChoiceTapCash, ChoicePoll
<1>5. ASSUME NEW q \in Slots,
             \/ ServeError(q) \/ Lose(q)
             \/ AnswerAddress(q) \/ AnswerShipping(q) \/ AnswerPayment(q)
             \/ AnswerPoll(q) \/ AnswerOrder(q)
      PROVE  ChoiceInv'
  BY <1>5, ChoiceError, ChoiceAnswers, ChoiceAnswerPayment
<1>. HIDE DEF IInv, ChoiceInv
<1>. QED BY <1>1, <1>2, <1>3, <1>4, <1>5 DEF Next

\* The poll of a customer's receipt saves the payment method every three
\* seconds, for whoever is signed in by then: until somebody signs in or out,
\* or orders, that is a shopper who tapped "Cash" for this very cart.
THEOREM PollsOnlyRepeat == Spec => []NoChoiceNoPayment
<1>1. ChoiceInv => NoChoiceNoPayment
  BY DEF ChoiceInv, NoChoiceNoPayment, Chose, KeyOf
<1>. QED BY <1>1, InitInv, StepInv, ChoiceInit, ChoiceStep, PTL DEF Spec
-----------------------------------------------------------------------------
(* Types and bounds                                                        *)

(***************************************************************************)
(* There is room for the page each request under way will push, and for    *)
(* the error page of each that has failed with a 500.  An owner fills no   *)
(* more than MaxGen carts, since the last one is never filled.             *)
(***************************************************************************)
RoomInv ==
  /\ IsFiniteSet(Pushing) /\ IsFiniteSet(Failing)
  /\ Len(pages) + Cardinality(Pushing) + Cardinality(Failing) <= MaxDepth

CartsInv ==
  /\ carts \in [Owners -> Cart]
  /\ \A o \in Owners : carts[o].items => carts[o].gen < MaxGen

HistoryInv ==
  /\ moves \in 0..MaxMoves /\ orphans \in BOOLEAN
  /\ orders \subseteq Order /\ chosen \subseteq Key

ReqsInv == reqs \in [Slots -> {Idle} \union Request]

Bounded == RoomInv /\ CartsInv /\ HistoryInv /\ pages \in Seq(Page) /\ ReqsInv

LEMMA Bounds ==
  /\ MaxDepth \in Nat /\ MaxDepth > 0 /\ MaxGen \in Nat /\ MaxGen > 0 /\ MaxMoves \in Nat
  BY BoundsAssumption

LEMMA SetCount ==
  ASSUME NEW S, IsFiniteSet(S), NEW T, NEW q, T \subseteq S \union {q}
  PROVE  /\ IsFiniteSet(T) /\ Cardinality(T) \in Nat /\ Cardinality(S) \in Nat
         /\ Cardinality(T) <= Cardinality(S) + 1
         /\ q \notin T \/ q \in S => Cardinality(T) <= Cardinality(S)
         /\ q \notin T /\ q \in S => Cardinality(T) + 1 <= Cardinality(S)
<1>1. IsFiniteSet(S \union {q}) /\ Cardinality(S) \in Nat
  BY FS_AddElement, FS_CardinalityType
<1>2. IsFiniteSet(T) /\ Cardinality(T) \in Nat
  BY <1>1, FS_Subset, FS_CardinalityType
<1>3. Cardinality(S \union {q}) = IF q \in S THEN Cardinality(S) ELSE Cardinality(S) + 1
  BY FS_AddElement
<1>4. Cardinality(T) <= Cardinality(S) + 1
  BY <1>1, <1>2, <1>3, FS_Subset, FS_CardinalityType
<1>5. ASSUME q \notin T \/ q \in S PROVE Cardinality(T) <= Cardinality(S)
  <2>1. T \subseteq S
    BY <1>5
  <2>. QED BY <2>1, FS_Subset
<1>6. ASSUME q \notin T, q \in S PROVE Cardinality(T) + 1 <= Cardinality(S)
  <2>1. T \subseteq S \ {q}
    BY <1>6
  <2>2. IsFiniteSet(S \ {q}) /\ Cardinality(S \ {q}) = Cardinality(S) - 1
    BY <1>6, FS_RemoveElement
  <2>3. Cardinality(T) <= Cardinality(S \ {q})
    BY <2>1, <2>2, FS_Subset
  <2>. QED BY <1>1, <1>2, <2>2, <2>3
<1>. QED BY <1>1, <1>2, <1>4, <1>5, <1>6

\* How many pages are promised, when one request changes.
LEMMA RoomCount ==
  ASSUME RoomInv, NEW q, \A r \in Slots : r # q => reqs'[r] = reqs[r]
  PROVE  /\ IsFiniteSet(Pushing') /\ IsFiniteSet(Failing')
         /\ Cardinality(Pushing) \in Nat /\ Cardinality(Pushing') \in Nat
         /\ Cardinality(Failing) \in Nat /\ Cardinality(Failing') \in Nat
         /\ Cardinality(Pushing') <= Cardinality(Pushing) + 1
         /\ Cardinality(Failing') <= Cardinality(Failing) + 1
         /\ q \notin Pushing' \/ q \in Pushing => Cardinality(Pushing') <= Cardinality(Pushing)
         /\ q \notin Failing' \/ q \in Failing => Cardinality(Failing') <= Cardinality(Failing)
         /\ q \notin Pushing' /\ q \in Pushing => Cardinality(Pushing') + 1 <= Cardinality(Pushing)
         /\ q \notin Failing' /\ q \in Failing => Cardinality(Failing') + 1 <= Cardinality(Failing)
<1>1. Pushing' \subseteq Pushing \union {q} /\ Failing' \subseteq Failing \union {q}
  BY DEF Pushing, Failing
<1>2. IsFiniteSet(Pushing) /\ IsFiniteSet(Failing)
  BY DEF RoomInv
<1>. HIDE DEF Pushing, Failing, RoomInv
<1>3. /\ IsFiniteSet(Pushing') /\ Cardinality(Pushing) \in Nat /\ Cardinality(Pushing') \in Nat
      /\ Cardinality(Pushing') <= Cardinality(Pushing) + 1
      /\ q \notin Pushing' \/ q \in Pushing => Cardinality(Pushing') <= Cardinality(Pushing)
      /\ q \notin Pushing' /\ q \in Pushing => Cardinality(Pushing') + 1 <= Cardinality(Pushing)
  BY ONLY <1>1, <1>2, SetCount
<1>4. /\ IsFiniteSet(Failing') /\ Cardinality(Failing) \in Nat /\ Cardinality(Failing') \in Nat
      /\ Cardinality(Failing') <= Cardinality(Failing) + 1
      /\ q \notin Failing' \/ q \in Failing => Cardinality(Failing') <= Cardinality(Failing)
      /\ q \notin Failing' /\ q \in Failing => Cardinality(Failing') + 1 <= Cardinality(Failing)
  BY ONLY <1>1, <1>2, SetCount
<1>. QED BY <1>3, <1>4

LEMMA InitRoom == Init => RoomInv
<1>. SUFFICES ASSUME Init PROVE RoomInv
  OBVIOUS
<1>1. Pushing = {} /\ Failing = {} /\ Len(pages) = 1
  BY DEF Init, Pushing, Failing
<1>. QED BY <1>1, Bounds, FS_EmptySet DEF RoomInv

\* What becomes of the stack.
LEMMA StackLengths ==
  ASSUME IInv
  PROVE  /\ Len(pages) \in Nat
         /\ \A p : Len(Append(pages, p)) = Len(pages) + 1
         /\ \A p, p2 : Len(Append(Append(pages, p), p2)) = Len(pages) + 2
         /\ \A k, p : Len([pages EXCEPT ![k] = p]) = Len(pages)
  BY Stack DEF IInv

LEMMA RoomNavigation ==
  ASSUME IInv, RoomInv,
         \/ TapCheckOut \/ GoHome \/ AddGoods \/ OpenSignIn \/ \E u \in Users : SignIn(u)
         \/ \E i \in DOMAIN pages : Rearm(i)
  PROVE  RoomInv'
<1>1. Len(pages) \in Nat /\ Depth = Len(pages)
  BY Stack DEF IInv
<1>2. Pushing' = Pushing /\ Failing' = Failing
  BY DEF TapCheckOut, GoHome, AddGoods, OpenSignIn, SignIn, Rearm, Pushing, Failing
<1>3. \/ Len(pages') = Len(pages)
      \/ Room /\ Len(pages') = Len(pages) + 1
  BY StackLengths DEF TapCheckOut, GoHome, AddGoods, OpenSignIn, SignIn, Rearm, Push
<1>4. Cardinality(Pushing) \in Nat /\ Cardinality(Failing) \in Nat
  BY FS_CardinalityType DEF RoomInv
<1>. HIDE DEF Pushing, Failing
<1>. QED BY <1>1, <1>2, <1>3, <1>4, Bounds DEF RoomInv, Room

LEMMA RoomBack ==
  ASSUME IInv, RoomInv, Back
  PROVE  RoomInv'
<1>1. /\ Len(pages) \in Nat /\ Depth = Len(pages) /\ pages \in Seq(Pages)
      /\ reqs \in [Slots -> {Idle} \union Requests]
  BY Stack DEF IInv, Typed
<1>2. Len(pages') = Len(pages) - 1
  BY <1>1 DEF Back, Front
<1>3. ASSUME NEW q \in Slots
      PROVE  /\ (reqs'[q] # Idle) <=> (reqs[q] # Idle)
             /\ reqs[q] # Idle => reqs'[q].kind = reqs[q].kind /\ reqs'[q].pc = reqs[q].pc
  <2>1. CASE reqs[q] # Idle /\ reqs[q].page = Depth
    <3>1. reqs'[q] = [reqs[q] EXCEPT !.page = 0] /\ reqs[q] \in Requests
      BY <1>1, <2>1 DEF Back
    <3>2. reqs'[q].pc = reqs[q].pc /\ reqs'[q].kind = reqs[q].kind
      BY <3>1 DEF Requests
    <3>. QED BY <2>1, <3>1, <3>2 DEF Requests, Idle
  <2>2. CASE ~(reqs[q] # Idle /\ reqs[q].page = Depth)
    BY <2>2 DEF Back
  <2>. QED BY <2>1, <2>2
<1>4. Pushing' = Pushing /\ Failing' = Failing
  BY <1>3 DEF Pushing, Failing
<1>5. Cardinality(Pushing) \in Nat /\ Cardinality(Failing) \in Nat
  BY FS_CardinalityType DEF RoomInv
<1>. HIDE DEF Pushing, Failing
<1>. QED BY <1>1, <1>2, <1>4, <1>5, Bounds DEF RoomInv

LEMMA RoomTaps ==
  ASSUME IInv, RoomInv, NEW q \in Slots,
         TapAddress(q) \/ TapShipping(q) \/ TapCash(q) \/ TapOrder(q) \/ Poll(q)
  PROVE  RoomInv'
<1>1. Len(pages) \in Nat /\ Depth = Len(pages) /\ Len(pages') = Len(pages)
  <2>1. Len(pages) \in Nat /\ Depth = Len(pages)
    BY Stack DEF IInv
  <2>2. pages' = pages \/ \E k, p : pages' = [pages EXCEPT ![k] = p]
    BY DEF TapAddress, TapShipping, TapCash, TapOrder, Poll
  <2>. QED BY <2>1, <2>2, StackLengths
<1>2. PICK kind, page, from, to : Ask(q, kind, page, from, to) /\ (Room \/ kind = "poll")
  BY DEF TapAddress, TapShipping, TapCash, TapOrder, Poll
<1>3. /\ \A r \in Slots : r # q => reqs'[r] = reqs[r]
      /\ reqs'[q].kind = kind /\ reqs'[q].pc = "sent" /\ reqs[q] = Idle
  BY <1>2 DEF Ask, IInv, Typed
<1>4. q \notin Failing' /\ (q \in Pushing' => kind # "poll")
  BY <1>3 DEF Failing, Pushing
<1>. HIDE DEF Pushing, Failing
<1>. QED BY <1>1, <1>2, <1>3, <1>4, RoomCount, Bounds DEF RoomInv, Room

LEMMA RoomShop ==
  ASSUME IInv, RoomInv, NEW q \in Slots,
         ServeStep(q) \/ ServeOrder(q) \/ ServeError(q) \/ Lose(q)
  PROVE  RoomInv'
<1>1. Len(pages) \in Nat /\ Depth = Len(pages) /\ pages' = pages
  BY Stack DEF IInv, ServeStep, ServeOrder, ServeError, Lose
<1>2. /\ \A r \in Slots : r # q => reqs'[r] = reqs[r]
      /\ reqs[q] # Idle
      /\ \/ reqs'[q] = Idle
         \/ reqs'[q].kind = reqs[q].kind /\ reqs'[q].pc \in {"ok", "failed"}
         \/ reqs'[q].kind = reqs[q].kind /\ Room
  <2>1. reqs[q] # Idle /\ reqs \in [Slots -> {Idle} \union Requests]
    BY DEF ServeStep, ServeOrder, ServeError, Lose, Sent, IInv, Typed
  <2>. QED BY <2>1 DEF ServeStep, ServeOrder, ServeError, Lose, Requests
<1>3. q \in Pushing' => q \in Pushing
  BY <1>2 DEF Pushing
<1>4. q \in Failing' => Room
  BY <1>2 DEF Failing
<1>. HIDE DEF Pushing, Failing
<1>. QED BY <1>1, <1>2, <1>3, <1>4, RoomCount, Bounds DEF RoomInv, Room

LEMMA RoomAnswers ==
  ASSUME IInv, RoomInv, NEW q \in Slots,
         \/ AnswerAddress(q) \/ AnswerShipping(q) \/ AnswerPayment(q)
         \/ AnswerPoll(q) \/ AnswerOrder(q)
  PROVE  RoomInv'
<1>1. /\ Len(pages) \in Nat /\ reqs[q] # Idle /\ reqs'[q] = Idle
      /\ \A r \in Slots : r # q => reqs'[r] = reqs[r]
  BY Stack DEF IInv, Typed, AnswerAddress, AnswerShipping, AnswerPayment, AnswerPoll,
               AnswerOrder, Answered, Finish
<1>2. q \notin Pushing' /\ q \notin Failing'
  BY <1>1 DEF Pushing, Failing
<1>3. (reqs[q].kind # "poll" => q \in Pushing) /\ (reqs[q].pc = "down" => q \in Failing)
  BY <1>1 DEF Pushing, Failing
<1>4. Len(WithError(q)) = IF reqs[q].pc = "down" THEN Len(pages) + 1 ELSE Len(pages)
  BY StackLengths DEF WithError
<1>5. \/ Len(pages') = Len(WithError(q))
      \/ Len(pages') = Len(WithError(q)) + 1 /\ reqs[q].kind # "poll"
  <2>1. \A p : Len(Append(WithError(q), p)) = Len(WithError(q)) + 1
    BY StackLengths DEF WithError
  <2>2. CASE AnswerPoll(q)
    <3>1. reqs[q].pc = "ok" => WithError(q) = pages
      BY DEF WithError
    <3>. QED BY <2>2, <3>1, StackLengths DEF AnswerPoll
  <2>3. CASE AnswerAddress(q) \/ AnswerShipping(q) \/ AnswerPayment(q) \/ AnswerOrder(q)
    <3>1. reqs[q].kind # "poll"
      BY <2>3 DEF AnswerAddress, AnswerShipping, AnswerPayment, AnswerOrder, Answered
    <3>2. pages' = WithError(q) \/ \E p : pages' = Append(WithError(q), p)
      BY <2>3 DEF AnswerAddress, AnswerShipping, AnswerPayment, AnswerOrder, Finish
    <3>. QED BY <2>1, <3>1, <3>2
  <2>. QED BY <2>2, <2>3
<1>. HIDE DEF Pushing, Failing
<1>6. /\ IsFiniteSet(Pushing') /\ IsFiniteSet(Failing')
      /\ Cardinality(Pushing) \in Nat /\ Cardinality(Pushing') \in Nat
      /\ Cardinality(Failing) \in Nat /\ Cardinality(Failing') \in Nat
      /\ Cardinality(Pushing') <= Cardinality(Pushing)
      /\ Cardinality(Failing') <= Cardinality(Failing)
      /\ reqs[q].kind # "poll" => Cardinality(Pushing') + 1 <= Cardinality(Pushing)
      /\ reqs[q].pc = "down" => Cardinality(Failing') + 1 <= Cardinality(Failing)
  BY <1>1, <1>2, <1>3, RoomCount
<1>7. Len(pages) + Cardinality(Pushing) + Cardinality(Failing) <= MaxDepth
  BY DEF RoomInv
<1>8. Len(pages') + Cardinality(Pushing') + Cardinality(Failing') <= MaxDepth
  BY <1>1, <1>4, <1>5, <1>6, <1>7, Bounds
<1>. QED BY <1>6, <1>8 DEF RoomInv

LEMMA RoomStep == IInv /\ RoomInv /\ Next => RoomInv'
  BY RoomNavigation, RoomBack, RoomTaps, RoomShop, RoomAnswers DEF Next
\* Keys, pages and requests within the bounds.
LEMMA KeyFacts ==
  ASSUME CartsInv, NEW o \in Owners
  PROVE  /\ KeyOf(o) \in Key /\ carts[o] \in Cart /\ carts[o].gen \in 0..MaxGen
         /\ carts[o].items => carts[o].gen < MaxGen
  BY DEF CartsInv, KeyOf, Key, Cart

LEMMA PageWritten ==
  ASSUME NEW p \in Page, NEW b \in BOOLEAN, NEW cart \in Key \union {None}
  PROVE  /\ [p EXCEPT !.onPressedValue = b] \in Page
         /\ [p EXCEPT !.shows = cart] \in Page
         /\ [p EXCEPT !.kind = "shipping", !.by = cart] \in Page
         /\ [p EXCEPT !.kind = "payment", !.skipped = b] \in Page
         /\ [p EXCEPT !.kind = "receipt"] \in Page
         /\ [[p EXCEPT !.kind = "receipt"] EXCEPT !.shows = cart] \in Page
  BY DEF Page

LEMMA NewPages ==
  ASSUME HistoryInv, NEW guest \in BOOLEAN,
         NEW kind \in {"home", "signin", "error", "address", "receipt", "success"}
  PROVE  Fresh(kind, guest) \in Page /\ Plain(kind) \in Page
<1>1. Fresh(kind, guest) \in Page /\ Fresh(kind, FALSE) \in Page
  BY DEF HistoryInv, Fresh, Page
<1>2. 0 \in 0..MaxMoves
  BY Bounds
<1>. QED BY <1>1, <1>2 DEF Plain, Page

LEMMA StackWritten ==
  ASSUME pages \in Seq(Page), NEW p \in Page
  PROVE  /\ Append(pages, p) \in Seq(Page)
         /\ \A p2 \in Page : Append(Append(pages, p), p2) \in Seq(Page)
         /\ \A k \in DOMAIN pages : pages[k] \in Page /\ [pages EXCEPT ![k] = p] \in Seq(Page)
         /\ DOMAIN pages = 1..Len(pages) /\ Len(pages) \in Nat
  OBVIOUS

\* A request of the bounded types, whose page is on the stack.
LEMMA RequestTyped ==
  ASSUME Bounded, NEW q \in Slots, reqs[q] # Idle
  PROVE  /\ reqs[q] \in Request /\ reqs[q].from \in Page
         /\ reqs[q].to \in Owners \union {None} /\ reqs[q].cart \in Key \union {None}
         /\ reqs[q].page \in 0..MaxDepth /\ reqs[q].moved \in BOOLEAN
  BY DEF Bounded, ReqsInv, Request

LEMMA DepthBound ==
  ASSUME IInv, RoomInv
  PROVE  /\ Len(pages) \in 1..MaxDepth /\ Depth = Len(pages) /\ Depth \in DOMAIN pages
         /\ \A k \in DOMAIN pages : k \in 0..MaxDepth
<1>1. Len(pages) \in Nat \ {0} /\ Depth = Len(pages) /\ DOMAIN pages = 1..Len(pages)
  BY Stack DEF IInv
<1>2. Cardinality(Pushing) \in Nat /\ Cardinality(Failing) \in Nat
  BY FS_CardinalityType DEF RoomInv
<1>. HIDE DEF Pushing, Failing
<1>3. Len(pages) <= MaxDepth
  BY <1>1, <1>2, Bounds DEF RoomInv
<1>. QED BY <1>1, <1>3, Bounds

LEMMA InitBounded == Init => Bounded
<1>. SUFFICES ASSUME Init PROVE Bounded
  OBVIOUS
<1>1. HistoryInv
  <2>1. moves = 0 /\ orphans = FALSE /\ orders = {} /\ chosen = {}
    BY DEF Init
  <2>2. 0 \in 0..MaxMoves
    BY Bounds
  <2>. QED BY <2>1, <2>2 DEF HistoryInv
<1>2. pages \in Seq(Page)
  <2>1. Home \in Page
    BY <1>1, NewPages DEF Home
  <2>. QED BY <2>1 DEF Init
<1>3. CartsInv
  <2>1. \A b \in BOOLEAN : /\ [Unfilled(0) EXCEPT !.items = b] \in Cart
                           /\ [Unfilled(0) EXCEPT !.items = b].gen = 0
    <3>1. 0 \in 0..MaxGen
      BY Bounds
    <3>. QED BY <3>1 DEF Unfilled, Cart
  <2>2. /\ carts = [o \in Owners |->
                     [Unfilled(0) EXCEPT !.items = o \in Users \union {cookie}]]
        /\ \A o \in Owners : (o \in Users \union {cookie}) \in BOOLEAN
    BY DEF Init
  <2>3. \A o \in Owners : carts[o] \in Cart /\ carts[o].gen = 0
    BY <2>1, <2>2
  <2>. QED BY <2>2, <2>3, Bounds DEF CartsInv
<1>4. ReqsInv
  BY DEF Init, ReqsInv
<1>. QED BY <1>1, <1>2, <1>3, <1>4, InitRoom DEF Bounded

LEMMA CartsStep ==
  ASSUME IInv, Bounded, Next
  PROVE  CartsInv'
<1>1. CartsInv /\ carts \in [Owners -> Cart]
  BY DEF Bounded, CartsInv
<1>2. CASE UNCHANGED carts
  BY <1>1, <1>2 DEF CartsInv
<1>3. CASE AddGoods
  <2>1. PICK o : /\ carts[o].gen < MaxGen
                 /\ carts' = [carts EXCEPT ![o].items = TRUE]
                 /\ o \in Owners
    <3>1. OrderIdentity \in Owners \union {None} /\ Sessions \subseteq Owners
      BY Identified, Owned DEF IInv
    <3>. QED BY <1>3, <3>1 DEF AddGoods
  <2>2. carts[o] \in Cart
    BY <1>1, <2>1
  <2>3. [carts[o] EXCEPT !.items = TRUE] \in Cart
        /\ [carts[o] EXCEPT !.items = TRUE].gen = carts[o].gen
    BY <2>2 DEF Cart
  <2>. QED BY <1>1, <2>1, <2>3 DEF CartsInv
<1>4. ASSUME NEW q \in Slots, ServeStep(q) PROVE CartsInv'
  <2>. DEFINE o == reqs[q].to
              c == carts[o]
  <2>1. /\ o \in Owners /\ c.items
        /\ \/ carts' = [carts EXCEPT ![o] = [c EXCEPT !.address = TRUE]]
           \/ carts' = [carts EXCEPT ![o] = [c EXCEPT !.shipping = TRUE]]
           \/ carts' = [carts EXCEPT ![o] = [c EXCEPT !.payment = TRUE]]
    <3>1. o \in Owners \union {None}
      BY <1>4, RequestTyped DEF ServeStep, Sent
    <3>. QED BY <1>4, <3>1 DEF ServeStep
  <2>2. c \in Cart /\ c.gen < MaxGen
    BY <1>1, <2>1, KeyFacts
  <2>3. PICK d \in Cart : d.gen < MaxGen /\ carts' = [carts EXCEPT ![o] = d]
    <3>1. /\ [c EXCEPT !.address = TRUE] \in Cart /\ [c EXCEPT !.address = TRUE].gen = c.gen
          /\ [c EXCEPT !.shipping = TRUE] \in Cart /\ [c EXCEPT !.shipping = TRUE].gen = c.gen
          /\ [c EXCEPT !.payment = TRUE] \in Cart /\ [c EXCEPT !.payment = TRUE].gen = c.gen
      BY <2>2 DEF Cart
    <3>. QED BY <2>1, <2>2, <3>1
  <2>. QED BY <1>1, <2>1, <2>3 DEF CartsInv
<1>5. ASSUME NEW q \in Slots, ServeOrder(q) PROVE CartsInv'
  <2>. DEFINE o == reqs[q].to
              d == Unfilled(carts[o].gen + 1)
  <2>1. /\ o \in Owners /\ carts[o].items
        /\ carts' = [carts EXCEPT ![o] = d]
    <3>1. o \in Owners \union {None}
      BY <1>5, RequestTyped DEF ServeOrder, Sent
    <3>. QED BY <1>5, <3>1 DEF ServeOrder
  <2>2. d \in Cart /\ ~d.items
    <3>1. carts[o].gen \in 0..MaxGen /\ carts[o].gen < MaxGen
      BY <1>1, <2>1, KeyFacts
    <3>. QED BY <3>1, Bounds DEF Unfilled, Cart
  <2>. QED BY <1>1, <2>1, <2>2 DEF CartsInv
<1>. QED BY <1>2, <1>3, <1>4, <1>5
     DEF Next, TapCheckOut, Back, GoHome, OpenSignIn, SignIn, Rearm, TapAddress, TapShipping,
         TapCash, TapOrder, Poll, ServeError, Lose, AnswerAddress, AnswerShipping,
         AnswerPayment, AnswerPoll, AnswerOrder

LEMMA HistoryStep ==
  ASSUME IInv, Bounded, Next
  PROVE  HistoryInv'
<1>1. HistoryInv /\ CartsInv /\ orders \subseteq Order /\ chosen \subseteq Key
  BY DEF Bounded, HistoryInv
<1>2. moves' \in 0..MaxMoves
  <2>1. moves' = moves \/ (moves < MaxMoves /\ moves' = moves + 1)
    <3>1. CASE OpenSignIn \/ \E u \in Users : SignIn(u)
      BY <3>1 DEF OpenSignIn, SignIn
    <3>2. CASE ~(OpenSignIn \/ \E u \in Users : SignIn(u))
      BY <3>2 DEF Next, TapCheckOut, Back, GoHome, AddGoods, Rearm,
         TapAddress, TapShipping, TapCash, TapOrder, Poll, ServeStep, ServeOrder, ServeError,
         Lose, AnswerAddress, AnswerShipping, AnswerPayment, AnswerPoll, AnswerOrder
    <3>. QED BY <3>1, <3>2
  <2>2. moves \in 0..MaxMoves
    BY <1>1 DEF HistoryInv
  <2>. QED BY <2>1, <2>2, Bounds
<1>3. orphans' \in BOOLEAN
  BY <1>1
     DEF HistoryInv, Next, TapCheckOut, Back, GoHome, AddGoods, OpenSignIn, SignIn, Rearm,
         TapAddress, TapShipping, TapCash, TapOrder, Poll, ServeStep, ServeOrder, ServeError,
         Lose, AnswerAddress, AnswerShipping, AnswerPayment, AnswerPoll, AnswerOrder
<1>4. orders' \subseteq Order
  <2>1. ASSUME NEW q \in Slots, ServeOrder(q) PROVE orders' \subseteq Order
    <3>. DEFINE r == reqs[q]
    <3>1. r \in Request /\ r.from \in Page /\ r.moved \in BOOLEAN /\ r.to \in Owners
      BY <2>1, RequestTyped DEF ServeOrder, Sent
    <3>2. KeyOf(r.to) \in Key /\ carts[r.to] \in Cart
      BY <1>1, <3>1, KeyFacts
    <3>3. [cart |-> KeyOf(r.to), from |-> r.from, moved |-> r.moved,
           address |-> carts[r.to].address, shipping |-> carts[r.to].shipping,
           payment |-> carts[r.to].payment] \in Order
      BY <3>1, <3>2 DEF Order, Cart
    <3>. QED BY <1>1, <2>1, <3>3 DEF ServeOrder
  <2>2. (\E q \in Slots : ServeOrder(q)) \/ UNCHANGED orders
    BY DEF Next, TapCheckOut, Back, GoHome, AddGoods, OpenSignIn, SignIn, Rearm,
         TapAddress, TapShipping, TapCash, TapOrder, Poll, ServeStep, ServeError,
         Lose, AnswerAddress, AnswerShipping, AnswerPayment, AnswerPoll, AnswerOrder
  <2>. QED BY <1>1, <2>1, <2>2
<1>5. chosen' \subseteq Key
  <2>1. ASSUME NEW q \in Slots, TapCash(q) PROVE chosen' \subseteq Key
    <3>1. \A o \in {StepIdentity(Top.guest)} \ {None} : KeyOf(o) \in Key
      <4>1. Top.guest \in BOOLEAN
        BY Stack DEF IInv, Pages
      <4>2. StepIdentity(Top.guest) \in Owners \union {None}
        BY <4>1, Identified DEF IInv
      <4>. QED BY <1>1, <4>2, KeyFacts
    <3>. QED BY <1>1, <2>1, <3>1 DEF TapCash
  <2>2. (\E q \in Slots : TapCash(q)) \/ UNCHANGED chosen
    BY DEF Next, TapCheckOut, Back, GoHome, AddGoods, OpenSignIn, SignIn, Rearm,
         TapAddress, TapShipping, TapOrder, Poll, ServeStep, ServeOrder, ServeError,
         Lose, AnswerAddress, AnswerShipping, AnswerPayment, AnswerPoll, AnswerOrder
  <2>. QED BY <1>1, <2>1, <2>2
<1>. QED BY <1>2, <1>3, <1>4, <1>5 DEF HistoryInv

LEMMA PagesStep ==
  ASSUME IInv, Bounded, Next
  PROVE  pages' \in Seq(Page)
<1>1. pages \in Seq(Page) /\ HistoryInv /\ Depth \in DOMAIN pages /\ Depth = Len(pages)
  BY DepthBound DEF Bounded
<1>2. /\ \A k \in DOMAIN pages : pages[k] \in Page
      /\ Top \in Page /\ DOMAIN pages = 1..Len(pages) /\ Len(pages) \in Nat
  BY <1>1 DEF Top
<1>3. CASE TapCheckOut \/ GoHome \/ OpenSignIn \/ \E u \in Users : SignIn(u)
  <2>1. Home \in Page /\ Plain("signin") \in Page /\ Fresh("address", login = None) \in Page
    BY <1>1, NewPages DEF Home
  <2>2. \/ \E p \in Page : pages' = Append(pages, p)
        \/ \E p \in Page : pages' = [pages EXCEPT ![Depth] = p]
    BY <1>3, <2>1 DEF TapCheckOut, GoHome, OpenSignIn, SignIn, Push
  <2>. QED BY <1>1, <2>2, StackWritten
<1>4. CASE Back
  <2>1. pages' = SubSeq(pages, 1, Len(pages) - 1)
    BY <1>1, <1>4 DEF Back, Front
  <2>. QED BY <1>1, <1>2, <1>4, <2>1 DEF Back
<1>5. CASE \/ \E i \in DOMAIN pages : Rearm(i)
           \/ \E q \in Slots : TapAddress(q) \/ TapOrder(q)
  <2>1. Top.guest \in BOOLEAN
    BY <1>2 DEF Page
  <2>2. PICK k \in DOMAIN pages, b \in BOOLEAN :
           pages' = [pages EXCEPT ![k] = [pages[k] EXCEPT !.onPressedValue = b]]
    <3>1. CASE \E i \in DOMAIN pages : Rearm(i)
      BY <3>1 DEF Rearm
    <3>2. CASE \E q \in Slots : TapAddress(q)
      BY <1>1, <2>1, <3>2 DEF TapAddress
    <3>3. CASE \E q \in Slots : TapOrder(q)
      BY <1>1, <3>3 DEF TapOrder
    <3>. QED BY <1>5, <3>1, <3>2, <3>3
  <2>3. [pages[k] EXCEPT !.onPressedValue = b] \in Page
    BY <1>2, <2>2, PageWritten
  <2>. QED BY <1>1, <2>2, <2>3, StackWritten
<1>6. ASSUME NEW q \in Slots,
             \/ AnswerAddress(q) \/ AnswerShipping(q) \/ AnswerPayment(q)
             \/ AnswerPoll(q) \/ AnswerOrder(q)
      PROVE  pages' \in Seq(Page)
  <2>. DEFINE r == reqs[q]
  <2>1. /\ r.from \in Page /\ r.cart \in Key \union {None}
        /\ r.page \in Nat /\ r.page <= Len(pages)
    BY <1>6, RequestTyped, Served
       DEF AnswerAddress, AnswerShipping, AnswerPayment, AnswerPoll, AnswerOrder, Answered
  <2>2. WithError(q) \in Seq(Page)
    BY <1>1, NewPages, StackWritten DEF WithError
  <2>3. CASE AnswerPoll(q)
    <3>1. CASE r.pc = "ok" /\ r.page # 0
      <4>1. r.page \in DOMAIN pages
        BY <1>2, <2>1, <3>1
      <4>2. [pages[r.page] EXCEPT !.shows = r.cart] \in Page
        BY <1>2, <2>1, <4>1, PageWritten
      <4>3. pages' = [pages EXCEPT ![r.page] = [pages[r.page] EXCEPT !.shows = r.cart]]
        BY <2>3, <3>1 DEF AnswerPoll
      <4>. QED BY <1>1, <4>1, <4>2, <4>3, StackWritten
    <3>2. CASE ~(r.pc = "ok" /\ r.page # 0)
      BY <2>2, <2>3, <3>2 DEF AnswerPoll
    <3>. QED BY <3>1, <3>2
  <2>4. CASE AnswerAddress(q) \/ AnswerShipping(q) \/ AnswerPayment(q) \/ AnswerOrder(q)
    <3>1. /\ [r.from EXCEPT !.kind = "shipping", !.by = r.cart] \in Page
          /\ [r.from EXCEPT !.kind = "payment", !.skipped = r.pc # "ok"] \in Page
          /\ [r.from EXCEPT !.kind = "receipt"] \in Page
          /\ [[r.from EXCEPT !.kind = "receipt"] EXCEPT !.shows = r.cart] \in Page
      BY <2>1, PageWritten
    <3>2. Fresh("success", r.from.guest) \in Page
      <4>1. r.from.guest \in BOOLEAN
        BY <2>1 DEF Page
      <4>. QED BY <1>1, <4>1, NewPages
    <3>3. pages' = WithError(q) \/ \E p \in Page : pages' = Append(WithError(q), p)
      BY <2>4, <3>1, <3>2 DEF AnswerAddress, AnswerShipping, AnswerPayment, AnswerOrder, Finish
    <3>. QED BY <2>2, <3>3
  <2>. QED BY <1>6, <2>3, <2>4
<1>7. CASE UNCHANGED pages
  BY <1>1, <1>7
<1>. QED BY <1>3, <1>4, <1>5, <1>6, <1>7
     DEF Next, AddGoods, TapShipping, TapCash, Poll, ServeStep, ServeOrder, ServeError, Lose

LEMMA ReqsStep ==
  ASSUME IInv, Bounded, Next
  PROVE  ReqsInv'
<1>1. /\ reqs \in [Slots -> {Idle} \union Request] /\ CartsInv /\ HistoryInv
      /\ pages \in Seq(Page)
  BY DEF Bounded, ReqsInv
<1>2. /\ Depth \in DOMAIN pages /\ Depth = Len(pages) /\ \A k \in DOMAIN pages : k \in 0..MaxDepth
      /\ Top \in Page /\ Top.guest \in BOOLEAN /\ 0 \in 0..MaxDepth
  <2>1. Depth \in DOMAIN pages /\ Depth = Len(pages) /\ \A k \in DOMAIN pages : k \in 0..MaxDepth
    BY DepthBound DEF Bounded
  <2>2. Top \in Page
    BY <1>1, <2>1 DEF Top
  <2>. QED BY <2>1, <2>2, Bounds DEF Page
<1>3. ASSUME NEW q \in Slots, NEW x \in {Idle} \union Request, reqs' = [reqs EXCEPT ![q] = x]
      PROVE  ReqsInv'
  BY <1>1, <1>3 DEF ReqsInv
<1>4. ASSUME NEW q \in Slots,
             TapAddress(q) \/ TapShipping(q) \/ TapCash(q) \/ TapOrder(q) \/ Poll(q)
      PROVE  ReqsInv'
  <2>1. PICK kind \in {"address", "shipping", "payment", "poll", "order"},
             page \in 0..MaxDepth, from \in Page, to \in Owners \union {None} :
           Ask(q, kind, page, from, to)
    <3>1. /\ StepIdentity(Top.guest) \in Owners \union {None}
          /\ OrderIdentity \in Owners \union {None} /\ login \in Owners \union {None}
      <4>1. login \in Users \union {None}
        BY DEF IInv, Typed, World, Worlds
      <4>. QED BY <1>2, <4>1, Identified, Owned DEF IInv
    <3>2. Fresh("receipt", FALSE) \in Page
      BY <1>1, NewPages
    <3>. QED BY <1>2, <1>4, <3>1, <3>2 DEF TapAddress, TapShipping, TapCash, TapOrder, Poll
  <2>2. [pc |-> "sent", kind |-> kind, page |-> page, from |-> from, to |-> to,
         moved |-> moves # from.since, cart |-> None] \in Request
    BY <2>1 DEF Request
  <2>. QED BY <1>3, <2>1, <2>2 DEF Ask
<1>5. ASSUME NEW q \in Slots, ServeStep(q) \/ ServeOrder(q) \/ ServeError(q)
      PROVE  ReqsInv'
  <2>. DEFINE r == reqs[q]
  <2>1. r # Idle
    BY <1>5 DEF ServeStep, ServeOrder, ServeError, Sent
  <2>2. r \in Request /\ r.to \in Owners \union {None}
    BY <2>1, RequestTyped
  <2>3. r.to # None => KeyOf(r.to) \in Key
    BY <1>1, <2>2, KeyFacts
  <2>4. \/ r.to # None /\ reqs' = [reqs EXCEPT ![q] = [r EXCEPT !.pc = "ok", !.cart = KeyOf(r.to)]]
        \/ reqs' = [reqs EXCEPT ![q] = [r EXCEPT !.pc = "failed"]]
        \/ reqs' = [reqs EXCEPT ![q] = [r EXCEPT !.pc = "down"]]
    BY <1>1, <1>5 DEF ServeStep, ServeOrder, ServeError
  <2>5. /\ [r EXCEPT !.pc = "failed"] \in Request /\ [r EXCEPT !.pc = "down"] \in Request
        /\ r.to # None => [r EXCEPT !.pc = "ok", !.cart = KeyOf(r.to)] \in Request
    BY <2>2, <2>3 DEF Request
  <2>. QED BY <1>3, <2>4, <2>5
<1>6. ASSUME NEW q \in Slots,
             \/ Lose(q) \/ AnswerAddress(q) \/ AnswerShipping(q) \/ AnswerPayment(q)
             \/ AnswerPoll(q) \/ AnswerOrder(q)
      PROVE  ReqsInv'
  BY <1>3, <1>6
     DEF Lose, AnswerAddress, AnswerShipping, AnswerPayment, AnswerPoll, AnswerOrder, Finish
<1>7. CASE Back
  <2>1. reqs' = [q \in Slots |-> IF reqs[q] # Idle /\ reqs[q].page = Depth
                                 THEN [reqs[q] EXCEPT !.page = 0] ELSE reqs[q]]
    BY <1>7 DEF Back
  <2>2. ASSUME NEW q \in Slots PROVE reqs'[q] \in {Idle} \union Request
    <3>1. reqs[q] \in {Idle} \union Request
      BY <1>1
    <3>2. reqs[q] \in Request => [reqs[q] EXCEPT !.page = 0] \in Request
      BY <1>2 DEF Request
    <3>. QED BY <2>1, <3>1, <3>2
  <2>. QED BY <2>1, <2>2 DEF ReqsInv
<1>8. CASE UNCHANGED reqs
  BY <1>1, <1>8 DEF ReqsInv
<1>. QED BY <1>4, <1>5, <1>6, <1>7, <1>8
     DEF Next, TapCheckOut, GoHome, AddGoods, OpenSignIn, SignIn, Rearm

LEMMA BoundedStep == IInv /\ Bounded /\ [Next]_vars => Bounded'
<1>. SUFFICES ASSUME IInv, Bounded, [Next]_vars PROVE Bounded'
  OBVIOUS
<1>1. CASE Next
  BY ONLY IInv, Bounded, <1>1, RoomStep, CartsStep, HistoryStep, PagesStep, ReqsStep DEF Bounded
<1>2. CASE UNCHANGED vars
  <2>1. Pushing' = Pushing /\ Failing' = Failing
    BY <1>2 DEF vars, Pushing, Failing
  <2>. QED BY <1>2, <2>1 DEF vars, Bounded, RoomInv, CartsInv, HistoryInv, ReqsInv
<1>. QED BY <1>1, <1>2

(***************************************************************************)
(* The checkout keeps its types: no answer pushes a page beyond the depth, *)
(* a request names the page that sent it, or none when that page is gone,  *)
(* and carts, pages and orders name carts that the owner has filled.       *)
(***************************************************************************)
THEOREM CheckoutTypes == Spec => []TypeOK
<1>1. IInv /\ Bounded => TypeOK
  <2>. SUFFICES ASSUME IInv, Bounded PROVE TypeOK
    OBVIOUS
  <2>1. login \in Users \union {None} /\ cookie \in Sessions \union {None}
    BY DEF IInv, Typed, World, Worlds
  <2>2. /\ Len(pages) \in 1..MaxDepth
        /\ \A k \in DOMAIN pages : pages[k] \in Page
    BY DepthBound DEF Bounded
  <2>3. ASSUME NEW q \in Slots
        PROVE  /\ reqs[q] = Idle \/ reqs[q] \in Request
               /\ reqs[q] # Idle => reqs[q].page <= Len(pages)
    BY Served DEF Bounded, ReqsInv
  <2>. QED BY <2>1, <2>2, <2>3 DEF TypeOK, Bounded, HistoryInv, CartsInv
<1>2. Spec => []Bounded
  BY InitBounded, BoundedStep, Invariant, PTL DEF Spec
<1>. QED BY <1>1, <1>2, Invariant, PTL
=============================================================================
