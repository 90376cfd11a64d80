----------------------------- MODULE GuestCart ------------------------------
(***************************************************************************)
(* Adding to the cart, and the identity an add is made under.              *)
(*                                                                         *)
(* A signed-in shopper's requests carry a bearer token; a guest's carry    *)
(* the cookie kept in the preference "GuestUserCookies".  A guest without  *)
(* a cookie posts without one, the shop opens a session and names it in    *)
(* set-cookie, and AddToCart stores it when the answer arrives - some time *)
(* after the decision to post without a cookie was taken.                  *)
(*                                                                         *)
(* An add is identified by its call c: carts[o] is the set of calls the    *)
(* shop has put into the cart of owner o.  Which product, and how many of  *)
(* it, no property depends on.                                             *)
(***************************************************************************)
CONSTANTS Calls,         \* the taps on an add-to-cart button, each used once
          Sessions,      \* guest sessions the shop can open
          Users,         \* customer accounts
          None           \* an absent preference

ASSUME NoneAssumption == None \notin Sessions \union Users
ASSUME DisjointAssumption == Sessions \cap Users = {}

VARIABLES cookie,        \* preference "GuestUserCookies"
          login,         \* preferences "UserID" and "loggedIntoken"
          calls,         \* one record per add, see Call
          carts,         \* the shop: owner -> adds in that cart
          opened,        \* the shop: sessions it has opened
          expired,       \* the shop: sessions it has forgotten
          dropped,       \* history: cookies a sign-out threw away
          overlapped     \* history: two adds without a cookie were once
                         \* in flight together

vars == <<cookie, login, calls, carts, opened, expired, dropped, overlapped>>

Owners == Sessions \union Users

(***************************************************************************)
(* to:   the identity sent with the request, None when there was no cookie *)
(* into: the owner of the cart the shop used (it names it in set-cookie)   *)
(***************************************************************************)
Call == [pc   : {"idle", "sent", "ok", "refused", "crashed",
                 "toast", "serverError", "lost"},
         to   : Owners \union {None},
         into : Owners \union {None}]

TypeOK ==
  /\ cookie \in Sessions \union {None}
  /\ login \in Users \union {None}
  /\ calls \in [Calls -> Call]
  /\ carts \in [Owners -> SUBSET Calls]
  /\ opened \subseteq Sessions
  /\ expired \subseteq opened
  /\ dropped \subseteq opened
  /\ overlapped \in BOOLEAN

Init ==
  /\ cookie = None
  /\ login = None
  /\ calls = [c \in Calls |-> [pc |-> "idle", to |-> None, into |-> None]]
  /\ carts = [o \in Owners |-> {}]
  /\ opened = {}
  /\ expired = {}
  /\ dropped = {}
  /\ overlapped = FALSE

-----------------------------------------------------------------------------
(* The client: sending an add                                              *)

InFlight(c) == calls[c].pc \in {"sent", "ok", "refused", "crashed"}

\* An add whose answer, if it is a 200, will set the cookie.
Opening(c) == InFlight(c) /\ calls[c].to = None

\* Fault for the mutant runs: the stored cookie is not looked at.
IdentityWithoutCookie == IF login # None THEN login ELSE None

\* Whose cart AddToCart addresses: the token, else the cookie, else nobody's.
Identity == IF login # None THEN login ELSE cookie

AddToCart(c) ==
  /\ calls[c].pc = "idle"
  /\ calls' = [calls EXCEPT ![c] =
                 [pc |-> "sent", to |-> Identity, into |-> None]]
  /\ overlapped' = (overlapped \/ (Identity = None /\ \E d \in Calls : Opening(d)))
  /\ UNCHANGED <<cookie, login, carts, opened, expired, dropped>>

\* A tile of the home page, of a category, of a search or filter result.
AddFromCatalogue(c) == AddToCart(c)

\* The product page: a signed-in shopper who picked a variant gets a toast
\* and nothing is sent, so the add is only made without one.
AddFromDetails(c, variant) == (login = None \/ ~variant) /\ AddToCart(c)

\* A tile of a slider's product list sends a guest to the sign-in page.
AddFromSlider(c) == login # None /\ AddToCart(c)

-----------------------------------------------------------------------------
(* The shop (external): one request is served at a time                    *)

Alive(s) == s \in opened \ expired

ServeKnown(c) ==
  /\ calls[c].pc = "sent"
  /\ \/ calls[c].to \in Users
     \/ calls[c].to # None /\ Alive(calls[c].to)
  /\ carts' = [carts EXCEPT ![calls[c].to] = @ \union {c}]
  /\ calls' = [calls EXCEPT ![c].pc = "ok", ![c].into = calls[c].to]
  /\ UNCHANGED <<cookie, login, opened, expired, dropped, overlapped>>

\* No cookie, or one the shop does not know any more: a new session.
ServeFresh(c, s) ==
  /\ calls[c].pc = "sent"
  /\ calls[c].to \notin Users
  /\ calls[c].to = None \/ ~Alive(calls[c].to)
  /\ s \in Sessions \ opened
  /\ opened' = opened \union {s}
  /\ carts' = [carts EXCEPT ![s] = {c}]
  /\ calls' = [calls EXCEPT ![c].pc = "ok", ![c].into = s]
  /\ UNCHANGED <<cookie, login, expired, dropped, overlapped>>

\* Nothing is added: a 4xx answer (out of stock, ...) or a 500.
ServeError(c) ==
  /\ calls[c].pc = "sent"
  /\ \E answer \in {"refused", "crashed"} :
        calls' = [calls EXCEPT ![c].pc = answer]
  /\ UNCHANGED <<cookie, login, carts, opened, expired, dropped, overlapped>>

\* The shop forgets a guest session and its cart.
Expire(s) ==
  /\ Alive(s)
  /\ expired' = expired \union {s}
  /\ carts' = [carts EXCEPT ![s] = {}]
  /\ UNCHANGED <<cookie, login, calls, opened, dropped, overlapped>>

-----------------------------------------------------------------------------
(* The client: the answer of an add                                        *)

\* Fault for the mutant runs: every 200 stores its set-cookie.
AnswerOkAlwaysStores(c) ==
  /\ calls[c].pc = "ok"
  /\ cookie' = calls[c].into
  /\ calls' = [calls EXCEPT ![c].pc = "toast"]
  /\ UNCHANGED <<login, carts, opened, expired, dropped, overlapped>>

\* 200: only an add that went out without identity stores set-cookie, over
\* whatever the preference holds by now; the message is shown.
AnswerOk(c) ==
  /\ calls[c].pc = "ok"
  /\ cookie' = IF calls[c].to = None THEN calls[c].into ELSE cookie
  /\ calls' = [calls EXCEPT ![c].pc = "toast"]
  /\ UNCHANGED <<login, carts, opened, expired, dropped, overlapped>>

\* 500 opens the server-error page, any other status shows the message.
AnswerError(c) ==
  /\ calls[c].pc \in {"refused", "crashed"}
  /\ calls' = [calls EXCEPT ![c].pc =
                 IF @ = "crashed" THEN "serverError" ELSE "toast"]
  /\ UNCHANGED <<cookie, login, carts, opened, expired, dropped, overlapped>>

\* The connection breaks (before or after the shop served the request): the
\* http call throws, nothing is stored or shown.
Lose(c) ==
  /\ InFlight(c)
  /\ calls' = [calls EXCEPT ![c].pc = "lost"]
  /\ UNCHANGED <<cookie, login, carts, opened, expired, dropped, overlapped>>

-----------------------------------------------------------------------------
(* The client: identity                                                    *)

\* Signing in writes the token and leaves the guest's cookie where it is.
SignIn(u) ==
  /\ login = None
  /\ login' = u
  /\ UNCHANGED <<cookie, calls, carts, opened, expired, dropped, overlapped>>

ClearPreferences ==
  /\ cookie' = None
  /\ login' = None
  /\ dropped' = dropped \union ({cookie} \ {None})
  /\ UNCHANGED <<calls, carts, opened, expired, overlapped>>

SignOut == login # None /\ ClearPreferences

\* The profile page's "Log In" entry clears the preferences of a guest too.
OpenSignIn == login = None /\ ClearPreferences

-----------------------------------------------------------------------------
Next ==
  \/ \E c \in Calls :
       \/ AddFromCatalogue(c) \/ AddFromSlider(c)
       \/ \E variant \in BOOLEAN : AddFromDetails(c, variant)
       \/ ServeKnown(c) \/ ServeError(c)
       \/ \E s \in Sessions : ServeFresh(c, s)
       \/ AnswerOk(c) \/ AnswerError(c) \/ Lose(c)
  \/ \E s \in Sessions : Expire(s)
  \/ \E u \in Users : SignIn(u)
  \/ SignOut \/ OpenSignIn

Spec == Init /\ [][Next]_vars

-----------------------------------------------------------------------------
(* Properties                                                              *)

\* The shopper was told that the add succeeded.
Acknowledged(c) == calls[c].pc = "toast" /\ calls[c].into # None

Excused(c) ==
  \/ calls[c].into \in dropped
  \/ {calls[c].into, calls[c].to} \cap expired # {}
  \/ overlapped

(***************************************************************************)
(* No acknowledged guest add is lost: it is in the cart the stored cookie  *)
(* leads to, unless the shopper signed out, the shop forgot the session,   *)
(* or two adds raced to open the first session.  The last excuse is a real *)
(* defect of AddToCart (the loser's goods are stranded); the invariant     *)
(* says that it is the only one of its kind.                               *)
(***************************************************************************)
AcknowledgedAddsKept ==
  \A c \in Calls :
    Acknowledged(c) /\ calls[c].to \notin Users =>
      \/ cookie # None /\ c \in carts[cookie]
      \/ Excused(c)

(***************************************************************************)
(* A cookie thrown away by a sign-out never comes back, whatever answers   *)
(* were still on their way when the preferences were cleared.              *)
(***************************************************************************)
DroppedStaysDropped == cookie \notin dropped

(***************************************************************************)
(* Once there is a cookie, only a sign-out takes it away: no late answer   *)
(* of AddToCart exchanges it for another session, except after a race of   *)
(* first adds.                                                             *)
(***************************************************************************)
SettledCookie ==
  [][cookie # None /\ ~overlapped => cookie' \in {cookie, None}]_vars

(***************************************************************************)
(* The inductive invariant behind the properties above.                    *)
(***************************************************************************)
\* Only sessions the shop opened are named by answers and by the cookie.
SessionsInv ==
  /\ cookie \in opened \union {None}
  /\ \A c \in Calls :
       /\ {calls[c].to, calls[c].into} \cap Sessions \subseteq opened
       /\ calls[c].pc \in {"idle", "sent", "refused", "crashed"} => calls[c].into = None
       /\ calls[c].pc = "ok" => calls[c].into # None
       /\ calls[c].to \notin Users => calls[c].into \notin Users

\* An opening add in flight next to another one, or next to a cookie, has
\* been noticed as a race.
RaceInv ==
  \A c \in Calls : Opening(c) =>
    /\ cookie # None => overlapped
    /\ \A d \in Calls \ {c} : Opening(d) => overlapped

\* Where the acknowledged goods, and the adds under way, are to be found.
HomeInv ==
  \A c \in Calls :
    /\ calls[c].into # None => c \in carts[calls[c].into] \/ calls[c].into \in expired
    /\ InFlight(c) /\ calls[c].to \in Sessions =>
         calls[c].to \in {cookie} \union dropped \/ overlapped
    /\ calls[c].to \in Sessions =>
         calls[c].into \in {None, calls[c].to} \/ calls[c].to \in expired
    /\ Acknowledged(c) /\ calls[c].to \notin Users =>
         calls[c].into = cookie \/ Excused(c)

\* The session an opening add is about to store is nobody else's.
FreshInv ==
  \A c \in Calls : Opening(c) /\ calls[c].pc = "ok" =>
    /\ calls[c].into \notin {cookie} \union dropped
    /\ \A d \in Calls \ {c} : calls[c].into \notin {calls[d].to, calls[d].into}

\* An add is in no other cart than the one the shop put it into.
CartsInv == \A o \in Owners : \A c \in carts[o] : calls[c].into = o

IInv ==
  /\ TypeOK /\ SessionsInv /\ CartsInv
  /\ RaceInv /\ HomeInv /\ FreshInv /\ DroppedStaysDropped

(***************************************************************************)
(* Until first adds race, the basket behind the cookie is one basket: an   *)
(* add puts a thing into it, and it is otherwise only emptied as a whole.  *)
(* A race, from which on AddToCart may exchange it, counts as its end.     *)
(***************************************************************************)
TheBasket == IF cookie = None \/ overlapped THEN {} ELSE carts[cookie]

B == INSTANCE Basket WITH Things <- Calls, basket <- TheBasket

BasketSpec == B!Spec
=============================================================================
