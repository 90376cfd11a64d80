------------------------------ MODULE Catalogue -------------------------------
(***************************************************************************)
(* A page of products with hearts, for a customer who is signed in: the    *)
(* products of a category, or the featured ones.  A heart asks the shop to *)
(* put its product on the wishlist; after the answer the page fetches its  *)
(* products anew, with the marks of those on the wishlist.                 *)
(*                                                                         *)
(*  - The category page empties its list before it fetches, and hides      *)
(*    behind its loader for five seconds; "No Product Found" is what an    *)
(*    empty list looks like, whether it is still fetched or never will be. *)
(*  - The featured page keeps showing what it has.                         *)
(*  - Answers of several fetches are shown in the order they come in.      *)
(***************************************************************************)
EXTENDS Integers, FiniteSets

CONSTANTS Products,
          Calls,         \* requests that can be under way at a time
          MaxTaps,       \* bound: hearts tapped, here and elsewhere
          MaxFaults      \* bound: requests refused without an answer, or lost

ASSUME CatalogueBounds == {MaxTaps, MaxFaults} \subseteq Nat

VARIABLES wish,          \* the products on the wishlist
          page,          \* the page that is open
          calls,         \* the requests under way
          taps, faults,  \* how much of the bounds is used up
          overlap,       \* history: a heart tapped, or the page opened, while a
                         \* request was under way
          elsewhere      \* history: the wishlist changed by another page

catalogueVars == <<wish, page, calls, taps, faults, overlap, elsewhere>>

\* Whether the list has products, which are always the same, and their marks.
Page == [kind : {"category", "featured"}, filled : BOOLEAN,
         marks : SUBSET Products, loading : BOOLEAN]
NoPage == [kind |-> "none"]

Free == [pc |-> "idle"]
Call == [pc    : {"sent", "ok"},
         kind  : {"list", "heart"},
         of    : SUBSET Products,        \* the product of a heart
         marks : SUBSET Products,        \* the answer of a list
         alive : BOOLEAN]                \* its page is still open

CatalogueTypeOK ==
  /\ wish \subseteq Products
  /\ page = NoPage \/ page \in Page
  /\ \A q \in Calls : \/ calls[q] = Free
                      \/ calls[q] \in Call /\ (calls[q].alive => page # NoPage)
  /\ taps \in 0..MaxTaps /\ faults \in 0..MaxFaults
  /\ overlap \in BOOLEAN /\ elsewhere \in BOOLEAN

Open == page # NoPage
Pending(q) == calls[q] # Free
Shows == Open /\ ~page.loading /\ page.filled
Waiting == \E q \in Calls : Pending(q) /\ calls[q].alive

CatalogueInit ==
  /\ wish = {} /\ page = NoPage
  /\ calls = [q \in Calls |-> Free]
  /\ taps = 0 /\ faults = 0 /\ overlap = FALSE /\ elsewhere = FALSE

Called(kind, of) ==
  [pc |-> "sent", kind |-> kind, of |-> of, marks |-> {}, alive |-> TRUE]

-----------------------------------------------------------------------------
(* The page                                                                *)

OpenPage(q, kind) ==
  /\ ~Open /\ ~Pending(q)
  /\ page' = [kind |-> kind, filled |-> FALSE, marks |-> {}, loading |-> TRUE]
  /\ calls' = [calls EXCEPT ![q] = Called("list", {})]
  /\ elsewhere' = FALSE /\ overlap' = (\E r \in Calls : Pending(r))
  /\ UNCHANGED <<wish, taps, faults>>

LeavePage ==
  /\ Open
  /\ page' = NoPage
  /\ calls' = [q \in Calls |-> IF Pending(q) THEN [calls[q] EXCEPT !.alive = FALSE] ELSE Free]
  /\ UNCHANGED <<wish, taps, faults, overlap, elsewhere>>

\* The five seconds of the loader are over.
LoaderEnds ==
  /\ Open /\ page.loading
  /\ page' = [page EXCEPT !.loading = FALSE]
  /\ UNCHANGED <<wish, calls, taps, faults, overlap, elsewhere>>

TapHeart(q, p) ==
  /\ Shows /\ ~Pending(q) /\ taps < MaxTaps
  /\ taps' = taps + 1
  /\ calls' = [calls EXCEPT ![q] = Called("heart", {p})]
  /\ overlap' = (overlap \/ Waiting)
  /\ UNCHANGED <<wish, page, faults, elsewhere>>

\* A page on top of this one, or another device.
ChangeElsewhere(p) ==
  /\ taps < MaxTaps
  /\ taps' = taps + 1
  /\ wish' = (wish \ {p}) \union ({p} \ wish)
  /\ elsewhere' = TRUE
  /\ UNCHANGED <<page, calls, faults, overlap>>

-----------------------------------------------------------------------------
(* The shop (external)                                                     *)

\* A product that is on the wishlist already changes nothing but the message.
Serve(q) ==
  /\ Pending(q) /\ calls[q].pc = "sent"
  /\ wish' = wish \union calls[q].of
  /\ calls' = [calls EXCEPT ![q] = [@ EXCEPT !.pc = "ok", !.marks = wish]]
  /\ UNCHANGED <<page, taps, faults, overlap, elsewhere>>

\* A broken connection, or a 500, whose missing answer ends the handler.  The
\* error page a 500 also opens leaves this page as it is.
LoseCall(q) ==
  /\ Pending(q)
  /\ faults < MaxFaults /\ faults' = faults + 1
  /\ calls' = [calls EXCEPT ![q] = Free]
  /\ UNCHANGED <<wish, page, taps, overlap, elsewhere>>

-----------------------------------------------------------------------------
(* The answers                                                             *)

Answered(q, kind) == Pending(q) /\ calls[q].pc = "ok" /\ calls[q].kind = kind

\* Fault for the mutant runs: the list is shown with the marks it had.
AnswerListOnce(q) ==
  /\ Answered(q, "list")
  /\ calls' = [calls EXCEPT ![q] = Free]
  /\ page' = IF calls[q].alive /\ ~page.filled
             THEN [page EXCEPT !.filled = TRUE, !.marks = calls[q].marks] ELSE page
  /\ UNCHANGED <<wish, taps, faults, overlap, elsewhere>>

AnswerList(q) ==
  /\ Answered(q, "list")
  /\ calls' = [calls EXCEPT ![q] = Free]
  /\ page' = IF calls[q].alive
             THEN [page EXCEPT !.filled = TRUE, !.marks = calls[q].marks] ELSE page
  /\ UNCHANGED <<wish, taps, faults, overlap, elsewhere>>

\* What the page does with its list before it fetches a new one.
Refreshed ==
  IF page.kind = "category"
  THEN [page EXCEPT !.filled = FALSE, !.marks = {}, !.loading = TRUE] ELSE page

\* Fault for the mutant runs: the list is emptied and not fetched again.
AnswerHeartNoFetch(q) ==
  /\ Answered(q, "heart")
  /\ calls' = [calls EXCEPT ![q] = Free]
  /\ page' = IF calls[q].alive THEN Refreshed ELSE page
  /\ UNCHANGED <<wish, taps, faults, overlap, elsewhere>>

\* The message, and a new fetch if the page is still there.
AnswerHeart(q) ==
  /\ Answered(q, "heart")
  /\ calls' = [calls EXCEPT ![q] = IF calls[q].alive THEN Called("list", {}) ELSE Free]
  /\ page' = IF calls[q].alive THEN Refreshed ELSE page
  /\ UNCHANGED <<wish, taps, faults, overlap, elsewhere>>

Answer(q) == AnswerList(q) \/ AnswerHeart(q)

-----------------------------------------------------------------------------
CatalogueNext ==
  \/ \E q \in Calls : \/ \E kind \in {"category", "featured"} : OpenPage(q, kind)
                      \/ \E p \in Products : TapHeart(q, p)
                      \/ Serve(q) \/ Answer(q) \/ LoseCall(q)
  \/ LeavePage \/ LoaderEnds
  \/ \E p \in Products : ChangeElsewhere(p)

CatalogueSpec == CatalogueInit /\ [][CatalogueNext]_catalogueVars

\* Requests are answered, answers handled, and the loader's timer fires.
Fairness ==
  /\ WF_catalogueVars(LoaderEnds)
  /\ \A q \in Calls : WF_catalogueVars(Serve(q)) /\ WF_catalogueVars(Answer(q))

FairCatalogueSpec == CatalogueSpec /\ Fairness

-----------------------------------------------------------------------------
(* Properties                                                              *)

(***************************************************************************)
(* When nothing is under way the marks a page shows are the wishlist,      *)
(* unless hearts were tapped while a request was under way - the older of  *)
(* two fetches may then come last - the wishlist was changed elsewhere, or *)
(* a request was lost.                                                     *)
(***************************************************************************)
MarksFollow ==
  Open /\ ~Waiting /\ ~overlap /\ ~elsewhere /\ faults = 0
    => page.filled /\ page.marks = wish

(***************************************************************************)
(* An open page comes to show products: however hearts and answers         *)
(* interleave, no list that was emptied stays so, unless a request is lost *)
(* or the page is left.                                                    *)
(***************************************************************************)
ProductsComeBack == Open /\ faults = 0 ~> Shows \/ ~Open \/ faults > 0
=============================================================================
