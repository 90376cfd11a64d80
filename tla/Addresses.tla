------------------------------ MODULE Addresses ------------------------------
(***************************************************************************)
(* The shopper's addresses: the form that adds one, the list they are      *)
(* deleted from, and the form that edits one, on the navigator's stack.    *)
(*                                                                         *)
(* A list page keeps its own copy of the addresses (`address`).  An answer *)
(* replaces the copy without a setState, so that what is drawn stays what  *)
(* it was: rows are drawn when the five seconds of the loader are over,    *)
(* and again when a deletion is answered - just before the copy is fetched *)
(* again.  A tap goes to the row's index in the copy as it is by then, and *)
(* not to the row that is drawn.                                           *)
(***************************************************************************)
EXTENDS Integers, Sequences, SequencesExt, FiniteSets, Functions

CONSTANTS Values,        \* what an address can say
          Blank,         \* a form with a field left empty
          Slots,         \* requests that can be under way at a time
          MaxIds,        \* bound: addresses the shop ever has
          MaxPages,      \* bound: pages on the stack
          MaxEvents      \* bound: changes the shopper makes, and requests
                         \* refused or lost, together

ASSUME BlankAssumption == Blank \notin Values
ASSUME BoundsAssumption ==
  {MaxIds, MaxPages} \subseteq Nat \ {0} /\ MaxEvents \in Nat

Ids == 1..MaxIds
Row == [id : Ids, val : Values]

VARIABLES shop,          \* the addresses at the shop, in its order
          born,          \* the last id the shop has given
          pages,         \* the navigator's stack, the top page last
          reqs,          \* the requests under way
          events,        \* how much of MaxEvents is used up
          want,          \* history: the addresses the shopper means to have,
                         \* until it is excused
          excused        \* history: the shopper did not wait (see Change), or
                         \* a request was refused or lost

vars == <<shop, born, pages, reqs, events, want, excused>>

\* deleted: history: a deletion was asked for on this page
\* missing: history: the addresses the shop no longer had when it was opened
ListPage == [kind : {"list"}, have : Seq(Row), shown : Seq(Row),
             ready : BOOLEAN, deleted : BOOLEAN, missing : SUBSET Ids]

\* meant: history: the row the edit icon was tapped at, 0 for a new address
\* typed: history: what the shopper typed last
Form == [kind : {"add", "edit"}, id : {0} \union Ids, meant : {0} \union Ids,
         field : Values \union {Blank}, typed : Values \union {Blank},
         enabled : BOOLEAN]

Changing == {"delete", "edit", "add"}
Idle == [pc |-> "idle"]
Request == [pc   : {"sent", "ok", "refused"},
            kind : Changing \union {"list", "fetch"},
            page : 0..MaxPages,          \* the page that asked, 0: gone
            id   : {0} \union Ids,
            val  : Values \union {Blank},
            rows : Seq(Row)]             \* the answer of a list

Error == [kind |-> "error"]

TypeOK ==
  /\ shop \in Seq(Row) /\ born \in {0} \union Ids
  /\ pages \in Seq(ListPage \union Form \union {Error}) /\ Len(pages) \in 1..MaxPages
  /\ reqs \in [Slots -> {Idle} \union Request]
  /\ events \in 0..MaxEvents
  /\ want \subseteq Row /\ excused \in BOOLEAN

IdsOf(rows) == {r.id : r \in ToSet(rows)}
ValOf(rows, id) == (CHOOSE r \in ToSet(rows) : r.id = id).val
Top == Last(pages)
Busy(q) == reqs[q] # Idle
UnderWay == \E q \in Slots : Busy(q) /\ reqs[q].kind \in Changing

NewForm(kind, id, meant) ==
  [kind |-> kind, id |-> id, meant |-> meant, field |-> Blank, typed |-> Blank,
   enabled |-> TRUE]

\* "Shiping" of the profile page opens the form for a new address.  No two
\* addresses say the same.
Init ==
  /\ born \in 0..MaxIds
  /\ \E f \in Injection(1..born, Values) :
       shop = [i \in 1..born |-> [id |-> i, val |-> f[i]]]
  /\ want = ToSet(shop)
  /\ pages = <<NewForm("add", 0, 0)>>
  /\ reqs = [q \in Slots |-> Idle]
  /\ events = 0 /\ excused = FALSE

-----------------------------------------------------------------------------
(* The pages                                                               *)

Sent(kind, page, id, val) ==
  [pc |-> "sent", kind |-> kind, page |-> page, id |-> id, val |-> val, rows |-> <<>>]

\* MaxPages leaves room for the list that the answer of a form pushes.
Room == Len(pages) + Cardinality({q \in Slots : Busy(q) /\ reqs[q].kind \in {"add", "edit"}})
          < MaxPages

\* Fault for the mutant runs: the addresses are kept for the next list page.
NewListCached ==
  [kind |-> "list", ready |-> FALSE, deleted |-> FALSE, shown |-> <<>>,
   missing |-> 1..born \ IdsOf(shop),
   have |-> IF \E k \in DOMAIN pages : pages[k].kind = "list"
            THEN Last(SelectSeq(pages, LAMBDA p : p.kind = "list")).have ELSE <<>>]

NewList == [kind |-> "list", have |-> <<>>, shown |-> <<>>, ready |-> FALSE,
            deleted |-> FALSE, missing |-> 1..born \ IdsOf(shop)]

\* initState of a list page that is pushed over `below`: addressget.
PushList(q, below) ==
  /\ pages' = Append(below, NewList)
  /\ reqs' = [reqs EXCEPT ![q] = Sent("list", Len(below) + 1, 0, Blank)]

\* The list icon of the form.
OpenList(q) ==
  /\ Top.kind = "add" /\ ~Busy(q) /\ Room
  /\ PushList(q, pages)
  /\ UNCHANGED <<shop, born, events, want, excused>>

\* "Add Address", which an empty list shows.
OpenForm ==
  /\ Top.kind = "list" /\ Top.ready /\ Top.shown = <<>> /\ Room
  /\ pages' = Append(pages, NewForm("add", 0, 0))
  /\ UNCHANGED <<shop, born, reqs, events, want, excused>>

\* The five seconds of a list page's loader are over: the copy is drawn.
LoaderEnds(k) ==
  /\ pages[k].kind = "list" /\ ~pages[k].ready
  /\ pages' = [pages EXCEPT ![k] = [@ EXCEPT !.ready = TRUE, !.shown = pages[k].have]]
  /\ UNCHANGED <<shop, born, reqs, events, want, excused>>

Back ==
  /\ Len(pages) > 1
  /\ pages' = Front(pages)
  /\ reqs' = [q \in Slots |-> IF Busy(q) /\ reqs[q].page = Len(pages)
                              THEN [reqs[q] EXCEPT !.page = 0] ELSE reqs[q]]
  /\ UNCHANGED <<shop, born, events, want, excused>>

\* What the shopper means to have, until it is excused.
Mean(wanted, excuse) ==
  /\ excused' = (excused \/ excuse)
  /\ want' = IF excused' THEN {} ELSE wanted

Filling == \E q \in Slots : Busy(q) /\ reqs[q].kind = "fetch" /\ reqs[q].page = Len(pages)

Type(v) ==
  /\ Top.kind \in {"add", "edit"} /\ Top.typed # v
  /\ Mean(want, Filling)
  /\ pages' = [pages EXCEPT ![Len(pages)] = [@ EXCEPT !.field = v, !.typed = v]]
  /\ UNCHANGED <<shop, born, reqs, events>>

-----------------------------------------------------------------------------
(* Changes, up to their await                                              *)

Event == events < MaxEvents /\ events' = events + 1
Fault == Event /\ Mean({}, TRUE)

\* A change that leaves the shopper meaning to have `wanted`.  Not to wait:
\* for the change before, for a form to be filled in (Type), for a new list
\* page after a deletion.
Change(q, wanted, impatient) ==
  /\ ~Busy(q) /\ Event
  /\ Mean(wanted, UnderWay \/ impatient)
  /\ UNCHANGED <<shop, born>>

\* Row i of the list can be tapped: it is drawn, and the copy reaches to it
\* (beyond that, the handler ends in a RangeError).
Tappable(i) == Top.kind = "list" /\ Top.ready /\ i \in DOMAIN Top.shown \cap DOMAIN Top.have

\* Fault for the mutant runs: the first row of the copy is deleted.
TapDeleteFirst(q, i) ==
  /\ Tappable(i)
  /\ Change(q, {r \in want : r.id # Top.shown[i].id}, Top.deleted)
  /\ reqs' = [reqs EXCEPT ![q] = Sent("delete", Len(pages), Top.have[1].id, Blank)]
  /\ pages' = [pages EXCEPT ![Len(pages)] = [@ EXCEPT !.deleted = TRUE]]

TapDelete(q, i) ==
  /\ Tappable(i)
  /\ Change(q, {r \in want : r.id # Top.shown[i].id}, Top.deleted)
  /\ reqs' = [reqs EXCEPT ![q] = Sent("delete", Len(pages), Top.have[i].id, Blank)]
  /\ pages' = [pages EXCEPT ![Len(pages)] = [@ EXCEPT !.deleted = TRUE]]

\* The edit icon pushes a form, which fetches the address it is given.
TapEdit(q, i) ==
  /\ Tappable(i) /\ ~Busy(q) /\ Room
  /\ pages' = Append(pages, NewForm("edit", Top.have[i].id, Top.shown[i].id))
  /\ reqs' = [reqs EXCEPT ![q] = Sent("fetch", Len(pages) + 1, Top.have[i].id, Blank)]
  /\ Mean(want, Top.deleted)
  /\ UNCHANGED <<shop, born, events>>

\* What the shopper means a form to save.
Meant == IF Top.typed = Blank THEN Top.field ELSE Top.typed

\* "Continue" of the edit form, with every field filled in.
SaveEdit(q) ==
  /\ Top.kind = "edit" /\ Top.field # Blank /\ Room
  /\ Change(q, {IF r.id = Top.meant THEN [r EXCEPT !.val = Meant] ELSE r : r \in want},
            FALSE)
  /\ reqs' = [reqs EXCEPT ![q] = Sent("edit", Len(pages), Top.id, Top.field)]
  /\ UNCHANGED pages

Adding == {q \in Slots : Busy(q) /\ reqs[q].kind = "add"}

Disabled == [pages EXCEPT ![Len(pages)] = [@ EXCEPT !.enabled = FALSE]]

\* Fault for the mutant runs: the fields are not validated.
SaveNewUnvalidated(q) ==
  /\ Top.kind = "add" /\ Top.enabled /\ Room
  /\ born + Cardinality(Adding) < MaxIds
  /\ Change(q, want, FALSE)
  /\ reqs' = [reqs EXCEPT ![q] = Sent("add", Len(pages), 0, Top.field)]
  /\ pages' = Disabled

\* "Continue" of the form for a new address: disabled for five seconds.
SaveNew(q) ==
  /\ Top.kind = "add" /\ Top.enabled /\ Top.field # Blank /\ Room
  /\ born + Cardinality(Adding) < MaxIds
  /\ Change(q, want \union {[id |-> born + 1, val |-> Meant]}, FALSE)
  /\ reqs' = [reqs EXCEPT ![q] = Sent("add", Len(pages), 0, Top.field)]
  /\ pages' = Disabled

\* The same with a field left empty: nothing is sent.
SaveInvalid ==
  /\ Top.kind = "add" /\ Top.enabled /\ Top.field = Blank
  /\ pages' = Disabled
  /\ UNCHANGED <<shop, born, reqs, events, want, excused>>

ButtonTimer(k) ==
  /\ pages[k].kind = "add" /\ ~pages[k].enabled
  /\ pages' = [pages EXCEPT ![k] = [@ EXCEPT !.enabled = TRUE]]
  /\ UNCHANGED <<shop, born, reqs, events, want, excused>>

-----------------------------------------------------------------------------
(* The shop (external)                                                     *)

At(q, pc, kinds) == Busy(q) /\ reqs[q].pc = pc /\ reqs[q].kind \in kinds

\* The address a request names is not, or no longer, there.
Unknown(r) == r.kind \in {"fetch", "delete", "edit"} /\ r.id \notin IdsOf(shop)

Answered(q) == [reqs[q] EXCEPT !.pc = "ok"]

ServeRead(q) ==
  /\ At(q, "sent", {"list", "fetch"}) /\ ~Unknown(reqs[q])
  /\ reqs' = [reqs EXCEPT ![q] =
                IF reqs[q].kind = "list"
                THEN [Answered(q) EXCEPT !.rows = shop]
                ELSE [Answered(q) EXCEPT !.val = ValOf(shop, reqs[q].id)]]
  /\ UNCHANGED <<shop, born, pages, events, want, excused>>

ServeChange(q) ==
  LET r == reqs[q] IN
  /\ At(q, "sent", Changing) /\ ~Unknown(r)
  /\ \/ /\ r.kind = "delete"
        /\ shop' = RemoveAt(shop, CHOOSE i \in DOMAIN shop : shop[i].id = r.id)
        /\ UNCHANGED born
     \/ /\ r.kind = "edit"
        /\ shop' = [i \in DOMAIN shop |->
                      IF shop[i].id = r.id THEN [shop[i] EXCEPT !.val = r.val] ELSE shop[i]]
        /\ UNCHANGED born
     \/ /\ r.kind = "add"
        /\ born' = born + 1
        /\ shop' = Append(shop, [id |-> born', val |-> r.val])
  /\ reqs' = [reqs EXCEPT ![q] = Answered(q)]
  /\ UNCHANGED <<pages, events, want, excused>>

\* A 4xx answer, which needs a reason of the shop's own if the address is there.
Refuse(q) ==
  /\ Busy(q) /\ reqs[q].pc = "sent"
  /\ IF Unknown(reqs[q]) THEN UNCHANGED <<events, excused, want>> ELSE Fault
  /\ reqs' = [reqs EXCEPT ![q] = [@ EXCEPT !.pc = "refused"]]
  /\ UNCHANGED <<shop, born, pages>>

-----------------------------------------------------------------------------
(* The answers                                                             *)

Alive(q) == reqs[q].page # 0
Done(q) == reqs' = [reqs EXCEPT ![q] = Idle]

\* A new copy, not drawn.  Any status but 200 is passed over.
AnswerList(q) ==
  /\ At(q, "ok", {"list"}) \/ At(q, "refused", {"list"})
  /\ Done(q)
  /\ pages' = IF Alive(q) /\ reqs[q].pc = "ok"
              THEN [pages EXCEPT ![reqs[q].page] = [@ EXCEPT !.have = reqs[q].rows]]
              ELSE pages
  /\ UNCHANGED <<shop, born, events, want, excused>>

\* The fields are filled in, over whatever has been typed meanwhile.  An
\* error cannot be decoded.
AnswerFetch(q) ==
  /\ At(q, "ok", {"fetch"}) \/ At(q, "refused", {"fetch"})
  /\ Done(q)
  /\ pages' = IF Alive(q) /\ reqs[q].pc = "ok"
              THEN [pages EXCEPT ![reqs[q].page] = [@ EXCEPT !.field = reqs[q].val]]
              ELSE pages
  /\ UNCHANGED <<shop, born, events, want, excused>>

\* Whatever the shop said: the copy as it is is drawn, and fetched again.
AnswerDelete(q) ==
  /\ At(q, "ok", {"delete"}) \/ At(q, "refused", {"delete"})
  /\ IF Alive(q)
     THEN /\ pages' = [pages EXCEPT ![reqs[q].page] =
                         [@ EXCEPT !.shown = pages[reqs[q].page].have]]
          /\ reqs' = [reqs EXCEPT ![q] = Sent("list", reqs[q].page, 0, Blank)]
     ELSE Done(q) /\ UNCHANGED pages
  /\ UNCHANGED <<shop, born, events, want, excused>>

\* Only a success opens a new list.
AnswerEdit(q) ==
  /\ At(q, "ok", {"edit"}) \/ At(q, "refused", {"edit"})
  /\ IF Alive(q) /\ reqs[q].pc = "ok"
     THEN PushList(q, pages)
     ELSE Done(q) /\ UNCHANGED pages
  /\ UNCHANGED <<shop, born, events, want, excused>>

\* The form is cleared and a new list opened, whatever the shop said.
AnswerAdd(q) ==
  /\ At(q, "ok", {"add"}) \/ At(q, "refused", {"add"})
  /\ IF Alive(q)
     THEN PushList(q, [pages EXCEPT ![reqs[q].page] =
                         [@ EXCEPT !.field = Blank, !.typed = Blank]])
     ELSE Done(q) /\ UNCHANGED pages
  /\ UNCHANGED <<shop, born, events, want, excused>>

\* A broken connection, before the shop has carried out the request or after.
Lose(q) ==
  /\ Busy(q) /\ reqs[q].pc # "refused"
  /\ Fault
  /\ Done(q)
  /\ UNCHANGED <<shop, born, pages>>

\* A 500, of the same two kinds: the error page comes on top, and the missing
\* message ends the handler.  The list does not look at a status.
Fail(q) ==
  /\ Busy(q) /\ reqs[q].pc # "refused" /\ reqs[q].kind # "list" /\ Room
  /\ Fault
  /\ Done(q)
  /\ pages' = Append(pages, Error)
  /\ UNCHANGED <<shop, born>>

-----------------------------------------------------------------------------
Next ==
  \/ \E q \in Slots :
       \/ OpenList(q) \/ SaveEdit(q) \/ SaveNew(q)
       \/ \E i \in Ids : TapDelete(q, i) \/ TapEdit(q, i)
       \/ ServeRead(q) \/ ServeChange(q) \/ Refuse(q) \/ Lose(q) \/ Fail(q)
       \/ AnswerList(q) \/ AnswerFetch(q) \/ AnswerDelete(q) \/ AnswerEdit(q)
       \/ AnswerAdd(q)
  \/ \E k \in DOMAIN pages : LoaderEnds(k) \/ ButtonTimer(k)
  \/ \E v \in Values : Type(v)
  \/ OpenForm \/ Back \/ SaveInvalid

Spec == Init /\ [][Next]_vars

-----------------------------------------------------------------------------
(* Properties                                                              *)

(***************************************************************************)
(* The shop's addresses are the ones the shopper means to have, as long as *)
(* the shopper makes one change at a time, waits for a form to be filled   *)
(* in, and opens the list anew after a deletion: the row an index stands   *)
(* for, the form an address is fetched into and the address it is saved    *)
(* under are then the same one, whichever old pages are still on the stack.*)
(***************************************************************************)
AsMeant == ~excused /\ ~UnderWay => ToSet(shop) = want

(***************************************************************************)
(* A list page never shows or holds an address that was deleted before it  *)
(* was opened: opening the list anew always heals a stale one, whatever is *)
(* still under way.                                                        *)
(***************************************************************************)
NewListIsFresh ==
  \A k \in DOMAIN pages : pages[k].kind = "list" =>
    (IdsOf(pages[k].have) \union IdsOf(pages[k].shown)) \cap pages[k].missing = {}
=============================================================================
