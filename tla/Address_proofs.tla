--------------------------- MODULE Address_proofs ---------------------------
(***************************************************************************)
(* The addresses, and the buttons of their forms, which share no state.    *)
(*                                                                         *)
(* Buttons (SubmitButton).  A page never has two requests under way, for   *)
(* every number of pages and requests and every debounce longer than the   *)
(* shop's latency.  The argument is the invariant RunTogether: from the    *)
(* tap on, the time left on the timer and the age of the request add up to *)
(* the debounce; so a timer that is due belongs to a request as old as the *)
(* debounce, which there is none of.                                       *)
(*                                                                         *)
(* Addresses.  For any addresses, requests and depth of the stack: a list  *)
(* page never holds an address that was deleted before it was opened, and  *)
(* the shop's addresses are those the shopper means to have.  The          *)
(* invariant (AdrInv) ties each request to the page that sent it, which    *)
(* other pages come and go over, and says what the one change under way    *)
(* will make of the addresses.                                             *)
(***************************************************************************)
EXTENDS Addresses, SubmitButton, FiniteSetTheorems, SequenceTheorems, TLAPS

-----------------------------------------------------------------------------
(* The buttons                                                             *)

LEMMA InitButtonInv == ButtonInit => ButtonInv
<1>. SUFFICES ASSUME ButtonInit PROVE ButtonInv
  OBVIOUS
<1>1. \A r \in Requests :
        requests[r] \in [sent : {FALSE}, page : Pages, age : {0}]
  BY DEF ButtonInit
<1>2. requests \in [Requests -> [sent : BOOLEAN, page : Pages, age : 0..MaxLatency]]
  <2>1. 0 \in 0..MaxLatency
    BY LatencyAssumption
  <2>2. ASSUME NEW q \in [sent : {FALSE}, page : Pages, age : {0}]
        PROVE  q \in [sent : BOOLEAN, page : Pages, age : 0..MaxLatency]
    BY <2>1
  <2>. QED BY <2>2 DEF ButtonInit
<1>3. ButtonTypeOK
  BY <1>2, DebounceAssumption DEF ButtonInit, ButtonTypeOK, NoTimer
<1>4. \A r \in Requests : ~requests[r].sent
  BY <1>1
<1>. QED BY <1>3, <1>4 DEF ButtonInv, RunTogether, OneAtATime

LEMMA StepOpen ==
  ASSUME ButtonInv, NEW p \in Pages, Open(p)
  PROVE  ButtonInv'
  BY DEF ButtonInv, ButtonTypeOK, RunTogether, OneAtATime, Open, NoTimer

LEMMA StepLeave ==
  ASSUME ButtonInv, NEW p \in Pages, Leave(p)
  PROVE  ButtonInv'
  BY DEF ButtonInv, ButtonTypeOK, RunTogether, OneAtATime, Leave, NoTimer

\* The tap: no request of page p is under way, because p's button is enabled.
LEMMA StepPress ==
  ASSUME ButtonInv, NEW p \in Pages, NEW r \in Requests, NEW valid \in BOOLEAN,
         Press(p, r, valid)
  PROVE  ButtonInv'
<1>1. ButtonTypeOK'
  <2>1. CASE valid
    <3>1. 0 \in 0..MaxLatency /\ Debounce \in NoTimer..Debounce
      BY DebounceAssumption, LatencyAssumption DEF NoTimer
    <3>2. [sent |-> TRUE, page |-> p, age |-> 0]
            \in [sent : BOOLEAN, page : Pages, age : 0..MaxLatency]
      BY <3>1
    <3>3. requests' \in [Requests -> [sent : BOOLEAN, page : Pages, age : 0..MaxLatency]]
      BY <2>1, <3>2 DEF ButtonInv, ButtonTypeOK, Press, Send
    <3>. QED BY <3>1, <3>3 DEF ButtonInv, ButtonTypeOK, Press
  <2>2. CASE ~valid
    BY <2>2, DebounceAssumption, LatencyAssumption
    DEF ButtonInv, ButtonTypeOK, Press, NoTimer
  <2>. QED BY <2>1, <2>2
<1>2. ASSUME MaxLatency < Debounce PROVE RunTogether' /\ OneAtATime'
  <2>1. RunTogether /\ OneAtATime
    BY <1>2 DEF ButtonInv
  <2>2. \A s \in Requests : requests[s].sent => requests[s].page # p
    BY <2>1 DEF RunTogether, Press
  <2>3. CASE valid
    <3>1. requests' = [requests EXCEPT ![r] = [sent |-> TRUE, page |-> p, age |-> 0]]
      BY <2>3 DEF Press, Send
    <3>2. requests'[r] = [sent |-> TRUE, page |-> p, age |-> 0]
      BY <3>1 DEF ButtonInv, ButtonTypeOK
    <3>3. \A s \in Requests \ {r} : requests'[s] = requests[s]
      BY <3>1 DEF ButtonInv, ButtonTypeOK
    <3>4. /\ onPressedValue'[p] = FALSE /\ left'[p] = Debounce
          /\ \A o \in Pages \ {p} :
               onPressedValue'[o] = onPressedValue[o] /\ left'[o] = left[o]
      BY DEF Press, ButtonInv, ButtonTypeOK
    <3>5. ASSUME NEW s \in Requests, requests'[s].sent
          PROVE  /\ ~onPressedValue'[requests'[s].page]
                 /\ left'[requests'[s].page] + requests'[s].age = Debounce
      <4>1. CASE s = r
        BY <4>1, <3>2, <3>4, DebounceAssumption
      <4>2. CASE s # r
        <5>1. requests'[s] = requests[s] /\ requests[s].sent /\ requests[s].page \in Pages \ {p}
          BY <4>2, <3>3, <3>5, <2>2 DEF ButtonInv, ButtonTypeOK
        <5>. QED BY <5>1, <3>4, <2>1 DEF RunTogether
      <4>. QED BY <4>1, <4>2
    <3>6. ASSUME NEW s \in Requests, NEW t \in Requests, requests'[s].sent,
                 requests'[t].sent, requests'[s].page = requests'[t].page
          PROVE  s = t
      <4>1. \A o \in Requests \ {r} : requests'[o].sent => requests'[o].page # p
        BY <3>3, <2>2
      <4>2. CASE s = r \/ t = r
        BY <4>1, <4>2, <3>2, <3>6
      <4>3. CASE s # r /\ t # r
        BY <4>3, <3>3, <3>6, <2>1, <1>2 DEF OneAtATime
      <4>. QED BY <4>2, <4>3
    <3>. QED BY <3>5, <3>6 DEF RunTogether, OneAtATime
  <2>4. CASE ~valid
    <3>1. requests' = requests
      BY <2>4 DEF Press
    <3>2. \A o \in Pages \ {p} :
             onPressedValue'[o] = onPressedValue[o] /\ left'[o] = left[o]
      BY DEF Press, ButtonInv, ButtonTypeOK
    <3>. QED BY <3>1, <3>2, <2>1, <2>2 DEF RunTogether, OneAtATime, ButtonInv, ButtonTypeOK
  <2>. QED BY <2>3, <2>4
<1>. QED BY <1>1, <1>2 DEF ButtonInv

\* A timer that is due: a request of its page would be Debounce old.
LEMMA StepRearm ==
  ASSUME ButtonInv, NEW p \in Pages, Rearm(p)
  PROVE  ButtonInv'
<1>1. ButtonTypeOK'
  BY DebounceAssumption DEF ButtonInv, ButtonTypeOK, Rearm, NoTimer
<1>2. ASSUME MaxLatency < Debounce PROVE RunTogether' /\ OneAtATime'
  <2>1. RunTogether /\ OneAtATime
    BY <1>2 DEF ButtonInv
  <2>2. \A s \in Requests : requests[s].sent => requests[s].page # p
    BY <2>1, <1>2, DebounceAssumption, LatencyAssumption
    DEF RunTogether, Rearm, Due, ButtonInv, ButtonTypeOK
  <2>3. /\ requests' = requests
        /\ \A o \in Pages \ {p} :
             onPressedValue'[o] = onPressedValue[o] /\ left'[o] = left[o]
    BY DEF Rearm, ButtonInv, ButtonTypeOK
  <2>. QED BY <2>1, <2>2, <2>3 DEF RunTogether, OneAtATime, ButtonInv, ButtonTypeOK
<1>. QED BY <1>1, <1>2 DEF ButtonInv

LEMMA StepAnswer ==
  ASSUME ButtonInv, NEW r \in Requests, Answer(r)
  PROVE  ButtonInv'
<1>1. ButtonTypeOK'
  BY DEF ButtonInv, ButtonTypeOK, Answer
<1>2. \A s \in Requests : requests'[s].sent => s # r /\ requests'[s] = requests[s]
  BY DEF ButtonInv, ButtonTypeOK, Answer
<1>3. UNCHANGED <<onPressedValue, left>>
  BY DEF Answer
<1>. QED BY <1>1, <1>2, <1>3 DEF ButtonInv, RunTogether, OneAtATime

\* Time: the timer loses what the request gains.
LEMMA StepTick ==
  ASSUME ButtonInv, Tick
  PROVE  ButtonInv'
<1>1. ButtonTypeOK'
  <2>1. left' \in [Pages -> NoTimer..Debounce]
    BY DebounceAssumption DEF ButtonInv, ButtonTypeOK, Tick, NoTimer
  <2>2. ASSUME NEW s \in Requests
        PROVE  requests'[s] \in [sent : BOOLEAN, page : Pages, age : 0..MaxLatency]
    BY LatencyAssumption DEF ButtonInv, ButtonTypeOK, Tick
  <2>. QED BY <2>1, <2>2 DEF ButtonInv, ButtonTypeOK, Tick
<1>2. ASSUME MaxLatency < Debounce PROVE RunTogether' /\ OneAtATime'
  <2>1. RunTogether /\ OneAtATime
    BY <1>2 DEF ButtonInv
  <2>2. ASSUME NEW s \in Requests
        PROVE  /\ requests'[s].sent = requests[s].sent /\ requests'[s].page = requests[s].page
               /\ requests[s].sent => requests'[s].age = requests[s].age + 1
    BY DEF Tick, ButtonInv, ButtonTypeOK
  <2>3. ASSUME NEW s \in Requests, requests[s].sent
        PROVE  left'[requests[s].page] = left[requests[s].page] - 1
    BY <2>3, <2>1, <1>2, DebounceAssumption, LatencyAssumption
    DEF RunTogether, Tick, ButtonInv, ButtonTypeOK
  <2>4. \A s \in Requests : requests[s].sent => requests[s].page \in Pages /\
             left[requests[s].page] \in Int /\ requests[s].age \in Int
    BY DEF ButtonInv, ButtonTypeOK, NoTimer
  <2>5. RunTogether'
    BY <2>1, <2>2, <2>3, <2>4, DebounceAssumption DEF RunTogether, Tick
  <2>6. OneAtATime'
    BY <2>1, <2>2 DEF OneAtATime
  <2>. QED BY <2>5, <2>6
<1>. QED BY <1>1, <1>2 DEF ButtonInv

LEMMA ButtonInductive == ButtonInv /\ [ButtonNext]_buttonVars => ButtonInv'
<1>. SUFFICES ASSUME ButtonInv, [ButtonNext]_buttonVars PROVE ButtonInv'
  OBVIOUS
<1>1. CASE ButtonNext
  BY <1>1, StepOpen, StepLeave, StepPress, StepRearm, StepAnswer, StepTick DEF ButtonNext
<1>2. CASE UNCHANGED buttonVars
  BY <1>2 DEF buttonVars, ButtonInv, ButtonTypeOK, RunTogether, OneAtATime
<1>. QED BY <1>1, <1>2

(***************************************************************************)
(* The inductive invariant, with the types of the variables in it.         *)
(***************************************************************************)
THEOREM ButtonInvariance == ButtonSpec => []ButtonInv
  BY InitButtonInv, ButtonInductive, PTL DEF ButtonSpec

(***************************************************************************)
(* The self-guarding buttons of the receipt and address pages send no      *)
(* second request while the first one is under way, whatever the debounce, *)
(* if only the shop answers within it.                                     *)
(***************************************************************************)
THEOREM GuardHolds == ButtonSpec => []OneAtATime
<1>1. ButtonInv => OneAtATime
  BY DEF ButtonInv, OneAtATime
<1>. QED BY <1>1, ButtonInvariance, PTL

-----------------------------------------------------------------------------
(* Sequences and sets                                                      *)

LEMMA ListFacts ==
  ASSUME NEW S, NEW s \in Seq(S)
  PROVE  /\ DOMAIN s = 1..Len(s) /\ Len(s) \in Nat
         /\ \A i \in DOMAIN s : s[i] \in S /\ s[i] \in ToSet(s)
         /\ ToSet(s) \subseteq S
<1>1. DOMAIN s = 1..Len(s) /\ Len(s) \in Nat /\ \A i \in DOMAIN s : s[i] \in S
  OBVIOUS
<1>. QED BY <1>1 DEF ToSet

\* What is left when the element at i goes.
LEMMA RemoveAtFacts ==
  ASSUME NEW S, NEW s \in Seq(S), NEW i \in DOMAIN s
  PROVE  /\ RemoveAt(s, i) \in Seq(S)
         /\ DOMAIN RemoveAt(s, i) = 1..(Len(s) - 1)
         /\ \A j \in 1..(Len(s) - 1) : RemoveAt(s, i)[j] = IF j < i THEN s[j] ELSE s[j + 1]
<1>. DEFINE a == SubSeq(s, 1, i - 1)
            b == SubSeq(s, i + 1, Len(s))
<1>1. i \in 1..Len(s) /\ Len(s) \in Nat /\ \A j \in 1..Len(s) : s[j] \in S
  BY ListFacts
<1>2. /\ a \in Seq(S) /\ Len(a) = i - 1
      /\ \A j \in 1..(i - 1) : a[j] = s[j]
  <2>1. \A j \in 1..(i - 1) : s[j] \in S
    BY <1>1
  <2>. QED BY <1>1, <2>1, SubSeqProperties
<1>3. /\ b \in Seq(S) /\ Len(b) = Len(s) - i
      /\ \A j \in 1..(Len(s) - i) : b[j] = s[i + j]
  <2>1. \A j \in (i + 1)..Len(s) : s[j] \in S
    BY <1>1
  <2>2. /\ b \in Seq(S) /\ Len(b) = IF i + 1 <= Len(s) THEN Len(s) - (i + 1) + 1 ELSE 0
        /\ \A j \in 1..(Len(s) - (i + 1) + 1) : b[j] = s[(i + 1) + j - 1]
    BY <1>1, <2>1, SubSeqProperties
  <2>. QED BY <1>1, <2>2
<1>. HIDE DEF a, b
<1>. DEFINE c == a \o b
<1>4. /\ c \in Seq(S) /\ Len(c) = Len(a) + Len(b)
      /\ \A j \in 1..(Len(a) + Len(b)) : c[j] = IF j <= Len(a) THEN a[j] ELSE b[j - Len(a)]
  BY <1>2, <1>3, ConcatProperties
<1>. HIDE DEF c
<1>5. Len(c) = Len(s) - 1 /\ DOMAIN c = 1..(Len(s) - 1)
  BY <1>1, <1>2, <1>3, <1>4, LenProperties
<1>6. ASSUME NEW j \in 1..(Len(s) - 1)
      PROVE  c[j] = IF j < i THEN s[j] ELSE s[j + 1]
  <2>1. CASE j < i
    <3>1. j \in 1..(i - 1) /\ j <= i - 1 /\ j \in 1..(Len(a) + Len(b))
      BY <1>1, <1>2, <1>3, <2>1
    <3>2. c[j] = a[j]
      BY <1>2, <1>4, <3>1
    <3>. QED BY <1>2, <2>1, <3>1, <3>2
  <2>2. CASE ~(j < i)
    <3>1. j - (i - 1) \in 1..(Len(s) - i) /\ i + (j - (i - 1)) = j + 1
      BY <1>1, <2>2
    <3>2. j \in 1..(Len(a) + Len(b)) /\ ~(j <= Len(a)) /\ j - Len(a) = j - (i - 1)
      BY <1>1, <1>2, <1>3, <2>2
    <3>3. c[j] = b[j - (i - 1)]
      BY <1>4, <3>2
    <3>. QED BY <1>3, <2>2, <3>1, <3>3
  <2>. QED BY <2>1, <2>2
<1>7. RemoveAt(s, i) = c
  BY DEF RemoveAt, a, b, c
<1>. QED BY <1>4, <1>5, <1>6, <1>7

\* How many there are when an element comes or goes.
LEMMA SetCount ==
  ASSUME NEW S, IsFiniteSet(S), NEW T, NEW q, T \subseteq S \union {q}
  PROVE  /\ IsFiniteSet(T) /\ Cardinality(T) \in Nat /\ Cardinality(S) \in Nat
         /\ Cardinality(T) <= Cardinality(S) + 1
         /\ q \notin T \/ q \in S => Cardinality(T) <= Cardinality(S)
         /\ q \notin T /\ q \in S => Cardinality(T) + 1 <= Cardinality(S)
<1>1. IsFiniteSet(S \union {q}) /\ Cardinality(S) \in Nat
  BY FS_AddElement, FS_CardinalityType
<1>2. IsFiniteSet(T) /\ Cardinality(T) \in Nat
  BY <1>1, FS_Subset, FS_CardinalityType
<1>3. Cardinality(S \union {q}) = IF q \in S THEN Cardinality(S) ELSE Cardinality(S) + 1
  BY FS_AddElement
<1>4. Cardinality(T) <= Cardinality(S) + 1
  BY <1>1, <1>2, <1>3, FS_Subset, FS_CardinalityType
<1>5. ASSUME q \notin T \/ q \in S PROVE Cardinality(T) <= Cardinality(S)
  <2>1. T \subseteq S
    BY <1>5
  <2>. QED BY <2>1, FS_Subset
<1>6. ASSUME q \notin T, q \in S PROVE Cardinality(T) + 1 <= Cardinality(S)
  <2>1. T \subseteq S \ {q}
    BY <1>6
  <2>2. IsFiniteSet(S \ {q}) /\ Cardinality(S \ {q}) = Cardinality(S) - 1
    BY <1>6, FS_RemoveElement
  <2>3. Cardinality(T) <= Cardinality(S \ {q})
    BY <2>1, <2>2, FS_Subset
  <2>. QED BY <1>1, <1>2, <2>2, <2>3
<1>. QED BY <1>1, <1>2, <1>4, <1>5, <1>6

-----------------------------------------------------------------------------
(* The invariant of the addresses                                          *)

AdrPage == ListPage \union Form \union {Error}
Changes(r) == r # Idle /\ r.kind \in Changing
Unserved(r) == Changes(r) /\ r.pc = "sent"

\* The requests whose answer pushes a page, and those that give an id.
Pushing(rs) == {q \in Slots : rs[q] # Idle /\ rs[q].kind \in {"add", "edit"}}
Bearing(rs) == {q \in Slots : rs[q] # Idle /\ rs[q].kind = "add" /\ rs[q].pc = "sent"}

\* There is room for every page that is to be pushed and every id to be given.
RoomInv ==
  /\ IsFiniteSet(Pushing(reqs)) /\ Len(pages) + Cardinality(Pushing(reqs)) <= MaxPages
  /\ born + Cardinality(Bearing(reqs)) <= MaxIds

\* The shop's ids are its own.
ShopInv ==
  /\ \A i \in DOMAIN shop : shop[i].id \in 1..born
  /\ \A i, j \in DOMAIN shop : shop[i].id = shop[j].id => i = j

Holds(rows, ids) == \E i \in DOMAIN rows : rows[i].id \in ids

\* A list page is fresh, and draws nothing or its copy until it is deleted from.
PageOk(p, rows, b) ==
  p.kind = "list" =>
    /\ p.missing \subseteq 1..b
    /\ ~Holds(rows, p.missing) /\ ~Holds(p.have, p.missing) /\ ~Holds(p.shown, p.missing)
    /\ ~p.deleted => p.shown \in {<<>>, p.have}

StackInv == \A k \in DOMAIN pages : PageOk(pages[k], shop, born)

\* The page a request comes from.
Asker == [list |-> "list", delete |-> "list", edit |-> "edit", fetch |-> "edit", add |-> "add"]

\* A request knows its page.  A list is fetched once for a page without rows,
\* until the page is deleted from; what it brings is as fresh as the page.
ReqOk(r, ps) ==
  /\ r.page <= Len(ps)
  /\ r.kind \in {"edit", "add"} => r.val \in Values
  /\ r.page # 0 =>
       /\ ps[r.page].kind = Asker[r.kind]
       /\ r.kind = "list" => /\ r.pc = "ok" => ~Holds(r.rows, ps[r.page].missing)
                             /\ ~ps[r.page].deleted => ps[r.page].have = <<>>
       /\ r.kind = "delete" => ps[r.page].deleted

ReqsInv == \A q \in Slots : Busy(q) => ReqOk(reqs[q], pages)

ListsInv ==
  \A q, r \in Slots :
    /\ Busy(q) /\ reqs[q].kind = "list" /\ reqs[q].page # 0
    /\ Busy(r) /\ reqs[r].kind = "list" /\ reqs[r].page = reqs[q].page
    /\ ~pages[reqs[q].page].deleted
    => q = r

\* What a change makes of the addresses, when the last id given is b.
Changed(r, rows, b) ==
  IF r.kind = "delete" THEN {s \in rows : s.id # r.id}
  ELSE IF r.kind = "edit" THEN {IF s.id = r.id THEN [s EXCEPT !.val = r.val] ELSE s : s \in rows}
  ELSE rows \union {[id |-> b + 1, val |-> r.val]}

\* A form is for the address the shopper means, and holds what was typed.
FormOk(p) ==
  p.kind \in {"add", "edit"} => p.id = p.meant /\ p.typed \in {Blank, p.field}

FetchOk(r, ps) == r # Idle /\ r.kind = "fetch" /\ r.page # 0 => ps[r.page].typed = Blank

\* A patient shopper has one change under way at most, and means what it makes
\* of the addresses.
MeantInv ==
  ~excused =>
    /\ \A k \in DOMAIN pages : FormOk(pages[k])
    /\ \A q \in Slots : FetchOk(reqs[q], pages)
    /\ \A q, r \in Slots : Changes(reqs[q]) /\ Changes(reqs[r]) => q = r
    /\ \A q \in Slots : Unserved(reqs[q]) => want = Changed(reqs[q], ToSet(shop), born)
    /\ (\A q \in Slots : ~Unserved(reqs[q])) => want = ToSet(shop)

AdrInv ==
  TypeOK /\ RoomInv /\ ShopInv /\ StackInv /\ ReqsInv /\ ListsInv /\ MeantInv

LEMMA InitAdr == Init => AdrInv
<1>. SUFFICES ASSUME Init PROVE AdrInv
  OBVIOUS
<1>. DEFINE form == NewForm("add", 0, 0)
<1>0. /\ born \in 0..MaxIds /\ want = ToSet(shop) /\ pages = <<form>>
      /\ reqs = [q \in Slots |-> Idle] /\ events = 0 /\ excused = FALSE
  BY DEF Init
<1>1. PICK f \in Injection(1..born, Values) : shop = [i \in 1..born |-> [id |-> i, val |-> f[i]]]
  BY DEF Init
<1>2. born \in Nat /\ MaxIds \in Nat /\ MaxPages \in Nat /\ MaxPages >= 1 /\ MaxEvents \in Nat
  BY <1>0, BoundsAssumption
<1>3. \A i \in 1..born : [id |-> i, val |-> f[i]] \in Row
  BY <1>0, <1>2 DEF Injection, Row, Ids
<1>4. shop \in Seq(Row) /\ DOMAIN shop = 1..born
  BY <1>1, <1>2, <1>3
<1>5. form \in Form /\ form.kind = "add" /\ form.id = 0 /\ form.meant = 0 /\ form.typed = Blank
  BY DEF NewForm, Form
<1>. HIDE DEF form
<1>6. TypeOK
  <2>1. pages \in Seq(AdrPage) /\ Len(pages) = 1
    BY <1>0, <1>5 DEF AdrPage
  <2>2. want \subseteq Row
    BY <1>0, <1>4, ListFacts
  <2>3. born \in {0} \union Ids /\ Len(pages) \in 1..MaxPages /\ events \in 0..MaxEvents
    BY <1>0, <1>2, <2>1 DEF Ids
  <2>4. reqs \in [Slots -> {Idle} \union Request] /\ excused \in BOOLEAN
    BY <1>0
  <2>. QED BY <1>4, <2>1, <2>2, <2>3, <2>4 DEF TypeOK, AdrPage
<1>7. \A q \in Slots : ~Busy(q) /\ reqs[q] = Idle
  BY <1>0 DEF Busy
<1>8. RoomInv
  <2>1. Pushing(reqs) = {} /\ Bearing(reqs) = {}
    BY <1>7 DEF Pushing, Bearing
  <2>2. IsFiniteSet({}) /\ Cardinality({}) = 0
    BY FS_EmptySet
  <2>3. Len(pages) = 1
    BY <1>0
  <2>4. IsFiniteSet(Pushing(reqs)) /\ Cardinality(Pushing(reqs)) = 0 /\ Cardinality(Bearing(reqs)) = 0
    BY <2>1, <2>2
  <2>. QED BY <1>0, <1>2, <2>3, <2>4 DEF RoomInv
<1>9. ShopInv
  BY <1>1, <1>4 DEF ShopInv
<1>10. StackInv /\ ReqsInv /\ ListsInv
  BY <1>0, <1>5, <1>7 DEF StackInv, PageOk, ReqsInv, ListsInv
<1>11. MeantInv
  BY <1>0, <1>5, <1>7 DEF MeantInv, FormOk, FetchOk, Changes, Unserved
<1>. QED BY <1>6, <1>8, <1>9, <1>10, <1>11 DEF AdrInv

-----------------------------------------------------------------------------
(* What the steps have in common                                           *)

LEMMA AdrFacts ==
  ASSUME AdrInv
  PROVE  /\ pages \in Seq(AdrPage) /\ DOMAIN pages = 1..Len(pages)
         /\ Len(pages) \in 1..MaxPages /\ Len(pages) \in Nat /\ MaxPages \in Nat
         /\ \A k \in 1..Len(pages) : pages[k] \in AdrPage
         /\ Top = pages[Len(pages)] /\ Top \in AdrPage
         /\ shop \in Seq(Row) /\ born \in Nat /\ born \in 0..MaxIds /\ MaxIds \in Nat
         /\ reqs \in [Slots -> {Idle} \union Request]
         /\ \A q \in Slots : Busy(q) => /\ reqs[q] \in Request /\ ReqOk(reqs[q], pages)
                                        /\ reqs[q].page \in 0..Len(pages)
         /\ events \in 0..MaxEvents /\ MaxEvents \in Nat
<1>. USE DEF AdrInv, TypeOK
<1>1. MaxPages \in Nat /\ MaxIds \in Nat /\ MaxEvents \in Nat
  BY BoundsAssumption
<1>2. /\ pages \in Seq(AdrPage) /\ Len(pages) \in 1..MaxPages /\ Len(pages) \in Nat
      /\ DOMAIN pages = 1..Len(pages) /\ \A k \in 1..Len(pages) : pages[k] \in AdrPage
  BY <1>1 DEF AdrPage
<1>3. Top = pages[Len(pages)]
  BY DEF Top, Last
<1>4. \A q \in Slots : Busy(q) => reqs[q] \in Request /\ ReqOk(reqs[q], pages)
  BY DEF Busy, ReqsInv
<1>5. \A q \in Slots : Busy(q) => reqs[q].page \in 0..Len(pages)
  BY <1>1, <1>2, <1>4 DEF Request, ReqOk
<1>6. born \in 0..MaxIds /\ born \in Nat
  BY <1>1 DEF Ids
<1>. QED BY <1>1, <1>2, <1>3, <1>4, <1>5, <1>6

LEMMA AdrPageKinds ==
  /\ \A p \in AdrPage : p.kind \in {"list", "add", "edit", "error"}
  /\ \A p \in AdrPage : p.kind = "list" => p \in ListPage
  /\ \A p \in AdrPage : p.kind \in {"add", "edit"} => p \in Form
  /\ \A p \in ListPage : p.kind = "list" /\ p \in AdrPage
  /\ \A p \in Form : p.kind \in {"add", "edit"} /\ p \in AdrPage
  /\ Error \in AdrPage /\ Error.kind = "error"
BY DEF AdrPage, ListPage, Form, Error

\* What a shopper means is what was wanted, unless there is an excuse.
LEMMA MeanFacts ==
  ASSUME AdrInv, NEW wanted, NEW excuse, Mean(wanted, excuse), wanted \subseteq Row
  PROVE  /\ want' \subseteq Row /\ excused' \in BOOLEAN
         /\ ~excused' => ~excused /\ ~excuse /\ want' = wanted
<1>1. excused' = (excused \/ excuse) /\ want' = (IF excused' THEN {} ELSE wanted)
  BY DEF Mean
<1>2. excused' \in BOOLEAN
  BY <1>1, Zenon
<1>3. ~excused' => ~excused /\ ~excuse
  BY <1>1, Zenon
<1>. QED BY <1>1, <1>2, <1>3

\* The page a request asks for, as long as it is still the same to it.
Same(p, p2) ==
  /\ p2.kind = p.kind
  /\ p.kind = "list" => /\ p2.missing = p.missing /\ (p.deleted => p2.deleted)
                        /\ p2.deleted \/ p2.have = p.have

LEMMA ReqKept ==
  ASSUME NEW r \in Request, NEW ps, NEW ps2, ReqOk(r, ps), Len(ps2) \in Nat,
         r.page <= Len(ps2), r.page # 0 => Same(ps[r.page], ps2[r.page])
  PROVE  ReqOk(r, ps2)
<1>1. r.kind \in {"list", "delete"} => Asker[r.kind] = "list"
  BY DEF Asker
<1>. QED BY <1>1 DEF ReqOk, Same

\* Pages change in place, one may be pushed, and requests stay what they are or
\* become what their page allows.
LEMMA StackFrame ==
  ASSUME AdrInv, NEW q,
         pages' \in Seq(AdrPage), Len(pages') >= Len(pages),
         \A k \in 1..Len(pages) : Same(pages[k], pages'[k]),
         \A r \in Slots : \/ reqs'[r] = reqs[r]
                          \/ r = q /\ reqs'[r] = Idle
                          \/ /\ r = q /\ ReqOk(reqs'[r], pages')
                             /\ reqs'[r].kind = "list" /\ reqs'[r].page # 0 =>
                                  \/ reqs'[r].page > Len(pages)
                                  \/ pages'[reqs'[r].page].deleted
                                  \/ Busy(r) /\ reqs[r].kind = "list" /\ reqs[r].page = reqs'[r].page
  PROVE  ReqsInv' /\ ListsInv'
<1>. DEFINE n == Len(pages)
<1>1. /\ n \in Nat /\ Len(pages') \in Nat /\ Len(pages') >= n
      /\ \A r \in Slots : Busy(r) => /\ reqs[r] \in Request /\ ReqOk(reqs[r], pages)
                                     /\ reqs[r].page \in 0..n
  BY AdrFacts
<1>2. ASSUME NEW r \in Slots, reqs'[r] # Idle PROVE ReqOk(reqs'[r], pages')
  <2>1. CASE reqs'[r] = reqs[r]
    <3>1. Busy(r) /\ reqs[r] \in Request /\ ReqOk(reqs[r], pages) /\ reqs[r].page \in 0..n
      BY <1>1, <1>2, <2>1 DEF Busy
    <3>2. reqs[r].page <= Len(pages') /\ (reqs[r].page # 0 => reqs[r].page \in 1..n)
      BY <1>1, <3>1
    <3>3. reqs[r].page # 0 => Same(pages[reqs[r].page], pages'[reqs[r].page])
      BY <3>2
    <3>. QED BY <1>1, <2>1, <3>1, <3>2, <3>3, ReqKept
  <2>. QED BY <1>2, <2>1
<1>3. ReqsInv'
  BY <1>2 DEF ReqsInv, Busy
<1>4. ASSUME NEW r \in Slots, NEW t \in Slots,
             reqs'[r] # Idle, reqs'[r].kind = "list", reqs'[r].page # 0,
             reqs'[t] # Idle, reqs'[t].kind = "list", reqs'[t].page = reqs'[r].page,
             ~pages'[reqs'[r].page].deleted
      PROVE  r = t
  <2>1. \A s \in {r, t} : \/ Busy(s) /\ reqs[s].kind = "list" /\ reqs[s].page = reqs'[s].page
                          \/ s = q /\ reqs'[s].page > n
    BY <1>4 DEF Busy
  <2>2. \A s \in {r, t} : Busy(s) => reqs[s].page <= n
    BY <1>1
  <2>3. CASE r # q \/ ~(reqs'[r].page > n)
    <3>1. \A s \in {r, t} : Busy(s) /\ reqs[s].kind = "list" /\ reqs[s].page = reqs'[s].page
      BY <1>1, <1>4, <2>1, <2>2, <2>3
    <3>2. reqs[r].page \in 1..n
      BY <1>1, <1>4, <3>1
    <3>3. ~pages[reqs[r].page].deleted
      <4>1. Same(pages[reqs[r].page], pages'[reqs[r].page])
        BY <3>2
      <4>2. pages[reqs[r].page].kind = "list"
        BY <1>1, <1>4, <3>1 DEF ReqOk, Asker
      <4>. QED BY <1>4, <3>1, <4>1, <4>2 DEF Same
    <3>. QED BY <1>4, <3>1, <3>3 DEF AdrInv, ListsInv
  <2>4. CASE r = q /\ reqs'[r].page > n
    BY <1>1, <1>4, <2>1, <2>2, <2>4
  <2>. QED BY <2>3, <2>4
<1>5. ListsInv'
  BY <1>4 DEF ListsInv, Busy
<1>. QED BY <1>3, <1>5

\* What is meant, while the requests stay the changes they are or end.
LEMMA MeantFrame ==
  ASSUME AdrInv, UNCHANGED <<shop, born>>,
         ~excused' =>
           /\ ~excused /\ want' = want
           /\ \A q \in Slots : Changes(reqs'[q]) =>
                /\ Changes(reqs[q]) /\ reqs'[q].kind = reqs[q].kind /\ reqs'[q].id = reqs[q].id
                /\ reqs'[q].val = reqs[q].val /\ reqs'[q].pc = reqs[q].pc
           /\ \A q \in Slots : Unserved(reqs[q]) => Unserved(reqs'[q])
           /\ \A k \in DOMAIN pages' : FormOk(pages'[k])
           /\ \A q \in Slots : FetchOk(reqs'[q], pages')
  PROVE  MeantInv'
<1>. SUFFICES ASSUME ~excused'
     PROVE  /\ \A q, r \in Slots : Changes(reqs'[q]) /\ Changes(reqs'[r]) => q = r
            /\ \A q \in Slots : Unserved(reqs'[q]) => want = Changed(reqs'[q], ToSet(shop), born)
            /\ (\A q \in Slots : ~Unserved(reqs'[q])) => want = ToSet(shop)
  BY DEF MeantInv
<1>1. /\ \A q, r \in Slots : Changes(reqs[q]) /\ Changes(reqs[r]) => q = r
      /\ \A q \in Slots : Unserved(reqs[q]) => want = Changed(reqs[q], ToSet(shop), born)
      /\ (\A q \in Slots : ~Unserved(reqs[q])) => want = ToSet(shop)
  BY DEF AdrInv, MeantInv
<1>2. \A q \in Slots : Unserved(reqs'[q]) => Unserved(reqs[q])
  BY DEF Unserved
<1>3. \A q \in Slots : Unserved(reqs'[q]) => want = Changed(reqs'[q], ToSet(shop), born)
  <2>1. ASSUME NEW q \in Slots, Unserved(reqs'[q])
        PROVE  Changed(reqs'[q], ToSet(shop), born) = Changed(reqs[q], ToSet(shop), born)
    <3>1. reqs'[q].kind = reqs[q].kind /\ reqs'[q].id = reqs[q].id /\ reqs'[q].val = reqs[q].val
      BY <2>1 DEF Unserved
    <3>. QED BY <3>1 DEF Changed
  <2>. QED BY <1>1, <1>2, <2>1
<1>. QED BY <1>1, <1>2, <1>3

\* The room a step leaves.
LEMMA RoomCount ==
  ASSUME AdrInv, NEW q, \A r \in Slots : r # q => reqs'[r] = reqs[r]
  PROVE  /\ IsFiniteSet(Pushing(reqs'))
         /\ Cardinality(Pushing(reqs')) \in Nat /\ Cardinality(Pushing(reqs)) \in Nat
         /\ Cardinality(Bearing(reqs')) \in Nat /\ Cardinality(Bearing(reqs)) \in Nat
         /\ Cardinality(Pushing(reqs')) <= Cardinality(Pushing(reqs)) + 1
         /\ Cardinality(Bearing(reqs')) <= Cardinality(Bearing(reqs)) + 1
         /\ q \notin Pushing(reqs') \/ q \in Pushing(reqs) =>
              Cardinality(Pushing(reqs')) <= Cardinality(Pushing(reqs))
         /\ q \notin Pushing(reqs') /\ q \in Pushing(reqs) =>
              Cardinality(Pushing(reqs')) + 1 <= Cardinality(Pushing(reqs))
         /\ q \notin Bearing(reqs') \/ q \in Bearing(reqs) =>
              Cardinality(Bearing(reqs')) <= Cardinality(Bearing(reqs))
         /\ q \notin Bearing(reqs') /\ q \in Bearing(reqs) =>
              Cardinality(Bearing(reqs')) + 1 <= Cardinality(Bearing(reqs))
         /\ Cardinality(Bearing(reqs)) <= Cardinality(Adding)
<1>1. IsFiniteSet(Pushing(reqs))
  BY DEF AdrInv, RoomInv
<1>2. Bearing(reqs) \subseteq Adding /\ Adding \subseteq Pushing(reqs)
  BY DEF Bearing, Adding, Pushing, Busy
<1>3. IsFiniteSet(Adding) /\ IsFiniteSet(Bearing(reqs))
      /\ Cardinality(Bearing(reqs)) <= Cardinality(Adding)
  <2>1. IsFiniteSet(Adding)
    BY <1>1, <1>2, FS_Subset
  <2>. QED BY <1>2, <2>1, FS_Subset
<1>4. Pushing(reqs') \subseteq Pushing(reqs) \union {q}
  BY DEF Pushing
<1>5. Bearing(reqs') \subseteq Bearing(reqs) \union {q}
  BY DEF Bearing
<1>6. /\ IsFiniteSet(Pushing(reqs'))
      /\ Cardinality(Pushing(reqs')) \in Nat /\ Cardinality(Pushing(reqs)) \in Nat
      /\ Cardinality(Pushing(reqs')) <= Cardinality(Pushing(reqs)) + 1
      /\ q \notin Pushing(reqs') \/ q \in Pushing(reqs) =>
           Cardinality(Pushing(reqs')) <= Cardinality(Pushing(reqs))
      /\ q \notin Pushing(reqs') /\ q \in Pushing(reqs) =>
           Cardinality(Pushing(reqs')) + 1 <= Cardinality(Pushing(reqs))
  BY <1>1, <1>4, SetCount
<1>7. /\ Cardinality(Bearing(reqs')) \in Nat /\ Cardinality(Bearing(reqs)) \in Nat
      /\ Cardinality(Bearing(reqs')) <= Cardinality(Bearing(reqs)) + 1
      /\ q \notin Bearing(reqs') \/ q \in Bearing(reqs) =>
           Cardinality(Bearing(reqs')) <= Cardinality(Bearing(reqs))
      /\ q \notin Bearing(reqs') /\ q \in Bearing(reqs) =>
           Cardinality(Bearing(reqs')) + 1 <= Cardinality(Bearing(reqs))
  BY <1>3, <1>5, SetCount
<1>. QED BY <1>3, <1>6, <1>7

LEMMA RoomFacts ==
  ASSUME AdrInv
  PROVE  /\ Cardinality(Pushing(reqs)) \in Nat /\ Cardinality(Bearing(reqs)) \in Nat
         /\ Len(pages) + Cardinality(Pushing(reqs)) <= MaxPages
         /\ born + Cardinality(Bearing(reqs)) <= MaxIds
         /\ Room <=> Len(pages) + Cardinality(Pushing(reqs)) < MaxPages
<1>1. IsFiniteSet(Pushing(reqs)) /\ Bearing(reqs) \subseteq Pushing(reqs)
  BY DEF AdrInv, RoomInv, Bearing, Pushing
<1>2. {q \in Slots : Busy(q) /\ reqs[q].kind \in {"add", "edit"}} = Pushing(reqs)
  BY DEF Pushing, Busy
<1>. QED BY <1>1, <1>2, FS_Subset, FS_CardinalityType DEF AdrInv, RoomInv, Room
LEMMA PushFacts ==
  ASSUME NEW below \in Seq(AdrPage), NEW p \in AdrPage
  PROVE  /\ Append(below, p) \in Seq(AdrPage) /\ Len(below) \in Nat
         /\ Len(Append(below, p)) = Len(below) + 1
         /\ DOMAIN Append(below, p) = 1..(Len(below) + 1)
         /\ Append(below, p)[Len(below) + 1] = p
         /\ \A k \in 1..Len(below) : Append(below, p)[k] = below[k]
BY AppendProperties, LenProperties

LEMMA InPlaceFacts ==
  ASSUME AdrInv, NEW k \in DOMAIN pages, NEW p \in AdrPage
  PROVE  /\ [pages EXCEPT ![k] = p] \in Seq(AdrPage)
         /\ Len([pages EXCEPT ![k] = p]) = Len(pages)
         /\ DOMAIN [pages EXCEPT ![k] = p] = 1..Len(pages)
         /\ [pages EXCEPT ![k] = p][k] = p
         /\ \A j \in 1..Len(pages) : j # k => [pages EXCEPT ![k] = p][j] = pages[j]
BY AdrFacts, ExceptSeq

\* A list page is opened fresh.
LEMMA NewListFacts ==
  ASSUME AdrInv
  PROVE  /\ NewList \in ListPage /\ NewList \in AdrPage /\ NewList.kind = "list"
         /\ NewList.have = <<>> /\ NewList.deleted = FALSE
         /\ PageOk(NewList, shop, born) /\ FormOk(NewList)
<1>1. /\ NewList.kind = "list" /\ NewList.have = <<>> /\ NewList.shown = <<>>
      /\ NewList.deleted = FALSE /\ NewList.missing = 1..born \ IdsOf(shop)
      /\ NewList.ready = FALSE
  BY DEF NewList
<1>2. 1..born \subseteq Ids
  BY AdrFacts DEF Ids
<1>3. NewList \in ListPage
  BY <1>2 DEF NewList, ListPage
<1>4. \A i \in DOMAIN shop : shop[i].id \in IdsOf(shop)
  BY AdrFacts, ListFacts DEF IdsOf
<1>5. ~Holds(shop, NewList.missing) /\ ~Holds(<<>>, NewList.missing)
  BY <1>1, <1>4 DEF Holds
<1>. QED BY <1>1, <1>3, <1>5, AdrPageKinds DEF PageOk, FormOk

LEMMA NewFormFacts ==
  ASSUME NEW kind \in {"add", "edit"}, NEW id \in {0} \union Ids, NEW m \in {0} \union Ids
  PROVE  /\ NewForm(kind, id, m) \in Form /\ NewForm(kind, id, m) \in AdrPage
         /\ NewForm(kind, id, m).kind = kind /\ NewForm(kind, id, m).typed = Blank
         /\ NewForm(kind, id, m).id = id /\ NewForm(kind, id, m).meant = m
         /\ id = m => FormOk(NewForm(kind, id, m))
         /\ \A rows, b : PageOk(NewForm(kind, id, m), rows, b)
<1>1. /\ NewForm(kind, id, m) \in Form /\ NewForm(kind, id, m).kind = kind
      /\ NewForm(kind, id, m).typed = Blank
      /\ NewForm(kind, id, m).id = id /\ NewForm(kind, id, m).meant = m
  BY DEF NewForm, Form
<1>. QED BY <1>1, AdrPageKinds DEF FormOk, PageOk

LEMMA SentFacts ==
  ASSUME AdrInv, NEW kind \in Changing \union {"list", "fetch"}, NEW k \in 0..MaxPages,
         NEW id \in {0} \union Ids, NEW v \in Values \union {Blank}
  PROVE  /\ Sent(kind, k, id, v) \in Request /\ Sent(kind, k, id, v) # Idle
         /\ Sent(kind, k, id, v).kind = kind /\ Sent(kind, k, id, v).page = k
         /\ Sent(kind, k, id, v).id = id /\ Sent(kind, k, id, v).val = v
         /\ Sent(kind, k, id, v).pc = "sent"
         /\ Changes(Sent(kind, k, id, v)) <=> kind \in Changing
<1>1. Sent(kind, k, id, v) \in Request
  BY DEF Sent, Request
<1>2. Sent(kind, k, id, v) # Idle
  <2>1. Sent(kind, k, id, v).pc = "sent" /\ Idle.pc = "idle"
    BY DEF Sent, Idle
  <2>. QED BY <2>1
<1>. QED BY <1>1, <1>2 DEF Sent, Changes

\* A list page is pushed, over pages that may have changed, by a request that
\* is over or has not been.
LEMMA StepPushList ==
  ASSUME AdrInv, NEW q \in Slots, NEW below \in Seq(AdrPage), PushList(q, below),
         Len(below) = Len(pages), \A k \in 1..Len(pages) : Same(pages[k], below[k]),
         \A k \in 1..Len(pages) : PageOk(below[k], shop, born),
         ~excused => \A k \in 1..Len(pages) : FormOk(below[k]),
         \A r \in Slots : FetchOk(reqs[r], pages) => FetchOk(reqs[r], below),
         IF Busy(q) THEN reqs[q].kind \in {"add", "edit"} ELSE Room,
         ~Unserved(reqs[q]),
         UNCHANGED <<shop, born, events, want, excused>>
  PROVE  AdrInv'
<1>. DEFINE n == Len(pages)
            x == Sent("list", n + 1, 0, Blank)
<1>1. pages' = Append(below, NewList) /\ reqs' = [reqs EXCEPT ![q] = x]
  BY DEF PushList
<1>2. /\ n \in Nat /\ n >= 1 /\ MaxPages \in Nat
      /\ reqs \in [Slots -> {Idle} \union Request]
  BY AdrFacts
<1>3. /\ pages' \in Seq(AdrPage) /\ Len(pages') = n + 1 /\ DOMAIN pages' = 1..(n + 1)
      /\ pages'[n + 1] = NewList /\ \A k \in 1..n : pages'[k] = below[k]
  BY <1>1, NewListFacts, PushFacts
<1>4. Pushing(reqs) \subseteq Slots /\ (Busy(q) => q \in Pushing(reqs))
  BY DEF Pushing, Busy
<1>5. n + 1 <= MaxPages
  <2>1. CASE ~Busy(q)
    BY <1>2, <2>1, RoomFacts
  <2>2. CASE Busy(q)
    <3>1. Cardinality(Pushing(reqs)) # 0
      BY <1>4, <2>2, FS_EmptySet DEF AdrInv, RoomInv
    <3>. QED BY <1>2, <3>1, RoomFacts
  <2>. QED BY <2>1, <2>2
<1>6. /\ x \in Request /\ x # Idle /\ x.kind = "list" /\ x.page = n + 1 /\ x.pc = "sent"
      /\ ~Changes(x)
  <2>1. /\ n + 1 \in 0..MaxPages /\ "list" \notin Changing
        /\ "list" \in Changing \union {"list", "fetch"}
        /\ 0 \in {0} \union Ids /\ Blank \in Values \union {Blank}
    BY <1>2, <1>5 DEF Changing
  <2>. QED BY <2>1, SentFacts
<1>. HIDE DEF x
<1>7. reqs'[q] = x /\ \A r \in Slots : r # q => reqs'[r] = reqs[r]
  BY <1>1, <1>2
<1>8. ReqsInv' /\ ListsInv'
  <2>1. ReqOk(x, pages')
    BY <1>2, <1>3, <1>6, NewListFacts DEF ReqOk, Asker
  <2>2. \A k \in 1..n : Same(pages[k], pages'[k])
    BY <1>3
  <2>3. x.page > n /\ Len(pages') >= n
    BY <1>2, <1>3, <1>6
  <2>4. \A r \in Slots :
          \/ reqs'[r] = reqs[r]
          \/ r = q /\ reqs'[r] = Idle
          \/ /\ r = q /\ ReqOk(reqs'[r], pages')
             /\ reqs'[r].kind = "list" /\ reqs'[r].page # 0 =>
                  \/ reqs'[r].page > n
                  \/ pages'[reqs'[r].page].deleted
                  \/ Busy(r) /\ reqs[r].kind = "list" /\ reqs[r].page = reqs'[r].page
    BY <1>7, <2>1, <2>3
  <2>. QED BY <1>3, <2>2, <2>3, <2>4, StackFrame
<1>9. StackInv'
  BY <1>2, <1>3, NewListFacts DEF StackInv
<1>10. RoomInv'
  <2>1. q \notin Pushing(reqs') /\ q \notin Bearing(reqs')
    BY <1>6, <1>7 DEF Pushing, Bearing
  <2>. HIDE DEF Room
  <2>2. Cardinality(Pushing(reqs')) <= Cardinality(Pushing(reqs))
    BY <1>7, <2>1, RoomCount
  <2>3. Busy(q) => Cardinality(Pushing(reqs')) + 1 <= Cardinality(Pushing(reqs))
    BY <1>4, <1>7, <2>1, RoomCount
  <2>4. IsFiniteSet(Pushing(reqs')) /\ Cardinality(Pushing(reqs')) \in Nat
        /\ Cardinality(Bearing(reqs')) \in Nat
        /\ Cardinality(Bearing(reqs')) <= Cardinality(Bearing(reqs))
    BY <1>7, <2>1, RoomCount
  <2>5. Len(pages') + Cardinality(Pushing(reqs')) <= MaxPages
    <3>1. CASE Busy(q)
      BY <1>2, <1>3, <2>3, <2>4, <3>1, RoomFacts
    <3>2. CASE ~Busy(q)
      BY <1>2, <1>3, <2>2, <2>4, <3>2, RoomFacts
    <3>. QED BY <3>1, <3>2
  <2>6. born' + Cardinality(Bearing(reqs')) <= MaxIds
    BY <2>4, RoomFacts, AdrFacts
  <2>. QED BY <2>4, <2>5, <2>6 DEF RoomInv
<1>11. MeantInv'
  <2>1. ASSUME ~excused
        PROVE  /\ \A k \in DOMAIN pages' : FormOk(pages'[k])
               /\ \A r \in Slots : FetchOk(reqs'[r], pages')
    <3>1. \A k \in 1..(n + 1) : FormOk(pages'[k])
      BY <1>2, <1>3, <2>1, NewListFacts
    <3>2. FetchOk(x, pages')
      BY <1>6 DEF FetchOk
    <3>3. ASSUME NEW r \in Slots, reqs[r] # Idle PROVE FetchOk(reqs[r], pages')
      <4>1. FetchOk(reqs[r], below) /\ reqs[r].page \in 0..n
        BY <2>1, <3>3, AdrFacts DEF AdrInv, MeantInv, Busy
      <4>2. reqs[r].page # 0 => pages'[reqs[r].page] = below[reqs[r].page]
        BY <1>2, <1>3, <4>1
      <4>. QED BY <4>1, <4>2 DEF FetchOk
    <3>4. \A r \in Slots : FetchOk(reqs'[r], pages')
      BY <1>7, <3>2, <3>3 DEF FetchOk
    <3>. QED BY <1>3, <3>1, <3>4
  <2>2. /\ \A r \in Slots : Changes(reqs'[r]) => Changes(reqs[r]) /\ reqs'[r] = reqs[r]
        /\ \A r \in Slots : Unserved(reqs[r]) => Unserved(reqs'[r])
    BY <1>6, <1>7 DEF Unserved
  <2>. QED BY <2>1, <2>2, MeantFrame
<1>12. TypeOK'
  <2>1. Len(pages') \in 1..MaxPages /\ reqs' \in [Slots -> {Idle} \union Request]
    BY <1>1, <1>2, <1>3, <1>5, <1>6
  <2>. QED BY <1>3, <2>1 DEF AdrInv, TypeOK, AdrPage
<1>13. ShopInv'
  BY DEF AdrInv, ShopInv
<1>. QED BY <1>8, <1>9, <1>10, <1>11, <1>12, <1>13 DEF AdrInv
\* A form or the error page is pushed: by an edit icon, whose request it waits
\* for, or by a request that failed.
LEMMA StepPush ==
  ASSUME AdrInv, NEW q, NEW p \in Form \union {Error}, Room, pages' = Append(pages, p),
         reqs' \in [Slots -> {Idle} \union Request],
         \A r \in Slots : \/ reqs'[r] = reqs[r]
                          \/ r = q /\ reqs'[r] = Idle /\ excused'
                          \/ /\ r = q /\ ~Busy(r) /\ reqs'[r] # Idle
                             /\ reqs'[r].kind = "fetch" /\ reqs'[r].page = Len(pages) + 1
                             /\ p.kind = "edit" /\ p.typed = Blank,
         events' \in 0..MaxEvents, want' \subseteq Row, excused' \in BOOLEAN,
         ~excused' => ~excused /\ want' = want /\ FormOk(p),
         UNCHANGED <<shop, born>>
  PROVE  AdrInv'
<1>. DEFINE n == Len(pages)
<1>0. p \in AdrPage /\ p.kind # "list"
  BY AdrPageKinds
<1>1. /\ n \in Nat /\ n >= 1 /\ MaxPages \in Nat /\ pages \in Seq(AdrPage)
      /\ \A k \in 1..n : pages[k] \in AdrPage
  BY AdrFacts
<1>2. /\ pages' \in Seq(AdrPage) /\ Len(pages') = n + 1 /\ DOMAIN pages' = 1..(n + 1)
      /\ pages'[n + 1] = p /\ \A k \in 1..n : pages'[k] = pages[k]
  BY <1>0, <1>1, PushFacts
<1>3. ReqsInv' /\ ListsInv'
  <2>1. \A k \in 1..n : Same(pages[k], pages'[k])
    BY <1>2 DEF Same
  <2>2. ASSUME NEW r \in Slots, reqs'[r] # Idle, reqs'[r].kind = "fetch",
               reqs'[r].page = n + 1, p.kind = "edit"
        PROVE  ReqOk(reqs'[r], pages')
    BY <1>1, <1>2, <2>2 DEF ReqOk, Asker
  <2>3. \A r \in Slots :
          \/ reqs'[r] = reqs[r]
          \/ r = q /\ reqs'[r] = Idle
          \/ /\ r = q /\ ReqOk(reqs'[r], pages')
             /\ reqs'[r].kind = "list" /\ reqs'[r].page # 0 =>
                  \/ reqs'[r].page > n
                  \/ pages'[reqs'[r].page].deleted
                  \/ Busy(r) /\ reqs[r].kind = "list" /\ reqs[r].page = reqs'[r].page
    BY <2>2
  <2>4. Len(pages') >= n
    BY <1>1, <1>2
  <2>. QED BY <1>2, <2>1, <2>3, <2>4, StackFrame
<1>4. StackInv'
  <2>1. \A k \in 1..n : PageOk(pages[k], shop, born)
    BY AdrFacts DEF AdrInv, StackInv
  <2>2. PageOk(p, shop, born)
    BY <1>0 DEF PageOk
  <2>. QED BY <1>1, <1>2, <2>1, <2>2 DEF StackInv
<1>5. RoomInv'
  <2>1. \A r \in Slots : r # q => reqs'[r] = reqs[r]
    OBVIOUS
  <2>2. /\ q \notin Pushing(reqs') \/ q \in Pushing(reqs)
        /\ q \notin Bearing(reqs') \/ q \in Bearing(reqs)
    BY DEF Pushing, Bearing
  <2>3. /\ IsFiniteSet(Pushing(reqs')) /\ Cardinality(Pushing(reqs')) \in Nat
        /\ Cardinality(Bearing(reqs')) \in Nat
        /\ Cardinality(Pushing(reqs')) <= Cardinality(Pushing(reqs))
        /\ Cardinality(Bearing(reqs')) <= Cardinality(Bearing(reqs))
    BY <2>1, <2>2, RoomCount
  <2>4. n + Cardinality(Pushing(reqs)) < MaxPages /\ born + Cardinality(Bearing(reqs)) <= MaxIds
        /\ Cardinality(Pushing(reqs)) \in Nat /\ Cardinality(Bearing(reqs)) \in Nat
        /\ born \in Nat /\ MaxIds \in Nat
    BY RoomFacts, AdrFacts
  <2>. QED BY <1>1, <1>2, <2>3, <2>4 DEF RoomInv
<1>6. MeantInv'
  <2>1. ASSUME ~excused'
        PROVE  /\ \A k \in DOMAIN pages' : FormOk(pages'[k])
               /\ \A r \in Slots : FetchOk(reqs'[r], pages')
    <3>1. \A k \in 1..n : FormOk(pages[k])
      BY <2>1, AdrFacts DEF AdrInv, MeantInv
    <3>2. \A k \in 1..(n + 1) : FormOk(pages'[k])
      BY <1>1, <1>2, <2>1, <3>1
    <3>3. ASSUME NEW r \in Slots, reqs'[r] = reqs[r], reqs[r] # Idle PROVE FetchOk(reqs[r], pages')
      <4>1. FetchOk(reqs[r], pages) /\ reqs[r].page \in 0..n
        BY <2>1, <3>3, AdrFacts DEF AdrInv, MeantInv, Busy
      <4>2. reqs[r].page # 0 => pages'[reqs[r].page] = pages[reqs[r].page]
        BY <1>1, <1>2, <4>1
      <4>. QED BY <4>1, <4>2 DEF FetchOk
    <3>4. \A r \in Slots : FetchOk(reqs'[r], pages')
      BY <1>1, <1>2, <2>1, <3>3 DEF FetchOk
    <3>. QED BY <1>2, <3>2, <3>4
  <2>2. ~excused' => \A r \in Slots : Changes(reqs'[r]) => Changes(reqs[r]) /\ reqs'[r] = reqs[r]
    BY DEF Changes, Changing
  <2>3. ~excused' => \A r \in Slots : Unserved(reqs[r]) => Unserved(reqs'[r])
    BY DEF Unserved, Changes, Busy
  <2>. QED BY <2>1, <2>2, <2>3, MeantFrame
<1>7. TypeOK'
  <2>1. Len(pages') \in 1..MaxPages
    BY <1>1, <1>2, RoomFacts
  <2>. QED BY <1>2, <2>1 DEF AdrInv, TypeOK, AdrPage
<1>8. ShopInv'
  BY DEF AdrInv, ShopInv
<1>. QED BY <1>3, <1>4, <1>5, <1>6, <1>7, <1>8 DEF AdrInv

\* A page becomes another, for all its requests the same.
LEMMA StepDraw ==
  ASSUME AdrInv, NEW k \in DOMAIN pages, NEW p \in AdrPage, pages' = [pages EXCEPT ![k] = p],
         Same(pages[k], p), PageOk(p, shop, born),
         want' \subseteq Row, excused' \in BOOLEAN,
         ~excused' => /\ ~excused /\ want' = want /\ FormOk(p)
                      /\ \A r \in Slots : reqs[r] # Idle /\ reqs[r].kind = "fetch" /\ reqs[r].page = k =>
                                            p.typed = Blank,
         UNCHANGED <<shop, born, reqs, events>>
  PROVE  AdrInv'
<1>. DEFINE n == Len(pages)
<1>1. n \in Nat /\ DOMAIN pages = 1..n
  BY AdrFacts
<1>2. /\ pages' \in Seq(AdrPage) /\ Len(pages') = n /\ DOMAIN pages' = 1..n
      /\ pages'[k] = p /\ \A j \in 1..n : j # k => pages'[j] = pages[j]
  BY InPlaceFacts
<1>3. ReqsInv' /\ ListsInv'
  <2>1. \A j \in 1..n : Same(pages[j], pages'[j])
    BY <1>2 DEF Same
  <2>2. Len(pages') >= n /\ \A r \in Slots : reqs'[r] = reqs[r]
    BY <1>1, <1>2
  <2>. QED BY <1>2, <2>1, <2>2, StackFrame
<1>4. StackInv'
  BY <1>1, <1>2 DEF AdrInv, StackInv
<1>5. MeantInv'
  <2>1. ASSUME ~excused'
        PROVE  /\ \A j \in DOMAIN pages' : FormOk(pages'[j])
               /\ \A r \in Slots : FetchOk(reqs[r], pages')
    <3>1. (\A j \in 1..n : FormOk(pages[j])) /\ \A r \in Slots : FetchOk(reqs[r], pages)
      BY <1>1, <2>1 DEF AdrInv, MeantInv
    <3>2. \A r \in Slots : reqs[r] # Idle => reqs[r].page \in 0..n
      BY AdrFacts DEF Busy
    <3>3. \A r \in Slots : FetchOk(reqs[r], pages')
      BY <1>1, <1>2, <2>1, <3>1, <3>2 DEF FetchOk
    <3>. QED BY <1>2, <2>1, <3>1, <3>3
  <2>. QED BY <2>1, MeantFrame
<1>6. TypeOK' /\ ShopInv' /\ RoomInv'
  BY <1>2 DEF AdrInv, TypeOK, AdrPage, ShopInv, RoomInv
<1>. QED BY <1>3, <1>4, <1>5, <1>6 DEF AdrInv
LEMMA StackFacts ==
  ASSUME AdrInv
  PROVE  /\ want \subseteq Row /\ excused \in BOOLEAN
         /\ \A k \in 1..Len(pages) : PageOk(pages[k], shop, born)
         /\ ~excused => /\ \A k \in 1..Len(pages) : FormOk(pages[k])
                        /\ \A r \in Slots : FetchOk(reqs[r], pages)
BY AdrFacts DEF AdrInv, TypeOK, StackInv, MeantInv

LEMMA StepOpenList ==
  ASSUME AdrInv, NEW q \in Slots, OpenList(q)
  PROVE  AdrInv'
<1>1. /\ ~Busy(q) /\ Room /\ PushList(q, pages)
      /\ UNCHANGED <<shop, born, events, want, excused>>
  BY DEF OpenList
<1>2. ~Unserved(reqs[q]) /\ \A k \in 1..Len(pages) : Same(pages[k], pages[k])
  BY <1>1 DEF Unserved, Changes, Busy, Same
<1>3. pages \in Seq(AdrPage)
  BY AdrFacts
<1>. QED BY <1>1, <1>2, <1>3, StackFacts, StepPushList

LEMMA StepOpenForm ==
  ASSUME AdrInv, OpenForm
  PROVE  AdrInv'
<1>. DEFINE p == NewForm("add", 0, 0)
<1>1. /\ Room /\ pages' = Append(pages, p)
      /\ UNCHANGED <<shop, born, reqs, events, want, excused>>
  BY DEF OpenForm
<1>2. p \in Form \union {Error} /\ FormOk(p)
  BY NewFormFacts
<1>. HIDE DEF p
<1>3. reqs' \in [Slots -> {Idle} \union Request] /\ events' \in 0..MaxEvents
  BY <1>1, AdrFacts
<1>4. want' \subseteq Row /\ excused' \in BOOLEAN /\ (~excused' => ~excused /\ want' = want)
  BY <1>1, StackFacts
<1>. QED BY <1>1, <1>2, <1>3, <1>4, StepPush

LEMMA StepLoader ==
  ASSUME AdrInv, NEW k \in DOMAIN pages, LoaderEnds(k)
  PROVE  AdrInv'
<1>. DEFINE p == [pages[k] EXCEPT !.ready = TRUE, !.shown = pages[k].have]
<1>1. /\ pages[k].kind = "list" /\ pages' = [pages EXCEPT ![k] = p]
      /\ UNCHANGED <<shop, born, reqs, events, want, excused>>
  BY DEF LoaderEnds
<1>2. pages[k] \in ListPage /\ PageOk(pages[k], shop, born)
  BY <1>1, AdrFacts, AdrPageKinds, StackFacts
<1>3. /\ p \in ListPage /\ p.kind = "list" /\ p.have = pages[k].have /\ p.shown = pages[k].have
      /\ p.missing = pages[k].missing /\ p.deleted = pages[k].deleted
  BY <1>1, <1>2 DEF ListPage
<1>. HIDE DEF p
<1>4. p \in AdrPage /\ Same(pages[k], p) /\ PageOk(p, shop, born) /\ FormOk(p)
  BY <1>1, <1>2, <1>3, AdrPageKinds DEF Same, PageOk, FormOk
<1>5. \A r \in Slots : reqs[r] # Idle /\ reqs[r].kind = "fetch" => reqs[r].page # k
  BY <1>1, AdrFacts DEF ReqOk, Asker, Busy
<1>. QED BY <1>1, <1>4, <1>5, StackFacts, StepDraw

\* A form is typed into, or its button is switched off or on.
LEMMA StepForm ==
  ASSUME AdrInv, NEW k \in DOMAIN pages, NEW p \in Form, pages' = [pages EXCEPT ![k] = p],
         p.kind = pages[k].kind, UNCHANGED <<shop, born, reqs, events>>,
         want' \subseteq Row, excused' \in BOOLEAN,
         ~excused' => ~excused /\ want' = want /\ FormOk(p),
         \/ p.typed = pages[k].typed
         \/ ~excused' => \A r \in Slots : ~(Busy(r) /\ reqs[r].kind = "fetch" /\ reqs[r].page = k)
  PROVE  AdrInv'
<1>1. p.kind # "list" /\ p \in AdrPage /\ k # 0
  BY AdrFacts, AdrPageKinds
<1>2. Same(pages[k], p) /\ PageOk(p, shop, born)
  BY <1>1 DEF Same, PageOk
<1>3. ~excused' => \A r \in Slots : reqs[r] # Idle /\ reqs[r].kind = "fetch" /\ reqs[r].page = k =>
                                      p.typed = Blank
  BY <1>1, StackFacts DEF FetchOk, Busy
<1>. QED BY <1>1, <1>2, <1>3, StepDraw

LEMMA StepButton ==
  ASSUME AdrInv, NEW k \in DOMAIN pages, NEW on \in BOOLEAN, pages[k].kind \in {"add", "edit"},
         pages' = [pages EXCEPT ![k] = [@ EXCEPT !.enabled = on]],
         UNCHANGED <<shop, born, reqs, events, want, excused>>
  PROVE  AdrInv'
<1>. DEFINE p == [pages[k] EXCEPT !.enabled = on]
<1>1. pages[k] \in Form
  BY AdrFacts, AdrPageKinds
<1>2. /\ p \in Form /\ p.kind = pages[k].kind /\ p.typed = pages[k].typed
      /\ p.field = pages[k].field /\ p.id = pages[k].id /\ p.meant = pages[k].meant
  BY <1>1 DEF Form
<1>3. pages' = [pages EXCEPT ![k] = p]
  OBVIOUS
<1>. HIDE DEF p
<1>4. ~excused => FormOk(p)
  BY <1>2, AdrFacts, StackFacts DEF FormOk
<1>. QED BY <1>2, <1>3, <1>4, StackFacts, StepForm

LEMMA StepButtons ==
  ASSUME AdrInv, SaveInvalid \/ \E k \in DOMAIN pages : ButtonTimer(k)
  PROVE  AdrInv'
<1>1. CASE SaveInvalid
  <2>1. Len(pages) \in DOMAIN pages /\ Top = pages[Len(pages)]
    BY AdrFacts
  <2>. QED BY <1>1, <2>1, StepButton DEF SaveInvalid, Disabled
<1>2. ASSUME NEW k \in DOMAIN pages, ButtonTimer(k) PROVE AdrInv'
  BY <1>2, StepButton DEF ButtonTimer
<1>. QED BY <1>1, <1>2

LEMMA StepType ==
  ASSUME AdrInv, NEW v \in Values, Type(v)
  PROVE  AdrInv'
<1>. DEFINE n == Len(pages)
            p == [pages[n] EXCEPT !.field = v, !.typed = v]
<1>1. /\ Top.kind \in {"add", "edit"} /\ Mean(want, Filling)
      /\ pages' = [pages EXCEPT ![n] = p] /\ UNCHANGED <<shop, born, reqs, events>>
  BY DEF Type
<1>2. n \in DOMAIN pages /\ pages[n] \in Form
  BY <1>1, AdrFacts, AdrPageKinds
<1>3. /\ p \in Form /\ p.kind = pages[n].kind /\ p.typed = v /\ p.field = v
      /\ p.id = pages[n].id /\ p.meant = pages[n].meant
  BY <1>2 DEF Form
<1>. HIDE DEF p
<1>4. /\ want' \subseteq Row /\ excused' \in BOOLEAN
      /\ ~excused' => ~excused /\ ~Filling /\ want' = want
  BY <1>1, StackFacts, MeanFacts
<1>5. ~excused => FormOk(p)
  BY <1>2, <1>3, AdrFacts, StackFacts DEF FormOk
<1>6. ~excused' => \A r \in Slots : ~(Busy(r) /\ reqs[r].kind = "fetch" /\ reqs[r].page = n)
  BY <1>4 DEF Filling
<1>. QED BY <1>1, <1>2, <1>3, <1>4, <1>5, <1>6, StepForm
\* A change is asked for by the top page.  A patient shopper asks when the
\* addresses are as meant.
LEMMA StepChange ==
  ASSUME AdrInv, NEW q \in Slots, NEW wanted, NEW impatient, Change(q, wanted, impatient),
         wanted \subseteq Row,
         NEW x \in Request, x.kind \in Changing, x.pc = "sent", x.page = Len(pages),
         reqs' = [reqs EXCEPT ![q] = x],
         NEW p \in AdrPage, p.kind = Asker[x.kind],
         pages' \in Seq(AdrPage), Len(pages') = Len(pages), pages'[Len(pages)] = p,
         \A k \in 1..Len(pages) : k # Len(pages) => pages'[k] = pages[k],
         Same(Top, p), PageOk(p, shop, born), ~excused => FormOk(p),
         p.kind = "edit" => p.typed = Top.typed,
         x.kind \in {"edit", "add"} => x.val \in Values /\ Room,
         x.kind = "add" => born + Cardinality(Adding) < MaxIds,
         x.kind = "delete" => p.deleted,
         ~excused /\ ~impatient => wanted = Changed(x, want, born)
  PROVE  AdrInv'
<1>. DEFINE n == Len(pages)
<1>1. /\ ~Busy(q) /\ events < MaxEvents /\ events' = events + 1
      /\ Mean(wanted, UnderWay \/ impatient) /\ UNCHANGED <<shop, born>>
  BY DEF Change, Event
<1>2. /\ want' \subseteq Row /\ excused' \in BOOLEAN
      /\ ~excused' => ~excused /\ ~(UnderWay \/ impatient) /\ want' = wanted
  <2>. DEFINE e == UnderWay \/ impatient
  <2>1. Mean(wanted, e)
    BY <1>1
  <2>. HIDE DEF e
  <2>2. /\ want' \subseteq Row /\ excused' \in BOOLEAN
        /\ ~excused' => ~excused /\ ~e /\ want' = wanted
    BY <2>1, MeanFacts
  <2>. QED BY <2>2 DEF e
<1>3. /\ n \in Nat /\ n >= 1 /\ DOMAIN pages = 1..n /\ Top = pages[n] /\ MaxPages \in Nat
      /\ reqs \in [Slots -> {Idle} \union Request]
  BY AdrFacts
<1>4. DOMAIN pages' = 1..n
  BY <1>3, LenProperties
<1>5. x # Idle /\ Changes(x) /\ Unserved(x) /\ x.kind \notin {"list", "fetch"}
  <2>1. x.pc # Idle.pc
    BY DEF Idle
  <2>. QED BY <2>1 DEF Changes, Unserved, Changing
<1>6. reqs'[q] = x /\ \A r \in Slots : r # q => reqs'[r] = reqs[r]
  BY <1>3
<1>7. ReqsInv' /\ ListsInv'
  <2>1. ReqOk(x, pages')
    BY <1>3, <1>5 DEF ReqOk
  <2>2. \A k \in 1..n : Same(pages[k], pages'[k])
    BY <1>3 DEF Same
  <2>3. \A r \in Slots :
          \/ reqs'[r] = reqs[r]
          \/ r = q /\ reqs'[r] = Idle
          \/ /\ r = q /\ ReqOk(reqs'[r], pages')
             /\ reqs'[r].kind = "list" /\ reqs'[r].page # 0 =>
                  \/ reqs'[r].page > n
                  \/ pages'[reqs'[r].page].deleted
                  \/ Busy(r) /\ reqs[r].kind = "list" /\ reqs[r].page = reqs'[r].page
    BY <1>5, <1>6, <2>1
  <2>4. AdrInv /\ pages' \in Seq(AdrPage) /\ Len(pages') >= n
    BY <1>3
  <2>. QED BY ONLY <2>2, <2>3, <2>4, StackFrame
<1>8. StackInv'
  BY <1>1, <1>3, <1>4, StackFacts DEF StackInv
<1>9. RoomInv'
  <2>1. /\ IsFiniteSet(Pushing(reqs')) /\ Cardinality(Pushing(reqs')) \in Nat
        /\ Cardinality(Bearing(reqs')) \in Nat
        /\ Cardinality(Pushing(reqs')) <= Cardinality(Pushing(reqs)) + 1
        /\ Cardinality(Bearing(reqs')) <= Cardinality(Bearing(reqs)) + 1
        /\ Cardinality(Bearing(reqs)) <= Cardinality(Adding)
    BY <1>6, RoomCount
  <2>2. ASSUME x.kind \notin {"edit", "add"}
        PROVE  Cardinality(Pushing(reqs')) <= Cardinality(Pushing(reqs))
    <3>1. q \notin Pushing(reqs')
      BY <1>6, <2>2 DEF Pushing
    <3>. QED BY <1>6, <3>1, RoomCount
  <2>3. ASSUME x.kind # "add"
        PROVE  Cardinality(Bearing(reqs')) <= Cardinality(Bearing(reqs))
    <3>1. q \notin Bearing(reqs')
      BY <1>6, <2>3 DEF Bearing
    <3>. QED BY <1>6, <3>1, RoomCount
  <2>4. /\ n + Cardinality(Pushing(reqs)) <= MaxPages /\ born + Cardinality(Bearing(reqs)) <= MaxIds
        /\ x.kind \in {"edit", "add"} => n + Cardinality(Pushing(reqs)) < MaxPages
        /\ Cardinality(Pushing(reqs)) \in Nat /\ Cardinality(Bearing(reqs)) \in Nat
        /\ born \in Nat /\ MaxIds \in Nat
    BY RoomFacts, AdrFacts
  <2>5. n + Cardinality(Pushing(reqs')) <= MaxPages
    <3>1. CASE x.kind \in {"edit", "add"}
      BY <1>3, <2>1, <2>4, <3>1
    <3>2. CASE x.kind \notin {"edit", "add"}
      BY <1>3, <2>1, <2>2, <2>4, <3>2
    <3>. QED BY <3>1, <3>2
  <2>6. born + Cardinality(Bearing(reqs')) <= MaxIds
    <3>1. CASE x.kind = "add"
      <4>1. Cardinality(Adding) \in Nat
        <5>1. Adding \subseteq Pushing(reqs) /\ IsFiniteSet(Pushing(reqs))
          BY DEF Adding, Pushing, Busy, AdrInv, RoomInv
        <5>. QED BY <5>1, FS_Subset, FS_CardinalityType
      <4>. QED BY <2>1, <2>4, <3>1, <4>1
    <3>2. CASE x.kind # "add"
      BY <2>1, <2>3, <2>4, <3>2
    <3>. QED BY <3>1, <3>2
  <2>. QED BY <1>1, <2>1, <2>5, <2>6 DEF RoomInv
<1>10. MeantInv'
  <2>. SUFFICES ASSUME ~excused'
       PROVE  /\ \A k \in DOMAIN pages' : FormOk(pages'[k])
              /\ \A r \in Slots : FetchOk(reqs'[r], pages')
              /\ \A r, t \in Slots : Changes(reqs'[r]) /\ Changes(reqs'[t]) => r = t
              /\ \A r \in Slots : Unserved(reqs'[r]) => wanted = Changed(reqs'[r], ToSet(shop), born)
              /\ \E r \in Slots : Unserved(reqs'[r])
    BY <1>1, <1>2 DEF MeantInv
  <2>1. ~excused /\ ~UnderWay /\ ~impatient
    BY <1>2, Zenon
  <2>2. \A r \in Slots : ~Changes(reqs[r])
    BY <2>1 DEF UnderWay, Changes, Busy
  <2>3. want = ToSet(shop)
    BY <2>1, <2>2 DEF AdrInv, MeantInv, Unserved
  <2>4. wanted = Changed(x, ToSet(shop), born)
    BY <2>1, <2>3
  <2>5. \A r \in Slots : Changes(reqs'[r]) => r = q
    BY <1>6, <2>2
  <2>6. \A k \in DOMAIN pages' : FormOk(pages'[k])
    BY <1>3, <1>4, <2>1, StackFacts
  <2>7. ASSUME NEW r \in Slots, reqs[r] # Idle PROVE FetchOk(reqs[r], pages')
    <3>1. FetchOk(reqs[r], pages) /\ reqs[r].page \in 0..n /\ ReqOk(reqs[r], pages)
      BY <2>1, <2>7, AdrFacts, StackFacts DEF Busy
    <3>2. reqs[r].kind = "fetch" /\ reqs[r].page = n => Top.kind = "edit"
      BY <1>3, <3>1 DEF ReqOk, Asker
    <3>3. Top.kind = "edit" => p.typed = Top.typed
      BY DEF Same
    <3>. QED BY <1>3, <3>1, <3>2, <3>3 DEF FetchOk
  <2>8. \A r \in Slots : FetchOk(reqs'[r], pages')
    BY <1>5, <1>6, <2>7 DEF FetchOk
  <2>. QED BY <1>5, <1>6, <2>4, <2>5, <2>6, <2>8 DEF Unserved
<1>11. TypeOK'
  <2>1. events' \in 0..MaxEvents
    BY <1>1, AdrFacts
  <2>2. reqs' \in [Slots -> {Idle} \union Request]
    BY <1>3
  <2>. QED BY <1>1, <1>2, <2>1, <2>2 DEF AdrInv, TypeOK, AdrPage
<1>12. ShopInv'
  BY <1>1 DEF AdrInv, ShopInv
<1>. QED BY <1>7, <1>8, <1>9, <1>10, <1>11, <1>12 DEF AdrInv
\* The row that is tapped and the row that is sent are both addresses, and the
\* same one until the page is deleted from.
LEMMA AdrTappedRow ==
  ASSUME AdrInv, NEW i, Tappable(i)
  PROVE  /\ Top \in ListPage /\ Top.kind = "list"
         /\ Top.shown[i] \in Row /\ Top.have[i] \in Row
         /\ {Top.shown[i].id, Top.have[i].id} \subseteq Ids
         /\ ~Top.deleted => Top.shown[i] = Top.have[i]
<1>1. Top.kind = "list" /\ i \in DOMAIN Top.shown /\ i \in DOMAIN Top.have
  BY DEF Tappable
<1>2. Top \in ListPage /\ PageOk(Top, shop, born)
  BY <1>1, AdrFacts, AdrPageKinds, StackFacts
<1>3. Top.shown \in Seq(Row) /\ Top.have \in Seq(Row)
  BY <1>2 DEF ListPage
<1>4. Top.shown[i] \in Row /\ Top.have[i] \in Row
  BY <1>1, <1>3, ListFacts
<1>5. ~Top.deleted => Top.shown = Top.have
  BY <1>1, <1>2 DEF PageOk
<1>. QED BY <1>1, <1>2, <1>4, <1>5 DEF Row

LEMMA StepTapDelete ==
  ASSUME AdrInv, NEW q \in Slots, NEW i, TapDelete(q, i)
  PROVE  AdrInv'
<1>. DEFINE n == Len(pages)
            p == [pages[n] EXCEPT !.deleted = TRUE]
            x == Sent("delete", n, Top.have[i].id, Blank)
            wanted == {r \in want : r.id # Top.shown[i].id}
<1>1. /\ Tappable(i) /\ Change(q, wanted, Top.deleted)
      /\ reqs' = [reqs EXCEPT ![q] = x] /\ pages' = [pages EXCEPT ![n] = p]
  BY DEF TapDelete
<1>2. n \in DOMAIN pages /\ Top = pages[n] /\ n \in 0..MaxPages /\ n \in 1..n
  BY AdrFacts
<1>3. /\ Top \in ListPage /\ Top.kind = "list" /\ Top.have[i].id \in Ids
      /\ Top.deleted \in BOOLEAN /\ (~Top.deleted => Top.shown[i] = Top.have[i])
  BY <1>1, AdrTappedRow DEF ListPage
<1>4. /\ x \in Request /\ x.kind = "delete" /\ x.page = n /\ x.pc = "sent"
      /\ x.id = Top.have[i].id
  <2>1. /\ "delete" \in Changing \union {"list", "fetch"} /\ n \in 0..MaxPages
        /\ Top.have[i].id \in {0} \union Ids /\ Blank \in Values \union {Blank}
    BY <1>2, <1>3 DEF Changing
  <2>. QED BY <2>1 DEF Sent, Request
<1>5. wanted \subseteq Row
  BY StackFacts
<1>6. ~Top.deleted => wanted = Changed(x, want, born)
  BY <1>3, <1>4 DEF Changed
<1>7. /\ p \in ListPage /\ p.kind = "list" /\ p.have = Top.have /\ p.shown = Top.shown
      /\ p.missing = Top.missing /\ p.deleted
  BY <1>2, <1>3 DEF ListPage
<1>. HIDE DEF p, x, wanted
<1>8. p \in AdrPage /\ Same(Top, p) /\ FormOk(p) /\ p.kind = Asker[x.kind]
  BY <1>3, <1>4, <1>7, AdrPageKinds DEF Same, FormOk, Asker
<1>9. PageOk(p, shop, born)
  BY <1>2, <1>3, <1>7, StackFacts DEF PageOk
<1>10. /\ pages' \in Seq(AdrPage) /\ Len(pages') = n /\ pages'[n] = p
       /\ \A j \in 1..n : j # n => pages'[j] = pages[j]
  BY <1>1, <1>2, <1>8, InPlaceFacts
<1>11. x.kind \in Changing /\ x.kind \notin {"edit", "add"} /\ p.kind # "edit"
  BY <1>4, <1>7 DEF Changing
<1>12. AdrInv
  OBVIOUS
<1>. QED BY <1>1, <1>4, <1>5, <1>6, <1>7, <1>8, <1>9, <1>10, <1>11, StepChange

\* What the shopper means a form to save is what it sends.
LEMMA MeantFacts ==
  ASSUME AdrInv, Top.kind \in {"add", "edit"}, Top.field # Blank
  PROVE  /\ Top \in Form /\ Top.field \in Values /\ Meant \in Values
         /\ ~excused => Meant = Top.field /\ Top.id = Top.meant
<1>1. Top \in Form
  BY AdrFacts, AdrPageKinds
<1>2. Top.field \in Values /\ Top.typed \in Values \union {Blank}
  BY <1>1 DEF Form
<1>3. ~excused => FormOk(Top)
  BY AdrFacts, StackFacts
<1>. QED BY <1>1, <1>2, <1>3 DEF Meant, FormOk

LEMMA StepSaveEdit ==
  ASSUME AdrInv, NEW q \in Slots, SaveEdit(q)
  PROVE  AdrInv'
<1>. DEFINE n == Len(pages)
            x == Sent("edit", n, Top.id, Top.field)
            wanted == {IF r.id = Top.meant THEN [r EXCEPT !.val = Meant] ELSE r : r \in want}
<1>1. /\ Top.kind = "edit" /\ Top.field # Blank /\ Room /\ Change(q, wanted, FALSE)
      /\ reqs' = [reqs EXCEPT ![q] = x] /\ pages' = pages
  BY DEF SaveEdit
<1>2. /\ n \in 0..MaxPages /\ n \in 1..n /\ Top = pages[n] /\ Top \in AdrPage
      /\ pages \in Seq(AdrPage)
  BY AdrFacts
<1>3. /\ Top \in Form /\ Top.field \in Values /\ Meant \in Values
      /\ ~excused => Meant = Top.field /\ Top.id = Top.meant
  BY <1>1, MeantFacts
<1>4. /\ x \in Request /\ x.kind = "edit" /\ x.page = n /\ x.pc = "sent"
      /\ x.id = Top.id /\ x.val = Top.field
  <2>1. /\ "edit" \in Changing \union {"list", "fetch"} /\ n \in 0..MaxPages
        /\ Top.id \in {0} \union Ids /\ Top.field \in Values \union {Blank}
    BY <1>2, <1>3 DEF Form, Changing
  <2>. QED BY <2>1 DEF Sent, Request
<1>5. wanted \subseteq Row
  <2>1. ASSUME NEW r \in want
        PROVE  (IF r.id = Top.meant THEN [r EXCEPT !.val = Meant] ELSE r) \in Row
    <3>1. r \in Row
      BY StackFacts
    <3>. QED BY <1>3, <3>1 DEF Row
  <2>. QED BY <2>1
<1>6. ~excused => wanted = Changed(x, want, born)
  BY <1>3, <1>4 DEF Changed
<1>. HIDE DEF x, wanted
<1>7. Same(Top, Top) /\ PageOk(Top, shop, born) /\ (~excused => FormOk(Top)) /\ Top.kind = Asker[x.kind]
  BY <1>1, <1>2, <1>4, StackFacts DEF Same, Asker
<1>8. x.kind \in Changing /\ x.kind # "add" /\ x.kind # "delete" /\ x.val \in Values
  BY <1>3, <1>4 DEF Changing
<1>9. /\ pages' \in Seq(AdrPage) /\ Len(pages') = n /\ pages'[n] = Top
      /\ \A j \in 1..n : j # n => pages'[j] = pages[j]
  BY <1>1, <1>2
<1>. QED BY <1>1, <1>2, <1>4, <1>5, <1>6, <1>7, <1>8, <1>9, StepChange

LEMMA StepSaveNew ==
  ASSUME AdrInv, NEW q \in Slots, SaveNew(q)
  PROVE  AdrInv'
<1>. DEFINE n == Len(pages)
            p == [pages[n] EXCEPT !.enabled = FALSE]
            x == Sent("add", n, 0, Top.field)
            wanted == want \union {[id |-> born + 1, val |-> Meant]}
<1>1. /\ Top.kind = "add" /\ Top.field # Blank /\ Room /\ Change(q, wanted, FALSE)
      /\ born + Cardinality(Adding) < MaxIds
      /\ reqs' = [reqs EXCEPT ![q] = x] /\ pages' = [pages EXCEPT ![n] = p]
  BY DEF SaveNew, Disabled
<1>2. n \in DOMAIN pages /\ Top = pages[n] /\ n \in 0..MaxPages /\ n \in 1..n
  BY AdrFacts
<1>3. /\ Top \in Form /\ Top.field \in Values /\ Meant \in Values
      /\ ~excused => Meant = Top.field
  BY <1>1, MeantFacts
<1>4. /\ x \in Request /\ x.kind = "add" /\ x.page = n /\ x.pc = "sent" /\ x.val = Top.field
  <2>1. /\ "add" \in Changing \union {"list", "fetch"} /\ n \in 0..MaxPages
        /\ 0 \in {0} \union Ids /\ Top.field \in Values \union {Blank}
    BY <1>2, <1>3 DEF Changing
  <2>. QED BY <2>1 DEF Sent, Request
<1>5. wanted \subseteq Row
  <2>1. Cardinality(Adding) \in Nat
    <3>1. Adding \subseteq Pushing(reqs) /\ IsFiniteSet(Pushing(reqs))
      BY DEF Adding, Pushing, Busy, AdrInv, RoomInv
    <3>. QED BY <3>1, FS_Subset, FS_CardinalityType
  <2>2. born + 1 \in Ids
    BY <1>1, <2>1, AdrFacts DEF Ids
  <2>3. [id |-> born + 1, val |-> Meant] \in Row
    BY <1>3, <2>2 DEF Row
  <2>. QED BY <2>3, StackFacts
<1>6. ~excused => wanted = Changed(x, want, born)
  BY <1>3, <1>4 DEF Changed
<1>7. /\ p \in Form /\ p.kind = "add" /\ p.typed = Top.typed
      /\ p.field = Top.field /\ p.id = Top.id /\ p.meant = Top.meant
  BY <1>1, <1>2, <1>3 DEF Form
<1>. HIDE DEF p, x, wanted
<1>8. p \in AdrPage /\ Same(Top, p) /\ p.kind = Asker[x.kind] /\ PageOk(p, shop, born)
  BY <1>1, <1>4, <1>7, AdrPageKinds DEF Same, Asker, PageOk
<1>9. ~excused => FormOk(p)
  BY <1>1, <1>2, <1>7, StackFacts DEF FormOk
<1>10. /\ pages' \in Seq(AdrPage) /\ Len(pages') = n /\ pages'[n] = p
       /\ \A j \in 1..n : j # n => pages'[j] = pages[j]
  BY <1>1, <1>2, <1>8, InPlaceFacts
<1>11. x.kind \in Changing /\ x.kind # "delete" /\ x.val \in Values
  BY <1>3, <1>4 DEF Changing
<1>. QED BY <1>1, <1>4, <1>5, <1>6, <1>7, <1>8, <1>9, <1>10, <1>11, StepChange
\* A request moves on or ends, over pages of which none comes or goes.
LEMMA StepRequest ==
  ASSUME AdrInv, NEW q \in Slots, Busy(q), NEW x \in {Idle} \union Request,
         reqs' = [reqs EXCEPT ![q] = x],
         pages' \in Seq(AdrPage), Len(pages') = Len(pages),
         \A k \in 1..Len(pages) :
           /\ Same(pages[k], pages'[k]) /\ PageOk(pages'[k], shop, born)
           /\ pages[k].kind = "edit" => pages'[k].typed = pages[k].typed
           /\ ~excused => FormOk(pages'[k]),
         x # Idle =>
           /\ ReqOk(x, pages')
           /\ x.kind \in {"add", "edit"} => reqs[q].kind = x.kind
           /\ x.kind = "fetch" => reqs[q].kind = "fetch" /\ reqs[q].page = x.page
           /\ x.kind = "list" /\ x.page # 0 =>
                pages'[x.page].deleted \/ (reqs[q].kind = "list" /\ reqs[q].page = x.page),
         ~Unserved(x), Changes(x) => Changes(reqs[q]),
         events' \in 0..MaxEvents, want' \subseteq Row, excused' \in BOOLEAN,
         ~excused' => /\ ~excused /\ want' = want
                      /\ Unserved(reqs[q]) => Changed(reqs[q], ToSet(shop), born) = ToSet(shop),
         UNCHANGED <<shop, born>>
  PROVE  AdrInv'
<1>. DEFINE n == Len(pages)
<1>1. /\ n \in Nat /\ n >= 1 /\ DOMAIN pages' = 1..n
      /\ reqs \in [Slots -> {Idle} \union Request]
  BY AdrFacts, LenProperties
<1>2. reqs'[q] = x /\ \A r \in Slots : r # q => reqs'[r] = reqs[r]
  BY <1>1
<1>3. ReqsInv' /\ ListsInv'
  <2>1. \A r \in Slots :
          \/ reqs'[r] = reqs[r]
          \/ r = q /\ reqs'[r] = Idle
          \/ /\ r = q /\ ReqOk(reqs'[r], pages')
             /\ reqs'[r].kind = "list" /\ reqs'[r].page # 0 =>
                  \/ reqs'[r].page > n
                  \/ pages'[reqs'[r].page].deleted
                  \/ Busy(r) /\ reqs[r].kind = "list" /\ reqs[r].page = reqs'[r].page
    BY <1>2
  <2>2. AdrInv /\ pages' \in Seq(AdrPage) /\ Len(pages') >= n
    BY <1>1
  <2>3. \A k \in 1..n : Same(pages[k], pages'[k])
    OBVIOUS
  <2>. QED BY ONLY <2>1, <2>2, <2>3, StackFrame
<1>4. StackInv'
  BY <1>1 DEF StackInv
<1>5. RoomInv'
  <2>1. q \notin Pushing(reqs') \/ q \in Pushing(reqs)
    BY <1>2 DEF Pushing, Busy
  <2>2. q \notin Bearing(reqs')
    BY <1>2 DEF Bearing, Unserved, Changes, Changing
  <2>3. /\ IsFiniteSet(Pushing(reqs')) /\ Cardinality(Pushing(reqs')) \in Nat
        /\ Cardinality(Bearing(reqs')) \in Nat
        /\ Cardinality(Pushing(reqs')) <= Cardinality(Pushing(reqs))
        /\ Cardinality(Bearing(reqs')) <= Cardinality(Bearing(reqs))
    BY <1>2, <2>1, <2>2, RoomCount
  <2>4. /\ n + Cardinality(Pushing(reqs)) <= MaxPages /\ born + Cardinality(Bearing(reqs)) <= MaxIds
        /\ Cardinality(Pushing(reqs)) \in Nat /\ Cardinality(Bearing(reqs)) \in Nat
        /\ born \in Nat /\ MaxIds \in Nat /\ MaxPages \in Nat
    BY RoomFacts, AdrFacts
  <2>. QED BY <1>1, <2>3, <2>4 DEF RoomInv
<1>6. MeantInv'
  <2>. SUFFICES ASSUME ~excused'
       PROVE  /\ \A k \in DOMAIN pages' : FormOk(pages'[k])
              /\ \A r \in Slots : FetchOk(reqs'[r], pages')
              /\ \A r, t \in Slots : Changes(reqs'[r]) /\ Changes(reqs'[t]) => r = t
              /\ \A r \in Slots : Unserved(reqs'[r]) => want = Changed(reqs'[r], ToSet(shop), born)
              /\ (\A r \in Slots : ~Unserved(reqs'[r])) => want = ToSet(shop)
    BY DEF MeantInv
  <2>1. ~excused
    OBVIOUS
  <2>2. \A k \in DOMAIN pages' : FormOk(pages'[k])
    BY <1>1, <2>1
  <2>3. ASSUME NEW r \in Slots, reqs[r] # Idle PROVE FetchOk(reqs[r], pages')
    <3>1. FetchOk(reqs[r], pages) /\ reqs[r].page \in 0..n /\ ReqOk(reqs[r], pages)
      BY <2>1, <2>3, AdrFacts, StackFacts DEF Busy
    <3>2. reqs[r].kind = "fetch" /\ reqs[r].page # 0 => pages[reqs[r].page].kind = "edit"
      BY <3>1 DEF ReqOk, Asker
    <3>. QED BY <1>1, <3>1, <3>2 DEF FetchOk
  <2>4. \A r \in Slots : FetchOk(reqs'[r], pages')
    <3>1. FetchOk(x, pages')
      BY <2>3 DEF FetchOk, Busy
    <3>. QED BY <1>2, <2>3, <3>1 DEF FetchOk
  <2>5. /\ \A r, t \in Slots : Changes(reqs[r]) /\ Changes(reqs[t]) => r = t
        /\ \A r \in Slots : Unserved(reqs[r]) => want = Changed(reqs[r], ToSet(shop), born)
        /\ (\A r \in Slots : ~Unserved(reqs[r])) => want = ToSet(shop)
    BY <2>1 DEF AdrInv, MeantInv
  <2>6. \A r, t \in Slots : Changes(reqs'[r]) /\ Changes(reqs'[t]) => r = t
    BY <1>2, <2>5
  <2>7. \A r \in Slots : Unserved(reqs'[r]) => r # q /\ reqs'[r] = reqs[r]
    BY <1>2
  <2>8. (\A r \in Slots : ~Unserved(reqs'[r])) => want = ToSet(shop)
    <3>1. CASE Unserved(reqs[q])
      BY <2>5, <3>1
    <3>2. CASE ~Unserved(reqs[q])
      BY <1>2, <2>5, <3>2
    <3>. QED BY <3>1, <3>2
  <2>. QED BY <2>2, <2>4, <2>5, <2>6, <2>7, <2>8
<1>7. TypeOK' /\ ShopInv'
  <2>1. reqs' \in [Slots -> {Idle} \union Request]
    BY <1>1
  <2>. QED BY <2>1 DEF AdrInv, TypeOK, AdrPage, ShopInv
<1>. QED BY <1>3, <1>4, <1>5, <1>6, <1>7 DEF AdrInv
\* A fault excuses whatever becomes of the addresses.
LEMMA FaultFacts ==
  ASSUME AdrInv, Fault
  PROVE  events' \in 0..MaxEvents /\ want' \subseteq Row /\ excused' \in BOOLEAN /\ excused'
<1>1. events < MaxEvents /\ events' = events + 1 /\ Mean({}, TRUE)
  BY DEF Fault, Event
<1>2. excused' = TRUE /\ want' = {}
  BY <1>1 DEF Mean
<1>. QED BY <1>1, <1>2, AdrFacts

\* A request moves on or ends, and the pages stay as they are.
LEMMA StepSame ==
  ASSUME AdrInv, NEW q \in Slots, Busy(q), NEW x \in {Idle} \union Request,
         reqs' = [reqs EXCEPT ![q] = x], pages' = pages,
         x # Idle => /\ x.kind = reqs[q].kind /\ x.page = reqs[q].page /\ ReqOk(x, pages)
                     /\ x.pc # "sent",
         events' \in 0..MaxEvents, want' \subseteq Row, excused' \in BOOLEAN,
         ~excused' => /\ ~excused /\ want' = want
                      /\ Unserved(reqs[q]) => Changed(reqs[q], ToSet(shop), born) = ToSet(shop),
         UNCHANGED <<shop, born>>
  PROVE  AdrInv'
<1>1. pages \in Seq(AdrPage)
  BY AdrFacts
<1>2. \A k \in 1..Len(pages) : /\ Same(pages[k], pages[k]) /\ PageOk(pages[k], shop, born)
                               /\ ~excused => FormOk(pages[k])
  BY StackFacts DEF Same
<1>3. ~Unserved(x) /\ (Changes(x) => Changes(reqs[q]))
  BY DEF Unserved, Changes, Busy
<1>. QED BY <1>1, <1>2, <1>3, StepRequest

LEMMA StepLose ==
  ASSUME AdrInv, NEW q \in Slots, Lose(q)
  PROVE  AdrInv'
<1>1. /\ Busy(q) /\ Fault /\ reqs' = [reqs EXCEPT ![q] = Idle] /\ UNCHANGED <<shop, born, pages>>
  BY DEF Lose, Done
<1>. QED BY <1>1, FaultFacts, StepSame

LEMMA StepFail ==
  ASSUME AdrInv, NEW q \in Slots, Fail(q)
  PROVE  AdrInv'
<1>1. /\ Busy(q) /\ Room /\ Fault /\ reqs' = [reqs EXCEPT ![q] = Idle]
      /\ pages' = Append(pages, Error) /\ UNCHANGED <<shop, born>>
  BY DEF Fail, Done
<1>2. /\ reqs' \in [Slots -> {Idle} \union Request]
      /\ \A r \in Slots : reqs'[r] = reqs[r] \/ (r = q /\ reqs'[r] = Idle)
  BY <1>1, AdrFacts
<1>3. Error \in Form \union {Error}
  OBVIOUS
<1>. QED BY <1>1, <1>2, <1>3, FaultFacts, StepPush

\* An edit icon: the form asks for the address it is given.
LEMMA StepTapEdit ==
  ASSUME AdrInv, NEW q \in Slots, NEW i, TapEdit(q, i)
  PROVE  AdrInv'
<1>. DEFINE n == Len(pages)
            p == NewForm("edit", Top.have[i].id, Top.shown[i].id)
            x == Sent("fetch", n + 1, Top.have[i].id, Blank)
<1>1. /\ Tappable(i) /\ ~Busy(q) /\ Room /\ pages' = Append(pages, p)
      /\ reqs' = [reqs EXCEPT ![q] = x] /\ Mean(want, Top.deleted)
      /\ UNCHANGED <<shop, born, events>>
  BY DEF TapEdit
<1>2. /\ Top \in ListPage /\ Top.have[i].id \in Ids /\ Top.shown[i].id \in Ids
      /\ ~Top.deleted => Top.shown[i] = Top.have[i]
  BY <1>1, AdrTappedRow
<1>3. /\ p \in Form /\ p.kind = "edit" /\ p.typed = Blank
      /\ Top.have[i].id = Top.shown[i].id => FormOk(p)
  BY <1>2 DEF NewForm, Form, FormOk
<1>4. n \in Nat /\ MaxPages \in Nat /\ n + 1 \in 0..MaxPages /\ n + 1 # 0
  BY <1>1, AdrFacts, RoomFacts
<1>5. x \in Request /\ x.pc = "sent" /\ x.kind = "fetch" /\ x.page = n + 1
  BY <1>2, <1>4 DEF Sent, Request
<1>6. x # Idle
  <2>1. x.pc # Idle.pc
    BY <1>5 DEF Idle
  <2>. QED BY <2>1
<1>. HIDE DEF p, x
<1>7. /\ reqs' \in [Slots -> {Idle} \union Request]
      /\ reqs'[q] = x /\ \A r \in Slots : r # q => reqs'[r] = reqs[r]
  BY <1>1, <1>5, AdrFacts
<1>8. /\ want' \subseteq Row /\ excused' \in BOOLEAN
      /\ ~excused' => ~excused /\ ~Top.deleted /\ want' = want
  BY <1>1, StackFacts, MeanFacts
<1>9. ~excused' => FormOk(p)
  BY <1>2, <1>3, <1>8
<1>10. \A r \in Slots : \/ reqs'[r] = reqs[r]
                        \/ /\ r = q /\ ~Busy(r) /\ reqs'[r] # Idle
                           /\ reqs'[r].kind = "fetch" /\ reqs'[r].page = n + 1
                           /\ p.kind = "edit" /\ p.typed = Blank
  BY <1>1, <1>3, <1>5, <1>6, <1>7
<1>11. events' \in 0..MaxEvents
  BY <1>1, AdrFacts
<1>. QED BY <1>1, <1>3, <1>7, <1>8, <1>9, <1>10, <1>11, StepPush

LEMMA StepBack ==
  ASSUME AdrInv, Back
  PROVE  AdrInv'
<1>. DEFINE n == Len(pages)
            Gone(r) == [r EXCEPT !.page = 0]
<1>1. /\ n > 1 /\ pages' = Front(pages) /\ UNCHANGED <<shop, born, events, want, excused>>
      /\ reqs' = [q \in Slots |-> IF Busy(q) /\ reqs[q].page = n
                                  THEN [reqs[q] EXCEPT !.page = 0] ELSE reqs[q]]
  BY DEF Back
<1>2. /\ n \in Nat /\ MaxPages \in Nat /\ n <= MaxPages /\ DOMAIN pages = 1..n
      /\ \A k \in 1..n : pages[k] \in AdrPage
  BY AdrFacts
<1>3. /\ pages' \in Seq(AdrPage) /\ Len(pages') = n - 1 /\ DOMAIN pages' = 1..(n - 1)
      /\ \A k \in 1..(n - 1) : pages'[k] = pages[k]
  <2>1. Front(pages) = SubSeq(pages, 1, n - 1)
    BY DEF Front
  <2>2. \A k \in 1..(n - 1) : pages[k] \in AdrPage
    BY <1>2
  <2>. QED BY <1>1, <1>2, <2>1, <2>2, AdrFacts, SubSeqProperties
<1>4. ASSUME NEW q \in Slots, Busy(q)
      PROVE  /\ reqs'[q] \in Request /\ reqs'[q] # Idle
             /\ reqs'[q].kind = reqs[q].kind /\ reqs'[q].pc = reqs[q].pc
             /\ reqs'[q].id = reqs[q].id /\ reqs'[q].val = reqs[q].val
             /\ reqs'[q].rows = reqs[q].rows
             /\ reqs'[q].page = IF reqs[q].page = n THEN 0 ELSE reqs[q].page
  <2>1. reqs[q] \in Request /\ 0 \in 0..MaxPages
    BY <1>2, <1>4, AdrFacts
  <2>2. /\ Gone(reqs[q]) \in Request /\ Gone(reqs[q]).pc = reqs[q].pc
        /\ Gone(reqs[q]).kind = reqs[q].kind /\ Gone(reqs[q]).page = 0
        /\ Gone(reqs[q]).id = reqs[q].id /\ Gone(reqs[q]).val = reqs[q].val
        /\ Gone(reqs[q]).rows = reqs[q].rows
    BY <2>1 DEF Request
  <2>3. \A r \in Request : r # Idle
    <3>1. \A r \in Request : r.pc # Idle.pc
      BY DEF Request, Idle
    <3>. QED BY <3>1
  <2>. QED BY <1>1, <1>4, <2>1, <2>2, <2>3
<1>5. \A q \in Slots : ~Busy(q) => reqs'[q] = Idle
  BY <1>1 DEF Busy
<1>6. ReqsInv'
  <2>1. ASSUME NEW q \in Slots, Busy(q) PROVE ReqOk(reqs'[q], pages')
    <3>1. ReqOk(reqs[q], pages) /\ reqs[q].page \in 0..n
      BY <2>1, AdrFacts
    <3>2. reqs'[q].page \in 0..(n - 1)
      BY <1>1, <1>2, <1>4, <2>1, <3>1
    <3>3. reqs'[q].page # 0 => reqs'[q].page = reqs[q].page /\ pages'[reqs'[q].page] = pages[reqs[q].page]
      BY <1>2, <1>3, <1>4, <2>1, <3>2
    <3>. QED BY <1>2, <1>3, <1>4, <2>1, <3>1, <3>2, <3>3 DEF ReqOk
  <2>. QED BY <1>5, <2>1 DEF ReqsInv, Busy
<1>7. ListsInv'
  <2>1. \A q \in Slots : reqs'[q] # Idle /\ reqs'[q].page # 0 =>
           /\ Busy(q) /\ reqs'[q].page = reqs[q].page /\ reqs'[q].kind = reqs[q].kind
           /\ pages'[reqs'[q].page] = pages[reqs[q].page]
    <3>1. ASSUME NEW q \in Slots, Busy(q), reqs'[q].page # 0
          PROVE  reqs'[q].page = reqs[q].page /\ pages'[reqs'[q].page] = pages[reqs[q].page]
      <4>1. reqs[q].page \in 0..n /\ reqs[q].page # n
        BY <1>1, <1>4, <3>1, AdrFacts
      <4>. QED BY <1>2, <1>3, <1>4, <3>1, <4>1
    <3>. QED BY <1>4, <1>5, <3>1 DEF Busy
  <2>. QED BY <2>1 DEF AdrInv, ListsInv, Busy
<1>8. StackInv'
  BY <1>1, <1>2, <1>3 DEF AdrInv, StackInv
<1>9. RoomInv'
  <2>1. Pushing(reqs') = Pushing(reqs) /\ Bearing(reqs') = Bearing(reqs)
    BY <1>4, <1>5 DEF Pushing, Bearing, Busy
  <2>. QED BY <1>1, <1>2, <1>3, <2>1, RoomFacts DEF AdrInv, RoomInv
<1>10. MeantInv'
  <2>1. ASSUME ~excused
        PROVE  /\ \A k \in DOMAIN pages' : FormOk(pages'[k])
               /\ \A q \in Slots : FetchOk(reqs'[q], pages')
    <3>1. \A k \in DOMAIN pages' : FormOk(pages'[k])
      BY <1>1, <1>2, <1>3, <2>1, StackFacts
    <3>2. ASSUME NEW q \in Slots, Busy(q) PROVE FetchOk(reqs'[q], pages')
      <4>1. FetchOk(reqs[q], pages) /\ reqs[q].page \in 0..n
        BY <2>1, <3>2, AdrFacts, StackFacts
      <4>2. reqs'[q].page # 0 => reqs'[q].page = reqs[q].page /\ pages'[reqs'[q].page] = pages[reqs[q].page]
        BY <1>2, <1>3, <1>4, <3>2, <4>1
      <4>. QED BY <1>4, <3>2, <4>1, <4>2 DEF FetchOk, Busy
    <3>. QED BY <1>5, <3>1, <3>2 DEF FetchOk
  <2>2. \A q \in Slots : Changes(reqs'[q]) =>
            /\ Changes(reqs[q]) /\ reqs'[q].kind = reqs[q].kind /\ reqs'[q].id = reqs[q].id
            /\ reqs'[q].val = reqs[q].val /\ reqs'[q].pc = reqs[q].pc
    BY <1>4, <1>5 DEF Changes, Busy
  <2>3. \A q \in Slots : Unserved(reqs[q]) => Unserved(reqs'[q])
    BY <1>4 DEF Unserved, Changes, Busy
  <2>. QED BY <1>1, <2>1, <2>2, <2>3, MeantFrame
<1>11. TypeOK' /\ ShopInv'
  <2>1. reqs' \in [Slots -> {Idle} \union Request]
    <3>1. \A q \in Slots : reqs'[q] \in {Idle} \union Request
      BY <1>4, <1>5
    <3>. QED BY <1>1, <3>1
  <2>2. Len(pages') \in 1..MaxPages
    BY <1>1, <1>2, <1>3
  <2>. QED BY <1>1, <1>3, <2>1, <2>2 DEF AdrInv, TypeOK, AdrPage, ShopInv
<1>. QED BY <1>6, <1>7, <1>8, <1>9, <1>10, <1>11 DEF AdrInv
LEMMA StepServeRead ==
  ASSUME AdrInv, NEW q \in Slots, ServeRead(q)
  PROVE  AdrInv'
<1>. DEFINE x == IF reqs[q].kind = "list" THEN [Answered(q) EXCEPT !.rows = shop]
                 ELSE [Answered(q) EXCEPT !.val = ValOf(shop, reqs[q].id)]
<1>1. /\ Busy(q) /\ reqs[q].pc = "sent" /\ reqs[q].kind \in {"list", "fetch"}
      /\ ~Unknown(reqs[q]) /\ reqs' = [reqs EXCEPT ![q] = x]
      /\ UNCHANGED <<shop, born, pages, events, want, excused>>
  BY DEF ServeRead, At
<1>2. reqs[q] \in Request /\ ReqOk(reqs[q], pages) /\ reqs[q].page \in 0..Len(pages)
  BY <1>1, AdrFacts
<1>3. shop \in Seq(Row)
  BY AdrFacts
<1>4. reqs[q].kind = "fetch" => ValOf(shop, reqs[q].id) \in Values
  <2>1. ASSUME reqs[q].id \in IdsOf(shop)
        PROVE  ValOf(shop, reqs[q].id) \in Values
    <3>1. PICK r \in ToSet(shop) : r.id = reqs[q].id
      BY <2>1 DEF IdsOf
    <3>2. (CHOOSE r2 \in ToSet(shop) : r2.id = reqs[q].id) \in ToSet(shop)
      BY <3>1
    <3>3. ToSet(shop) \subseteq Row
      BY <1>3, ListFacts
    <3>4. \A r2 \in Row : r2.val \in Values
      BY DEF Row
    <3>. QED BY <3>2, <3>3, <3>4 DEF ValOf
  <2>. QED BY <1>1, <2>1 DEF Unknown
<1>5. /\ x \in Request /\ x.kind = reqs[q].kind /\ x.page = reqs[q].page /\ x.pc = "ok"
      /\ x.kind = "list" => x.rows = shop
  <2>1. CASE reqs[q].kind = "list"
    BY <1>2, <1>3, <2>1 DEF Answered, Request
  <2>2. CASE reqs[q].kind = "fetch"
    BY <1>2, <1>4, <2>2 DEF Answered, Request
  <2>. QED BY <1>1, <2>1, <2>2
<1>. HIDE DEF x
<1>6. ReqOk(x, pages)
  <2>1. reqs[q].page # 0 => PageOk(pages[reqs[q].page], shop, born)
    BY <1>2, StackFacts, AdrFacts
  <2>. QED BY <1>1, <1>2, <1>5, <2>1 DEF ReqOk, PageOk, Asker
<1>7. ~Unserved(reqs[q])
  BY <1>1 DEF Unserved, Changes, Changing
<1>. QED BY <1>1, <1>5, <1>6, <1>7, AdrFacts, StackFacts, StepSame

\* What the shop makes of a change is what the change stands for.
LEMMA ServeFacts ==
  ASSUME AdrInv, NEW q \in Slots, ServeChange(q)
  PROVE  /\ shop' \in Seq(Row) /\ born' \in Nat /\ born' \in 0..MaxIds /\ born' >= born
         /\ ToSet(shop') = Changed(reqs[q], ToSet(shop), born)
         /\ ShopInv'
         /\ \A i \in DOMAIN shop' : \/ \E j \in DOMAIN shop : shop'[i].id = shop[j].id
                                    \/ shop'[i].id = born + 1
         /\ born' = IF reqs[q].kind = "add" THEN born + 1 ELSE born
<1>. DEFINE r == reqs[q]
            n == Len(shop)
<1>1. /\ Busy(q) /\ r.pc = "sent" /\ r.kind \in Changing /\ ~Unknown(r)
      /\ \/ /\ r.kind = "delete" /\ born' = born
            /\ shop' = RemoveAt(shop, CHOOSE i \in DOMAIN shop : shop[i].id = r.id)
         \/ /\ r.kind = "edit" /\ born' = born
            /\ shop' = [i \in DOMAIN shop |->
                          IF shop[i].id = r.id THEN [shop[i] EXCEPT !.val = r.val] ELSE shop[i]]
         \/ /\ r.kind = "add" /\ born' = born + 1
            /\ shop' = Append(shop, [id |-> born', val |-> r.val])
  BY DEF ServeChange, At
<1>2. /\ shop \in Seq(Row) /\ DOMAIN shop = 1..n /\ n \in Nat /\ \A i \in 1..n : shop[i] \in Row
      /\ born \in 0..MaxIds /\ born \in Nat /\ MaxIds \in Nat
  BY AdrFacts, ListFacts
<1>3. /\ \A i \in 1..n : shop[i].id \in 1..born
      /\ \A i, j \in 1..n : shop[i].id = shop[j].id => i = j
  BY <1>2 DEF AdrInv, ShopInv
<1>4. r \in Request /\ (r.kind \in {"edit", "add"} => r.val \in Values)
  BY <1>1, AdrFacts DEF ReqOk
<1>5. ToSet(shop) = {shop[i] : i \in 1..n}
  BY <1>2 DEF ToSet
<1>6. CASE r.kind = "delete"
  <2>. DEFINE d == CHOOSE i \in DOMAIN shop : shop[i].id = r.id
              from(j) == IF j < d THEN j ELSE j + 1
  <2>1. d \in 1..n /\ shop[d].id = r.id
    <3>1. \E i \in DOMAIN shop : shop[i].id = r.id
      BY <1>1, <1>5, <1>6, <1>2 DEF Unknown, IdsOf
    <3>. QED BY <1>2, <3>1
  <2>2. shop' = RemoveAt(shop, d) /\ born' = born
    BY <1>1, <1>6
  <2>. HIDE DEF d
  <2>3. /\ shop' \in Seq(Row) /\ DOMAIN shop' = 1..(n - 1)
        /\ \A j \in 1..(n - 1) : shop'[j] = IF j < d THEN shop[j] ELSE shop[j + 1]
    BY <1>2, <2>1, <2>2, RemoveAtFacts
  <2>4. \A j \in 1..(n - 1) : from(j) \in (1..n) \ {d} /\ shop'[j] = shop[from(j)]
    BY <1>2, <2>1, <2>3
  <2>5. \A j, k \in 1..(n - 1) : from(j) = from(k) => j = k
    BY <1>2, <2>1
  <2>6. ASSUME NEW k \in (1..n) \ {d} PROVE \E j \in 1..(n - 1) : from(j) = k
    <3>1. CASE k < d
      <4>1. k \in 1..(n - 1) /\ from(k) = k
        BY <1>2, <2>1, <3>1
      <4>. QED BY <4>1
    <3>2. CASE k > d
      <4>1. k - 1 \in 1..(n - 1) /\ from(k - 1) = k
        BY <1>2, <2>1, <3>2
      <4>. QED BY <4>1
    <3>. QED BY <1>2, <2>1, <3>1, <3>2
  <2>. HIDE DEF from
  <2>7. ShopInv'
    <3>1. \A j \in 1..(n - 1) : shop'[j].id \in 1..born
      BY <1>3, <2>4
    <3>2. ASSUME NEW j \in 1..(n - 1), NEW k \in 1..(n - 1), shop'[j].id = shop'[k].id
          PROVE  j = k
      <4>1. from(j) \in 1..n /\ from(k) \in 1..n /\ shop[from(j)].id = shop[from(k)].id
        BY ONLY <2>4, <3>2
      <4>2. from(j) = from(k)
        BY ONLY <1>3, <4>1
      <4>. QED BY <2>5, <4>2
    <3>. QED BY <2>2, <2>3, <3>1, <3>2 DEF ShopInv
  <2>8. ToSet(shop') = {s \in ToSet(shop) : s.id # r.id}
    <3>1. ASSUME NEW s \in ToSet(shop') PROVE s \in ToSet(shop) /\ s.id # r.id
      <4>1. PICK j \in 1..(n - 1) : s = shop'[j]
        BY <2>3 DEF ToSet
      <4>. QED BY <1>3, <1>5, <2>1, <2>4, <4>1
    <3>2. ASSUME NEW s \in ToSet(shop), s.id # r.id PROVE s \in ToSet(shop')
      <4>1. PICK k \in (1..n) \ {d} : s = shop[k]
        BY <1>5, <2>1, <3>2
      <4>2. PICK j \in 1..(n - 1) : from(j) = k
        BY <2>6
      <4>. QED BY <2>3, <2>4, <4>1, <4>2 DEF ToSet
    <3>. QED BY <3>1, <3>2
  <2>9. \A i \in DOMAIN shop' : \E j \in DOMAIN shop : shop'[i].id = shop[j].id
    BY <1>2, <2>3, <2>4
  <2>. QED BY <1>2, <1>6, <2>2, <2>3, <2>7, <2>8, <2>9 DEF Changed
<1>7. CASE r.kind = "edit"
  <2>. DEFINE E(s) == IF s.id = r.id THEN [s EXCEPT !.val = r.val] ELSE s
  <2>1. shop' = [i \in 1..n |-> E(shop[i])] /\ born' = born
    BY <1>1, <1>2, <1>7
  <2>2. \A s \in Row : E(s) \in Row /\ E(s).id = s.id
    BY <1>4, <1>7 DEF Row
  <2>. HIDE DEF E
  <2>3. shop' \in Seq(Row) /\ DOMAIN shop' = 1..n /\ \A i \in 1..n : shop'[i] = E(shop[i])
    BY <1>2, <2>1, <2>2
  <2>4. \A i \in 1..n : shop'[i].id = shop[i].id
    BY <1>2, <2>2, <2>3
  <2>5. ShopInv'
    BY <1>3, <2>1, <2>3, <2>4 DEF ShopInv
  <2>6. ToSet(shop') = {E(s) : s \in ToSet(shop)}
    BY <1>2, <2>3 DEF ToSet
  <2>7. Changed(r, ToSet(shop), born) = {E(s) : s \in ToSet(shop)}
    BY <1>7 DEF Changed, E
  <2>. QED BY <1>2, <1>7, <2>1, <2>3, <2>4, <2>5, <2>6, <2>7
<1>8. CASE r.kind = "add"
  <2>. DEFINE s == [id |-> born + 1, val |-> r.val]
  <2>1. shop' = Append(shop, s) /\ born' = born + 1
    BY <1>1, <1>8
  <2>2. born + 1 <= MaxIds
    <3>1. q \in Bearing(reqs) /\ IsFiniteSet(Bearing(reqs))
      <4>1. Bearing(reqs) \subseteq Pushing(reqs) /\ IsFiniteSet(Pushing(reqs))
        BY DEF Bearing, Pushing, AdrInv, RoomInv
      <4>. QED BY <1>1, <1>8, <4>1, FS_Subset DEF Bearing, Busy
    <3>2. Cardinality(Bearing(reqs)) # 0
      BY <3>1, FS_EmptySet
    <3>. QED BY <1>2, <3>2, RoomFacts
  <2>3. s \in Row /\ s.id = born + 1
    BY <1>2, <1>4, <1>8, <2>2 DEF Row, Ids
  <2>. HIDE DEF s
  <2>4. /\ shop' \in Seq(Row) /\ Len(shop') = n + 1 /\ shop'[n + 1] = s
        /\ \A i \in 1..n : shop'[i] = shop[i]
    BY <1>2, <2>1, <2>3, AppendProperties
  <2>5. DOMAIN shop' = 1..(n + 1)
    BY <2>4, LenProperties
  <2>6. ShopInv'
    <3>1. \A i \in 1..(n + 1) : shop'[i].id \in 1..(born + 1)
      BY <1>2, <1>3, <2>3, <2>4
    <3>2. \A i \in 1..n : shop'[i].id # born + 1
      BY <1>2, <1>3, <2>4
    <3>3. \A i, j \in 1..(n + 1) : shop'[i].id = shop'[j].id => i = j
      BY <1>2, <1>3, <2>3, <2>4, <3>2
    <3>. QED BY <2>1, <2>5, <3>1, <3>3 DEF ShopInv
  <2>7. ToSet(shop') = ToSet(shop) \union {s}
    BY <1>2, <2>4, <2>5 DEF ToSet
  <2>8. Changed(r, ToSet(shop), born) = ToSet(shop) \union {s}
    BY <1>8 DEF Changed, s
  <2>9. \A i \in DOMAIN shop' : \/ \E j \in DOMAIN shop : shop'[i].id = shop[j].id
                                \/ shop'[i].id = born + 1
    <3>1. ASSUME NEW i \in 1..(n + 1), i # n + 1 PROVE \E j \in DOMAIN shop : shop'[i].id = shop[j].id
      BY <1>2, <2>4, <3>1
    <3>. QED BY <2>3, <2>4, <2>5, <3>1
  <2>10. born' \in 0..MaxIds /\ born' \in Nat /\ born' >= born
    BY <1>2, <2>1, <2>2
  <2>. QED BY <1>8, <2>1, <2>4, <2>6, <2>7, <2>8, <2>9, <2>10
<1>. QED BY <1>1, <1>6, <1>7, <1>8 DEF Changing
LEMMA StepServeChange ==
  ASSUME AdrInv, NEW q \in Slots, ServeChange(q)
  PROVE  AdrInv'
<1>. DEFINE x == [reqs[q] EXCEPT !.pc = "ok"]
            n == Len(pages)
<1>1. /\ Busy(q) /\ reqs[q].pc = "sent" /\ reqs[q].kind \in Changing
      /\ reqs' = [reqs EXCEPT ![q] = x] /\ UNCHANGED <<pages, events, want, excused>>
  BY DEF ServeChange, At, Answered
<1>2. /\ reqs[q] \in Request /\ ReqOk(reqs[q], pages) /\ n \in Nat /\ DOMAIN pages = 1..n
      /\ pages \in Seq(AdrPage) /\ reqs \in [Slots -> {Idle} \union Request]
  BY <1>1, AdrFacts
<1>3. /\ x \in Request /\ x.kind = reqs[q].kind /\ x.page = reqs[q].page /\ x.pc = "ok"
      /\ x.val = reqs[q].val
  BY <1>2 DEF Request
<1>4. ReqOk(x, pages) /\ x.kind # "list" /\ x.kind # "fetch"
  BY <1>1, <1>2, <1>3 DEF ReqOk, Changing
<1>. HIDE DEF x
<1>5. reqs'[q] = x /\ \A r \in Slots : r # q => reqs'[r] = reqs[r]
  BY <1>1, <1>2
<1>6. /\ shop' \in Seq(Row) /\ born' \in Nat /\ born' \in 0..MaxIds /\ born' >= born /\ born \in Nat
      /\ ToSet(shop') = Changed(reqs[q], ToSet(shop), born) /\ ShopInv'
      /\ \A i \in DOMAIN shop' : \/ \E j \in DOMAIN shop : shop'[i].id = shop[j].id
                                 \/ shop'[i].id = born + 1
      /\ born' = IF reqs[q].kind = "add" THEN born + 1 ELSE born
  BY ServeFacts, AdrFacts
<1>7. ReqsInv' /\ ListsInv'
  <2>1. \A r \in Slots :
          \/ reqs'[r] = reqs[r]
          \/ r = q /\ reqs'[r] = Idle
          \/ /\ r = q /\ ReqOk(reqs'[r], pages')
             /\ reqs'[r].kind = "list" /\ reqs'[r].page # 0 =>
                  \/ reqs'[r].page > n
                  \/ pages'[reqs'[r].page].deleted
                  \/ Busy(r) /\ reqs[r].kind = "list" /\ reqs[r].page = reqs'[r].page
    BY <1>1, <1>4, <1>5
  <2>2. AdrInv /\ pages' \in Seq(AdrPage) /\ Len(pages') >= n
    BY <1>1, <1>2
  <2>3. \A k \in 1..n : Same(pages[k], pages'[k])
    BY <1>1 DEF Same
  <2>. QED BY ONLY <2>1, <2>2, <2>3, StackFrame
<1>8. StackInv'
  <2>1. ASSUME NEW k \in 1..n, pages[k].kind = "list" PROVE PageOk(pages[k], shop', born')
    <3>1. PageOk(pages[k], shop, born)
      BY StackFacts
    <3>2. pages[k].missing \subseteq 1..born /\ ~Holds(shop, pages[k].missing)
      BY <2>1, <3>1 DEF PageOk
    <3>3. pages[k].missing \subseteq 1..born' /\ born + 1 \notin pages[k].missing
      BY <1>6, <3>2
    <3>4. ~Holds(shop', pages[k].missing)
      BY <1>6, <3>2, <3>3 DEF Holds
    <3>. QED BY <2>1, <3>1, <3>3, <3>4 DEF PageOk
  <2>2. \A k \in 1..n : PageOk(pages[k], shop', born')
    BY <2>1 DEF PageOk
  <2>. QED BY <1>1, <1>2, <2>2 DEF StackInv
<1>9. RoomInv'
  <2>1. q \notin Pushing(reqs') \/ q \in Pushing(reqs)
    BY <1>1, <1>3, <1>5 DEF Pushing, Busy
  <2>2. q \notin Bearing(reqs') /\ (reqs[q].kind = "add" => q \in Bearing(reqs))
    BY <1>1, <1>3, <1>5 DEF Bearing, Busy
  <2>3. /\ IsFiniteSet(Pushing(reqs')) /\ Cardinality(Pushing(reqs')) \in Nat
        /\ Cardinality(Bearing(reqs')) \in Nat
        /\ Cardinality(Pushing(reqs')) <= Cardinality(Pushing(reqs))
        /\ Cardinality(Bearing(reqs')) <= Cardinality(Bearing(reqs))
        /\ reqs[q].kind = "add" => Cardinality(Bearing(reqs')) + 1 <= Cardinality(Bearing(reqs))
    BY <1>5, <2>1, <2>2, RoomCount
  <2>4. /\ n + Cardinality(Pushing(reqs)) <= MaxPages /\ born + Cardinality(Bearing(reqs)) <= MaxIds
        /\ Cardinality(Pushing(reqs)) \in Nat /\ Cardinality(Bearing(reqs)) \in Nat
        /\ born \in Nat /\ MaxIds \in Nat /\ MaxPages \in Nat
    BY RoomFacts, AdrFacts
  <2>5. Len(pages') + Cardinality(Pushing(reqs')) <= MaxPages
    BY <1>1, <1>2, <2>3, <2>4
  <2>6. born' + Cardinality(Bearing(reqs')) <= MaxIds
    <3>1. CASE reqs[q].kind = "add"
      BY <1>6, <2>3, <2>4, <3>1
    <3>2. CASE reqs[q].kind # "add"
      BY <1>6, <2>3, <2>4, <3>2
    <3>. QED BY <3>1, <3>2
  <2>. QED BY <2>3, <2>5, <2>6 DEF RoomInv
<1>10. MeantInv'
  <2>. SUFFICES ASSUME ~excused
       PROVE  /\ \A k \in DOMAIN pages : FormOk(pages[k])
              /\ \A r \in Slots : FetchOk(reqs'[r], pages)
              /\ \A r, t \in Slots : Changes(reqs'[r]) /\ Changes(reqs'[t]) => r = t
              /\ \A r \in Slots : ~Unserved(reqs'[r])
              /\ want = ToSet(shop')
    BY <1>1 DEF MeantInv
  <2>1. Changes(reqs[q]) /\ Unserved(reqs[q])
    BY <1>1 DEF Changes, Unserved, Busy
  <2>2. /\ \A k \in DOMAIN pages : FormOk(pages[k])
        /\ \A r \in Slots : FetchOk(reqs[r], pages)
        /\ \A r, t \in Slots : Changes(reqs[r]) /\ Changes(reqs[t]) => r = t
        /\ want = Changed(reqs[q], ToSet(shop), born)
    BY <2>1 DEF AdrInv, MeantInv
  <2>3. \A r \in Slots : FetchOk(reqs'[r], pages)
    BY <1>4, <1>5, <2>2 DEF FetchOk
  <2>4. \A r \in Slots : Changes(reqs'[r]) => r = q
    BY <1>5, <2>1, <2>2
  <2>5. \A r \in Slots : ~Unserved(reqs'[r])
    BY <1>3, <1>5, <2>4 DEF Unserved
  <2>. QED BY <1>6, <2>2, <2>3, <2>4, <2>5
<1>11. TypeOK'
  <2>1. reqs' \in [Slots -> {Idle} \union Request]
    BY <1>1, <1>2, <1>3
  <2>2. born' \in {0} \union Ids
    BY <1>6, AdrFacts DEF Ids
  <2>. QED BY <1>1, <1>6, <2>1, <2>2 DEF AdrInv, TypeOK
<1>. QED BY <1>6, <1>7, <1>8, <1>9, <1>10, <1>11 DEF AdrInv

\* A change of an address that is gone is refused, and would have made no
\* difference.
LEMMA StepRefuse ==
  ASSUME AdrInv, NEW q \in Slots, Refuse(q)
  PROVE  AdrInv'
<1>. DEFINE x == [reqs[q] EXCEPT !.pc = "refused"]
<1>1. /\ Busy(q) /\ reqs[q].pc = "sent" /\ reqs' = [reqs EXCEPT ![q] = x]
      /\ UNCHANGED <<shop, born, pages>>
      /\ \/ Unknown(reqs[q]) /\ UNCHANGED <<events, excused, want>>
         \/ Fault
  BY DEF Refuse
<1>2. reqs[q] \in Request /\ ReqOk(reqs[q], pages)
  BY <1>1, AdrFacts
<1>3. /\ x \in Request /\ x.kind = reqs[q].kind /\ x.page = reqs[q].page /\ x.pc = "refused"
      /\ x.val = reqs[q].val
  BY <1>2 DEF Request
<1>4. ReqOk(x, pages)
  BY <1>2, <1>3 DEF ReqOk
<1>. HIDE DEF x
<1>5. CASE Fault
  BY <1>1, <1>3, <1>4, <1>5, FaultFacts, StepSame
<1>6. CASE Unknown(reqs[q]) /\ UNCHANGED <<events, excused, want>>
  <2>1. reqs[q].id \notin IdsOf(shop) /\ reqs[q].kind \in {"fetch", "delete", "edit"}
    BY <1>6 DEF Unknown
  <2>2. \A s \in ToSet(shop) : s.id # reqs[q].id
    BY <2>1 DEF IdsOf
  <2>3. Unserved(reqs[q]) => Changed(reqs[q], ToSet(shop), born) = ToSet(shop)
    <3>1. CASE reqs[q].kind = "delete"
      BY <2>2, <3>1 DEF Changed
    <3>2. CASE reqs[q].kind = "edit"
      BY <2>2, <3>2 DEF Changed
    <3>3. CASE reqs[q].kind = "fetch"
      BY <3>3 DEF Unserved, Changes, Changing
    <3>. QED BY <2>1, <3>1, <3>2, <3>3
  <2>4. events' \in 0..MaxEvents /\ want' \subseteq Row /\ excused' \in BOOLEAN
    BY <1>6, AdrFacts, StackFacts
  <2>. QED BY <1>1, <1>3, <1>4, <1>6, <2>3, <2>4, StepSame
<1>. QED BY <1>1, <1>5, <1>6
\* An answer nobody waits for, or one that changes nothing.
LEMMA StepDropped ==
  ASSUME AdrInv, NEW q \in Slots, Busy(q), reqs[q].pc # "sent", Done(q),
         UNCHANGED <<shop, born, pages, events, want, excused>>
  PROVE  AdrInv'
<1>1. ~Unserved(reqs[q]) /\ reqs' = [reqs EXCEPT ![q] = Idle]
  BY DEF Unserved, Done
<1>2. events' \in 0..MaxEvents /\ want' \subseteq Row /\ excused' \in BOOLEAN
  BY AdrFacts, StackFacts
<1>. QED BY <1>1, <1>2, StepSame

\* What comes for a list page that was not deleted from comes once.
LEMMA StepAnswerList ==
  ASSUME AdrInv, NEW q \in Slots, AnswerList(q)
  PROVE  AdrInv'
<1>. DEFINE n == Len(pages)
            k == reqs[q].page
            p == [pages[k] EXCEPT !.have = reqs[q].rows]
<1>1. /\ Busy(q) /\ reqs[q].pc \in {"ok", "refused"} /\ reqs[q].kind = "list"
      /\ reqs' = [reqs EXCEPT ![q] = Idle] /\ UNCHANGED <<shop, born, events, want, excused>>
      /\ pages' = IF k # 0 /\ reqs[q].pc = "ok" THEN [pages EXCEPT ![k] = p] ELSE pages
  BY DEF AnswerList, At, Done, Alive
<1>2. CASE pages' = pages
  BY <1>1, <1>2, StepDropped DEF Done
<1>3. CASE k # 0 /\ reqs[q].pc = "ok"
  <2>1. /\ reqs[q] \in Request /\ ReqOk(reqs[q], pages) /\ k \in 1..n /\ n \in Nat
        /\ DOMAIN pages = 1..n /\ reqs \in [Slots -> {Idle} \union Request]
    BY <1>1, <1>3, AdrFacts
  <2>2. /\ pages[k] \in ListPage /\ pages[k].kind = "list" /\ PageOk(pages[k], shop, born)
        /\ ~Holds(reqs[q].rows, pages[k].missing)
        /\ ~pages[k].deleted => pages[k].have = <<>>
    BY <1>1, <1>3, <2>1, AdrFacts, AdrPageKinds, StackFacts DEF ReqOk, Asker
  <2>3. reqs[q].rows \in Seq(Row)
    BY <2>1 DEF Request
  <2>4. /\ p \in ListPage /\ p.kind = "list" /\ p.have = reqs[q].rows /\ p.shown = pages[k].shown
        /\ p.missing = pages[k].missing /\ p.deleted = pages[k].deleted
    BY <2>2, <2>3 DEF ListPage
  <2>5. pages' = [pages EXCEPT ![k] = p]
    BY <1>1, <1>3
  <2>. HIDE DEF p
  <2>6. p \in AdrPage /\ PageOk(p, shop, born) /\ FormOk(p)
    BY <2>2, <2>4, AdrPageKinds DEF PageOk, FormOk
  <2>. HIDE DEF k
  <2>7. /\ pages' \in Seq(AdrPage) /\ Len(pages') = n /\ DOMAIN pages' = 1..n
        /\ pages'[k] = p /\ \A j \in 1..n : j # k => pages'[j] = pages[j]
    BY <2>1, <2>5, <2>6, InPlaceFacts
  <2>8. reqs'[q] = Idle /\ \A r \in Slots : r # q => reqs'[r] = reqs[r]
    BY <1>1, <2>1
  <2>9. ASSUME NEW r \in Slots, r # q, Busy(r)
        PROVE  ReqOk(reqs[r], pages')
    <3>1. reqs[r] \in Request /\ ReqOk(reqs[r], pages) /\ reqs[r].page \in 0..n
      BY <2>9, AdrFacts
    <3>2. CASE reqs[r].page = k /\ reqs[r].kind = "list"
      <4>1. pages[k].deleted
        BY <1>1, <1>3, <2>1, <2>9, <3>2 DEF AdrInv, ListsInv, k
      <4>. QED BY <2>1, <2>2, <2>4, <2>7, <3>1, <3>2, <4>1 DEF ReqOk
    <3>3. CASE reqs[r].page = k /\ reqs[r].kind # "list"
      BY <2>1, <2>2, <2>4, <2>7, <3>1, <3>3 DEF ReqOk
    <3>4. CASE reqs[r].page # k
      BY <2>1, <2>7, <3>1, <3>4 DEF ReqOk
    <3>. QED BY <3>2, <3>3, <3>4
  <2>10. ReqsInv'
    BY <2>8, <2>9 DEF ReqsInv, Busy
  <2>11. ListsInv'
    <3>1. ASSUME NEW r \in Slots, r # q, Busy(r), reqs[r].kind = "list", reqs[r].page # 0
          PROVE  pages'[reqs[r].page].deleted = pages[reqs[r].page].deleted
      <4>1. reqs[r].page \in 1..n
        BY <2>1, <3>1, AdrFacts
      <4>. QED BY <2>1, <2>4, <2>7, <4>1
    <3>. QED BY <2>8, <3>1 DEF AdrInv, ListsInv, Busy
  <2>12. StackInv'
    BY <1>1, <2>1, <2>6, <2>7, StackFacts DEF StackInv
  <2>13. RoomInv'
    <3>1. Pushing(reqs') = Pushing(reqs) /\ Bearing(reqs') = Bearing(reqs)
      BY <1>1, <2>8 DEF Pushing, Bearing
    <3>. QED BY <1>1, <2>7, <3>1 DEF AdrInv, RoomInv
  <2>14. MeantInv'
    <3>1. ASSUME ~excused
          PROVE  /\ \A j \in DOMAIN pages' : FormOk(pages'[j])
                 /\ \A r \in Slots : FetchOk(reqs'[r], pages')
      <4>1. \A j \in DOMAIN pages' : FormOk(pages'[j])
        BY <2>1, <2>6, <2>7, <3>1, StackFacts
      <4>2. ASSUME NEW r \in Slots, r # q, reqs[r] # Idle PROVE FetchOk(reqs[r], pages')
        <5>1. FetchOk(reqs[r], pages) /\ reqs[r].page \in 0..n /\ ReqOk(reqs[r], pages)
          BY <3>1, <4>2, AdrFacts, StackFacts DEF Busy
        <5>2. reqs[r].kind = "fetch" => reqs[r].page # k
          BY <2>1, <2>2, <5>1 DEF ReqOk, Asker
        <5>. QED BY <2>1, <2>7, <5>1, <5>2 DEF FetchOk
      <4>. QED BY <2>8, <4>1, <4>2 DEF FetchOk
    <3>2. /\ \A r \in Slots : Changes(reqs'[r]) => Changes(reqs[r]) /\ reqs'[r] = reqs[r]
          /\ \A r \in Slots : Unserved(reqs[r]) => Unserved(reqs'[r])
      BY <1>3, <2>8 DEF Changes, Unserved
    <3>. QED BY <1>1, <3>1, <3>2, MeantFrame
  <2>15. TypeOK' /\ ShopInv'
    <3>1. reqs' \in [Slots -> {Idle} \union Request]
      BY <1>1, <2>1
    <3>. QED BY <1>1, <2>7, <3>1 DEF AdrInv, TypeOK, AdrPage, ShopInv
  <2>. QED BY <2>10, <2>11, <2>12, <2>13, <2>14, <2>15 DEF AdrInv
<1>. QED BY <1>1, <1>2, <1>3

LEMMA StepAnswerFetch ==
  ASSUME AdrInv, NEW q \in Slots, AnswerFetch(q)
  PROVE  AdrInv'
<1>. DEFINE n == Len(pages)
            k == reqs[q].page
            p == [pages[k] EXCEPT !.field = reqs[q].val]
<1>1. /\ Busy(q) /\ reqs[q].pc \in {"ok", "refused"} /\ reqs[q].kind = "fetch"
      /\ reqs' = [reqs EXCEPT ![q] = Idle] /\ UNCHANGED <<shop, born, events, want, excused>>
      /\ pages' = IF k # 0 /\ reqs[q].pc = "ok" THEN [pages EXCEPT ![k] = p] ELSE pages
  BY DEF AnswerFetch, At, Done, Alive
<1>2. CASE pages' = pages
  BY <1>1, <1>2, StepDropped DEF Done
<1>3. CASE k # 0 /\ reqs[q].pc = "ok"
  <2>1. /\ reqs[q] \in Request /\ ReqOk(reqs[q], pages) /\ k \in 1..n /\ n \in Nat
        /\ DOMAIN pages = 1..n
    BY <1>1, <1>3, AdrFacts
  <2>2. pages[k] \in Form /\ pages[k].kind = "edit"
    BY <1>1, <1>3, <2>1, AdrFacts, AdrPageKinds DEF ReqOk, Asker
  <2>3. reqs[q].val \in Values \union {Blank}
    BY <2>1 DEF Request
  <2>4. /\ p \in Form /\ p.kind = "edit" /\ p.typed = pages[k].typed
        /\ p.id = pages[k].id /\ p.meant = pages[k].meant
    BY <2>2, <2>3 DEF Form
  <2>5. pages' = [pages EXCEPT ![k] = p]
    BY <1>1, <1>3
  <2>. HIDE DEF p
  <2>6. p \in AdrPage /\ PageOk(p, shop, born) /\ Same(pages[k], p)
    BY <2>2, <2>4, AdrPageKinds DEF PageOk, Same
  <2>7. ~excused => FormOk(p)
    <3>1. ~excused => FormOk(pages[k]) /\ pages[k].typed = Blank
      BY <1>1, <1>3, <2>1, StackFacts DEF FetchOk, Busy
    <3>. QED BY <2>2, <2>4, <3>1 DEF FormOk
  <2>. HIDE DEF k
  <2>8. /\ pages' \in Seq(AdrPage) /\ Len(pages') = n
        /\ pages'[k] = p /\ \A j \in 1..n : j # k => pages'[j] = pages[j]
    BY <2>1, <2>5, <2>6, InPlaceFacts
  <2>9. \A j \in 1..n :
          /\ Same(pages[j], pages'[j]) /\ PageOk(pages'[j], shop, born)
          /\ pages[j].kind = "edit" => pages'[j].typed = pages[j].typed
          /\ ~excused => FormOk(pages'[j])
    <3>1. ASSUME NEW j \in 1..n, j # k
          PROVE  Same(pages[j], pages[j]) /\ PageOk(pages[j], shop, born) /\ (~excused => FormOk(pages[j]))
      BY StackFacts DEF Same
    <3>. QED BY <2>4, <2>6, <2>7, <2>8, <3>1
  <2>10. ~Unserved(reqs[q]) /\ ~Unserved(Idle) /\ ~Changes(Idle)
    BY <1>3 DEF Unserved, Changes
  <2>11. events' \in 0..MaxEvents /\ want' \subseteq Row /\ excused' \in BOOLEAN
    BY <1>1, AdrFacts, StackFacts
  <2>12. Idle \in {Idle} \union Request
    OBVIOUS
  <2>. QED BY <1>1, <2>8, <2>9, <2>10, <2>11, <2>12, StepRequest
<1>. QED BY <1>1, <1>2, <1>3
LEMMA StepAnswerDelete ==
  ASSUME AdrInv, NEW q \in Slots, AnswerDelete(q)
  PROVE  AdrInv'
<1>. DEFINE n == Len(pages)
            k == reqs[q].page
            p == [pages[k] EXCEPT !.shown = pages[k].have]
            x == Sent("list", k, 0, Blank)
<1>1. /\ Busy(q) /\ reqs[q].pc \in {"ok", "refused"} /\ reqs[q].kind = "delete"
      /\ UNCHANGED <<shop, born, events, want, excused>>
      /\ \/ k # 0 /\ pages' = [pages EXCEPT ![k] = p] /\ reqs' = [reqs EXCEPT ![q] = x]
         \/ Done(q) /\ UNCHANGED pages
  BY DEF AnswerDelete, At, Alive
<1>2. CASE Done(q) /\ UNCHANGED pages
  BY <1>1, <1>2, StepDropped
<1>3. CASE k # 0 /\ pages' = [pages EXCEPT ![k] = p] /\ reqs' = [reqs EXCEPT ![q] = x]
  <2>1. /\ reqs[q] \in Request /\ ReqOk(reqs[q], pages) /\ k \in 1..n /\ n \in Nat
        /\ DOMAIN pages = 1..n /\ k \in 0..MaxPages
    BY <1>1, <1>3, AdrFacts
  <2>2. /\ pages[k] \in ListPage /\ pages[k].kind = "list" /\ PageOk(pages[k], shop, born)
        /\ pages[k].deleted
    BY <1>1, <1>3, <2>1, AdrFacts, AdrPageKinds, StackFacts DEF ReqOk, Asker
  <2>3. /\ p \in ListPage /\ p.kind = "list" /\ p.have = pages[k].have /\ p.shown = pages[k].have
        /\ p.missing = pages[k].missing /\ p.deleted
    BY <2>2 DEF ListPage
  <2>4. x \in Request /\ x.kind = "list" /\ x.page = k /\ x.pc = "sent"
    BY <2>1 DEF Sent, Request
  <2>. HIDE DEF p, x
  <2>5. p \in AdrPage /\ PageOk(p, shop, born) /\ Same(pages[k], p) /\ FormOk(p)
    BY <2>2, <2>3, AdrPageKinds DEF PageOk, Same, FormOk
  <2>. HIDE DEF k
  <2>6. /\ pages' \in Seq(AdrPage) /\ Len(pages') = n
        /\ pages'[k] = p /\ \A j \in 1..n : j # k => pages'[j] = pages[j]
    BY <1>3, <2>1, <2>5, InPlaceFacts
  <2>7. \A j \in 1..n :
          /\ Same(pages[j], pages'[j]) /\ PageOk(pages'[j], shop, born)
          /\ pages[j].kind = "edit" => pages'[j].typed = pages[j].typed
          /\ ~excused => FormOk(pages'[j])
    <3>1. ASSUME NEW j \in 1..n, j # k
          PROVE  Same(pages[j], pages[j]) /\ PageOk(pages[j], shop, born) /\ (~excused => FormOk(pages[j]))
      BY StackFacts DEF Same
    <3>. QED BY <2>2, <2>5, <2>6, <3>1
  <2>8. ReqOk(x, pages') /\ pages'[x.page].deleted
    BY <2>1, <2>3, <2>4, <2>6 DEF ReqOk, Asker
  <2>9. ~Unserved(reqs[q]) /\ ~Unserved(x) /\ ~Changes(x)
    BY <1>1, <2>4 DEF Unserved, Changes, Changing
  <2>10. events' \in 0..MaxEvents /\ want' \subseteq Row /\ excused' \in BOOLEAN
    BY <1>1, AdrFacts, StackFacts
  <2>11. x \in {Idle} \union Request /\ x.kind \notin {"add", "edit", "fetch"}
    BY <2>4
  <2>. QED BY <1>1, <1>3, <2>6, <2>7, <2>8, <2>9, <2>10, <2>11, StepRequest
<1>. QED BY <1>1, <1>2, <1>3

LEMMA StepAnswerEdit ==
  ASSUME AdrInv, NEW q \in Slots, AnswerEdit(q)
  PROVE  AdrInv'
<1>1. /\ Busy(q) /\ reqs[q].pc \in {"ok", "refused"} /\ reqs[q].kind = "edit"
      /\ UNCHANGED <<shop, born, events, want, excused>>
      /\ PushList(q, pages) \/ (Done(q) /\ UNCHANGED pages)
  BY DEF AnswerEdit, At
<1>2. CASE Done(q) /\ UNCHANGED pages
  BY <1>1, <1>2, StepDropped
<1>3. CASE PushList(q, pages)
  <2>1. ~Unserved(reqs[q]) /\ \A k \in 1..Len(pages) : Same(pages[k], pages[k])
    BY <1>1 DEF Unserved, Same
  <2>2. pages \in Seq(AdrPage)
    BY AdrFacts
  <2>. QED BY <1>1, <1>3, <2>1, <2>2, StackFacts, StepPushList
<1>. QED BY <1>1, <1>2, <1>3

LEMMA StepAnswerAdd ==
  ASSUME AdrInv, NEW q \in Slots, AnswerAdd(q)
  PROVE  AdrInv'
<1>. DEFINE n == Len(pages)
            k == reqs[q].page
            p == [pages[k] EXCEPT !.field = Blank, !.typed = Blank]
            below == [pages EXCEPT ![k] = p]
<1>1. /\ Busy(q) /\ reqs[q].pc \in {"ok", "refused"} /\ reqs[q].kind = "add"
      /\ UNCHANGED <<shop, born, events, want, excused>>
      /\ (k # 0 /\ PushList(q, below)) \/ (Done(q) /\ UNCHANGED pages)
  BY DEF AnswerAdd, At, Alive
<1>2. CASE Done(q) /\ UNCHANGED pages
  BY <1>1, <1>2, StepDropped
<1>3. CASE k # 0 /\ PushList(q, below)
  <2>1. /\ reqs[q] \in Request /\ ReqOk(reqs[q], pages) /\ k \in 1..n /\ n \in Nat
        /\ DOMAIN pages = 1..n
    BY <1>1, <1>3, AdrFacts
  <2>2. pages[k] \in Form /\ pages[k].kind = "add"
    BY <1>1, <1>3, <2>1, AdrFacts, AdrPageKinds DEF ReqOk, Asker
  <2>3. /\ p \in Form /\ p.kind = "add" /\ p.typed = Blank
        /\ p.id = pages[k].id /\ p.meant = pages[k].meant
    BY <2>2 DEF Form
  <2>. HIDE DEF p
  <2>4. p \in AdrPage /\ PageOk(p, shop, born) /\ Same(pages[k], p)
    BY <2>2, <2>3, AdrPageKinds DEF PageOk, Same
  <2>5. ~excused => FormOk(p)
    BY <2>1, <2>2, <2>3, StackFacts DEF FormOk
  <2>. HIDE DEF k
  <2>6. /\ below \in Seq(AdrPage) /\ Len(below) = n
        /\ below[k] = p /\ \A j \in 1..n : j # k => below[j] = pages[j]
    BY <2>1, <2>4, InPlaceFacts
  <2>. HIDE DEF below
  <2>7. \A j \in 1..n :
          /\ Same(pages[j], below[j]) /\ PageOk(below[j], shop, born)
          /\ ~excused => FormOk(below[j])
    <3>1. ASSUME NEW j \in 1..n, j # k
          PROVE  Same(pages[j], pages[j]) /\ PageOk(pages[j], shop, born) /\ (~excused => FormOk(pages[j]))
      BY StackFacts DEF Same
    <3>. QED BY <2>4, <2>5, <2>6, <3>1
  <2>8. \A r \in Slots : FetchOk(reqs[r], pages) => FetchOk(reqs[r], below)
    <3>1. ASSUME NEW r \in Slots, Busy(r), FetchOk(reqs[r], pages)
          PROVE  FetchOk(reqs[r], below)
      <4>1. reqs[r].page \in 0..n
        BY <3>1, AdrFacts
      <4>. QED BY <2>1, <2>3, <2>6, <3>1, <4>1 DEF FetchOk
    <3>. QED BY <3>1 DEF FetchOk, Busy
  <2>9. ~Unserved(reqs[q]) /\ reqs[q].kind \in {"add", "edit"}
    BY <1>1 DEF Unserved
  <2>. QED BY <1>1, <1>3, <2>6, <2>7, <2>8, <2>9, StepPushList
<1>. QED BY <1>1, <1>2, <1>3

\* Every step of the app and of the shop keeps it.
LEMMA StepAdr == AdrInv /\ [Next]_vars => AdrInv'
<1>. SUFFICES ASSUME AdrInv, [Next]_vars PROVE AdrInv'
  OBVIOUS
<1>1. CASE UNCHANGED vars
  BY <1>1 DEF vars, AdrInv, TypeOK, RoomInv, ShopInv, StackInv, ReqsInv, ListsInv, MeantInv,
     Pushing, Bearing, Busy
<1>2. ASSUME NEW q \in Slots, OpenList(q) \/ SaveEdit(q) \/ SaveNew(q) PROVE AdrInv'
  BY <1>2, StepOpenList, StepSaveEdit, StepSaveNew
<1>3. ASSUME NEW q \in Slots, NEW i \in Ids, TapDelete(q, i) \/ TapEdit(q, i) PROVE AdrInv'
  BY <1>3, StepTapDelete, StepTapEdit
<1>4. ASSUME NEW q \in Slots, ServeRead(q) \/ ServeChange(q) \/ Refuse(q) PROVE AdrInv'
  BY <1>4, StepServeRead, StepServeChange, StepRefuse
<1>5. ASSUME NEW q \in Slots, Lose(q) \/ Fail(q) PROVE AdrInv'
  BY <1>5, StepLose, StepFail
<1>6. ASSUME NEW q \in Slots,
             AnswerList(q) \/ AnswerFetch(q) \/ AnswerDelete(q) \/ AnswerEdit(q) \/ AnswerAdd(q)
      PROVE  AdrInv'
  BY <1>6, StepAnswerList, StepAnswerFetch, StepAnswerDelete, StepAnswerEdit, StepAnswerAdd
<1>7. ASSUME NEW k \in DOMAIN pages, LoaderEnds(k) \/ ButtonTimer(k) PROVE AdrInv'
  BY <1>7, StepLoader, StepButtons
<1>8. ASSUME NEW v \in Values, Type(v) PROVE AdrInv'
  BY <1>8, StepType
<1>9. CASE OpenForm \/ Back \/ SaveInvalid
  BY <1>9, StepOpenForm, StepBack, StepButtons
<1>. QED BY <1>1, <1>2, <1>3, <1>4, <1>5, <1>6, <1>7, <1>8, <1>9 DEF Next

LEMMA AdrInvariant == Spec => []AdrInv
BY InitAdr, StepAdr, PTL DEF Spec

(***************************************************************************)
(* Every reachable state of the address pages is well-typed; in particular *)
(* nothing but a filled-in form is ever saved (ShipmentForm.validate).     *)
(***************************************************************************)
THEOREM AddressTypes == Spec => []TypeOK
<1>1. AdrInv => TypeOK
  BY DEF AdrInv
<1>. QED BY <1>1, AdrInvariant, PTL

(***************************************************************************)
(* A list page never shows or holds an address that was deleted before it  *)
(* was opened, whatever was still under way then (addressget).             *)
(***************************************************************************)
THEOREM NewListsAreFresh == Spec => []NewListIsFresh
<1>1. AdrInv => NewListIsFresh
  <2>. SUFFICES ASSUME AdrInv, NEW k \in DOMAIN pages, pages[k].kind = "list"
       PROVE  (IdsOf(pages[k].have) \union IdsOf(pages[k].shown)) \cap pages[k].missing = {}
    BY DEF NewListIsFresh
  <2>1. pages[k] \in ListPage /\ PageOk(pages[k], shop, born)
    BY AdrFacts, AdrPageKinds, StackFacts
  <2>2. ASSUME NEW rows, ~Holds(rows, pages[k].missing)
        PROVE  IdsOf(rows) \cap pages[k].missing = {}
    BY <2>2 DEF Holds, IdsOf, ToSet
  <2>. QED BY <2>1, <2>2 DEF PageOk
<1>. QED BY <1>1, AdrInvariant, PTL

(***************************************************************************)
(* Impatience and faults aside, the shop's addresses are those the shopper *)
(* means to have, though rows are tapped by their index in a copy that may *)
(* be older than the list, and forms are filled in by late answers.        *)
(***************************************************************************)
THEOREM AddressesAsMeant == Spec => []AsMeant
<1>1. AdrInv => AsMeant
  <2>1. ASSUME AdrInv, ~excused, ~UnderWay PROVE ToSet(shop) = want
    <3>1. \A q \in Slots : ~Unserved(reqs[q])
      BY <2>1 DEF UnderWay, Busy, Unserved, Changes
    <3>. QED BY <2>1, <3>1 DEF AdrInv, MeantInv
  <2>. QED BY <2>1 DEF AsMeant
<1>. QED BY <1>1, AdrInvariant, PTL
=============================================================================
