----------------------------- MODULE Cart_proofs -----------------------------
(***************************************************************************)
(* Proofs about the cart, for every number of products, requests, calls,   *)
(* sessions and users.                                                     *)
(*                                                                         *)
(* Of CartScreen: type correctness, that a screen shows nothing the shop   *)
(* has not held, and that the taps of a shopper who waits count.  The      *)
(* inductive invariant ScreenInv follows the rows from the shop through    *)
(* the answers to the display, and the wanted quantities from the tap to   *)
(* the shop.                                                               *)
(*                                                                         *)
(* Of GuestCart: type correctness, the loss-freedom of acknowledged guest  *)
(* adds, the permanence of a sign-out, the stability of a settled cookie,  *)
(* and the refinement of Basket up to the first race.                      *)
(***************************************************************************)
EXTENDS GuestCart, CartScreen, FiniteSetTheorems, SequenceTheorems, TLAPS

-----------------------------------------------------------------------------
(* Lists of rows                                                           *)

\* No product has two rows.
Distinct(rows) == \A i, j \in DOMAIN rows : rows[i].id = rows[j].id => i = j

LEMMA RowFacts ==
  ASSUME NEW rows \in Seq(Row)
  PROVE  /\ DOMAIN rows = 1..Len(rows) /\ Len(rows) \in Nat
         /\ \A i \in DOMAIN rows : rows[i] \in Row /\ rows[i] \in ToSet(rows)
         /\ \A r \in ToSet(rows) : \E i \in DOMAIN rows : r = rows[i]
         /\ ToSet(rows) \subseteq Row
<1>1. DOMAIN rows = 1..Len(rows) /\ Len(rows) \in Nat
  OBVIOUS
<1>2. \A i \in DOMAIN rows : rows[i] \in Row
  BY <1>1
<1>. QED BY <1>1, <1>2 DEF ToSet

\* As many products as rows.
LEMMA DistinctCount ==
  ASSUME NEW rows \in Seq(Row), Distinct(rows)
  PROVE  Cardinality(Ids(rows)) = Len(rows)
<1>. DEFINE f == [i \in 1..Len(rows) |-> rows[i].id]
<1>1. DOMAIN rows = 1..Len(rows) /\ Len(rows) \in Nat
  BY RowFacts
<1>2. Ids(rows) = {rows[i].id : i \in 1..Len(rows)}
  BY <1>1 DEF Ids, ToSet
<1>3. f \in Bijection(1..Len(rows), Ids(rows))
  <2>1. f \in [1..Len(rows) -> Ids(rows)]
    BY <1>2
  <2>2. \A i, j \in 1..Len(rows) : f[i] = f[j] => i = j
    BY <1>1 DEF Distinct
  <2>3. \A p \in Ids(rows) : \E i \in 1..Len(rows) : f[i] = p
    BY <1>2
  <2>. QED BY <2>1, <2>2, <2>3 DEF Bijection, Injection, Surjection, IsInjective
<1>. QED BY <1>1, <1>3, FS_CountingElements DEF ExistsBijection

\* What QtyOf finds.
LEMMA QtyFacts ==
  ASSUME NEW rows \in Seq(Row), Distinct(rows)
  PROVE  /\ \A i \in DOMAIN rows : QtyOf(rows, rows[i].id) = rows[i].qty
         /\ \A p : (\A i \in DOMAIN rows : rows[i].id # p) => QtyOf(rows, p) = 0
<1>1. ASSUME NEW i \in DOMAIN rows
      PROVE  QtyOf(rows, rows[i].id) = rows[i].qty
  <2>1. rows[i] \in ToSet(rows)
    BY RowFacts
  <2>2. \A r \in ToSet(rows) : r.id = rows[i].id => r = rows[i]
    BY RowFacts DEF Distinct
  <2>3. rows[i].id \in Ids(rows)
    BY <2>1 DEF Ids
  <2>4. (CHOOSE r \in ToSet(rows) : r.id = rows[i].id) = rows[i]
    BY <2>1, <2>2
  <2>. QED BY <2>3, <2>4 DEF QtyOf
<1>2. ASSUME NEW p, \A i \in DOMAIN rows : rows[i].id # p
      PROVE  QtyOf(rows, p) = 0
  <2>1. p \notin Ids(rows)
    BY <1>2, RowFacts DEF Ids
  <2>. QED BY <2>1 DEF QtyOf
<1>. QED BY <1>1, <1>2

LEMMA QtyInt ==
  ASSUME NEW rows \in Seq(Row), NEW p
  PROVE  QtyOf(rows, p) \in Nat
<1>1. MaxQty \in Nat
  BY BoundsAssumption
<1>2. CASE p \in Ids(rows)
  <2>. DEFINE r == CHOOSE r \in ToSet(rows) : r.id = p
  <2>1. r \in ToSet(rows)
    BY <1>2 DEF Ids
  <2>2. r \in Row
    BY <2>1, RowFacts
  <2>. QED BY <1>1, <1>2, <2>2 DEF QtyOf, Row
<1>3. CASE p \notin Ids(rows)
  BY <1>3 DEF QtyOf
<1>. QED BY <1>2, <1>3

LEMMA RemoveAtFacts ==
  ASSUME NEW rows \in Seq(Row), NEW i \in DOMAIN rows
  PROVE  /\ RemoveAt(rows, i) \in Seq(Row)
         /\ DOMAIN RemoveAt(rows, i) = 1..(Len(rows) - 1)
         /\ \A j \in 1..(Len(rows) - 1) :
              RemoveAt(rows, i)[j] = IF j < i THEN rows[j] ELSE rows[j + 1]
<1>. DEFINE a == SubSeq(rows, 1, i - 1)
            b == SubSeq(rows, i + 1, Len(rows))
<1>1. i \in 1..Len(rows) /\ Len(rows) \in Nat /\ \A j \in 1..Len(rows) : rows[j] \in Row
  BY RowFacts
<1>2. /\ a \in Seq(Row) /\ Len(a) = i - 1
      /\ \A j \in 1..(i - 1) : a[j] = rows[j]
  <2>1. \A j \in 1..(i - 1) : rows[j] \in Row
    BY <1>1
  <2>. QED BY <1>1, <2>1, SubSeqProperties
<1>3. /\ b \in Seq(Row) /\ Len(b) = Len(rows) - i
      /\ \A j \in 1..(Len(rows) - i) : b[j] = rows[i + j]
  <2>1. \A j \in (i + 1)..Len(rows) : rows[j] \in Row
    BY <1>1
  <2>2. /\ b \in Seq(Row) /\ Len(b) = IF i + 1 <= Len(rows) THEN Len(rows) - (i + 1) + 1 ELSE 0
        /\ \A j \in 1..(Len(rows) - (i + 1) + 1) : b[j] = rows[(i + 1) + j - 1]
    BY <1>1, <2>1, SubSeqProperties
  <2>. QED BY <1>1, <2>2
<1>. HIDE DEF a, b
<1>. DEFINE c == a \o b
<1>4. /\ c \in Seq(Row) /\ Len(c) = Len(a) + Len(b)
      /\ \A j \in 1..(Len(a) + Len(b)) :
           c[j] = IF j <= Len(a) THEN a[j] ELSE b[j - Len(a)]
  BY <1>2, <1>3, ConcatProperties
<1>. HIDE DEF c
<1>5. /\ Len(c) = Len(rows) - 1 /\ DOMAIN c = 1..(Len(rows) - 1)
      /\ \A j \in 1..(Len(rows) - 1) : c[j] = IF j < i THEN rows[j] ELSE rows[j + 1]
  <2>1. Len(c) = Len(rows) - 1 /\ DOMAIN c = 1..(Len(rows) - 1)
    BY <1>1, <1>2, <1>3, <1>4, LenProperties
  <2>2. ASSUME NEW j \in 1..(Len(rows) - 1)
        PROVE  c[j] = IF j < i THEN rows[j] ELSE rows[j + 1]
    <3>1. CASE j < i
      <4>1. j \in 1..(Len(a) + Len(b)) /\ j <= Len(a) /\ j \in 1..(i - 1)
        BY <1>1, <1>2, <1>3, <3>1
      <4>2. c[j] = a[j]
        BY ONLY <1>4, <4>1
      <4>. QED BY <1>2, <3>1, <4>1, <4>2
    <3>2. CASE ~(j < i)
      <4>1. j - (i - 1) \in 1..(Len(rows) - i) /\ i + (j - (i - 1)) = j + 1
        BY <1>1, <3>2
      <4>2. j \in 1..(Len(a) + Len(b)) /\ ~(j <= Len(a)) /\ j - Len(a) = j - (i - 1)
        BY <1>1, <1>2, <1>3, <3>2
      <4>3. c[j] = b[j - (i - 1)]
        BY <1>4, <4>2
      <4>. QED BY <1>3, <3>2, <4>1, <4>3
    <3>. QED BY <3>1, <3>2
  <2>. QED BY <2>1, <2>2
<1>6. RemoveAt(rows, i) = c
  BY DEF RemoveAt, a, b, c
<1>. QED BY <1>4, <1>5, <1>6

\* A row is removed by its index: the others stay as they are.
LEMMA RemoveKeeps ==
  ASSUME NEW rows \in Seq(Row), Distinct(rows), NEW i \in DOMAIN rows
  PROVE  /\ RemoveAt(rows, i) \in Seq(Row) /\ Distinct(RemoveAt(rows, i))
         /\ ToSet(RemoveAt(rows, i)) \subseteq ToSet(rows)
         /\ \A p : QtyOf(RemoveAt(rows, i), p)
                     = IF p = rows[i].id THEN 0 ELSE QtyOf(rows, p)
<1>. DEFINE w == RemoveAt(rows, i)
            from(j) == IF j < i THEN j ELSE j + 1
<1>1. /\ w \in Seq(Row) /\ DOMAIN w = 1..(Len(rows) - 1)
      /\ \A j \in 1..(Len(rows) - 1) : w[j] = IF j < i THEN rows[j] ELSE rows[j + 1]
  BY RemoveAtFacts
<1>. HIDE DEF w
<1>2. DOMAIN rows = 1..Len(rows) /\ Len(rows) \in Nat /\ i \in 1..Len(rows)
  BY RowFacts
<1>3. \A j \in DOMAIN w : from(j) \in DOMAIN rows \ {i} /\ w[j] = rows[from(j)]
  BY <1>1, <1>2
<1>4. \A j, k \in DOMAIN w : from(j) = from(k) => j = k
  BY <1>1, <1>2
<1>5. \A k \in DOMAIN rows \ {i} : \E j \in DOMAIN w : from(j) = k
  <2>. SUFFICES ASSUME NEW k \in DOMAIN rows \ {i}
                PROVE  \E j \in DOMAIN w : from(j) = k
    OBVIOUS
  <2>1. CASE k < i
    <3>1. k \in DOMAIN w /\ from(k) = k
      BY <1>1, <1>2, <2>1
    <3>. QED BY <3>1
  <2>2. CASE k > i
    <3>1. k - 1 \in DOMAIN w /\ from(k - 1) = k
      BY <1>1, <1>2, <2>2
    <3>. QED BY <3>1
  <2>. QED BY <1>2, <2>1, <2>2
<1>. HIDE DEF from
<1>6. Distinct(w)
  BY <1>3, <1>4 DEF Distinct
<1>7. ToSet(w) \subseteq ToSet(rows)
  BY <1>3 DEF ToSet
<1>8. ASSUME NEW p
      PROVE  QtyOf(w, p) = IF p = rows[i].id THEN 0 ELSE QtyOf(rows, p)
  <2>1. CASE p = rows[i].id
    <3>1. \A j \in DOMAIN w : w[j].id # p
      BY <1>3, <2>1 DEF Distinct
    <3>. QED BY <1>1, <1>6, <2>1, <3>1, QtyFacts
  <2>2. CASE p # rows[i].id /\ \E k \in DOMAIN rows : rows[k].id = p
    <3>1. PICK k \in DOMAIN rows : rows[k].id = p
      BY <2>2
    <3>2. PICK j \in DOMAIN w : from(j) = k
      BY <1>5, <2>2, <3>1
    <3>3. w[j] = rows[k]
      BY <1>3, <3>2
    <3>4. QtyOf(w, w[j].id) = w[j].qty
      BY <1>1, <1>6, QtyFacts
    <3>5. QtyOf(rows, rows[k].id) = rows[k].qty
      BY QtyFacts
    <3>. QED BY <2>2, <3>1, <3>3, <3>4, <3>5
  <2>3. CASE p # rows[i].id /\ ~\E k \in DOMAIN rows : rows[k].id = p
    <3>1. \A j \in DOMAIN w : w[j].id # p
      BY <1>3, <2>3
    <3>2. QtyOf(w, p) = 0
      BY <1>1, <1>6, <3>1, QtyFacts
    <3>3. QtyOf(rows, p) = 0
      BY <2>3, QtyFacts
    <3>. QED BY <2>3, <3>2, <3>3
  <2>. QED BY <2>1, <2>2, <2>3
<1>. QED BY <1>1, <1>6, <1>7, <1>8 DEF w

\* Without a product: by the index of its row.
LEMMA WithoutFacts ==
  ASSUME NEW rows \in Seq(Row), Distinct(rows), NEW p
  PROVE  /\ Without(rows, p) \in Seq(Row) /\ Distinct(Without(rows, p))
         /\ ToSet(Without(rows, p)) \subseteq ToSet(rows)
         /\ \A x : QtyOf(Without(rows, p), x) = IF x = p THEN 0 ELSE QtyOf(rows, x)
<1>1. CASE p \in Ids(rows)
  <2>. DEFINE i == CHOOSE i \in DOMAIN rows : rows[i].id = p
  <2>1. i \in DOMAIN rows /\ rows[i].id = p
    BY <1>1, RowFacts DEF Ids
  <2>2. Without(rows, p) = RemoveAt(rows, i)
    BY <1>1 DEF Without
  <2>. HIDE DEF i
  <2>. QED BY <2>1, <2>2, RemoveKeeps
<1>2. CASE p \notin Ids(rows)
  <2>1. Without(rows, p) = rows
    BY <1>2 DEF Without
  <2>2. QtyOf(rows, p) = 0
    BY <1>2 DEF QtyOf
  <2>. QED BY <2>1, <2>2
<1>. QED BY <1>1, <1>2

\* The row of a product is replaced.
LEMMA WithFacts ==
  ASSUME NEW rows \in Seq(Row), Distinct(rows), NEW r \in Row
  PROVE  /\ With(rows, r) \in Seq(Row) /\ Distinct(With(rows, r))
         /\ ToSet(With(rows, r)) \subseteq ToSet(rows) \union {r}
         /\ \A x : QtyOf(With(rows, r), x)
                     = IF x = r.id /\ x \in Ids(rows) THEN r.qty ELSE QtyOf(rows, x)
<1>. DEFINE w == With(rows, r)
<1>1. DOMAIN rows = 1..Len(rows) /\ Len(rows) \in Nat /\ \A i \in DOMAIN rows : rows[i] \in Row
  BY RowFacts
<1>2. /\ w \in [1..Len(rows) -> Row] /\ DOMAIN w = DOMAIN rows
      /\ \A i \in DOMAIN rows : w[i] = IF rows[i].id = r.id THEN r ELSE rows[i]
  BY <1>1 DEF With
<1>3. w \in Seq(Row)
  BY <1>1, <1>2, SeqDef
<1>. HIDE DEF w
<1>4. \A i \in DOMAIN rows : w[i].id = rows[i].id
  BY <1>2
<1>5. Distinct(w)
  BY <1>2, <1>4 DEF Distinct
<1>6. ToSet(w) \subseteq ToSet(rows) \union {r}
  BY <1>2 DEF ToSet
<1>7. ASSUME NEW x
      PROVE  QtyOf(w, x) = IF x = r.id /\ x \in Ids(rows) THEN r.qty ELSE QtyOf(rows, x)
  <2>1. CASE \E i \in DOMAIN rows : rows[i].id = x
    <3>1. PICK i \in DOMAIN rows : rows[i].id = x
      BY <2>1
    <3>2. QtyOf(w, w[i].id) = w[i].qty
      BY <1>2, <1>3, <1>5, QtyFacts
    <3>3. QtyOf(rows, rows[i].id) = rows[i].qty
      BY QtyFacts
    <3>4. x \in Ids(rows)
      BY <3>1, RowFacts DEF Ids
    <3>. QED BY <1>2, <1>4, <3>1, <3>2, <3>3, <3>4
  <2>2. CASE ~\E i \in DOMAIN rows : rows[i].id = x
    <3>1. QtyOf(rows, x) = 0
      BY <2>2, QtyFacts
    <3>2. QtyOf(w, x) = 0
      BY <1>2, <1>3, <1>4, <1>5, <2>2, QtyFacts
    <3>3. x \notin Ids(rows)
      BY <2>2, RowFacts DEF Ids
    <3>. QED BY <3>1, <3>2, <3>3
  <2>. QED BY <2>1, <2>2
<1>. QED BY <1>3, <1>5, <1>6, <1>7 DEF w

\* A row of a new product.
LEMMA AppendFacts ==
  ASSUME NEW rows \in Seq(Row), Distinct(rows), NEW r \in Row, r.id \notin Ids(rows)
  PROVE  /\ Append(rows, r) \in Seq(Row) /\ Distinct(Append(rows, r))
         /\ ToSet(Append(rows, r)) = ToSet(rows) \union {r}
         /\ \A x : QtyOf(Append(rows, r), x) = IF x = r.id THEN r.qty ELSE QtyOf(rows, x)
<1>. DEFINE w == Append(rows, r)
            n == Len(rows)
<1>1. DOMAIN rows = 1..n /\ n \in Nat /\ \A i \in DOMAIN rows : rows[i] \in Row
  BY RowFacts
<1>2. /\ w \in Seq(Row) /\ DOMAIN w = 1..(n + 1) /\ w[n + 1] = r
      /\ \A i \in 1..n : w[i] = rows[i]
  BY AppendProperties, LenProperties
<1>. HIDE DEF w
<1>3. \A i \in 1..n : rows[i].id # r.id
  BY <1>1, RowFacts DEF Ids
<1>4. Distinct(w)
  BY <1>1, <1>2, <1>3 DEF Distinct
<1>5. ToSet(w) = ToSet(rows) \union {r}
  BY <1>1, <1>2 DEF ToSet
<1>6. ASSUME NEW x
      PROVE  QtyOf(w, x) = IF x = r.id THEN r.qty ELSE QtyOf(rows, x)
  <2>1. \A i \in DOMAIN w : QtyOf(w, w[i].id) = w[i].qty
    BY <1>2, <1>4, QtyFacts
  <2>2. CASE x = r.id
    BY <1>1, <1>2, <2>1, <2>2
  <2>3. CASE x # r.id /\ \E i \in 1..n : rows[i].id = x
    <3>1. PICK i \in 1..n : rows[i].id = x
      BY <2>3
    <3>2. QtyOf(w, x) = rows[i].qty
      BY <1>1, <1>2, <2>1, <3>1
    <3>3. QtyOf(rows, x) = rows[i].qty
      BY <1>1, <3>1, QtyFacts
    <3>. QED BY <2>3, <3>2, <3>3
  <2>4. CASE x # r.id /\ ~\E i \in 1..n : rows[i].id = x
    <3>1. \A i \in DOMAIN w : w[i].id # x
      BY <1>1, <1>2, <2>4
    <3>2. QtyOf(w, x) = 0
      BY <1>2, <1>4, <3>1, QtyFacts
    <3>3. QtyOf(rows, x) = 0
      BY <1>1, <2>4, QtyFacts
    <3>. QED BY <2>4, <3>2, <3>3
  <2>. QED BY <2>2, <2>3, <2>4
<1>. QED BY <1>2, <1>4, <1>5, <1>6 DEF w

-----------------------------------------------------------------------------
(* The invariant of the cart screen                                        *)

\* Rows that show every product once, as it was held.
Fair(rows, h) == ToSet(rows) \subseteq h /\ Distinct(rows)

RowsInv ==
  /\ Fair(shop, held)
  /\ \A s \in Screens : Fair(view[s], held)
  /\ \A q \in Slots : reqs[q] # Idle => Fair(reqs[q].rows, held)

\* There is room for every screen that is still to be pushed.
RoomInv == IsFiniteSet(Emptying) /\ made + Cardinality(Emptying) <= MaxScreens

Changes(r) == r # Idle /\ r.kind \in Changing
Unserved(r) == Changes(r) /\ r.pc = "sent"
Wanted(rows) == \A p \in Products : QtyOf(rows, p) = want[p]

\* A shopper who waits has one change under way at most; the shop holds what
\* is wanted, or will when it has carried out that change.
CountInv ==
  ~guest /\ ~hasty /\ faults = 0 =>
    /\ \A q, r \in Slots : Changes(reqs[q]) /\ Changes(reqs[r]) => q = r
    /\ \A q \in Slots : Unserved(reqs[q]) =>
         /\ Wanted(Changed(shop, reqs[q]))
         /\ reqs[q].kind = "put" => reqs[q].row.qty > 0
    /\ (\A q \in Slots : ~Unserved(reqs[q])) => Wanted(shop)

ScreenInv == ScreenTypeOK /\ RowsInv /\ RoomInv /\ CountInv

\* What a change makes of rows that name no product twice.
LEMMA ChangedFacts ==
  ASSUME NEW rows \in Seq(Row), Distinct(rows), NEW r \in Request,
         r.kind = "put" => r.row.qty > 0
  PROVE  /\ Changed(rows, r) \in Seq(Row) /\ Distinct(Changed(rows, r))
         /\ ToSet(Changed(rows, r)) \subseteq ToSet(rows) \union {r.row}
         /\ r.kind = "put" => r.row \in Row
<1>1. r.row.id \in Products /\ r.row.qty \in 0..MaxQty /\ r.row = [id |-> r.row.id, qty |-> r.row.qty]
  BY DEF Request
<1>2. MaxQty \in Nat
  BY BoundsAssumption
<1>3. CASE r.kind = "put"
  <2>1. r.row \in Row
    BY <1>1, <1>2, <1>3 DEF Row
  <2>2. Changed(rows, r) = With(rows, r.row)
    BY <1>3 DEF Changed
  <2>. QED BY <2>1, <2>2, WithFacts
<1>4. CASE r.kind = "empty"
  <2>1. Changed(rows, r) = <<>>
    BY <1>4 DEF Changed
  <2>. QED BY <1>4, <2>1 DEF Distinct, ToSet
<1>5. CASE r.kind \notin {"put", "empty"}
  <2>1. Changed(rows, r) = Without(rows, r.row.id)
    BY <1>5 DEF Changed
  <2>. QED BY <1>5, <2>1, WithoutFacts
<1>. QED BY <1>3, <1>4, <1>5

LEMMA InitScreen == ScreenInit => ScreenInv
<1>. SUFFICES ASSUME ScreenInit PROVE ScreenInv
  OBVIOUS
<1>0. /\ guest \in BOOLEAN /\ hasty = FALSE /\ held = ToSet(shop)
      /\ view = [s \in Screens |-> <<>>] /\ open = <<1>> /\ made = 1
      /\ reqs = [q \in Slots |-> Idle] /\ taps = 0 /\ faults = 0
      /\ want = [p \in Products |-> QtyOf(shop, p)]
  BY DEF ScreenInit
<1>1. /\ IsFiniteSet(Products) /\ MaxQty \in Nat \ {0} /\ MaxScreens \in Nat \ {0}
      /\ MaxTaps \in Nat /\ MaxFaults \in Nat
  BY BoundsAssumption
<1>2. PICK ps \in SetToAllKPermutations(Products) :
        shop = [i \in DOMAIN ps |-> [id |-> ps[i], qty |-> 1]]
  BY DEF ScreenInit
<1>3. PICK S \in SUBSET Products : ps \in SetToSeqs(S)
  BY <1>2 DEF SetToAllKPermutations
<1>4. IsFiniteSet(S)
  BY <1>1, FS_Subset
<1>5. /\ ps \in [1..Cardinality(S) -> S]
      /\ \A i, j \in DOMAIN ps : ps[i] = ps[j] => i = j
  BY <1>3 DEF SetToSeqs, IsInjective
<1>6. shop \in Seq(Row) /\ Distinct(shop)
  <2>1. Cardinality(S) \in Nat /\ DOMAIN ps = 1..Cardinality(S)
    BY <1>4, <1>5, FS_CardinalityType
  <2>2. \A i \in DOMAIN ps : [id |-> ps[i], qty |-> 1] \in Row
    BY <1>1, <1>5 DEF Row
  <2>3. shop \in [1..Cardinality(S) -> Row] /\ DOMAIN shop = DOMAIN ps
    BY <1>2, <2>1, <2>2
  <2>4. \A i \in DOMAIN shop : shop[i].id = ps[i]
    BY <1>2, <2>3
  <2>5. shop \in Seq(Row)
    BY <2>1, <2>3, SeqDef
  <2>6. \A i, j \in DOMAIN shop : shop[i].id = shop[j].id => i = j
    BY <1>5, <2>3, <2>4
  <2>. QED BY <2>5, <2>6 DEF Distinct
<1>7. ToSet(shop) \subseteq Row
  BY <1>6, RowFacts
<1>8. \A rows \in Seq(Row) : \A p : QtyOf(rows, p) \in Int
  BY QtyInt
<1>9. ScreenTypeOK
  <2>1. 1 \in Screens /\ <<1>> \in Seq(Screens) \ {<<>>}
    BY <1>1 DEF Screens
  <2>2. want \in [Products -> Int]
    BY <1>0, <1>6, <1>8
  <2>3. view \in [Screens -> Seq(Row)] /\ reqs \in [Slots -> {Idle} \union Request]
    BY <1>0
  <2>4. open \in Seq(Screens) \ {<<>>} /\ made \in Screens
    BY <1>0, <2>1
  <2>5. guest \in BOOLEAN /\ hasty \in BOOLEAN
    BY <1>0, Zenon
  <2>6. taps \in 0..MaxTaps /\ faults \in 0..MaxFaults
    BY <1>0, <1>1
  <2>. QED BY <1>0, <1>6, <1>7, <2>2, <2>3, <2>4, <2>5, <2>6 DEF ScreenTypeOK
<1>10. RowsInv
  BY <1>0, <1>6 DEF RowsInv, Fair, Distinct, ToSet
<1>11. RoomInv
  <2>1. Emptying = {}
    BY <1>0 DEF Emptying
  <2>. QED BY <1>0, <1>1, <2>1, FS_EmptySet DEF RoomInv
<1>12. CountInv
  BY <1>0 DEF CountInv, Changes, Unserved, Wanted
<1>. QED BY <1>9, <1>10, <1>11, <1>12 DEF ScreenInv

-----------------------------------------------------------------------------
(* Steps                                                                   *)

\* The invariant speaks of one request at a time, but for the changes under
\* way: a request becomes x, which is no change unless it was one.
LEMMA StepReq ==
  ASSUME ScreenInv, NEW q \in Slots, NEW x \in {Idle} \union Request,
         reqs' = [reqs EXCEPT ![q] = x],
         UNCHANGED <<guest, shop, want, hasty, held>>,
         view' \in [Screens -> Seq(Row)], \A s \in Screens : Fair(view'[s], held),
         open' \in Seq(Screens) \ {<<>>}, made' \in Screens,
         taps' \in 0..MaxTaps, faults' \in 0..MaxFaults,
         x # Idle => Fair(x.rows, held),
         RoomInv',
         faults' = 0 => faults = 0,
         Changes(x) => Changes(reqs[q]),
         ~guest /\ ~hasty /\ faults' = 0 => ~Unserved(reqs[q]) /\ ~Unserved(x)
  PROVE  ScreenInv'
<1>. USE DEF ScreenInv
<1>1. /\ reqs'[q] = x
      /\ \A r \in Slots : r # q => reqs'[r] = reqs[r]
  BY DEF ScreenTypeOK
<1>2. ScreenTypeOK'
  BY DEF ScreenTypeOK
<1>3. RowsInv'
  BY <1>1 DEF RowsInv
<1>4. CountInv'
  <2>. SUFFICES ASSUME ~guest, ~hasty, faults' = 0
                PROVE  /\ \A r, t \in Slots : Changes(reqs'[r]) /\ Changes(reqs'[t]) => r = t
                       /\ \A r \in Slots : Unserved(reqs'[r]) =>
                            /\ Wanted(Changed(shop, reqs'[r]))
                            /\ reqs'[r].kind = "put" => reqs'[r].row.qty > 0
                       /\ (\A r \in Slots : ~Unserved(reqs'[r])) => Wanted(shop)
    BY DEF CountInv, Changes, Unserved, Wanted
  <2>1. /\ \A r, t \in Slots : Changes(reqs[r]) /\ Changes(reqs[t]) => r = t
        /\ \A r \in Slots : Unserved(reqs[r]) =>
             /\ Wanted(Changed(shop, reqs[r]))
             /\ reqs[r].kind = "put" => reqs[r].row.qty > 0
        /\ (\A r \in Slots : ~Unserved(reqs[r])) => Wanted(shop)
    BY DEF CountInv
  <2>2. \A r \in Slots : Changes(reqs'[r]) => Changes(reqs[r])
    BY <1>1
  <2>3. \A r \in Slots : (Unserved(reqs'[r]) <=> Unserved(reqs[r]))
                         /\ (Unserved(reqs'[r]) => reqs'[r] = reqs[r])
    BY <1>1
  <2>. QED BY <2>1, <2>2, <2>3
<1>. QED BY <1>2, <1>3, <1>4

\* A request that is no emptying takes no room.
LEMMA RoomKept ==
  ASSUME ScreenInv, made' = made, NEW q \in Slots, NEW x,
         reqs' = [reqs EXCEPT ![q] = x],
         x # Idle /\ x.kind = "empty" => reqs[q] # Idle /\ reqs[q].kind = "empty"
  PROVE  RoomInv'
<1>1. /\ reqs'[q] = x
      /\ \A r \in Slots : r # q => reqs'[r] = reqs[r]
  BY DEF ScreenInv, ScreenTypeOK
<1>2. Emptying' \subseteq Emptying
  BY <1>1 DEF Emptying
<1>3. IsFiniteSet(Emptying) /\ made + Cardinality(Emptying) <= MaxScreens
  BY DEF ScreenInv, RoomInv
<1>4. IsFiniteSet(Emptying') /\ Cardinality(Emptying') <= Cardinality(Emptying)
  BY <1>2, <1>3, FS_Subset
<1>5. /\ Cardinality(Emptying) \in Nat /\ Cardinality(Emptying') \in Nat
      /\ made \in Nat /\ MaxScreens \in Nat
  BY <1>3, <1>4, FS_CardinalityType, BoundsAssumption DEF ScreenInv, ScreenTypeOK, Screens
<1>. QED BY <1>3, <1>4, <1>5 DEF RoomInv

\* A change is tapped: the shopper who waits has no other one under way, and
\* taps on the rows of the shop.
LEMMA StepTap ==
  ASSUME ScreenInv, NEW q \in Slots, reqs[q] = Idle,
         NEW wanted \in [Products -> Int], Change(wanted),
         NEW x \in Request, x.kind \in Changing, x.rows = <<>>,
         reqs' = [reqs EXCEPT ![q] = x], view' = view, RoomInv',
         view[Top] = shop /\ Wanted(shop) /\ (\A p \in Products : wanted[p] >= 0) =>
           /\ \A p \in Products : QtyOf(Changed(shop, x), p) = wanted[p]
           /\ x.kind = "put" => x.row.qty > 0,
         x.pc = "sent"
  PROVE  ScreenInv'
<1>. USE DEF ScreenInv
<1>1. /\ reqs'[q] = x /\ x # Idle
      /\ \A r \in Slots : r # q => reqs'[r] = reqs[r]
  BY DEF ScreenTypeOK, Idle, Request
<1>2. /\ taps < MaxTaps /\ taps' = taps + 1 /\ want' = wanted
      /\ UNCHANGED <<guest, shop, open, made, faults, held>>
  BY DEF Change
<1>3. hasty' = (\/ hasty \/ UnderWay \/ view[Top] # shop
                \/ \E p \in Products : wanted[p] < 0)
  BY DEF Change
<1>4. hasty' \in BOOLEAN
  BY <1>3, Zenon
<1>5. ScreenTypeOK'
  BY <1>2, <1>4, BoundsAssumption DEF ScreenTypeOK
<1>6. RowsInv'
  BY <1>1, <1>2 DEF RowsInv, Fair, Distinct, ToSet
<1>7. CountInv'
  <2>. SUFFICES ASSUME ~guest, ~hasty', faults = 0
                PROVE  /\ \A r, t \in Slots : Changes(reqs'[r]) /\ Changes(reqs'[t]) => r = t
                       /\ \A r \in Slots : Unserved(reqs'[r]) =>
                            /\ \A p \in Products : QtyOf(Changed(shop, reqs'[r]), p) = wanted[p]
                            /\ reqs'[r].kind = "put" => reqs'[r].row.qty > 0
                       /\ \E r \in Slots : Unserved(reqs'[r])
    BY <1>2 DEF CountInv, Changes, Unserved, Wanted
  <2>1. ~hasty /\ ~UnderWay /\ view[Top] = shop /\ ~\E p \in Products : wanted[p] < 0
    BY <1>3, Zenon
  <2>2. \A p \in Products : wanted[p] >= 0
    BY <2>1
  <2>3. \A r \in Slots : ~Changes(reqs[r])
    BY <2>1 DEF UnderWay, Changes
  <2>4. Wanted(shop)
    BY <2>1, <2>3 DEF CountInv, Unserved
  <2>5. \A r \in Slots : Changes(reqs'[r]) => r = q
    BY <1>1, <2>3
  <2>6. Unserved(reqs'[q])
    BY <1>1 DEF Unserved, Changes
  <2>. QED BY <1>1, <2>1, <2>2, <2>4, <2>5, <2>6 DEF Unserved
<1>. QED BY <1>5, <1>6, <1>7

\* What Ask sends.
Sending(kind, s, row, index) ==
  [pc |-> "sent", kind |-> kind, scr |-> s, row |-> row, index |-> index, rows |-> <<>>]

LEMMA SendingFacts ==
  ASSUME NEW kind \in Changing \union {"get", "extra", "coupon"}, NEW s \in Screens,
         NEW row \in [id : Products, qty : 0..MaxQty], NEW index \in Nat
  PROVE  /\ Sending(kind, s, row, index) \in Request
         /\ Sending(kind, s, row, index) # Idle
         /\ \A h : Fair(Sending(kind, s, row, index).rows, h)
BY DEF Sending, Request, Idle, Fair, Distinct, ToSet

\* The typing facts the steps use.
LEMMA StateFacts ==
  ASSUME ScreenInv
  PROVE  /\ shop \in Seq(Row) /\ Distinct(shop) /\ ToSet(shop) \subseteq held
         /\ Top \in Screens /\ view \in [Screens -> Seq(Row)]
         /\ \A s \in Screens : Fair(view[s], held)
         /\ NoRow \in [id : Products, qty : 0..MaxQty]
         /\ want \in [Products -> Int]
         /\ 0 \in Nat
         /\ faults \in Nat /\ made \in Nat
<1>. USE DEF ScreenInv, ScreenTypeOK
<1>1. Top \in Screens
  BY DEF Top, Last
<1>2. NoRow \in [id : Products, qty : 0..MaxQty]
  <2>1. (CHOOSE p \in Products : TRUE) \in Products
    BY BoundsAssumption
  <2>2. 0 \in 0..MaxQty
    BY BoundsAssumption
  <2>. QED BY <2>1, <2>2 DEF NoRow
<1>. QED BY <1>1, <1>2, BoundsAssumption, SMTT(30) DEF RowsInv, Fair, Screens

LEMMA StepGetCartData ==
  ASSUME ScreenInv, NEW q \in Slots, NEW s \in Screens, GetCartData(q, s),
         ~Unserved(reqs[q]),
         view' \in [Screens -> Seq(Row)], \A t \in Screens : Fair(view'[t], held),
         UNCHANGED <<guest, shop, open, made, taps, faults, want, hasty, held>>
  PROVE  ScreenInv'
<1>. DEFINE x == Sending("get", s, NoRow, 0)
<1>1. reqs' = [reqs EXCEPT ![q] = x]
  BY DEF GetCartData, Ask, Sending
<1>2. x \in Request /\ x # Idle /\ Fair(x.rows, held)
  BY StateFacts, SendingFacts
<1>3. x.kind = "get"
  BY DEF Sending
<1>. HIDE DEF x
<1>4. RoomInv'
  BY <1>1, <1>3, RoomKept
<1>5. ~Changes(x)
  BY <1>3 DEF Changes, Changing
<1>. QED BY <1>1, <1>2, <1>4, <1>5, StepReq DEF ScreenInv, ScreenTypeOK, Unserved

LEMMA StepTick ==
  ASSUME ScreenInv, NEW q \in Slots, NEW s \in Screens, Tick(q, s)
  PROVE  ScreenInv'
BY StateFacts, StepGetCartData DEF Tick, Unserved, Changes

LEMMA StepTapQuantity ==
  ASSUME ScreenInv, NEW q \in Slots, NEW i \in Shown, NEW delta \in {-1, 1},
         TapQuantity(q, i, delta)
  PROVE  ScreenInv'
<1>. DEFINE rows == view[Top]
            row == rows[i]
            new == [row EXCEPT !.qty = @ + delta]
            x == Sending("put", Top, new, 0)
            wanted == [want EXCEPT ![row.id] = IF row.qty + delta < 1 THEN -1 ELSE @ + delta]
<1>1. /\ reqs[q] = Idle /\ row.qty + delta <= MaxQty /\ Change(wanted)
      /\ reqs' = [reqs EXCEPT ![q] = x] /\ view' = view
  BY DEF TapQuantity, Ask, Sending
<1>2. rows \in Seq(Row) /\ Distinct(rows) /\ row \in Row /\ i \in DOMAIN rows
  BY StateFacts, RowFacts DEF Shown, Fair
<1>3. row.id \in Products /\ row.qty \in 1..MaxQty /\ MaxQty \in Nat
  BY <1>2, BoundsAssumption DEF Row
<1>4. /\ new \in [id : Products, qty : 0..MaxQty]
      /\ new.id = row.id /\ new.qty = row.qty + delta
  BY <1>1, <1>2, <1>3 DEF Row
<1>5. wanted \in [Products -> Int]
  BY <1>3, StateFacts
<1>. HIDE DEF rows, new, wanted
<1>6. x \in Request /\ x.kind = "put" /\ x.pc = "sent" /\ x.rows = <<>> /\ x.row = new
  BY <1>4, StateFacts, SendingFacts DEF Sending, Changing
<1>. HIDE DEF x
<1>7. RoomInv'
  BY <1>1, <1>6, RoomKept DEF Change
<1>8. ASSUME rows = shop, Wanted(shop), \A p \in Products : wanted[p] >= 0
      PROVE  /\ \A p \in Products : QtyOf(Changed(shop, x), p) = wanted[p]
             /\ x.row.qty > 0
  <2>0. \A p \in Products : wanted[p] = IF p # row.id THEN want[p]
                                        ELSE IF row.qty + delta < 1 THEN -1 ELSE want[p] + delta
    BY <1>3, StateFacts DEF wanted
  <2>1. /\ row.qty + delta >= 1
        /\ \A p \in Products : wanted[p] = IF p = row.id THEN want[p] + delta ELSE want[p]
    BY <1>3, <1>8, <2>0
  <2>2. new \in Row
    BY <1>1, <1>3, <1>4, <2>1 DEF Row
  <2>3. Changed(shop, x) = With(shop, new)
    BY <1>6 DEF Changed
  <2>4. QtyOf(shop, row.id) = row.qty
    BY <1>2, <1>8, QtyFacts
  <2>5. row.id \in Ids(shop)
    BY <1>2, <1>8, RowFacts DEF Ids
  <2>6. ASSUME NEW p \in Products
        PROVE  QtyOf(With(shop, new), p) = wanted[p]
    <3>1. QtyOf(With(shop, new), p)
            = IF p = new.id /\ p \in Ids(shop) THEN new.qty ELSE QtyOf(shop, p)
      BY <2>2, StateFacts, WithFacts
    <3>2. QtyOf(shop, p) = want[p]
      BY <1>8 DEF Wanted
    <3>. QED BY <1>3, <1>4, <2>1, <2>4, <2>5, <3>1, <3>2, StateFacts
  <2>. QED BY <1>3, <1>4, <1>6, <2>1, <2>3, <2>6
<1>. QED BY <1>1, <1>5, <1>6, <1>7, <1>8, StepTap DEF rows, Changing

LEMMA StepTake ==
  ASSUME ScreenInv, NEW q \in Slots, reqs[q] = Idle, NEW i \in Shown,
         NEW kind \in {"drop", "wish"}, NEW index \in Nat,
         Change([want EXCEPT ![view[Top][i].id] = 0]),
         Ask(q, kind, Top, view[Top][i], index), UNCHANGED view
  PROVE  ScreenInv'
<1>. DEFINE rows == view[Top]
            row == rows[i]
            x == Sending(kind, Top, row, index)
            wanted == [want EXCEPT ![row.id] = 0]
<1>1. Change(wanted) /\ reqs' = [reqs EXCEPT ![q] = x] /\ view' = view
  BY DEF Ask, Sending
<1>2. rows \in Seq(Row) /\ Distinct(rows) /\ row \in Row /\ i \in DOMAIN rows
  BY StateFacts, RowFacts DEF Shown, Fair
<1>3. row.id \in Products /\ row \in [id : Products, qty : 0..MaxQty]
  BY <1>2, BoundsAssumption DEF Row
<1>4. wanted \in [Products -> Int]
  BY <1>3, StateFacts
<1>5. /\ x \in Request /\ x.kind = kind /\ x.kind \in Changing /\ x.pc = "sent"
      /\ x.rows = <<>> /\ x.row = row
  BY <1>3, StateFacts, SendingFacts DEF Sending, Changing
<1>6. x.kind \notin {"put", "empty"}
  BY <1>5
<1>. HIDE DEF x, rows
<1>7. RoomInv'
  BY <1>1, <1>6, RoomKept DEF Change
<1>8. ASSUME Wanted(shop)
      PROVE  \A p \in Products : QtyOf(Changed(shop, x), p) = wanted[p]
  <2>1. Changed(shop, x) = Without(shop, row.id)
    BY <1>5, <1>6 DEF Changed
  <2>2. ASSUME NEW p \in Products
        PROVE  QtyOf(Without(shop, row.id), p) = wanted[p]
    <3>1. QtyOf(Without(shop, row.id), p) = IF p = row.id THEN 0 ELSE QtyOf(shop, p)
      BY StateFacts, WithoutFacts
    <3>. QED BY <1>3, <1>8, <3>1, StateFacts DEF Wanted
  <2>. QED BY <2>1, <2>2
<1>. HIDE DEF wanted
<1>. QED BY <1>1, <1>4, <1>5, <1>6, <1>7, <1>8, StepTap

LEMMA StepSwipe ==
  ASSUME ScreenInv, NEW q \in Slots, NEW i \in Shown, Swipe(q, i)
  PROVE  ScreenInv'
<1>1. i \in Nat
  BY StateFacts, RowFacts DEF Shown
<1>. QED BY <1>1, StepTake DEF Swipe

LEMMA StepTapHeart ==
  ASSUME ScreenInv, NEW q \in Slots, NEW i \in Shown, TapHeart(q, i)
  PROVE  ScreenInv'
BY StateFacts, StepTake DEF TapHeart

LEMMA StepTapEmpty ==
  ASSUME ScreenInv, NEW q \in Slots, TapEmpty(q)
  PROVE  ScreenInv'
<1>. DEFINE x == Sending("empty", Top, NoRow, 0)
            wanted == [p \in Products |-> 0]
<1>1. /\ reqs[q] = Idle /\ made + Cardinality(Emptying) < MaxScreens /\ Change(wanted)
      /\ reqs' = [reqs EXCEPT ![q] = x] /\ view' = view
  BY DEF TapEmpty, Ask, Sending
<1>2. /\ x \in Request /\ x.kind = "empty" /\ x.kind \in Changing /\ x.pc = "sent"
      /\ x.rows = <<>> /\ x # Idle
  BY StateFacts, SendingFacts DEF Sending, Changing
<1>. HIDE DEF x
<1>3. RoomInv'
  <2>1. /\ reqs'[q] = x /\ \A r \in Slots : r # q => reqs'[r] = reqs[r]
    BY <1>1 DEF ScreenInv, ScreenTypeOK
  <2>2. Emptying' = Emptying \union {q} /\ q \notin Emptying
    BY <1>1, <1>2, <2>1 DEF Emptying
  <2>3. IsFiniteSet(Emptying)
    BY DEF ScreenInv, RoomInv
  <2>4. IsFiniteSet(Emptying') /\ Cardinality(Emptying') = Cardinality(Emptying) + 1
    BY <2>2, <2>3, FS_AddElement
  <2>5. Cardinality(Emptying) \in Nat /\ MaxScreens \in Nat /\ made' = made
    BY <1>1, <2>3, FS_CardinalityType, BoundsAssumption DEF Change
  <2>. QED BY <1>1, <2>4, <2>5, StateFacts DEF RoomInv
<1>4. \A p \in Products : QtyOf(Changed(shop, x), p) = wanted[p]
  <2>1. Changed(shop, x) = <<>>
    BY <1>2 DEF Changed
  <2>. QED BY <2>1 DEF QtyOf, Ids, ToSet
<1>5. wanted \in [Products -> Int] /\ x.kind # "put"
  BY <1>2
<1>. HIDE DEF wanted
<1>. QED BY <1>1, <1>2, <1>3, <1>4, <1>5, StepTap

LEMMA StepTapCoupon ==
  ASSUME ScreenInv, NEW q \in Slots, TapCoupon(q)
  PROVE  ScreenInv'
<1>. DEFINE x == Sending("coupon", Top, NoRow, 0)
<1>1. /\ reqs[q] = Idle /\ taps < MaxTaps /\ taps' = taps + 1
      /\ reqs' = [reqs EXCEPT ![q] = x]
      /\ UNCHANGED <<guest, shop, view, open, made, faults, want, hasty, held>>
  BY DEF TapCoupon, Ask, Sending
<1>2. x \in Request /\ x.kind = "coupon" /\ x # Idle /\ Fair(x.rows, held)
  BY StateFacts, SendingFacts DEF Sending
<1>. HIDE DEF x
<1>3. ~Changes(x) /\ ~Changes(reqs[q])
  BY <1>1, <1>2 DEF Changes, Changing
<1>4. RoomInv'
  BY <1>1, <1>2, RoomKept
<1>5. taps' \in 0..MaxTaps
  BY <1>1, BoundsAssumption DEF ScreenInv, ScreenTypeOK
<1>. QED BY <1>1, <1>2, <1>3, <1>4, <1>5, StateFacts, StepReq DEF ScreenInv, ScreenTypeOK, Unserved

LEMMA StepBack ==
  ASSUME ScreenInv, Back
  PROVE  ScreenInv'
<1>. USE DEF ScreenInv
<1>1. open' \in Seq(Screens) \ {<<>>}
  <2>1. Len(open) > 1 /\ open' = SubSeq(open, 1, Len(open) - 1) /\ open \in Seq(Screens)
    BY DEF Back, Front, ScreenTypeOK
  <2>2. \A i \in 1..(Len(open) - 1) : open[i] \in Screens
    BY <2>1
  <2>3. open' \in Seq(Screens) /\ Len(open') = Len(open) - 1
    BY <2>1, <2>2, SubSeqProperties
  <2>4. Len(open') > 0
    BY <2>1, <2>3
  <2>. QED BY <2>3, <2>4, EmptySeq
<1>2. UNCHANGED <<guest, shop, view, made, reqs, taps, faults, want, hasty, held>>
  BY DEF Back
<1>3. ScreenTypeOK'
  BY <1>1, <1>2 DEF ScreenTypeOK
<1>4. RowsInv' /\ RoomInv' /\ CountInv'
  BY <1>2 DEF RowsInv, RoomInv, Emptying, CountInv, Wanted
<1>. QED BY <1>3, <1>4

-----------------------------------------------------------------------------
(* Steps of the shop                                                       *)

LEMMA StepServeFetch ==
  ASSUME ScreenInv, NEW q \in Slots, ServeFetch(q)
  PROVE  ScreenInv'
<1>. DEFINE x == [Answered(q) EXCEPT !.rows = shop]
<1>1. /\ reqs[q] \in Request /\ reqs[q].kind \in {"get", "extra", "coupon"}
      /\ reqs' = [reqs EXCEPT ![q] = x]
      /\ UNCHANGED <<guest, shop, view, open, made, taps, faults, want, hasty, held>>
  BY DEF ServeFetch, ScreenInv, ScreenTypeOK
<1>2. x \in Request /\ x.kind = reqs[q].kind /\ x.rows = shop
  BY <1>1, StateFacts DEF Answered, Request
<1>. HIDE DEF x
<1>3. ~Changes(x) /\ ~Changes(reqs[q]) /\ x.kind # "empty"
  BY <1>1, <1>2 DEF Changes, Changing
<1>4. RoomInv'
  BY <1>1, <1>3, RoomKept
<1>5. Fair(x.rows, held)
  BY <1>2, StateFacts DEF Fair
<1>. QED BY <1>1, <1>2, <1>3, <1>4, <1>5, StateFacts, StepReq DEF ScreenInv, ScreenTypeOK, Unserved

\* An answered request, but for its rows the request that was sent.
LEMMA AnsweredFacts ==
  ASSUME ScreenInv, NEW q \in Slots, reqs[q] # Idle
  PROVE  /\ reqs[q] \in Request /\ Answered(q) \in Request /\ Answered(q) # Idle
         /\ Answered(q).pc = "answered" /\ Answered(q).kind = reqs[q].kind
         /\ Answered(q).rows = reqs[q].rows /\ Fair(reqs[q].rows, held)
         /\ ~Unserved(Answered(q))
         /\ Changes(Answered(q)) => Changes(reqs[q])
<1>1. reqs[q] \in Request
  BY DEF ScreenInv, ScreenTypeOK
<1>. QED BY <1>1 DEF ScreenInv, RowsInv, Answered, Request, Idle, Unserved, Changes

LEMMA StepRefuse ==
  ASSUME ScreenInv, NEW q \in Slots, Refuse(q)
  PROVE  ScreenInv'
<1>1. /\ reqs[q] # Idle /\ reqs[q].pc = "sent" /\ reqs[q].kind \in Changing
      /\ reqs' = [reqs EXCEPT ![q] = Answered(q)]
      /\ UNCHANGED <<guest, shop, view, open, made, taps, want, hasty, held>>
  BY DEF Refuse
<1>2. \/ (guest \/ (reqs[q].kind = "put" /\ reqs[q].row.qty < 1)) /\ faults' = faults
      \/ faults < MaxFaults /\ faults' = faults + 1
  BY DEF Refuse
<1>3. faults' \in 0..MaxFaults /\ (faults' = 0 => faults = 0)
  BY <1>2, BoundsAssumption DEF ScreenInv, ScreenTypeOK
<1>4. ASSUME ~guest, ~hasty, faults' = 0
      PROVE  FALSE
  <2>1. reqs[q].kind = "put" /\ reqs[q].row.qty < 1
    BY <1>2, <1>4, StateFacts
  <2>2. reqs[q].kind = "put" => reqs[q].row.qty > 0
    BY <1>1, <1>3, <1>4 DEF ScreenInv, CountInv, Unserved, Changes
  <2>3. reqs[q].row.qty \in Int
    BY <1>1, AnsweredFacts, BoundsAssumption DEF Request
  <2>. QED BY <2>1, <2>2, <2>3
<1>5. RoomInv'
  BY <1>1, AnsweredFacts, RoomKept
<1>. QED BY <1>1, <1>3, <1>4, <1>5, AnsweredFacts, StateFacts, StepReq DEF ScreenInv, ScreenTypeOK

\* The rows of the shop change: every row it has held stays held.
LEMMA StepSettle ==
  ASSUME ScreenInv, NEW rows \in Seq(Row), Distinct(rows), Settle(rows),
         UNCHANGED <<guest, view, open, made>>,
         taps' \in 0..MaxTaps, faults' = faults,
         hasty' \in BOOLEAN, want' \in [Products -> Int],
         reqs' \in [Slots -> {Idle} \union Request],
         \A q \in Slots : reqs'[q] # Idle => reqs[q] # Idle /\ reqs'[q].rows = reqs[q].rows,
         RoomInv', CountInv'
  PROVE  ScreenInv'
<1>. USE DEF ScreenInv
<1>1. shop' = rows /\ held' = held \union ToSet(rows) /\ ToSet(rows) \subseteq Row
  BY RowFacts DEF Settle
<1>2. ScreenTypeOK'
  BY <1>1 DEF ScreenTypeOK
<1>3. \A x : Fair(x, held) => Fair(x, held')
  BY <1>1 DEF Fair
<1>4. Fair(rows, held')
  BY <1>1 DEF Fair
<1>5. RowsInv'
  BY <1>1, <1>3, <1>4 DEF RowsInv
<1>. QED BY <1>2, <1>5

LEMMA StepServeChange ==
  ASSUME ScreenInv, NEW q \in Slots, ServeChange(q)
  PROVE  ScreenInv'
<1>. DEFINE rows == Changed(shop, reqs[q])
<1>1. /\ reqs[q] # Idle /\ reqs[q].pc = "sent" /\ reqs[q].kind \in Changing
      /\ reqs[q].kind = "put" => reqs[q].row.qty > 0
      /\ Settle(rows)
      /\ reqs' = [reqs EXCEPT ![q] = Answered(q)]
      /\ UNCHANGED <<guest, view, open, made, taps, faults, want, hasty>>
  BY DEF ServeChange
<1>2. /\ reqs'[q] = Answered(q)
      /\ \A r \in Slots : r # q => reqs'[r] = reqs[r]
  BY <1>1 DEF ScreenInv, ScreenTypeOK
<1>3. rows \in Seq(Row) /\ Distinct(rows)
  BY <1>1, AnsweredFacts, StateFacts, ChangedFacts
<1>4. shop' = rows
  BY <1>1 DEF Settle
<1>5. Unserved(reqs[q])
  BY <1>1 DEF Unserved, Changes
<1>. HIDE DEF rows
<1>6. RoomInv'
  BY <1>1, AnsweredFacts, RoomKept
<1>7. CountInv'
  <2>. SUFFICES ASSUME ~guest, ~hasty, faults = 0
                PROVE  /\ \A r, t \in Slots : Changes(reqs'[r]) /\ Changes(reqs'[t]) => r = t
                       /\ \A r \in Slots : ~Unserved(reqs'[r])
                       /\ Wanted(rows)
    BY <1>1, <1>4 DEF CountInv, Changes, Unserved, Wanted
  <2>1. \A r, t \in Slots : Changes(reqs[r]) /\ Changes(reqs[t]) => r = t
    BY DEF ScreenInv, CountInv
  <2>2. Wanted(rows)
    BY <1>5 DEF ScreenInv, CountInv, rows
  <2>3. \A r \in Slots : Changes(reqs'[r]) => Changes(reqs[r])
    BY <1>1, <1>2, AnsweredFacts
  <2>4. \A r \in Slots : r # q => ~Unserved(reqs'[r])
    BY <1>2, <1>5, <2>1 DEF Unserved
  <2>. QED BY <1>1, <1>2, <2>1, <2>2, <2>3, <2>4, AnsweredFacts
<1>8. reqs' \in [Slots -> {Idle} \union Request]
  BY <1>1, AnsweredFacts DEF ScreenInv, ScreenTypeOK
<1>9. \A r \in Slots : reqs'[r] # Idle => reqs[r] # Idle /\ reqs'[r].rows = reqs[r].rows
  BY <1>1, <1>2, AnsweredFacts
<1>. QED BY <1>1, <1>3, <1>6, <1>7, <1>8, <1>9, StepSettle DEF ScreenInv, ScreenTypeOK

LEMMA StepAddElsewhere ==
  ASSUME ScreenInv, NEW p \in Products, AddElsewhere(p)
  PROVE  ScreenInv'
<1>. DEFINE n == QtyOf(shop, p) + 1
            r == [id |-> p, qty |-> n]
            rows == IF p \in Ids(shop) THEN With(shop, r) ELSE Append(shop, [id |-> p, qty |-> 1])
<1>1. /\ taps < MaxTaps /\ taps' = taps + 1 /\ QtyOf(shop, p) < MaxQty
      /\ Settle(rows) /\ want' = [want EXCEPT ![p] = @ + 1]
      /\ hasty' = (hasty \/ UnderWay)
      /\ UNCHANGED <<guest, view, open, made, reqs, faults>>
  BY DEF AddElsewhere
<1>2. r \in Row /\ [id |-> p, qty |-> 1] \in Row /\ QtyOf(shop, p) \in Nat
  BY <1>1, QtyInt, StateFacts, BoundsAssumption, SMTT(30) DEF Row
<1>3. /\ rows \in Seq(Row) /\ Distinct(rows)
      /\ \A x : QtyOf(rows, x) = IF x = p THEN n ELSE QtyOf(shop, x)
  <2>1. CASE p \in Ids(shop)
    <3>1. rows = With(shop, r) /\ r.id = p /\ r.qty = n
      BY <2>1
    <3>. HIDE DEF rows, r, n
    <3>2. /\ With(shop, r) \in Seq(Row) /\ Distinct(With(shop, r))
          /\ \A x : QtyOf(With(shop, r), x)
                      = IF x = r.id /\ x \in Ids(shop) THEN r.qty ELSE QtyOf(shop, x)
      BY <1>2, StateFacts, WithFacts
    <3>. QED BY <2>1, <3>1, <3>2
  <2>2. CASE p \notin Ids(shop)
    <3>1. QtyOf(shop, p) = 0
      BY <2>2 DEF QtyOf
    <3>. QED BY <1>2, <2>2, <3>1, StateFacts, AppendFacts
  <2>. QED BY <2>1, <2>2
<1>4. shop' = rows
  BY <1>1 DEF Settle
<1>. HIDE DEF rows
<1>5. RoomInv'
  BY <1>1 DEF ScreenInv, RoomInv, Emptying
<1>6. CountInv'
  <2>. SUFFICES ASSUME ~guest, ~hasty', faults = 0
                PROVE  /\ \A s \in Slots : ~Changes(reqs[s])
                       /\ \A x \in Products : QtyOf(rows, x) = want'[x]
    BY <1>1, <1>4 DEF CountInv, Changes, Unserved, Wanted
  <2>1. ~hasty /\ ~UnderWay
    BY <1>1, Zenon
  <2>2. \A s \in Slots : ~Changes(reqs[s])
    BY <2>1 DEF UnderWay, Changes
  <2>3. Wanted(shop)
    BY <2>1, <2>2 DEF ScreenInv, CountInv, Unserved
  <2>. QED BY <1>1, <1>3, <2>2, <2>3, StateFacts DEF Wanted
<1>7. taps' \in 0..MaxTaps /\ want' \in [Products -> Int]
  <2>1. taps \in 0..MaxTaps /\ MaxTaps \in Nat
    BY BoundsAssumption DEF ScreenInv, ScreenTypeOK
  <2>. QED BY <1>1, <2>1, StateFacts
<1>8. hasty' \in BOOLEAN
  BY <1>1, Zenon
<1>. QED BY <1>1, <1>3, <1>5, <1>6, <1>7, <1>8, StepSettle DEF ScreenInv, ScreenTypeOK

-----------------------------------------------------------------------------
(* Steps of the answers                                                    *)

\* A request ends and the display becomes rows of that screen.
LEMMA ShowFacts ==
  ASSUME ScreenInv, NEW s \in Screens, NEW rows \in Seq(Row), Fair(rows, held), Show(s, rows)
  PROVE  view' \in [Screens -> Seq(Row)] /\ \A t \in Screens : Fair(view'[t], held)
<1>1. view' = [view EXCEPT ![s] = rows] \/ view' = view
  BY DEF Show
<1>. QED BY <1>1, StateFacts

\* A request that is no change under way is over.
LEMMA StepOver ==
  ASSUME ScreenInv, NEW q \in Slots, reqs' = [reqs EXCEPT ![q] = Idle],
         UNCHANGED <<guest, shop, taps, want, hasty, held>>,
         view' \in [Screens -> Seq(Row)], \A s \in Screens : Fair(view'[s], held),
         open' \in Seq(Screens) \ {<<>>}, made' \in Screens, RoomInv',
         \/ faults' = faults /\ ~Unserved(reqs[q])
         \/ faults < MaxFaults /\ faults' = faults + 1
  PROVE  ScreenInv'
<1>1. ~Changes(Idle) /\ Idle \in {Idle} \union Request
  BY DEF Changes
<1>2. faults \in 0..MaxFaults /\ MaxFaults \in Nat
  BY BoundsAssumption DEF ScreenInv, ScreenTypeOK
<1>3. faults' \in 0..MaxFaults /\ (faults' = 0 => faults' = faults)
  BY <1>2
<1>4. faults' = 0 => faults = 0 /\ ~Unserved(reqs[q])
  BY <1>2, <1>3
<1>5. taps' \in 0..MaxTaps
  BY DEF ScreenInv, ScreenTypeOK
<1>. QED BY <1>1, <1>3, <1>4, <1>5, StepReq DEF Unserved

LEMMA StepAnswerGet ==
  ASSUME ScreenInv, NEW q \in Slots, AnswerGet(q)
  PROVE  ScreenInv'
<1>1. /\ reqs[q] # Idle /\ reqs[q].kind = "get" /\ Show(reqs[q].scr, reqs[q].rows)
      /\ reqs' = [reqs EXCEPT ![q] = Idle]
      /\ UNCHANGED <<guest, shop, open, made, taps, faults, want, hasty, held>>
  BY DEF AnswerGet, Arrived
<1>2. reqs[q].scr \in Screens /\ reqs[q].rows \in Seq(Row) /\ Fair(reqs[q].rows, held)
  BY <1>1, AnsweredFacts DEF Request
<1>3. view' \in [Screens -> Seq(Row)] /\ \A s \in Screens : Fair(view'[s], held)
  BY <1>1, <1>2, ShowFacts
<1>4. ~Unserved(reqs[q])
  BY <1>1 DEF Unserved, Changes, Changing
<1>5. RoomInv'
  BY <1>1, RoomKept
<1>. QED BY <1>1, <1>3, <1>4, <1>5, StepOver DEF ScreenInv, ScreenTypeOK

LEMMA StepAnswerWish ==
  ASSUME ScreenInv, NEW q \in Slots, AnswerWish(q)
  PROVE  ScreenInv'
<1>1. /\ reqs[q].pc = "answered" /\ reqs' = [reqs EXCEPT ![q] = Idle]
      /\ UNCHANGED <<guest, shop, view, open, made, taps, faults, want, hasty, held>>
  BY DEF AnswerWish, Arrived
<1>2. RoomInv'
  BY <1>1, RoomKept
<1>. QED BY <1>1, <1>2, StateFacts, StepOver DEF ScreenInv, ScreenTypeOK, Unserved

LEMMA StepFail ==
  ASSUME ScreenInv, NEW q \in Slots, Fail(q)
  PROVE  ScreenInv'
<1>1. /\ faults < MaxFaults /\ faults' = faults + 1 /\ reqs' = [reqs EXCEPT ![q] = Idle]
      /\ UNCHANGED <<guest, shop, view, open, made, taps, want, hasty, held>>
  BY DEF Fail
<1>2. RoomInv'
  BY <1>1, RoomKept
<1>. QED BY <1>1, <1>2, StateFacts, StepOver DEF ScreenInv, ScreenTypeOK

LEMMA StepAnswerPut ==
  ASSUME ScreenInv, NEW q \in Slots, AnswerPut(q)
  PROVE  ScreenInv'
<1>1. /\ reqs[q] # Idle /\ reqs[q].pc = "answered" /\ GetCartData(q, reqs[q].scr)
      /\ UNCHANGED <<guest, shop, view, open, made, taps, faults, want, hasty, held>>
  BY DEF AnswerPut, Arrived
<1>2. reqs[q].scr \in Screens /\ ~Unserved(reqs[q])
  BY <1>1, AnsweredFacts DEF Request, Unserved
<1>. QED BY <1>1, <1>2, StateFacts, StepGetCartData

LEMMA StepAnswerDrop ==
  ASSUME ScreenInv, NEW q \in Slots, AnswerDrop(q)
  PROVE  ScreenInv'
<1>. DEFINE x == Sending("extra", reqs[q].scr, reqs[q].row, reqs[q].index)
<1>1. /\ reqs[q] # Idle /\ reqs[q].pc = "answered" /\ reqs' = [reqs EXCEPT ![q] = x]
      /\ UNCHANGED <<guest, shop, view, open, made, taps, faults, want, hasty, held>>
  BY DEF AnswerDrop, Arrived, Ask, Sending
<1>2. /\ reqs[q].scr \in Screens /\ reqs[q].row \in [id : Products, qty : 0..MaxQty]
      /\ reqs[q].index \in Nat
  BY <1>1, AnsweredFacts DEF Request
<1>3. x \in Request /\ x.kind = "extra" /\ x # Idle /\ Fair(x.rows, held)
  BY <1>2, SendingFacts DEF Sending
<1>. HIDE DEF x
<1>4. ~Changes(x) /\ ~Unserved(reqs[q])
  BY <1>1, <1>3 DEF Changes, Changing, Unserved
<1>5. RoomInv'
  BY <1>1, <1>3, RoomKept
<1>. QED BY <1>1, <1>3, <1>4, <1>5, StateFacts, StepReq DEF ScreenInv, ScreenTypeOK, Unserved

LEMMA StepAnswerExtra ==
  ASSUME ScreenInv, NEW q \in Slots, AnswerExtra(q)
  PROVE  ScreenInv'
<1>. DEFINE s == reqs[q].scr
            i == reqs[q].index
            rows == IF i \in DOMAIN view[s] THEN RemoveAt(view[s], i) ELSE view[s]
<1>1. /\ reqs[q] # Idle /\ reqs[q].pc = "answered" /\ GetCartData(q, s) /\ Show(s, rows)
      /\ UNCHANGED <<guest, shop, open, made, taps, faults, want, hasty, held>>
  BY DEF AnswerExtra, Arrived
<1>2. s \in Screens /\ ~Unserved(reqs[q])
  BY <1>1, AnsweredFacts DEF Request, Unserved
<1>3. view[s] \in Seq(Row) /\ Fair(view[s], held)
  BY <1>2, StateFacts
<1>4. rows \in Seq(Row) /\ Fair(rows, held)
  BY <1>3, RemoveKeeps DEF Fair
<1>. HIDE DEF rows, s
<1>5. view' \in [Screens -> Seq(Row)] /\ \A t \in Screens : Fair(view'[t], held)
  BY <1>1, <1>2, <1>4, ShowFacts
<1>. QED BY <1>1, <1>2, <1>5, StepGetCartData

\* The screen that is pushed is the room the emptying took.
LEMMA StepAnswerEmpty ==
  ASSUME ScreenInv, NEW q \in Slots, AnswerEmpty(q)
  PROVE  ScreenInv'
<1>1. /\ reqs[q] # Idle /\ reqs[q].pc = "answered" /\ reqs[q].kind = "empty"
      /\ reqs' = [reqs EXCEPT ![q] = Idle]
      /\ UNCHANGED <<guest, shop, view, taps, faults, want, hasty, held>>
  BY DEF AnswerEmpty, Arrived
<1>2. \/ made' = made + 1 /\ open' = Append(open, made')
      \/ UNCHANGED <<open, made>>
  BY DEF AnswerEmpty
<1>3. Emptying' = Emptying \ {q} /\ q \in Emptying
  <2>1. reqs'[q] = Idle /\ \A r \in Slots : r # q => reqs'[r] = reqs[r]
    BY <1>1 DEF ScreenInv, ScreenTypeOK
  <2>. QED BY <1>1, <2>1 DEF Emptying
<1>4. IsFiniteSet(Emptying) /\ made + Cardinality(Emptying) <= MaxScreens
  BY DEF ScreenInv, RoomInv
<1>5. /\ IsFiniteSet(Emptying') /\ Cardinality(Emptying') = Cardinality(Emptying) - 1
      /\ Cardinality(Emptying) \in Nat /\ Cardinality(Emptying') \in Nat
  BY <1>3, <1>4, FS_RemoveElement, FS_CardinalityType
<1>6. made \in Nat \ {0} /\ MaxScreens \in Nat /\ open \in Seq(Screens) \ {<<>>}
  BY BoundsAssumption DEF ScreenInv, ScreenTypeOK, Screens
<1>7. made' \in Screens /\ RoomInv'
  BY <1>2, <1>4, <1>5, <1>6 DEF RoomInv, Screens
<1>8. open' \in Seq(Screens) \ {<<>>}
  <2>1. CASE open' = Append(open, made')
    <3>1. open' \in Seq(Screens) /\ Len(open') = Len(open) + 1 /\ Len(open) \in Nat
      BY <1>6, <1>7, <2>1, AppendProperties
    <3>. QED BY <3>1, EmptySeq
  <2>2. CASE open' = open
    BY <1>6, <2>2
  <2>. QED BY <1>2, <2>1, <2>2
<1>. QED BY <1>1, <1>7, <1>8, StateFacts, StepOver DEF Unserved

-----------------------------------------------------------------------------
LEMMA StepScreen == ScreenInv /\ [ScreenNext]_screenVars => ScreenInv'
<1>. SUFFICES ASSUME ScreenInv, [ScreenNext]_screenVars PROVE ScreenInv'
  OBVIOUS
<1>1. ASSUME NEW q \in Slots, NEW s \in Screens, Tick(q, s) PROVE ScreenInv'
  BY <1>1, StepTick
<1>2. ASSUME NEW q \in Slots, NEW i \in Shown, NEW delta \in {-1, 1}, TapQuantity(q, i, delta)
      PROVE  ScreenInv'
  BY <1>2, StepTapQuantity
<1>3. ASSUME NEW q \in Slots, NEW i \in Shown, Swipe(q, i) PROVE ScreenInv'
  BY <1>3, StepSwipe
<1>4. ASSUME NEW q \in Slots, NEW i \in Shown, TapHeart(q, i) PROVE ScreenInv'
  BY <1>4, StepTapHeart
<1>5. ASSUME NEW q \in Slots, TapEmpty(q) \/ TapCoupon(q) PROVE ScreenInv'
  BY <1>5, StepTapEmpty, StepTapCoupon
<1>6. ASSUME NEW q \in Slots, ServeFetch(q) \/ ServeChange(q) \/ Refuse(q) PROVE ScreenInv'
  BY <1>6, StepServeFetch, StepServeChange, StepRefuse
<1>7. ASSUME NEW q \in Slots, Reply(q) PROVE ScreenInv'
  BY <1>7, StepAnswerGet, StepAnswerPut, StepAnswerDrop, StepAnswerExtra, StepAnswerWish,
     StepAnswerEmpty DEF Reply
<1>8. ASSUME NEW q \in Slots, Fail(q) PROVE ScreenInv'
  BY <1>8, StepFail
<1>9. ASSUME Back PROVE ScreenInv'
  BY <1>9, StepBack
<1>10. ASSUME NEW p \in Products, AddElsewhere(p) PROVE ScreenInv'
  BY <1>10, StepAddElsewhere
<1>11. ASSUME UNCHANGED screenVars PROVE ScreenInv'
  <2>1. ScreenTypeOK' /\ RowsInv'
    BY <1>11 DEF ScreenInv, ScreenTypeOK, RowsInv, screenVars
  <2>2. RoomInv' /\ CountInv'
    BY <1>11 DEF ScreenInv, RoomInv, Emptying, CountInv, Wanted, screenVars
  <2>. QED BY <2>1, <2>2 DEF ScreenInv
<1>. QED BY <1>1, <1>2, <1>3, <1>4, <1>5, <1>6, <1>7, <1>8, <1>9, <1>10, <1>11 DEF ScreenNext

LEMMA ScreenInvariant == ScreenSpec => []ScreenInv
BY InitScreen, StepScreen, PTL DEF ScreenSpec

\* Type correctness: among other things, a screen is open at any time, no
\* more are made than there is room for, and nothing but rows is displayed.
THEOREM ScreenTypes == ScreenSpec => []ScreenTypeOK
<1>1. ScreenInv => ScreenTypeOK
  BY DEF ScreenInv
<1>. QED BY <1>1, ScreenInvariant, PTL

\* Late refreshes, removals by index and disposed screens lose rows for a
\* while, but the screen shows no row that the shop has not held and no
\* product twice, with any number of requests under way.
THEOREM ScreenMakesNothingUp == ScreenSpec => []NothingMadeUp
<1>1. ScreenInv => NothingMadeUp
  BY StateFacts, DistinctCount DEF Fair, NothingMadeUp
<1>. QED BY <1>1, ScreenInvariant, PTL

\* The taps of a shopper who waits for the screen count exactly, although
\* each is sent as an absolute quantity computed from the display.
THEOREM ScreenCountsTaps == ScreenSpec => []CarefulTapsCount
<1>1. ScreenInv => CarefulTapsCount
  BY DEF ScreenInv, CountInv, CarefulTapsCount, UnderWay, Unserved, Changes, Wanted
<1>. QED BY <1>1, ScreenInvariant, PTL

-----------------------------------------------------------------------------
(* The guest's cart                                                        *)

USE NoneAssumption, DisjointAssumption

LEMMA InitInv == Init => IInv
<1> SUFFICES ASSUME Init PROVE IInv
  OBVIOUS
<1>1. [pc |-> "idle", to |-> None, into |-> None] \in Call
  BY DEF Call
<1>2. TypeOK
  BY <1>1 DEF Init, TypeOK
<1>3. \A c \in Calls : calls[c].pc = "idle" /\ calls[c].to = None /\ calls[c].into = None
  BY DEF Init
<1>4. SessionsInv
  BY <1>3 DEF Init, SessionsInv
<1>5. RaceInv /\ HomeInv /\ FreshInv /\ CartsInv /\ DroppedStaysDropped
  BY <1>3 DEF Init, RaceInv, HomeInv, FreshInv, CartsInv, Opening, InFlight,
              Acknowledged, DroppedStaysDropped
<1> QED BY <1>2, <1>4, <1>5 DEF IInv

LEMMA StepAddToCart ==
  ASSUME IInv, NEW c \in Calls, AddToCart(c)
  PROVE  IInv'
<1> USE DEF IInv
<1>0. Identity \in Owners \union {None}
  BY DEF Identity, Owners, TypeOK
<1>1. /\ calls'[c] = [pc |-> "sent", to |-> Identity, into |-> None]
      /\ \A d \in Calls \ {c} : calls'[d] = calls[d]
      /\ calls[c].pc = "idle"
      /\ UNCHANGED <<cookie, login, carts, opened, expired, dropped>>
      /\ overlapped' = (overlapped \/ (Identity = None /\ \E d \in Calls : Opening(d)))
  BY DEF AddToCart, TypeOK
<1>2. TypeOK'
  BY <1>0 DEF AddToCart, TypeOK, Call
<1>3. overlapped => overlapped'
  BY <1>1
<1>4. Identity \in Sessions => Identity = cookie
  BY DEF Identity, TypeOK
<1>8. SessionsInv'
  <2>1. \A d \in Calls \ {c} :
           /\ {calls[d].to, calls[d].into}' \cap Sessions \subseteq opened
           /\ (calls[d].pc \in {"idle", "sent", "refused", "crashed"} => calls[d].into = None)'
           /\ (calls[d].pc = "ok" => calls[d].into # None)'
           /\ (calls[d].to \notin Users => calls[d].into \notin Users)'
    BY <1>1 DEF SessionsInv
  <2>2. /\ {calls'[c].to, calls'[c].into} \cap Sessions \subseteq opened
        /\ calls'[c].pc = "sent" /\ calls'[c].into = None
    BY <1>1, <1>4 DEF SessionsInv
  <2> QED BY <1>1, <2>1, <2>2 DEF SessionsInv
<1>5. RaceInv'
  <2>1. Identity = None => cookie = None
    BY DEF Identity, TypeOK
  <2>2. \A d \in Calls \ {c} : Opening(d)' <=> Opening(d)
    BY <1>1 DEF Opening, InFlight
  <2>3. Opening(c)' => Identity = None
    BY <1>1 DEF Opening
  <2>4. ~Opening(c)
    BY <1>1 DEF Opening, InFlight
  <2> QED BY <1>1, <2>1, <2>2, <2>3, <2>4 DEF RaceInv
<1>6. HomeInv'
  <2>1. \A d \in Calls \ {c} :
           /\ InFlight(d)' <=> InFlight(d)
           /\ Acknowledged(d)' <=> Acknowledged(d)
           /\ Excused(d) => Excused(d)'
    BY <1>1, <1>3 DEF InFlight, Acknowledged, Excused
  <2>2. ~Acknowledged(c)' /\ calls'[c].into = None
    BY <1>1 DEF Acknowledged
  <2>3. ASSUME NEW d \in Calls \ {c} PROVE HomeInv!(d)'
    BY <1>1, <1>3, <2>1 DEF HomeInv
  <2>4. HomeInv!(c)'
    BY <1>1, <1>4, <2>2
  <2> QED BY <2>3, <2>4 DEF HomeInv
<1>7. FreshInv' /\ DroppedStaysDropped'
  <2>1. calls'[c].pc # "ok" /\ calls'[c].into = None
    BY <1>1
  <2>2. ASSUME NEW d \in Calls \ {c}, Opening(d)', calls'[d].pc = "ok"
        PROVE  /\ calls[d].into \notin {cookie} \union dropped
               /\ \A e \in Calls \ {d} :
                     calls'[d].into \notin {calls'[e].to, calls'[e].into}
    <3>1. Opening(d) /\ calls[d].pc = "ok" /\ calls[d].into # None
      BY <1>1, <2>2 DEF Opening, InFlight, SessionsInv
    <3>2. calls[d].into # calls'[c].to
      <4>1. calls[d].into \in Sessions
        BY <3>1 DEF Opening, SessionsInv, TypeOK, Call, Owners
      <4>2. calls[d].into # cookie
        BY <3>1 DEF FreshInv
      <4> QED BY <1>1, <1>4, <4>1, <4>2
    <3> QED BY <1>1, <2>1, <3>1, <3>2 DEF FreshInv
  <2> QED BY <1>1, <2>1, <2>2 DEF FreshInv, DroppedStaysDropped
<1>9. CartsInv'
  BY <1>1 DEF CartsInv, SessionsInv, TypeOK
<1> QED BY <1>2, <1>5, <1>6, <1>7, <1>8, <1>9

LEMMA StepServeKnown ==
  ASSUME IInv, NEW c \in Calls, ServeKnown(c)
  PROVE  IInv'
<1> USE DEF IInv
<1>0. calls[c] \in Call /\ calls[c].to \in Owners
  BY DEF ServeKnown, TypeOK, Owners, Alive, Call
<1>1. /\ calls'[c] = [pc |-> "ok", to |-> calls[c].to, into |-> calls[c].to]
      /\ \A d \in Calls \ {c} : calls'[d] = calls[d]
      /\ calls[c].pc = "sent"
      /\ carts' = [carts EXCEPT ![calls[c].to] = @ \union {c}]
      /\ UNCHANGED <<cookie, login, opened, expired, dropped, overlapped>>
  BY <1>0 DEF ServeKnown, TypeOK, Call
<1>2. TypeOK'
  <2>1. calls' \in [Calls -> Call]
    BY <1>0 DEF ServeKnown, TypeOK, Call
  <2>2. carts' \in [Owners -> SUBSET Calls]
    BY <1>0, <1>1 DEF TypeOK
  <2> QED BY <2>1, <2>2, <1>1 DEF TypeOK
<1>3. SessionsInv'
  BY <1>0, <1>1 DEF SessionsInv, Owners
<1>4. RaceInv'
  BY <1>0, <1>1 DEF RaceInv, Opening, InFlight, Owners
<1>5. HomeInv'
  <2>1. \A o \in Owners : carts[o] \subseteq carts'[o]
    BY <1>0, <1>1 DEF TypeOK
  <2>2. c \in carts'[calls[c].to]
    BY <1>0, <1>1 DEF TypeOK
  <2>3. \A d \in Calls : calls[d].into # None => calls[d].into \in Owners
    BY DEF TypeOK, Call
  <2> QED BY <1>0, <1>1, <2>1, <2>2, <2>3
          DEF HomeInv, InFlight, Acknowledged, Excused
<1>6. FreshInv' /\ DroppedStaysDropped'
  BY <1>0, <1>1 DEF FreshInv, Opening, InFlight, DroppedStaysDropped, Owners
<1>7. CartsInv'
  <2>1. ASSUME NEW o \in Owners, NEW d \in carts'[o] PROVE calls'[d].into = o
    <3>1. d \in Calls
      BY <1>2 DEF TypeOK
    <3>2. CASE d \in carts[o]
      BY <1>1, <3>1, <3>2 DEF CartsInv, SessionsInv, Owners, TypeOK
    <3>3. CASE d \notin carts[o]
      BY <1>0, <1>1, <2>1, <3>3 DEF TypeOK
    <3> QED BY <3>2, <3>3
  <2> QED BY <2>1 DEF CartsInv
<1> QED BY <1>2, <1>3, <1>4, <1>5, <1>6, <1>7

LEMMA StepServeFresh ==
  ASSUME IInv, NEW c \in Calls, NEW s \in Sessions, ServeFresh(c, s)
  PROVE  IInv'
<1> USE DEF IInv
<1>0. s \in Owners /\ calls[c] \in Call
  BY DEF Owners, TypeOK
<1>1. /\ calls'[c] = [pc |-> "ok", to |-> calls[c].to, into |-> s]
      /\ \A d \in Calls \ {c} : calls'[d] = calls[d]
      /\ calls[c].pc = "sent" /\ calls[c].to \notin Users
      /\ calls[c].to = None \/ ~Alive(calls[c].to)
      /\ s \notin opened /\ opened' = opened \union {s}
      /\ carts' = [carts EXCEPT ![s] = {c}]
      /\ UNCHANGED <<cookie, login, expired, dropped, overlapped>>
  BY <1>0 DEF ServeFresh, TypeOK, Call
<1>2. TypeOK'
  <2>1. [[calls[c] EXCEPT !.pc = "ok"] EXCEPT !.into = s] \in Call
    BY <1>0 DEF Call
  <2>2. calls' = [calls EXCEPT ![c] =
                    [[calls[c] EXCEPT !.pc = "ok"] EXCEPT !.into = s]]
    BY DEF ServeFresh, TypeOK
  <2>3. calls' \in [Calls -> Call]
    BY <2>1, <2>2 DEF TypeOK
  <2>4. carts' \in [Owners -> SUBSET Calls]
    BY <1>0, <1>1 DEF TypeOK
  <2> QED BY <2>3, <2>4, <1>1 DEF TypeOK
<1>3. SessionsInv'
  BY <1>0, <1>1 DEF SessionsInv
<1>4. RaceInv'
  BY <1>1 DEF RaceInv, Opening, InFlight
<1>5. HomeInv'
  <2>1. \A d \in Calls : calls[d].into # s
    BY <1>1 DEF SessionsInv
  <2>2. \A o \in Owners \ {s} : carts'[o] = carts[o]
    BY <1>0, <1>1 DEF TypeOK
  <2>3. c \in carts'[s]
    BY <1>0, <1>1 DEF TypeOK
  <2>4. \A d \in Calls : calls[d].into # None => calls[d].into \in Owners
    BY DEF TypeOK, Call
  <2>5. calls[c].to \in Sessions => calls[c].to \in expired
    BY <1>1 DEF SessionsInv, Alive
  <2> QED BY <1>0, <1>1, <2>1, <2>2, <2>3, <2>4, <2>5
          DEF HomeInv, InFlight, Acknowledged, Excused
<1>6. FreshInv'
  <2>1. s # None /\ s \notin {cookie} \union dropped
    BY <1>1 DEF SessionsInv, TypeOK
  <2>2. \A d \in Calls : s \notin {calls[d].to, calls[d].into}
    BY <1>1 DEF SessionsInv
  <2> QED BY <1>1, <2>1, <2>2 DEF FreshInv, Opening, InFlight
<1>7. DroppedStaysDropped'
  BY <1>1 DEF DroppedStaysDropped
<1>8. CartsInv'
  <2>1. ASSUME NEW o \in Owners, NEW d \in carts'[o] PROVE calls'[d].into = o
    <3>1. d \in Calls
      BY <1>2 DEF TypeOK
    <3>2. CASE o = s
      BY <1>0, <1>1, <2>1, <3>2 DEF TypeOK
    <3>3. CASE o # s
      <4>1. d \in carts[o]
        BY <1>1, <2>1, <3>3 DEF TypeOK
      <4> QED BY <1>1, <3>1, <4>1 DEF CartsInv, SessionsInv, Owners, TypeOK
    <3> QED BY <3>2, <3>3
  <2> QED BY <2>1 DEF CartsInv
<1> QED BY <1>2, <1>3, <1>4, <1>5, <1>6, <1>7, <1>8

(***************************************************************************)
(* A step that only moves the control of one call, without making it an    *)
(* acknowledged or an opening one, keeps the invariant.                    *)
(***************************************************************************)
LEMMA StepControl ==
  ASSUME IInv, NEW c \in Calls, NEW p,
         p \in {"refused", "crashed", "toast", "serverError", "lost"},
         p # "lost" => calls[c].into = None,
         InFlight(c),
         calls' = [calls EXCEPT ![c].pc = p],
         UNCHANGED <<cookie, login, carts, opened, expired, dropped, overlapped>>
  PROVE  IInv'
<1> USE DEF IInv
<1>0. calls[c] \in Call
  BY DEF TypeOK
<1>1. /\ calls'[c] = [pc |-> p, to |-> calls[c].to, into |-> calls[c].into]
      /\ \A d \in Calls \ {c} : calls'[d] = calls[d]
  BY <1>0 DEF TypeOK, Call
<1>2. TypeOK'
  BY DEF TypeOK, Call
<1>3. SessionsInv'
  BY <1>1 DEF SessionsInv
<1>4. \A d \in Calls :
        /\ InFlight(d)' => InFlight(d)
        /\ Opening(d)' => Opening(d)
        /\ Acknowledged(d)' => Acknowledged(d)
        /\ Excused(d) <=> Excused(d)'
        /\ calls'[d].to = calls[d].to
        /\ calls'[d].into = calls[d].into
        /\ calls'[d].pc = "ok" => calls[d].pc = "ok"
  BY <1>1 DEF InFlight, Opening, Acknowledged, Excused
<1>5. RaceInv'
  BY <1>4 DEF RaceInv
<1>6. HomeInv'
  BY <1>4 DEF HomeInv
<1>7. FreshInv' /\ DroppedStaysDropped'
  BY <1>4 DEF FreshInv, DroppedStaysDropped
<1>8. CartsInv'
  BY <1>4 DEF CartsInv, TypeOK
<1> QED BY <1>2, <1>3, <1>5, <1>6, <1>7, <1>8

LEMMA StepExpire ==
  ASSUME IInv, NEW s \in Sessions, Expire(s)
  PROVE  IInv'
<1> USE DEF IInv
<1>1. /\ expired' = expired \union {s}
      /\ \A o \in Owners \ {s} : carts'[o] = carts[o]
      /\ UNCHANGED <<cookie, login, calls, opened, dropped, overlapped>>
  BY DEF Expire, TypeOK
<1>2. TypeOK'
  BY DEF Expire, Alive, TypeOK, Owners
<1>3. SessionsInv' /\ RaceInv' /\ FreshInv' /\ DroppedStaysDropped'
  BY <1>1 DEF SessionsInv, RaceInv, FreshInv, DroppedStaysDropped, Opening, InFlight
<1>4. HomeInv'
  <2>1. \A d \in Calls : calls[d].into # None => calls[d].into \in Owners
    BY DEF TypeOK, Call
  <2>2. \A d \in Calls :
          /\ InFlight(d)' <=> InFlight(d)
          /\ Acknowledged(d)' <=> Acknowledged(d)
          /\ Excused(d) => Excused(d)'
    BY <1>1 DEF InFlight, Acknowledged, Excused
  <2> QED BY <1>1, <2>1, <2>2 DEF HomeInv
<1>5. CartsInv'
  BY DEF Expire, Alive, CartsInv, TypeOK, Owners
<1> QED BY <1>2, <1>3, <1>4, <1>5

LEMMA StepAnswerOk ==
  ASSUME IInv, NEW c \in Calls, AnswerOk(c)
  PROVE  IInv'
<1> USE DEF IInv
<1>0. calls[c] \in Call
  BY DEF TypeOK
<1>1. /\ calls'[c] = [pc |-> "toast", to |-> calls[c].to, into |-> calls[c].into]
      /\ \A d \in Calls \ {c} : calls'[d] = calls[d]
      /\ calls[c].pc = "ok"
      /\ cookie' = IF calls[c].to = None THEN calls[c].into ELSE cookie
      /\ UNCHANGED <<login, carts, opened, expired, dropped, overlapped>>
  BY <1>0 DEF AnswerOk, TypeOK, Call
<1>2. calls[c].into # None /\ (calls[c].to = None => calls[c].into \in opened)
  BY <1>0, <1>1 DEF SessionsInv, Call, Owners
<1>3. \A d \in Calls :
        /\ calls'[d].to = calls[d].to /\ calls'[d].into = calls[d].into
        /\ InFlight(d)' => InFlight(d) /\ d # c
        /\ Opening(d)' => Opening(d) /\ d # c
        /\ calls'[d].pc = "ok" => calls[d].pc = "ok"
        /\ Excused(d)' <=> Excused(d)
  BY <1>1 DEF InFlight, Opening, Excused
<1>4. TypeOK'
  <2>1. calls' \in [Calls -> Call]
    BY DEF AnswerOk, TypeOK, Call
  <2>2. cookie' \in Sessions \union {None}
    BY <1>1, <1>2 DEF TypeOK
  <2> QED BY <1>1, <2>1, <2>2 DEF TypeOK
<1>5. SessionsInv'
  BY <1>1, <1>2 DEF SessionsInv
<1>8. CartsInv'
  BY <1>1, <1>3 DEF CartsInv, TypeOK
<1>6. CASE calls[c].to = None
  <2>1. Opening(c) /\ cookie' = calls[c].into
    BY <1>1, <1>6 DEF Opening, InFlight
  <2>2. RaceInv'
    BY <1>1, <1>3, <2>1 DEF RaceInv
  <2>3. HomeInv'
    <3>1. cookie # None => overlapped
      BY <2>1 DEF RaceInv
    <3>2. ASSUME NEW d \in Calls \ {c} PROVE HomeInv!(d)'
      <4>1. Acknowledged(d)' <=> Acknowledged(d)
        BY <1>1 DEF Acknowledged
      <4>2. cookie = None \/ overlapped
        BY <3>1
      <4> QED BY <1>1, <1>3, <4>1, <4>2 DEF HomeInv, Excused, Acknowledged, TypeOK
    <3>3. HomeInv!(c)'
      BY <1>1, <1>3, <1>6, <2>1 DEF HomeInv, InFlight
    <3> QED BY <3>2, <3>3 DEF HomeInv
  <2>4. FreshInv'
    <3>1. ASSUME NEW d \in Calls, Opening(d)', calls'[d].pc = "ok"
          PROVE  calls[d].into \notin {cookie'} \union dropped
      <4>1. d # c /\ Opening(d) /\ calls[d].pc = "ok"
        BY <1>3, <3>1
      <4> QED BY <2>1, <4>1 DEF FreshInv
    <3> QED BY <1>1, <1>3, <3>1 DEF FreshInv
  <2>5. DroppedStaysDropped'
    BY <1>1, <2>1 DEF FreshInv, DroppedStaysDropped
  <2> QED BY <1>4, <1>5, <1>8, <2>2, <2>3, <2>4, <2>5
<1>7. CASE calls[c].to # None
  <2>1. cookie' = cookie
    BY <1>1, <1>7
  <2>2. RaceInv' /\ FreshInv' /\ DroppedStaysDropped'
    BY <1>1, <1>3, <2>1 DEF RaceInv, FreshInv, DroppedStaysDropped
  <2>3. HomeInv'
    <3>1. ASSUME NEW d \in Calls \ {c} PROVE HomeInv!(d)'
      <4>1. Acknowledged(d)' <=> Acknowledged(d)
        BY <1>1 DEF Acknowledged
      <4> QED BY <1>1, <1>3, <2>1, <4>1 DEF HomeInv
    <3>2. InFlight(c)
      BY <1>1 DEF InFlight
    <3>3. calls[c].to \in Sessions \/ calls[c].to \in Users
      BY <1>0, <1>7 DEF Call, Owners
    <3>4. calls[c].to \in Sessions => calls[c].into = cookie \/ Excused(c)
      BY <1>2, <3>2 DEF HomeInv, Excused
    <3>5. HomeInv!(c)'
      BY <1>1, <1>3, <2>1, <3>3, <3>4 DEF HomeInv, InFlight
    <3> QED BY <3>1, <3>5 DEF HomeInv
  <2> QED BY <1>4, <1>5, <1>8, <2>2, <2>3
<1> QED BY <1>6, <1>7

LEMMA StepIdentity ==
  ASSUME IInv, (\E u \in Users : SignIn(u)) \/ SignOut \/ OpenSignIn
  PROVE  IInv'
<1> USE DEF IInv
<1>1. CASE \E u \in Users : SignIn(u)
  <2>1. UNCHANGED <<cookie, calls, carts, opened, expired, dropped, overlapped>>
    BY <1>1 DEF SignIn
  <2>2. login' \in Users \union {None}
    BY <1>1 DEF SignIn
  <2>3. TypeOK' /\ SessionsInv'
    BY <2>1, <2>2 DEF TypeOK, SessionsInv
  <2>4. RaceInv' /\ FreshInv' /\ DroppedStaysDropped' /\ HomeInv' /\ CartsInv'
    BY <2>1 DEF CartsInv, RaceInv, FreshInv, DroppedStaysDropped, HomeInv, Opening, InFlight,
                Acknowledged, Excused
  <2> QED BY <2>3, <2>4
<1>2. CASE SignOut \/ OpenSignIn
  <2>1. /\ cookie' = None /\ login' = None
        /\ dropped' = dropped \union ({cookie} \ {None})
        /\ UNCHANGED <<calls, carts, opened, expired, overlapped>>
    BY <1>2 DEF SignOut, OpenSignIn, ClearPreferences
  <2>2. TypeOK' /\ SessionsInv' /\ RaceInv'
    BY <2>1 DEF TypeOK, SessionsInv, RaceInv, Opening, InFlight
  <2>3. FreshInv'
    <3>1. ASSUME NEW d \in Calls, Opening(d), calls[d].pc = "ok"
          PROVE  calls[d].into \notin {None} \union dropped'
      BY <2>1, <3>1 DEF FreshInv, SessionsInv
    <3>2. \A d \in Calls : Opening(d)' <=> Opening(d)
      BY <2>1 DEF Opening, InFlight
    <3> QED BY <2>1, <3>1, <3>2 DEF FreshInv
  <2>4. HomeInv'
    <3>1. \A d \in Calls :
            /\ InFlight(d)' <=> InFlight(d)
            /\ Acknowledged(d)' <=> Acknowledged(d)
            /\ Excused(d) => Excused(d)'
      BY <2>1 DEF InFlight, Acknowledged, Excused
    <3>2. \A d \in Calls : Acknowledged(d) /\ calls[d].into = cookie => Excused(d)'
      BY <2>1 DEF Acknowledged, Excused
    <3> QED BY <2>1, <3>1, <3>2 DEF HomeInv
  <2>5. DroppedStaysDropped'
    BY <2>1 DEF DroppedStaysDropped, TypeOK
  <2>6. CartsInv'
    BY <2>1 DEF CartsInv
  <2> QED BY <2>2, <2>3, <2>4, <2>5, <2>6
<1> QED BY <1>1, <1>2

(***************************************************************************)
(* The inductive invariant is one.                                         *)
(***************************************************************************)
LEMMA Inductive == IInv /\ [Next]_vars => IInv'
<1> SUFFICES ASSUME IInv, [Next]_vars PROVE IInv'
  OBVIOUS
<1>1. ASSUME NEW c \in Calls, AddToCart(c) PROVE IInv'
  BY <1>1, StepAddToCart
<1>2. ASSUME NEW c \in Calls, ServeKnown(c) PROVE IInv'
  BY <1>2, StepServeKnown
<1>3. ASSUME NEW c \in Calls, NEW s \in Sessions, ServeFresh(c, s) PROVE IInv'
  BY <1>3, StepServeFresh
<1>4. ASSUME NEW c \in Calls, ServeError(c) PROVE IInv'
  <2>1. PICK p \in {"refused", "crashed"} : calls' = [calls EXCEPT ![c].pc = p]
    BY <1>4 DEF ServeError
  <2>2. InFlight(c) /\ calls[c].into = None
    BY <1>4 DEF ServeError, InFlight, IInv, SessionsInv
  <2> QED BY <1>4, <2>1, <2>2, StepControl DEF ServeError
<1>5. ASSUME NEW c \in Calls, AnswerError(c) PROVE IInv'
  <2>1. InFlight(c) /\ calls[c].into = None
    BY <1>5 DEF AnswerError, InFlight, IInv, SessionsInv
  <2>2. PICK p \in {"serverError", "toast"} : calls' = [calls EXCEPT ![c].pc = p]
    BY <1>5 DEF AnswerError
  <2> QED BY <1>5, <2>1, <2>2, StepControl DEF AnswerError
<1>6. ASSUME NEW c \in Calls, Lose(c) PROVE IInv'
  BY <1>6, StepControl DEF Lose
<1>7. ASSUME NEW s \in Sessions, Expire(s) PROVE IInv'
  BY <1>7, StepExpire
<1>8. ASSUME NEW c \in Calls, AnswerOk(c) PROVE IInv'
  BY <1>8, StepAnswerOk
<1>9. CASE (\E u \in Users : SignIn(u)) \/ SignOut \/ OpenSignIn
  BY <1>9, StepIdentity
<1>10. CASE UNCHANGED vars
  BY <1>10 DEF vars, IInv, TypeOK, SessionsInv, CartsInv, RaceInv, HomeInv, FreshInv,
     DroppedStaysDropped, Opening, InFlight, Acknowledged, Excused
<1> QED
  BY <1>1, <1>2, <1>3, <1>4, <1>5, <1>6, <1>7, <1>8, <1>9, <1>10
  DEF Next, AddFromCatalogue, AddFromSlider, AddFromDetails

LEMMA Invariance == Spec => []IInv
  BY InitInv, Inductive, PTL DEF Spec

(***************************************************************************)
(* Every variable keeps its type.                                          *)
(***************************************************************************)
THEOREM TypeCorrect == Spec => []TypeOK
  BY Invariance, PTL DEF IInv

(***************************************************************************)
(* An acknowledged guest add is in the cart of the stored cookie, unless   *)
(* the shopper signed out, the shop forgot the session, or first adds      *)
(* raced.                                                                  *)
(***************************************************************************)
THEOREM AcknowledgedKept == Spec => []AcknowledgedAddsKept
<1>1. IInv => AcknowledgedAddsKept
  <2> SUFFICES ASSUME IInv, NEW c \in Calls,
                      Acknowledged(c), calls[c].to \notin Users, ~Excused(c)
               PROVE  cookie # None /\ c \in carts[cookie]
    BY DEF AcknowledgedAddsKept
  <2>1. calls[c].into # None /\ calls[c].into \notin expired
    BY DEF Acknowledged, Excused
  <2>2. calls[c].into = cookie /\ c \in carts[calls[c].into]
    BY <2>1 DEF IInv, HomeInv
  <2> QED BY <2>1, <2>2
<1> QED BY <1>1, Invariance, PTL

(***************************************************************************)
(* No answer that is still under way at a sign-out brings back a cookie    *)
(* that the sign-out threw away.                                           *)
(***************************************************************************)
THEOREM SignOutIsFinal == Spec => []DroppedStaysDropped
  BY Invariance, PTL DEF IInv

(***************************************************************************)
(* Without a race, AddToCart never exchanges a stored cookie.              *)
(***************************************************************************)
THEOREM CookieSettles == Spec => SettledCookie
<1>1. IInv /\ [Next]_vars =>
        [cookie # None /\ ~overlapped => cookie' \in {cookie, None}]_vars
  <2> SUFFICES ASSUME IInv, Next, cookie # None, ~overlapped
               PROVE  cookie' \in {cookie, None}
    OBVIOUS
  <2>1. ASSUME NEW c \in Calls, AnswerOk(c) PROVE cookie' = cookie
    <3>1. Opening(c) => overlapped
      BY DEF IInv, RaceInv
    <3> QED BY <2>1, <3>1 DEF AnswerOk, Opening, InFlight
  <2> QED
    BY <2>1 DEF Next, AddFromCatalogue, AddFromSlider, AddFromDetails, AddToCart,
       ServeKnown, ServeFresh, ServeError, AnswerError, Lose, Expire, SignIn,
       SignOut, OpenSignIn, ClearPreferences
<1> QED BY <1>1, Invariance, PTL DEF Spec, SettledCookie

(***************************************************************************)
(* Until first adds race, the goods behind the cookie behave as one        *)
(* basket: every step puts in one thing, empties it, or leaves it alone.   *)
(***************************************************************************)
THEOREM OneBasket == Spec => BasketSpec
<1>1. Init => B!Init
  BY DEF Init, B!Init, TheBasket
<1>2. IInv /\ [Next]_vars => [B!Next]_TheBasket
  <2> SUFFICES ASSUME IInv, [Next]_vars
               PROVE  B!Next \/ TheBasket' = TheBasket
    OBVIOUS
  <2> USE DEF B!Next, B!Put, B!Forget, TheBasket
  <2>0. TypeOK /\ (cookie # None => cookie \in Owners)
    BY DEF IInv, TypeOK, Owners
  <2>1. overlapped => overlapped'
    BY DEF Next, vars, AddFromCatalogue, AddFromSlider, AddFromDetails, AddToCart,
       ServeKnown, ServeFresh, ServeError, AnswerOk, AnswerError, Lose, Expire, SignIn,
       SignOut, OpenSignIn, ClearPreferences
  <2>2. CASE overlapped'
    BY <2>2
  <2>3. CASE UNCHANGED vars
    BY <2>3 DEF vars
  <2>4. CASE ~overlapped /\ ~overlapped' /\ Next
    <3> USE <2>4
    <3>1. ASSUME NEW c \in Calls, ServeKnown(c) PROVE B!Next \/ TheBasket' = TheBasket
      <4>1. calls[c].to \in Owners /\ carts \in [Owners -> SUBSET Calls]
        BY <3>1 DEF ServeKnown, IInv, TypeOK, Alive, Owners
      <4>2. CASE cookie = calls[c].to
        <5>1. carts'[cookie] = carts[cookie] \union {c} /\ cookie' = cookie
          BY <3>1, <4>1, <4>2 DEF ServeKnown
        <5>2. cookie # None
          BY <4>1, <4>2 DEF Owners
        <5> QED BY <5>1, <5>2
      <4>3. CASE cookie # calls[c].to
        BY <2>0, <3>1, <4>1, <4>3 DEF ServeKnown
      <4> QED BY <4>2, <4>3
    <3>2. ASSUME NEW c \in Calls, NEW s \in Sessions, ServeFresh(c, s)
          PROVE  TheBasket' = TheBasket
      <4>1. cookie # s
        BY <3>2 DEF ServeFresh, IInv, SessionsInv
      <4> QED BY <2>0, <3>2, <4>1 DEF ServeFresh, TypeOK
    <3>3. ASSUME NEW s \in Sessions, Expire(s) PROVE B!Next \/ TheBasket' = TheBasket
      BY <2>0, <3>3 DEF Expire, TypeOK
    <3>4. ASSUME NEW c \in Calls, AnswerOk(c) PROVE B!Next \/ TheBasket' = TheBasket
      <4>1. CASE calls[c].to # None
        BY <3>4, <4>1 DEF AnswerOk
      <4>2. CASE calls[c].to = None
        <5>1. Opening(c) /\ calls[c].pc = "ok"
          BY <3>4, <4>2 DEF AnswerOk, Opening, InFlight
        <5>2. cookie = None /\ cookie' = calls[c].into /\ carts' = carts
          BY <3>4, <4>2, <5>1 DEF AnswerOk, IInv, RaceInv
        <5>3. calls[c].into # None /\ calls[c].into \in Owners
          BY <5>1, <2>0 DEF IInv, SessionsInv, TypeOK, Call
        <5>4. \A d \in carts[calls[c].into] : d = c
          BY <5>1, <5>3, <2>0 DEF IInv, FreshInv, CartsInv, TypeOK
        <5>5. carts[calls[c].into] = {} \/ carts[calls[c].into] = {c}
          BY <5>4
        <5> QED BY <5>2, <5>3, <5>5
      <4> QED BY <4>1, <4>2
    <3>5. CASE SignOut \/ OpenSignIn
      BY <3>5 DEF SignOut, OpenSignIn, ClearPreferences
    <3>6. ASSUME NEW c \in Calls, AddToCart(c) \/ ServeError(c) \/ AnswerError(c) \/ Lose(c)
          PROVE  TheBasket' = TheBasket
      BY <3>6 DEF AddToCart, ServeError, AnswerError, Lose
    <3>7. ASSUME NEW u \in Users, SignIn(u) PROVE TheBasket' = TheBasket
      BY <3>7 DEF SignIn
    <3> QED
      BY <3>1, <3>2, <3>3, <3>4, <3>5, <3>6, <3>7
      DEF Next, AddFromCatalogue, AddFromSlider, AddFromDetails
  <2> QED BY <2>1, <2>2, <2>3, <2>4
<1> QED BY <1>1, <1>2, Invariance, PTL
        DEF Spec, BasketSpec, B!Spec
=============================================================================
