-------------------------- MODULE Customer_proofs --------------------------
(***************************************************************************)
(* The two components of a customer who is signed in that share no state:  *)
(* the preferences that make the customer one, and the wishlist.           *)
(*                                                                         *)
(* Preferences.  A sign-in survives a crash whole or not at all, for every *)
(* number of keys, customers and sign-ins, and whatever is still on its    *)
(* way to the device.  The invariant (IInv) carries the two statements     *)
(* about a version of the preferences (Good) over to every version the     *)
(* device is still to go through; a step then either adds versions made by *)
(* one sign-in, which are without a token up to the last, or moves along   *)
(* the queue.                                                              *)
(*                                                                         *)
(* Wishlist.  What a shopper means and what the shop holds differ by the   *)
(* one change under way (Due), whichever pages come and go meanwhile.  The *)
(* invariant (WishInv) relates the requests to the stack: a request knows  *)
(* a wishlist page that is still there, or none; a page has one list under *)
(* way at most, and no rows until that has come; a removal whose page was  *)
(* never covered is waited for by the page on top; and every entry that a  *)
(* page or a request knows is on the list, in the cart, or was taken off   *)
(* by its own row (Ever).                                                  *)
(***************************************************************************)
EXTENDS Session, Wishlist, FiniteSetTheorems, SequenceTheorems, TLAPS

-----------------------------------------------------------------------------
(* The preferences                                                         *)

LEMMA EmptyGood == Empty \in Prefs /\ Good(Empty)
  BY ProfileAssumption
  DEF Empty, Prefs, Good, Complete, OfOne, Signed, Token, Keys

\* The keys of a whole sign-in are all the customer's.
LEMMA WholeGood ==
  ASSUME NEW u \in Users
  PROVE  Whole(u) \in Prefs /\ Good(Whole(u))
  BY ProfileAssumption, NoneAssumption
  DEF Whole, Prefs, Good, Complete, OfOne, Signed, Token, Keys

\* A customer is signed in only once the last of the versions is there.
LEMMA VersionGood ==
  ASSUME TypeOK, Good(cache), NEW u \in Users, NEW i \in Keys,
         ~over => cache[Token] \in {None, u}
  PROVE  Version(u, i) \in Prefs /\ Good(Version(u, i))
<1>1. Version(u, i) \in Prefs
  BY DEF Version, Prefs, TypeOK
<1>2. CASE i = Token
  <2>1. Version(u, i) = Whole(u)
    BY <1>2, ProfileAssumption DEF Version, Whole, Keys, Token
  <2>. QED BY <2>1, WholeGood
<1>3. CASE i # Token
  <2>1. Token \in Keys /\ ~(Token <= i)
    BY <1>3, ProfileAssumption DEF Keys, Token
  <2>2. Version(u, i)[Token] = cache[Token]
    BY <2>1 DEF Version
  <2>3. Complete(Version(u, i))
    BY <2>2, NoneAssumption DEF Complete, Signed, Good, Version
  <2>4. ASSUME ~over PROVE OfOne(Version(u, i))
    <3>1. CASE cache[Token] = None
      BY <3>1, <2>2 DEF OfOne, Signed
    <3>2. CASE cache[Token] = u
      <4>1. cache = Whole(u)
        BY <3>2, <2>4, NoneAssumption DEF Good, OfOne, Signed
      <4>2. Version(u, i) = Whole(u)
        BY <4>1 DEF Version, Whole
      <4>. QED BY <4>2, <2>2, <3>2 DEF OfOne
    <3>. QED BY <3>1, <3>2, <2>4
  <2>. QED BY <1>1, <2>3, <2>4 DEF Good
<1>. QED BY <1>2, <1>3

LEMMA InitInv == Init => IInv
<1>. SUFFICES ASSUME Init PROVE IInv
  OBVIOUS
<1>1. pending \in Seq(Prefs) /\ DOMAIN pending = {}
  BY DEF Init
<1>2. cache \in Prefs /\ disk \in Prefs /\ Good(cache) /\ Good(disk)
  BY EmptyGood DEF Init
<1>. QED BY <1>1, <1>2 DEF Init, IInv, TypeOK

LEMMA StepLoginOk ==
  ASSUME IInv, NEW c \in Calls, LoginOk(c)
  PROVE  IInv'
<1>. DEFINE u == calls[c]
            versions == [i \in Keys |-> Version(u, i)]
<1>1. u \in Users
  BY DEF LoginOk, IInv, TypeOK
<1>2. CASE cache[Token] \in {None, u} \/ over
  <2>1. over' = over
    BY <1>2 DEF LoginOk, IInv, TypeOK
  <2>2. \A i \in Keys : Version(u, i) \in Prefs /\ Good(Version(u, i))
    BY <1>1, <1>2, VersionGood DEF IInv
  <2>3. versions \in Seq(Prefs) /\ Len(versions) = Token /\ DOMAIN versions = Keys
    BY <2>2, ProfileAssumption DEF Keys, Token
  <2>4. pending' = pending \o versions
    BY DEF LoginOk, Write
  <2>5. pending' \in Seq(Prefs)
    BY <2>3, <2>4 DEF IInv, TypeOK
  <2>6. \A i \in DOMAIN pending' : Good(pending'[i])
    <3>1. ASSUME NEW i \in DOMAIN pending'
          PROVE  \/ i \in DOMAIN pending /\ pending'[i] = pending[i]
                 \/ \E j \in Keys : pending'[i] = versions[j]
      BY <3>1, <2>3, <2>4, ProfileAssumption DEF IInv, TypeOK, Keys, Token
    <3>. QED BY <3>1, <2>2 DEF IInv
  <2>7. cache' \in Prefs /\ Good(cache')
    BY <1>1, WholeGood DEF LoginOk
  <2>8. disk' = disk /\ calls' \in [Calls -> Users \union {None}] /\ over' \in BOOLEAN
    BY DEF LoginOk, IInv, TypeOK
  <2>. QED BY <2>1, <2>5, <2>6, <2>7, <2>8 DEF IInv, TypeOK, Good
<1>3. CASE ~over /\ cache[Token] \notin {None, u}
  <2>1. over' = TRUE
    BY <1>3 DEF LoginOk
  <2>2. \A i \in Keys : Version(u, i) \in Prefs /\ Complete(Version(u, i))
    <3>1. Complete(cache) /\ cache \in Prefs
      BY DEF IInv, Good, TypeOK
    <3>2. Signed(cache)
      BY <1>3 DEF Signed
    <3>3. \A k \in Keys : cache[k] # None
      BY <3>1, <3>2 DEF Complete
    <3>. QED BY <1>1, <3>1, <3>3, NoneAssumption DEF Version, Prefs, Complete
  <2>3. versions \in Seq(Prefs) /\ Len(versions) = Token /\ DOMAIN versions = Keys
    BY <2>2, ProfileAssumption DEF Keys, Token
  <2>4. pending' = pending \o versions
    BY DEF LoginOk, Write
  <2>5. pending' \in Seq(Prefs)
    BY <2>3, <2>4 DEF IInv, TypeOK
  <2>6. \A i \in DOMAIN pending' : Complete(pending'[i])
    <3>1. ASSUME NEW i \in DOMAIN pending'
          PROVE  \/ i \in DOMAIN pending /\ pending'[i] = pending[i]
                 \/ \E j \in Keys : pending'[i] = versions[j]
      BY <3>1, <2>3, <2>4, ProfileAssumption DEF IInv, TypeOK, Keys, Token
    <3>. QED BY <3>1, <2>2 DEF IInv, Good
  <2>7. cache' \in Prefs /\ Complete(cache')
    BY <1>1, WholeGood DEF LoginOk, Good
  <2>8. disk' = disk /\ calls' \in [Calls -> Users \union {None}]
    BY DEF LoginOk, IInv, TypeOK
  <2>. QED BY <2>1, <2>5, <2>6, <2>7, <2>8 DEF IInv, TypeOK, Good
<1>. QED BY <1>2, <1>3

LEMMA StepClear ==
  ASSUME IInv, Clear
  PROVE  IInv'
<1>1. pending' = Append(pending, Empty)
  BY DEF Clear, Write, IInv, TypeOK
<1>2. pending' \in Seq(Prefs)
  BY <1>1, EmptyGood DEF IInv, TypeOK
<1>3. \A i \in DOMAIN pending' : Good(pending'[i])
  BY <1>1, EmptyGood DEF IInv, TypeOK
<1>. QED BY <1>2, <1>3, EmptyGood DEF Clear, IInv, TypeOK, Good

LEMMA StepFlush ==
  ASSUME IInv, Flush
  PROVE  IInv'
<1>1. pending \in Seq(Prefs) /\ pending # <<>>
  BY DEF Flush, IInv, TypeOK
<1>2. disk' \in Prefs /\ Good(disk')
  BY <1>1 DEF Flush, IInv
<1>3. pending' \in Seq(Prefs)
  BY <1>1 DEF Flush
<1>4. \A i \in DOMAIN pending' : Good(pending'[i])
  BY <1>1 DEF Flush, IInv
<1>. QED BY <1>2, <1>3, <1>4 DEF Flush, IInv, TypeOK, Good

LEMMA StepCrash ==
  ASSUME IInv, Crash
  PROVE  IInv'
  BY DEF Crash, IInv, TypeOK, Good

LEMMA Inductive == IInv /\ [Next]_vars => IInv'
<1>. SUFFICES ASSUME IInv, [Next]_vars PROVE IInv'
  OBVIOUS
<1>1. ASSUME NEW c \in Calls, NEW u \in Users, Login(c, u) PROVE IInv'
  BY <1>1 DEF Login, IInv, TypeOK, Good
<1>2. ASSUME NEW c \in Calls, LoginFails(c) PROVE IInv'
  BY <1>2 DEF LoginFails, IInv, TypeOK, Good
<1>3. CASE UNCHANGED vars
  BY <1>3 DEF vars, IInv, TypeOK, Good
<1>. QED BY <1>1, <1>2, <1>3, StepLoginOk, StepClear, StepFlush, StepCrash DEF Next

(***************************************************************************)
(* The inductive invariant, with the types of the variables in it.         *)
(***************************************************************************)
THEOREM Invariance == Spec => []IInv
  BY InitInv, Inductive, PTL DEF Spec

(***************************************************************************)
(* A token is never without a profile, in memory, on the device, or in     *)
(* what a crash brings back.                                               *)
(***************************************************************************)
THEOREM NoTokenAlone == Spec => []TokenHasProfile
<1>1. IInv => TokenHasProfile
  BY DEF IInv, Good, TokenHasProfile
<1>. QED BY <1>1, Invariance, PTL

(***************************************************************************)
(* The profile is the token's, unless someone signed in over a customer.   *)
(***************************************************************************)
THEOREM NoMixedProfile == Spec => []ProfileOfToken
<1>1. IInv => ProfileOfToken
  BY DEF IInv, Good, ProfileOfToken
<1>. QED BY <1>1, Invariance, PTL

-----------------------------------------------------------------------------
(* Lists without an element twice                                          *)

LEMMA ListFacts ==
  ASSUME NEW S, NEW s \in Seq(S)
  PROVE  /\ DOMAIN s = 1..Len(s) /\ Len(s) \in Nat
         /\ \A i \in DOMAIN s : s[i] \in S /\ s[i] \in ToSet(s)
         /\ ToSet(s) \subseteq S
<1>1. DOMAIN s = 1..Len(s) /\ Len(s) \in Nat /\ \A i \in DOMAIN s : s[i] \in S
  OBVIOUS
<1>. QED BY <1>1 DEF ToSet

LEMMA InjectiveCount ==
  ASSUME NEW S, NEW s \in Seq(S), IsInjective(s)
  PROVE  Cardinality(ToSet(s)) = Len(s)
<1>1. DOMAIN s = 1..Len(s) /\ Len(s) \in Nat
  BY ListFacts
<1>2. s \in [1..Len(s) -> ToSet(s)]
  BY <1>1, ListFacts
<1>3. s \in Bijection(1..Len(s), ToSet(s))
  BY <1>1, <1>2 DEF Bijection, Injection, Surjection, ToSet
<1>. QED BY <1>1, <1>3, FS_CountingElements DEF ExistsBijection

\* What is left when the element at i goes.
LEMMA RemoveAtFacts ==
  ASSUME NEW S, NEW s \in Seq(S), NEW i \in DOMAIN s
  PROVE  /\ RemoveAt(s, i) \in Seq(S)
         /\ DOMAIN RemoveAt(s, i) = 1..(Len(s) - 1)
         /\ \A j \in 1..(Len(s) - 1) : RemoveAt(s, i)[j] = IF j < i THEN s[j] ELSE s[j + 1]
<1>. DEFINE a == SubSeq(s, 1, i - 1)
            b == SubSeq(s, i + 1, Len(s))
<1>1. i \in 1..Len(s) /\ Len(s) \in Nat /\ \A j \in 1..Len(s) : s[j] \in S
  BY ListFacts
<1>2. /\ a \in Seq(S) /\ Len(a) = i - 1
      /\ \A j \in 1..(i - 1) : a[j] = s[j]
  <2>1. \A j \in 1..(i - 1) : s[j] \in S
    BY <1>1
  <2>. QED BY <1>1, <2>1, SubSeqProperties
<1>3. /\ b \in Seq(S) /\ Len(b) = Len(s) - i
      /\ \A j \in 1..(Len(s) - i) : b[j] = s[i + j]
  <2>1. \A j \in (i + 1)..Len(s) : s[j] \in S
    BY <1>1
  <2>2. /\ b \in Seq(S) /\ Len(b) = IF i + 1 <= Len(s) THEN Len(s) - (i + 1) + 1 ELSE 0
        /\ \A j \in 1..(Len(s) - (i + 1) + 1) : b[j] = s[(i + 1) + j - 1]
    BY <1>1, <2>1, SubSeqProperties
  <2>. QED BY <1>1, <2>2
<1>. HIDE DEF a, b
<1>. DEFINE c == a \o b
<1>4. /\ c \in Seq(S) /\ Len(c) = Len(a) + Len(b)
      /\ \A j \in 1..(Len(a) + Len(b)) : c[j] = IF j <= Len(a) THEN a[j] ELSE b[j - Len(a)]
  BY <1>2, <1>3, ConcatProperties
<1>. HIDE DEF c
<1>5. Len(c) = Len(s) - 1 /\ DOMAIN c = 1..(Len(s) - 1)
  BY <1>1, <1>2, <1>3, <1>4, LenProperties
<1>6. ASSUME NEW j \in 1..(Len(s) - 1)
      PROVE  c[j] = IF j < i THEN s[j] ELSE s[j + 1]
  <2>1. CASE j < i
    <3>1. j \in 1..(i - 1) /\ j <= i - 1 /\ j \in 1..(Len(a) + Len(b))
      BY <1>1, <1>2, <1>3, <2>1
    <3>2. c[j] = a[j]
      BY <1>2, <1>4, <3>1
    <3>. QED BY <1>2, <2>1, <3>1, <3>2
  <2>2. CASE ~(j < i)
    <3>1. j - (i - 1) \in 1..(Len(s) - i) /\ i + (j - (i - 1)) = j + 1
      BY <1>1, <2>2
    <3>2. j \in 1..(Len(a) + Len(b)) /\ ~(j <= Len(a)) /\ j - Len(a) = j - (i - 1)
      BY <1>1, <1>2, <1>3, <2>2
    <3>3. c[j] = b[j - (i - 1)]
      BY <1>4, <3>2
    <3>. QED BY <1>3, <2>2, <3>1, <3>3
  <2>. QED BY <2>1, <2>2
<1>7. RemoveAt(s, i) = c
  BY DEF RemoveAt, a, b, c
<1>. QED BY <1>4, <1>5, <1>6, <1>7

LEMMA WithoutFacts ==
  ASSUME NEW S, NEW s \in Seq(S), IsInjective(s), NEW p \in ToSet(s)
  PROVE  /\ Without(s, p) \in Seq(S) /\ IsInjective(Without(s, p))
         /\ ToSet(Without(s, p)) = ToSet(s) \ {p}
<1>. DEFINE i == CHOOSE i \in DOMAIN s : s[i] = p
            w == RemoveAt(s, i)
            from(j) == IF j < i THEN j ELSE j + 1
<1>1. i \in DOMAIN s /\ s[i] = p
  BY DEF ToSet
<1>2. Without(s, p) = w
  BY DEF Without
<1>3. DOMAIN s = 1..Len(s) /\ Len(s) \in Nat
  BY ListFacts
<1>. HIDE DEF i
<1>4. /\ w \in Seq(S) /\ DOMAIN w = 1..(Len(s) - 1)
      /\ \A j \in 1..(Len(s) - 1) : w[j] = IF j < i THEN s[j] ELSE s[j + 1]
  BY <1>1, RemoveAtFacts
<1>. HIDE DEF w
<1>5. \A j \in DOMAIN w : from(j) \in DOMAIN s \ {i} /\ w[j] = s[from(j)]
  BY <1>1, <1>3, <1>4
<1>6. \A j, k \in DOMAIN w : from(j) = from(k) => j = k
  BY <1>1, <1>3, <1>4
<1>7. ASSUME NEW k \in DOMAIN s \ {i}
      PROVE  \E j \in DOMAIN w : from(j) = k
  <2>1. CASE k < i
    <3>1. k \in DOMAIN w /\ from(k) = k
      BY <1>1, <1>3, <1>4, <2>1
    <3>. QED BY <3>1
  <2>2. CASE k > i
    <3>1. k - 1 \in DOMAIN w /\ from(k - 1) = k
      BY <1>1, <1>3, <1>4, <2>2
    <3>. QED BY <3>1
  <2>. QED BY <1>1, <1>3, <2>1, <2>2
<1>. HIDE DEF from
<1>8. IsInjective(w)
  BY <1>5, <1>6 DEF IsInjective
<1>9. ToSet(w) = ToSet(s) \ {p}
  <2>1. \A x \in ToSet(w) : x \in ToSet(s) /\ x # p
    BY <1>1, <1>5 DEF ToSet, IsInjective
  <2>2. \A x \in ToSet(s) \ {p} : x \in ToSet(w)
    BY <1>1, <1>5, <1>7 DEF ToSet
  <2>. QED BY <2>1, <2>2
<1>. QED BY <1>2, <1>4, <1>8, <1>9

LEMMA AppendFacts ==
  ASSUME NEW S, NEW s \in Seq(S), IsInjective(s), NEW x \in S, x \notin ToSet(s)
  PROVE  /\ Append(s, x) \in Seq(S) /\ IsInjective(Append(s, x))
         /\ ToSet(Append(s, x)) = ToSet(s) \union {x}
<1>. DEFINE w == Append(s, x)
            n == Len(s)
<1>1. DOMAIN s = 1..n /\ n \in Nat
  BY ListFacts
<1>2. /\ w \in Seq(S) /\ Len(w) = n + 1 /\ w[n + 1] = x /\ \A i \in 1..n : w[i] = s[i]
      /\ DOMAIN w = 1..(n + 1)
  BY <1>1, AppendProperties, LenProperties
<1>. HIDE DEF w
<1>3. \A i \in 1..n : s[i] # x
  BY <1>1 DEF ToSet
<1>4. IsInjective(w)
  BY <1>1, <1>2, <1>3 DEF IsInjective
<1>5. ToSet(w) = ToSet(s) \union {x}
  BY <1>1, <1>2 DEF ToSet
<1>. QED BY <1>2, <1>4, <1>5 DEF w

-----------------------------------------------------------------------------
(* The invariant of the wishlist                                           *)

AnyPage == WishPage \union {Other, Error}
Changes(r) == r # Idle /\ r.kind \in Changing
Unserved(r) == Changes(r) /\ r.pc = "sent"

\* A page draws nothing or its copy.
PagesInv ==
  \A k \in DOMAIN pages :
    pages[k].kind = "wish" => pages[k].shown \in {<<>>, pages[k].have}

\* A request knows its page; a list is fetched once, for a page without rows.
ReqOk(r, ps, tr) ==
  /\ r.page <= Len(ps)
  /\ r.kind \in {"list", "trash"} /\ r.page # 0 => ps[r.page].kind = "wish"
  /\ r.kind = "list" /\ r.page # 0 => ps[r.page].have = <<>>
  /\ r.kind = "heart" => r.of \in Products
  /\ r.kind \in {"cart", "trash"} => r.of \in Nat
  /\ r.kind = "trash" => r.of \in tr

ReqsInv == \A q \in Slots : Busy(q) => ReqOk(reqs[q], pages, trashed)

ListsInv ==
  \A q, r \in Slots :
    /\ Busy(q) /\ reqs[q].kind = "list" /\ reqs[q].page # 0
    /\ Busy(r) /\ reqs[r].kind = "list" /\ reqs[r].page = reqs[q].page
    => q = r

LeftInv ==
  ~left => /\ lost = 0
           /\ \A q \in Slots :
                Busy(q) /\ reqs[q].kind = "trash" /\ reqs[q].page # 0 =>
                  reqs[q].page = Len(pages)

\* No product is on the list twice.
OnceInv == IsInjective(wish) /\ \A e, f \in ToSet(wish) : made[e] = made[f] => e = f

\* An entry a page or an answer knows is on the list, in the cart, or was taken
\* off by its own row.
Ever == ToSet(wish) \union cart \union trashed

EverInv ==
  /\ \A k \in DOMAIN pages : pages[k].kind = "wish" => ToSet(pages[k].have) \subseteq Ever
  /\ \A q \in Slots : Busy(q) => /\ ToSet(reqs[q].rows) \subseteq Ever
                                 /\ reqs[q].kind = "cart" => reqs[q].of \in Ever

\* A move that was answered is of an entry that has left the list.
ToldInv ==
  faults = 0 =>
    /\ told \subseteq cart \union trashed
    /\ \A q \in Slots : Busy(q) /\ reqs[q].kind = "cart" /\ reqs[q].pc # "sent" =>
         reqs[q].of \in cart \union trashed

\* The products of the entries in S.
Of(m, S) == {m[e] : e \in S}

\* When the shop has carried out r, or refused what cannot be, its wishlist w
\* and its cart c will be what is meant.
Due(r, m, w, c, wantedList, wantedCart) ==
  /\ wantedList = IF r.kind = "heart" THEN Of(m, ToSet(w)) \union {r.of}
                                      ELSE Of(m, ToSet(w)) \ Of(m, ToSet(w) \intersect {r.of})
  /\ wantedCart = IF r.kind = "cart" THEN c \union (ToSet(w) \intersect {r.of}) ELSE c

\* A shopper who makes one change at a time has one under way at most.
MeantInv ==
  ~hasty /\ faults = 0 =>
    /\ \A q, r \in Slots : Changes(reqs[q]) /\ Changes(reqs[r]) => q = r
    /\ \A q \in Slots : Unserved(reqs[q]) =>
         Due(reqs[q], made, wish, cart, wishMeant, cartMeant)
    /\ (\A q \in Slots : ~Unserved(reqs[q])) => Wished = wishMeant /\ cart = cartMeant

WishInv ==
  /\ WishTypeOK /\ OnceInv
  /\ PagesInv /\ ReqsInv /\ ListsInv /\ LeftInv
  /\ EverInv /\ ToldInv /\ MeantInv

LEMMA InitWish == WishInit => WishInv
<1>. SUFFICES ASSUME WishInit PROVE WishInv
  OBVIOUS
<1>0. /\ cart = {} /\ told = {} /\ trashed = {} /\ wishMeant = Wished /\ cartMeant = {}
      /\ wish = [e \in DOMAIN made |-> e]
      /\ pages = <<Other>> /\ reqs = [q \in Slots |-> Idle]
      /\ taps = 0 /\ faults = 0 /\ lost = 0 /\ hasty = FALSE /\ left = FALSE
  BY DEF WishInit
<1>1. made \in Seq(Products) /\ IsInjective(made)
  <2>1. PICK n \in 0..Cardinality(Products) : made \in {f \in [1..n -> Products] : IsInjective(f)}
    BY DEF WishInit
  <2>2. n \in Nat
    BY FS_CardinalityType, BoundsAssumption
  <2>. QED BY <2>1, <2>2, SeqDef
<1>2. /\ wish \in Seq(Nat) /\ Len(wish) = Len(made) /\ ToSet(wish) = DOMAIN made
      /\ OnceInv /\ Wished \subseteq Products /\ Cardinality(Wished) = Len(wish)
  <2>1. DOMAIN made = 1..Len(made) /\ Len(made) \in Nat /\ \A i \in DOMAIN made : made[i] \in Products
    BY <1>1, ListFacts
  <2>2. wish \in Seq(Nat) /\ Len(wish) = Len(made)
    BY <1>0, <2>1
  <2>3. DOMAIN wish = DOMAIN made /\ \A e \in DOMAIN made : wish[e] = e
    BY <1>0
  <2>4. ToSet(wish) = DOMAIN made
    BY <2>3 DEF ToSet
  <2>5. OnceInv
    BY <1>1, <2>3, <2>4 DEF OnceInv, IsInjective
  <2>6. Wished = ToSet(made)
    BY <2>4 DEF Wished, ToSet
  <2>7. Cardinality(ToSet(made)) = Len(made)
    BY <1>1, InjectiveCount
  <2>. QED BY <1>1, <2>2, <2>4, <2>5, <2>6, <2>7, ListFacts
<1>3. WishTypeOK
  <2>1. pages \in Seq(WishPage \union {Other, Error}) /\ Len(pages) \in 1..MaxPages
    BY <1>0, BoundsAssumption
  <2>2. taps \in 0..MaxTaps /\ faults \in 0..MaxFaults /\ lost \in Nat
    BY <1>0, BoundsAssumption
  <2>3. hasty \in BOOLEAN /\ left \in BOOLEAN
    BY <1>0, Zenon
  <2>. QED BY <1>0, <1>1, <1>2, <2>1, <2>2, <2>3 DEF WishTypeOK
<1>4. PagesInv
  BY <1>0 DEF PagesInv, Other
<1>5. \A q \in Slots : ~Busy(q)
  BY <1>0 DEF Busy
<1>6. ReqsInv /\ ListsInv /\ LeftInv
  BY <1>0, <1>5 DEF ReqsInv, ListsInv, LeftInv
<1>7. MeantInv
  BY <1>0 DEF MeantInv, Changes, Unserved
<1>8. EverInv /\ ToldInv
  BY <1>0, <1>5 DEF EverInv, ToldInv, Other
<1>. QED BY <1>2, <1>3, <1>4, <1>6, <1>7, <1>8 DEF WishInv

-----------------------------------------------------------------------------
(* Steps                                                                   *)

LEMMA WishFacts ==
  ASSUME WishInv
  PROVE  /\ pages \in Seq(AnyPage) /\ DOMAIN pages = 1..Len(pages)
         /\ Len(pages) \in 1..MaxPages /\ Len(pages) \in Nat /\ MaxPages \in Nat
         /\ \A k \in 1..Len(pages) : pages[k] \in AnyPage
         /\ Top = pages[Len(pages)] /\ Top \in AnyPage
         /\ reqs \in [Slots -> {Idle} \union Request]
         /\ \A q \in Slots : Busy(q) => /\ reqs[q] \in Request /\ ReqOk(reqs[q], pages, trashed)
                                        /\ reqs[q].page \in 0..Len(pages)
         /\ taps \in 0..MaxTaps /\ faults \in 0..MaxFaults /\ lost \in Nat
         /\ MaxTaps \in Nat /\ MaxFaults \in Nat
<1>. USE DEF WishInv, WishTypeOK
<1>1. MaxPages \in Nat /\ MaxTaps \in Nat /\ MaxFaults \in Nat
  BY BoundsAssumption
<1>2. /\ pages \in Seq(AnyPage) /\ Len(pages) \in 1..MaxPages /\ Len(pages) \in Nat
      /\ DOMAIN pages = 1..Len(pages) /\ \A k \in 1..Len(pages) : pages[k] \in AnyPage
  BY <1>1 DEF AnyPage
<1>3. Top = pages[Len(pages)]
  BY DEF Top, Last
<1>4. \A q \in Slots : Busy(q) => reqs[q] \in Request /\ ReqOk(reqs[q], pages, trashed)
  BY DEF Busy, ReqsInv
<1>5. \A q \in Slots : Busy(q) => reqs[q].page \in 0..Len(pages)
  BY <1>1, <1>2, <1>4 DEF Request, ReqOk
<1>. QED BY <1>1, <1>2, <1>3, <1>4, <1>5

\* The kinds of pages.
LEMMA PageKinds ==
  /\ \A k \in AnyPage : k.kind \in {"wish", "other", "error"}
  /\ \A k \in AnyPage : k.kind = "wish" => k \in WishPage
  /\ Other \in AnyPage /\ Error \in AnyPage /\ NewWishPage \in AnyPage
  /\ Other.kind = "other" /\ Error.kind = "error" /\ NewWishPage.kind = "wish"
  /\ NewWishPage.have = <<>> /\ NewWishPage.shown = <<>>
BY DEF AnyPage, WishPage, Other, Error, NewWishPage

\* What is meant, while the requests stay the changes they are or end.
LEMMA MeantFrame ==
  ASSUME WishInv, UNCHANGED <<made, wish, cart, meant>>,
         faults' = 0 => faults = 0,
         \A q \in Slots : Changes(reqs'[q]) =>
           /\ Changes(reqs[q]) /\ reqs'[q].kind = reqs[q].kind
           /\ reqs'[q].of = reqs[q].of /\ reqs'[q].pc = reqs[q].pc,
         faults' = 0 => \A q \in Slots : Unserved(reqs[q]) => Unserved(reqs'[q])
  PROVE  MeantInv'
<1>. SUFFICES ASSUME ~hasty, faults' = 0
     PROVE  /\ \A q, r \in Slots : Changes(reqs'[q]) /\ Changes(reqs'[r]) => q = r
            /\ \A q \in Slots : Unserved(reqs'[q]) =>
                 Due(reqs'[q], made, wish, cart, wishMeant, cartMeant)
            /\ (\A q \in Slots : ~Unserved(reqs'[q])) => Wished = wishMeant /\ cart = cartMeant
  BY DEF MeantInv, Changes, Unserved, meant, Wished
<1>1. /\ \A q, r \in Slots : Changes(reqs[q]) /\ Changes(reqs[r]) => q = r
      /\ \A q \in Slots : Unserved(reqs[q]) =>
           Due(reqs[q], made, wish, cart, wishMeant, cartMeant)
      /\ (\A q \in Slots : ~Unserved(reqs[q])) => Wished = wishMeant /\ cart = cartMeant
  BY DEF WishInv, MeantInv
<1>2. \A q \in Slots : Unserved(reqs'[q]) => Unserved(reqs[q])
  BY DEF Unserved
<1>3. \A q \in Slots : Unserved(reqs'[q]) =>
        Due(reqs'[q], made, wish, cart, wishMeant, cartMeant)
  BY <1>1, <1>2 DEF Due, Unserved
<1>. QED BY <1>1, <1>2, <1>3

\* The list stays.
LEMMA ListFrame ==
  ASSUME WishInv, UNCHANGED <<made, wish>>
  PROVE  /\ OnceInv' /\ Wished' = Wished /\ made' \in Seq(Products) /\ wish' \in Seq(Nat)
         /\ ToSet(wish') \subseteq DOMAIN made' /\ Cardinality(Wished') = Len(wish')
<1>1. Wished' = Wished
  BY DEF Wished
<1>. QED BY <1>1 DEF WishInv, OnceInv, WishTypeOK

\* Entries stay known: the pages keep their copies, requests stay or end, and
\* what is new knows none.
LEMMA EverFrame ==
  ASSUME WishInv, Ever \subseteq Ever',
         \A k \in DOMAIN pages' : pages'[k].kind = "wish" =>
           \/ pages'[k].have = <<>>
           \/ \E j \in DOMAIN pages : pages[j].kind = "wish" /\ pages'[k].have = pages[j].have,
         \A q \in Slots : reqs'[q] # Idle =>
           \/ /\ Busy(q) /\ reqs'[q].kind = reqs[q].kind
              /\ reqs'[q].of = reqs[q].of /\ reqs'[q].rows = reqs[q].rows
           \/ reqs'[q].rows = <<>> /\ (reqs'[q].kind = "cart" => reqs'[q].of \in Ever)
  PROVE  EverInv'
<1>1. \A k \in DOMAIN pages' : pages'[k].kind = "wish" => ToSet(pages'[k].have) \subseteq Ever'
  BY DEF WishInv, EverInv, ToSet
<1>2. \A q \in Slots : reqs'[q] # Idle => /\ ToSet(reqs'[q].rows) \subseteq Ever'
                                          /\ reqs'[q].kind = "cart" => reqs'[q].of \in Ever'
  BY DEF WishInv, EverInv, ToSet
<1>. QED BY <1>1, <1>2 DEF EverInv, Busy

\* What was told stays so, while no move is answered.
LEMMA ToldFrame ==
  ASSUME WishInv, cart \subseteq cart', trashed \subseteq trashed', faults' = 0 => faults = 0,
         faults' = 0 => told' \subseteq cart' \union trashed',
         \A q \in Slots : reqs'[q] # Idle /\ reqs'[q].kind = "cart" /\ reqs'[q].pc # "sent" =>
           /\ Busy(q) /\ reqs'[q].kind = reqs[q].kind
           /\ reqs'[q].of = reqs[q].of /\ reqs'[q].pc = reqs[q].pc
  PROVE  ToldInv'
BY DEF WishInv, ToldInv, Busy

\* What the requests know of the pages, while both stay or requests end.
LEMMA ShapeFrame ==
  ASSUME WishInv, pages' = pages, left' = left, lost' = lost, trashed \subseteq trashed',
         \A q \in Slots : reqs'[q] # Idle =>
           /\ Busy(q) /\ reqs'[q].kind = reqs[q].kind
           /\ reqs'[q].page = reqs[q].page /\ reqs'[q].of = reqs[q].of
  PROVE  PagesInv' /\ ReqsInv' /\ ListsInv' /\ LeftInv'
<1>. USE DEF WishInv
<1>1. PagesInv'
  BY DEF PagesInv
<1>2. ReqsInv'
  <2>1. \A q \in Slots : reqs'[q] # Idle => ReqOk(reqs'[q], pages', trashed')
    BY DEF ReqsInv, ReqOk
  <2>. QED BY <2>1 DEF ReqsInv, Busy
<1>3. ListsInv'
  BY DEF ListsInv, Busy
<1>4. LeftInv'
  BY DEF LeftInv, Busy
<1>. QED BY <1>1, <1>2, <1>3, <1>4

\* A page is pushed, and requests end.  A wishlist page that is covered while
\* it waits for a removal has been left.
LEMMA PushFrame ==
  ASSUME WishInv, NEW page \in AnyPage, page.kind = "wish" => page.shown = <<>>,
         pages' = Append(pages, page), Covered, lost' = lost, trashed' = trashed,
         Len(pages) < MaxPages,
         NEW R, R \subseteq Slots,
         \A q \in R : reqs'[q] # Idle => reqs'[q] = reqs[q]
  PROVE  /\ pages' \in Seq(AnyPage) /\ Len(pages') = Len(pages) + 1
         /\ Len(pages') \in 1..MaxPages /\ left' \in BOOLEAN
         /\ pages'[Len(pages) + 1] = page /\ \A k \in 1..Len(pages) : pages'[k] = pages[k]
         /\ PagesInv'
         /\ \A q \in R : reqs'[q] # Idle => ReqOk(reqs'[q], pages', trashed')
         /\ \A q, r \in R :
              /\ reqs'[q] # Idle /\ reqs'[q].kind = "list" /\ reqs'[q].page # 0
              /\ reqs'[r] # Idle /\ reqs'[r].kind = "list" /\ reqs'[r].page = reqs'[q].page
              => q = r
         /\ ~left' => /\ lost' = 0
                      /\ \A q \in R : reqs'[q] # Idle /\ reqs'[q].kind = "trash" => reqs'[q].page = 0
<1>. DEFINE n == Len(pages)
<1>1. n \in Nat /\ n < MaxPages /\ MaxPages \in Nat
  BY WishFacts
<1>2. /\ pages' \in Seq(AnyPage) /\ Len(pages') = n + 1 /\ pages'[n + 1] = page
      /\ \A k \in 1..n : pages'[k] = pages[k]
      /\ DOMAIN pages' = 1..(n + 1)
  BY WishFacts, AppendProperties, LenProperties
<1>3. PagesInv'
  <2>1. \A k \in 1..(n + 1) : pages'[k].kind = "wish" => pages'[k].shown \in {<<>>, pages'[k].have}
    BY <1>1, <1>2, WishFacts DEF WishInv, PagesInv
  <2>. QED BY <1>2, <2>1 DEF PagesInv
<1>4. left' = (left \/ (Top.kind = "wish" /\ Waiting(n)))
  BY DEF Covered
<1>5. left' \in BOOLEAN
  BY <1>4, Zenon
<1>6. ASSUME NEW q \in R, reqs'[q] # Idle PROVE ReqOk(reqs'[q], pages', trashed')
  <2>1. reqs'[q] = reqs[q] /\ Busy(q) /\ ReqOk(reqs[q], pages, trashed) /\ reqs[q].page \in 0..n
    BY <1>6, WishFacts DEF Busy
  <2>2. reqs[q].page # 0 => pages'[reqs[q].page] = pages[reqs[q].page]
    BY <1>2, <2>1
  <2>. QED BY <1>1, <1>2, <2>1, <2>2 DEF ReqOk
<1>7. ASSUME NEW q \in R, NEW r \in R,
             reqs'[q] # Idle, reqs'[q].kind = "list", reqs'[q].page # 0,
             reqs'[r] # Idle, reqs'[r].kind = "list", reqs'[r].page = reqs'[q].page
      PROVE  q = r
  BY <1>7 DEF WishInv, ListsInv, Busy
<1>8. ASSUME ~left'
      PROVE  /\ lost' = 0
             /\ \A q \in R : reqs'[q] # Idle /\ reqs'[q].kind = "trash" => reqs'[q].page = 0
  <2>1. ~left /\ ~(Top.kind = "wish" /\ Waiting(n))
    BY <1>4, <1>8, Zenon
  <2>2. ASSUME NEW q \in R, reqs'[q] # Idle, reqs'[q].kind = "trash", reqs'[q].page # 0
        PROVE  FALSE
    <3>1. Busy(q) /\ reqs[q].kind = "trash" /\ reqs[q].page # 0 /\ ReqOk(reqs[q], pages, trashed)
      BY <2>2, WishFacts DEF Busy
    <3>2. reqs[q].page = n
      BY <2>1, <3>1 DEF WishInv, LeftInv
    <3>3. Top.kind = "wish"
      BY <3>1, <3>2, WishFacts DEF ReqOk
    <3>4. Waiting(n)
      BY <3>1, <3>2 DEF Waiting
    <3>. QED BY <2>1, <3>3, <3>4
  <2>. QED BY <2>1, <2>2 DEF WishInv, LeftInv
<1>. QED BY <1>1, <1>2, <1>3, <1>5, <1>6, <1>7, <1>8

\* A page without a copy is pushed, requests stay, end, or are for lists.
LEMMA PushedEver ==
  ASSUME WishInv, NEW page \in AnyPage, page.kind = "wish" => page.have = <<>>,
         pages' = Append(pages, page),
         UNCHANGED <<wish, cart, trashed>>,
         faults' = 0 => faults = 0,
         faults' = 0 => told' \subseteq cart' \union trashed',
         \A q \in Slots : reqs'[q] # Idle =>
           \/ reqs'[q] = reqs[q]
           \/ reqs'[q].rows = <<>> /\ reqs'[q].kind = "list"
  PROVE  EverInv' /\ ToldInv'
<1>1. /\ DOMAIN pages' = 1..(Len(pages) + 1) /\ pages'[Len(pages) + 1] = page
      /\ \A k \in 1..Len(pages) : pages'[k] = pages[k]
      /\ Len(pages) \in Nat /\ DOMAIN pages = 1..Len(pages)
  BY WishFacts, AppendProperties, LenProperties
<1>2. Ever' = Ever
  BY DEF Ever
<1>3. EverInv'
  <2>1. \A k \in DOMAIN pages' : pages'[k].kind = "wish" =>
           \/ pages'[k].have = <<>>
           \/ \E j \in DOMAIN pages : pages[j].kind = "wish" /\ pages'[k].have = pages[j].have
    BY <1>1
  <2>2. \A q \in Slots : reqs'[q] # Idle =>
           \/ /\ Busy(q) /\ reqs'[q].kind = reqs[q].kind
              /\ reqs'[q].of = reqs[q].of /\ reqs'[q].rows = reqs[q].rows
           \/ reqs'[q].rows = <<>> /\ (reqs'[q].kind = "cart" => reqs'[q].of \in Ever)
    BY DEF Busy
  <2>. QED BY <1>2, <2>1, <2>2, EverFrame
<1>4. ToldInv'
  BY ToldFrame DEF Busy
<1>. QED BY <1>3, <1>4

LEMMA StepOpenWishlist ==
  ASSUME WishInv, NEW q \in Slots, OpenWishlist(q)
  PROVE  WishInv'
<1>. DEFINE n == Len(pages)
            x == Sent("list", n + 1, 0)
            R == Slots \ {q}
<1>1. /\ ~Busy(q) /\ n < MaxPages /\ pages' = Append(pages, NewWishPage) /\ Covered
      /\ reqs' = [reqs EXCEPT ![q] = x]
      /\ UNCHANGED <<made, wish, cart, taps, faults, told, trashed, meant, lost>>
  BY DEF OpenWishlist, shop
<1>2. /\ x \in Request /\ x # Idle /\ x.kind = "list" /\ x.page = n + 1 /\ x.pc = "sent" /\ ~Changes(x)
      /\ x.rows = <<>>
  BY <1>1, WishFacts DEF Sent, Request, Idle, Changes, Changing
<1>. HIDE DEF x
<1>3. reqs'[q] = x /\ \A r \in R : reqs'[r] = reqs[r]
  BY <1>1, WishFacts
<1>4. /\ pages' \in Seq(AnyPage) /\ Len(pages') = n + 1 /\ Len(pages') \in 1..MaxPages
      /\ left' \in BOOLEAN /\ pages'[n + 1] = NewWishPage
      /\ PagesInv'
      /\ \A r \in R : reqs'[r] # Idle => ReqOk(reqs'[r], pages', trashed')
      /\ \A r, t \in R :
           /\ reqs'[r] # Idle /\ reqs'[r].kind = "list" /\ reqs'[r].page # 0
           /\ reqs'[t] # Idle /\ reqs'[t].kind = "list" /\ reqs'[t].page = reqs'[r].page
           => r = t
      /\ ~left' => /\ lost' = 0
                   /\ \A r \in R : reqs'[r] # Idle /\ reqs'[r].kind = "trash" => reqs'[r].page = 0
  BY <1>1, <1>3, PageKinds, PushFrame
<1>5. ReqOk(x, pages', trashed')
  BY <1>2, <1>4, PageKinds DEF ReqOk, Changing
<1>6. ReqsInv'
  BY <1>3, <1>4, <1>5 DEF ReqsInv, Busy
<1>7. ListsInv'
  <2>1. \A r \in R : reqs'[r] # Idle => reqs'[r].page # n + 1
    BY <1>3, WishFacts DEF Busy
  <2>. QED BY <1>2, <1>3, <1>4, <2>1 DEF ListsInv, Busy
<1>8. LeftInv'
  BY <1>2, <1>3, <1>4 DEF LeftInv, Busy
<1>9. MeantInv'
  <2>1. \A r \in Slots : Changes(reqs'[r]) => reqs'[r] = reqs[r] /\ Changes(reqs[r])
    BY <1>2, <1>3
  <2>2. \A r \in Slots : Unserved(reqs[r]) => Unserved(reqs'[r])
    BY <1>1, <1>3 DEF Unserved, Changes, Busy
  <2>. QED BY <1>1, <2>1, <2>2, MeantFrame DEF WishInv, MeantInv
<1>10. WishTypeOK' /\ OnceInv'
  BY <1>1, <1>2, <1>4, ListFrame DEF WishInv, WishTypeOK, meant, AnyPage
<1>11. EverInv' /\ ToldInv'
  <2>1. faults' = 0 => told' \subseteq cart' \union trashed'
    BY <1>1 DEF WishInv, ToldInv
  <2>. QED BY <1>1, <1>2, <1>3, <2>1, PageKinds, PushedEver DEF Busy
<1>. QED BY <1>4, <1>6, <1>7, <1>8, <1>9, <1>10, <1>11 DEF WishInv

LEMMA StepOpenOther ==
  ASSUME WishInv, OpenOther
  PROVE  WishInv'
<1>. DEFINE n == Len(pages)
<1>1. /\ n < MaxPages /\ pages' = Append(pages, Other) /\ Covered
      /\ UNCHANGED <<made, wish, cart, reqs, taps, faults, told, trashed, meant, lost>>
  BY DEF OpenOther, shop
<1>2. /\ pages' \in Seq(AnyPage) /\ Len(pages') \in 1..MaxPages /\ left' \in BOOLEAN
      /\ PagesInv'
      /\ \A r \in Slots : reqs'[r] # Idle => ReqOk(reqs'[r], pages', trashed')
      /\ \A r, t \in Slots :
           /\ reqs'[r] # Idle /\ reqs'[r].kind = "list" /\ reqs'[r].page # 0
           /\ reqs'[t] # Idle /\ reqs'[t].kind = "list" /\ reqs'[t].page = reqs'[r].page
           => r = t
      /\ ~left' => /\ lost' = 0
                   /\ \A r \in Slots : reqs'[r] # Idle /\ reqs'[r].kind = "trash" => reqs'[r].page = 0
  BY <1>1, PageKinds, PushFrame
<1>3. ReqsInv' /\ ListsInv' /\ LeftInv'
  BY <1>2 DEF ReqsInv, ListsInv, LeftInv, Busy
<1>4. MeantInv'
  BY <1>1, MeantFrame DEF WishInv, MeantInv
<1>5. WishTypeOK' /\ OnceInv'
  BY <1>1, <1>2, ListFrame DEF WishInv, WishTypeOK, meant, AnyPage
<1>6. EverInv' /\ ToldInv'
  <2>1. faults' = 0 => told' \subseteq cart' \union trashed'
    BY <1>1 DEF WishInv, ToldInv
  <2>. QED BY <1>1, <2>1, PageKinds, PushedEver DEF Busy
<1>. QED BY <1>2, <1>3, <1>4, <1>5, <1>6 DEF WishInv

LEMMA ForgetFacts ==
  ASSUME WishInv, NEW k
  PROVE  /\ Forget(k) \in [Slots -> {Idle} \union Request]
         /\ \A q \in Slots : Forget(k)[q] # Idle => Busy(q)
         /\ \A q \in Slots : Busy(q) =>
              /\ Forget(k)[q] # Idle /\ Forget(k)[q].kind = reqs[q].kind
              /\ Forget(k)[q].of = reqs[q].of /\ Forget(k)[q].pc = reqs[q].pc
              /\ Forget(k)[q].rows = reqs[q].rows
              /\ Forget(k)[q].page = IF reqs[q].page = k THEN 0 ELSE reqs[q].page
<1>1. ASSUME NEW q \in Slots, Busy(q)
      PROVE  /\ [reqs[q] EXCEPT !.page = 0] \in Request
             /\ [reqs[q] EXCEPT !.page = 0].pc = reqs[q].pc
             /\ [reqs[q] EXCEPT !.page = 0].kind = reqs[q].kind
             /\ [reqs[q] EXCEPT !.page = 0].of = reqs[q].of
             /\ [reqs[q] EXCEPT !.page = 0].rows = reqs[q].rows
             /\ [reqs[q] EXCEPT !.page = 0].page = 0
             /\ [reqs[q] EXCEPT !.page = 0] # Idle
  <2>1. reqs[q] \in Request /\ 0 \in 0..MaxPages
    BY <1>1, WishFacts
  <2>2. [reqs[q] EXCEPT !.page = 0] \in Request
    BY <2>1 DEF Request
  <2>. QED BY <2>1, <2>2 DEF Request, Idle
<1>2. \A q \in Slots : Forget(k)[q] = IF Busy(q) /\ reqs[q].page = k
                                      THEN [reqs[q] EXCEPT !.page = 0] ELSE reqs[q]
  BY DEF Forget
<1>3. \A q \in Slots : reqs[q] = Idle \/ (Busy(q) /\ reqs[q] \in Request)
  BY WishFacts DEF Busy
<1>4. Forget(k) \in [Slots -> {Idle} \union Request]
  BY <1>1, <1>3 DEF Forget
<1>. QED BY <1>1, <1>2, <1>3, <1>4 DEF Busy

LEMMA FrontFacts ==
  ASSUME WishInv
  PROVE  /\ Front(pages) \in Seq(AnyPage) /\ Len(Front(pages)) = Len(pages) - 1
         /\ \A k \in 1..(Len(pages) - 1) : Front(pages)[k] = pages[k]
<1>1. Front(pages) = SubSeq(pages, 1, Len(pages) - 1)
  BY DEF Front
<1>2. \A k \in 1..(Len(pages) - 1) : pages[k] \in AnyPage
  BY WishFacts
<1>. QED BY <1>1, <1>2, WishFacts, SubSeqProperties

\* The top page goes, whatever comes in its place: the requests of the other
\* pages find their page where it was.
LEMMA PopFrame ==
  ASSUME WishInv, NEW q \in Slots, Busy(q), NEW ps, Len(ps) \in Nat, Len(ps) >= Len(pages) - 1,
         \A k \in 1..(Len(pages) - 1) : ps[k] = pages[k]
  PROVE  /\ ReqOk(Forget(Len(pages))[q], ps, trashed)
         /\ Forget(Len(pages))[q].page < Len(pages)
<1>. DEFINE n == Len(pages)
            x == Forget(n)[q]
<1>1. /\ reqs[q] \in Request /\ ReqOk(reqs[q], pages, trashed) /\ reqs[q].page \in 0..n /\ n \in Nat
  BY WishFacts
<1>2. /\ x.kind = reqs[q].kind /\ x.of = reqs[q].of
      /\ x.page = IF reqs[q].page = n THEN 0 ELSE reqs[q].page
  BY ForgetFacts
<1>. HIDE DEF x
<1>3. n >= 1
  BY WishFacts
<1>4. x.page \in 0..(n - 1) /\ (x.page # 0 => x.page = reqs[q].page)
  BY <1>1, <1>2, <1>3
<1>5. x.page # 0 => ps[x.page] = pages[x.page]
  BY <1>1, <1>4
<1>6. ReqOk(x, ps, trashed) /\ x.page < n
  BY <1>1, <1>2, <1>3, <1>4, <1>5 DEF ReqOk
<1>. QED BY <1>6 DEF x

LEMMA StepBackWish ==
  ASSUME WishInv, Back
  PROVE  WishInv'
<1>. DEFINE n == Len(pages)
<1>1. /\ n > 1 /\ pages' = Front(pages) /\ reqs' = Forget(n)
      /\ UNCHANGED <<made, wish, cart, taps, faults, told, trashed, meant, left, lost>>
  BY DEF Back, shop
<1>2. /\ pages' \in Seq(AnyPage) /\ Len(pages') = n - 1 /\ Len(pages') \in 1..MaxPages
      /\ \A k \in 1..(n - 1) : pages'[k] = pages[k]
      /\ DOMAIN pages' = 1..(n - 1)
  BY <1>1, FrontFacts, WishFacts
<1>3. PagesInv'
  <2>1. \A k \in 1..(n - 1) : k \in DOMAIN pages
    BY WishFacts
  <2>2. \A k \in DOMAIN pages' : pages'[k] = pages[k] /\ k \in DOMAIN pages
    BY <1>2, <2>1
  <2>. QED BY <2>2 DEF WishInv, PagesInv
<1>4. /\ \A q \in Slots : reqs'[q] # Idle => Busy(q)
      /\ \A q \in Slots : Busy(q) =>
           /\ reqs'[q] # Idle /\ reqs'[q].kind = reqs[q].kind
           /\ reqs'[q].of = reqs[q].of /\ reqs'[q].pc = reqs[q].pc
           /\ reqs'[q].rows = reqs[q].rows
           /\ reqs'[q].page = IF reqs[q].page = n THEN 0 ELSE reqs[q].page
      /\ reqs' \in [Slots -> {Idle} \union Request]
  BY <1>1, ForgetFacts
<1>5. ReqsInv'
  <2>1. ASSUME NEW q \in Slots, Busy(q) PROVE ReqOk(reqs'[q], pages', trashed')
    <3>1. Len(pages') \in Nat /\ Len(pages') >= n - 1
      BY <1>2, WishFacts
    <3>2. ReqOk(Forget(n)[q], pages', trashed)
      BY <1>2, <2>1, <3>1, PopFrame
    <3>. QED BY <1>1, <3>2
  <2>. QED BY <1>4, <2>1 DEF ReqsInv, Busy
<1>6. ListsInv'
  BY <1>4 DEF WishInv, ListsInv, Busy
<1>7. LeftInv'
  <2>1. \A q \in Slots : reqs'[q] # Idle /\ reqs'[q].page # 0 => reqs[q].page # n
    BY <1>4
  <2>. QED BY <1>1, <1>4, <2>1 DEF WishInv, LeftInv, Busy
<1>8. MeantInv'
  BY <1>1, <1>4, MeantFrame DEF WishInv, MeantInv, Changes, Unserved, Busy
<1>9. WishTypeOK' /\ OnceInv'
  BY <1>1, <1>2, <1>4, ListFrame DEF WishInv, WishTypeOK, meant, AnyPage
<1>10. EverInv' /\ ToldInv'
  <2>1. Ever' = Ever
    BY <1>1 DEF Ever
  <2>2. \A k \in DOMAIN pages' : k \in DOMAIN pages /\ pages'[k] = pages[k]
    BY <1>2, WishFacts
  <2>3. EverInv'
    BY <1>4, <2>1, <2>2, EverFrame
  <2>4. ToldInv'
    BY <1>1, <1>4, ToldFrame DEF WishInv, ToldInv
  <2>. QED BY <2>3, <2>4
<1>. QED BY <1>3, <1>5, <1>6, <1>7, <1>8, <1>9, <1>10 DEF WishInv

\* A page becomes another of its kind.
LEMMA StepDraw ==
  ASSUME WishInv, NEW k \in DOMAIN pages, pages[k].kind = "wish",
         NEW page \in WishPage, page.have = pages[k].have, page.shown = pages[k].have,
         pages' = [pages EXCEPT ![k] = page],
         UNCHANGED <<made, wish, cart, reqs, taps, faults, told, trashed, meant, left, lost>>
  PROVE  WishInv'
<1>1. /\ pages' \in Seq(AnyPage) /\ Len(pages') = Len(pages) /\ DOMAIN pages' = DOMAIN pages
      /\ pages'[k] = page /\ \A j \in DOMAIN pages : j # k => pages'[j] = pages[j]
  BY WishFacts, ExceptSeq DEF AnyPage
<1>2. page.kind = "wish"
  BY DEF WishPage
<1>3. PagesInv'
  BY <1>1 DEF WishInv, PagesInv
<1>4. ReqsInv'
  <2>1. ASSUME NEW q \in Slots, Busy(q)
        PROVE  ReqOk(reqs[q], pages', trashed)
    <3>1. ReqOk(reqs[q], pages, trashed) /\ reqs[q].page \in 0..Len(pages)
      BY <2>1, WishFacts
    <3>2. reqs[q].page # 0 => /\ pages'[reqs[q].page].kind = "wish" <=> pages[reqs[q].page].kind = "wish"
                              /\ pages[reqs[q].page].kind = "wish" =>
                                   pages'[reqs[q].page].have = pages[reqs[q].page].have
      BY <1>1, <1>2, <3>1, WishFacts
    <3>. QED BY <1>1, <3>1, <3>2 DEF ReqOk
  <2>. QED BY <2>1 DEF ReqsInv, Busy
<1>5. ListsInv' /\ LeftInv'
  BY <1>1 DEF WishInv, ListsInv, LeftInv, Busy
<1>6. MeantInv'
  BY MeantFrame DEF WishInv, MeantInv
<1>7. WishTypeOK' /\ OnceInv'
  BY <1>1, WishFacts, ListFrame DEF WishInv, WishTypeOK, meant, AnyPage
<1>8. EverInv' /\ ToldInv'
  <2>1. Ever' = Ever
    BY DEF Ever
  <2>2. \A j \in DOMAIN pages' : pages'[j].kind = "wish" =>
          pages[j].kind = "wish" /\ pages'[j].have = pages[j].have
    BY <1>1, <1>2
  <2>3. EverInv'
    BY <1>1, <2>1, <2>2, EverFrame DEF Busy
  <2>4. ToldInv'
    BY ToldFrame DEF WishInv, ToldInv, Busy
  <2>. QED BY <2>3, <2>4
<1>. QED BY <1>3, <1>4, <1>5, <1>6, <1>7, <1>8 DEF WishInv

LEMMA StepLoaderIcons ==
  ASSUME WishInv, NEW k \in DOMAIN pages, LoaderEnds(k) \/ IconsArrive(k)
  PROVE  WishInv'
<1>1. pages[k].kind = "wish" /\ pages[k] \in WishPage
  BY WishFacts, PageKinds DEF LoaderEnds, IconsArrive
<1>2. CASE LoaderEnds(k)
  <2>. DEFINE page == [pages[k] EXCEPT !.loaded = TRUE, !.shown = pages[k].have]
  <2>1. page \in WishPage /\ page.have = pages[k].have /\ page.shown = pages[k].have
    BY <1>1 DEF WishPage
  <2>2. pages' = [pages EXCEPT ![k] = page]
    BY <1>2 DEF LoaderEnds
  <2>. HIDE DEF page
  <2>. QED BY <1>1, <1>2, <2>1, <2>2, StepDraw DEF LoaderEnds, shop
<1>3. CASE IconsArrive(k)
  <2>. DEFINE page == [pages[k] EXCEPT !.icons = TRUE, !.shown = pages[k].have]
  <2>1. page \in WishPage /\ page.have = pages[k].have /\ page.shown = pages[k].have
    BY <1>1 DEF WishPage
  <2>2. pages' = [pages EXCEPT ![k] = page]
    BY <1>3 DEF IconsArrive
  <2>. HIDE DEF page
  <2>. QED BY <1>1, <1>3, <2>1, <2>2, StepDraw DEF IconsArrive, shop
<1>. QED BY <1>2, <1>3

\* A change is tapped on the top page.  A shopper who makes one at a time
\* taps when wishlist and cart are as meant.
LEMMA StepChange ==
  ASSUME WishInv, NEW q \in Slots, NEW kind \in Changing, NEW of \in Products \union Nat,
         NEW wished \in SUBSET Products, NEW put \in SUBSET Nat,
         Change(q, kind, of, wished, put), told' = told,
         trashed \subseteq trashed', trashed' \subseteq Nat,
         kind = "heart" => of \in Products,
         kind \in {"cart", "trash"} => of \in Nat /\ of \in Ever,
         kind = "trash" => of \in trashed' /\ Top.kind = "wish",
         Wished = wishMeant /\ cart = cartMeant =>
           Due(Sent(kind, Len(pages), of), made, wish, cart, wished, put)
  PROVE  WishInv'
<1>. DEFINE n == Len(pages)
            x == Sent(kind, n, of)
<1>1. /\ ~Busy(q) /\ taps < MaxTaps /\ taps' = taps + 1 /\ reqs' = [reqs EXCEPT ![q] = x]
      /\ wishMeant' = wished /\ cartMeant' = put
      /\ UNCHANGED <<made, wish, cart, pages, faults, left, lost>>
  BY DEF Change, shop
<1>2. hasty' = (hasty \/ UnderWay)
  BY DEF Change
<1>3. hasty' \in BOOLEAN
  BY <1>2, Zenon
<1>4. /\ x \in Request /\ x.kind = kind /\ x.page = n /\ x.pc = "sent"
      /\ x.of = of /\ x.rows = <<>>
  BY WishFacts DEF Sent, Request
<1>5. x # Idle /\ Changes(x) /\ Unserved(x) /\ kind # "list"
  BY <1>4 DEF Idle, Request, Changes, Unserved, Changing
<1>6. Wished = wishMeant /\ cart = cartMeant => Due(x, made, wish, cart, wished, put)
  OBVIOUS
<1>. HIDE DEF x
<1>7. reqs'[q] = x /\ \A r \in Slots : r # q => reqs'[r] = reqs[r]
  BY <1>1, WishFacts
<1>8. PagesInv'
  BY <1>1 DEF WishInv, PagesInv
<1>9. ReqsInv'
  <2>1. ReqOk(x, pages, trashed')
    BY <1>4, <1>5, WishFacts DEF ReqOk
  <2>2. \A r \in Slots : Busy(r) => ReqOk(reqs[r], pages, trashed')
    BY WishFacts DEF ReqOk
  <2>. QED BY <1>1, <1>7, <2>1, <2>2 DEF ReqsInv, Busy
<1>10. ListsInv'
  BY <1>4, <1>5, <1>7 DEF WishInv, ListsInv, Busy
<1>11. LeftInv'
  BY <1>1, <1>4, <1>7 DEF WishInv, LeftInv, Busy
<1>12. EverInv' /\ ToldInv'
  <2>1. Ever \subseteq Ever'
    BY <1>1 DEF Ever
  <2>2. EverInv'
    BY <1>1, <1>4, <1>7, <2>1, EverFrame DEF Busy, Changing
  <2>3. ToldInv'
    BY <1>1, <1>4, <1>7, ToldFrame DEF WishInv, ToldInv, Busy
  <2>. QED BY <2>2, <2>3
<1>13. MeantInv'
  <2>. SUFFICES ASSUME ~hasty', faults = 0
       PROVE  /\ \A r, t \in Slots : Changes(reqs'[r]) /\ Changes(reqs'[t]) => r = t
              /\ \A r \in Slots : Unserved(reqs'[r]) => Due(reqs'[r], made, wish, cart, wished, put)
              /\ \E r \in Slots : Unserved(reqs'[r])
    BY <1>1 DEF MeantInv, Changes, Unserved
  <2>1. ~hasty /\ ~UnderWay
    BY <1>2, Zenon
  <2>2. \A r \in Slots : ~Changes(reqs[r])
    BY <2>1 DEF UnderWay, Changes, Busy
  <2>3. Wished = wishMeant /\ cart = cartMeant
    BY <2>1, <2>2 DEF WishInv, MeantInv, Unserved
  <2>4. \A r \in Slots : Changes(reqs'[r]) => r = q
    BY <1>7, <2>2
  <2>5. Due(x, made, wish, cart, wished, put)
    BY <1>6, <2>3
  <2>6. \A r \in Slots : Unserved(reqs'[r]) => Due(reqs'[r], made, wish, cart, wished, put)
    BY <1>7, <2>4, <2>5 DEF Unserved
  <2>7. Unserved(reqs'[q])
    BY <1>5, <1>7
  <2>. QED BY <2>4, <2>6, <2>7
<1>14. WishTypeOK' /\ OnceInv'
  <2>1. taps' \in 0..MaxTaps
    BY <1>1, WishFacts
  <2>2. reqs' \in [Slots -> {Idle} \union Request]
    BY <1>1, <1>4, WishFacts
  <2>. QED BY <1>1, <1>3, <2>1, <2>2, ListFrame DEF WishInv, WishTypeOK
<1>. QED BY <1>8, <1>9, <1>10, <1>11, <1>12, <1>13, <1>14 DEF WishInv

LEMMA StepTapHeart ==
  ASSUME WishInv, NEW q \in Slots, NEW p \in Products, TapHeart(q, p)
  PROVE  WishInv'
<1>. DEFINE W == wishMeant \union {p}
<1>1. Change(q, "heart", p, W, cartMeant) /\ trashed' = trashed /\ told' = told
  BY DEF TapHeart
<1>2. "heart" \in Changing
  BY DEF Changing
<1>3. W \in SUBSET Products /\ cartMeant \in SUBSET Nat /\ trashed \subseteq Nat
  BY DEF WishInv, WishTypeOK
<1>4. Wished = wishMeant /\ cart = cartMeant =>
        Due(Sent("heart", Len(pages), p), made, wish, cart, W, cartMeant)
  BY DEF Due, Sent, Of, Wished
<1>. HIDE DEF W
<1>. QED BY <1>1, <1>2, <1>3, <1>4, StepChange

\* The row that is tapped is the row that is sent, and its entry is known: a
\* page draws its copy.
LEMMA TappedRow ==
  ASSUME WishInv, NEW i, Tappable(i)
  PROVE  /\ Target(i) = Top.shown[i] /\ Top.shown[i] \in Nat /\ Top.kind = "wish"
         /\ Top.shown[i] \in Ever
<1>1. Top.kind = "wish" /\ i \in DOMAIN Top.shown
  BY DEF Tappable
<1>2. Top \in WishPage
  BY <1>1, WishFacts, PageKinds
<1>3. Top.shown \in {<<>>, Top.have}
  BY <1>1, WishFacts DEF WishInv, PagesInv
<1>4. Top.have \in Seq(Nat) /\ Top.shown = Top.have
  BY <1>1, <1>2, <1>3 DEF WishPage
<1>5. ToSet(Top.have) \subseteq Ever
  BY <1>1, WishFacts DEF WishInv, EverInv
<1>. QED BY <1>1, <1>4, <1>5, ListFacts DEF Target

LEMMA StepTapRow ==
  ASSUME WishInv, NEW q \in Slots, NEW i, TapCart(q, i) \/ TapTrash(q, i)
  PROVE  WishInv'
<1>. DEFINE e == Top.shown[i]
            W == LessRow(i)
            C == PlusRow(i)
<1>1. Tappable(i)
  BY DEF TapCart, TapTrash
<1>2. Target(i) = e /\ e \in Nat /\ Top.kind = "wish" /\ e \in Ever
  BY <1>1, TappedRow
<1>3. /\ {"cart", "trash"} \subseteq Changing
      /\ W \in SUBSET Products /\ {C, cartMeant} \subseteq SUBSET Nat /\ trashed \subseteq Nat
  BY <1>2 DEF Changing, WishInv, WishTypeOK, LessRow, PlusRow
<1>4. Wished = wishMeant /\ cart = cartMeant =>
        /\ Due(Sent("cart", Len(pages), e), made, wish, cart, W, C)
        /\ Due(Sent("trash", Len(pages), e), made, wish, cart, W, cartMeant)
  BY DEF Due, Sent, Of, Wished, LessRow, PlusRow
<1>5. CASE TapCart(q, i)
  <2>1. Change(q, "cart", e, W, C) /\ trashed' = trashed /\ told' = told
    BY <1>2, <1>5 DEF TapCart
  <2>. HIDE DEF e, W, C
  <2>. QED BY <1>2, <1>3, <1>4, <2>1, StepChange
<1>6. CASE TapTrash(q, i)
  <2>1. Change(q, "trash", e, W, cartMeant) /\ trashed' = trashed \union {e} /\ told' = told
    BY <1>2, <1>6 DEF TapTrash
  <2>. HIDE DEF e, W
  <2>. QED BY <1>2, <1>3, <1>4, <2>1, StepChange
<1>. QED BY <1>5, <1>6

\* A list on which no product is twice has as many products as entries.
LEMMA WishedCount ==
  ASSUME NEW m \in Seq(Products), NEW w \in Seq(Nat), ToSet(w) \subseteq DOMAIN m, IsInjective(w),
         \A e, f \in ToSet(w) : m[e] = m[f] => e = f
  PROVE  Cardinality(Of(m, ToSet(w))) = Len(w)
<1>. DEFINE s == [i \in 1..Len(w) |-> m[w[i]]]
<1>1. DOMAIN w = 1..Len(w) /\ Len(w) \in Nat /\ \A i \in DOMAIN w : w[i] \in ToSet(w)
  BY ListFacts
<1>2. \A e \in ToSet(w) : m[e] \in Products
  BY ListFacts
<1>3. s \in Seq(Products) /\ Len(s) = Len(w) /\ DOMAIN s = 1..Len(w)
  BY <1>1, <1>2
<1>4. \A i \in 1..Len(w) : s[i] = m[w[i]]
  OBVIOUS
<1>. HIDE DEF s
<1>5. IsInjective(s)
  BY <1>1, <1>3, <1>4 DEF IsInjective
<1>6. ToSet(s) = Of(m, ToSet(w))
  <2>1. \A x \in ToSet(s) : x \in Of(m, ToSet(w))
    BY <1>1, <1>3, <1>4 DEF ToSet, Of
  <2>2. ASSUME NEW x \in Of(m, ToSet(w)) PROVE x \in ToSet(s)
    <3>1. PICK i \in DOMAIN w : x = m[w[i]]
      BY DEF ToSet, Of
    <3>. QED BY <1>1, <1>3, <1>4, <3>1 DEF ToSet
  <2>. QED BY <2>1, <2>2
<1>7. Cardinality(ToSet(s)) = Len(s)
  BY <1>3, <1>5, InjectiveCount
<1>. QED BY <1>3, <1>6, <1>7

\* What the shop makes of a request that is possible.
LEMMA ServeFacts ==
  ASSUME WishInv, NEW q \in Slots, Serve(q)
  PROVE  /\ made' \in Seq(Products) /\ wish' \in Seq(Nat) /\ cart' \subseteq Nat
         /\ OnceInv' /\ ToSet(wish') \subseteq DOMAIN made'
         /\ cart \subseteq cart' /\ ToSet(wish) \subseteq ToSet(wish') \union cart' \union trashed
         /\ ~Changes(reqs[q]) => made' = made /\ wish' = wish /\ cart' = cart
         /\ Changes(reqs[q]) =>
              /\ Wished' = IF reqs[q].kind = "heart"
                           THEN Wished \union {reqs[q].of}
                           ELSE Wished \ Of(made, ToSet(wish) \intersect {reqs[q].of})
              /\ cart' = IF reqs[q].kind = "cart"
                         THEN cart \union (ToSet(wish) \intersect {reqs[q].of}) ELSE cart
         /\ reqs[q].kind = "cart" => reqs[q].of \in cart'
<1>. DEFINE r == reqs[q]
            x == r.of
            n == Len(made)
<1>1. /\ Busy(q) /\ ~Impossible(r)
      /\ made' = IF r.kind = "heart" THEN Append(made, x) ELSE made
      /\ wish' = CASE r.kind = "heart" -> Append(wish, n + 1)
                   [] r.kind \in {"cart", "trash"} -> Without(wish, x)
                   [] OTHER -> wish
      /\ cart' = IF r.kind = "cart" THEN cart \union {x} ELSE cart
  BY DEF Serve
<1>2. /\ r \in Request /\ ReqOk(r, pages, trashed)
      /\ made \in Seq(Products) /\ wish \in Seq(Nat) /\ IsInjective(wish) /\ cart \subseteq Nat
      /\ \A e, f \in ToSet(wish) : made[e] = made[f] => e = f
      /\ ToSet(wish) \subseteq DOMAIN made
  BY <1>1, WishFacts DEF WishInv, WishTypeOK, OnceInv
<1>3. r.kind \in Changing \union {"list"} /\ r # Idle
  BY <1>1, <1>2 DEF Request, Busy
<1>4. Changes(r) <=> r.kind \in Changing
  BY <1>3 DEF Changes
<1>5. DOMAIN made = 1..n /\ n \in Nat
  BY <1>2, ListFacts
<1>6. /\ r.kind = "heart" => x \in Products
      /\ r.kind \in {"cart", "trash"} => x \in Nat
      /\ r.kind = "trash" => x \in trashed
  BY <1>2 DEF ReqOk
<1>. HIDE DEF x, r, n
<1>7. CASE r.kind = "heart"
  <2>1. made' = Append(made, x) /\ wish' = Append(wish, n + 1) /\ cart' = cart
    BY <1>1, <1>7
  <2>2. x \notin Wished
    BY <1>1, <1>7 DEF Impossible, x
  <2>3. n + 1 \notin ToSet(wish) /\ n + 1 \in Nat
    BY <1>2, <1>5
  <2>4. /\ wish' \in Seq(Nat) /\ IsInjective(wish') /\ ToSet(wish') = ToSet(wish) \union {n + 1}
    BY <1>2, <2>1, <2>3, AppendFacts
  <2>5. /\ made' \in Seq(Products) /\ DOMAIN made' = 1..(n + 1) /\ made'[n + 1] = x
        /\ \A e \in 1..n : made'[e] = made[e]
    <3>1. x \in Products
      BY <1>6, <1>7
    <3>. QED BY <1>2, <2>1, <3>1, AppendProperties, LenProperties DEF n
  <2>6. \A e \in ToSet(wish) : made'[e] = made[e]
    BY <1>2, <1>5, <2>5
  <2>7. Wished' = Wished \union {x}
    BY <2>4, <2>5, <2>6 DEF Wished
  <2>8. \A e \in ToSet(wish) : made[e] # x
    BY <2>2 DEF Wished
  <2>9. OnceInv'
    BY <1>2, <2>4, <2>5, <2>6, <2>8 DEF OnceInv
  <2>10. ToSet(wish') \subseteq DOMAIN made'
    BY <1>2, <1>5, <2>4, <2>5
  <2>11. r.kind \in Changing
    BY <1>7 DEF Changing
  <2>. QED BY <1>2, <1>4, <1>7, <2>1, <2>4, <2>5, <2>7, <2>9, <2>10, <2>11 DEF x, r
<1>8. CASE r.kind \in {"cart", "trash"}
  <2>1. made' = made /\ wish' = Without(wish, x)
    BY <1>1, <1>8
  <2>2. x \in ToSet(wish)
    BY <1>1, <1>8 DEF Impossible, x
  <2>3. r.kind \in Changing
    BY <1>8 DEF Changing
  <2>4. /\ wish' \in Seq(Nat) /\ IsInjective(wish')
        /\ ToSet(wish') = ToSet(wish) \ {x}
    BY <1>2, <2>1, <2>2, WithoutFacts
  <2>5. OnceInv'
    BY <1>2, <2>1, <2>4 DEF OnceInv
  <2>6. Wished' = Wished \ Of(made, ToSet(wish) \intersect {x})
    BY <1>2, <2>1, <2>2, <2>4 DEF Wished, Of
  <2>7. cart' = IF r.kind = "cart" THEN cart \union (ToSet(wish) \intersect {x}) ELSE cart
    BY <1>1, <2>2
  <2>8. /\ cart' \subseteq Nat /\ cart \subseteq cart'
        /\ ToSet(wish) \subseteq ToSet(wish') \union cart' \union trashed
        /\ r.kind = "cart" => x \in cart'
    BY <1>1, <1>2, <1>6, <1>8, <2>4
  <2>9. ToSet(wish') \subseteq DOMAIN made'
    BY <1>2, <2>1, <2>4
  <2>. QED BY <1>2, <1>4, <1>8, <2>1, <2>3, <2>4, <2>5, <2>6, <2>7, <2>8, <2>9 DEF x, r
<1>9. CASE r.kind = "list"
  <2>1. made' = made /\ wish' = wish /\ cart' = cart
    BY <1>1, <1>9
  <2>2. ~Changes(r)
    BY <1>4, <1>9 DEF Changing
  <2>. QED BY <1>2, <1>9, <2>1, <2>2, ListFrame DEF r
<1>. QED BY <1>3, <1>7, <1>8, <1>9 DEF Changing

LEMMA StepServe ==
  ASSUME WishInv, NEW q \in Slots, Serve(q)
  PROVE  WishInv'
<1>. DEFINE x == [reqs[q] EXCEPT !.pc = "ok", !.rows = IF reqs[q].kind = "list" THEN wish ELSE <<>>]
<1>1. /\ Busy(q) /\ reqs[q].pc = "sent" /\ reqs' = [reqs EXCEPT ![q] = x]
      /\ UNCHANGED <<pages, taps, faults, told, trashed, meant, left, lost>>
  BY DEF Serve
<1>2. wish \in Seq(Nat) /\ reqs[q] \in Request
  BY <1>1, WishFacts DEF WishInv, WishTypeOK
<1>3. /\ x \in Request /\ x.pc = "ok" /\ x.kind = reqs[q].kind /\ x.page = reqs[q].page
      /\ x.of = reqs[q].of /\ x.rows \in {wish, <<>>}
  <2>1. (IF reqs[q].kind = "list" THEN wish ELSE <<>>) \in Seq(Nat)
    BY <1>2
  <2>. QED BY <1>2, <2>1 DEF Request
<1>. HIDE DEF x
<1>4. reqs'[q] = x /\ \A r \in Slots : r # q => reqs'[r] = reqs[r]
  BY <1>1, WishFacts
<1>5. PagesInv' /\ ReqsInv' /\ ListsInv' /\ LeftInv'
  <2>1. \A r \in Slots : reqs'[r] # Idle =>
           /\ Busy(r) /\ reqs'[r].kind = reqs[r].kind
           /\ reqs'[r].page = reqs[r].page /\ reqs'[r].of = reqs[r].of
    BY <1>1, <1>3, <1>4 DEF Busy
  <2>. QED BY <1>1, <2>1, ShapeFrame
<1>6. MeantInv'
  <2>1. ~Unserved(x) /\ (Changes(x) <=> Changes(reqs[q]))
    BY <1>1, <1>3 DEF Unserved, Changes, Busy, Request, Idle
  <2>2. CASE ~Changes(reqs[q])
    <3>1. /\ \A r \in Slots : Changes(reqs'[r]) => reqs'[r] = reqs[r]
          /\ \A r \in Slots : Unserved(reqs[r]) => Unserved(reqs'[r])
      BY <1>4, <2>1, <2>2 DEF Unserved
    <3>. QED BY <1>1, <2>2, <3>1, ServeFacts, MeantFrame
  <2>3. CASE Changes(reqs[q])
    <3>. SUFFICES ASSUME ~hasty, faults = 0
         PROVE  /\ \A r, t \in Slots : Changes(reqs'[r]) /\ Changes(reqs'[t]) => r = t
                /\ \A r \in Slots : ~Unserved(reqs'[r])
                /\ Wished' = wishMeant /\ cart' = cartMeant
      BY <1>1 DEF MeantInv, Changes, Unserved, meant
    <3>1. /\ \A r, t \in Slots : Changes(reqs[r]) /\ Changes(reqs[t]) => r = t
          /\ Due(reqs[q], made, wish, cart, wishMeant, cartMeant)
      BY <1>1, <2>3 DEF WishInv, MeantInv, Unserved
    <3>2. \A r \in Slots : Changes(reqs'[r]) => r = q
      BY <1>4, <2>3, <3>1
    <3>3. Wished = Of(made, ToSet(wish))
      BY DEF Wished, Of
    <3>4. Wished' = wishMeant /\ cart' = cartMeant
      BY <2>3, <3>1, <3>3, ServeFacts DEF Due
    <3>. QED BY <1>4, <2>1, <3>2, <3>4 DEF Unserved
  <2>. QED BY <2>2, <2>3
<1>7. WishTypeOK' /\ OnceInv'
  <2>1. Cardinality(Wished') = Len(wish') /\ Wished' \subseteq Products
    <3>1. Wished' = Of(made', ToSet(wish'))
      BY DEF Wished, Of
    <3>. QED BY <3>1, ServeFacts, WishedCount, ListFacts DEF OnceInv, Of
  <2>2. reqs' \in [Slots -> {Idle} \union Request]
    BY <1>1, <1>3, WishFacts
  <2>. QED BY <1>1, <2>1, <2>2, ServeFacts DEF WishInv, WishTypeOK, meant
<1>8. Ever \subseteq Ever' /\ ToSet(wish) \subseteq Ever
  BY <1>1, ServeFacts DEF Ever
<1>9. EverInv'
  <2>1. \A k \in DOMAIN pages' : pages'[k].kind = "wish" => ToSet(pages'[k].have) \subseteq Ever'
    BY <1>1, <1>8 DEF WishInv, EverInv
  <2>2. ToSet(x.rows) \subseteq Ever' /\ (x.kind = "cart" => x.of \in Ever')
    BY <1>1, <1>3, <1>8 DEF WishInv, EverInv, ToSet
  <2>3. \A r \in Slots : Busy(r) => /\ ToSet(reqs[r].rows) \subseteq Ever'
                                    /\ reqs[r].kind = "cart" => reqs[r].of \in Ever'
    BY <1>8 DEF WishInv, EverInv
  <2>. QED BY <1>4, <2>1, <2>2, <2>3 DEF EverInv, Busy
<1>10. ToldInv'
  <2>1. x.kind = "cart" => x.of \in cart'
    BY <1>3, ServeFacts
  <2>2. cart \subseteq cart'
    BY ServeFacts
  <2>. QED BY <1>1, <1>4, <2>1, <2>2 DEF WishInv, ToldInv, Busy
<1>. QED BY <1>5, <1>6, <1>7, <1>9, <1>10 DEF WishInv

LEMMA StepRefuse ==
  ASSUME WishInv, NEW q \in Slots, Refuse(q)
  PROVE  WishInv'
<1>. DEFINE x == [reqs[q] EXCEPT !.pc = "refused"]
<1>1. /\ Busy(q) /\ reqs[q].pc = "sent" /\ reqs' = [reqs EXCEPT ![q] = x]
      /\ UNCHANGED <<made, wish, cart, pages, taps, told, trashed, meant, left, lost>>
  BY DEF Refuse, shop
<1>2. \/ Impossible(reqs[q]) /\ faults' = faults
      \/ faults < MaxFaults /\ faults' = faults + 1
  BY DEF Refuse
<1>3. reqs[q] \in Request /\ ReqOk(reqs[q], pages, trashed)
  BY <1>1, WishFacts
<1>4. /\ x \in Request /\ x.pc = "refused" /\ x.kind = reqs[q].kind /\ x.page = reqs[q].page
      /\ x.of = reqs[q].of /\ x.rows = reqs[q].rows
  BY <1>3 DEF Request
<1>. HIDE DEF x
<1>5. reqs'[q] = x /\ \A r \in Slots : r # q => reqs'[r] = reqs[r]
  BY <1>1, WishFacts
<1>6. PagesInv' /\ ReqsInv' /\ ListsInv' /\ LeftInv'
  <2>1. \A r \in Slots : reqs'[r] # Idle =>
           /\ Busy(r) /\ reqs'[r].kind = reqs[r].kind
           /\ reqs'[r].page = reqs[r].page /\ reqs'[r].of = reqs[r].of
    BY <1>1, <1>4, <1>5 DEF Busy
  <2>. QED BY <1>1, <2>1, ShapeFrame
<1>7. faults' = 0 => faults = 0 /\ Impossible(reqs[q])
  BY <1>2, WishFacts
<1>8. MeantInv'
  <2>. SUFFICES ASSUME ~hasty, faults' = 0
       PROVE  /\ \A r, t \in Slots : Changes(reqs'[r]) /\ Changes(reqs'[t]) => r = t
              /\ \A r \in Slots : ~Unserved(reqs'[r])
              /\ Wished = wishMeant /\ cart = cartMeant
    BY <1>1 DEF MeantInv, Changes, Unserved, meant, Wished
  <2>1. faults = 0 /\ Impossible(reqs[q])
    BY <1>7
  <2>2. /\ \A r, t \in Slots : Changes(reqs[r]) /\ Changes(reqs[t]) => r = t
        /\ \A r \in Slots : Unserved(reqs[r]) =>
             Due(reqs[r], made, wish, cart, wishMeant, cartMeant)
    BY <2>1 DEF WishInv, MeantInv
  <2>3. Changes(reqs[q]) /\ Unserved(reqs[q])
    <3>1. reqs[q].kind \in {"heart", "cart", "trash"}
      BY <2>1 DEF Impossible
    <3>. QED BY <1>1, <3>1 DEF Changes, Unserved, Changing, Busy
  <2>4. Due(reqs[q], made, wish, cart, wishMeant, cartMeant)
    BY <2>2, <2>3
  <2>5. Wished = Of(made, ToSet(wish))
    BY DEF Wished, Of
  <2>6. Wished = wishMeant /\ cart = cartMeant
    <3>1. CASE reqs[q].kind = "heart"
      <4>1. reqs[q].of \in Wished
        BY <2>1, <3>1 DEF Impossible
      <4>. QED BY <2>4, <2>5, <3>1, <4>1 DEF Due
    <3>2. CASE reqs[q].kind # "heart"
      <4>1. reqs[q].of \notin ToSet(wish)
        BY <2>1, <2>3, <3>2 DEF Impossible, Changes, Changing
      <4>2. ToSet(wish) \intersect {reqs[q].of} = {} /\ Of(made, {}) = {}
        BY <4>1 DEF Of
      <4>. QED BY <2>4, <2>5, <3>2, <4>2 DEF Due
    <3>. QED BY <3>1, <3>2
  <2>7. \A r \in Slots : Changes(reqs'[r]) => r = q
    BY <1>5, <2>2, <2>3
  <2>. QED BY <1>4, <1>5, <2>6, <2>7 DEF Unserved
<1>9. WishTypeOK' /\ OnceInv'
  <2>1. reqs' \in [Slots -> {Idle} \union Request] /\ faults' \in 0..MaxFaults
    BY <1>1, <1>2, <1>4, WishFacts
  <2>. QED BY <1>1, <2>1, ListFrame DEF WishInv, WishTypeOK, meant
<1>10. Ever' = Ever
  BY <1>1 DEF Ever
<1>11. EverInv'
  BY <1>1, <1>4, <1>5, <1>10 DEF WishInv, EverInv, Busy
<1>12. ToldInv'
  <2>1. x.kind = "cart" /\ faults' = 0 => x.of \in cart \union trashed
    <3>. SUFFICES ASSUME x.kind = "cart", faults' = 0
         PROVE  x.of \in cart \union trashed
      OBVIOUS
    <3>1. x.of \notin ToSet(wish)
      BY <1>4, <1>7 DEF Impossible
    <3>2. x.of \in Ever
      BY <1>1, <1>4 DEF WishInv, EverInv
    <3>. QED BY <3>1, <3>2 DEF Ever
  <2>. QED BY <1>1, <1>5, <1>7, <2>1 DEF WishInv, ToldInv, Busy
<1>. QED BY <1>6, <1>8, <1>9, <1>11, <1>12 DEF WishInv

\* A request ends and the pages stay.
LEMMA StepOver ==
  ASSUME WishInv, NEW q \in Slots, Busy(q), reqs' = [reqs EXCEPT ![q] = Idle],
         UNCHANGED <<made, wish, cart, pages, taps, trashed, meant, left, lost>>,
         told' \subseteq Nat,
         faults' = 0 => told' \subseteq cart \union trashed,
         \/ faults' = faults /\ ~Unserved(reqs[q])
         \/ faults < MaxFaults /\ faults' = faults + 1
  PROVE  WishInv'
<1>1. reqs'[q] = Idle /\ \A r \in Slots : r # q => reqs'[r] = reqs[r]
  BY WishFacts
<1>2. faults \in 0..MaxFaults /\ MaxFaults \in Nat
  BY WishFacts
<1>3. faults' \in 0..MaxFaults /\ (faults' = 0 => faults' = faults)
  BY <1>2
<1>4. faults' = 0 => faults = 0 /\ ~Unserved(reqs[q])
  BY <1>2, <1>3
<1>5. PagesInv' /\ ReqsInv' /\ ListsInv' /\ LeftInv'
  BY <1>1, ShapeFrame DEF Busy
<1>6. MeantInv'
  <2>1. \A r \in Slots : Changes(reqs'[r]) => reqs'[r] = reqs[r]
    BY <1>1 DEF Changes
  <2>2. faults' = 0 => \A r \in Slots : Unserved(reqs[r]) => Unserved(reqs'[r])
    BY <1>1, <1>4
  <2>. QED BY <1>4, <2>1, <2>2, MeantFrame
<1>7. WishTypeOK' /\ OnceInv'
  <2>1. reqs' \in [Slots -> {Idle} \union Request]
    BY WishFacts
  <2>. QED BY <1>3, <2>1, ListFrame DEF WishInv, WishTypeOK, meant
<1>8. EverInv'
  <2>1. Ever' = Ever
    BY DEF Ever
  <2>. QED BY <1>1, <2>1 DEF WishInv, EverInv, Busy
<1>9. ToldInv'
  BY <1>1, <1>4, ToldFrame DEF Busy
<1>. QED BY <1>5, <1>6, <1>7, <1>8, <1>9 DEF WishInv

\* A list arrives at the page that fetched it, which has drawn nothing yet.
LEMMA StepAnswerList ==
  ASSUME WishInv, NEW q \in Slots, AnswerList(q)
  PROVE  WishInv'
<1>. DEFINE k == reqs[q].page
            page == [pages[k] EXCEPT !.have = reqs[q].rows]
<1>1. /\ Busy(q) /\ reqs[q].kind = "list" /\ reqs' = [reqs EXCEPT ![q] = Idle]
      /\ UNCHANGED <<made, wish, cart, taps, faults, told, trashed, meant, left, lost>>
  BY DEF AnswerList, At, Done, shop
<1>2. \/ k # 0 /\ pages' = [pages EXCEPT ![k] = page]
      \/ pages' = pages
  BY DEF AnswerList, Alive
<1>3. told \subseteq Nat /\ (faults = 0 => told \subseteq cart \union trashed)
  BY DEF WishInv, WishTypeOK, ToldInv
<1>4. ~Changes(reqs[q])
  BY <1>1 DEF Changes, Changing
<1>5. CASE pages' = pages
  BY <1>1, <1>3, <1>4, <1>5, StepOver DEF Unserved
<1>6. CASE k # 0 /\ pages' = [pages EXCEPT ![k] = page]
  <2>1. /\ k \in 1..Len(pages) /\ pages[k] \in WishPage /\ pages[k].have = <<>>
        /\ reqs[q].rows \in Seq(Nat)
    <3>1. reqs[q] \in Request /\ ReqOk(reqs[q], pages, trashed) /\ k \in 0..Len(pages)
      BY <1>1, WishFacts
    <3>2. k \in 1..Len(pages) /\ pages[k].kind = "wish" /\ pages[k].have = <<>>
      BY <1>1, <1>6, <3>1, WishFacts DEF ReqOk
    <3>. QED BY <3>1, <3>2, WishFacts, PageKinds DEF Request
  <2>2. pages[k].shown = <<>>
    BY <2>1, WishFacts DEF WishInv, PagesInv, WishPage
  <2>3. page \in WishPage /\ page.shown = <<>> /\ page.kind = "wish" /\ page.have = reqs[q].rows
    BY <2>1, <2>2 DEF WishPage
  <2>. HIDE DEF page, k
  <2>4. /\ pages' \in Seq(AnyPage) /\ Len(pages') = Len(pages) /\ DOMAIN pages' = DOMAIN pages
        /\ pages'[k] = page /\ \A j \in DOMAIN pages : j # k => pages'[j] = pages[j]
    BY <1>6, <2>1, <2>3, WishFacts, ExceptSeq DEF AnyPage
  <2>5. reqs'[q] = Idle /\ \A r \in Slots : r # q => reqs'[r] = reqs[r]
    BY <1>1, WishFacts
  <2>6. PagesInv'
    BY <2>3, <2>4 DEF WishInv, PagesInv
  <2>7. ReqsInv'
    <3>1. ASSUME NEW r \in Slots, Busy(r), r # q
          PROVE  ReqOk(reqs[r], pages', trashed)
      <4>1. ReqOk(reqs[r], pages, trashed) /\ reqs[r].page \in 0..Len(pages)
        BY <3>1, WishFacts
      <4>2. ~(reqs[r].kind = "list" /\ reqs[r].page = k)
        BY <1>1, <1>6, <3>1 DEF WishInv, ListsInv, k
      <4>3. reqs[r].page # 0 /\ reqs[r].page # k => pages'[reqs[r].page] = pages[reqs[r].page]
        BY <2>4, <4>1, WishFacts
      <4>. QED BY <2>3, <2>4, <4>1, <4>2, <4>3 DEF ReqOk
    <3>. QED BY <1>1, <2>5, <3>1 DEF ReqsInv, Busy
  <2>8. ListsInv' /\ LeftInv'
    BY <1>1, <2>4, <2>5 DEF WishInv, ListsInv, LeftInv, Busy
  <2>9. MeantInv'
    <3>1. /\ \A r \in Slots : Changes(reqs'[r]) => reqs'[r] = reqs[r]
          /\ \A r \in Slots : Unserved(reqs[r]) => Unserved(reqs'[r])
      BY <1>4, <2>5 DEF Changes, Unserved
    <3>. QED BY <1>1, <1>3, <3>1, MeantFrame
  <2>10. WishTypeOK' /\ OnceInv'
    <3>1. reqs' \in [Slots -> {Idle} \union Request]
      BY <1>1, WishFacts
    <3>. QED BY <1>1, <2>4, <3>1, ListFrame DEF WishInv, WishTypeOK, meant, AnyPage
  <2>11. EverInv'
    <3>1. ToSet(reqs[q].rows) \subseteq Ever /\ Ever' = Ever
      BY <1>1 DEF WishInv, EverInv, Ever
    <3>2. \A j \in DOMAIN pages' : pages'[j].kind = "wish" => ToSet(pages'[j].have) \subseteq Ever'
      BY <2>3, <2>4, <3>1 DEF WishInv, EverInv
    <3>. QED BY <2>5, <3>1, <3>2 DEF WishInv, EverInv, Busy
  <2>12. ToldInv'
    BY <1>1, <1>3, <2>5, ToldFrame DEF Busy
  <2>. QED BY <2>6, <2>7, <2>8, <2>9, <2>10, <2>11, <2>12 DEF WishInv
<1>. QED BY <1>2, <1>5, <1>6

LEMMA StepAnswerChange ==
  ASSUME WishInv, NEW q \in Slots, AnswerHeart(q) \/ AnswerCart(q)
  PROVE  WishInv'
<1>1. /\ Busy(q) /\ reqs[q].pc \in {"ok", "refused"} /\ reqs' = [reqs EXCEPT ![q] = Idle]
      /\ UNCHANGED <<made, wish, cart, pages, taps, faults, trashed, meant, left, lost>>
      /\ \/ told' = told
         \/ reqs[q].kind = "cart" /\ told' = told \union {reqs[q].of}
  BY DEF AnswerHeart, AnswerCart, At, Done, shop
<1>2. ~Unserved(reqs[q])
  BY <1>1 DEF Unserved
<1>3. told \subseteq Nat /\ (faults = 0 => told \subseteq cart \union trashed)
  BY DEF WishInv, WishTypeOK, ToldInv
<1>4. CASE told' = told
  BY <1>1, <1>2, <1>3, <1>4, StepOver
<1>5. CASE reqs[q].kind = "cart" /\ told' = told \union {reqs[q].of}
  <2>1. reqs[q].of \in Nat
    BY <1>1, <1>5, WishFacts DEF ReqOk
  <2>2. faults = 0 => reqs[q].of \in cart \union trashed
    BY <1>1, <1>5 DEF WishInv, ToldInv
  <2>. QED BY <1>1, <1>2, <1>3, <1>5, <2>1, <2>2, StepOver
<1>. QED BY <1>1, <1>4, <1>5

LEMMA StepAnswerTrash ==
  ASSUME WishInv, NEW q \in Slots, AnswerTrash(q)
  PROVE  WishInv'
<1>. DEFINE n == Len(pages)
            x == Sent("list", n, 0)
<1>1. /\ Busy(q) /\ reqs[q].pc \in {"ok", "refused"} /\ reqs[q].kind = "trash"
      /\ UNCHANGED <<made, wish, cart, taps, faults, told, trashed, meant, left>>
      /\ \/ reqs[q].page # 0 /\ ReplaceTop(q)
         \/ reqs' = [reqs EXCEPT ![q] = Idle] /\ UNCHANGED <<pages, lost>>
  BY DEF AnswerTrash, At, Alive, Done, shop
<1>2. ~Unserved(reqs[q])
  BY <1>1 DEF Unserved
<1>3. told \subseteq Nat /\ (faults = 0 => told \subseteq cart \union trashed)
  BY DEF WishInv, WishTypeOK, ToldInv
<1>4. CASE reqs' = [reqs EXCEPT ![q] = Idle] /\ UNCHANGED <<pages, lost>>
  BY <1>1, <1>2, <1>3, <1>4, StepOver
<1>5. CASE reqs[q].page # 0 /\ ReplaceTop(q)
  <2>1. /\ pages' = Append(Front(pages), NewWishPage)
        /\ reqs' = [Forget(n) EXCEPT ![q] = x]
        /\ lost' = IF reqs[q].page = n THEN lost ELSE lost + 1
    BY <1>5 DEF ReplaceTop
  <2>2. /\ x \in Request /\ x.kind = "list" /\ x.page = n /\ x # Idle /\ ~Changes(x)
        /\ x.rows = <<>>
    BY WishFacts DEF Sent, Request, Idle, Changes, Changing
  <2>3. n \in Nat /\ n >= 1
    BY WishFacts
  <2>. HIDE DEF x
  <2>4. /\ pages' \in Seq(AnyPage) /\ Len(pages') = n /\ pages'[n] = NewWishPage
        /\ \A k \in 1..(n - 1) : pages'[k] = pages[k]
    BY <2>1, <2>3, FrontFacts, PageKinds, AppendProperties
  <2>5. /\ reqs'[q] = x /\ \A r \in Slots : r # q => reqs'[r] = Forget(n)[r]
        /\ reqs' \in [Slots -> {Idle} \union Request]
    BY <2>1, <2>2, ForgetFacts
  <2>6. /\ \A r \in Slots : reqs'[r] # Idle => Busy(r)
        /\ \A r \in Slots : Busy(r) /\ r # q =>
             /\ reqs'[r] # Idle /\ reqs'[r].kind = reqs[r].kind
             /\ reqs'[r].of = reqs[r].of /\ reqs'[r].pc = reqs[r].pc
             /\ reqs'[r].rows = reqs[r].rows
             /\ reqs'[r].page = IF reqs[r].page = n THEN 0 ELSE reqs[r].page
    BY <1>1, <2>5, ForgetFacts
  <2>7. PagesInv'
    <3>1. DOMAIN pages' = 1..n
      BY <2>4, LenProperties
    <3>2. \A k \in 1..n : pages'[k].kind = "wish" => pages'[k].shown \in {<<>>, pages'[k].have}
      BY <2>3, <2>4, WishFacts, PageKinds, SMTT(30) DEF WishInv, PagesInv
    <3>. QED BY <3>1, <3>2 DEF PagesInv
  <2>8. ReqsInv'
    <3>1. \A r \in Slots : Busy(r) /\ r # q => ReqOk(reqs'[r], pages', trashed')
      BY <1>1, <2>3, <2>4, <2>5, PopFrame
    <3>2. ReqOk(x, pages', trashed')
      BY <2>2, <2>3, <2>4, PageKinds DEF ReqOk, Changing
    <3>. QED BY <2>5, <2>6, <3>1, <3>2 DEF ReqsInv, Busy
  <2>9. ListsInv'
    <3>1. \A r \in Slots : reqs'[r] # Idle /\ r # q => reqs'[r].page # n
      BY <2>3, <2>6
    <3>. QED BY <2>2, <2>5, <2>6, <3>1 DEF WishInv, ListsInv, Busy
  <2>10. LeftInv'
    <3>1. ASSUME ~left PROVE lost' = 0
      BY <1>1, <1>5, <2>1, <3>1 DEF WishInv, LeftInv
    <3>2. ~left => \A r \in Slots : reqs'[r] # Idle /\ reqs'[r].kind = "trash" => reqs'[r].page = 0
      BY <2>2, <2>5, <2>6 DEF WishInv, LeftInv
    <3>. QED BY <1>1, <3>1, <3>2 DEF LeftInv, Busy
  <2>11. MeantInv'
    <3>1. \A r \in Slots : Changes(reqs'[r]) =>
            /\ Changes(reqs[r]) /\ reqs'[r].kind = reqs[r].kind
            /\ reqs'[r].of = reqs[r].of /\ reqs'[r].pc = reqs[r].pc
      BY <2>2, <2>5, <2>6 DEF Changes, Busy
    <3>2. \A r \in Slots : Unserved(reqs[r]) => Unserved(reqs'[r])
      BY <1>2, <2>6 DEF Unserved, Changes, Busy
    <3>. QED BY <1>1, <1>3, <3>1, <3>2, MeantFrame
  <2>12. WishTypeOK' /\ OnceInv'
    <3>1. lost' \in Nat /\ Len(pages') \in 1..MaxPages
      BY <2>1, <2>4, WishFacts
    <3>. QED BY <1>1, <2>4, <2>5, <3>1, ListFrame DEF WishInv, WishTypeOK, meant, AnyPage
  <2>13. EverInv'
    <3>1. Ever' = Ever
      BY <1>1 DEF Ever
    <3>2. DOMAIN pages' = 1..n /\ DOMAIN pages = 1..n
      BY <2>4, WishFacts, LenProperties
    <3>3. \A k \in DOMAIN pages' : \/ pages'[k].have = <<>>
                                   \/ k \in DOMAIN pages /\ pages'[k] = pages[k]
      BY <2>3, <2>4, <3>2, PageKinds
    <3>. QED BY <2>2, <2>5, <2>6, <3>1, <3>3, EverFrame
  <2>14. ToldInv'
    BY <1>1, <1>3, <2>2, <2>5, <2>6, ToldFrame
  <2>. QED BY <2>7, <2>8, <2>9, <2>10, <2>11, <2>12, <2>13, <2>14 DEF WishInv
<1>. QED BY <1>1, <1>4, <1>5

LEMMA StepLose ==
  ASSUME WishInv, NEW q \in Slots, Lose(q)
  PROVE  WishInv'
<1>1. /\ Busy(q) /\ faults < MaxFaults /\ faults' = faults + 1 /\ reqs' = [reqs EXCEPT ![q] = Idle]
      /\ UNCHANGED <<made, wish, cart, pages, taps, told, trashed, meant, left, lost>>
  BY DEF Lose, Done, shop
<1>2. told \subseteq Nat /\ faults' # 0
  BY <1>1, WishFacts DEF WishInv, WishTypeOK
<1>. QED BY <1>1, <1>2, StepOver

LEMMA StepFail ==
  ASSUME WishInv, NEW q \in Slots, Fail(q)
  PROVE  WishInv'
<1>. DEFINE n == Len(pages)
<1>1. /\ Busy(q) /\ n < MaxPages /\ faults < MaxFaults /\ faults' = faults + 1
      /\ reqs' = [reqs EXCEPT ![q] = Idle]
      /\ pages' = Append(pages, Error) /\ Covered
      /\ told' = (IF reqs[q].kind = "cart" THEN told \union {reqs[q].of} ELSE told)
      /\ UNCHANGED <<made, wish, cart, taps, trashed, meant, lost>>
  BY DEF Fail, Done, shop
<1>2. reqs'[q] = Idle /\ \A r \in Slots : r # q => reqs'[r] = reqs[r]
  BY <1>1, WishFacts
<1>3. /\ pages' \in Seq(AnyPage) /\ Len(pages') \in 1..MaxPages /\ left' \in BOOLEAN
      /\ PagesInv'
      /\ \A r \in Slots : reqs'[r] # Idle => ReqOk(reqs'[r], pages', trashed')
      /\ \A r, t \in Slots :
           /\ reqs'[r] # Idle /\ reqs'[r].kind = "list" /\ reqs'[r].page # 0
           /\ reqs'[t] # Idle /\ reqs'[t].kind = "list" /\ reqs'[t].page = reqs'[r].page
           => r = t
      /\ ~left' => /\ lost' = 0
                   /\ \A r \in Slots : reqs'[r] # Idle /\ reqs'[r].kind = "trash" => reqs'[r].page = 0
  BY <1>1, <1>2, PageKinds, PushFrame
<1>4. ReqsInv' /\ ListsInv' /\ LeftInv'
  BY <1>3 DEF ReqsInv, ListsInv, LeftInv, Busy
<1>5. faults' \in 0..MaxFaults /\ faults' # 0
  BY <1>1, WishFacts
<1>6. MeantInv'
  BY <1>5 DEF MeantInv
<1>7. told' \subseteq Nat
  <2>1. told \subseteq Nat /\ (reqs[q].kind = "cart" => reqs[q].of \in Nat)
    BY <1>1, WishFacts DEF ReqOk, WishInv, WishTypeOK
  <2>. QED BY <1>1, <2>1
<1>8. WishTypeOK' /\ OnceInv'
  <2>1. reqs' \in [Slots -> {Idle} \union Request]
    BY <1>1, WishFacts
  <2>. QED BY <1>1, <1>3, <1>5, <1>7, <2>1, ListFrame DEF WishInv, WishTypeOK, meant, AnyPage
<1>9. EverInv' /\ ToldInv'
  BY <1>1, <1>2, <1>5, PageKinds, PushedEver
<1>. QED BY <1>3, <1>4, <1>6, <1>8, <1>9 DEF WishInv

\* Every step of the app and of the shop keeps it.
LEMMA StepWish == WishInv /\ [WishNext]_wishVars => WishInv'
<1>. SUFFICES ASSUME WishInv, [WishNext]_wishVars PROVE WishInv'
  OBVIOUS
<1>1. CASE UNCHANGED wishVars
  <2>1. WishTypeOK' /\ OnceInv'
    BY <1>1, ListFrame DEF wishVars, WishInv, WishTypeOK
  <2>2. PagesInv' /\ ReqsInv' /\ ListsInv' /\ LeftInv'
    BY <1>1 DEF wishVars, WishInv, PagesInv, ReqsInv, ListsInv, LeftInv, Busy
  <2>3. EverInv' /\ ToldInv'
    BY <1>1 DEF wishVars, WishInv, EverInv, Ever, ToldInv, Busy
  <2>4. MeantInv'
    BY <1>1, MeantFrame DEF wishVars, meant
  <2>. QED BY <2>1, <2>2, <2>3, <2>4 DEF WishInv
<1>2. ASSUME NEW q \in Slots, OpenWishlist(q) PROVE WishInv'
  BY <1>2, StepOpenWishlist
<1>3. ASSUME NEW q \in Slots, NEW p \in Products, TapHeart(q, p) PROVE WishInv'
  BY <1>3, StepTapHeart
<1>4. ASSUME NEW q \in Slots, NEW i, TapCart(q, i) \/ TapTrash(q, i) PROVE WishInv'
  BY <1>4, StepTapRow
<1>5. ASSUME NEW q \in Slots, Serve(q) PROVE WishInv'
  BY <1>5, StepServe
<1>6. ASSUME NEW q \in Slots, Refuse(q) PROVE WishInv'
  BY <1>6, StepRefuse
<1>7. ASSUME NEW q \in Slots, Answer(q) PROVE WishInv'
  BY <1>7, StepAnswerList, StepAnswerChange, StepAnswerTrash DEF Answer
<1>8. ASSUME NEW q \in Slots, Lose(q) \/ Fail(q) PROVE WishInv'
  BY <1>8, StepLose, StepFail
<1>9. ASSUME NEW k \in DOMAIN pages, LoaderEnds(k) \/ IconsArrive(k) PROVE WishInv'
  BY <1>9, StepLoaderIcons
<1>10. CASE OpenOther \/ Back
  BY <1>10, StepOpenOther, StepBackWish
<1>. QED BY <1>1, <1>2, <1>3, <1>4, <1>5, <1>6, <1>7, <1>8, <1>9, <1>10 DEF WishNext

LEMMA WishInvariant == WishSpec => []WishInv
BY InitWish, StepWish, PTL DEF WishSpec

(***************************************************************************)
(* Every reachable state of the wishlist is well-typed; the list the shop  *)
(* keeps never holds a product twice (WishlistScreen, the heart of the     *)
(* product pages).                                                         *)
(***************************************************************************)
THEOREM WishTypes == WishSpec => []WishTypeOK
<1>1. WishInv => WishTypeOK
  BY DEF WishInv
<1>. QED BY <1>1, WishInvariant, PTL

(***************************************************************************)
(* For a shopper who makes one change at a time, wishlist and cart are     *)
(* what was meant, though a page keeps the rows of entries that have left  *)
(* the list and the product of such a row may be on the list again.        *)
(***************************************************************************)
THEOREM WishesAsMeant == WishSpec => []AsMeant
<1>1. WishInv => AsMeant
  <2>1. ASSUME WishInv, ~hasty, faults = 0, ~UnderWay
        PROVE  Wished = wishMeant /\ cart = cartMeant
    <3>1. \A q \in Slots : ~Unserved(reqs[q])
      BY <2>1 DEF UnderWay, Busy, Unserved, Changes
    <3>. QED BY <2>1, <3>1 DEF WishInv, MeantInv
  <2>. QED BY <2>1 DEF AsMeant
<1>. QED BY <1>1, WishInvariant, PTL

(***************************************************************************)
(* "Item Added Cart Succesfully", shown whatever the answer was, is true   *)
(* or of an entry whose trash icon had been tapped, as long as the shop    *)
(* and the connection do their part: the shop refuses to move an entry     *)
(* only if it has left the list, and it left for one of these reasons.     *)
(***************************************************************************)
THEOREM SuccessIsTrue == WishSpec => []ToldIsTrue
<1>1. WishInv => ToldIsTrue
  BY DEF WishInv, ToldInv, ToldIsTrue
<1>. QED BY <1>1, WishInvariant, PTL

(***************************************************************************)
(* pushReplacement after a removal throws away the wishlist page it was    *)
(* meant for and no other, unless that page was covered meanwhile.         *)
(***************************************************************************)
THEOREM ReplacesItself == WishSpec => []NoPageLost
<1>1. WishInv => NoPageLost
  BY DEF WishInv, LeftInv, NoPageLost
<1>. QED BY <1>1, WishInvariant, PTL

(***************************************************************************)
(* Whatever is tapped, late, refused or lost: an entry leaves the list for *)
(* the cart, or because the trash icon of its own row was tapped.  A       *)
(* request to take an entry off names one whose icon was (ReqOk).          *)
(***************************************************************************)
THEOREM KeptOrTrashed == WishSpec => NothingVanishes
<1>. DEFINE Step == ToSet(wish) \subseteq ToSet(wish') \union cart' \union trashed
<1>1. WishInv /\ [WishNext]_wishVars => [Step]_wish
  <2>. SUFFICES ASSUME WishInv, [WishNext]_wishVars, wish' # wish PROVE Step
    OBVIOUS
  <2>1. PICK q \in Slots : Serve(q)
    BY DEF WishNext, wishVars, shop, OpenWishlist, TapHeart, TapCart, TapTrash, Change, Refuse,
       Answer, AnswerList, AnswerHeart, AnswerCart, AnswerTrash, Lose, Fail, LoaderEnds,
       IconsArrive, OpenOther, Back
  <2>. QED BY <2>1, ServeFacts
<1>. QED BY <1>1, WishInvariant, PTL DEF WishSpec, NothingVanishes
=============================================================================
