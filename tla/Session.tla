------------------------------ MODULE Session -------------------------------
(***************************************************************************)
(* Who is signed in: the preferences a sign-in writes, in memory and on    *)
(* the device, and what a crash leaves of them.                            *)
(*                                                                         *)
(* SharedPreferences keeps a cache that a write changes at once; the same  *)
(* write goes to the device later, in the order of the calls, and no       *)
(* caller waits for it.  A sign-in writes "UserID", the fields of the      *)
(* profile, and "loggedIntoken" last, eleven writes in one go; a sign-out  *)
(* clears everything with one write.  A process that is killed loses the   *)
(* writes that are not on the device yet.                                  *)
(*                                                                         *)
(* Whether somebody is signed in is asked of "loggedIntoken" in most       *)
(* places, but of "UserID" when the cart is checked out.                   *)
(*                                                                         *)
(* A preference is modelled by whose it is.  Keys are numbered in the      *)
(* order they are written; the token is the last one.                      *)
(***************************************************************************)
EXTENDS Integers, Sequences

CONSTANTS Users,         \* customer accounts
          None,          \* an absent preference
          Calls,         \* sign-in requests under way
          Profile,       \* how many keys are written before the token
          MaxPending     \* bound: writes not yet on the device

ASSUME NoneAssumption == None \notin Users
ASSUME ProfileAssumption == Profile \in Nat \ {0}
ASSUME PendingAssumption == MaxPending \in Nat

Token == Profile + 1
Keys == 1..Token
Prefs == [Keys -> Users \union {None}]
Empty == [k \in Keys |-> None]
Whole(u) == [k \in Keys |-> u]

VARIABLES cache,         \* the preferences in memory
          disk,          \* the preferences on the device
          pending,       \* what the device will hold after each write to come
          calls,         \* whom each sign-in request is for
          over           \* history: someone signed in over another customer

vars == <<cache, disk, pending, calls, over>>

TypeOK ==
  /\ cache \in Prefs /\ disk \in Prefs
  /\ pending \in Seq(Prefs)
  /\ calls \in [Calls -> Users \union {None}]
  /\ over \in BOOLEAN

Init ==
  /\ cache = Empty /\ disk = Empty
  /\ pending = <<>>
  /\ calls = [c \in Calls |-> None]
  /\ over = FALSE

\* Write: the versions the cache goes through are queued for the device.
Write(versions) ==
  /\ Len(pending) + Len(versions) <= MaxPending
  /\ pending' = pending \o versions

\* "Sign In" of the form, or one of the social buttons.
Login(c, u) ==
  /\ calls[c] = None
  /\ calls' = [calls EXCEPT ![c] = u]
  /\ UNCHANGED <<cache, disk, pending, over>>

\* Fault for the mutant runs: the token is written before the profile.
VersionTokenFirst(u, i) ==
  [k \in Keys |-> IF k = Token \/ k < i THEN u ELSE cache[k]]

\* The preferences after the first i writes of a sign-in of u.
Version(u, i) == [k \in Keys |-> IF k <= i THEN u ELSE cache[k]]

\* 200: whoever may be signed in by now is overwritten key by key.
LoginOk(c) ==
  LET u == calls[c] IN
  /\ u # None
  /\ calls' = [calls EXCEPT ![c] = None]
  /\ cache' = Whole(u)
  /\ Write([i \in Keys |-> Version(u, i)])
  /\ over' = (over \/ cache[Token] \notin {None, u})
  /\ UNCHANGED disk

\* Any other answer shows a message, none or an exception shows nothing.  A
\* 405 also notes an e-mail and opens the code page: none of the keys is
\* touched, and what becomes of the page is Registration's.
LoginFails(c) ==
  /\ calls[c] # None
  /\ calls' = [calls EXCEPT ![c] = None]
  /\ UNCHANGED <<cache, disk, pending, over>>

\* "Confirm" of the sign-out dialog, and "Log In" of a guest's profile page.
Clear ==
  /\ cache' = Empty
  /\ Write(<<Empty>>)
  /\ UNCHANGED <<disk, calls, over>>

\* One more write reaches the device.
Flush ==
  /\ pending # <<>>
  /\ disk' = Head(pending)
  /\ pending' = Tail(pending)
  /\ UNCHANGED <<cache, calls, over>>

\* The process is killed, and started again from what the device holds.
Crash ==
  /\ cache' = disk
  /\ pending' = <<>>
  /\ calls' = [c \in Calls |-> None]
  /\ UNCHANGED <<disk, over>>

Next ==
  \/ \E c \in Calls : \/ \E u \in Users : Login(c, u)
                      \/ LoginOk(c) \/ LoginFails(c)
  \/ Clear \/ Flush \/ Crash

Spec == Init /\ [][Next]_vars

-----------------------------------------------------------------------------
(* Properties                                                              *)

Signed(p) == p[Token] # None

Complete(p) == Signed(p) => \A k \in Keys : p[k] # None

OfOne(p) == Signed(p) => p = Whole(p[Token])

(***************************************************************************)
(* Whenever there is a token there is a whole profile with it, in memory,  *)
(* on the device and after a crash at any point: the checkout, which asks  *)
(* for "UserID", and the cart, which asks for the token, agree at least    *)
(* about customers.                                                        *)
(***************************************************************************)
TokenHasProfile == Complete(cache) /\ Complete(disk)

(***************************************************************************)
(* The profile is that of the customer the token belongs to - the address  *)
(* step sends the name and the e-mail of the one with the token of the     *)
(* other - unless somebody signed in while another customer still was,     *)
(* where a crash half way mixes the two.                                   *)
(***************************************************************************)
ProfileOfToken == ~over => OfOne(cache) /\ OfOne(disk)

(***************************************************************************)
(* The inductive invariant: every version on its way to the device is as   *)
(* good as the device, and the last one is what memory holds.              *)
(***************************************************************************)
Good(p) == Complete(p) /\ (~over => OfOne(p))

IInv ==
  /\ TypeOK
  /\ Good(cache) /\ Good(disk)
  /\ \A i \in DOMAIN pending : Good(pending[i])
=============================================================================
