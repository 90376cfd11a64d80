------------------------------ MODULE Recovery ------------------------------
(***************************************************************************)
(* A forgotten password: the e-mail page asks for a code, the code page    *)
(* has it verified, the password page sets a new password.                 *)
(*                                                                         *)
(* No page hands the account on to the next one.  The e-mail page writes   *)
(* it to the preference "ResetPasswordEmail" at the tap, and the other two *)
(* read the preference again at theirs.  That the password is set for the  *)
(* account whose code was verified rests on the navigator's stack alone:   *)
(* an e-mail page can only be on top of a password page with a sign-in     *)
(* page in between, and from a sign-in page Back does not go back.         *)
(***************************************************************************)
EXTENDS Integers, Sequences

CONSTANTS Emails,        \* what the shopper types
          None,          \* an absent preference, which is sent as "null"
          Slots,         \* requests that can be under way at a time
          MaxDepth       \* bound: pages on the stack

ASSUME NoneAssumption == None \notin Emails
ASSUME DepthAssumption == MaxDepth \in Nat \ {0}

VARIABLES resetEmail,    \* preference "ResetPasswordEmail"
          pages,         \* the navigator's stack, the top page last
          reqs,          \* the requests under way
          hasty,         \* history: a request was sent while another one was
                         \* under way
          updates        \* history: the password changes that were sent

vars == <<resetEmail, pages, reqs, hasty, updates>>

\* by: history: the account whose verification opened a password page
Page == [kind : {"home", "error", "signin", "email", "otp", "newpassword"},
         by : Emails \union {None}]

Plain(kind) == [kind |-> kind, by |-> None]

\* page: the position of the page that asked, 0 when it is gone
Request == [pc : {"idle", "sent", "ok", "refused", "down"},
            kind : {"request", "verify", "update"},
            page : 0..MaxDepth, to : Emails \union {None}]

TypeOK ==
  /\ resetEmail \in Emails \union {None}
  /\ pages \in Seq(Page) /\ Len(pages) \in 1..MaxDepth
  /\ reqs \in [Slots -> Request]
  /\ \A q \in Slots : reqs[q].page <= Len(pages)
  /\ hasty \in BOOLEAN
  /\ updates \subseteq [to : Emails \union {None}, by : Emails \union {None}]

Idle == [pc |-> "idle", kind |-> "request", page |-> 0, to |-> None]

Init ==
  /\ resetEmail = None
  /\ pages = <<Plain("home")>>
  /\ reqs = [q \in Slots |-> Idle]
  /\ hasty = FALSE
  /\ updates = {}

Depth == Len(pages)
Top == pages[Depth]
UnderWay == {q \in Slots : reqs[q].pc # "idle"}

Push(page) == Depth < MaxDepth /\ pages' = Append(pages, page)

-----------------------------------------------------------------------------
(* Navigation                                                              *)

\* The favourites icon takes a guest to the sign-in page; "Log Out", and
\* "Log In" of the profile page, clear the preferences on the way.
OpenSignIn ==
  /\ Top.kind = "home" /\ Push(Plain("signin"))
  /\ resetEmail' \in {resetEmail, None}
  /\ UNCHANGED <<reqs, hasty, updates>>

\* Back from the sign-in page, a sign-in, and the button of the error page.
GoHome ==
  /\ Top.kind \in {"signin", "error"} /\ Push(Plain("home"))
  /\ UNCHANGED <<resetEmail, reqs, hasty, updates>>

\* "Forgot Password" of the sign-in page.
OpenForgot ==
  /\ Top.kind = "signin" /\ Push(Plain("email"))
  /\ UNCHANGED <<resetEmail, reqs, hasty, updates>>

Pop ==
  /\ Depth > 1
  /\ pages' = SubSeq(pages, 1, Depth - 1)
  /\ reqs' = [q \in Slots |-> IF reqs[q].page = Depth
                              THEN [reqs[q] EXCEPT !.page = 0] ELSE reqs[q]]
  /\ UNCHANGED <<resetEmail, hasty, updates>>

\* Fault for the mutant runs: the sign-in page can be left by Back.
BackFromSignIn == Pop

Back == Top.kind # "signin" /\ Pop

\* The process ends; the preference stays on the device.
Restart ==
  /\ pages' = <<Plain("home")>>
  /\ reqs' = [q \in Slots |-> Idle]
  /\ UNCHANGED <<resetEmail, hasty, updates>>

-----------------------------------------------------------------------------
(* The three steps, up to their await                                      *)

Ask(q, kind, to) ==
  /\ reqs[q].pc = "idle"
  /\ reqs' = [reqs EXCEPT ![q] =
                [pc |-> "sent", kind |-> kind, page |-> Depth, to |-> to]]
  /\ hasty' = (hasty \/ UnderWay # {})

\* "Continue" on the e-mail page: the preference is written whatever the
\* shop will say to it.
RequestCode(q, email) ==
  /\ Top.kind = "email"
  /\ Ask(q, "request", email)
  /\ resetEmail' = email
  /\ UNCHANGED <<pages, updates>>

Verify(q) ==
  /\ Top.kind = "otp"
  /\ Ask(q, "verify", resetEmail)
  /\ UNCHANGED <<resetEmail, pages, updates>>

\* The two passwords typed in are equal.
Update(q) ==
  /\ Top.kind = "newpassword"
  /\ Ask(q, "update", resetEmail)
  /\ updates' = updates \union {[to |-> resetEmail, by |-> Top.by]}
  /\ UNCHANGED <<resetEmail, pages>>

-----------------------------------------------------------------------------
(* The shop (external), and the answers                                    *)

\* A 200, another status, or a 500.
Serve(q, answer) ==
  /\ reqs[q].pc = "sent"
  /\ reqs' = [reqs EXCEPT ![q].pc = answer]
  /\ UNCHANGED <<resetEmail, pages, hasty, updates>>

Lose(q) ==
  /\ reqs[q].pc # "idle"
  /\ reqs' = [reqs EXCEPT ![q] = Idle]
  /\ UNCHANGED <<resetEmail, pages, hasty, updates>>

\* The page a successful step goes on to.
Following(r) ==
  CASE r.kind = "request" -> Plain("otp")
    [] r.kind = "verify"  -> [kind |-> "newpassword", by |-> r.to]
    [] r.kind = "update"  -> Plain("signin")

\* A success goes on, if the page that asked is still there; a refusal shows
\* its message; a 500 puts the error page on top, and the handler, which
\* finds no answer to read, ends in an exception.
Answer(q) ==
  LET r == reqs[q] IN
  /\ r.pc \in {"ok", "refused", "down"}
  /\ reqs' = [reqs EXCEPT ![q] = Idle]
  /\ CASE r.pc = "ok" /\ r.page # 0 -> Push(Following(r))
       [] r.pc = "down"             -> Push(Plain("error"))
       [] OTHER                     -> UNCHANGED pages
  /\ UNCHANGED <<resetEmail, hasty, updates>>

-----------------------------------------------------------------------------
Next ==
  \/ OpenSignIn \/ GoHome \/ OpenForgot \/ Back \/ Restart
  \/ \E q \in Slots :
       \/ \E email \in Emails : RequestCode(q, email)
       \/ Verify(q) \/ Update(q)
       \/ \E answer \in {"ok", "refused", "down"} : Serve(q, answer)
       \/ Lose(q) \/ Answer(q)

Spec == Init /\ [][Next]_vars

-----------------------------------------------------------------------------
(* Properties                                                              *)

(***************************************************************************)
(* A shopper who waits for each answer before the next tap sets the new    *)
(* password of the account whose code opened the page, wherever Back, the  *)
(* error page, a second try for another account, or a restart led him in   *)
(* between.  (One who does not wait can have a late answer open a password *)
(* page over the e-mail page of another account.)                          *)
(***************************************************************************)
UpdatesVerified == ~hasty => \A u \in updates : u.to = u.by

(***************************************************************************)
(* Why: the pages that Back can reach belong to the account in the         *)
(* preference.                                                             *)
(***************************************************************************)
Reachable(i) == \A j \in DOMAIN pages : j > i => pages[j].kind # "signin"

\* An e-mail page lies on a sign-in page.
EmailOnSignIn ==
  \A i \in DOMAIN pages : pages[i].kind = "email" =>
    i > 1 /\ pages[i - 1].kind = "signin"

\* The pages within reach agree with the preference, and so does the one
\* verification under way, whose page nothing can have covered.
PagesOfEmail ==
  /\ \A i \in DOMAIN pages :
       pages[i].kind = "newpassword" /\ Reachable(i) => pages[i].by = resetEmail
  /\ \A q \in Slots :
       reqs[q].pc # "idle" /\ reqs[q].kind = "verify" /\ reqs[q].page # 0 =>
         reqs[q].to = resetEmail /\ reqs[q].page = Depth /\ Top.kind = "otp"

OneAtATime == \A q, r \in UnderWay : q = r

IInv ==
  /\ TypeOK /\ EmailOnSignIn
  /\ ~hasty => PagesOfEmail /\ OneAtATime /\ UpdatesVerified
=============================================================================
