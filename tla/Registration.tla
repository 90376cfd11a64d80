---------------------------- MODULE Registration ----------------------------
(***************************************************************************)
(* A new account: the sign-up page registers it, asks for a code to be     *)
(* sent to its e-mail, and opens the code page, which has the code         *)
(* verified and can ask for another one.  A sign-in that is answered 405,  *)
(* because the e-mail is not verified, opens the code page too.            *)
(*                                                                         *)
(* The sign-up page reads its text field three times: for the              *)
(* registration, and after each of two awaits, for the code and for the    *)
(* preference "registerEmail"; the sign-in page reads its own twice, for   *)
(* the sign-in and for the preference.  The code page copies the           *)
(* preference when it is opened and verifies the copy, but asks for        *)
(* another code for whatever the preference holds by then; a verification  *)
(* removes it, even when its page is gone.                                 *)
(***************************************************************************)
EXTENDS Integers, Sequences

CONSTANTS Emails,        \* what the shopper types
          None,          \* an absent preference, an empty field
          Slots,         \* requests that can be under way at a time
          MaxDepth       \* bound: pages on the stack

ASSUME NoneAssumption == None \notin Emails
ASSUME DepthAssumption == MaxDepth \in Nat \ {0}

VARIABLES registerEmail, \* preference "registerEmail"
          pages,         \* the navigator's stack, the top page last
          reqs,          \* the requests under way
          accounts,      \* the shop: the accounts registered
          hasty,         \* history: a field was edited, or another request
                         \* sent, while a request was under way
          resends        \* history: the codes asked for on a code page

vars == <<registerEmail, pages, reqs, accounts, hasty, resends>>

\* text: what a sign-up or a sign-in page has in its field; what a code page
\* verifies
Page == [kind : {"home", "error", "signin", "signup", "otp"},
         text : Emails \union {None}]

Plain(kind) == [kind |-> kind, text |-> None]

\* page: the position of the page that asked, 0 when it is gone
\* to:   the e-mail that was sent
\* text: the field of a page that is gone
Request == [pc : {"idle", "sent", "ok", "unverified", "refused", "down"},
            kind : {"signin", "register", "sendcode", "verify", "resend"},
            page : 0..MaxDepth,
            to : Emails \union {None}, text : Emails \union {None}]

Sent(kind, page, to) ==
  [pc |-> "sent", kind |-> kind, page |-> page, to |-> to, text |-> None]

\* What becomes of a request when its page goes.
Orphan(r, text) ==
  [pc |-> r.pc, kind |-> r.kind, page |-> 0, to |-> r.to, text |-> text]

Idle == [pc |-> "idle", kind |-> "register", page |-> 0, to |-> None, text |-> None]

TypeOK ==
  /\ registerEmail \in Emails \union {None}
  /\ pages \in Seq(Page) /\ Len(pages) \in 1..MaxDepth
  /\ reqs \in [Slots -> Request]
  /\ \A q \in Slots : reqs[q].page <= Len(pages)
  /\ accounts \subseteq Emails \union {None}
  /\ hasty \in BOOLEAN
  /\ resends \subseteq [to : Emails \union {None}, shown : Emails \union {None}]

Init ==
  /\ registerEmail = None
  /\ pages = <<Plain("home")>>
  /\ reqs = [q \in Slots |-> Idle]
  /\ accounts \in SUBSET Emails
  /\ hasty = FALSE
  /\ resends = {}

Depth == Len(pages)
Top == pages[Depth]
Busy == \E q \in Slots : reqs[q].pc # "idle"

Push(page) == Depth < MaxDepth /\ pages' = Append(pages, page)

-----------------------------------------------------------------------------
(* Navigation                                                              *)

\* As in Recovery: with or without clearing the preferences.
OpenSignIn ==
  /\ Top.kind = "home" /\ Push(Plain("signin"))
  /\ registerEmail' \in {registerEmail, None}
  /\ UNCHANGED <<reqs, accounts, hasty, resends>>

GoHome ==
  /\ Top.kind \in {"signin", "error"} /\ Push(Plain("home"))
  /\ UNCHANGED <<registerEmail, reqs, accounts, hasty, resends>>

\* "Sign Up" of the sign-in page.  (The page for a forgotten password has the
\* same link; it lies on a sign-in page as well and is left out.)
OpenSignUp ==
  /\ Top.kind = "signin" /\ Push(Plain("signup"))
  /\ UNCHANGED <<registerEmail, reqs, accounts, hasty, resends>>

\* The sign-in page does not go: its Back is GoHome.
Back ==
  /\ Depth > 1 /\ Top.kind # "signin"
  /\ pages' = SubSeq(pages, 1, Depth - 1)
  /\ reqs' = [q \in Slots |->
                IF reqs[q].page = Depth THEN Orphan(reqs[q], Top.text) ELSE reqs[q]]
  /\ UNCHANGED <<registerEmail, accounts, hasty, resends>>

Restart ==
  /\ pages' = <<Plain("home")>>
  /\ reqs' = [q \in Slots |-> Idle]
  /\ UNCHANGED <<registerEmail, accounts, hasty, resends>>

-----------------------------------------------------------------------------
(* Taps                                                                    *)

Type(email) ==
  /\ Top.kind \in {"signin", "signup"}
  /\ pages' = [pages EXCEPT ![Depth].text = email]
  /\ hasty' = (hasty \/ Busy)
  /\ UNCHANGED <<registerEmail, reqs, accounts, resends>>

Ask(q, kind, to) ==
  /\ reqs[q].pc = "idle"
  /\ reqs' = [reqs EXCEPT ![q] = Sent(kind, Depth, to)]
  /\ hasty' = (hasty \/ Busy)

\* "Continue" on the sign-in page, whose fields validate.
SignIn(q) ==
  /\ Top.kind = "signin" /\ Top.text # None
  /\ Ask(q, "signin", Top.text)
  /\ UNCHANGED <<registerEmail, pages, accounts, resends>>

\* "Continue" on the sign-up page, whose fields validate.
SignUp(q) ==
  /\ Top.kind = "signup" /\ Top.text # None
  /\ Ask(q, "register", Top.text)
  /\ UNCHANGED <<registerEmail, pages, accounts, resends>>

\* Fault for the mutant runs: the preference is removed at the tap.
VerifyRemovesFirst(q) ==
  /\ Top.kind = "otp"
  /\ Ask(q, "verify", Top.text)
  /\ registerEmail' = None
  /\ UNCHANGED <<pages, accounts, resends>>

Verify(q) ==
  /\ Top.kind = "otp"
  /\ Ask(q, "verify", Top.text)
  /\ UNCHANGED <<registerEmail, pages, accounts, resends>>

\* "Resend OTP Code".
Resend(q) ==
  /\ Top.kind = "otp"
  /\ Ask(q, "resend", registerEmail)
  /\ resends' = resends \union {[to |-> registerEmail, shown |-> Top.text]}
  /\ UNCHANGED <<registerEmail, pages, accounts>>

-----------------------------------------------------------------------------
(* The shop (external)                                                     *)

\* An account can only be registered once, and only an account can be signed
\* in to or found not to be verified, a 405; a 500 only makes a difference to
\* "Resend", the one request that goes through the API module.
Serve(q) ==
  LET r == reqs[q] IN
  /\ r.pc = "sent"
  /\ \/ /\ r.kind = "register" => r.to \notin accounts
        /\ r.kind = "signin" => r.to \in accounts
        /\ reqs' = [reqs EXCEPT ![q].pc = "ok"]
        /\ accounts' = IF r.kind = "register" THEN accounts \union {r.to} ELSE accounts
     \/ /\ \/ reqs' = [reqs EXCEPT ![q].pc = "refused"]
           \/ /\ r.kind = "signin" /\ r.to \in accounts
              /\ reqs' = [reqs EXCEPT ![q].pc = "unverified"]
           \/ r.kind = "resend" /\ reqs' = [reqs EXCEPT ![q].pc = "down"]
        /\ UNCHANGED accounts
  /\ UNCHANGED <<registerEmail, pages, hasty, resends>>

Lose(q) ==
  /\ reqs[q].pc # "idle"
  /\ reqs' = [reqs EXCEPT ![q] = Idle]
  /\ UNCHANGED <<registerEmail, pages, accounts, hasty, resends>>

-----------------------------------------------------------------------------
(* Answers                                                                 *)

Answered(q, kind) == reqs[q].pc \notin {"idle", "sent"} /\ reqs[q].kind = kind

End(q) == reqs' = [reqs EXCEPT ![q] = Idle]

\* The field as it is by now.
TextOf(r) == IF r.page = 0 THEN r.text ELSE pages[r.page].text

\* Fault for the mutant runs: any error of a sign-in opens the code page.
AnswerSignInUnchecked(q) ==
  LET r == reqs[q] IN
  /\ Answered(q, "signin")
  /\ End(q)
  /\ registerEmail' = IF r.pc # "ok" THEN TextOf(r) ELSE registerEmail
  /\ Push(IF r.pc = "ok" THEN Plain("home") ELSE [kind |-> "otp", text |-> TextOf(r)])
  /\ UNCHANGED <<accounts, hasty, resends>>

\* 200: on to the home page.  405: the preference is written, from the field
\* as it is by now, and the code page opened, on whatever page is on top by
\* now.  Any other status shows a message.
AnswerSignIn(q) ==
  LET r == reqs[q] IN
  /\ Answered(q, "signin")
  /\ End(q)
  /\ registerEmail' = IF r.pc = "unverified" THEN TextOf(r) ELSE registerEmail
  /\ CASE r.pc = "ok" -> Push(Plain("home"))
       [] r.pc = "unverified" -> Push([kind |-> "otp", text |-> TextOf(r)])
       [] OTHER -> UNCHANGED pages
  /\ UNCHANGED <<accounts, hasty, resends>>

\* 200: the code is asked for, for the e-mail in the field by now.  Any other
\* status shows a message; a page that is gone ends the handler.
AnswerRegister(q) ==
  LET r == reqs[q] IN
  /\ Answered(q, "register")
  /\ reqs' = [reqs EXCEPT ![q] =
                IF r.pc = "ok" /\ r.page # 0
                THEN Sent("sendcode", r.page, TextOf(r))
                ELSE Idle]
  /\ UNCHANGED <<registerEmail, pages, accounts, hasty, resends>>

\* The answer is not looked at: the preference is written, and then the code
\* page is opened if there still is a page to open it from.
AnswerSendCode(q) ==
  LET r == reqs[q] IN
  /\ Answered(q, "sendcode")
  /\ End(q)
  /\ registerEmail' = TextOf(r)
  /\ IF r.page # 0 THEN Push([kind |-> "otp", text |-> TextOf(r)]) ELSE UNCHANGED pages
  /\ UNCHANGED <<accounts, hasty, resends>>

\* A success removes the preference, before it turns out whether there still
\* is a page to go on from.
AnswerVerify(q) ==
  LET r == reqs[q] IN
  /\ Answered(q, "verify")
  /\ End(q)
  /\ registerEmail' = IF r.pc = "ok" THEN None ELSE registerEmail
  /\ IF r.pc = "ok" /\ r.page # 0 THEN Push(Plain("signin")) ELSE UNCHANGED pages
  /\ UNCHANGED <<accounts, hasty, resends>>

AnswerResend(q) ==
  /\ Answered(q, "resend")
  /\ End(q)
  /\ IF reqs[q].pc = "down" THEN Push(Plain("error")) ELSE UNCHANGED pages
  /\ UNCHANGED <<registerEmail, accounts, hasty, resends>>

-----------------------------------------------------------------------------
Next ==
  \/ OpenSignIn \/ GoHome \/ OpenSignUp \/ Back \/ Restart
  \/ \E email \in Emails : Type(email)
  \/ \E q \in Slots :
       \/ SignIn(q) \/ SignUp(q) \/ Verify(q) \/ Resend(q) \/ Serve(q) \/ Lose(q)
       \/ AnswerSignIn(q)
       \/ AnswerRegister(q) \/ AnswerSendCode(q) \/ AnswerVerify(q) \/ AnswerResend(q)

Spec == Init /\ [][Next]_vars

-----------------------------------------------------------------------------
(* Properties                                                              *)

(***************************************************************************)
(* A code page is only opened for an account that has been registered, by  *)
(* a sign-up or by a sign-in, as long as the shopper leaves the forms      *)
(* alone while one of them is at work.                                     *)
(***************************************************************************)
CodeForAccount ==
  ~hasty => \A i \in DOMAIN pages : pages[i].kind = "otp" => pages[i].text \in accounts

(***************************************************************************)
(* For such a shopper another code is sent to the e-mail the page goes on  *)
(* to verify, although one is read from the preference at the tap and the  *)
(* other was copied from it when the page was opened.                      *)
(***************************************************************************)
ResendReachesShown == ~hasty => \A r \in resends : r.to = r.shown

(***************************************************************************)
(* Why: Back reaches one code page at most, for it stops at a sign-in page *)
(* and every sign-up page lies on one; what is under way for a shopper who *)
(* waits belongs to the page on top, or to no page, or to a sign-in page   *)
(* below; and in the last two cases no code page is within reach.          *)
(***************************************************************************)
Reachable(i) == \A j \in DOMAIN pages : j > i => pages[j].kind # "signin"

Stacked ==
  \A i \in DOMAIN pages :
    pages[i].kind = "signup" => i > 1 /\ pages[i - 1].kind = "signin"

CodeInReach(i) == pages[i].kind = "otp" /\ Reachable(i)

NoCodeInReach == \A i \in DOMAIN pages : ~CodeInReach(i)

OneCodeInReach ==
  \A i, j \in DOMAIN pages : CodeInReach(i) /\ CodeInReach(j) => i = j

PagesOfEmail ==
  \A i \in DOMAIN pages : CodeInReach(i) => pages[i].text = registerEmail

RequestsOfTop ==
  \A q \in Slots : LET r == reqs[q] IN r.pc # "idle" =>
    /\ r.kind # "signin" /\ r.page # 0 =>
         /\ r.page = Depth
         /\ Top.kind = IF r.kind \in {"register", "sendcode"} THEN "signup" ELSE "otp"
         /\ r.kind \in {"register", "sendcode"} => Top.text = r.to
    /\ r.kind = "signin" =>
         /\ r.page # 0 /\ pages[r.page].kind = "signin" /\ pages[r.page].text = r.to
         /\ NoCodeInReach
    /\ r.page = 0 /\ r.kind # "resend" => NoCodeInReach
    /\ r.pc = "ok" /\ r.kind = "register" => r.to \in accounts
    /\ r.pc = "unverified" \/ r.kind = "sendcode" => r.to \in accounts

OneAtATime == \A q, r \in Slots : reqs[q].pc # "idle" /\ reqs[r].pc # "idle" => q = r

IInv ==
  /\ TypeOK /\ Stacked
  /\ ~hasty => /\ OneCodeInReach /\ PagesOfEmail /\ RequestsOfTop /\ OneAtATime
               /\ CodeForAccount /\ ResendReachesShown
=============================================================================
