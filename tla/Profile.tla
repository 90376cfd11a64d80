------------------------------- MODULE Profile -------------------------------
(***************************************************************************)
(* "My Account": the form with a customer's e-mail, name and picture, on   *)
(* the navigator's stack and across sign-ins.                              *)
(*                                                                         *)
(*  - The form is filled by two fetches, each of which overwrites what has *)
(*    been typed in the meantime.                                          *)
(*  - The picture picked for a form is kept by the process, for every form *)
(*    after it.  "Remove" puts a file in its place that does not exist, and *)
(*    "Continue" fails on it without a word.                               *)
(*  - A save is sent with the token of the time, and shows the home page:  *)
(*    on top of the form when there is a picture, in place of the top page *)
(*    when there is none.                                                  *)
(*  - Back never takes the form, the profile page or the sign-in page off: *)
(*    each pushes another page.  The dialog of "Log Out" comes over        *)
(*    whatever page is on top when its colours have arrived.               *)
(*  - The e-mail a change of password is sent with is the preference the   *)
(*    sign-in wrote.                                                       *)
(***************************************************************************)
EXTENDS Integers, Sequences, SequencesExt, FiniteSets

CONSTANTS Customers,
          Others,        \* e-mails and names other than those of the beginning,
                         \* which are the customer's own
          None,          \* no customer, an empty field
          Slots,         \* saves and password changes under way at a time
          MaxDepth,      \* bound: pages on the stack
          MaxActs        \* bound: fields typed in, saves, password changes,
                         \* sign-ins, and requests refused or lost, together

ASSUME ValuesAssumption == None \notin Others \union Customers
ASSUME BoundsAssumption == MaxDepth \in Nat \ {0} /\ MaxActs \in Nat

VARIABLES shop,          \* the e-mails and names of the accounts
          token,         \* the preference loggedIntoken
          mail,          \* the preference email
          file,          \* _file: "none", "picked", or "gone" after "Remove"
          pages,         \* the navigator's stack, the top page last
          reqs,          \* saves and password changes under way
          acts,          \* how much of MaxActs is used up
          faulty,        \* history: a request was refused or lost
          meant,         \* history: what each customer means the account to say
          renamed,       \* history: the customers who changed their e-mail
          hasty,         \* history: a save tapped, or a form left, while a save
                         \* was under way
          early,         \* history: a field typed in before the form was filled
          dead           \* history: "Continue" tapped after "Remove"

vars == <<shop, token, mail, file, pages, reqs, acts, faulty, meant,
          renamed, hasty, early, dead>>
counters == <<acts, faulty>>
history == <<meant, renamed, hasty, early, dead>>

Values == Customers \union Others
Fields == {"email", "name"}
Text == [Fields -> Values \union {None}]
Blank == [f \in Fields |-> None]
Account == [Fields -> Values]

\* What has become of a fetch: sent, answered with a text, or over.
Sent == [pc |-> "sent"]
Over == [pc |-> "over"]
Fetch == {Sent, Over} \union [pc : {"answered"}, text : Account]

Plain(kind) == [kind |-> kind]
PlainKinds == {"home", "dialog", "signin", "password", "error"}
\* Its menu is that of the customer, or the guest, who opened it.  The colours
\* of its dialog are fetched before the dialog comes.
ProfilePage == [kind : {"profile"}, customer : BOOLEAN, asked : BOOLEAN]
NewProfilePage == [kind |-> "profile", customer |-> token # None, asked |-> FALSE]
FormPage == [kind  : {"form"},
             owner : Customers \union {None}, \* who was signed in at its opening
             text  : Text,
             typed : Text,                    \* history: typed since the last save
             profile : Fetch, get : Fetch]

Idle == [pc |-> "idle"]
Request == [pc   : {"sent", "ok", "refused"},
            kind : {"save", "password"},
            page : 0..MaxDepth,              \* the page that sent it, 0: gone
            as   : Customers \union {None},  \* whose token it carries
            text : Text,
            pic  : BOOLEAN,                  \* with the picture
            mail : Values \union {None}]     \* the e-mail of a password change

TypeOK ==
  /\ shop \in [Customers -> Account]
  /\ token \in Customers \union {None} /\ mail \in Values \union {None}
  /\ file \in {"none", "picked", "gone"}
  /\ pages \in Seq({Plain(k) : k \in PlainKinds} \union
                   ProfilePage \union FormPage)
  /\ Len(pages) \in 1..MaxDepth
  /\ reqs \in [Slots -> {Idle} \union Request]
  /\ acts \in 0..MaxActs
  /\ meant \in [Customers -> Account] /\ renamed \subseteq Customers
  /\ {faulty, hasty, early, dead} \subseteq BOOLEAN

Depth == Len(pages)
Top == Last(pages)
Busy(q) == reqs[q] # Idle
Saving == \E q \in Slots : Busy(q) /\ reqs[q].kind = "save"

\* One more of what MaxActs bounds.
Act == acts < MaxActs /\ acts' = acts + 1
Fault == Act /\ faulty' = TRUE

\* A start with or without a customer signed in by the process before.
Init ==
  /\ shop = [c \in Customers |-> [f \in Fields |-> c]]
  /\ token \in Customers \union {None} /\ mail = token /\ file = "none"
  /\ pages = <<Plain("home")>>
  /\ reqs = [q \in Slots |-> Idle]
  /\ acts = 0 /\ faulty = FALSE
  /\ meant = shop
  /\ renamed = {} /\ hasty = FALSE /\ early = FALSE /\ dead = FALSE

-----------------------------------------------------------------------------
(* Navigation                                                              *)

\* Answers push pages too: the last place of the stack is theirs.
Push(page) == Depth < MaxDepth - 1 /\ pages' = Append(pages, page)

Leave == hasty' = (hasty \/ (Top.kind = "form" /\ Saving))

\* The menu of a customer's profile page.
Menu == Top.kind = "profile" /\ Top.customer

\* The bottom bar's icons, and the error page's way home.
OpenHome ==
  /\ Top.kind \in {"profile", "error"} /\ Push(Plain("home"))
  /\ UNCHANGED <<shop, token, mail, file, reqs, counters, history>>

OpenProfile ==
  /\ Top.kind = "home" /\ Push(NewProfilePage)
  /\ UNCHANGED <<shop, token, mail, file, reqs, counters, history>>

\* A guest's favourites icon, and "Log In" of a guest's profile page, which
\* clears the preferences.
OpenSignIn ==
  /\ Push(Plain("signin"))
  /\ \/ Top.kind = "home" /\ token = None /\ UNCHANGED <<token, mail>>
     \/ Top.kind = "profile" /\ ~Top.customer /\ token' = None /\ mail' = None
  /\ UNCHANGED <<shop, file, reqs, counters, history>>

\* "Log Out" fetches the colours of a dialog.  Tapped again meanwhile, it counts
\* as tapped once.
OpenDialog ==
  /\ Menu
  /\ pages' = [pages EXCEPT ![Depth] = [@ EXCEPT !.asked = TRUE]]
  /\ UNCHANGED <<shop, token, mail, file, reqs, counters, history>>

\* The dialog comes over whatever page is on top by then; or a 500 puts the
\* error page there.
ShowDialog(k) ==
  /\ pages[k].kind = "profile" /\ pages[k].asked /\ Depth < MaxDepth
  /\ \E kind \in {"dialog", "error"} :
       /\ pages' = Append([pages EXCEPT ![k] = [@ EXCEPT !.asked = FALSE]], Plain(kind))
       /\ IF kind = "error" THEN Fault ELSE UNCHANGED counters
  /\ Leave
  /\ UNCHANGED <<shop, token, mail, file, reqs, meant, renamed, early, dead>>

\* Its "Confirm" clears the preferences.
SignOut ==
  /\ Top.kind = "dialog" /\ Push(Plain("signin"))
  /\ token' = None /\ mail' = None
  /\ UNCHANGED <<shop, file, reqs, counters, history>>

\* Fault for the mutant runs: a sign-in leaves the e-mail that is there.
SignInKeepsMail(c) ==
  /\ Top.kind = "signin" /\ Act /\ Push(Plain("home"))
  /\ token' = c
  /\ mail' = IF mail = None THEN shop[c]["email"] ELSE mail
  /\ UNCHANGED <<shop, file, reqs, faulty, meant, renamed, hasty, early, dead>>

\* The sign-in page stays below the home page it pushes.
SignIn(c) ==
  /\ Top.kind = "signin" /\ Act /\ Push(Plain("home"))
  /\ token' = c /\ mail' = shop[c]["email"]
  /\ UNCHANGED <<shop, file, reqs, faulty, meant, renamed, hasty, early, dead>>

\* "My Account": the form asks twice for what fills it.
OpenForm ==
  /\ Menu
  /\ Push([kind |-> "form", owner |-> token, text |-> Blank, typed |-> Blank,
           profile |-> Sent, get |-> Sent])
  /\ UNCHANGED <<shop, token, mail, file, reqs, counters, history>>

OpenPassword ==
  /\ Menu /\ Push(Plain("password"))
  /\ UNCHANGED <<shop, token, mail, file, reqs, counters, history>>

\* The requests when the page at position k goes.
Forget(k) == [q \in Slots |-> IF Busy(q) /\ reqs[q].page = k
                              THEN [reqs[q] EXCEPT !.page = 0] ELSE reqs[q]]

Pop ==
  /\ Depth > 1
  /\ pages' = Front(pages)
  /\ reqs' = Forget(Depth)
  /\ Leave
  /\ UNCHANGED <<shop, token, mail, file, counters, meant, renamed, early, dead>>

\* Fault for the mutant runs: only the form keeps Back from taking it off.
BackPopsOthers ==
  \/ Top.kind # "form" /\ Pop
  \/ /\ Top.kind = "form" /\ Push(NewProfilePage)
     /\ Leave
     /\ UNCHANGED <<shop, token, mail, file, reqs, counters, meant, renamed, early, dead>>

Back ==
  \/ Top.kind \in {"home", "dialog", "password", "error"} /\ Pop
  \/ /\ \/ Top.kind = "form" /\ Push(NewProfilePage)
        \/ Top.kind \in {"profile", "signin"} /\ Push(Plain("home"))
     /\ Leave
     /\ UNCHANGED <<shop, token, mail, file, reqs, counters, meant, renamed, early, dead>>

\* The process ends: the preferences stay, the picture does not.
Restart ==
  /\ pages' = <<Plain("home")>>
  /\ reqs' = [q \in Slots |-> Idle]
  /\ file' = "none"
  /\ hasty' = (hasty \/ Saving)
  /\ UNCHANGED <<shop, token, mail, counters, meant, renamed, early, dead>>

-----------------------------------------------------------------------------
(* The form                                                                *)

SetTop(form) == pages' = [pages EXCEPT ![Depth] = form]

Type(f, v) ==
  /\ Top.kind = "form" /\ Act
  /\ SetTop([Top EXCEPT !.text = [@ EXCEPT ![f] = v], !.typed = [@ EXCEPT ![f] = v]])
  /\ early' = (early \/ Top.profile # Over \/ Top.get # Over)
  /\ UNCHANGED <<shop, token, mail, file, reqs, faulty, meant, renamed, hasty, dead>>

\* The camera or the gallery.
Pick ==
  /\ Top.kind = "form"
  /\ file' = "picked"
  /\ UNCHANGED <<shop, token, mail, pages, reqs, counters, history>>

RemovePicture ==
  /\ Top.kind = "form"
  /\ file' = "gone"
  /\ UNCHANGED <<shop, token, mail, pages, reqs, counters, history>>

\* What the customer means after saving: the fields typed in, the others as
\* they were.
Meaning(c) == [f \in Fields |-> IF Top.typed[f] = None THEN meant[c][f] ELSE Top.typed[f]]

\* Fault for the mutant runs: the form is not validated.
SavedUnvalidated ==
  /\ Top.kind = "form" /\ Act
  /\ SetTop([Top EXCEPT !.typed = Blank])
  /\ meant' = IF Top.owner \in Customers
              THEN [meant EXCEPT ![Top.owner] = Meaning(Top.owner)] ELSE meant
  /\ hasty' = (hasty \/ Saving)

\* What every "Continue" does of a form whose fields are all filled in.
Saved ==
  /\ Top.kind = "form" /\ Act
  /\ None \notin {Top.text[f] : f \in Fields}
  /\ SetTop([Top EXCEPT !.typed = Blank])
  /\ meant' = IF Top.owner \in Customers
              THEN [meant EXCEPT ![Top.owner] = Meaning(Top.owner)] ELSE meant
  /\ hasty' = (hasty \/ Saving)

\* "Continue": what the form shows, with the token and the picture there are.
TapSave(q) ==
  /\ Saved /\ ~Busy(q) /\ file # "gone"
  /\ reqs' = [reqs EXCEPT ![q] = [pc |-> "sent", kind |-> "save", page |-> Depth,
                as |-> token, text |-> Top.text, pic |-> file = "picked", mail |-> None]]
  /\ UNCHANGED <<shop, token, mail, file, faulty, renamed, early, dead>>

\* The length of the removed picture cannot be read: the handler ends.
TapSaveRemoved ==
  /\ Saved /\ file = "gone"
  /\ dead' = TRUE
  /\ UNCHANGED <<shop, token, mail, file, reqs, faulty, renamed, early>>

\* "Continue" of the password page: token and e-mail are the preferences.
TapPassword(q) ==
  /\ Top.kind = "password" /\ ~Busy(q) /\ Act
  /\ reqs' = [reqs EXCEPT ![q] = [pc |-> "sent", kind |-> "password", page |-> Depth,
                as |-> token, text |-> Blank, pic |-> FALSE, mail |-> mail]]
  /\ UNCHANGED <<shop, token, mail, file, pages, faulty, history>>

-----------------------------------------------------------------------------
(* The shop (external)                                                     *)

ServeFetch(k) ==
  /\ pages[k].kind = "form" /\ pages[k].owner # None
  /\ LET answer == [pc |-> "answered", text |-> shop[pages[k].owner]] IN
       \/ pages[k].profile = Sent /\ pages' = [pages EXCEPT ![k] = [@ EXCEPT !.profile = answer]]
       \/ pages[k].get = Sent /\ pages' = [pages EXCEPT ![k] = [@ EXCEPT !.get = answer]]
  /\ UNCHANGED <<shop, token, mail, file, reqs, counters, history>>

\* Pictures are no part of the account that is modelled, nor are passwords.
ServeSave(q) ==
  LET r == reqs[q] IN
  /\ Busy(q) /\ r.kind = "save" /\ r.pc = "sent" /\ r.as # None
  /\ shop' = [shop EXCEPT ![r.as] = r.text]
  /\ reqs' = [reqs EXCEPT ![q] = [r EXCEPT !.pc = "ok"]]
  /\ renamed' = IF r.text["email"] # shop[r.as]["email"]
                THEN renamed \union {r.as} ELSE renamed
  /\ UNCHANGED <<token, mail, file, pages, counters, meant, hasty, early, dead>>

ServePassword(q) ==
  /\ Busy(q) /\ reqs[q].kind = "password" /\ reqs[q].pc = "sent" /\ reqs[q].as # None
  /\ reqs' = [reqs EXCEPT ![q] = [@ EXCEPT !.pc = "ok"]]
  /\ UNCHANGED <<shop, token, mail, file, pages, counters, history>>

\* Without a token always, else as a fault.
Refuse(q) ==
  /\ Busy(q) /\ reqs[q].pc = "sent"
  /\ IF reqs[q].as = None THEN UNCHANGED counters ELSE Fault
  /\ reqs' = [reqs EXCEPT ![q] = [@ EXCEPT !.pc = "refused"]]
  /\ UNCHANGED <<shop, token, mail, file, pages, history>>

-----------------------------------------------------------------------------
(* The answers                                                             *)

\* getProfile and profileget: the one fills every field, the other the name.
AnswerProfile(k) ==
  /\ pages[k].kind = "form" /\ pages[k].profile.pc = "answered"
  /\ pages' = [pages EXCEPT ![k] =
                 [@ EXCEPT !.text = pages[k].profile.text, !.profile = Over]]
  /\ UNCHANGED <<shop, token, mail, file, reqs, counters, history>>

AnswerGet(k) ==
  /\ pages[k].kind = "form" /\ pages[k].get.pc = "answered"
  /\ pages' = [pages EXCEPT ![k] =
                 [@ EXCEPT !.text["name"] = pages[k].get.text["name"], !.get = Over]]
  /\ UNCHANGED <<shop, token, mail, file, reqs, counters, history>>

\* An answer that cannot be decoded, or none.
LoseFetch(k) ==
  /\ pages[k].kind = "form" /\ Fault
  /\ \/ pages[k].profile # Over /\ pages' = [pages EXCEPT ![k] = [@ EXCEPT !.profile = Over]]
     \/ pages[k].get # Over /\ pages' = [pages EXCEPT ![k] = [@ EXCEPT !.get = Over]]
  /\ UNCHANGED <<shop, token, mail, file, reqs, history>>

\* A 500 of getProfile also puts the error page on top.
FailFetch(k) ==
  /\ pages[k].kind = "form" /\ pages[k].profile # Over
  /\ Fault
  /\ Depth < MaxDepth
  /\ pages' = Append([pages EXCEPT ![k] = [@ EXCEPT !.profile = Over]], Plain("error"))
  /\ Leave
  /\ UNCHANGED <<shop, token, mail, file, reqs, meant, renamed, early, dead>>

Done(q) == [Forget(Depth) EXCEPT ![q] = Idle]

\* 200, and the form still there: the home page, over the top page or in its
\* place.  Nothing else shows anything.
AnswerSave(q) ==
  LET r == reqs[q] IN
  /\ Busy(q) /\ r.kind = "save" /\ r.pc # "sent"
  /\ IF r.pc = "refused" \/ r.page = 0
     THEN reqs' = [reqs EXCEPT ![q] = Idle] /\ UNCHANGED pages
     ELSE IF ~r.pic
     THEN pages' = Append(Front(pages), Plain("home")) /\ reqs' = Done(q)
     ELSE /\ Depth < MaxDepth /\ pages' = Append(pages, Plain("home"))
          /\ reqs' = [reqs EXCEPT ![q] = Idle]
  /\ UNCHANGED <<shop, token, mail, file, counters, history>>

\* The message is shown.
AnswerPassword(q) ==
  /\ Busy(q) /\ reqs[q].kind = "password" /\ reqs[q].pc # "sent"
  /\ reqs' = [reqs EXCEPT ![q] = Idle]
  /\ UNCHANGED <<shop, token, mail, file, pages, counters, history>>

Lose(q) ==
  /\ Busy(q) /\ reqs[q].pc # "refused" /\ Fault
  /\ reqs' = [reqs EXCEPT ![q] = Idle]
  /\ UNCHANGED <<shop, token, mail, file, pages, history>>

-----------------------------------------------------------------------------
Next ==
  \/ OpenHome \/ OpenProfile \/ OpenSignIn \/ OpenDialog \/ SignOut
  \/ OpenForm \/ OpenPassword \/ Back \/ Restart
  \/ \E c \in Customers : SignIn(c)
  \/ \E f \in Fields, v \in Others : Type(f, v)
  \/ Pick \/ RemovePicture \/ TapSaveRemoved
  \/ \E q \in Slots : \/ TapSave(q) \/ TapPassword(q)
                      \/ ServeSave(q) \/ ServePassword(q) \/ Refuse(q)
                      \/ AnswerSave(q) \/ AnswerPassword(q) \/ Lose(q)
  \/ \E k \in DOMAIN pages : \/ ServeFetch(k) \/ LoseFetch(k) \/ FailFetch(k)
                             \/ AnswerProfile(k) \/ AnswerGet(k) \/ ShowDialog(k)

Spec == Init /\ [][Next]_vars

-----------------------------------------------------------------------------
(* Properties                                                              *)

(***************************************************************************)
(* The form that is shown is that of the customer who is signed in, though *)
(* forms of others are still on the stack, as long as nobody leaves a form *)
(* or taps again while a save is under way.                                *)
(***************************************************************************)
FormOfSession == ~hasty /\ Top.kind = "form" => Top.owner = token

(***************************************************************************)
(* When no save is under way an account says what its customer typed last, *)
(* and no form that was filled long ago has put anything back: unless a    *)
(* save was doubled or left, a field was typed in before the form was      *)
(* filled, "Continue" was tapped after "Remove", or the shop refused.      *)
(***************************************************************************)
AsMeant ==
  ~hasty /\ ~early /\ ~dead /\ ~faulty /\ ~Saving
    => shop = meant

(***************************************************************************)
(* A change of password is sent with the token and the e-mail of one       *)
(* account, unless that account's e-mail was changed in the form, which    *)
(* leaves the preference behind.                                           *)
(***************************************************************************)
PasswordByOwnEmail ==
  \A q \in Slots :
    Busy(q) /\ reqs[q].kind = "password" /\ reqs[q].as \notin renamed \union {None}
      => reqs[q].mail = shop[reqs[q].as]["email"]
=============================================================================
