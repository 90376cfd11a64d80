---------------------------- MODULE SubmitButton ----------------------------
(***************************************************************************)
(* The buttons that guard themselves against a second tap: "Checkout" of   *)
(* the two receipt pages (30 seconds) and "Continue" of the two address    *)
(* forms (5 seconds).  A tap disables the button, starts a timer and sends *)
(* a request; it is the timer, not the answer, that enables the button     *)
(* again.  So the guard is only as good as the shop is fast: the module    *)
(* says how fast it has to be.                                             *)
(*                                                                         *)
(* Time is counted in whole ticks.  The event loop runs a timer that is    *)
(* due before time goes on, and no request takes longer than MaxLatency.   *)
(***************************************************************************)
EXTENDS Integers

CONSTANTS Pages,         \* the pages opened, each with a button of its own
          Requests,      \* the requests that can be under way
          Debounce,      \* how long a button stays disabled
          MaxLatency     \* how long a request takes at most

ASSUME DebounceAssumption == Debounce \in Nat \ {0}
ASSUME LatencyAssumption == MaxLatency \in Nat \ {0}

VARIABLES page,          \* new, shown, or gone when it was left
          onPressedValue,  \* the button can be pressed
          left,          \* the time left on a page's timer, or NoTimer
          requests       \* the requests, with their ages

buttonVars == <<page, onPressedValue, left, requests>>

NoTimer == -1

ButtonTypeOK ==
  /\ page \in [Pages -> {"new", "shown", "gone"}]
  /\ onPressedValue \in [Pages -> BOOLEAN]
  /\ left \in [Pages -> NoTimer..Debounce]
  /\ requests \in [Requests -> [sent : BOOLEAN, page : Pages, age : 0..MaxLatency]]

ButtonInit ==
  /\ page = [p \in Pages |-> "new"]
  /\ onPressedValue = [p \in Pages |-> TRUE]
  /\ left = [p \in Pages |-> NoTimer]
  /\ requests \in [Requests -> [sent : {FALSE}, page : Pages, age : {0}]]

Open(p) ==
  /\ page[p] = "new"
  /\ page' = [page EXCEPT ![p] = "shown"]
  /\ UNCHANGED <<onPressedValue, left, requests>>

\* Leaving the page cancels neither its timer nor its request.
Leave(p) ==
  /\ page[p] = "shown"
  /\ page' = [page EXCEPT ![p] = "gone"]
  /\ UNCHANGED <<onPressedValue, left, requests>>

Send(p, r) == requests' = [requests EXCEPT ![r] = [sent |-> TRUE, page |-> p, age |-> 0]]

\* Fault for the mutant runs: the button is disabled but nothing in the
\* handler asks whether it was.
PressUnguarded(p, r, valid) ==
  /\ page[p] = "shown"
  /\ ~requests[r].sent
  /\ onPressedValue' = [onPressedValue EXCEPT ![p] = FALSE]
  /\ left' = [left EXCEPT ![p] = Debounce]
  /\ IF valid THEN Send(p, r) ELSE UNCHANGED requests
  /\ UNCHANGED page

\* Fault for the mutant runs: the timer is only started with a request.
PressValidThenTimer(p, r, valid) ==
  /\ page[p] = "shown"
  /\ onPressedValue[p]
  /\ ~requests[r].sent
  /\ onPressedValue' = [onPressedValue EXCEPT ![p] = FALSE]
  /\ IF valid THEN left' = [left EXCEPT ![p] = Debounce] /\ Send(p, r)
              ELSE UNCHANGED <<left, requests>>
  /\ UNCHANGED page

\* The tap: a form that does not validate disables its button just the same.
Press(p, r, valid) ==
  /\ page[p] = "shown"
  /\ onPressedValue[p]
  /\ ~requests[r].sent
  /\ onPressedValue' = [onPressedValue EXCEPT ![p] = FALSE]
  /\ left' = [left EXCEPT ![p] = Debounce]
  /\ IF valid THEN Send(p, r) ELSE UNCHANGED requests
  /\ UNCHANGED page

Due(p) == left[p] = 0

\* The timer of a button fires.
Rearm(p) ==
  /\ Due(p)
  /\ onPressedValue' = [onPressedValue EXCEPT ![p] = TRUE]
  /\ left' = [left EXCEPT ![p] = NoTimer]
  /\ UNCHANGED <<page, requests>>

\* The request ends, one way or another; no handler touches the button.
Answer(r) ==
  /\ requests[r].sent
  /\ requests' = [requests EXCEPT ![r].sent = FALSE]
  /\ UNCHANGED <<page, onPressedValue, left>>

Tick ==
  /\ \A p \in Pages : ~Due(p)
  /\ \A r \in Requests : requests[r].sent => requests[r].age < MaxLatency
  /\ left' = [p \in Pages |-> IF left[p] > 0 THEN left[p] - 1 ELSE left[p]]
  /\ requests' = [r \in Requests |->
                IF requests[r].sent THEN [requests[r] EXCEPT !.age = @ + 1] ELSE requests[r]]
  /\ UNCHANGED <<page, onPressedValue>>

ButtonNext ==
  \/ \E p \in Pages : \/ Open(p) \/ Leave(p) \/ Rearm(p)
                      \/ \E r \in Requests, valid \in BOOLEAN : Press(p, r, valid)
  \/ \E r \in Requests : Answer(r)
  \/ Tick

\* Time goes on, timers fire and requests end.
Fairness ==
  /\ WF_buttonVars(Tick)
  /\ \A p \in Pages : WF_buttonVars(Rearm(p))
  /\ \A r \in Requests : WF_buttonVars(Answer(r))

ButtonSpec == ButtonInit /\ [][ButtonNext]_buttonVars /\ Fairness

-----------------------------------------------------------------------------
(* Properties                                                              *)

(***************************************************************************)
(* No page has two requests under way: what disabling the button is for.   *)
(* It depends on the shop answering within the time the button stays       *)
(* disabled; leaving the page and opening it again gives a new button, so  *)
(* two pages may well have one each.                                       *)
(***************************************************************************)
OneAtATime ==
  MaxLatency < Debounce =>
    \A r, s \in Requests :
      requests[r].sent /\ requests[s].sent /\ requests[r].page = requests[s].page => r = s

(***************************************************************************)
(* A disabled button comes back, even when the form did not validate or    *)
(* the request failed.                                                     *)
(***************************************************************************)
ButtonComesBack ==
  \A p \in Pages : ~onPressedValue[p] ~> onPressedValue[p]

(***************************************************************************)
(* Why OneAtATime holds: the timer of a button and the request its tap     *)
(* sent run together, so that the timer cannot be due before the request   *)
(* is at an age it never reaches.                                          *)
(***************************************************************************)
RunTogether ==
  \A r \in Requests : requests[r].sent =>
    /\ ~onPressedValue[requests[r].page]
    /\ left[requests[r].page] + requests[r].age = Debounce

ButtonInv == ButtonTypeOK /\ (MaxLatency < Debounce => RunTogether /\ OneAtATime)
=============================================================================
