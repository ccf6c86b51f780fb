--------------------------- MODULE ProjectionPages ---------------------------
(* The pages of the examples that show a managed projection: the ones of    *)
(* todo-web and travel-booking, and two each of cqrs-order and              *)
(* ddd-order-management.  An effect of a page asks for the projection's     *)
(* state and subscribes to its updates.  The effect ends when the page is   *)
(* left or turns to another subject; in development React ends every first  *)
(* effect at once and runs it again.                                        *)
(*                                                                          *)
(* A state is named by its subject and by the number of facts in it.  Two   *)
(* assumptions about the engine and its client: connecting sends the        *)
(* current state, and a subscription is torn down by nobody but its owner.  *)
EXTENDS Integers, Sequences

CONSTANTS Effects,   \* slots for effects that are not over yet
          MaxFacts   \* bound on the facts of all subjects together

ASSUME FactsAssumption == MaxFacts \in Nat

VARIABLES
  page,      \* which of the pages, "none" when the tab shows something else
  subject,   \* whose state it shows, "none" while it is closed
  effect,
  kept,      \* the effect whose subscription the page's ref holds
  facts,     \* facts[s]: how many facts the projection has folded for s
  display    \* the state on the page

pagesVars == <<page, subject, effect, kept, facts, display>>

-----------------------------------------------------------------------------
(* How the pages differ.  "beside": it subscribes without waiting for the   *)
(* answer.  "answers", "frames": those of an effect that is over are        *)
(* ignored.  "tidy": a subscription that comes too late is closed at once.  *)
(* "stops": an effect that is over does not subscribe any more.  "polls":   *)
(* what it does when it cannot subscribe.                                   *)

TodoPage == [beside |-> TRUE, answers |-> TRUE, frames |-> TRUE, tidy |-> TRUE, stops |-> FALSE, polls |-> FALSE]
TripPage == [TodoPage EXCEPT !.beside = FALSE]
DashboardPage == [TripPage EXCEPT !.frames = FALSE]
DetailPage == [DashboardPage EXCEPT !.answers = FALSE, !.stops = TRUE]
ListPage == [DetailPage EXCEPT !.tidy = FALSE, !.stops = FALSE, !.polls = TRUE]
SummaryPage == ListPage

Pages == [todo |-> TodoPage, trip |-> TripPage, dashboard |-> DashboardPage, detail |-> DetailPage,
          list |-> ListPage, summary |-> SummaryPage]
This == Pages[page]

(* The dashboard shows the customer it is turned to.                        *)
Subjects == {"a", "b"}
Turns == IF page = "dashboard" THEN Subjects ELSE {subject}

Nothing == [of |-> "none", facts |-> 0]
Over == [of |-> "none", live |-> FALSE, mine |-> FALSE, asked |-> "done", answer |-> 0, link |-> "closed",
         frames |-> <<>>]
(* The slot of an effect that is over and has nothing under way.            *)
FreeSlot(e) ==
  ~effect[e].live /\ effect[e].asked = "done" /\ effect[e].link = "closed"

InitPages ==
  /\ page \in DOMAIN Pages \cup {"none"}
  /\ subject = "none"
  /\ effect = [e \in Effects |-> Over]
  /\ kept \in {0}
  /\ facts = [s \in Subjects |-> 0]
  /\ display = Nothing

-----------------------------------------------------------------------------
(* Effects begin and end.                                                   *)

Began(s) ==
  [Over EXCEPT !.of = s, !.live = TRUE, !.mine = TRUE, !.asked = "asked",
               !.link = IF This.beside THEN "connecting" ELSE "off"]

Closed(r) == [r EXCEPT !.link = "closed", !.frames = <<>>]

(* The cleanup closes the subscription in the ref, if one has come.         *)
Ended(e) == [IF kept = e THEN Closed(effect[e]) ELSE effect[e] EXCEPT !.live = FALSE]

VisitPage(e) ==
  /\ page # "none" /\ subject = "none" /\ FreeSlot(e)
  /\ \E s \in (IF page = "dashboard" THEN Subjects ELSE {"a"}) :
       /\ subject' = s
       /\ effect' = [effect EXCEPT ![e] = Began(s)]
  /\ UNCHANGED <<page, kept, facts, display>>

(* Another subject, or React's second run: the page's state stays.          *)
RunAgain(e) ==
  /\ subject # "none" /\ FreeSlot(e)
  /\ \E s \in Turns :
       /\ subject' = s
       /\ effect' = [f \in Effects |-> IF f = e THEN Began(s) ELSE Ended(f)]
  /\ kept' = 0
  /\ UNCHANGED <<page, facts, display>>

LeavePage ==
  /\ subject # "none"
  /\ subject' = "none"
  /\ effect' = [f \in Effects |-> [Ended(f) EXCEPT !.mine = FALSE]]
  /\ kept' = 0
  /\ display' = Nothing
  /\ UNCHANGED <<page, facts>>

-----------------------------------------------------------------------------
(* The request.                                                             *)

Sees(e, n, guarded) ==
  display' = IF effect[e].mine /\ (effect[e].live \/ ~guarded)
             THEN [of |-> effect[e].of, facts |-> n] ELSE display

StateAnswered(e) ==
  /\ effect[e].asked = "asked"
  /\ effect' = [effect EXCEPT ![e].asked = "answered", ![e].answer = facts[effect[e].of]]
  /\ UNCHANGED <<page, subject, kept, facts, display>>

(* Then it subscribes.                                                      *)
Subscribed(e) ==
  IF This.beside THEN effect[e].link
  ELSE IF This.stops /\ ~effect[e].live THEN "closed" ELSE "connecting"

ShowState(e) ==
  /\ effect[e].asked = "answered"
  /\ Sees(e, effect[e].answer, This.answers)
  /\ effect' = [effect EXCEPT ![e].asked = "done", ![e].answer = 0, ![e].link = Subscribed(e)]
  /\ UNCHANGED <<page, subject, kept, facts>>

(* The error is reported, and it subscribes all the same.                   *)
AskingFails(e) ==
  /\ effect[e].asked \in {"asked", "answered"}
  /\ effect' = [effect EXCEPT ![e].asked = "done", ![e].answer = 0, ![e].link = Subscribed(e)]
  /\ UNCHANGED <<page, subject, kept, facts, display>>

-----------------------------------------------------------------------------
(* The subscription.                                                        *)

Opens(e) ==
  /\ effect[e].link = "connecting"
  /\ effect' = [effect EXCEPT ![e].link = "open", ![e].frames = <<facts[effect[e].of]>>]
  /\ UNCHANGED <<page, subject, kept, facts, display>>

SubscribingFails(e) ==
  /\ effect[e].link = "connecting"
  /\ effect' = [effect EXCEPT ![e].link = IF This.polls THEN "polling" ELSE "closed"]
  /\ UNCHANGED <<page, subject, kept, facts, display>>

(* Mutant: it is kept, whether or not the effect is over.                   *)
KeptAnyway(e) == TRUE

Keeps(e) == effect[e].live \/ ~This.tidy

(* The promise of the subscription resolves, after frames perhaps.          *)
Resolves(e) ==
  /\ effect[e].link = "open"
  /\ \/ /\ Keeps(e)
        /\ kept' = e
        /\ effect' = [effect EXCEPT ![e].link = "held"]
     \/ /\ ~Keeps(e)
        /\ effect' = [effect EXCEPT ![e] = Closed(@)]
        /\ UNCHANGED kept
  /\ UNCHANGED <<page, subject, facts, display>>

Update(e) ==
  /\ effect[e].frames # <<>>
  /\ Sees(e, Head(effect[e].frames), This.frames)
  /\ effect' = [effect EXCEPT ![e].frames = Tail(@)]
  /\ UNCHANGED <<page, subject, kept, facts>>

(* Nothing clears this timer: the function that would is dropped.           *)
PollState(e) ==
  /\ effect[e].link = "polling"
  /\ Sees(e, facts[effect[e].of], FALSE)
  /\ UNCHANGED <<page, subject, effect, kept, facts>>

FactFolded(s) ==
  /\ page # "none"
  /\ facts["a"] + facts["b"] < MaxFacts
  /\ facts' = [facts EXCEPT ![s] = @ + 1]
  /\ effect' = [e \in Effects |->
       IF effect[e].of = s /\ effect[e].link \in {"open", "held"}
       THEN [effect[e] EXCEPT !.frames = Append(@, facts[s] + 1)] ELSE effect[e]]
  /\ UNCHANGED <<page, subject, kept, display>>

-----------------------------------------------------------------------------
PagesNext ==
  \/ LeavePage
  \/ \E s \in Subjects : FactFolded(s)
  \/ \E e \in Effects :
       \/ VisitPage(e) \/ RunAgain(e) \/ StateAnswered(e) \/ ShowState(e) \/ AskingFails(e)
       \/ Opens(e) \/ SubscribingFails(e) \/ Resolves(e) \/ Update(e) \/ PollState(e)

(* Requests come to an end and what the engine sends arrives.               *)
PagesFairness ==
  \A e \in Effects :
    /\ WF_pagesVars(StateAnswered(e)) /\ WF_pagesVars(ShowState(e))
    /\ WF_pagesVars(Opens(e) \/ SubscribingFails(e)) /\ WF_pagesVars(Resolves(e))
    /\ WF_pagesVars(Update(e)) /\ WF_pagesVars(PollState(e))

-----------------------------------------------------------------------------
(* A subscription outlives its effect only until it is known of: the pages  *)
(* that look again once it has come close it, however often they are left,  *)
(* turned and run again while it was being made.                            *)
NothingLeaks ==
  \A e \in Effects :
    page \in {"todo", "trip", "dashboard", "detail"} /\ ~effect[e].live
      ~> effect[e].live \/ effect[e].link = "closed"

(* A page that keeps following a subject shows its last state in the end,   *)
(* however the answer, the frames and those of earlier effects fall: the    *)
(* pages that ask before they subscribe and ignore the effects that are     *)
(* over, or else never let their subscriptions go.  (MaxFacts makes every   *)
(* subject's facts end.)                                                    *)
Following == \E e \in Effects : effect[e].live /\ effect[e].link \in {"held", "polling"}
Current == [of |-> subject, facts |-> facts[subject]]
PagesSettle ==
  <>[](page \in {"trip", "list", "summary"} /\ subject # "none" /\ Following)
    => <>[](subject # "none" /\ display = Current)
=============================================================================
