------------------------------- MODULE MCBrowser -------------------------------
(***************************************************************************)
(* The parts of the browser that have nothing to do with each other, in    *)
(* one run: a behaviour is one of a single part, chosen at the start,      *)
(* while the others rest.                                                  *)
(***************************************************************************)
EXTENDS ListPages, Session, Calendar, Waterfall, Highlight, EventView

VARIABLE part

\* values of the constants of EventView
SomeFrames == {[inApp |-> TRUE,  line |-> 7, pre |-> 2, context |-> "code",   post |-> 1],
               [inApp |-> FALSE, line |-> 3, pre |-> 1, context |-> "empty",  post |-> 1],
               [inApp |-> FALSE, line |-> 0, pre |-> 0, context |-> "absent", post |-> 0]}
Crumb(category, message, timestamp) ==
  [category |-> category, message |-> message, timestamp |-> timestamp, text |-> FALSE]
InText(crumb) == [crumb EXCEPT !.text = TRUE]
SomeCrumbs == {Crumb("http", "", 0), Crumb("http", "word", 10), Crumb("sql", "http", 11),
               InText(Crumb("http", "word", 10))}

Parts == {"lists", "session", "calendar", "waterfall", "highlight", "event"}

BrowserInit ==
  /\ part \in Parts
  /\ Init /\ (part # "lists" => kind = "issues" /\ stored = "p1")
  /\ SessionInit
  /\ CalendarInit /\ (part # "calendar" => jalali.y = 1399)
  /\ WaterfallInit /\ (part # "waterfall" => spans = <<>>)
  /\ HighlightInit /\ (part # "highlight" => lang = "javascript")
  /\ IF part = "event" THEN EventInit
     ELSE event = [exceptions |-> <<>>, crumbs |-> <<>>] /\ opened = <<>> /\ showAll = <<>>
          /\ filter = [cat |-> "", q |-> "", order |-> "oldest"]

ListsStep ==
  /\ part = "lists" /\ Next
  /\ UNCHANGED <<part, sessionVars, cvars, wvars,
                 hvars, evars>>
SessionStep ==
  /\ part = "session" /\ SessionNext
  /\ UNCHANGED <<part, lvars, cvars, wvars,
                 hvars, evars>>
CalendarStep ==
  /\ part = "calendar" /\ CalendarNext
  /\ UNCHANGED <<part, lvars, sessionVars, wvars,
                 hvars, evars>>
WaterfallStep ==
  /\ part = "waterfall" /\ (\E id \in Ids : toggle(id))
  /\ UNCHANGED <<part, lvars, sessionVars, cvars,
                 hvars, evars>>
HighlightStep ==
  /\ part = "highlight" /\ HighlightNext
  /\ UNCHANGED <<part, lvars, sessionVars, cvars,
                 wvars, evars>>
EventStep ==
  /\ part = "event" /\ EventNext
  /\ UNCHANGED <<part, lvars, sessionVars, cvars,
                 wvars, hvars>>

bvars == <<part, lvars, sessionVars, cvars, wvars, hvars,
           evars>>

BrowserNext ==
  \/ ListsStep \/ SessionStep \/ CalendarStep \/ WaterfallStep \/ HighlightStep
  \/ EventStep

(* The session rests with nothing that its fairness asks for.             *)
BrowserSpec == BrowserInit /\ [][BrowserNext]_bvars /\ Fairness

==============================================================================
