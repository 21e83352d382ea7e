------------------------------ MODULE EventView ------------------------------
(***************************************************************************)
(* An event on the page of its issue (EventInsights, StackTrace): the      *)
(* suspect commit, the stack traces with their source lines, and the       *)
(* breadcrumbs, while the user opens frames and filters crumbs, and while  *)
(* a refetch puts another event in the place of the one shown; and what    *)
(* issueToMarkdown copies of the same event.                               *)
(***************************************************************************)
EXTENDS Naturals, Sequences, FiniteSets, SequencesExt

CONSTANTS Frames,          \* [inApp, line, pre, context, post]: line 0 is none given;
                           \* pre and post count the source lines around it
          Crumbs,          \* [category, message, timestamp, text]: timestamp 0 is none
                           \* given; text, that it was sent in words, as in ISO 8601
          CrumbSearches,   \* a crumb matches one when its message or category is it
          TraceLength,     \* bound: frames of a trace, crumbs of an event
          MaxFrames,       \* MAX_FRAMES of StackTrace: drawn at first
          MarkdownFrames,  \* MAX_FRAMES and
          MarkdownCrumbs   \* MAX_BREADCRUMBS of issueMarkdown

AnyText == ""

(* The line of a frame may be empty.  A timestamp is kept as it was sent;  *)
(* it is one of the clock, far above any number of crumbs.                 *)
ASSUME EventAssumption ==
  /\ \A f \in Frames : /\ f.inApp \in BOOLEAN /\ f.context \in {"absent", "empty", "code"}
                       /\ f.line \in Nat /\ f.pre \in Nat /\ f.post \in Nat
  /\ TraceLength \in Nat
  /\ MaxFrames \in Nat \ {0} /\ MarkdownFrames \in Nat \ {0} /\ MarkdownCrumbs \in Nat \ {0}
  /\ \A b \in Crumbs : /\ b.timestamp \in Nat /\ b.text \in BOOLEAN
                       /\ b.timestamp # 0 => b.timestamp >= TraceLength

VARIABLES event,    \* [exceptions, crumbs]: traces and crumbs, oldest first
          opened,   \* for each trace, the open flags of its drawn rows
          showAll,  \* for each trace, whether all of its rows are drawn
          filter    \* [cat, q, order] of the breadcrumbs

evars == <<event, opened, showAll, filter>>

(* An event with traces has no crumbs here and the other way round: the    *)
(* two meet nowhere.                                                       *)
Events ==
  LET traces == UNION {[1..n -> Frames] : n \in 0..TraceLength}
      trails == UNION {[1..n -> Crumbs] : n \in 0..TraceLength}
  IN  {[exceptions |-> <<t>>, crumbs |-> <<>>] : t \in traces}
      \cup {[exceptions |-> <<<<f>>, <<g>>>>, crumbs |-> <<>>] : f, g \in Frames}
      \cup {[exceptions |-> <<>>, crumbs |-> c] : c \in trails}

-----------------------------------------------------------------------------
(* Traces.  A place is one in the trace as it was sent, oldest first.      *)
Places(trace) == [i \in DOMAIN trace |-> i]
InApp(trace, places) ==
  LET own[n \in 0..Len(places)] ==
        IF n = 0 THEN <<>>
        ELSE IF trace[places[n]].inApp THEN Append(own[n - 1], places[n]) ELSE own[n - 1]
  IN  own[Len(places)]
UpTo(list, n) == SubSeq(list, 1, IF Len(list) < n THEN Len(list) ELSE n)

\* the outermost frame of one's own, an easy mistake
outermostInApp(trace) ==
  LET own == InApp(trace, Places(trace)) IN IF own # <<>> THEN own[1] ELSE Len(trace)
\* the place of the suspect commit's frame; 0 when there is none
topInAppFrame(trace) ==
  LET own == InApp(trace, Places(trace)) IN IF own # <<>> THEN Last(own) ELSE Len(trace)
suspect == IF event.exceptions = <<>> THEN 0 ELSE topInAppFrame(Last(event.exceptions))

\* the places that are drawn, and those that are copied
shownFrames(trace, all) ==
  LET ordered == Reverse(Places(trace)) IN IF all THEN ordered ELSE UpTo(ordered, MaxFrames)
stackBlock(trace) ==
  LET ordered == Reverse(Places(trace))
      own == InApp(trace, ordered)
  IN  UpTo(IF own # <<>> THEN own ELSE ordered, MarkdownFrames)

hasContext(f) == f.pre > 0 \/ f.context = "code" \/ f.post > 0
\* the line the link into the repository goes to; 0 is the file
blameLine(f) == f.line

(* The source lines of an open row, [no, current]; no number, no line.     *)
ContextLines(f) ==
  LET No(n) == IF f.line = 0 THEN 0 ELSE n
  IN  [k \in 1..f.pre |-> [no |-> No((f.line + k) - f.pre - 1), current |-> FALSE]]
      \o (IF f.context # "absent" THEN <<[no |-> f.line, current |-> TRUE]>> ELSE <<>>)
      \o [k \in 1..f.post |-> [no |-> No(f.line + k), current |-> FALSE]]

(* A row that is mounted keeps its flag by its number, whatever frame it   *)
(* shows from then on; a new one is open if it is the first, of the app.   *)
Mounted(trace, all, before) ==
  [r \in DOMAIN shownFrames(trace, all) |->
     IF r \in DOMAIN before THEN before[r]
     ELSE LET f == trace[shownFrames(trace, all)[r]] IN r = 1 /\ f.inApp /\ hasContext(f)]

-----------------------------------------------------------------------------
(* Breadcrumbs.                                                            *)
crumbCategory(b) == b.category
Categories == {crumbCategory(event.crumbs[i]) : i \in DOMAIN event.crumbs}
Matches(b) ==
  /\ filter.cat # AnyText => crumbCategory(b) = filter.cat
  /\ filter.q # AnyText => filter.q \in {b.message, crumbCategory(b)}

(* What the card lists, as places among the crumbs: sorted by time or      *)
(* place, each behind those that come before it.  The difference of words  *)
(* is no number, which sort takes for "equal", and keeps the order of such *)
(* crumbs; of words and numbers mixed it makes no order at all, and what   *)
(* comes out is the engine's.                                              *)
InWords == {i \in DOMAIN event.crumbs : event.crumbs[i].text}
EngineOrder(kept) == CHOOSE list \in [1..Cardinality(kept) -> kept] : IsInjective(list)
items ==
  LET kept  == {i \in DOMAIN event.crumbs : Matches(event.crumbs[i])}
      words == kept \cap InWords
      Time(i) == IF event.crumbs[i].timestamp # 0 THEN event.crumbs[i].timestamp ELSE i - 1
      Before(i) ==
        IF words # {} THEN {j \in kept : j < i}
        ELSE {j \in kept :
                \/ IF filter.order = "oldest" THEN Time(j) < Time(i) ELSE Time(i) < Time(j)
                \/ Time(i) = Time(j) /\ j < i}
  IN  IF words \in {{}, kept}
      THEN [k \in 1..Cardinality(kept) |-> CHOOSE i \in kept : Cardinality(Before(i)) = k - 1]
      ELSE EngineOrder(kept)

\* what is copied: the last of them
copied == LET all == Places(event.crumbs)
          IN  SubSeq(all, IF Len(all) > MarkdownCrumbs THEN Len(all) - MarkdownCrumbs + 1 ELSE 1,
                     Len(all))

-----------------------------------------------------------------------------
(* The page, or an event chosen from the list of those of the issue, anew. *)
EventInit ==
  /\ event \in Events
  /\ showAll = [x \in DOMAIN event.exceptions |-> FALSE]
  /\ opened = [x \in DOMAIN event.exceptions |-> Mounted(event.exceptions[x], FALSE, <<>>)]
  /\ filter = [cat |-> AnyText, q |-> AnyText, order |-> "oldest"]

\* A refetch finds a newer event, which is drawn by the components that are there.
Refetched(e) ==
  LET all(x) == x \in DOMAIN showAll /\ showAll[x]
  IN  /\ event' = e
      /\ showAll' = [x \in DOMAIN e.exceptions |-> all(x)]
      /\ opened' = [x \in DOMAIN e.exceptions |->
           Mounted(e.exceptions[x], all(x), IF x \in DOMAIN opened THEN opened[x] ELSE <<>>)]
      /\ UNCHANGED filter

ShowAll(x) ==
  /\ Len(shownFrames(event.exceptions[x], showAll[x])) < Len(event.exceptions[x])
  /\ showAll' = [showAll EXCEPT ![x] = TRUE]
  /\ opened' = [opened EXCEPT ![x] = Mounted(event.exceptions[x], TRUE, @)]
  /\ UNCHANGED <<event, filter>>

ToggleFrame(x, r) ==
  /\ hasContext(event.exceptions[x][shownFrames(event.exceptions[x], showAll[x])[r]])
  /\ opened' = [opened EXCEPT ![x][r] = ~@]
  /\ UNCHANGED <<event, showAll, filter>>

\* The card is not drawn when there are no crumbs.
SetFilter ==
  /\ event.crumbs # <<>>
  /\ \/ \E c \in Categories \cup {AnyText} : filter' = [filter EXCEPT !.cat = c]
     \/ \E q \in CrumbSearches : filter' = [filter EXCEPT !.q = q]
     \/ \E o \in {"oldest", "newest"} : filter' = [filter EXCEPT !.order = o]
  /\ UNCHANGED <<event, opened, showAll>>

EventNext ==
  \/ \E e \in Events : Refetched(e)
  \/ \E x \in DOMAIN event.exceptions :
       ShowAll(x) \/ \E r \in DOMAIN opened[x] : ToggleFrame(x, r)
  \/ SetFilter

EventSpec == EventInit /\ [][EventNext]_evars

-----------------------------------------------------------------------------
(* Three places look for the frame of the crash, each in its own order:    *)
(* the suspect commit, the trace on the page and the copied text begin     *)
(* with the same one ("Sentry orders frames oldest-newest, so the crash    *)
(* site is the last in-app frame", EventInsights.tsx); the trace draws it, *)
(* unless MaxFrames frames of libraries stand above.                       *)
SameCrash ==
  suspect # 0 =>
    LET trace == Last(event.exceptions)
        rows  == shownFrames(trace, Last(showAll))
        above == {i \in DOMAIN trace : i > suspect}
    IN  /\ stackBlock(trace)[1] = suspect
        /\ Cardinality(above) < Len(rows) => rows[Cardinality(above) + 1] = suspect
        /\ \A i \in above : ~trace[i].inApp

(* The lines of an open row are numbered one by one, and the marked one    *)
(* has the number of the frame, the one the link goes to.                  *)
LinesAgree ==
  \A x \in DOMAIN opened : \A r \in DOMAIN opened[x] :
    LET f == event.exceptions[x][shownFrames(event.exceptions[x], showAll[x])[r]]
        lines == ContextLines(f)
    IN  opened[x][r] /\ f.context # "absent" /\ f.line > f.pre =>
          /\ \A k \in DOMAIN lines : lines[k].no = lines[1].no + k - 1
          /\ \A k \in DOMAIN lines : lines[k].current => lines[k].no = blameLine(f)

(* Crumbs that were sent in the order of time, as numbers, are copied as   *)
(* the card lists them: the last of "oldest first" and, with no two at one *)
(* time, the first of "newest first".  Crumbs whose times were all sent in *)
(* words are listed as they were sent, and the last of these are copied,   *)
(* whichever order the card says it shows.                                 *)
CrumbsAgree ==
  LET stamps == [i \in DOMAIN event.crumbs |-> event.crumbs[i].timestamp]
      numbers == InWords = {}
      distinct == \A i, j \in DOMAIN stamps : i < j => stamps[i] < stamps[j]
      inTime == \A i, j \in DOMAIN stamps : i < j => stamps[i] <= stamps[j]
  IN  filter.cat = AnyText /\ filter.q = AnyText =>
        /\ numbers /\ inTime /\ filter.order = "oldest" => IsSuffix(copied, items)
        /\ numbers /\ distinct /\ filter.order = "newest" => IsPrefix(Reverse(copied), items)
        /\ InWords = DOMAIN stamps => IsSuffix(copied, items)

(* What the card, the trace, the suspect commit and the copied text say of *)
(* one event agrees, also after other events took its place.               *)
EventAgrees == SameCrash /\ LinesAgree /\ CrumbsAgree
==============================================================================
