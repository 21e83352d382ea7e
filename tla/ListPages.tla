------------------------------ MODULE ListPages ------------------------------
(***************************************************************************)
(* The lists of the dashboard that page through what a filter selects:     *)
(* issues, logs, transactions, AI runs and webhook deliveries.  Filters    *)
(* and offset are mirrored in the URL (QueryState); an effect goes back to *)
(* the first page, and drops the selection, when what is listed changes.   *)
(* React runs the effects of a change before the next event.               *)
(***************************************************************************)
EXTENDS QueryState, FiniteSets

CONSTANTS PageKinds,    \* the pages considered, of DOMAIN Page
          Scopes,       \* projects (organizations for the deliveries)
          Searches,     \* what is typed into the search box
          Count,        \* rows of a scope
          PageSize,
          MaxActs       \* bound: things the user does

ASSUME ListAssumption == /\ PageKinds \subseteq {"issues", "logs", "performance",
                                                "insights", "deliveries"}
                         /\ Scopes # {} /\ "unknown" \notin Scopes
                         /\ "" \in Searches /\ Count \in Nat
                         /\ PageSize \in Nat \ {0} /\ MaxActs \in Nat

(* The filters of a page: their default, and what the user can make of a   *)
(* value.  Logs toggle levels; a column of the transactions sorts by it,   *)
(* descending first, and flips when it is the active one; a custom range   *)
(* of the insights starts as the last 24 hours.                            *)
toggleLevel(levels, l) == IF l \in levels THEN levels \ {l} ELSE levels \cup {l}
toggleSort(f, key) ==
  IF f.sort = key
  THEN [f EXCEPT !.order = IF f.order = "desc" THEN "asc" ELSE "desc"]
  ELSE [sort |-> key, order |-> "desc"]
LOG_LEVELS == {"info", "error"}
SORT_KEYS  == {"last_seen", "count"}
selectPeriod(f, p) ==
  [period |-> p, from |-> IF p = "custom" /\ f.from = "" THEN "now-24h" ELSE f.from]

IssuesChoices         == {"unresolved", "", "resolved"}
LogsChoices(f)        == {toggleLevel(f, l) : l \in LOG_LEVELS}
PerformanceChoices(f) == {toggleSort(f, k) : k \in SORT_KEYS}
InsightsChoices(f)    == {selectPeriod(f, p) : p \in {"24h", "7d", "custom"}}
DeliveryChoices       == {"", "true", "false"}
FilterChoices(kind, f) ==
  CASE kind = "issues"      -> IssuesChoices
    [] kind = "logs"        -> LogsChoices(f)
    [] kind = "performance" -> PerformanceChoices(f)
    [] kind = "insights"    -> InsightsChoices(f)
    [] kind = "deliveries"  -> DeliveryChoices

serialize(kind, f) ==
  CASE kind = "issues"      -> statusSerialize(f)
    [] kind = "logs"        -> setSerialize(f)
    [] kind = "performance" -> <<serializeUnless(f.sort, "last_seen"),
                                 serializeUnless(f.order, "desc")>>
    [] kind = "insights"    -> <<serializeUnless(f.period, "24h"),
                                 serializeUnless(f.from, "")>>
    [] kind = "deliveries"  -> Written(serializeUnless(f, ""))
parse(kind, raw) ==
  CASE kind = "issues"      -> statusParse(raw)
    [] kind = "logs"        -> setParse(raw, LOG_LEVELS)
    [] kind = "performance" -> [sort |-> enumParse(raw[1], SORT_KEYS, "last_seen"),
                                order |-> enumParse(raw[2], {"asc", "desc"}, "desc")]
    [] kind = "insights"    -> [period |-> stringParse(raw[1], "24h"),
                                from |-> stringParse(raw[2], "")]
    [] kind = "deliveries"  -> stringParse(raw, "")
NoFilter(kind) ==
  CASE kind = "performance" -> parse(kind, <<Absent, Absent>>)
    [] kind = "insights"    -> parse(kind, <<Absent, Absent>>)
    [] OTHER -> parse(kind, Absent)

(* typed: the page has a search box, debounced by 300 ms.  late: it is     *)
(* mounted before its project is known.  resets: what its effect depends   *)
(* on.  selects: its rows can be selected.                                 *)
IssuesPageNoScope == [typed |-> TRUE, late |-> TRUE, selects |-> TRUE,
                      resets |-> {"filter", "debounced"}]
IssuesPageNoSearch == [typed |-> TRUE, late |-> TRUE, selects |-> TRUE,
                       resets |-> {"filter", "scope"}]
IssuesPage      == [typed |-> TRUE, late |-> TRUE, selects |-> TRUE,
                    resets |-> {"filter", "debounced", "scope"}]
LogsPage        == [typed |-> TRUE, late |-> TRUE, selects |-> FALSE,
                    resets |-> {"filter", "debounced", "scope"}]
PerformancePage == [typed |-> TRUE, late |-> TRUE, selects |-> FALSE,
                    resets |-> {"filter", "debounced", "scope"}]
InsightsPage    == [typed |-> FALSE, late |-> TRUE, selects |-> FALSE,
                    resets |-> {"filter", "scope"}]
DeliveryLog     == [typed |-> FALSE, late |-> FALSE, selects |-> FALSE,
                    resets |-> {"filter"}]
Page == [issues |-> IssuesPage, logs |-> LogsPage, performance |-> PerformancePage,
         insights |-> InsightsPage, deliveries |-> DeliveryLog]

VARIABLES kind,      \* the page of this behaviour
          view,      \* its state: search, debounced, filter, offset, scope
          url,       \* the query string: search, filter, offset, raw
          stored,    \* the scope localStorage remembers
          selected,  \* the selected rows
          bulk,      \* the rows of the bulk action under way
          gone,      \* rows no longer listed
          pagedIn,   \* history: what was listed when the offset was chosen
          listed,    \* history: rows shown since what is listed changed
          acts

lvars == <<kind, view, url, stored, selected, bulk, gone, pagedIn, listed, acts>>

(* The rows of a scope: what the search and the filter select of them, in  *)
(* order, from the offset on.                                              *)
Rows(v) == {r \in {<<v.scope, n>> : n \in 1..Count} :
              /\ r \notin gone
              /\ v.debounced = "" \/ r[2] % 2 = 0}
Rank(r, v) == Cardinality({q \in Rows(v) : q[2] < r[2]})
RowsShown(v) == IF v.scope = "unknown" THEN {}
                ELSE {r \in Rows(v) : Rank(r, v) \in v.offset..(v.offset + PageSize - 1)}
total(v) == IF v.scope = "unknown" THEN 0 ELSE Cardinality(Rows(v))

(* What an offset is an offset into.                                       *)
Listing(v) == <<v.filter, v.debounced, v.scope>>
Deps(v) == [d \in Page[kind].resets |-> v[d]]

(* Everything a change of the page's state does: the effect, the URL that  *)
(* its setters write, and what the history notes.                          *)
Settled(from, v) == IF Deps(v) # Deps(from) THEN [v EXCEPT !.offset = 0] ELSE v
UrlOf(v) == [search |-> serializeUnless(v.search, ""),
             filter |-> serialize(kind, v.filter),
             offset |-> serializeUnless(v.offset, 0)]
Become(v) ==
  LET w == Settled(view, v) IN
  /\ view' = w
  /\ url' = UrlOf(w)
  /\ selected' = IF Deps(v) # Deps(view) THEN {} ELSE selected
  /\ pagedIn' = IF w.offset # view.offset THEN Listing(w) ELSE pagedIn
  /\ listed' = RowsShown(w) \cup (IF Listing(v) # Listing(view) THEN {} ELSE listed)

Doing == acts < MaxActs /\ acts' = acts + 1

(* The page is loaded with the URL, or navigated to when the project is    *)
(* known already.                                                          *)
FromUrl(u, scope) ==
  [search |-> stringParse(u.search, ""), debounced |-> stringParse(u.search, ""),
   filter |-> parse(kind, u.filter), offset |-> numberParse(u.offset, 0),
   scope |-> scope]
ScopeAt(how) == IF how = "load" /\ Page[kind].late THEN "unknown" ELSE stored

Init ==
  /\ kind \in PageKinds
  /\ stored \in Scopes
  /\ view = [search |-> "", debounced |-> "", filter |-> NoFilter(kind),
             offset |-> 0, scope |-> stored]
  /\ url = UrlOf(view)
  /\ selected = {} /\ bulk = {} /\ gone = {}
  /\ pagedIn = Listing(view) /\ listed = RowsShown(view)
  /\ acts = 0

Mount(how) ==
  /\ Doing
  /\ view' = FromUrl(url, ScopeAt(how))
  /\ selected' = {} /\ bulk' = {}
  /\ pagedIn' = Listing([view' EXCEPT !.scope = stored])
  /\ listed' = RowsShown(view')
  /\ UNCHANGED <<kind, url, stored, gone>>

(* The projects arrive: projectId changes from undefined.                  *)
ProjectKnown ==
  /\ view.scope = "unknown"
  /\ Become([view EXCEPT !.scope = stored])
  /\ UNCHANGED <<kind, stored, bulk, gone, acts>>

Type(s) ==
  /\ Doing /\ Page[kind].typed /\ s # view.search
  /\ Become([view EXCEPT !.search = s])
  /\ UNCHANGED <<kind, stored, bulk, gone>>
Debounce ==
  /\ view.debounced # view.search
  /\ Become([view EXCEPT !.debounced = view.search])
  /\ UNCHANGED <<kind, stored, bulk, gone, acts>>
Choose(f) ==
  /\ Doing /\ f # view.filter
  /\ Become([view EXCEPT !.filter = f])
  /\ UNCHANGED <<kind, stored, bulk, gone>>
SwitchScope(s) ==
  /\ Doing /\ view.scope # "unknown" /\ s # view.scope
  /\ stored' = s
  /\ Become([view EXCEPT !.scope = s])
  /\ UNCHANGED <<kind, bulk, gone>>

NextPage ==
  /\ Doing /\ view.offset + PageSize < total(view)
  /\ Become([view EXCEPT !.offset = @ + PageSize])
  /\ UNCHANGED <<kind, stored, bulk, gone>>
PrevPage ==
  /\ Doing /\ view.offset > 0
  /\ Become([view EXCEPT !.offset = IF @ > PageSize THEN @ - PageSize ELSE 0])
  /\ UNCHANGED <<kind, stored, bulk, gone>>

-----------------------------------------------------------------------------
(* The selection of the issues, kept from page to page.                    *)
Selecting(s) == /\ selected' = s
                /\ UNCHANGED <<kind, view, url, stored, bulk, gone, pagedIn, listed>>
toggleSelect(r) ==
  /\ Doing /\ Page[kind].selects /\ r \in RowsShown(view)
  /\ Selecting(IF r \in selected THEN selected \ {r} ELSE selected \cup {r})
toggleAll ==
  /\ Doing /\ Page[kind].selects /\ RowsShown(view) # {}
  /\ Selecting(IF RowsShown(view) \subseteq selected THEN {} ELSE RowsShown(view))

clearSelection ==
  /\ Doing /\ selected # {}
  /\ Selecting({})

(* A bulk action takes the selection; its buttons are disabled while one   *)
(* is under way.  Its success clears whatever is selected by then, and its *)
(* rows leave the list unless the filter still matches them: an offset     *)
(* past the new end stays.                                                 *)
Bulk ==
  /\ Doing /\ selected # {} /\ bulk = {}
  /\ bulk' = selected
  /\ UNCHANGED <<kind, view, url, stored, selected, gone, pagedIn, listed>>
BulkDone ==
  /\ bulk # {}
  /\ bulk' = {} /\ selected' = {}
  /\ gone' \in {gone, gone \cup bulk}
  /\ UNCHANGED <<kind, view, url, stored, pagedIn, acts>>
  /\ listed' = listed \cup RowsShown(view)'

Next ==
  \/ \E how \in {"load", "navigate"} : Mount(how)
  \/ ProjectKnown \/ Debounce \/ NextPage \/ PrevPage
  \/ \E s \in Searches : Type(s)
  \/ \E f \in FilterChoices(kind, view.filter) : Choose(f)
  \/ \E s \in Scopes : SwitchScope(s)
  \/ \E r \in RowsShown(view) : toggleSelect(r)
  \/ toggleAll \/ clearSelection \/ Bulk \/ BulkDone

Spec == Init /\ [][Next]_lvars

-----------------------------------------------------------------------------
(* "filters survive reloads and can be shared via link": whoever comes to  *)
(* the URL of the moment with the project known sees what is shown, but    *)
(* for a search still debounced.  Whoever loads it sees that too when the  *)
(* project has arrived, but from the first row on: the effect that skips   *)
(* the first mount, which "would wipe an offset restored from the URL",    *)
(* takes the project's arrival for a change of project.  Only the log of   *)
(* the deliveries, mounted when its organization is known, keeps it.       *)
Loaded(u) ==
  LET v == FromUrl(u, ScopeAt("load")) IN Settled(v, [v EXCEPT !.scope = stored])
UrlShowsView ==
  LET here == [search |-> view.search, debounced |-> view.search,
               filter |-> view.filter, offset |-> view.offset, scope |-> stored]
  IN  /\ FromUrl(url, stored) = here
      /\ Loaded(url) = [here EXCEPT !.offset = IF Page[kind].late THEN 0 ELSE @]

(* An offset belongs to the listing it was chosen in: no change of filter, *)
(* search or project leaves one in the middle of another list.  The        *)
(* deliveries keep theirs when the organization is switched.               *)
OffsetBelongs ==
  LET here == Listing(view) IN
  view.offset # 0 /\ view.scope # "unknown" =>
    /\ pagedIn[1] = here[1] /\ pagedIn[2] = here[2]
    /\ kind # "deliveries" => pagedIn[3] = here[3]

(* A bulk action reaches issues of the listing the user selected them in,  *)
(* of the current project, and that were on the screen.                    *)
BulkActsOnSeen == selected \subseteq listed
==============================================================================
