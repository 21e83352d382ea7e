--------------------------- MODULE BrowserProofs ---------------------------
(***************************************************************************)
(* Proofs about the browser, for any number of projects, searches, rows,   *)
(* users, tabs and acts of a user: the URL shows the view, an offset       *)
(* belongs to its listing, a bulk action reaches rows that were seen       *)
(* (ListPages); a tab acts as the account it shows, a session that nobody  *)
(* ended lasts, a sign-out leaves no pair (Session).  The two share        *)
(* nothing.                                                                *)
(***************************************************************************)
EXTENDS ListPages, Session, TLAPS

(***************************************************************************)
(* Paged lists                                                             *)
(***************************************************************************)


(* The filters a page can have.                                            *)
Filters ==
  CASE kind = "issues"      -> IssuesChoices
    [] kind = "logs"        -> SUBSET LOG_LEVELS
    [] kind = "performance" -> [sort : SORT_KEYS, order : {"asc", "desc"}]
    [] kind = "insights"    -> [period : {"24h", "7d", "custom"}, from : {"", "now-24h"}]
    [] kind = "deliveries"  -> DeliveryChoices

View == [search : Searches, debounced : Searches, filter : Filters, offset : Nat,
         scope : Scopes \cup {"unknown"}]

(* Types, with what the URL says: it is written with each change of the    *)
(* view.  Only a page that is mounted late waits for its project, only one *)
(* with a search box has a search that is still debounced.                 *)
ListTInv ==
  /\ kind \in PageKinds /\ stored \in Scopes
  /\ view \in View /\ url = UrlOf(view)
  /\ Page[kind].late \/ view.scope # "unknown"
  /\ Page[kind].typed \/ view.debounced = view.search

LEMMA ListKinds == kind \in PageKinds => kind \in {"issues", "logs", "performance", "insights", "deliveries"}
  BY ListAssumption

LEMMA PageIs ==
  ASSUME kind \in PageKinds
  PROVE  /\ Page[kind].typed \in BOOLEAN /\ Page[kind].late \in BOOLEAN /\ Page[kind].selects \in BOOLEAN
         /\ "filter" \in Page[kind].resets
         /\ Page[kind].resets \subseteq {"filter", "debounced", "scope"}
         /\ Page[kind].typed => "debounced" \in Page[kind].resets
         /\ kind # "deliveries" => "scope" \in Page[kind].resets
         /\ kind = "deliveries" => ~Page[kind].late
         /\ Page[kind].selects => Page[kind].resets = {"filter", "debounced", "scope"}
<1>1. CASE kind = "issues"
  <2>1. Page[kind] = IssuesPage
    BY <1>1 DEF Page
  <2> QED BY <1>1, <2>1 DEF IssuesPage
<1>2. CASE kind = "logs"
  <2>1. Page[kind] = LogsPage
    BY <1>2 DEF Page
  <2> QED BY <1>2, <2>1 DEF LogsPage
<1>3. CASE kind = "performance"
  <2>1. Page[kind] = PerformancePage
    BY <1>3 DEF Page
  <2> QED BY <1>3, <2>1 DEF PerformancePage
<1>4. CASE kind = "insights"
  <2>1. Page[kind] = InsightsPage
    BY <1>4 DEF Page
  <2> QED BY <1>4, <2>1 DEF InsightsPage
<1>5. CASE kind = "deliveries"
  <2>1. Page[kind] = DeliveryLog
    BY <1>5 DEF Page
  <2> QED BY <1>5, <2>1 DEF DeliveryLog
<1> QED BY ListKinds, <1>1, <1>2, <1>3, <1>4, <1>5

(* What is written to the URL is read back.                                *)
LEMMA WrittenIsRead ==
  ASSUME NEW v, NEW def
  PROVE  /\ stringParse(serializeUnless(v, def), def) = v
         /\ numberParse(serializeUnless(v, def), def) = v
         /\ \A allowed : v \in allowed => enumParse(serializeUnless(v, def), allowed, def) = v
  BY DEF stringParse, numberParse, enumParse, serializeUnless, Absent

LEMMA FilterIsRead ==
  ASSUME kind \in PageKinds, NEW f \in Filters
  PROVE  parse(kind, serialize(kind, f)) = f
<1>1. CASE kind = "issues"
  BY <1>1 DEF Filters, parse, serialize, IssuesChoices, statusParse, statusSerialize, Absent,
     ISSUE_STATUSES
<1>2. CASE kind = "logs"
  BY <1>2 DEF Filters, parse, serialize, setParse, setSerialize, Absent
<1>3. CASE kind = "performance"
  BY <1>3, WrittenIsRead DEF Filters, parse, serialize
<1>4. CASE kind = "insights"
  BY <1>4, WrittenIsRead, ZenonT(60) DEF Filters, parse, serialize
<1>5. CASE kind = "deliveries"
  BY <1>5, WrittenIsRead DEF Filters, parse, serialize, DeliveryChoices, Written, serializeUnless, Absent
<1> QED BY ListKinds, <1>1, <1>2, <1>3, <1>4, <1>5

LEMMA UrlIsRead ==
  ASSUME kind \in PageKinds, NEW v \in View, NEW s
  PROVE  /\ FromUrl(UrlOf(v), s).search = v.search /\ FromUrl(UrlOf(v), s).debounced = v.search
         /\ FromUrl(UrlOf(v), s).filter = v.filter /\ FromUrl(UrlOf(v), s).offset = v.offset
         /\ FromUrl(UrlOf(v), s).scope = s
  BY WrittenIsRead, FilterIsRead DEF FromUrl, UrlOf, View

LEMMA NoFilterIsFilter == ASSUME kind \in PageKinds PROVE NoFilter(kind) \in Filters
  BY ListKinds DEF NoFilter, Filters, parse, IssuesChoices, DeliveryChoices, statusParse, setParse, enumParse,
     stringParse, Absent, SORT_KEYS, ISSUE_STATUSES

LEMMA ChoiceIsFilter ==
  ASSUME kind \in PageKinds, NEW f \in Filters, NEW g \in FilterChoices(kind, f)
  PROVE  g \in Filters
<1>1. CASE kind = "issues" \/ kind = "deliveries"
  BY <1>1 DEF Filters, FilterChoices
<1>2. CASE kind = "logs"
  BY <1>2 DEF Filters, FilterChoices, LogsChoices, toggleLevel
<1>3. CASE kind = "performance"
  <2>1. f \in [sort : SORT_KEYS, order : {"asc", "desc"}]
    BY <1>3 DEF Filters
  <2>2. PICK k \in SORT_KEYS : g = toggleSort(f, k)
    BY <1>3 DEF FilterChoices, PerformanceChoices
  <2>3. CASE f.sort = k
    <3>1. PICK o \in {"asc", "desc"} : g = [f EXCEPT !.order = o]
      BY <2>2, <2>3 DEF toggleSort
    <3>2. g \in [sort : SORT_KEYS, order : {"asc", "desc"}]
      BY <2>1, <3>1
    <3> QED BY <1>3, <3>2 DEF Filters
  <2>4. CASE f.sort # k
    BY <1>3, <2>2, <2>4 DEF Filters, toggleSort
  <2> QED BY <2>3, <2>4
<1>4. CASE kind = "insights"
  <2>1. f \in [period : {"24h", "7d", "custom"}, from : {"", "now-24h"}]
    BY <1>4 DEF Filters
  <2>2. PICK p \in {"24h", "7d", "custom"} : g = selectPeriod(f, p)
    BY <1>4 DEF FilterChoices, InsightsChoices
  <2>3. PICK t \in {"", "now-24h"} : g = [period |-> p, from |-> t]
    BY <2>1, <2>2 DEF selectPeriod
  <2>4. g \in [period : {"24h", "7d", "custom"}, from : {"", "now-24h"}]
    BY <2>3
  <2> QED BY <1>4, <2>4 DEF Filters
<1> QED BY ListKinds, <1>1, <1>2, <1>3, <1>4

-----------------------------------------------------------------------------
(* What Become does: the view is v, or v with the first page when what the *)
(* page's effect depends on has changed.                                   *)
LEMMA DepsAre ==
  ASSUME kind \in PageKinds, view \in View, NEW v \in View
  PROVE  /\ Deps(v) = Deps(view) => v.filter = view.filter
         /\ Deps(v) = Deps(view) /\ Page[kind].typed => v.debounced = view.debounced
         /\ Deps(v) = Deps(view) /\ kind # "deliveries" => v.scope = view.scope
         /\ Deps(v) = Deps(view) /\ Page[kind].selects => Listing(v) = Listing(view)
<1>1. /\ "filter" \in Page[kind].resets
      /\ Page[kind].resets \subseteq {"filter", "debounced", "scope"}
      /\ Page[kind].typed => "debounced" \in Page[kind].resets
      /\ kind # "deliveries" => "scope" \in Page[kind].resets
      /\ Page[kind].selects => Page[kind].resets = {"filter", "debounced", "scope"}
  BY PageIs
<1>2. \A d \in Page[kind].resets : Deps(v)[d] = v[d] /\ Deps(view)[d] = view[d]
  BY DEF Deps
<1>3. ASSUME Deps(v) = Deps(view), NEW d \in Page[kind].resets PROVE v[d] = view[d]
  BY <1>2, <1>3
<1>4. Deps(v) = Deps(view) /\ Page[kind].selects => Listing(v) = Listing(view)
  BY <1>1, <1>3 DEF Listing
<1> QED BY <1>1, <1>3, <1>4

LEMMA BecomeIs ==
  ASSUME NEW v \in View, Become(v)
  PROVE  /\ view' \in View /\ url' = UrlOf(view')
         /\ view'.search = v.search /\ view'.debounced = v.debounced
         /\ view'.filter = v.filter /\ view'.scope = v.scope
         /\ Deps(v) # Deps(view) => view'.offset = 0 /\ selected' = {}
         /\ Deps(v) = Deps(view) => view' = v /\ selected' = selected
         /\ pagedIn' = IF view'.offset # view.offset THEN Listing(view') ELSE pagedIn
         /\ listed' = RowsShown(view') \cup (IF Listing(v) # Listing(view) THEN {} ELSE listed)
<1>1. CASE Deps(v) # Deps(view)
  <2>1. view' = [v EXCEPT !.offset = 0]
    BY <1>1 DEF Become, Settled
  <2>2. /\ view' \in View /\ view'.offset = 0
        /\ view'.search = v.search /\ view'.debounced = v.debounced
        /\ view'.filter = v.filter /\ view'.scope = v.scope
    BY <2>1 DEF View
  <2> QED BY <1>1, <2>2 DEF Become
<1>2. CASE Deps(v) = Deps(view)
  <2>1. view' = v
    BY <1>2 DEF Become, Settled
  <2> QED BY <1>2, <2>1 DEF Become
<1> QED BY <1>1, <1>2

-----------------------------------------------------------------------------
LEMMA InitListTInv == Init => ListTInv
<1> SUFFICES ASSUME Init PROVE ListTInv
  OBVIOUS
<1>1. kind \in PageKinds /\ stored \in Scopes /\ NoFilter(kind) \in Filters /\ 0 \in Nat
      /\ "" \in Searches
  BY NoFilterIsFilter, ListAssumption DEF Init
<1>2. view \in View /\ url = UrlOf(view) /\ view.scope = stored /\ view.search = ""
      /\ view.debounced = ""
  BY <1>1 DEF Init, View
<1>3. view.scope # "unknown"
  BY <1>1, <1>2, ListAssumption
<1> QED BY <1>1, <1>2, <1>3 DEF ListTInv

LEMMA MountIs ==
  ASSUME ListTInv, NEW how \in {"load", "navigate"}, Mount(how)
  PROVE  /\ view' \in View /\ UrlOf(view') = url
         /\ view'.search = view.search /\ view'.debounced = view.search
         /\ view'.filter = view.filter /\ view'.offset = view.offset
         /\ view'.scope = stored \/ (view'.scope = "unknown" /\ Page[kind].late)
         /\ UNCHANGED <<kind, url, stored>>
<1>1. view' = FromUrl(UrlOf(view), ScopeAt(how)) /\ kind \in PageKinds /\ view \in View
      /\ UNCHANGED <<kind, url, stored>> /\ stored \in Scopes
  BY DEF ListTInv, Mount
<1>2. ScopeAt(how) = stored \/ (ScopeAt(how) = "unknown" /\ Page[kind].late)
  BY DEF ScopeAt
<1>3. /\ view'.search = view.search /\ view'.debounced = view.search
      /\ view'.filter = view.filter /\ view'.offset = view.offset /\ view'.scope = ScopeAt(how)
  BY <1>1, UrlIsRead
<1>4. view' = [search |-> view'.search, debounced |-> view'.debounced, filter |-> view'.filter,
               offset |-> view'.offset, scope |-> view'.scope]
  BY <1>1 DEF FromUrl
<1>5. view' \in View
  BY <1>1, <1>2, <1>3, <1>4 DEF View
<1>6. UrlOf(view') = UrlOf(view)
  BY <1>3 DEF UrlOf
<1> QED BY <1>1, <1>2, <1>3, <1>5, <1>6 DEF ListTInv

(* The steps that change the view, and those that leave it.                *)
Moves == \/ ProjectKnown \/ Debounce \/ NextPage \/ PrevPage
         \/ \E s \in Searches : Type(s)
         \/ \E f \in FilterChoices(kind, view.filter) : Choose(f)
         \/ \E s \in Scopes : SwitchScope(s)
Rests == \/ \E r \in RowsShown(view) : toggleSelect(r)
         \/ toggleAll \/ clearSelection \/ Bulk \/ BulkDone

LEMMA MovesBecome ==
  ASSUME ListTInv, Moves
  PROVE  \E v \in View :
           /\ Become(v)
           /\ Page[kind].typed \/ (v.search = view.search /\ v.debounced = view.debounced)
           /\ v.scope = view.scope \/ v.scope \in Scopes
           /\ stored' \in Scopes /\ UNCHANGED <<kind, bulk, gone>>
<1>t. view \in View /\ stored \in Scopes /\ kind \in PageKinds /\ PageSize \in Nat \ {0}
  BY ListAssumption DEF ListTInv
<1>1. CASE ProjectKnown
  <2>1. [view EXCEPT !.scope = stored] \in View /\ [view EXCEPT !.scope = stored].scope = stored
        /\ [view EXCEPT !.scope = stored].search = view.search
        /\ [view EXCEPT !.scope = stored].debounced = view.debounced
    BY <1>t DEF View
  <2> QED BY <1>1, <1>t, <2>1 DEF ProjectKnown
<1>2. CASE Debounce
  <2>1. Page[kind].typed
    BY <1>2 DEF Debounce, ListTInv
  <2>2. [view EXCEPT !.debounced = view.search] \in View
        /\ [view EXCEPT !.debounced = view.search].scope = view.scope
    BY <1>t DEF View
  <2> QED BY <1>2, <1>t, <2>1, <2>2 DEF Debounce
<1>3. CASE NextPage \/ PrevPage
  <2>1. PICK n \in Nat : Become([view EXCEPT !.offset = n]) /\ UNCHANGED <<kind, stored, bulk, gone>>
    <3>1. view.offset \in Nat
      BY <1>t DEF View
    <3>2. CASE NextPage
      BY <1>t, <3>1, <3>2 DEF NextPage
    <3>3. CASE PrevPage
      BY <1>t, <3>1, <3>3 DEF PrevPage
    <3> QED BY <1>3, <3>2, <3>3
  <2>2. /\ [view EXCEPT !.offset = n] \in View /\ [view EXCEPT !.offset = n].scope = view.scope
        /\ [view EXCEPT !.offset = n].search = view.search
        /\ [view EXCEPT !.offset = n].debounced = view.debounced
    BY <1>t DEF View
  <2> QED BY <1>t, <2>1, <2>2
<1>4. ASSUME NEW s \in Searches, Type(s)
      PROVE  \E v \in View :
               /\ Become(v)
               /\ Page[kind].typed
               /\ v.scope = view.scope
               /\ UNCHANGED <<kind, stored, bulk, gone>>
  <2>1. [view EXCEPT !.search = s] \in View /\ [view EXCEPT !.search = s].scope = view.scope
    BY <1>t DEF View
  <2> QED BY <1>4, <2>1 DEF Type
<1>5. ASSUME NEW f \in FilterChoices(kind, view.filter), Choose(f)
      PROVE  \E v \in View :
               /\ Become(v)
               /\ v.search = view.search /\ v.debounced = view.debounced
               /\ v.scope = view.scope
               /\ UNCHANGED <<kind, stored, bulk, gone>>
  <2>1. view.filter \in Filters
    BY <1>t DEF View
  <2>2. f \in Filters
    BY <1>t, <2>1, ChoiceIsFilter
  <2>3. /\ [view EXCEPT !.filter = f] \in View /\ [view EXCEPT !.filter = f].scope = view.scope
        /\ [view EXCEPT !.filter = f].search = view.search
        /\ [view EXCEPT !.filter = f].debounced = view.debounced
    BY <1>t, <2>2 DEF View
  <2> QED BY <1>5, <2>3 DEF Choose
<1>6. ASSUME NEW s \in Scopes, SwitchScope(s)
      PROVE  \E v \in View :
               /\ Become(v)
               /\ v.search = view.search /\ v.debounced = view.debounced
               /\ v.scope \in Scopes
               /\ stored' \in Scopes /\ UNCHANGED <<kind, bulk, gone>>
  <2>1. /\ [view EXCEPT !.scope = s] \in View /\ [view EXCEPT !.scope = s].scope = s
        /\ [view EXCEPT !.scope = s].search = view.search
        /\ [view EXCEPT !.scope = s].debounced = view.debounced
    BY <1>t DEF View
  <2> QED BY <1>6, <2>1 DEF SwitchScope
<1> QED BY <1>t, <1>1, <1>2, <1>3, <1>4, <1>5, <1>6 DEF Moves

LEMMA NextCases == Next <=> (\E how \in {"load", "navigate"} : Mount(how)) \/ Moves \/ Rests
  BY DEF Next, Moves, Rests

LEMMA RestsKeep == ASSUME Rests PROVE UNCHANGED <<kind, view, url, stored, pagedIn>>
  BY DEF Rests, toggleSelect, toggleAll, clearSelection, Selecting, Bulk, BulkDone

LEMMA StepListTInv == ListTInv /\ [Next]_lvars => ListTInv'
<1> SUFFICES ASSUME ListTInv, [Next]_lvars PROVE ListTInv'
  OBVIOUS
<1>k. UNCHANGED kind => View' = View
  BY DEF View, Filters
<1>u. ASSUME UNCHANGED <<kind, view, url, stored>> PROVE ListTInv'
  BY <1>u, <1>k DEF ListTInv, UrlOf
<1>1. ASSUME NEW how \in {"load", "navigate"}, Mount(how) PROVE ListTInv'
  <2>1. UrlOf(view)' = url'
    BY <1>1, MountIs DEF UrlOf
  <2>2. stored # "unknown" /\ stored \in Scopes
    BY ListAssumption DEF ListTInv
  <2> QED BY <1>1, <1>k, <2>1, <2>2, MountIs DEF ListTInv
<1>2. CASE Moves
  <2>1. PICK v \in View :
           /\ Become(v)
           /\ Page[kind].typed \/ (v.search = view.search /\ v.debounced = view.debounced)
           /\ v.scope = view.scope \/ v.scope \in Scopes
           /\ stored' \in Scopes /\ UNCHANGED <<kind, bulk, gone>>
    BY <1>2, MovesBecome
  <2>2. /\ view' \in View /\ url' = UrlOf(view')
        /\ view'.search = v.search /\ view'.debounced = v.debounced /\ view'.scope = v.scope
    BY <2>1, BecomeIs
  <2>3. url' = UrlOf(view)'
    BY <2>1, <2>2 DEF UrlOf
  <2>4. "unknown" \notin Scopes
    BY ListAssumption
  <2> QED BY <1>k, <2>1, <2>2, <2>3, <2>4 DEF ListTInv
<1>3. CASE Rests
  BY <1>3, <1>u, RestsKeep
<1>4. CASE UNCHANGED lvars
  BY <1>4, <1>u DEF lvars
<1> QED BY <1>1, <1>2, <1>3, <1>4, NextCases

(* Every reachable state of a list is well typed, and its URL is that of   *)
(* its view.                                                               *)
THEOREM ListTypesCorrect == Spec => []ListTInv
  BY InitListTInv, StepListTInv, PTL DEF Spec

-----------------------------------------------------------------------------
(* Whoever comes to the URL of the moment with the project known sees what *)
(* is shown, but for a search still debounced; whoever loads it sees the   *)
(* same from the first row on, once the project has arrived.               *)
THEOREM UrlShowsTheView == Spec => []UrlShowsView
<1>1. ASSUME ListTInv PROVE UrlShowsView
  <2>1. kind \in PageKinds /\ view \in View /\ url = UrlOf(view) /\ stored \in Scopes
    BY <1>1 DEF ListTInv
  <2> DEFINE here == [search |-> view.search, debounced |-> view.search,
                      filter |-> view.filter, offset |-> view.offset, scope |-> stored]
  <2>3. \A s : FromUrl(url, s) = [search |-> view.search, debounced |-> view.search,
                                 filter |-> view.filter, offset |-> view.offset, scope |-> s]
    <3> TAKE s
    <3>1. FromUrl(url, s) = [search |-> FromUrl(url, s).search,
            debounced |-> FromUrl(url, s).debounced, filter |-> FromUrl(url, s).filter,
            offset |-> FromUrl(url, s).offset, scope |-> FromUrl(url, s).scope]
      BY DEF FromUrl
    <3> QED BY <2>1, <3>1, UrlIsRead
  <2>4. FromUrl(url, stored) = here
    BY <2>3
  <2> DEFINE v == FromUrl(url, ScopeAt("load"))
             w == [v EXCEPT !.scope = stored]
  <2>5. w = here
    BY <2>3
  <2>6. CASE Page[kind].late
    <3>1. v.scope = "unknown" /\ w.scope = stored /\ stored # "unknown"
          /\ "scope" \in Page[kind].resets
      <4>1. ScopeAt("load") = "unknown"
        BY <2>6 DEF ScopeAt
      <4>2. v.scope = "unknown" /\ here.scope = stored
        BY <2>3, <4>1
      <4>3. stored # "unknown" /\ "scope" \in Page[kind].resets
        BY <2>1, <2>6, PageIs, ListAssumption
      <4> QED BY <2>5, <4>2, <4>3
    <3>2. Deps(w)["scope"] = w["scope"] /\ Deps(v)["scope"] = v["scope"]
      BY <3>1 DEF Deps
    <3>3. Deps(w) # Deps(v)
      <4> HIDE DEF v, w
      <4> QED BY <3>1, <3>2
    <3>4. Loaded(url) = [here EXCEPT !.offset = 0]
      BY <2>5, <3>3 DEF Loaded, Settled
    <3> QED BY <2>4, <2>6, <3>4 DEF UrlShowsView
  <2>7. CASE ~Page[kind].late
    <3>1. v = here
      BY <2>4, <2>7 DEF ScopeAt
    <3>2. Settled(v, w) = w
      BY <2>5, <3>1 DEF Settled
    <3>3. Loaded(url) = here /\ here = [here EXCEPT !.offset = @]
      BY <2>5, <3>2 DEF Loaded
    <3> QED BY <2>4, <2>7, <3>3 DEF UrlShowsView
  <2> QED BY <2>6, <2>7
<1> QED BY <1>1, ListTypesCorrect, PTL

-----------------------------------------------------------------------------
(* An offset belongs to the listing it was chosen in.                      *)
LEMMA InitOffset == Init => OffsetBelongs
  BY DEF Init, OffsetBelongs

LEMMA StepOffset == ListTInv /\ OffsetBelongs /\ [Next]_lvars => OffsetBelongs'
<1> SUFFICES ASSUME ListTInv, OffsetBelongs, [Next]_lvars PROVE OffsetBelongs'
  OBVIOUS
<1>t. kind \in PageKinds /\ view \in View /\ (Page[kind].late \/ view.scope # "unknown")
  BY DEF ListTInv
<1>u. ASSUME UNCHANGED <<kind, view, pagedIn>> PROVE OffsetBelongs'
  BY <1>u DEF OffsetBelongs, Listing
<1>1. ASSUME NEW how \in {"load", "navigate"}, Mount(how) PROVE OffsetBelongs'
  <2>1. view' \in View /\ (view'.scope = stored \/ view'.scope = "unknown") /\ UNCHANGED kind
    BY <1>1, MountIs
  <2>2. pagedIn' = Listing([view' EXCEPT !.scope = stored])
    BY <1>1 DEF Mount
  <2>3. pagedIn' = <<view'.filter, view'.debounced, stored>>
    BY <2>1, <2>2 DEF Listing, View
  <2> QED BY <2>1, <2>3 DEF OffsetBelongs, Listing
<1>2. CASE Moves
  <2>1. PICK v \in View :
           /\ Become(v)
           /\ Page[kind].typed \/ (v.search = view.search /\ v.debounced = view.debounced)
           /\ UNCHANGED kind
    BY <1>2, MovesBecome
  <2>2. /\ view'.debounced = v.debounced /\ view'.filter = v.filter /\ view'.scope = v.scope
        /\ Deps(v) # Deps(view) => view'.offset = 0
        /\ Deps(v) = Deps(view) => view' = v
        /\ pagedIn' = IF view'.offset # view.offset THEN Listing(view') ELSE pagedIn
    BY <2>1, BecomeIs
  <2>3. CASE view'.offset # view.offset
    BY <2>1, <2>2, <2>3 DEF OffsetBelongs, Listing
  <2>4. CASE view'.offset = view.offset /\ view'.offset # 0
    <3>1. Deps(v) = Deps(view) /\ pagedIn' = pagedIn
      BY <2>2, <2>4
    <3>2. /\ v.filter = view.filter /\ v.debounced = view.debounced
          /\ kind # "deliveries" => v.scope = view.scope
      BY <1>t, <2>1, <3>1, DepsAre
    <3>3. kind = "deliveries" => view.scope # "unknown"
      BY <1>t, PageIs
    <3> QED BY <2>1, <2>2, <2>4, <3>1, <3>2, <3>3 DEF OffsetBelongs, Listing
  <2>5. CASE view'.offset = 0
    BY <2>5 DEF OffsetBelongs
  <2> QED BY <2>3, <2>4, <2>5
<1>3. CASE Rests
  BY <1>3, <1>u, RestsKeep
<1>4. CASE UNCHANGED lvars
  BY <1>4, <1>u DEF lvars
<1> QED BY <1>1, <1>2, <1>3, <1>4, NextCases

(* No change of filter, search or project leaves an offset in the middle   *)
(* of another list.                                                        *)
THEOREM OffsetsBelong == Spec => []OffsetBelongs
<1>1. ListTInv /\ OffsetBelongs /\ [Next]_lvars => (ListTInv /\ OffsetBelongs)'
  BY StepListTInv, StepOffset
<1> QED BY <1>1, InitListTInv, InitOffset, PTL DEF Spec

-----------------------------------------------------------------------------
(* A bulk action reaches what was seen: what is on the screen counts as    *)
(* seen, and a page whose rows cannot be selected has none selected.       *)
SeenInv ==
  /\ BulkActsOnSeen
  /\ RowsShown(view) \subseteq listed
  /\ Page[kind].selects \/ selected = {}

LEMMA InitSeenInv == Init => SeenInv
  BY DEF Init, SeenInv, BulkActsOnSeen

LEMMA StepSeenInv == ListTInv /\ SeenInv /\ [Next]_lvars => SeenInv'
<1> SUFFICES ASSUME ListTInv, SeenInv, [Next]_lvars PROVE SeenInv'
  OBVIOUS
<1>t. kind \in PageKinds /\ view \in View
  BY DEF ListTInv
<1>i. selected \subseteq listed /\ RowsShown(view) \subseteq listed
      /\ (Page[kind].selects \/ selected = {})
  BY DEF SeenInv, BulkActsOnSeen
<1>u. ASSUME UNCHANGED gone PROVE RowsShown(view)' = RowsShown(view')
  BY <1>u DEF RowsShown, Rank, Rows
<1>g. ASSUME selected' \subseteq listed', RowsShown(view)' \subseteq listed', UNCHANGED kind,
             Page[kind].selects \/ selected' = {}
      PROVE  SeenInv'
  BY <1>g DEF SeenInv, BulkActsOnSeen
<1>1. ASSUME NEW how \in {"load", "navigate"}, Mount(how) PROVE SeenInv'
  BY <1>1, <1>u, <1>g DEF Mount
<1>2. CASE Moves
  <2>1. PICK v \in View : Become(v) /\ UNCHANGED <<kind, gone>>
    BY <1>2, MovesBecome
  <2>2. /\ Deps(v) # Deps(view) => selected' = {}
        /\ Deps(v) = Deps(view) => selected' = selected
        /\ listed' = RowsShown(view') \cup (IF Listing(v) # Listing(view) THEN {} ELSE listed)
    BY <2>1, BecomeIs
  <2>3. Deps(v) = Deps(view) /\ Page[kind].selects => Listing(v) = Listing(view)
    BY <1>t, DepsAre
  <2>4. RowsShown(view)' = RowsShown(view')
    BY <2>1, <1>u
  <2> QED BY <1>i, <1>g, <2>1, <2>2, <2>3, <2>4
<1>3. CASE Rests
  <2>1. CASE (\E r \in RowsShown(view) : toggleSelect(r)) \/ toggleAll
    <3>1. UNCHANGED <<kind, view, listed, gone>> /\ Page[kind].selects
          /\ selected' \subseteq selected \cup RowsShown(view)
      BY <2>1 DEF toggleSelect, toggleAll, Selecting
    <3>2. RowsShown(view)' = RowsShown(view)
      BY <3>1, <1>u
    <3> QED BY <1>i, <1>g, <3>1, <3>2
  <2>2. CASE clearSelection \/ Bulk
    <3>1. UNCHANGED <<kind, view, listed, gone>> /\ selected' \in {selected, {}}
      BY <2>2 DEF clearSelection, Selecting, Bulk
    <3>2. RowsShown(view)' = RowsShown(view)
      BY <3>1, <1>u
    <3> QED BY <1>i, <1>g, <3>1, <3>2
  <2>3. CASE BulkDone
    BY <2>3, <1>g DEF BulkDone
  <2> QED BY <1>3, <2>1, <2>2, <2>3 DEF Rests
<1>4. CASE UNCHANGED lvars
  <2>1. UNCHANGED <<kind, view, listed, gone, selected>>
    BY <1>4 DEF lvars
  <2>2. RowsShown(view)' = RowsShown(view)
    BY <2>1, <1>u
  <2> QED BY <1>i, <1>g, <2>1, <2>2
<1> QED BY <1>1, <1>2, <1>3, <1>4, NextCases

(* A bulk action reaches rows of the listing they were selected in, of the *)
(* current project, and that were on the screen.                           *)
THEOREM BulkReachesSeen == Spec => []BulkActsOnSeen
<1>1. ListTInv /\ SeenInv /\ [Next]_lvars => (ListTInv /\ SeenInv)'
  BY StepListTInv, StepSeenInv
<1>2. Spec => [](ListTInv /\ SeenInv)
  BY <1>1, InitListTInv, InitSeenInv, PTL DEF Spec
<1>3. SeenInv => BulkActsOnSeen
  BY DEF SeenInv
<1> QED BY <1>2, <1>3, PTL


(***************************************************************************)
(* Session                                                                 *)
(***************************************************************************)

(* What goes with the types: a pair without an account is no pair, a call  *)
(* that is not under way is none, an answer is about an account.           *)
Paired(p) == p.sub = "none" => p = NoPair

CallOk(k, c) ==
  /\ Paired(c.pair)
  /\ c.phase = "idle" => c = NoCall
  /\ c.phase # "idle" => c.sends \in {1, 2}
  /\ c.phase = "waiting" => c.sends = 1
  /\ k # "access" /\ c.phase = "ok" => c.pair.sub \in Users
  /\ k = "access" =>
       /\ c.phase # "waiting" /\ (c.phase # "idle" => c.by \in Users)
       /\ c.phase = "ok" => c.pair.sub = c.by
       /\ c.phase \in {"sent", "denied"} => c.pair = NoPair

RefreshOk(r) ==
  /\ Paired(r.pair)
  /\ r.phase = "idle" => r = NoRefresh
  /\ r.phase \in {"sent", "ok"} => r.pair.sub \in Users
  /\ r.phase = "ok" => r.pair.fresh

SessionTInv ==
  /\ SessionTypeOK /\ Paired(store)
  /\ \A t \in Tabs : RefreshOk(refresh[t]) /\ \A k \in Kinds : CallOk(k, calls[t][k])

(* Without a crossed sign-in, everything under way and on show belongs to  *)
(* one account, except what the sign-in form itself has under way.         *)
Of(p, u) == p.sub \in {u, "none"}

BelongsTo(u) ==
  /\ Of(store, u)
  /\ \A t \in Tabs :
       /\ shown[t] \in {u, "none", "loading"} /\ Of(refresh[t].pair, u)
       /\ \A k \in Kinds \ {"access"} : Of(calls[t][k].pair, u) /\ calls[t][k].by \in {u, "none"}

OneUser == "in" \notin crossed => \E u \in Users : BelongsTo(u)

(* A session that nobody ended: what is stored or was sent carries the     *)
(* current version, but for the pair in store while the answer of a        *)
(* password change, which is alone then, is awaited; and a call that was   *)
(* repeated is accepted.                                                   *)
Current(p, v) == p.sub \in Users /\ p.ver = v[p.sub]

CallLive(k, c, v) ==
  /\ k = "logout" => c.phase = "idle"
  /\ k # "access" /\ c.phase = "sent" => Current(c.pair, v)
  /\ k \in {"access", "password"} /\ c.phase = "ok" => Current(c.pair, v)
  /\ k # "access" /\ c.sends = 2 => c.phase \in {"sent", "ok"} /\ (c.phase = "sent" => c.pair.fresh)

RefreshLive(r, v) == r.phase # "denied" /\ (r.phase # "idle" => Current(r.pair, v))

Resting(t) ==
  refresh[t].phase = "idle" /\ \A k \in Kinds \ {"access", "password"} : calls[t][k].phase = "idle"

KeptInv ==
  ended = {} =>
    /\ Changing \/ store = NoPair \/ Current(store, version)
    /\ store = NoPair => \A t \in Tabs :
         shown[t] \notin Users /\ Resting(t) /\ calls[t]["password"].phase = "idle"
    /\ \A t \in Tabs : /\ RefreshLive(refresh[t], version)
                       /\ \A k \in Kinds : CallLive(k, calls[t][k], version)
    /\ \A t \in Tabs : calls[t]["password"].phase = "ok" =>
         \A s \in Tabs : Resting(s) /\ (s # t => calls[s]["password"].phase = "idle")

(* Without anything crossed: a tab that shows nobody has nothing under way *)
(* but a sign-in or a logout, a logout finds nothing stored and nothing    *)
(* that could store, and what is stored is on show, or will be.            *)
Powerless(c) == c.phase \in {"idle", "sent", "denied"} /\ c.pair = NoPair

SignOutInv ==
  crossed = {} =>
    /\ \A t \in Tabs : shown[t] = "none" =>
         refresh[t].phase = "idle" /\ \A k \in Kinds \ {"access", "logout"} : calls[t][k].phase = "idle"
    /\ (\E t \in Tabs : calls[t]["logout"].phase # "idle") =>
         /\ store = NoPair
         /\ \A t \in Tabs : /\ refresh[t].phase = "idle"
                            /\ \A k \in Kinds \ {"access", "logout"} : Powerless(calls[t][k])
    /\ store # NoPair => \E t \in Tabs : shown[t] # "none"

SessionInv == SessionTInv /\ OneUser /\ KeptInv /\ SignOutInv

-----------------------------------------------------------------------------
LEMMA PairTypes ==
  /\ NoPair \in Pairs /\ Paired(NoPair) /\ NoCall \in Call /\ NoRefresh \in Refresh
  /\ NoCall.phase = "idle" /\ NoCall.pair = NoPair /\ NoCall.by = "none" /\ NoCall.sends = 0
  /\ NoRefresh.phase = "idle" /\ NoRefresh.pair = NoPair /\ NoPair.sub = "none" /\ ~NoPair.fresh
  /\ RefreshOk(NoRefresh) /\ \A k \in Kinds : CallOk(k, NoCall)
  /\ "none" \notin Users /\ "loading" \notin Users
BY SessionAssumption DEF NoPair, Pairs, Paired, NoCall, NoRefresh, Call, Refresh, Phases,
                         RefreshOk, CallOk

LEMMA TypesOf ==
  ASSUME SessionTInv
  PROVE  /\ version \in [Users -> Nat] /\ store \in Pairs /\ Paired(store)
         /\ shown \in [Tabs -> Users \cup {"none", "loading"}]
         /\ calls \in [Tabs -> [Kinds -> Call]] /\ refresh \in [Tabs -> Refresh]
         /\ crossed \subseteq {"in", "out"} /\ ended \subseteq Reasons
         /\ \A t \in Tabs : RefreshOk(refresh[t]) /\ \A k \in Kinds : CallOk(k, calls[t][k])
BY DEF SessionTInv, SessionTypeOK

(* What the history notes: why a session may be over, if it may.           *)
LEMMA EndingIs ==
  ASSUME SessionTInv, NEW why \in Reasons, NEW when \in BOOLEAN, Ending(why, when)
  PROVE  /\ ended' \subseteq Reasons /\ ended \subseteq ended'
         /\ when => ended' # {}
<1>1. ended \subseteq Reasons
  BY TypesOf
<1>2. CASE when
  BY <1>1, <1>2 DEF Ending
<1>3. CASE ~when
  BY <1>1, <1>3 DEF Ending
<1> QED BY <1>2, <1>3

(* The types are kept if what becomes of each call and refresh is right.   *)
LEMMA TypesKept ==
  ASSUME SessionTInv, version' \in [Users -> Nat], store' \in Pairs, Paired(store'),
         shown' \in [Tabs -> Users \cup {"none", "loading"}],
         calls' \in [Tabs -> [Kinds -> Call]], refresh' \in [Tabs -> Refresh],
         crossed' \subseteq {"in", "out"}, ended' \subseteq Reasons,
         \A t \in Tabs, k \in Kinds : calls'[t][k] = calls[t][k] \/ CallOk(k, calls'[t][k]),
         \A t \in Tabs : refresh'[t] = refresh[t] \/ RefreshOk(refresh'[t])
  PROVE  SessionTInv'
<1>1. \A t \in Tabs : RefreshOk(refresh'[t]) /\ \A k \in Kinds : CallOk(k, calls'[t][k])
  BY TypesOf
<1>2. Paired(store)' /\ SessionTypeOK'
  BY DEF SessionTypeOK, Paired
<1>3. \A t \in Tabs : RefreshOk(refresh[t])' /\ \A k \in Kinds : CallOk(k, calls[t][k])'
  BY <1>1 DEF RefreshOk, CallOk, Paired
<1> QED BY <1>2, <1>3 DEF SessionTInv

(* One call becomes c.                                                     *)
LEMMA CallSet ==
  ASSUME SessionTInv, NEW t \in Tabs, NEW k \in Kinds, NEW c \in Call,
         calls' = [calls EXCEPT ![t][k] = c]
  PROVE  /\ calls' \in [Tabs -> [Kinds -> Call]] /\ calls'[t][k] = c
         /\ \A s \in Tabs, j \in Kinds : s # t \/ j # k => calls'[s][j] = calls[s][j]
BY TypesOf

LEMMA InitSessionInv == SessionInit => SessionInv
<1> SUFFICES ASSUME SessionInit PROVE SessionInv
  OBVIOUS
<1>0. /\ \A t \in Tabs : shown[t] = "none" /\ refresh[t] = NoRefresh
      /\ \A t \in Tabs, k \in Kinds : calls[t][k] = NoCall
      /\ store = NoPair
  BY DEF SessionInit
<1>1. SessionTInv
  BY PairTypes DEF SessionInit, SessionTInv, SessionTypeOK
<1>2. OneUser
  <2>1. PICK u \in Users : TRUE
    BY SessionAssumption
  <2>2. BelongsTo(u)
    BY <1>0, PairTypes DEF BelongsTo, Of
  <2> QED BY <2>2 DEF OneUser
<1>3. KeptInv
  <2>1. \A t \in Tabs : Resting(t) /\ calls[t]["password"].phase = "idle" /\ shown[t] \notin Users
    BY <1>0, PairTypes DEF Resting, Kinds
  <2>2. \A t \in Tabs : RefreshLive(refresh[t], version)
    BY <1>0, PairTypes DEF RefreshLive
  <2>3. \A t \in Tabs : \A k \in Kinds : CallLive(k, calls[t][k], version)
    BY <1>0, PairTypes DEF CallLive
  <2> QED BY <1>0, <2>1, <2>2, <2>3 DEF KeptInv
<1>4. SignOutInv
  BY <1>0, PairTypes DEF SessionInit, SignOutInv, Kinds
<1> QED BY <1>1, <1>2, <1>3, <1>4 DEF SessionInv

StepHolds == /\ SessionTInv' /\ (OneUser => OneUser')
             /\ (KeptInv => KeptInv') /\ (SignOutInv => SignOutInv')

LEMMA RequestIs ==
  ASSUME NEW u \in Users \cup {"none"}, NEW p \in Pairs, Paired(p)
  PROVE  /\ request(u, p) \in Call
         /\ request(u, p).phase = "sent" /\ request(u, p).pair = p
         /\ request(u, p).by = u /\ request(u, p).sends = 1
         /\ \A k \in Kinds \ {"access"} : CallOk(k, request(u, p))
         /\ u \in Users /\ p = NoPair => CallOk("access", request(u, p))
BY DEF request, Call, Phases, CallOk

LEMMA AnswerIs ==
  ASSUME NEW c \in Call, NEW phase \in Phases, NEW p \in Pairs
  PROVE  /\ Answer(c, phase, p) \in Call
         /\ Answer(c, phase, p).phase = phase /\ Answer(c, phase, p).pair = p
         /\ Answer(c, phase, p).by = c.by /\ Answer(c, phase, p).sends = c.sends
BY DEF Answer, Call

LEMMA SignInHolds == ASSUME SessionTInv, NEW t \in Tabs, NEW u \in Users, SignIn(t, u) PROVE StepHolds
<1> DEFINE c == request(u, NoPair)
<1>1. c \in Call /\ c.phase = "sent" /\ c.pair = NoPair /\ CallOk("access", c)
  BY RequestIs, PairTypes
<1>2. /\ calls' = [calls EXCEPT ![t]["access"] = c] /\ "access" \in Kinds
      /\ UNCHANGED <<version, store, shown, refresh, crossed, ended>>
  BY DEF SignIn, Kinds
<1> HIDE DEF c
<1>3. /\ calls' \in [Tabs -> [Kinds -> Call]] /\ calls'[t]["access"] = c
      /\ \A s \in Tabs, j \in Kinds : s # t \/ j # "access" => calls'[s][j] = calls[s][j]
  BY <1>1, <1>2, CallSet, ZenonT(60)
<1>4. SessionTInv'
  BY <1>1, <1>2, <1>3, TypesOf, TypesKept
<1>5. OneUser => OneUser'
  BY <1>2, <1>3 DEF OneUser, BelongsTo, Of
<1>6. KeptInv => KeptInv'
  BY <1>1, <1>2, <1>3 DEF KeptInv, CallLive, Resting, Changing, Kinds
<1>7. SignOutInv => SignOutInv'
  BY <1>1, <1>2, <1>3 DEF SignOutInv, Kinds
<1> QED BY <1>4, <1>5, <1>6, <1>7 DEF StepHolds

LEMMA StartHolds == ASSUME SessionTInv, NEW t \in Tabs, NEW k \in Kinds, Start(t, k) PROVE StepHolds
<1> DEFINE c == request(shown[t], store)
<1>0. k \in {"work", "password"} /\ shown[t] \in Users /\ calls[t][k].phase = "idle"
  BY DEF Start
<1>1. /\ c \in Call /\ c.phase = "sent" /\ c.pair = store /\ c.by = shown[t] /\ c.sends = 1
      /\ CallOk(k, c)
  BY <1>0, RequestIs, TypesOf
<1>2. /\ calls' = [calls EXCEPT ![t][k] = c] /\ Ending("left", Changing)
      /\ UNCHANGED <<version, store, shown, refresh, crossed>>
  BY DEF Start
<1>e. ended' \subseteq Reasons /\ ended \subseteq ended' /\ (Changing => ended' # {})
  BY <1>2, EndingIs DEF Reasons, Changing
<1> HIDE DEF c
<1>3. /\ calls' \in [Tabs -> [Kinds -> Call]] /\ calls'[t][k] = c
      /\ \A s \in Tabs, j \in Kinds : s # t \/ j # k => calls'[s][j] = calls[s][j]
  BY <1>1, <1>2, CallSet, ZenonT(60)
<1>4. SessionTInv'
  BY <1>1, <1>2, <1>3, <1>e, TypesOf, TypesKept
<1>5. OneUser => OneUser'
  <2>1. \A u : BelongsTo(u) => BelongsTo(u)'
    BY <1>0, <1>1, <1>2, <1>3, PairTypes DEF BelongsTo, Of
  <2> QED BY <1>2, <2>1 DEF OneUser
<1>6. ASSUME KeptInv, ended' = {} PROVE KeptInv'
  <2>1. ended = {} /\ ~Changing
    BY <1>e, <1>6
  <2>2. store # NoPair /\ Current(store, version)
    BY <1>0, <1>6, <2>1 DEF KeptInv
  <2>3. CallLive(k, c, version)
    BY <1>0, <1>1, <2>2 DEF CallLive
  <2>4. \A s \in Tabs : calls'[s]["password"].phase # "ok"
    BY <1>1, <1>3, <2>1 DEF Changing, Kinds
  <2>5. \A s \in Tabs : RefreshLive(refresh[s], version) /\ \A j \in Kinds : CallLive(j, calls[s][j], version)
    BY <1>6, <2>1 DEF KeptInv
  <2>6. \A s \in Tabs : RefreshLive(refresh'[s], version') /\ \A j \in Kinds : CallLive(j, calls'[s][j], version')
    BY <1>2, <1>3, <2>3, <2>5
  <2> QED BY <1>2, <2>2, <2>4, <2>6 DEF KeptInv
<1>7. SignOutInv => SignOutInv'
  BY <1>0, <1>1, <1>2, <1>3, PairTypes DEF SignOutInv, Kinds, Powerless
<1> QED BY <1>4, <1>5, <1>6, <1>7 DEF StepHolds, KeptInv

LEMMA SignOutHolds == ASSUME SessionTInv, NEW t \in Tabs, signOut(t) PROVE StepHolds
<1> DEFINE c == request(shown[t], store)
<1>0. shown[t] \in Users /\ "logout" \in Kinds
  BY DEF signOut, Kinds
<1>1. /\ c \in Call /\ c.phase = "sent" /\ c.pair = store /\ c.by = shown[t] /\ CallOk("logout", c)
  BY <1>0, RequestIs, TypesOf
<1>2. /\ calls' = [calls EXCEPT ![t]["logout"] = c] /\ store' = NoPair
      /\ shown' = [shown EXCEPT ![t] = "none"]
      /\ crossed' = (IF ~AllQuiet THEN crossed \cup {"out"} ELSE crossed)
      /\ Ending("left", TRUE) /\ UNCHANGED <<version, refresh>>
  BY DEF signOut, Crossing
<1>e. ended' \subseteq Reasons /\ ended' # {}
  BY <1>2, EndingIs DEF Reasons
<1> HIDE DEF c
<1>3. /\ calls' \in [Tabs -> [Kinds -> Call]] /\ calls'[t]["logout"] = c
      /\ \A s \in Tabs, j \in Kinds : s # t \/ j # "logout" => calls'[s][j] = calls[s][j]
  BY <1>0, <1>1, <1>2, CallSet, ZenonT(60)
<1>a. /\ shown' \in [Tabs -> Users \cup {"none", "loading"}] /\ shown'[t] = "none"
      /\ \A s \in Tabs \ {t} : shown'[s] = shown[s]
  BY <1>2, TypesOf
<1>4. SessionTInv'
  BY <1>1, <1>2, <1>3, <1>a, <1>e, PairTypes, TypesOf, TypesKept
<1>5. OneUser => OneUser'
  <2>1. \A u : BelongsTo(u) => BelongsTo(u)'
    BY <1>0, <1>1, <1>2, <1>3, <1>a, PairTypes DEF BelongsTo, Of
  <2> QED BY <1>2, <2>1 DEF OneUser
<1>6. KeptInv'
  BY <1>e DEF KeptInv
<1>7. ASSUME SignOutInv, crossed' = {} PROVE SignOutInv'
  <2>1. AllQuiet
    BY <1>2, <1>7
  <2>2. \A s \in Tabs : refresh'[s].phase = "idle" /\ \A k \in Kinds \ {"access", "logout"} :
          calls'[s][k].phase = "idle" /\ calls'[s][k].pair = NoPair
    <3> SUFFICES ASSUME NEW s \in Tabs
                 PROVE  refresh[s].phase = "idle" /\ \A k \in Kinds \ {"access", "logout"} :
                          calls[s][k].phase = "idle" /\ calls[s][k].pair = NoPair
      BY <1>2, <1>3
    <3>1. refresh[s].phase = "idle" /\ \A k \in Kinds : calls[s][k].phase = "idle"
      BY <2>1 DEF AllQuiet, Quiet
    <3>2. \A k \in Kinds : calls[s][k] = NoCall
      BY <3>1, TypesOf DEF CallOk
    <3> QED BY <3>1, <3>2, PairTypes
  <2>3. \A s \in Tabs : \A k \in Kinds \ {"access", "logout"} : Powerless(calls[s][k])'
    BY <2>2 DEF Powerless
  <2> QED BY <1>2, <2>2, <2>3 DEF SignOutInv
<1> QED BY <1>4, <1>5, <1>6, <1>7 DEF StepHolds, SignOutInv

LEMMA ReloadHolds == ASSUME SessionTInv, NEW t \in Tabs, Reload(t) PROVE StepHolds
<1> DEFINE c == request("none", store)
           row == [k \in Kinds |-> IF k = "me" /\ store # NoPair THEN c ELSE NoCall]
<1>1. /\ c \in Call /\ c.phase = "sent" /\ c.pair = store /\ c.by = "none" /\ c.sends = 1
      /\ CallOk("me", c)
  <2>1. "me" \in Kinds \ {"access"} /\ "none" \in Users \cup {"none"}
    BY DEF Kinds
  <2>2. store \in Pairs /\ Paired(store)
    BY TypesOf
  <2> QED BY <2>1, <2>2, RequestIs
<1>2. /\ calls' = [calls EXCEPT ![t] = row] /\ refresh' = [refresh EXCEPT ![t] = NoRefresh]
      /\ shown' = [shown EXCEPT ![t] = IF store = NoPair THEN "none" ELSE "loading"]
      /\ Ending("left", Changing) /\ UNCHANGED <<version, store, crossed>>
  <2>1. CASE store = NoPair
    BY <2>1 DEF Reload
  <2>2. CASE store # NoPair
    BY <2>2 DEF Reload
  <2> QED BY <2>1, <2>2
<1>e. ended' \subseteq Reasons /\ ended \subseteq ended' /\ (Changing => ended' # {})
  BY <1>2, EndingIs DEF Reasons, Changing
<1>3. /\ calls' \in [Tabs -> [Kinds -> Call]] /\ \A s \in Tabs \ {t} : calls'[s] = calls[s]
      /\ \A k \in Kinds : calls'[t][k] = NoCall \/ (k = "me" /\ store # NoPair /\ calls'[t][k] = c)
  <2>1. row \in [Kinds -> Call]
    BY <1>1, PairTypes
  <2>2. calls'[t] = row /\ \A k \in Kinds : row[k] = IF k = "me" /\ store # NoPair THEN c ELSE NoCall
    BY <1>2, TypesOf
  <2> HIDE DEF row, c
  <2> QED BY <1>2, <2>1, <2>2, TypesOf
<1> HIDE DEF c, row
<1>a. /\ shown' \in [Tabs -> Users \cup {"none", "loading"}]
      /\ shown'[t] = (IF store = NoPair THEN "none" ELSE "loading")
      /\ \A s \in Tabs \ {t} : shown'[s] = shown[s]
      /\ refresh' \in [Tabs -> Refresh] /\ refresh'[t] = NoRefresh
      /\ \A s \in Tabs \ {t} : refresh'[s] = refresh[s]
  BY <1>2, TypesOf, PairTypes
<1>4. SessionTInv'
  <2>1. \A s \in Tabs, k \in Kinds : calls'[s][k] = calls[s][k] \/ CallOk(k, calls'[s][k])
    BY <1>1, <1>3, PairTypes
  <2>2. \A s \in Tabs : refresh'[s] = refresh[s] \/ RefreshOk(refresh'[s])
    BY <1>a, PairTypes
  <2>3. ended' \subseteq Reasons
    BY <1>e
  <2> QED BY <1>2, <1>3, <1>a, <2>1, <2>2, <2>3, TypesOf, TypesKept
<1>5. OneUser => OneUser'
  <2>1. ASSUME NEW u, BelongsTo(u) PROVE BelongsTo(u)'
    <3>1. Of(refresh'[t].pair, u) /\ shown'[t] \in {u, "none", "loading"}
      BY <1>a, PairTypes DEF Of
    <3>2. \A k \in Kinds \ {"access"} : Of(calls'[t][k].pair, u) /\ calls'[t][k].by \in {u, "none"}
      BY <1>1, <1>3, <2>1, PairTypes DEF BelongsTo, Of
    <3> QED BY <1>2, <1>3, <1>a, <2>1, <3>1, <3>2 DEF BelongsTo, Of
  <2> QED BY <1>2, <2>1 DEF OneUser
<1>6. ASSUME KeptInv, ended' = {} PROVE KeptInv'
  <2>1. ended = {} /\ ~Changing
    BY <1>e, <1>6
  <2>2. store = NoPair \/ Current(store, version)
    BY <1>6, <2>1 DEF KeptInv
  <2>3. store # NoPair => CallLive("me", c, version)
    BY <1>1, <2>2 DEF CallLive
  <2>4. \A k \in Kinds : CallLive(k, NoCall, version)
    BY PairTypes DEF CallLive
  <2>5. \A s \in Tabs : RefreshLive(refresh[s], version) /\ \A j \in Kinds : CallLive(j, calls[s][j], version)
    BY <1>6, <2>1 DEF KeptInv
  <2>6. \A s \in Tabs : RefreshLive(refresh'[s], version') /\ \A j \in Kinds : CallLive(j, calls'[s][j], version')
    BY <1>2, <1>3, <1>a, <2>3, <2>4, <2>5, PairTypes DEF RefreshLive
  <2>7. \A s \in Tabs : calls'[s]["password"].phase # "ok"
    BY <1>3, <2>1, PairTypes DEF Changing, Kinds
  <2>8. ASSUME store' = NoPair, NEW s \in Tabs
        PROVE  shown'[s] \notin Users /\ Resting(s)' /\ calls'[s]["password"].phase = "idle"
    <3>1. s # t => shown[s] \notin Users /\ Resting(s) /\ calls[s]["password"].phase = "idle"
      BY <1>2, <1>6, <2>1, <2>8 DEF KeptInv
    <3> QED BY <1>2, <1>3, <1>a, <2>8, <3>1, PairTypes DEF Resting, Kinds
  <2> QED BY <1>2, <2>2, <2>6, <2>7, <2>8 DEF KeptInv
<1>7. ASSUME SignOutInv, crossed' = {} PROVE SignOutInv'
  <2>1. crossed = {}
    BY <1>2, <1>7
  <2>2. ASSUME NEW s \in Tabs, calls'[s]["logout"].phase # "idle"
        PROVE  /\ store' = NoPair
               /\ \A r \in Tabs : /\ refresh'[r].phase = "idle"
                                  /\ \A k \in Kinds \ {"access", "logout"} : Powerless(calls'[r][k])
    <3>1. s # t /\ calls[s]["logout"].phase # "idle"
      BY <1>3, <2>2, PairTypes DEF Kinds
    <3>2. /\ store = NoPair
          /\ \A r \in Tabs : /\ refresh[r].phase = "idle"
                             /\ \A k \in Kinds \ {"access", "logout"} : Powerless(calls[r][k])
      BY <1>7, <2>1, <3>1 DEF SignOutInv
    <3> QED BY <1>2, <1>3, <1>a, <3>2, PairTypes DEF Powerless
  <2>3. \A s \in Tabs : shown'[s] = "none" =>
          refresh'[s].phase = "idle" /\ \A k \in Kinds \ {"access", "logout"} : calls'[s][k].phase = "idle"
    BY <1>3, <1>7, <1>a, <2>1, PairTypes DEF SignOutInv
  <2>4. store' # NoPair => \E s \in Tabs : shown'[s] # "none"
    BY <1>2, <1>a
  <2> QED BY <2>2, <2>3, <2>4 DEF SignOutInv
<1> QED BY <1>4, <1>5, <1>6, <1>7 DEF StepHolds, KeptInv, SignOutInv

LEMMA RevokeHolds == ASSUME SessionTInv, NEW u \in Users, Revoke(u) PROVE StepHolds
<1>1. /\ version' = [version EXCEPT ![u] = @ + 1] /\ Ending("left", TRUE)
      /\ UNCHANGED <<store, shown, calls, refresh, crossed>>
  BY DEF Revoke
<1>e. ended' \subseteq Reasons /\ ended' # {}
  BY <1>1, EndingIs DEF Reasons
<1>2. SessionTInv'
  BY <1>1, <1>e, TypesOf, TypesKept
<1>3. OneUser => OneUser'
  BY <1>1 DEF OneUser, BelongsTo, Of
<1>4. KeptInv'
  BY <1>e DEF KeptInv
<1>5. SignOutInv => SignOutInv'
  BY <1>1 DEF SignOutInv, Powerless
<1> QED BY <1>2, <1>3, <1>4, <1>5 DEF StepHolds

LEMMA AgedIs ==
  ASSUME NEW p \in Pairs
  PROVE  /\ Aged(p) \in Pairs /\ Aged(p).sub = p.sub /\ Aged(p).ver = p.ver
         /\ (Aged(p) = NoPair => p.sub = "none") /\ Aged(NoPair) = NoPair
         /\ (Paired(p) => Paired(Aged(p)))
<1>1. Aged(p) \in Pairs /\ Aged(p).sub = p.sub /\ Aged(p).ver = p.ver
  BY DEF Aged, Pairs
<1>2. Aged(NoPair) = NoPair
  <2>1. Aged(NoPair) = [NoPair EXCEPT !["fresh"] = FALSE]
    BY DEF Aged
  <2>2. \A q \in Pairs : q.fresh = FALSE => [q EXCEPT !["fresh"] = FALSE] = q
    BY DEF Pairs
  <2> QED BY <2>1, <2>2, PairTypes
<1>3. NoPair.sub = "none"
  BY PairTypes
<1>4. Paired(p) => Paired(Aged(p))
  BY <1>1, <1>2 DEF Paired
<1> QED BY <1>1, <1>2, <1>3, <1>4

LEMMA ExpireHolds == ASSUME SessionTInv, Expire PROVE StepHolds
<1> DEFINE older(c) == IF c.phase = "sent" THEN [c EXCEPT !.pair = Aged(@)] ELSE c
<1>1. /\ store.fresh /\ \A t \in Tabs, k \in Kinds : calls[t][k].sends < 2
      /\ store' = Aged(store)
      /\ calls' = [t \in Tabs |-> [k \in Kinds |-> older(calls[t][k])]]
      /\ UNCHANGED <<version, shown, refresh, crossed, ended>>
  BY DEF Expire
<1>2. \A t \in Tabs, k \in Kinds :
        LET c == calls[t][k]  d == older(c) IN
        /\ d \in Call /\ d.phase = c.phase /\ d.by = c.by /\ d.sends = c.sends
        /\ d.pair = (IF c.phase = "sent" THEN Aged(c.pair) ELSE c.pair)
        /\ c.phase # "sent" => d = c
  <2> SUFFICES ASSUME NEW c \in Call
               PROVE  /\ older(c) \in Call /\ older(c).phase = c.phase /\ older(c).by = c.by
                      /\ older(c).sends = c.sends
                      /\ older(c).pair = (IF c.phase = "sent" THEN Aged(c.pair) ELSE c.pair)
                      /\ c.phase # "sent" => older(c) = c
    BY TypesOf
  <2>1. c.pair \in Pairs /\ Aged(c.pair) \in Pairs
    BY AgedIs DEF Call
  <2> QED BY <2>1 DEF Call
<1> HIDE DEF older
<1>3. /\ calls' \in [Tabs -> [Kinds -> Call]]
      /\ \A t \in Tabs, k \in Kinds :
           /\ calls'[t][k].phase = calls[t][k].phase /\ calls'[t][k].by = calls[t][k].by
           /\ calls'[t][k].sends = calls[t][k].sends
           /\ calls'[t][k].pair = IF calls[t][k].phase = "sent" THEN Aged(calls[t][k].pair)
                                  ELSE calls[t][k].pair
           /\ calls[t][k].phase # "sent" => calls'[t][k] = calls[t][k]
  BY <1>1, <1>2
<1>p. \A t \in Tabs, k \in Kinds : calls[t][k].pair \in Pairs
  BY TypesOf DEF Call
<1>q. \A t \in Tabs, k \in Kinds :
        /\ calls'[t][k].pair.sub = calls[t][k].pair.sub /\ calls'[t][k].pair.ver = calls[t][k].pair.ver
        /\ calls[t][k].pair = NoPair => calls'[t][k].pair = NoPair
  BY <1>3, <1>p, AgedIs
<1>s. /\ store' \in Pairs /\ store'.sub = store.sub /\ store'.ver = store.ver
      /\ store # NoPair /\ store' # NoPair /\ Paired(store')
  BY <1>1, AgedIs, TypesOf, PairTypes DEF Paired
<1>4. SessionTInv'
  <2>1. ASSUME NEW t \in Tabs, NEW k \in Kinds
        PROVE  calls'[t][k] = calls[t][k] \/ CallOk(k, calls'[t][k])
    <3>1. CallOk(k, calls[t][k])
      BY TypesOf
    <3>2. Paired(calls'[t][k].pair)
      BY <1>3, <1>p, <3>1, AgedIs DEF CallOk
    <3> QED BY <1>3, <1>q, <3>1, <3>2 DEF CallOk
  <2> QED BY <1>1, <1>3, <1>s, <2>1, TypesOf, TypesKept
<1>5. OneUser => OneUser'
  <2>1. \A u : BelongsTo(u) => BelongsTo(u)'
    BY <1>1, <1>3, <1>q, <1>s DEF BelongsTo, Of
  <2> QED BY <1>1, <2>1 DEF OneUser
<1>6. ASSUME KeptInv, ended' = {} PROVE KeptInv'
  <2>1. ended = {} /\ (Changing' <=> Changing)
    BY <1>1, <1>3, <1>6 DEF Changing, Kinds
  <2>2. Current(store, version) => Current(store', version')
    BY <1>1, <1>s DEF Current
  <2>3. ASSUME NEW t \in Tabs, NEW k \in Kinds PROVE CallLive(k, calls'[t][k], version')
    <3>1. CallLive(k, calls[t][k], version) /\ calls'[t][k].sends # 2
      BY <1>1, <1>3, <1>6, <2>1 DEF KeptInv
    <3> QED BY <1>1, <1>3, <1>q, <3>1 DEF CallLive, Current
  <2>4. \A t \in Tabs : Resting(t) => Resting(t)'
    BY <1>1, <1>3 DEF Resting
  <2> QED BY <1>1, <1>3, <1>6, <1>s, <2>1, <2>2, <2>3, <2>4 DEF KeptInv, Kinds
<1>7. SignOutInv => SignOutInv'
  <2>1. SignOutInv /\ crossed = {} => \A t \in Tabs : calls[t]["logout"].phase = "idle"
    BY <1>s DEF SignOutInv
  <2> QED BY <1>1, <1>3, <1>s, <2>1 DEF SignOutInv, Kinds
<1> QED BY <1>4, <1>5, <1>6, <1>7 DEF StepHolds, KeptInv

LEMMA IssuedIs ==
  ASSUME NEW u \in Users, NEW v \in Nat
  PROVE  /\ issue_token_pair(u, v) \in Pairs /\ issue_token_pair(u, v).sub = u
         /\ issue_token_pair(u, v).ver = v /\ issue_token_pair(u, v).fresh
         /\ Paired(issue_token_pair(u, v)) /\ issue_token_pair(u, v) # NoPair
BY SessionAssumption DEF issue_token_pair, Pairs, Paired, NoPair

LEMMA ServeAccessHolds == ASSUME SessionTInv, NEW t \in Tabs, ServeAccess(t) PROVE StepHolds
<1>0. calls[t]["access"].phase = "sent" /\ calls[t]["access"] \in Call /\ "access" \in Kinds
      /\ calls[t]["access"].by \in Users /\ CallOk("access", calls[t]["access"])
      /\ {"ok", "denied"} \subseteq Phases
  BY TypesOf DEF ServeAccess, Kinds, Phases, CallOk
<1> DEFINE u == calls[t]["access"].by
           p == issue_token_pair(u, version[u])
<1>a. p \in Pairs /\ p.sub = u /\ p.ver = version[u] /\ Paired(p)
  BY <1>0, IssuedIs, TypesOf
<1>1. PICK c \in Call : /\ calls' = [calls EXCEPT ![t]["access"] = c]
                        /\ c.by = u /\ c.sends = calls[t]["access"].sends
                        /\ \/ c.phase = "ok" /\ c.pair = p
                           \/ c.phase = "denied" /\ c.pair = NoPair
  <2> DEFINE c0 == calls[t]["access"]
             yes == Answer(c0, "ok", p)
             no  == Answer(c0, "denied", NoPair)
  <2>1. /\ yes \in Call /\ yes.phase = "ok" /\ yes.pair = p /\ yes.by = c0.by /\ yes.sends = c0.sends
        /\ no \in Call /\ no.phase = "denied" /\ no.pair = NoPair /\ no.by = c0.by /\ no.sends = c0.sends
    BY <1>0, <1>a, AnswerIs, PairTypes, SMTT(30)
  <2>2. \E c \in {yes, no} : calls' = [calls EXCEPT ![t]["access"] = c]
    BY DEF ServeAccess
  <2> HIDE DEF yes, no
  <2> QED BY <2>1, <2>2
<1>2. UNCHANGED <<version, store, shown, refresh, crossed, ended>>
  BY DEF ServeAccess
<1>3. /\ calls' \in [Tabs -> [Kinds -> Call]] /\ calls'[t]["access"] = c
      /\ \A s \in Tabs, j \in Kinds : s # t \/ j # "access" => calls'[s][j] = calls[s][j]
  BY <1>0, <1>1, CallSet, ZenonT(60)
<1>b. CallOk("access", c)
  BY <1>0, <1>1, <1>a, PairTypes DEF CallOk
<1>4. SessionTInv'
  BY <1>2, <1>3, <1>b, TypesOf, TypesKept
<1>5. OneUser => OneUser'
  BY <1>2, <1>3 DEF OneUser, BelongsTo, Of
<1>6. KeptInv => KeptInv'
  <2>1. CallLive("access", c, version)
    BY <1>0, <1>1, <1>a DEF CallLive, Current
  <2> QED BY <1>2, <1>3, <2>1 DEF KeptInv, Resting, Changing, Kinds
<1>7. SignOutInv => SignOutInv'
  BY <1>2, <1>3 DEF SignOutInv, Kinds
<1> QED BY <1>4, <1>5, <1>6, <1>7 DEF StepHolds

LEMMA IdleIs == ASSUME SessionTInv, NEW t \in Tabs, NEW k \in Kinds, calls[t][k].phase = "idle"
                PROVE  calls[t][k] = NoCall
BY TypesOf DEF CallOk

LEMMA ServeDeniedHolds ==
  ASSUME SessionTInv, NEW t \in Tabs, NEW k \in Kinds, Serve(t, k), ~Accepted(calls[t][k].pair)
  PROVE  StepHolds
<1> DEFINE c == calls[t][k]
           d == Answer(c, "denied", c.pair)
<1>0. k # "access" /\ c.phase = "sent" /\ c \in Call /\ c.pair \in Pairs /\ CallOk(k, c)
  BY TypesOf DEF Serve, Call
<1>1. /\ d \in Call /\ d.phase = "denied" /\ d.pair = c.pair /\ d.by = c.by /\ d.sends = c.sends
  <2>1. "denied" \in Phases
    BY DEF Phases
  <2> QED BY <1>0, <2>1, AnswerIs
<1>2. /\ calls' = [calls EXCEPT ![t][k] = d]
      /\ UNCHANGED <<version, ended, store, shown, refresh, crossed>>
  BY DEF Serve
<1> HIDE DEF c, d
<1>c. c = calls[t][k]
  BY DEF c
<1>3. /\ calls' \in [Tabs -> [Kinds -> Call]] /\ calls'[t][k] = d
      /\ \A s \in Tabs, j \in Kinds : s # t \/ j # k => calls'[s][j] = calls[s][j]
  BY <1>1, <1>2, CallSet, ZenonT(60)
<1>4. SessionTInv'
  <2>1. CallOk(k, d)
    BY <1>0, <1>1 DEF CallOk
  <2> QED BY <1>2, <1>3, <2>1, TypesOf, TypesKept
<1>5. OneUser => OneUser'
  <2>1. \A u : BelongsTo(u) => BelongsTo(u)'
    BY <1>0, <1>1, <1>2, <1>3, <1>c DEF BelongsTo, Of
  <2> QED BY <1>2, <2>1 DEF OneUser
<1>6. ASSUME KeptInv, ended = {} PROVE KeptInv'
  <2>1. CallLive(k, c, version)
    BY <1>6, <1>c DEF KeptInv
  <2>2. CallLive(k, d, version)
    BY <1>0, <1>1, <1>c, <2>1 DEF CallLive, Accepted, Current
  <2>3. \A s \in Tabs : Resting(s) => Resting(s)'
    BY <1>0, <1>2, <1>3, <1>c DEF Resting
  <2>4. \A s \in Tabs, j \in Kinds : CallLive(j, calls'[s][j], version')
    BY <1>2, <1>3, <1>6, <2>2 DEF KeptInv
  <2>5. \A s \in Tabs : (calls'[s]["password"].phase = "ok" => calls[s]["password"].phase = "ok")
                     /\ (calls[s]["password"].phase = "ok" => calls'[s]["password"].phase = "ok")
                     /\ (calls[s]["password"].phase = "idle" => calls'[s]["password"].phase = "idle")
    BY <1>0, <1>1, <1>3, <1>c DEF Kinds
  <2> QED BY <1>2, <1>6, <2>3, <2>4, <2>5 DEF KeptInv, Changing
<1>7. SignOutInv => SignOutInv'
  <2>1. \A s \in Tabs, j \in Kinds : Powerless(calls[s][j]) => Powerless(calls'[s][j])
    BY <1>1, <1>3, <1>c DEF Powerless
  <2>2. \A s \in Tabs, j \in Kinds : calls[s][j].phase = "idle" <=> calls'[s][j].phase = "idle"
    BY <1>0, <1>1, <1>3, <1>c
  <2> QED BY <1>2, <2>1, <2>2 DEF SignOutInv, Kinds
<1> QED BY <1>2, <1>4, <1>5, <1>6, <1>7 DEF StepHolds, KeptInv

LEMMA ServeAcceptedHolds ==
  ASSUME SessionTInv, NEW t \in Tabs, NEW k \in Kinds, Serve(t, k), Accepted(calls[t][k].pair)
  PROVE  StepHolds
<1> DEFINE c == calls[t][k]
           u == c.pair.sub
           p == IF k = "password" THEN ChangedPair(u) ELSE c.pair
           d == Answer(c, "ok", p)
<1>0. /\ k # "access" /\ c.phase = "sent" /\ c \in Call /\ c.pair \in Pairs /\ CallOk(k, c)
      /\ u \in Users /\ c.pair.fresh /\ c.pair.ver = version[u] /\ c.pair # NoPair
  BY TypesOf, PairTypes DEF Serve, Call, Accepted
<1>a. /\ p \in Pairs /\ p.sub = u /\ Paired(p)
      /\ k = "password" => p.ver = version[u] + 1
  <2>1. version[u] + 1 \in Nat
    BY <1>0, TypesOf
  <2>2. ChangedPair(u) \in Pairs /\ ChangedPair(u).sub = u /\ Paired(ChangedPair(u))
        /\ ChangedPair(u).ver = version[u] + 1
    BY <1>0, <2>1, IssuedIs DEF ChangedPair
  <2> QED BY <1>0, <2>2 DEF CallOk
<1>1. /\ d \in Call /\ d.phase = "ok" /\ d.pair = p /\ d.by = c.by /\ d.sends = c.sends
  <2>1. "ok" \in Phases
    BY DEF Phases
  <2> HIDE DEF p
  <2> QED BY <1>0, <1>a, <2>1, AnswerIs
<1>2. /\ calls' = [calls EXCEPT ![t][k] = d]
      /\ version' = (IF Bumps(k) THEN [version EXCEPT ![u] = @ + 1] ELSE version)
      /\ Ending("left", k = "logout" \/ (k = "password" /\ ~Alone(t, k)))
      /\ UNCHANGED <<store, shown, refresh, crossed>>
  BY DEF Serve
<1>e. /\ ended' \subseteq Reasons /\ ended \subseteq ended'
      /\ k = "logout" \/ (k = "password" /\ ~Alone(t, k)) => ended' # {}
  BY <1>2, EndingIs DEF Reasons, Alone
<1> HIDE DEF c, d, u, p
<1>c. c = calls[t][k] /\ u = calls[t][k].pair.sub
  BY DEF c, u
<1>3. /\ calls' \in [Tabs -> [Kinds -> Call]] /\ calls'[t][k] = d
      /\ \A s \in Tabs, j \in Kinds : s # t \/ j # k => calls'[s][j] = calls[s][j]
  BY <1>1, <1>2, CallSet, ZenonT(60)
<1>b. /\ version' \in [Users -> Nat] /\ (k = "password" => version'[u] = version[u] + 1)
      /\ (k \in {"me", "work"} => version' = version)
  BY <1>0, <1>2, TypesOf DEF Bumps
<1>4. SessionTInv'
  <2>1. CallOk(k, d)
    BY <1>0, <1>1, <1>a DEF CallOk
  <2>2. ended' \subseteq Reasons
    BY <1>e
  <2> QED BY <1>2, <1>3, <1>b, <2>1, <2>2, TypesOf, TypesKept
<1>5. OneUser => OneUser'
  <2>1. \A w : BelongsTo(w) => BelongsTo(w)'
    BY <1>0, <1>1, <1>2, <1>3, <1>a, <1>c DEF BelongsTo, Of
  <2> QED BY <1>2, <2>1 DEF OneUser
<1>6. ASSUME KeptInv, ended' = {} PROVE KeptInv'
  <2>1. ended = {} /\ k # "logout" /\ (k = "password" => Alone(t, k))
    BY <1>e, <1>6
  <2>2. store # NoPair
    BY <1>0, <1>6, <1>c, <2>1 DEF KeptInv, Resting, Kinds
  <2>3. CallLive(k, c, version)
    BY <1>6, <1>c, <2>1 DEF KeptInv
  <2>4. CallLive(k, d, version')
    <3>1. k = "password" => Current(p, version')
      BY <1>0, <1>a, <1>b DEF Current
    <3> QED BY <1>0, <1>1, <2>1, <2>3, <3>1 DEF CallLive
  <2>5. CASE k = "password"
    <3>1. /\ \A s \in Tabs : refresh'[s].phase = "idle"
          /\ \A s \in Tabs, j \in Kinds : s # t \/ j # k => calls'[s][j] = NoCall
      <4>1. \A s \in Tabs : refresh[s].phase = "idle"
        BY <2>1, <2>5 DEF Alone, Quiet
      <4>2. \A s \in Tabs, j \in Kinds : s # t \/ j # k => calls[s][j].phase = "idle"
        BY <2>1, <2>5 DEF Alone, Quiet
      <4> QED BY <1>2, <1>3, <4>1, <4>2, IdleIs
    <3>2. \A s \in Tabs : RefreshLive(refresh'[s], version')
      BY <3>1 DEF RefreshLive
    <3>3. \A j \in Kinds : CallLive(j, NoCall, version')
      BY PairTypes DEF CallLive
    <3>4. \A s \in Tabs, j \in Kinds : CallLive(j, calls'[s][j], version')
      BY <1>3, <2>4, <3>1, <3>3
    <3>5. \A s \in Tabs : Resting(s)' /\ (s # t => calls'[s]["password"].phase = "idle")
      BY <2>5, <3>1, PairTypes DEF Resting, Kinds
    <3>6. Changing'
      BY <1>1, <1>3, <2>5 DEF Changing
    <3> QED BY <1>2, <2>2, <3>2, <3>4, <3>5, <3>6, PairTypes DEF KeptInv, Kinds
  <2>6. CASE k # "password"
    <3>0. k \in {"me", "work"} /\ version' = version
      BY <1>0, <1>b, <2>1, <2>6 DEF Kinds
    <3>1. \A s \in Tabs : calls[s]["password"].phase # "ok"
      BY <1>0, <1>6, <1>c, <2>1, <3>0 DEF KeptInv, Resting, Kinds
    <3>2. \A s \in Tabs : calls'[s]["password"].phase # "ok"
      BY <1>3, <2>6, <3>1 DEF Kinds
    <3>3. \A s \in Tabs, j \in Kinds : CallLive(j, calls'[s][j], version')
      BY <1>3, <1>6, <2>1, <2>4, <3>0 DEF KeptInv
    <3>4. Current(store, version)
      BY <1>6, <2>1, <2>2, <3>1 DEF KeptInv, Changing
    <3>5. \A s \in Tabs : RefreshLive(refresh'[s], version')
      BY <1>2, <1>6, <2>1, <3>0 DEF KeptInv
    <3> QED BY <1>2, <2>2, <3>0, <3>2, <3>3, <3>4, <3>5 DEF KeptInv
  <2> QED BY <2>5, <2>6
<1>7. ASSUME SignOutInv, crossed' = {} PROVE SignOutInv'
  <2>1. \A s \in Tabs, j \in Kinds : calls[s][j].phase = "idle" <=> calls'[s][j].phase = "idle"
    BY <1>0, <1>1, <1>3, <1>c
  <2>2. crossed = {}
    BY <1>2, <1>7
  <2>3. ASSUME NEW s \in Tabs, calls[s]["logout"].phase # "idle"
        PROVE  k = "logout"
    BY <1>0, <1>7, <1>c, <2>2, <2>3 DEF SignOutInv, Powerless
  <2>4. \A s \in Tabs, j \in Kinds \ {"access", "logout"} :
          k = "logout" /\ Powerless(calls[s][j]) => Powerless(calls'[s][j])
    BY <1>3
  <2> QED BY <1>2, <1>7, <2>1, <2>2, <2>3, <2>4 DEF SignOutInv, Kinds
<1> QED BY <1>4, <1>5, <1>6, <1>7 DEF StepHolds, KeptInv, SignOutInv

LEMMA ServeRefreshHolds == ASSUME SessionTInv, NEW t \in Tabs, ServeRefresh(t) PROVE StepHolds
<1> DEFINE p == refresh[t].pair
           q == issue_token_pair(p.sub, p.ver)
           r == refresh'[t]
<1>0. refresh[t].phase = "sent" /\ p \in Pairs /\ p.sub \in Users /\ p.ver \in Nat
  BY TypesOf DEF ServeRefresh, RefreshOk, Refresh, Pairs
<1>1. q \in Pairs /\ q.sub = p.sub /\ q.ver = p.ver /\ q.fresh /\ Paired(q)
  BY <1>0, IssuedIs
<1> DEFINE granted == [phase |-> "ok", pair |-> q]
<1>2. /\ UNCHANGED <<version, store, shown, calls, crossed>>
      /\ \/ /\ refresh' = [refresh EXCEPT ![t] = IF p.ver = version[p.sub] THEN granted ELSE Refused]
            /\ UNCHANGED ended
         \/ refresh' = [refresh EXCEPT ![t] = Refused] /\ Ending("unserved", TRUE)
  BY DEF ServeRefresh
<1>e. /\ ended' \subseteq Reasons
      /\ \/ ended' = ended /\ (p.ver = version[p.sub] => refresh' = [refresh EXCEPT ![t] = granted])
         \/ ended' # {}
  <2>1. CASE Ending("unserved", TRUE)
    BY <2>1, EndingIs DEF Reasons
  <2>2. CASE ended' = ended /\ refresh' = [refresh EXCEPT ![t] = IF p.ver = version[p.sub] THEN granted ELSE Refused]
    <3> HIDE DEF p, granted
    <3> QED BY <2>2, TypesOf
  <2> QED BY <1>2, <2>1, <2>2
<1>f. refresh' = [refresh EXCEPT ![t] = granted] \/ refresh' = [refresh EXCEPT ![t] = Refused]
  <2> HIDE DEF p, granted
  <2> QED BY <1>2
<1> HIDE DEF p, q
<1>g. /\ granted \in Refresh /\ RefreshOk(granted) /\ granted.phase = "ok" /\ granted.pair = q
      /\ Refused \in Refresh /\ RefreshOk(Refused) /\ Refused.phase # "idle" /\ Refused.pair = NoPair
  BY <1>0, <1>1, PairTypes DEF Refresh, RefreshOk, Refused
<1> HIDE DEF granted
<1>a. /\ refresh' \in [Tabs -> Refresh] /\ refresh'[t] = r
      /\ \A s \in Tabs \ {t} : refresh'[s] = refresh[s]
      /\ r = granted \/ r = Refused
      /\ refresh' = [refresh EXCEPT ![t] = granted] => r = granted
  BY <1>f, <1>g, TypesOf
<1>3. /\ r \in Refresh /\ RefreshOk(r) /\ r.phase # "idle"
      /\ r.pair = q \/ r.pair = NoPair
      /\ p.ver = version[p.sub] /\ ended' = {} => r.phase = "ok" /\ r.pair = q
  BY <1>a, <1>e, <1>g
<1> HIDE DEF r
<1>4. SessionTInv'
  BY <1>2, <1>3, <1>a, <1>e, TypesOf, TypesKept
<1>5. OneUser => OneUser'
  <2>1. \A u : BelongsTo(u) => BelongsTo(u)'
    BY <1>1, <1>2, <1>3, <1>a, PairTypes DEF BelongsTo, Of, p
  <2> QED BY <1>2, <2>1 DEF OneUser
<1>6. ASSUME KeptInv, ended' = {} PROVE KeptInv'
  <2>0. ended = {}
    BY <1>e, <1>6
  <2>1. RefreshLive(r, version)
    BY <1>0, <1>1, <1>3, <1>6, <2>0 DEF KeptInv, RefreshLive, Current, p
  <2>2. \A s \in Tabs : Resting(s) => Resting(s)'
    BY <1>0, <1>2, <1>a DEF Resting
  <2> QED BY <1>2, <1>6, <1>a, <2>0, <2>1, <2>2 DEF KeptInv, Changing
<1>7. SignOutInv => SignOutInv'
  <2>1. \A s \in Tabs : refresh[s].phase = "idle" <=> refresh'[s].phase = "idle"
    BY <1>0, <1>3, <1>a
  <2> QED BY <1>2, <2>1 DEF SignOutInv, Powerless
<1> QED BY <1>2, <1>4, <1>5, <1>6, <1>7 DEF StepHolds, KeptInv

(* A call is over and nothing else changes, but the history.               *)
LEMMA CallEnds ==
  ASSUME SessionTInv, NEW t \in Tabs, NEW k \in Kinds,
         calls' = [calls EXCEPT ![t][k] = NoCall],
         UNCHANGED <<version, store, shown, refresh, crossed>>,
         ended' \subseteq Reasons, ended \subseteq ended',
         k = "password" /\ calls[t][k].phase = "ok" => ended' # {}
  PROVE  StepHolds
<1>3. /\ calls' \in [Tabs -> [Kinds -> Call]] /\ calls'[t][k] = NoCall
      /\ \A s \in Tabs, j \in Kinds : s # t \/ j # k => calls'[s][j] = calls[s][j]
  <2>1. NoCall \in Call
    BY PairTypes
  <2> QED BY <2>1, CallSet, ZenonT(60)
<1>4. SessionTInv'
  BY <1>3, PairTypes, TypesOf, TypesKept
<1>5. OneUser => OneUser'
  <2>1. \A u : BelongsTo(u) => BelongsTo(u)'
    BY <1>3, PairTypes DEF BelongsTo, Of
  <2> QED BY <2>1 DEF OneUser
<1>6. ASSUME KeptInv, ended' = {} PROVE KeptInv'
  <2>1. \A s \in Tabs : Resting(s) => Resting(s)'
    BY <1>3, PairTypes DEF Resting
  <2>2. \A j \in Kinds : CallLive(j, NoCall, version)
    BY PairTypes DEF CallLive
  <2>3. \A s \in Tabs, j \in Kinds : CallLive(j, calls'[s][j], version')
    BY <1>3, <1>6, <2>2 DEF KeptInv
  <2>4. \A s \in Tabs : /\ calls'[s]["password"].phase = "ok" <=> calls[s]["password"].phase = "ok"
                        /\ calls[s]["password"].phase = "idle" => calls'[s]["password"].phase = "idle"
    BY <1>3, <1>6, PairTypes DEF Kinds
  <2> QED BY <1>6, <2>1, <2>3, <2>4 DEF KeptInv, Changing
<1>7. SignOutInv => SignOutInv'
  <2>1. \A s \in Tabs, j \in Kinds : Powerless(calls[s][j]) => Powerless(calls'[s][j])
    BY <1>3, PairTypes DEF Powerless
  <2>2. \A s \in Tabs, j \in Kinds : calls[s][j].phase = "idle" => calls'[s][j].phase = "idle"
    BY <1>3, PairTypes
  <2> QED BY <2>1, <2>2 DEF SignOutInv, Kinds
<1> QED BY <1>4, <1>5, <1>6, <1>7 DEF StepHolds, KeptInv

LEMMA ReceiveAccessHolds == ASSUME SessionTInv, NEW t \in Tabs, ReceiveAccess(t) PROVE StepHolds
<1> DEFINE c == calls[t]["access"]
           p == c.pair
<1>0. "access" \in Kinds /\ c.phase \in {"ok", "denied"} /\ p \in Pairs /\ CallOk("access", c)
  BY TypesOf DEF ReceiveAccess, Kinds, Call
<1>1. CASE c.phase = "denied"
  BY <1>0, <1>1, TypesOf, CallEnds DEF ReceiveAccess
<1>2. CASE c.phase = "ok"
  <2>1. p.sub \in Users /\ Paired(p) /\ p # NoPair
    BY <1>0, <1>2, PairTypes DEF CallOk
  <2>2. /\ calls' = [calls EXCEPT ![t]["access"] = NoCall] /\ store' = p
        /\ shown' = [shown EXCEPT ![t] = p.sub]
        /\ crossed' = (IF Overlapped(t, p.sub) THEN crossed \cup {"in"} ELSE crossed)
        /\ UNCHANGED <<version, refresh, ended>>
    BY <1>2 DEF ReceiveAccess, Crossing
  <2> HIDE DEF c, p
  <2>3. /\ calls' \in [Tabs -> [Kinds -> Call]] /\ calls'[t]["access"] = NoCall
        /\ \A s \in Tabs, j \in Kinds : s # t \/ j # "access" => calls'[s][j] = calls[s][j]
    <3>1. NoCall \in Call
      BY PairTypes
    <3> QED BY <1>0, <2>2, <3>1, CallSet, ZenonT(60)
  <2>4. /\ shown' \in [Tabs -> Users \cup {"none", "loading"}] /\ shown'[t] = p.sub
        /\ \A s \in Tabs \ {t} : shown'[s] = shown[s]
    BY <2>1, <2>2, TypesOf
  <2>5. SessionTInv'
    BY <1>0, <2>1, <2>2, <2>3, <2>4, PairTypes, TypesOf, TypesKept
  <2>6. ASSUME ~Overlapped(t, p.sub)
        PROVE  /\ \A s \in Tabs : refresh'[s] = NoRefresh /\ \A j \in Kinds : calls'[s][j] = NoCall
               /\ \A s \in Tabs : shown'[s] \in {p.sub, "none"}
    <3>1. /\ \A s \in Tabs : refresh[s].phase = "idle"
          /\ \A s \in Tabs, j \in Kinds : s # t \/ j # "access" => calls[s][j].phase = "idle"
      BY <2>6 DEF Overlapped, Alone, Quiet
    <3>2. \A s \in Tabs : refresh[s] = NoRefresh
      BY <3>1, TypesOf DEF RefreshOk
    <3>3. \A s \in Tabs, j \in Kinds : s # t \/ j # "access" => calls[s][j] = NoCall
      BY <3>1, IdleIs
    <3> QED BY <2>2, <2>3, <2>4, <2>6, <3>2, <3>3 DEF Overlapped
  <2>7. OneUser'
    <3>1. PICK u \in Users : u = p.sub
      BY <2>1
    <3>2. Of(store', u) /\ Of(NoCall.pair, u) /\ Of(NoRefresh.pair, u) /\ NoCall.by \in {u, "none"}
      BY <2>2, <3>1, PairTypes DEF Of
    <3>3. ~Overlapped(t, p.sub) => BelongsTo(u)'
      BY <2>6, <3>1, <3>2 DEF BelongsTo, Of
    <3> QED BY <2>2, <3>3 DEF OneUser
  <2>8. ASSUME KeptInv, ended = {} PROVE KeptInv'
    <3>1. Current(p, version)
      BY <1>0, <1>2, <2>8 DEF KeptInv, CallLive, c, p
    <3>2. CallLive("access", NoCall, version)
      BY PairTypes DEF CallLive
    <3>3. \A s \in Tabs, j \in Kinds : CallLive(j, calls'[s][j], version')
      BY <2>2, <2>3, <2>8, <3>2 DEF KeptInv
    <3>4. \A s \in Tabs : Resting(s) => Resting(s)'
      BY <2>2, <2>3 DEF Resting
    <3> QED BY <2>1, <2>2, <2>3, <2>8, <3>1, <3>3, <3>4 DEF KeptInv, Changing, Kinds
  <2>9. ASSUME crossed' = {} PROVE SignOutInv'
    <3>1. ~Overlapped(t, p.sub)
      BY <2>2, <2>9
    <3>2. shown'[t] # "none"
      BY <2>1, <2>4, PairTypes
    <3> QED BY <2>6, <3>1, <3>2, PairTypes DEF SignOutInv, Kinds
  <2> QED BY <2>2, <2>5, <2>7, <2>8, <2>9 DEF StepHolds, KeptInv, SignOutInv
<1> QED BY <1>0, <1>1, <1>2

LEMMA ReceiveMeHolds == ASSUME SessionTInv, NEW t \in Tabs, Receive(t, "me") PROVE StepHolds
<1> DEFINE u == calls[t]["me"].pair.sub
<1>0. "me" \in Kinds /\ "me" \in Kinds \ {"access"} /\ calls[t]["me"].phase = "ok" /\ u \in Users
  BY TypesOf DEF Receive, Kinds, CallOk
<1>2. /\ calls' = [calls EXCEPT ![t]["me"] = NoCall] /\ shown' = [shown EXCEPT ![t] = u]
      /\ UNCHANGED <<store, version, refresh, crossed, ended>>
  BY DEF Receive
<1>3. /\ calls' \in [Tabs -> [Kinds -> Call]] /\ calls'[t]["me"] = NoCall
      /\ \A s \in Tabs, j \in Kinds : s # t \/ j # "me" => calls'[s][j] = calls[s][j]
  <2>1. NoCall \in Call /\ "me" \in Kinds /\ calls' = [calls EXCEPT ![t]["me"] = NoCall]
    BY <1>0, <1>2, PairTypes
  <2> HIDE DEF u
  <2> QED BY <2>1, CallSet, ZenonT(60)
<1>a. /\ shown' \in [Tabs -> Users \cup {"none", "loading"}] /\ shown'[t] = u
      /\ \A s \in Tabs \ {t} : shown'[s] = shown[s]
  BY <1>0, <1>2, TypesOf
<1>4. SessionTInv'
  BY <1>2, <1>3, <1>a, PairTypes, TypesOf, TypesKept
<1>5. OneUser => OneUser'
  <2>1. ASSUME NEW w \in Users, BelongsTo(w) PROVE BelongsTo(w)'
    <3>1. shown'[t] = w
      BY <1>0, <1>a, <2>1, PairTypes DEF BelongsTo, Of
    <3> QED BY <1>2, <1>3, <1>a, <2>1, <3>1, PairTypes DEF BelongsTo, Of
  <2> QED BY <1>2, <2>1 DEF OneUser
<1>6. ASSUME KeptInv, ended = {} PROVE KeptInv'
  <2>1. store # NoPair
    BY <1>0, <1>6 DEF KeptInv, Resting
  <2>2. CallLive("me", NoCall, version)
    BY PairTypes DEF CallLive
  <2>3. \A s \in Tabs, j \in Kinds : CallLive(j, calls'[s][j], version')
    BY <1>2, <1>3, <1>6, <2>2 DEF KeptInv
  <2>4. \A s \in Tabs : Resting(s) => Resting(s)'
    BY <1>2, <1>3, PairTypes DEF Resting
  <2> QED BY <1>2, <1>3, <1>6, <2>1, <2>3, <2>4 DEF KeptInv, Changing, Kinds
<1>7. ASSUME SignOutInv, crossed = {} PROVE SignOutInv'
  <2>1. \A s \in Tabs : calls[s]["logout"].phase = "idle"
    BY <1>0, <1>7 DEF SignOutInv, Powerless
  <2>2. \A s \in Tabs : calls'[s]["logout"].phase = "idle"
    BY <1>3, <2>1 DEF Kinds
  <2>3. shown'[t] # "none"
    BY <1>0, <1>a, PairTypes
  <2> QED BY <1>2, <1>3, <1>7, <1>a, <2>2, <2>3 DEF SignOutInv
<1> QED BY <1>2, <1>4, <1>5, <1>6, <1>7 DEF StepHolds, KeptInv, SignOutInv

LEMMA ReceivePasswordHolds == ASSUME SessionTInv, NEW t \in Tabs, Receive(t, "password") PROVE StepHolds
<1> DEFINE p == calls[t]["password"].pair
           c == request("none", p)
<1>0. /\ {"me", "password"} \subseteq Kinds \ {"access", "logout"}
      /\ calls[t]["password"].phase = "ok" /\ p \in Pairs
      /\ p.sub \in Users /\ Paired(p) /\ p # NoPair
  BY TypesOf, PairTypes DEF Receive, Kinds, Call, CallOk
<1>1. /\ c \in Call /\ c.phase = "sent" /\ c.pair = p /\ c.by = "none" /\ c.sends = 1
      /\ CallOk("me", c)
  BY <1>0, RequestIs
<1>2. /\ calls' = [calls EXCEPT ![t]["password"] = NoCall, ![t]["me"] = c] /\ store' = p
      /\ UNCHANGED <<shown, version, refresh, crossed, ended>>
  BY DEF Receive
<1> HIDE DEF c, p
<1>3. /\ calls' \in [Tabs -> [Kinds -> Call]] /\ calls'[t]["password"] = NoCall /\ calls'[t]["me"] = c
      /\ \A s \in Tabs, j \in Kinds :
           s # t \/ j \notin {"me", "password"} => calls'[s][j] = calls[s][j]
  BY <1>0, <1>1, <1>2, PairTypes, TypesOf
<1>4. SessionTInv'
  BY <1>0, <1>1, <1>2, <1>3, PairTypes, TypesOf, TypesKept
<1>5. OneUser => OneUser'
  <2>1. ASSUME NEW w \in Users, BelongsTo(w) PROVE BelongsTo(w)'
    <3>1. Of(p, w)
      BY <1>0, <2>1 DEF BelongsTo, p
    <3> QED BY <1>1, <1>2, <1>3, <2>1, <3>1, PairTypes DEF BelongsTo, Of
  <2> QED BY <1>2, <2>1 DEF OneUser
<1>6. ASSUME KeptInv, ended = {} PROVE KeptInv'
  <2>1. Current(p, version)
    BY <1>0, <1>6 DEF KeptInv, CallLive, p
  <2>2. CallLive("password", NoCall, version) /\ CallLive("me", c, version)
    BY <1>1, <2>1, PairTypes DEF CallLive
  <2>3. \A s \in Tabs, j \in Kinds : CallLive(j, calls'[s][j], version')
    BY <1>2, <1>3, <1>6, <2>2 DEF KeptInv
  <2>4. \A s \in Tabs : calls'[s]["password"].phase = "idle"
    BY <1>0, <1>3, <1>6, PairTypes DEF KeptInv
  <2> QED BY <1>0, <1>2, <1>6, <2>1, <2>3, <2>4 DEF KeptInv, Changing
<1>7. ASSUME SignOutInv, crossed = {} PROVE SignOutInv'
  <2>1. \A s \in Tabs : calls[s]["logout"].phase = "idle"
    BY <1>0, <1>7 DEF SignOutInv, Powerless
  <2>2. \A s \in Tabs : calls'[s]["logout"].phase = "idle"
    BY <1>3, <2>1 DEF Kinds
  <2>3. shown[t] # "none"
    BY <1>0, <1>7 DEF SignOutInv
  <2>4. \A s \in Tabs : shown'[s] = "none" =>
          refresh'[s].phase = "idle" /\ \A k \in Kinds \ {"access", "logout"} : calls'[s][k].phase = "idle"
    BY <1>2, <1>3, <1>7, <2>3 DEF SignOutInv
  <2> QED BY <1>2, <2>2, <2>3, <2>4 DEF SignOutInv
<1> QED BY <1>2, <1>4, <1>5, <1>6, <1>7 DEF StepHolds, KeptInv, SignOutInv

LEMMA ReceiveHolds == ASSUME SessionTInv, NEW t \in Tabs, NEW k \in Kinds, Receive(t, k) PROVE StepHolds
<1>1. CASE k = "me"
  BY <1>1, ReceiveMeHolds
<1>2. CASE k = "password"
  BY <1>2, ReceivePasswordHolds
<1>3. CASE k \notin {"me", "password"}
  <2>1. calls' = [calls EXCEPT ![t][k] = NoCall] /\ UNCHANGED <<store, shown, version, refresh, crossed, ended>>
    BY <1>3 DEF Receive
  <2> QED BY <1>3, <2>1, TypesOf, CallEnds
<1> QED BY <1>1, <1>2, <1>3

(* Calls of a tab fail for good, and the pair is cleared.                  *)
LEMMA FailHolds ==
  ASSUME SessionTInv, NEW t \in Tabs, NEW ks \in SUBSET Kinds, Failing(t, ks),
         calls' \in [Tabs -> [Kinds -> Call]], refresh' \in [Tabs -> Refresh],
         \A k \in Kinds : calls'[t][k] = IF k \in ks THEN NoCall ELSE calls[t][k],
         \A s \in Tabs \ {t} : calls'[s] = calls[s] /\ refresh'[s] = refresh[s],
         \/ refresh'[t] = NoRefresh /\ refresh[t].phase # "idle"
         \/ refresh'[t] = refresh[t] /\ ks = {"me"} /\ calls[t]["me"].phase # "waiting",
         store' = NoPair, version' = version, ended' \subseteq Reasons, KeptInv => ended' # {}
  PROVE  StepHolds
<1>0. "me" \in Kinds \ {"access", "logout"}
  BY DEF Kinds
<1>1. /\ shown' \in [Tabs -> Users \cup {"none", "loading"}]
      /\ crossed' \subseteq {"in", "out"} /\ crossed \subseteq crossed'
      /\ "in" \in crossed' => "in" \in crossed
      /\ shown'[t] = (IF "me" \in ks THEN "none" ELSE shown[t])
      /\ \A s \in Tabs \ {t} : shown'[s] = shown[s]
  BY TypesOf DEF Failing, Crossing
<1>4. SessionTInv'
  <2>1. \A s \in Tabs, k \in Kinds : calls'[s][k] = calls[s][k] \/ CallOk(k, calls'[s][k])
    BY PairTypes
  <2>2. \A s \in Tabs : refresh'[s] = refresh[s] \/ RefreshOk(refresh'[s])
    BY PairTypes
  <2> QED BY <1>1, <2>1, <2>2, PairTypes, TypesOf, TypesKept
<1>5. OneUser => OneUser'
  <2>1. ASSUME NEW u \in Users, BelongsTo(u) PROVE BelongsTo(u)'
    <3>1. \A s \in Tabs : shown'[s] \in {u, "none", "loading"}
      BY <1>1, <2>1 DEF BelongsTo
    <3>2. \A s \in Tabs : Of(refresh'[s].pair, u)
      BY <2>1, PairTypes DEF BelongsTo, Of
    <3>3. \A s \in Tabs, k \in Kinds \ {"access"} :
            Of(calls'[s][k].pair, u) /\ calls'[s][k].by \in {u, "none"}
      BY <2>1, PairTypes DEF BelongsTo, Of
    <3> QED BY <3>1, <3>2, <3>3, PairTypes DEF BelongsTo, Of
  <2> QED BY <1>1, <2>1 DEF OneUser
<1>6. KeptInv => KeptInv'
  BY DEF KeptInv
<1>7. ASSUME SignOutInv, crossed' = {} PROVE SignOutInv'
  <2>0. crossed = {}
    BY <1>1, <1>7
  <2>1. CASE "me" \in ks
    <3>1. ~(\/ \E s \in Tabs \ {t} : ~Quiet(s)
            \/ \E k \in Kinds \ ks : calls[t][k].phase # "idle"
            \/ refresh[t].phase # "idle" /\ ks = {"me"} /\ calls[t]["me"].phase # "waiting")
      BY <1>7, <2>1 DEF Failing, Crossing
    <3>2. \A s \in Tabs, k \in Kinds : s # t \/ k \notin ks => calls[s][k].phase = "idle"
      BY <3>1 DEF Quiet
    <3>3. \A s \in Tabs, k \in Kinds : calls'[s][k] = NoCall
      BY <3>2, IdleIs
    <3>4. \A s \in Tabs : refresh'[s].phase = "idle"
      BY <3>1, PairTypes DEF Quiet
    <3> QED BY <3>3, <3>4, PairTypes DEF SignOutInv, Powerless, Kinds
  <2>2. CASE "me" \notin ks
    <3>1. refresh[t].phase # "idle" /\ refresh'[t].phase = "idle"
      BY <2>2, PairTypes
    <3>2. \A s \in Tabs : calls[s]["logout"].phase = "idle"
      BY <1>7, <2>0, <3>1 DEF SignOutInv
    <3>3. \A s \in Tabs, k \in Kinds : calls[s][k].phase = "idle" => calls'[s][k].phase = "idle"
      BY PairTypes
    <3>4. \A s \in Tabs : shown'[s] = "none" =>
            refresh'[s].phase = "idle" /\ \A k \in Kinds \ {"access", "logout"} : calls'[s][k].phase = "idle"
      BY <1>1, <1>7, <2>0, <2>2, <3>1, <3>3 DEF SignOutInv
    <3>5. \A s \in Tabs : calls'[s]["logout"].phase = "idle"
      BY <3>2, <3>3 DEF Kinds
    <3> QED BY <3>4, <3>5 DEF SignOutInv
  <2> QED BY <2>1, <2>2
<1> QED BY <1>4, <1>5, <1>6, <1>7 DEF StepHolds, SignOutInv

(* The first 401 of a call waits for a refresh: in a session that nobody   *)
(* ended the pair it refreshes carries the current version.                *)
LEMMA WaitHolds ==
  ASSUME SessionTInv, NEW t \in Tabs, NEW k \in Kinds, Unauthorized(t, k),
         calls[t][k].sends = 1 /\ store # NoPair
  PROVE  StepHolds
<1> DEFINE c == calls[t][k]
           d == Answer(c, "waiting", c.pair)
           r == [phase |-> "sent", pair |-> store]
<1>0. k # "access" /\ c.phase = "denied" /\ c.sends = 1 /\ c \in Call /\ c.pair \in Pairs /\ CallOk(k, c)
  BY TypesOf DEF Unauthorized, Call
<1>1. /\ d \in Call /\ d.phase = "waiting" /\ d.pair = c.pair /\ d.by = c.by /\ d.sends = 1
      /\ CallOk(k, d)
  <2>1. "waiting" \in Phases
    BY DEF Phases
  <2>2. /\ d \in Call /\ d.phase = "waiting" /\ d.pair = c.pair /\ d.by = c.by /\ d.sends = 1
    BY <1>0, <2>1, AnswerIs
  <2> HIDE DEF c, d
  <2> QED BY <1>0, <2>2 DEF CallOk
<1>2. /\ calls' = [calls EXCEPT ![t][k] = d]
      /\ refresh' = (IF refresh[t].phase = "idle" THEN [refresh EXCEPT ![t] = r] ELSE refresh)
      /\ UNCHANGED <<store, shown, crossed, version, ended>>
  BY DEF Unauthorized
<1>s. store \in Pairs /\ store.sub \in Users
  BY TypesOf DEF Paired, Pairs
<1>r. r \in Refresh /\ r.phase = "sent" /\ r.pair = store /\ RefreshOk(r)
  BY <1>s, TypesOf DEF Refresh, RefreshOk
<1> HIDE DEF c, d, r
<1>c. c = calls[t][k]
  BY DEF c
<1>3. /\ calls' \in [Tabs -> [Kinds -> Call]] /\ calls'[t][k] = d
      /\ \A s \in Tabs, j \in Kinds : s # t \/ j # k => calls'[s][j] = calls[s][j]
  BY <1>1, <1>2, CallSet, ZenonT(60)
<1>a. /\ refresh' \in [Tabs -> Refresh]
      /\ \A s \in Tabs : refresh'[s] = refresh[s] \/ (s = t /\ refresh'[s] = r)
  BY <1>2, <1>r, TypesOf
<1>4. SessionTInv'
  BY <1>1, <1>2, <1>3, <1>a, <1>r, TypesOf, TypesKept
<1>5. OneUser => OneUser'
  <2>1. ASSUME NEW u \in Users, BelongsTo(u) PROVE BelongsTo(u)'
    <3>1. \A s \in Tabs : Of(refresh'[s].pair, u)
      BY <1>a, <1>r, <2>1 DEF BelongsTo
    <3>2. \A s \in Tabs, j \in Kinds \ {"access"} :
            Of(calls'[s][j].pair, u) /\ calls'[s][j].by \in {u, "none"}
      BY <1>0, <1>1, <1>3, <1>c, <2>1 DEF BelongsTo
    <3> QED BY <1>2, <2>1, <3>1, <3>2 DEF BelongsTo, Of
  <2> QED BY <1>2, <2>1 DEF OneUser
<1>6. ASSUME KeptInv, ended = {} PROVE KeptInv'
  <2>1. \A s \in Tabs : calls[s]["password"].phase # "ok"
    BY <1>0, <1>6, <1>c DEF KeptInv, Resting
  <2>2. Current(store, version)
    BY <1>6, <2>1 DEF KeptInv, Changing
  <2>3. CallLive(k, d, version)
    <3>1. CallLive(k, c, version)
      BY <1>6, <1>c DEF KeptInv
    <3> QED BY <1>0, <1>1, <3>1 DEF CallLive
  <2>4. RefreshLive(r, version)
    BY <1>r, <2>2 DEF RefreshLive
  <2>5. \A s \in Tabs, j \in Kinds : CallLive(j, calls'[s][j], version')
    BY <1>2, <1>3, <1>6, <2>3 DEF KeptInv
  <2>6. \A s \in Tabs : RefreshLive(refresh'[s], version')
    BY <1>2, <1>6, <1>a, <2>4 DEF KeptInv
  <2>7. \A s \in Tabs : calls'[s]["password"].phase # "ok"
    BY <1>1, <1>3, <2>1 DEF Kinds
  <2>8. Current(store', version')
    BY <1>2, <2>2
  <2> QED BY <1>2, <2>5, <2>6, <2>7, <2>8 DEF KeptInv
<1>7. ASSUME SignOutInv, crossed = {} PROVE SignOutInv'
  <2>1. \A s \in Tabs : calls[s]["logout"].phase = "idle"
    BY <1>7 DEF SignOutInv
  <2>2. k # "logout" /\ shown[t] # "none"
    BY <1>0, <1>7, <1>c, <2>1 DEF SignOutInv
  <2>3. \A s \in Tabs : calls'[s]["logout"].phase = "idle"
    BY <1>3, <2>1, <2>2 DEF Kinds
  <2>4. \A s \in Tabs : shown'[s] = "none" =>
          refresh'[s].phase = "idle" /\ \A j \in Kinds \ {"access", "logout"} : calls'[s][j].phase = "idle"
    BY <1>2, <1>3, <1>7, <1>a, <2>2 DEF SignOutInv
  <2> QED BY <1>2, <2>2, <2>3, <2>4 DEF SignOutInv
<1> QED BY <1>2, <1>4, <1>5, <1>6, <1>7 DEF StepHolds, KeptInv, SignOutInv

(* Every call of the tab but one stays as it is.                           *)
LEMMA OneGone ==
  ASSUME SessionTInv, NEW t \in Tabs, NEW k \in Kinds, calls' = [calls EXCEPT ![t][k] = NoCall]
  PROVE  /\ calls' \in [Tabs -> [Kinds -> Call]]
         /\ \A j \in Kinds : calls'[t][j] = IF j \in {k} THEN NoCall ELSE calls[t][j]
         /\ \A s \in Tabs \ {t} : calls'[s] = calls[s]
BY TypesOf, PairTypes

LEMMA UnauthorizedHolds ==
  ASSUME SessionTInv, NEW t \in Tabs, NEW k \in Kinds, Unauthorized(t, k) PROVE StepHolds
<1>0. calls[t][k].phase = "denied" /\ k # "access" /\ UNCHANGED <<version, ended>>
  BY DEF Unauthorized
<1>1. CASE calls[t][k].sends = 1 /\ store # NoPair
  BY <1>1, WaitHolds
<1>2. CASE ~(calls[t][k].sends = 1 /\ store # NoPair)
  <2>1. /\ calls' = [calls EXCEPT ![t][k] = NoCall] /\ store' = (IF k = "me" THEN NoPair ELSE store)
        /\ Failing(t, {k}) /\ UNCHANGED refresh
    BY <1>2 DEF Unauthorized
  <2>2. CASE k # "me"
    <3>1. UNCHANGED <<version, store, shown, refresh, crossed>>
      BY <1>0, <2>1, <2>2 DEF Failing
    <3> QED BY <1>0, <2>1, <3>1, TypesOf, CallEnds
  <2>3. CASE k = "me"
    <3>1. calls[t][k].sends \in {1, 2}
      BY <1>0, TypesOf DEF CallOk
    <3>2. KeptInv /\ ended = {} => FALSE
      <4>1. KeptInv /\ ended = {} => calls[t][k].sends # 2
        BY <1>0 DEF KeptInv, CallLive
      <4>2. KeptInv /\ ended = {} => store # NoPair
        BY <1>0, <2>3 DEF KeptInv, Resting
      <4> QED BY <1>2, <3>1, <4>1, <4>2
    <3>3. KeptInv => ended' # {}
      BY <1>0, <3>2
    <3>4. {k} \in SUBSET Kinds /\ {k} = {"me"} /\ ended' \subseteq Reasons /\ refresh' \in [Tabs -> Refresh]
      BY <1>0, <2>1, <2>3, TypesOf
    <3>5. /\ calls' \in [Tabs -> [Kinds -> Call]]
          /\ \A j \in Kinds : calls'[t][j] = IF j \in {k} THEN NoCall ELSE calls[t][j]
          /\ \A s \in Tabs \ {t} : calls'[s] = calls[s]
      BY <2>1, OneGone
    <3>6. refresh'[t] = refresh[t] /\ {k} = {"me"} /\ calls[t]["me"].phase # "waiting"
      BY <1>0, <2>1, <2>3
    <3> QED BY <1>0, <2>1, <2>3, <3>3, <3>4, <3>5, <3>6, FailHolds
  <2> QED BY <2>2, <2>3
<1> QED BY <1>1, <1>2

LEMMA RefreshedHolds == ASSUME SessionTInv, NEW t \in Tabs, Refreshed(t) PROVE StepHolds
<1> DEFINE p == refresh[t].pair
<1>0. /\ refresh[t].phase = "ok" /\ p \in Pairs /\ p.sub \in Users /\ p.fresh /\ Paired(p)
      /\ p # NoPair
  BY TypesOf, PairTypes DEF Refreshed, RefreshOk, Refresh
<1>1. \A c \in Call : c.phase = "waiting" /\ c.sends = 1 =>
        /\ Resent(c, p) \in Call /\ Resent(c, p).phase = "sent" /\ Resent(c, p).pair = p
        /\ Resent(c, p).by = c.by /\ Resent(c, p).sends = 2
  <2> HIDE DEF p
  <2> SUFFICES ASSUME NEW c \in Call, c.phase = "waiting", c.sends = 1
               PROVE  /\ Resent(c, p) \in Call /\ Resent(c, p).phase = "sent" /\ Resent(c, p).pair = p
                      /\ Resent(c, p).by = c.by /\ Resent(c, p).sends = 2
    OBVIOUS
  <2>1. /\ Resent(c, p).phase = "sent" /\ Resent(c, p).pair = p
        /\ Resent(c, p).by = c.by /\ Resent(c, p).sends = 2
    BY DEF Resent, Call
  <2>2. Resent(c, p) = [c EXCEPT !.phase = "sent", !.pair = p, !.sends = 2]
    BY DEF Resent
  <2>3. "sent" \in Phases /\ c.by \in Users \cup {"none"} /\ 2 \in 0..2
    BY DEF Phases, Call
  <2>4. [c EXCEPT !.phase = "sent", !.pair = p, !.sends = 2] \in Call
    BY <1>0, <2>3 DEF Call
  <2> QED BY <2>1, <2>2, <2>4
<1>2. /\ calls' = [calls EXCEPT ![t] = [k \in Kinds |->
           IF calls[t][k].phase = "waiting" THEN Resent(calls[t][k], p) ELSE calls[t][k]]]
      /\ store' = p /\ refresh' = [refresh EXCEPT ![t] = NoRefresh]
      /\ UNCHANGED <<version, shown, crossed, ended>>
  BY DEF Refreshed, Waiting
<1> HIDE DEF p
<1>w. \A k \in Kinds : calls[t][k].phase = "waiting" => calls[t][k].sends = 1 /\ k # "access"
  BY TypesOf DEF CallOk
<1>3. /\ calls' \in [Tabs -> [Kinds -> Call]] /\ \A s \in Tabs \ {t} : calls'[s] = calls[s]
      /\ \A k \in Kinds :
           IF calls[t][k].phase = "waiting"
           THEN /\ calls'[t][k].phase = "sent" /\ calls'[t][k].pair = p
                /\ calls'[t][k].by = calls[t][k].by /\ calls'[t][k].sends = 2
           ELSE calls'[t][k] = calls[t][k]
  <2> DEFINE new(k) == IF calls[t][k].phase = "waiting" THEN Resent(calls[t][k], p) ELSE calls[t][k]
  <2>1. \A k \in Kinds : calls[t][k] \in Call
    BY TypesOf
  <2>2. \A k \in Kinds : /\ new(k) \in Call
                         /\ IF calls[t][k].phase = "waiting"
                            THEN /\ new(k).phase = "sent" /\ new(k).pair = p
                                 /\ new(k).by = calls[t][k].by /\ new(k).sends = 2
                            ELSE new(k) = calls[t][k]
    BY <1>1, <1>w, <2>1
  <2>3. calls' = [calls EXCEPT ![t] = [k \in Kinds |-> new(k)]]
    BY <1>2
  <2> HIDE DEF new
  <2>4. [k \in Kinds |-> new(k)] \in [Kinds -> Call]
    BY <2>2
  <2>5. /\ calls' \in [Tabs -> [Kinds -> Call]] /\ \A s \in Tabs \ {t} : calls'[s] = calls[s]
        /\ \A k \in Kinds : calls'[t][k] = new(k)
    BY <2>3, <2>4, TypesOf
  <2> QED BY <2>2, <2>5
<1>a. /\ refresh' \in [Tabs -> Refresh] /\ refresh'[t] = NoRefresh
      /\ \A s \in Tabs \ {t} : refresh'[s] = refresh[s]
  BY <1>2, PairTypes, TypesOf
<1>4. SessionTInv'
  <2>1. ASSUME NEW s \in Tabs, NEW k \in Kinds
        PROVE  calls'[s][k] = calls[s][k] \/ CallOk(k, calls'[s][k])
    <3>1. CASE s = t /\ calls[t][k].phase = "waiting"
      BY <1>0, <1>3, <1>w, <3>1 DEF CallOk
    <3>2. CASE ~(s = t /\ calls[t][k].phase = "waiting")
      BY <1>3, <3>2
    <3> QED BY <3>1, <3>2
  <2>2. \A s \in Tabs : refresh'[s] = refresh[s] \/ RefreshOk(refresh'[s])
    BY <1>a, PairTypes
  <2> QED BY <1>0, <1>2, <1>3, <1>a, <2>1, <2>2, TypesOf, TypesKept
<1>5. OneUser => OneUser'
  <2>1. ASSUME NEW u \in Users, BelongsTo(u) PROVE BelongsTo(u)'
    <3>0. Of(p, u)
      BY <2>1 DEF BelongsTo, p
    <3>1. \A s \in Tabs : Of(refresh'[s].pair, u)
      BY <1>a, <2>1, PairTypes DEF BelongsTo, Of
    <3>2. \A s \in Tabs, k \in Kinds \ {"access"} :
            Of(calls'[s][k].pair, u) /\ calls'[s][k].by \in {u, "none"}
      BY <1>3, <2>1, <3>0 DEF BelongsTo
    <3> QED BY <1>2, <2>1, <3>0, <3>1, <3>2 DEF BelongsTo, Of
  <2> QED BY <1>2, <2>1 DEF OneUser
<1>6. ASSUME KeptInv, ended = {} PROVE KeptInv'
  <2>1. Current(p, version)
    BY <1>0, <1>6 DEF KeptInv, RefreshLive, p
  <2>2. \A s \in Tabs : calls[s]["password"].phase # "ok"
    BY <1>0, <1>6 DEF KeptInv, Resting
  <2>3. \A s \in Tabs : calls'[s]["password"].phase # "ok"
    BY <1>3, <2>2 DEF Kinds
  <2>4. ASSUME NEW s \in Tabs, NEW k \in Kinds PROVE CallLive(k, calls'[s][k], version)
    <3>1. CallLive(k, calls[s][k], version)
      BY <1>6 DEF KeptInv
    <3>2. CASE s = t /\ calls[t][k].phase = "waiting"
      BY <1>0, <1>3, <1>w, <2>1, <3>1, <3>2 DEF CallLive
    <3>3. CASE ~(s = t /\ calls[t][k].phase = "waiting")
      BY <1>3, <3>1, <3>3
    <3> QED BY <3>2, <3>3
  <2>5. \A s \in Tabs : RefreshLive(refresh'[s], version)
    BY <1>6, <1>a, PairTypes DEF KeptInv, RefreshLive
  <2> QED BY <1>0, <1>2, <2>1, <2>3, <2>4, <2>5 DEF KeptInv
<1>7. ASSUME SignOutInv, crossed = {} PROVE SignOutInv'
  <2>1. \A s \in Tabs : calls[s]["logout"].phase = "idle"
    BY <1>0, <1>7 DEF SignOutInv
  <2>2. shown[t] # "none"
    BY <1>0, <1>7 DEF SignOutInv
  <2>3. \A s \in Tabs : calls'[s]["logout"].phase = "idle"
    BY <1>3, <2>1 DEF Kinds
  <2>4. \A s \in Tabs : shown'[s] = "none" =>
          refresh'[s].phase = "idle" /\ \A k \in Kinds \ {"access", "logout"} : calls'[s][k].phase = "idle"
    BY <1>2, <1>3, <1>7, <1>a, <2>2 DEF SignOutInv
  <2> QED BY <1>2, <2>2, <2>3, <2>4 DEF SignOutInv
<1> QED BY <1>2, <1>4, <1>5, <1>6, <1>7 DEF StepHolds, KeptInv, SignOutInv

LEMMA UnrefreshedHolds ==
  ASSUME SessionTInv, NEW t \in Tabs, Unrefreshed(t), refresh[t].phase # "idle",
         ended' \subseteq Reasons, KeptInv => ended' # {}
  PROVE  StepHolds
<1> DEFINE ks == Waiting(t)
<1>1. /\ store' = NoPair /\ UNCHANGED version /\ Failing(t, ks)
      /\ calls' = [calls EXCEPT ![t] = [k \in Kinds |-> IF k \in ks THEN NoCall ELSE calls[t][k]]]
      /\ refresh' = [refresh EXCEPT ![t] = NoRefresh]
  BY DEF Unrefreshed
<1>2. ks \in SUBSET Kinds
  BY DEF Waiting
<1> HIDE DEF ks
<1>3. [k \in Kinds |-> IF k \in ks THEN NoCall ELSE calls[t][k]] \in [Kinds -> Call]
  BY TypesOf, PairTypes
<1>4. /\ calls' \in [Tabs -> [Kinds -> Call]] /\ refresh' \in [Tabs -> Refresh]
      /\ \A k \in Kinds : calls'[t][k] = IF k \in ks THEN NoCall ELSE calls[t][k]
      /\ \A s \in Tabs \ {t} : calls'[s] = calls[s] /\ refresh'[s] = refresh[s]
      /\ refresh'[t] = NoRefresh
  BY <1>1, <1>3, TypesOf, PairTypes
<1> QED BY <1>1, <1>2, <1>4, FailHolds

LEMMA RefreshDeniedHolds == ASSUME SessionTInv, NEW t \in Tabs, RefreshDenied(t) PROVE StepHolds
<1>1. refresh[t].phase = "denied" /\ Unrefreshed(t) /\ UNCHANGED ended
  BY DEF RefreshDenied
<1>2. KeptInv => ended' # {}
  BY <1>1 DEF KeptInv, RefreshLive
<1> QED BY <1>1, <1>2, TypesOf, UnrefreshedHolds

LEMMA LoseRefreshHolds == ASSUME SessionTInv, NEW t \in Tabs, LoseRefresh(t) PROVE StepHolds
<1>1. Unrefreshed(t) /\ refresh[t].phase # "idle" /\ Ending("unserved", TRUE)
  BY DEF LoseRefresh
<1>2. ended' \subseteq Reasons /\ ended' # {}
  BY <1>1, EndingIs DEF Reasons
<1> QED BY <1>1, <1>2, UnrefreshedHolds

LEMMA LoseHolds == ASSUME SessionTInv, NEW t \in Tabs, NEW k \in Kinds, Lose(t, k) PROVE StepHolds
<1>1. /\ calls[t][k].phase \in {"sent", "ok", "denied"} /\ calls' = [calls EXCEPT ![t][k] = NoCall]
      /\ store' = (IF k = "me" THEN NoPair ELSE store) /\ Failing(t, {k})
      /\ Ending("unserved", k \in {"me", "password"}) /\ UNCHANGED <<version, refresh>>
  BY DEF Lose
<1>2. /\ ended' \subseteq Reasons /\ ended \subseteq ended'
      /\ k \in {"me", "password"} => ended' # {}
  <2>1. CASE k \in {"me", "password"}
    <3>1. Ending("unserved", TRUE)
      BY <1>1, <2>1 DEF Ending
    <3> QED BY <3>1, EndingIs DEF Reasons
  <2>2. CASE k \notin {"me", "password"}
    <3>1. ended' = ended
      BY <1>1, <2>2 DEF Ending
    <3> QED BY <3>1, <2>2, TypesOf
  <2> QED BY <2>1, <2>2
<1>3. CASE k # "me"
  <2>1. UNCHANGED <<version, store, shown, refresh, crossed>>
    BY <1>1, <1>3 DEF Failing
  <2> QED BY <1>1, <1>2, <2>1, CallEnds
<1>4. CASE k = "me"
  <2>1. {k} \in SUBSET Kinds /\ {k} = {"me"} /\ refresh' \in [Tabs -> Refresh]
        /\ (KeptInv => ended' # {}) /\ calls[t]["me"].phase # "waiting"
    BY <1>1, <1>2, <1>4, TypesOf
  <2>2. /\ calls' \in [Tabs -> [Kinds -> Call]]
        /\ \A j \in Kinds : calls'[t][j] = IF j \in {k} THEN NoCall ELSE calls[t][j]
        /\ \A s \in Tabs \ {t} : calls'[s] = calls[s]
    BY <1>1, OneGone
  <2> QED BY <1>1, <1>2, <1>4, <2>1, <2>2, FailHolds
<1> QED BY <1>3, <1>4

LEMMA StepSessionInv == SessionInv /\ [SessionNext]_sessionVars => SessionInv'
<1> SUFFICES ASSUME SessionInv, [SessionNext]_sessionVars PROVE SessionInv'
  OBVIOUS
<1>0. SessionTInv
  BY DEF SessionInv
<1>1. StepHolds => SessionInv'
  BY DEF SessionInv, StepHolds
<1>2. CASE UNCHANGED sessionVars
  <2>1. UNCHANGED <<version, store, shown, calls, refresh, crossed, ended>>
    BY <1>2 DEF sessionVars
  <2>2. SessionTInv'
    BY <1>0, <2>1, TypesOf, TypesKept
  <2>3. OneUser => OneUser'
    BY <2>1 DEF OneUser, BelongsTo, Of
  <2>4. KeptInv => KeptInv'
    BY <2>1 DEF KeptInv, Changing, Resting
  <2>5. SignOutInv => SignOutInv'
    BY <2>1 DEF SignOutInv, Powerless
  <2> QED BY <1>1, <2>2, <2>3, <2>4, <2>5 DEF StepHolds
<1>3. ASSUME NEW t \in Tabs, Browser(t) PROVE SessionInv'
  BY <1>0, <1>1, <1>3, ReceiveAccessHolds, RefreshedHolds, RefreshDeniedHolds, ReceiveHolds,
     UnauthorizedHolds DEF Browser
<1>4. ASSUME NEW t \in Tabs, Server(t) PROVE SessionInv'
  <2>1. ASSUME NEW k \in Kinds, Serve(t, k) PROVE StepHolds
    BY <1>0, <2>1, ServeDeniedHolds, ServeAcceptedHolds
  <2> QED BY <1>0, <1>1, <1>4, <2>1, ServeAccessHolds, ServeRefreshHolds DEF Server
<1>5. ASSUME NEW t \in Tabs, signOut(t) \/ Reload(t) \/ LoseRefresh(t) PROVE SessionInv'
  BY <1>0, <1>1, <1>5, SignOutHolds, ReloadHolds, LoseRefreshHolds
<1>6. ASSUME NEW t \in Tabs, NEW u \in Users, SignIn(t, u) PROVE SessionInv'
  BY <1>0, <1>1, <1>6, SignInHolds
<1>7. ASSUME NEW t \in Tabs, NEW k \in Kinds, Start(t, k) \/ Lose(t, k) PROVE SessionInv'
  BY <1>0, <1>1, <1>7, StartHolds, LoseHolds
<1>8. ASSUME NEW u \in Users, Revoke(u) PROVE SessionInv'
  BY <1>0, <1>1, <1>8, RevokeHolds
<1>9. CASE Expire
  BY <1>0, <1>1, <1>9, ExpireHolds
<1> QED BY <1>2, <1>3, <1>4, <1>5, <1>6, <1>7, <1>8, <1>9 DEF SessionNext

(* Every step of every behaviour keeps the inductive invariant.            *)
LEMMA SessionSafe == SessionSpec => []SessionInv
<1> QED BY InitSessionInv, StepSessionInv, PTL DEF SessionSpec

(* Requests, answers, refreshes and what the tabs share keep their form.   *)
THEOREM SessionTypesCorrect == SessionSpec => []SessionTypeOK
<1>1. SessionInv => SessionTypeOK
  BY DEF SessionInv, SessionTInv
<1> QED BY <1>1, SessionSafe, PTL

(* Without a crossed sign-in, every tab acts as the account that it shows. *)
THEOREM AccountIsShown == SessionSpec => []AccountMatches
<1>1. ASSUME SessionInv PROVE AccountMatches
  <2> SUFFICES ASSUME "in" \notin crossed, NEW t \in Tabs
               PROVE  /\ shown[t] \in Users /\ store # NoPair => store.sub = shown[t]
                      /\ \A k \in Kinds : LET c == calls[t][k] IN
                           c.phase # "idle" /\ c.by # "none" /\ c.pair # NoPair => c.pair.sub = c.by
    BY DEF AccountMatches
  <2>1. PICK u \in Users : BelongsTo(u)
    BY <1>1 DEF SessionInv, OneUser
  <2>2. Paired(store) /\ \A k \in Kinds : CallOk(k, calls[t][k])
    BY <1>1 DEF SessionInv, SessionTInv
  <2>3. shown[t] \in Users /\ store # NoPair => store.sub = shown[t]
    BY <2>1, <2>2, PairTypes DEF BelongsTo, Of, Paired
  <2>4. ASSUME NEW k \in Kinds, calls[t][k].phase # "idle", calls[t][k].by # "none",
               calls[t][k].pair # NoPair
        PROVE  calls[t][k].pair.sub = calls[t][k].by
    <3>1. CASE k = "access"
      BY <2>2, <2>4, <3>1, TypesOf, <1>1 DEF CallOk, Call, Phases, SessionInv
    <3>2. CASE k # "access"
      BY <2>1, <2>2, <2>4, <3>2 DEF BelongsTo, Of, Paired, CallOk
    <3> QED BY <3>1, <3>2
  <2> QED BY <2>3, <2>4
<1> QED BY <1>1, SessionSafe, PTL

(* A session that nobody ended lasts: no refresh is refused, no repeated   *)
(* call is, and a tab that shows a user finds a pair stored.               *)
THEOREM SessionLasts == SessionSpec => []SessionKept
<1>1. SessionInv => SessionKept
  BY DEF SessionInv, KeptInv, SessionKept
<1> QED BY <1>1, SessionSafe, PTL

(* Signing out with nothing else under way leaves no pair behind.          *)
THEOREM SignOutIsClean == SessionSpec => []QuietSignOutClears
<1>1. SessionInv => QuietSignOutClears
  BY DEF SessionInv, SignOutInv, QuietSignOutClears, SignOutClears, SignedOut
<1> QED BY <1>1, SessionSafe, PTL
==============================================================================
