------------------------------ MODULE QueryCache ------------------------------
(***************************************************************************)
(* The cache of a tab of the dashboard: what its screens show (Screens)    *)
(* against what the server holds.  QueryProvider configures TanStack       *)
(* Query: data is fresh for 30 seconds, nothing is refetched on focus, a   *)
(* failed fetch is repeated once.  What the library does with that (fetch  *)
(* on mount, deduplication, cancellation, invalidation) is modelled from   *)
(* how the screens use it.                                                 *)
(*                                                                         *)
(* The content of an entry is abstracted to its lag: the writes of this    *)
(* user that the server had applied to what the entry reads, and that it   *)
(* does not show.                                                          *)
(***************************************************************************)
EXTENDS Screens, Naturals

CONSTANTS Journeys,     \* what a behaviour does: [screens, writes, scopes],
                        \* the screens it moves among, the mutations it uses
                        \* and the organizations it switches between
          MaxWrites,    \* bound: mutations sent
          MaxFails,     \* bound: fetches or answers lost
          MaxMoves      \* bound: navigations and switches

ASSUME JourneysAssumption ==
  \A j \in Journeys :
    /\ j.screens # {} /\ j.screens \subseteq DOMAIN Tabs /\ j.scopes # {}
    /\ j.writes \subseteq {m.name : m \in UNION {Tabs[s].mutations : s \in j.screens}}

VARIABLES journey,      \* that of this behaviour, with its Tables
          screen,       \* the mounted one
          scope,        \* the selected organization and project
          entry,        \* [Slots -> Entry]: the cached data
          fetch,        \* [Slots -> Fetch]: the request of a query
          flight,       \* [Names -> Flight]: the request of a mutation
          owed,         \* history: <<mutation, slot>> whose success was told
          spent         \* history: what was used of each bound

vars == <<journey, screen, scope, entry, fetch, flight, owed, spent>>

(* What the mutations leave out of date, for the 30 seconds or, while it   *)
(* stays on the screen, for good.                                          *)
ListWrites == {"list_status", "list_priority", "list_assign", "bulk"}
Gap(m, k) ==
  \/ m.name \in ListWrites /\ k = "issue"
  \/ "issues" \in m.changes /\ k = "projects"
  \/ m.name \in {"connect", "sync", "disconnect"} /\ k = "issue-repos"
  \/ <<m.name, k>> \in
       {<<"remove_channel", "alert-rules">>, <<"create_project", "project-stats">>,
        <<"update_role", "organizations">>, <<"autofix", "autofix-runs">>}

(* The organizations and the tokens are the user's; every other key holds  *)
(* an organization's id or a project's.                                    *)
Unscoped == {"organizations", "api-tokens"}
ScopeOf(k, s) == IF k \in Unscoped THEN "user" ELSE s
SlotIn(k, s) == <<k, ScopeOf(k, s)>>
Slot(k)      == SlotIn(k, scope)

(* What a behaviour keeps of its journey: the screens, the mutations they  *)
(* use, what each of these changes of what is shown (concerns) and is to   *)
(* keep up to date (promises), and the entries worth following: those so   *)
(* kept up to date, or kept in two forms.                                  *)
Tables(j) ==
  LET tabs    == {Tabs[s] : s \in j.screens} \cup {Shell}
      queries == UNION {t.queries : t \in tabs}
      used    == {m \in UNION {t.mutations : t \in tabs} : m.name \in j.writes}
                 \cup {m \in {MarkSeen} : "issue" \in j.screens}
      promised == {p \in used \X queries : p[2].reads \cap p[1].changes # {}
                                           /\ ~Gap(p[1], p[2].key)}
      twoForms == {q \in queries : \E r \in queries :
                     r.key = q.key /\ r.form # q.form}
      keys     == {p[2].key : p \in promised} \cup {q.key : q \in twoForms}
                  \cup ({"issue"} \cap {q.key : q \in queries})
  IN  [screens   |-> [s \in j.screens |-> Tabs[s]],
       scopes    |-> j.scopes,
       writes    |-> j.writes,
       mutations |-> [w \in {m.name : m \in used} |->
                        CHOOSE m \in used : m.name = w],
       concerns  |-> {<<p[1].name, p[2].key>> : p \in
                        {r \in used \X queries :
                           r[2].reads \cap r[1].changes # {}}},
       promises  |-> {<<p[1].name, p[2].key>> : p \in promised},
       slots     |-> {SlotIn(k, s) : k \in keys, s \in j.scopes}]

Scopes == journey.scopes
Names  == DOMAIN journey.mutations
Slots  == journey.slots
Keys   == {x[1] : x \in Slots}

(* What is on the screen, in the shell.                                    *)
Mounted == journey.screens[screen].queries \cup Shell.queries
Offered == journey.screens[screen].mutations \cup Shell.mutations
ShownSlots == Slots \cap {Slot(q.key) : q \in Mounted}

Entry  == [held : BOOLEAN, lag : SUBSET Names, invalid : BOOLEAN,
           old : BOOLEAN, form : {"rows", "answer"}]
Fetch  == [phase : {"idle", "asked", "answered"}, lag : SUBSET Names,
           form : {"rows", "answer"}, retried : BOOLEAN]
Flight == [phase : {"idle", "sent", "applied"}, from : Scopes,
           closure : Scopes, live : BOOLEAN]

Nothing == [held |-> FALSE, lag |-> {}, invalid |-> FALSE, old |-> FALSE,
            form |-> "rows"]
NoFetch == [phase |-> "idle", lag |-> {}, form |-> "rows", retried |-> FALSE]
Asked(form) == [NoFetch EXCEPT !.phase = "asked", !.form = form]
NoFlight(s) == [phase |-> "idle", from |-> s, closure |-> s, live |-> FALSE]

-----------------------------------------------------------------------------
(* Mounting a query fetches it when it has no data, or data that is        *)
(* invalid or older than 30 seconds; a fetch already under way is shared.  *)
(* The form kept is that of the component whose queryFn started the fetch. *)
FormOf(b, k) == (CHOOSE q \in b : q.key = k).form
Mounting(shown, s, f) ==
  [x \in Slots |->
     LET e == entry[x]
     IN  IF /\ \E q \in shown : SlotIn(q.key, s) = x
            /\ f[x].phase = "idle"
            /\ (~e.held \/ e.invalid \/ e.old)
         THEN Asked(FormOf(shown, x[1]))
         ELSE f[x]]

Init ==
  /\ journey \in {Tables(j) : j \in Journeys}
  /\ screen \in DOMAIN journey.screens
  /\ scope = CHOOSE s \in Scopes : TRUE
  /\ entry = [x \in Slots |-> Nothing]
  /\ fetch = [x \in Slots |-> IF x \in ShownSlots
                              THEN Asked(FormOf(Mounted, x[1])) ELSE NoFetch]
  /\ flight = [w \in Names |-> NoFlight(scope)]
  /\ owed = {}
  /\ spent = [writes |-> 0, fails |-> 0, moves |-> 0]

(* invalidateQueries: every matching entry becomes invalid; those on the   *)
(* screen are fetched again.  A fetch under way is cancelled for that if   *)
(* there is data to go on showing, and awaited if there is none.           *)
Targets(keys, s) ==
  {x \in Slots : x[1] \in Matching(keys)
                 /\ (x[2] \in {s, "user"} \/ x[1] \in EveryScope)}
InvalidatedEntries(es, targets) ==
  [x \in Slots |-> IF x \in targets THEN [es[x] EXCEPT !.invalid = es[x].held]
                   ELSE es[x]]
Refetched(targets) ==
  [x \in Slots |->
     IF x \in targets \cap ShownSlots
        /\ (entry[x].held \/ fetch[x].phase = "idle")
     THEN Asked(FormOf(Mounted, x[1])) ELSE fetch[x]]

(* The success of w was told: w is owed by the entries its screen promises *)
(* to keep up to date.  A query that was still loading, or is off screen   *)
(* with a request under way, is out of the promise: the library takes the  *)
(* answer of that request, which may be older than the write.              *)
Owes(w, s) ==
  {<<w, x>> : x \in {y \in Slots :
     /\ y[2] \in {s, "user"}
     /\ <<w, y[1]>> \in journey.promises
     /\ entry[y].held
     /\ (y \in ShownSlots \/ fetch[y].phase = "idle")}}

(* What the server applies is missing from whatever was read before.       *)
Behind(w, s, x) == x[2] \in {s, "user"} /\ <<w, x[1]>> \in journey.concerns
LagEntries(w, s) ==
  [x \in Slots |-> IF Behind(w, s, x) /\ entry[x].held
                   THEN [entry[x] EXCEPT !.lag = @ \cup {w}] ELSE entry[x]]
LagFetches(w, s, fs) ==
  [x \in Slots |-> IF Behind(w, s, x) /\ fs[x].phase = "answered"
                   THEN [fs[x] EXCEPT !.lag = @ \cup {w}] ELSE fs[x]]

-----------------------------------------------------------------------------
(* The server answers a fetch.  GET of an issue marks it seen.             *)
Serve(x) ==
  /\ fetch[x].phase = "asked"
  /\ LET served == [fetch EXCEPT ![x].phase = "answered"]
         seen   == x[1] = "issue" /\ ~entry[x].held
     IN  /\ entry' = IF seen THEN LagEntries(MarkSeen.name, x[2]) ELSE entry
         /\ fetch' = IF seen THEN LagFetches(MarkSeen.name, x[2], served)
                     ELSE served
         /\ owed' = IF seen THEN {p \in owed : p[1] # MarkSeen.name} ELSE owed
  /\ UNCHANGED <<journey, screen, scope, flight, spent>>

(* The page of an issue, whenever the issue it shows changes, invalidates  *)
(* the lists; it shows none itself.                                        *)
SeenEffect(es, s) == InvalidatedEntries(es, Targets(MarkSeen.invalidated, s))
Arriving(to, s) ==
  IF to = "issue" /\ entry[SlotIn("issue", s)].held THEN SeenEffect(entry, s)
  ELSE entry

(* The answer is stored; it makes the entry valid and fresh.               *)
Receive(x) ==
  /\ fetch[x].phase = "answered"
  /\ LET es == [entry EXCEPT ![x] =
                  [held |-> TRUE, lag |-> fetch[x].lag, invalid |-> FALSE,
                   old |-> FALSE, form |-> fetch[x].form]]
         changed == es[x].lag # entry[x].lag \/ ~entry[x].held
     IN  IF screen = "issue" /\ x = Slot("issue") /\ changed
         THEN /\ entry' = SeenEffect(es, scope)
              /\ owed' = owed \cup Owes(MarkSeen.name, scope)
         ELSE entry' = es /\ UNCHANGED owed
  /\ fetch' = [fetch EXCEPT ![x] = NoFetch]
  /\ UNCHANGED <<journey, screen, scope, flight, spent>>

(* A fetch fails; it is repeated once.  When it is given up, what was only *)
(* to be refetched and is not invalid is promised no more.                 *)
FailFetch(x) ==
  /\ fetch[x].phase # "idle" /\ spent.fails < MaxFails
  /\ spent' = [spent EXCEPT !.fails = @ + 1]
  /\ fetch' = [fetch EXCEPT ![x] = IF fetch[x].retried THEN NoFetch
                 ELSE [Asked(fetch[x].form) EXCEPT !.retried = TRUE]]
  /\ owed' = IF fetch[x].retried THEN {p \in owed : p[2] # x \/ entry[x].invalid}
             ELSE owed
  /\ UNCHANGED <<journey, screen, scope, entry, flight>>

(* Thirty seconds pass, then five minutes, for what no screen shows.  (For *)
(* a mounted query neither matters.)                                       *)
Age(x) ==
  /\ x \notin ShownSlots /\ entry[x].held /\ ~entry[x].old
  /\ entry' = [entry EXCEPT ![x].old = TRUE]
  /\ UNCHANGED <<journey, screen, scope, fetch, flight, owed, spent>>
Forget(x) ==
  /\ x \notin ShownSlots /\ entry[x].old /\ fetch[x].phase = "idle"
  /\ entry' = [entry EXCEPT ![x] = Nothing]
  /\ UNCHANGED <<journey, screen, scope, fetch, flight, owed, spent>>

-----------------------------------------------------------------------------
(* The user navigates, or switches the organization.                       *)
Open(s) ==
  /\ s # screen /\ spent.moves < MaxMoves
  /\ screen' = s
  /\ spent' = [spent EXCEPT !.moves = @ + 1]
  /\ fetch' = Mounting(journey.screens[s].queries, scope, fetch)
  /\ flight' = [w \in Names |-> [flight[w] EXCEPT !.live = FALSE]]
  /\ entry' = Arriving(s, scope)
  /\ UNCHANGED <<journey, scope, owed>>

(* A pending mutation of the screen takes the onSuccess of the latest      *)
(* render with it: it will refresh the organization switched to.           *)
Switch(s) ==
  /\ s # scope /\ spent.moves < MaxMoves
  /\ scope' = s
  /\ spent' = [spent EXCEPT !.moves = @ + 1]
  /\ fetch' = Mounting(Mounted, s, fetch)
  /\ flight' = [w \in Names |-> IF flight[w].live
                                THEN [flight[w] EXCEPT !.closure = s] ELSE flight[w]]
  /\ entry' = Arriving(screen, s)
  /\ UNCHANGED <<journey, screen, owed>>

(* A mutation: sent, applied or refused by the server, and told.           *)
Send(w) ==
  /\ w \in journey.writes /\ journey.mutations[w] \in Offered
  /\ flight[w].phase = "idle" /\ spent.writes < MaxWrites
  /\ flight' = [flight EXCEPT ![w] = [phase |-> "sent", from |-> scope,
                                      closure |-> scope, live |-> TRUE]]
  /\ spent' = [spent EXCEPT !.writes = @ + 1]
  /\ UNCHANGED <<journey, screen, scope, entry, fetch, owed>>

Apply(w) ==
  /\ flight[w].phase = "sent"
  /\ flight' = [flight EXCEPT ![w].phase = "applied"]
  /\ entry' = LagEntries(w, flight[w].from)
  /\ fetch' = LagFetches(w, flight[w].from, fetch)
  /\ owed' = {p \in owed : p[1] # w}
  /\ UNCHANGED <<journey, screen, scope, spent>>

(* onError: the request was refused, or its answer is lost.                *)
Refuse(w) ==
  /\ \/ flight[w].phase = "sent" /\ UNCHANGED spent
     \/ /\ flight[w].phase = "applied" /\ spent.fails < MaxFails
        /\ spent' = [spent EXCEPT !.fails = @ + 1]
  /\ flight' = [flight EXCEPT ![w] = NoFlight(scope)]
  /\ UNCHANGED <<journey, screen, scope, entry, fetch, owed>>

(* onSuccess, with the closure of the last render.                         *)
Confirm(w) ==
  /\ flight[w].phase = "applied"
  /\ LET invalid == Targets(journey.mutations[w].invalidated, flight[w].closure)
         asked   == Targets(journey.mutations[w].refetched, flight[w].closure)
     IN  /\ entry' = InvalidatedEntries(entry, invalid)
         /\ fetch' = Refetched(invalid \cup asked)
  /\ owed' = IF flight[w].closure = flight[w].from
             THEN owed \cup Owes(w, flight[w].from) ELSE owed
  /\ flight' = [flight EXCEPT ![w] = NoFlight(scope)]
  /\ UNCHANGED <<journey, screen, scope, spent>>

Next ==
  \/ \E x \in Slots : \/ Serve(x) \/ Receive(x) \/ FailFetch(x)
                      \/ Age(x) \/ Forget(x)
  \/ \E s \in DOMAIN journey.screens : Open(s)
  \/ \E s \in Scopes : Switch(s)
  \/ \E w \in Names : Send(w) \/ Apply(w) \/ Refuse(w) \/ Confirm(w)

(* Requests are answered, sooner or later.                                 *)
Answers == \/ \E x \in Slots : Serve(x) \/ Receive(x)
           \/ \E w \in Names : Apply(w) \/ Confirm(w)

Spec == Init /\ [][Next]_vars /\ WF_vars(Answers)

-----------------------------------------------------------------------------
CacheTypeOK ==
  /\ screen \in DOMAIN journey.screens /\ scope \in Scopes
  /\ entry \in [Slots -> Entry] /\ fetch \in [Slots -> Fetch]
  /\ flight \in [Names -> Flight] /\ owed \subseteq Names \X Slots

(* The user's own write, once its success was told, is never hidden by the *)
(* cache: whatever an entry of the same organization still lacks of it, it *)
(* is invalid (and refetched when shown), or a request that will bring it  *)
(* is under way.  Excepted are the pairs of Gaps, which the code leaves to *)
(* the 30 seconds.                                                         *)
OwnWriteSeen ==
  \A p \in owed : LET w == p[1]  x == p[2] IN
    w \in entry[x].lag => \/ entry[x].invalid
                         \/ fetch[x].phase = "asked"
                         \/ (fetch[x].phase = "answered" /\ w \notin fetch[x].lag)

(* What a screen owes it shows in the end, if requests are answered: one   *)
(* lost fetch is made up for by the repetition.                            *)
Overdue == \E p \in owed : p[2] \in ShownSlots /\ p[1] \in entry[p[2]].lag
EventuallyFresh == Overdue ~> ~Overdue

(* What the cache holds for a component has a form it can read, also when  *)
(* another component's queryFn stored it: "const agents: AIConfig[] = data *)
(* ?? []" of AiTab says that it holds rows.                                *)
EntriesReadable ==
  \A q \in Mounted : q.key \in Keys /\ entry[Slot(q.key)].held
                      => entry[Slot(q.key)].form \in q.takes
=============================================================================
