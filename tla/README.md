# Errora: specifications and proofs

TLA+ modules that model the parts of Errora where several processes share
state, or where a calculation is easy to get wrong; the TLC configurations that
check them on small instances; and proofs that TLAPS checks for every size of
the system.  Line numbers refer to `src/backend/apps/` unless a path begins
with `frontend/`, which is `src/frontend/src/`.

1. [The system](#1-the-system)
2. [The modules](#2-the-modules)
3. [The runs](#3-the-runs)
4. [What the proofs show](#4-what-the-proofs-show)
5. [Where the code does not do what it says](#5-where-the-code-does-not-do-what-it-says)
6. [Assumptions, bounds and fairness](#6-assumptions-bounds-and-fairness)
7. [Not modelled](#7-not-modelled)
8. [Plan](#8-plan)

To check a module: `tlc -config MCStore.cfg MCIssueStore.tla`.
To check the proofs: `tlapm IssueStoreProofs.tla`.

## 1. The system

Errora is a Sentry-compatible error tracker: a Django application served by
ASGI (every view an async handler), Celery workers fed through a Redis broker,
PostgreSQL, a Redis cache, and a Next.js front end that talks to the API from
the browser.

An event travels like this:

    SDK --HTTP--> ingest view --publish--> queue "ingest" --> process_event
                  |  key cache, quota,                        |  normalize, fingerprint
                  |  rate limit, sampling                     |  store_event (one transaction)
                  v                                           |  record_event_usage (Redis)
                Redis                                         v
                                          signals after commit: issue_created,
                                          issue_regressed, event_stored
                                             |                     |
                                    notifications (queue)   AI auto-fix (queue "ai")

and a user sees it like this:

    browser tab
      AuthProvider, token-store ----- localStorage (shared by the tabs)
      api.ts: request, 401 -> one shared refresh -> request again
      TanStack Query cache <- pages: queries; mutations -> invalidate
      URL <-> filters, search, offset          live log <- server-sent events

Users resolve, merge and triage issues through the API or the MCP server,
celery beat flushes the usage counters every five minutes and purges old events
every night.  There is no coordination on the server besides row locks, unique
indexes and single Redis commands, and most views outside `store_event` and
`merge_issues` run in autocommit, with an object read in one statement and
saved whole in another.

| Component | State it keeps | Operations | What is hard | What makes it correct |
|---|---|---|---|---|
| Issue store (`issues/services.py`) | `Issue` with counters and status, `IssueHash`, `IssueUser`, `Event` | `store_event`; resolve / ignore / unresolve / archive, one or many | workers race to create a group, meet the same new user, race a user's click; crash after the commit; receivers that raise | one issue per group, exact counters, no event missed by "resolved", no duplicate signal |
| Maintenance (`issues/services.py`, `issues/retention.py`) | the same tables | `merge_issues`, `purge_events_before` | reads before locks, cascades of several statements, deadlock with workers | no event lost, counters summed, every merge ends |
| Ingest gate (`ingest/`) | cached keys, rate counters, the queue | `StoreView`, `EnvelopeView`, `process_event` | stale cache entries, a rate counter that is read and written in two steps, quota compared with work that is not metered yet, broker failing half way, workers dying | a key change takes effect in bounded time, limits are exceeded by a known amount only, nobody pays for an event that was not stored |
| Usage metering (`billing/`) | Redis counter per organization and month, `UsageRecord` | `record_event_usage`, `flush_usage`, `get_usage` | concurrent seeding, lost keys, the end of the month in the middle of a call or a flush | every call counted once, records never exceed what was metered |
| AI auto-fix (`ai/`, the page of an issue) | `AutoFixRun`, `Issue.autofix_state`; the live log's stream | trigger by a user or by a signal, `run_autofix`; press, follow, re-read | check-then-create, a task that cannot be published, redelivery after the merge request was opened, a task lost with its process; a stream that ends early | one fix at a time, a run that blocks others is being worked on, runs end and their page sees it |
| Alerts (`notifications/`) | `AlertRule`, `NotificationChannel`, cached rule flag, `NotificationLog` | `dispatch`, `deliver_notification`, rule changes | stale flag, retries, redelivery, a message lost with its process | a rule that exists is honoured in bounded time, no alert is lost silently |
| Accounts (`accounts/`) | `User.token_version`, TOTP secret and flag, `OTPCode` | sign-in, refresh, logout, change of password, OTP, TOTP, profile | read-modify-write of versions, secrets and attempts | a session ends when it is ended; two-factor sign-in asks for a verified secret; a code is used once |
| Organizations (`organizations/`, invite page) | `Membership`, `OrganizationInvite` | invite, invite again, accept, sign up | an accept in three autocommitted steps | an invite is used up only by a membership |
| Browser session (`frontend/lib/api.ts`, `AuthProvider.tsx`) | token pair in local storage, user shown, one refresh in flight | request, refresh, sign in and out, reload | refreshes and sign-outs that overlap, in two tabs | requests are sent as the user on show; no call hangs |
| Query cache (`QueryProvider.tsx`, all pages that write) | entries by key, requests under way | fetch, mutate, invalidate, navigate, switch organization | answers older than a write, invalidation by hand-written key lists | a user's own write is never hidden |
| Paged lists (`useQueryState.ts`, five pages) | filters, search, offset, selection, URL | type, choose, page, select, bulk action, switch, reload | effects that reset what depends on something else | an offset and a selection belong to the list on show |
| Choice of organization and project (`OrgProvider.tsx`, `ProjectProvider.tsx`) | ids in state and in local storage, two lists | choose, create, reload, refetch | lists that come late, lack the choice or change; other tabs | what the user chose stays chosen |
| View of an event (`EventInsights.tsx`, `StackTrace.tsx`, `issueMarkdown.ts`) | open frames, filters of breadcrumbs | show, open, filter, refetch, copy | three pieces of code look for the frame of the crash, rows keep their state by number | what is drawn and what is copied agree |
| Algorithms of the browser (`datetime.ts`, `SpanWaterfall.tsx`, `highlight.ts`) | none | calendar conversion and grids, span tree, tokenizer | boundaries, cycles, escapes | agreement with a reference definition |
| Performance, insights, search, source maps (`performance/`, `insights/`, `common/search.py`, `sourcemaps/`) | groups, transactions, spans | `store_transaction`, span extraction, queries | as the issue store; reprocessing | not modelled, see section 7 |

`PROJECT.json` lists all components, also those without state, and every
hazard with its line and the properties that cover it.

## 2. The modules

    IssueTracker                what aggregation promises (abstract)
        ^ implemented by
    IssueStore                  store_event by concurrent workers
        ^ extended by           \__ IssueStoreProofs
    IssueMaintenance            merge and purge among the workers
        \__ IssueMaintenanceProofs

    IngestGate                  endpoint, queue and worker of one project
        \__ IngestProofs, also of UsageMeter
    Alerts                      the alerts of one organization and event type
        \__ AlertsProofs
    AutoFix                     the fixes of one issue
        ^ extended by           \__ FixCacheProofs, also of QueryCache
    FixPage                     the page beside them          -> MCFixes

    UsageMeter                  the counters behind the quota  -+
    TwoFactor                   TOTP set-up in several tabs     |
    OneTimeCodes                sign-in by a mailed code        +-> MCServices
    Invites                     joining an organization         |
    Assignees                   the member picker               |
    Selection                   organization and project       -+
        \__ AccountProofs, also of the four above

    Api                         endpoints: what they read and change
        ^ instance of
    Screens                     queries and mutations of each page
        ^ extended by
    QueryCache                  the cache of a tab            -> MCQueryCache
        \__ FixCacheProofs

    QueryState                  values in the query string
        ^ extended by
    ListPages                   the five paged lists           -+
    Session                     tokens of two tabs              |
        \__ BrowserProofs, also of ListPages                    |
    Calendar                    Gregorian and Jalali dates      +-> MCBrowser
    Waterfall                   the tree of spans               |
    Highlight                   the tokenizer                   |
    EventView                   an event and its Markdown      -+
        \__ PageProofs, also of Calendar, Waterfall and Highlight

`MC...` modules give TLC instances whose constants a `.cfg` cannot write, and
put parts that share nothing into one run: a behaviour of `MCServices` or
`MCBrowser` is one of a single part, chosen at the start, while the variables of
the others keep their initial values.  Each such run is the union of its parts'
state spaces, and no part is bounded more narrowly for it.

Some definitions stand beside a mapped one and differ from it by a plausible
mistake (a lock not taken, a field not reset, a missing invalidation); no
behaviour uses them.  Each property is known to catch at least one.

### IssueTracker and IssueStore

`IssueTracker` is a tracker without workers: groups are observed one event at a
time, each counted once, and an event of a resolved group reopens it in the same
step.

`IssueStore` is the code.  Its tables are those of `issues/models.py` for one
project: `rows` and `issue` (Issue), `hashes` (IssueHash), `seenBy` (IssueUser),
`events` (Event).  `lock` holds the row locks, `pendingUsers` the IssueUser keys
that an open transaction has inserted, so that a second insert of the key waits.

| Action | Code |
|---|---|
| `Accept` | the endpoint publishes the payload |
| `Take` | a worker is handed the message of `process_event` (`ingest/tasks.py:27`) |
| `LockIssue` | `select_for_update().get_or_create` finds the group; it waits for the row lock, and `regressed` is decided under it |
| `CreateIssue` | it finds none and inserts: Issue, then IssueHash; a second creator waits on the unique index |
| `WriteRows` | counters with `F()`, IssueUser in its savepoint (waits for the same key), Event |
| `Commit` | everything becomes visible, locks are released |
| `Announce`, `SendStored`, `EndTask`, `Raise` | `on_commit` (`Dispatch`): `issue_created` or `issue_regressed`, then `event_stored`, then the acknowledgement, each a step; a receiver may raise at any of them, and the task has failed |
| `Crash` | the worker dies between any two of these steps; rollback; its message is delivered again, or acknowledged (section 6) |
| `SetStatus` | resolve, ignore, unresolve, archive and the bulk action: an UPDATE of one column, which waits for locks |

An event's `received_at` is the clock at the commit; `last_seen` may come from
the SDK's clock and is any earlier value.

### IssueMaintenance

Extends `IssueStore` with `merge_issues` (`MergeRead` to `MergeCommit`, with a
rollback at a violated constraint and PostgreSQL's deadlock detection) and with
the purge (`PurgeEvents`, then batches of `PurgeList`, `PurgeCascade`,
`PurgeDelete`).  Each SQL statement is a step, and what it read stays in `mg` or
`pg`: the races of this code are between these statements.  Deleting an issue is
Django's cascade, and the deferred foreign keys are checked at the commit:
`Dangling` says that a worker has inserted a row for the issue in between.
`CreateConflict` is what happens to an event whose hash was merged.

The history variable `raced` says that a worker's transaction and a maintenance
transaction overlapped.  The properties named `...Alone` speak of behaviours
without it; section 5 shows what goes wrong with it.

### IngestGate

One project, requests of up to `MaxItems` events.  `LookUp`, `ReadKey` and
`FillKey` are `aresolve_project` (negative answers are cached too), `CheckQuota`
is `aquota_exceeded`; the rate limit is `CountRequest`, which reads the counter,
and `BumpCounter` or, when there was none, `SetCounter`, which write it: Django's
`aincr`, which its Redis cache inherits, is an `aget` and then an `aset`.  Each
write that undoes what others counted is noted in `undone`.  `SendItem` is the loop
over the items with sampling and a broker that may fail, and `TakeTask`,
`StoreTask`, `MeterTask`, `EndTask`, `CrashTask` the worker.  `ToggleKey` is an
administrator who activates or deactivates the key.  Time is a clock in ticks;
an entry and a rate window last `Minute`.  How the usage is counted is left to
`UsageMeter`; storing is one step, which `IssueStore` justifies.

### UsageMeter

`record_event_usage` is `MeterIncr`, `MeterSeed`, `MeterAdd`, `MeterIncrAgain`,
`MeterSet`: increment, and without a key read the record, add it as a seed,
increment again, and as a last resort set.  `FlushRead` and `FlushWrite` are
`flush_usage`.  `Rollover` is the end of a month, `Evict` a key lost by Redis,
`MeterAbandon` a worker that dies or an exception, which `process_event`
swallows.  The key and the seed are computed from two calls of
`current_period()`, so a call may straddle midnight; the model has that.

### AutoFix and FixPage

`AutoFix`: `CheckActive`, `CreateRun` and `Publish` are both
`TriggerAutoFixView.post` and `maybe_auto_trigger`; the worker's actions follow
`run_autofix` through the statuses, with an exception possible at every step of
the `try` block, signals whose receivers may raise, and a merge request that may
have been opened although the call failed.  `CrashRun` repeats the run from the
start, or leaves it as it is when its task was lost with the process (section 6);
such a run is in `orphan`, with those whose publish or start signal failed.

`FixPage` composes it with the page of the issue: `Press`, `ServeTrigger` and
`Answered` are the button's mutation and its 202 or 409; `ReadIssue` the cached
issue with the effect that looks for the run of an issue that is "running";
`ReadRuns` what that effect attaches to; `Ticket`, `Frame`, `Done`, `TicksOut`
and `Disconnect` the live log and its stream (`ai/views.py:144`).

### Alerts

The occurrences of one event type in one organization, its rules, each with a
channel of its own, and the workers of the queue `notifications`.

| Action | Code |
|---|---|
| `CheckFlag`, `ReadRules`, `FillFlag` | `_has_matching_rule`: the cached flag, or the query and then the `cache.set`, with time between the two |
| `ConfirmRules`, `FetchRules`, `PublishAlert`, `EndDispatch` | the rest of `dispatch`: two queries and one `delay` for each rule; without a broker the loop ends in an exception |
| `SaveRule`, `DeleteRule`, `SwitchChannel` | administrators; none of them clears the flag (section 5); a channel's deletion deletes its rule |
| `TakeDelivery`, `LoadRule`, `Send`, `LogSuccess`, `LogFailure`, `Retry`, `Acknowledge` | `deliver_notification`; a channel may accept a message and its answer be lost; a log row whose rule was deleted violates its foreign key and ends the task |
| `CrashDelivery` | the worker dies, and its message is delivered again, also when a retry of it is already out; or its pool process was killed, and the message is acknowledged and lost |
| `Replay` | `NotificationLogReplayView` |

`since` is the time from which a rule has matched, `switched` the rules that were
disabled or deleted at some time (their alerts may be dropped), `dropped` the
alerts whose retry could not be published or whose process was killed, `torn` a change of a rule between the
query and the fill of the flag.

### Session

Two tabs that share `localStorage`, and the server's `token_version`.  A call
keeps the pair it was sent with; `Serve` accepts it when the access token is in
time and of the current version.  `Unauthorized` is the 401 branch of `request`
(`frontend/lib/api.ts`): the first 401 waits for the tab's one `refreshPromise`,
the second is an error.  `Refreshed` and `RefreshDenied` end `doRefresh` with
all that resumes on it in the same step, which is what JavaScript does between
two awaits.  `signOut` clears the store without waiting for the logout; `Receive`
of a changed password stores the new pair and calls `loadMe`.  `Revoke` is
another device, `Expire` the access token's lifetime, `Lose` the network or an
answer that is an error other than 401.  `ServeRefresh` answers by the version of
the token, or refuses because the address has had its ten refreshes and sign-ins
of the minute or the server fails; `doRefresh` clears the store on either
refusal.  `ended` notes why a session may be over: somebody ended it ("left"), or
a request it hangs on was not served ("unserved").

### TwoFactor, OneTimeCodes, Invites, Assignees, Selection

Five small systems of browsers against views that run in autocommit.

- `TwoFactor`: a view changes the user that was read when the request was
  authenticated (`Read`) and saves it later (`TOTPSetupView`, `TOTPEnableView`,
  `TOTPDisableView`, `SaveProfile`).  Saving the profile names no fields and
  writes every column back.  `Answer` and `Loaded` are the card and `loadMe`.
- `OneTimeCodes`: the form (`AuthForm.tsx`) with its one `loading` flag, its
  editable address and its "send again"; `issue_otp` stores a code and then
  mails it; `ReadCode` and `SaveCode` are `verify_otp`, which reads the newest
  unused code and saves its attempts in another statement.
- `Invites`: `AcceptRead`, `AcceptJoin`, `AcceptSave` are the three statements of
  an accept; `Invite` is also the re-invite, which mints a new token on the same
  row; `SignUp`, `FindPending` and `accept_pending_invites` are the sign-up; the
  page (`InvitePreview`, `Decide`, `goSignIn`, `Answered`, `Forward`) is
  `frontend/app/[locale]/invite/page.tsx`; `ExpireInvite` is the time that passes.
- `Assignees`: `Click` and `onOptionKey` compute the whole new set from the row
  on show; saves, refetches and answers come in any order.
- `Selection`: `Rendered` is what follows a change in a tab: a render with the
  new lists and ids, the effects of `ProjectProvider` and `OrgProvider` that go
  back to what is stored (or the first of the list) when a list has changed, and
  the render after them.  `Created` chooses a new organization before any list
  holds it.  Other tabs only write to the storage (`ElsewhereOrg`,
  `ElsewhereProject`); `ServerChanges` are colleagues.

### Api, Screens and QueryCache

`Api` has a record per group of endpoints of `api.ts`: the tables each reads and
changes, and whether a list comes as a page.  `Screens` has an operator per
component that writes: the keys of its queries, the form in which they keep the
answer and the forms their component can read (`unwrapList` takes both) and, for
each mutation, the keys its `onSuccess` invalidates.  `QueryCache` runs them: an entry's content is its
*lag*, the user's own writes that the server had applied and the entry does not
show.  `Serve` and `Receive` answer a fetch, `Send`, `Apply`, `Confirm` and
`Refuse` are a mutation, `Open` and `Switch` navigation; `Age` and `Forget` the
30 seconds and the five minutes.  A pending mutation takes the `onSuccess` of the
latest render with it, so `closure` may differ from `from`.  The library itself
is external and modelled from what the pages rely on: fetch on mount, sharing of
requests, cancellation by an invalidation, one retry.

`Gaps` lists the pairs of a mutation and a query that the code leaves to the
30 seconds, such as the status changed in the list and the page of that issue.

### QueryState and ListPages

`QueryState` is `useQueryState` with its serdes, a raw parameter being the
sequence of its occurrences.  `ListPages` is the state of the five pages that
page through a filtered list: `Become` is what a change of state does, all of it:
the effect that resets offset and selection when a dependency changed, and the
URL that the setters write.  `ProjectKnown` is the project that arrives after
the first render of a reloaded page; `Loaded` is what such a page shows then.

### EventView

`topInAppFrame`, `shownFrames` and `stackBlock` order the frames of one trace for the
suspect commit, the page and the Markdown; `ContextLines` numbers source lines,
`blameLine` is where the link goes; `items` and `copied` are the breadcrumbs of
the card and of the Markdown.  `Refetched` puts another event in the place of the
one shown: `Mounted` says which rows keep their open flag, and the filters stay.
`EventAssumption` says that a crumb with a time has one above every place in the
trail: times are seconds or milliseconds since 1970, and the card sorts a crumb without a
time by its place.  A time is stored as it was sent, and some SDKs send text
(`text`): the difference of two texts is no number, the comparator says "equal"
of any two such crumbs, and they stay in the order of the payload whichever order
is chosen.  Of texts and numbers mixed the comparator makes no order at all; what
the engine does then (`EngineOrder`) is left open and nothing is claimed.

### Calendar, Waterfall, Highlight

Pure functions, each beside a reference definition: a walk through the days by
the lengths of the months; the ancestors of a span; a reader that goes through a
text one character at a time.  The state is the input, so that TLC enumerates
every input within the bounds: each day of 400 in three walks, each sequence of
up to three spans and each set of collapsed ones, each text of up to four
characters of the classes the tokenizer distinguishes.

A walk begins on the first day of a year of `Years`, which `NewYear` tells from
one known day (1399 began on 20 March 2020) and the leap years since: 8 in 33, as
the calendar has them from the break of 1210 to that of 1635 in the table of
`datetime.ts`.  The code is not asked for it.  `CalendarAssumption` keeps the walks
within 1212 to 1627.  `Open` is the button of the picker; `passed` and `NextBreak`
are the loop of `jalCal` through the table.  The engine's `Date` is modelled by the
Gregorian rules, in the local days of a user: hours and time zones are left out.

## 3. The runs

| Run | Question | Instance |
|---|---|---|
| `store` | Do overlapping workers, dying between any two statements and signals, and users still behave like the sequential tracker? | 2 workers, 2 events of one user in one group, 2 deliveries each, statuses resolved and ignored |
| `maintenance` | Do tables stay consistent while merges and purges interleave with workers? | 2 workers, 3 events in 2 groups with a shared user, 3 ids |
| `progress` | Do merges, purges and workers that wait for one another all end, and is every message settled? | 2 workers, 2 ids, a merge of two groups and, one at a time beside it: a worker that dies or raises and has its message delivered again, the purge, or a third message and the deadlock of merge and worker |
| `ingest` | How stale can a key decision be, how far are the limits exceeded, is billing covered by storage? | 3 requests of one item, 1 worker that dies at most once, quota 1, limit 1, 2 ticks a minute |
| `alerts` | Which alerts may be dropped, is the log true? | 2 occurrences in two projects, a rule of one of them that changes twice, 1 retry, 1 worker that dies at most once, 1 replay |
| `autofix` | Do runs end, are they worked on, does the issue show the end of one, and does the page see it? | 2 triggers, one of them the page's button; 2 workers; 2 deliveries; in three shapes (`MCFixes`) |
| `services` | Metering, invites, two-factor sign-in, codes, assignees, choice of organization and project | section 6 |
| `cache` | Is a user's own write ever hidden? | journeys of a few screens, each mutation of each screen sent twice, pairs of mutations that meet in one entry; a lost answer, two moves |
| `browser` | Lists and URL, session, calendars, span tree, tokenizer, view of an event | section 6 |
| `merge_shared_user`, `stale_flag`, `agents_shape` | Statements of the code's own comments and types that do not hold; see section 5 | the smallest instance with the case |

The properties, and why each is worth its run:

*Storage and maintenance*
- `StoreInv`: the inductive invariant of the proofs, tried out here first.
- `CountersExact`: counters agree with the rows, whichever workers overlap.  A
  lost update or a user counted twice violates it after two interleaved
  transactions.
- `ResolvedMeansQuiet`: a user's click cannot hide a regression: an issue shown
  as resolved has had no event since the click.
- `NoDuplicateSignal`: what redelivery may not repeat.  A worker may die after any
  of the signals and before the acknowledgement: `issue_created` and
  `issue_regressed` are lost with a crash after the commit, but never doubled,
  since the redelivered event finds the issue; `event_stored` is sent again, at
  most once for each delivery.
- `RefinesTracker`: the strongest statement about storage, that each behaviour
  is one of `IssueTracker`.  `LockIssue`, `WriteRows` and `Dispatch` are
  stutters; `Commit` is `Observe`.
- `HashAgrees`: the unique indexes and deferred keys really protect the tables,
  even when a merge and a worker work on the same issue.
- `ExactAlone`: merge and purge do what they say when no event is stored in the
  meantime: counters are summed, users united, no event lost that has to be kept.
  After a purge the counter is larger than the number of events left, by design.
- `MaintenanceEnds`, `EventuallySettled`: a merge and a purge that have begun end,
  and so does every accepted message, in the deadlock that PostgreSQL ends (a
  merge that holds an IssueUser key and waits for the target's row, a worker that
  holds the row and waits for the key), beside a purge that deletes what they
  wait for, and after a crash and a redelivery.  A purge that listed the same
  batch for ever, or a creation repeated against a hash that a merge has moved,
  would violate them.

*Ingest and metering*
- `KeyDecisionFresh`: the cache makes a key decision stale by less than a minute
  plus the time between reading the row and caching it.
- `LimitsBounded`: the rate limit holds where no two requests overlap between the
  read and the write of the counter, and each write that undoes others' counts
  lets at most the limit through again; and usage exceeds the quota by what was in flight at the last
  check that passed, the items of one request and redeliveries.
- `BilledWasStored`: an event is stored before it is metered, whoever dies.
- `BillingRight`: each completed call counts once, a lost key costs what was not
  flushed, and a record never bills more than was metered.

*Fixes and alerts*
- `BlockedMeansWork`, `FixEnds`, `StateSettles`, `SerialFixes`: a run that blocks
  new fixes has a task that is waiting or running; it ends; the issue then shows
  how some run ended.  Excepted are the runs left behind for ever (section 5),
  and the properties say that nothing else leaves one behind.
- `PageFollows` (`SeesTheEnd` and `ButtonRecovers`): who presses the button sees the run end or
  knows why not, and a page whose stream is over does not go on spinning.
- `HonouredSoon`: the flag drops an occurrence only within its lifetime (plus the
  time between query and fill) after the rule began to match.
- `NoSilentLoss`: an alert that was dispatched is accepted, on its way, or has
  used up its retries, unless its rule was switched off, the broker failed, or the
  process that had it was killed; a death that takes the whole worker loses none.
- `LogTruthful`: what administrators see in the log matches what was sent, up to
  one row for each worker that died and to rules that were deleted.

*Accounts and organizations*
- `EnabledWasVerified`: what sign-in asks for is a code of the secret the user
  has verified, however tabs overlap, except that a request was overtaken.
- `SignInByCode`: a code signs in once and is tried no more often than allowed,
  unless two verifications overlap; and "code sent" stands beside an address a
  code was issued for, unless it was edited while the answer was awaited.
- `DoneMeansMember`, `NotLeftOut`: the invite page says "joined" to members only,
  and an invite is used up by nothing but a membership, whatever dies between
  two of its three steps.
- `TogglesKept`: whole-set saves keep every tick, unless the user hurries.
- `ChoiceStays`: whenever the list at hand holds what the user last chose in this
  tab, the tab works in it, through reloads, lists that lose and regain it, and
  lists that are older than a new organization.

*Browser*
- `AccountMatches`, `SessionKept`, `QuietSignOutClears`, `CallsSettle`: requests
  go out as the user on show; a session that nobody ended and whose refreshes and
  profile loads were all served lasts; a sign-out with nothing under way leaves
  nothing behind; and no call waits for ever.
- `OwnWriteSeen`, `EventuallyFresh`: after the success of a write, what its
  screens show of it is current, invalid, or being fetched; and current in the
  end.
- `UrlShowsView`, `OffsetBelongs`, `BulkActsOnSeen`: the URL has all of the view
  but a search still debounced: who navigates to it sees what its sender sees, who
  loads it sees that from the first row on (the log of deliveries keeps the
  offset); an offset belongs to the list it was chosen in; a bulk action reaches
  rows the user has seen in that list.
- `CalendarAgrees`, `TreeDrawn`, `TokensAgree`: the algorithms against their
  references.
- `EventAgrees`: the suspect commit, the trace and the Markdown begin with the
  same frame; the lines of an open frame have the numbers the link goes to;
  crumbs sent in order, as numbers or all as text, are copied as they are listed.

The type invariants of the modules (`...TypeOK`) document the state.  Those of
`IssueStore`, `IssueMaintenance`, `IngestGate`, `UsageMeter`, `Alerts`,
`AutoFix`, `TwoFactor`, `OneTimeCodes`, `Invites`, `Assignees`, `Selection`,
`Session`, `ListPages` and `QueryCache` are proved; no run checks them.

## 4. What the proofs show

All of it for any number of workers, messages, issues, users, requests, rules,
periods, tabs, accounts, members, organizations, projects, forms, addresses,
codes and pages, and for every journey through the screens of `Screens`.  Where a bound of section 6 stands in a guard, the
theorem holds for every value of it.

**Storage** (`IssueStoreProofs`).  `TypeCorrect`, and `StoreInvariant`:
`StoreInv` is an invariant of `Spec`.  What a reader wants is in two conjuncts,
`OneIssue` (a group never gets two issues) and `NoMissedRegression`
(`ResolvedMeansQuiet`).  Neither is inductive.  That a creator's group is still
empty at its commit needs `CreatorAlone`: it is the only creator of the group
(the index entry) and no row has appeared.  That a finder decides the status
correctly needs `FinderCurrent`: the row, its hash and its status are still what
was read under the lock, which needs `LockHeld`: the lock is held by that worker.

`SignalsOnce` (`NoDuplicateSignal`) counts debts: the one worker that created an
issue has not announced it yet, and the signals of a regression that were sent
and those that committed workers have still to send are together no more than
the reopenings (`SignalsInv`); a worker that has announced owes nothing more,
wherever it dies.  What was sent as `event_stored` and what is still to be sent is
no more than the deliveries.  `CountersStayExact` (`CountersExact`) needs that a
message is held by one worker, which has stored no event of this delivery before
it commits (`DeliveryInv`), and that a user counted as new has been recorded by
nobody since (`NewUserInv`: the IssueUser key is locked by its inserter).  Then a
commit adds one to the counters and one to the sets they count.

`StoreRefinesTracker`: `Spec` implies `RefinesTracker`.  `Commit` of a worker is
`Observe` of its hash and user, `SetStatus` is `Triage` of the groups whose
issues it changes, all other steps leave the mapped state alone.  The proof needs
`OneIssuePerGroup` so that the mapping's `CHOOSE` picks the row meant,
`FinderCurrent` for the reopened status, and facts on the tables (`UsersInv`).

**Maintenance** (`IssueMaintenanceProofs`).  `MaintTypesCorrect`;
`StoreInvUnderMaintenance`: the invariant of storage survives merges and purges;
`HashesAgree` (`HashAgrees`) and `MaintenanceExactAlone` (`ExactAlone`).  For the
first two, a worker that found its hash free still finds it free when it commits
(`CreatorsHash`), a merge moves the hashes its sources still have, and it holds
the rows it deletes when it deletes them (`MergeInv`); a purge deletes only rows
no worker is on.  The third is about behaviours without an overlap (`AloneInv`):
what a merge has read, moved, counted and doomed is still all there is
(`MergeExact`), and what a purge listed is still empty (`PurgeExact`).  The
merged counters are folds over the set of sources; their sum is found by
induction on that set, which `SubsetInduction` gets from a least counterexample.

**Ingest and metering** (`IngestProofs`).  `GateTypesCorrect`.
`KeyStateIsFresh` (`KeyDecisionFresh`): a wrong entry of the key cache was read
before the key changed, cached at most `MaxFill` later, and expires (`EntryFresh`);
the same of what a request has read and not yet cached (`ReadFresh`).
`OnlyRacesExceedLimits` (`LimitsBounded`): what has passed in a window is at most
its counter, up to the limit, and the limit once more for each write that did not
add one to the counter it replaced (`Counted`); the quota is exceeded by what the last passing check could not see,
which the history variable `backlog` holds.
`NothingBilledUnstored` (`BilledWasStored`) is inductive with the types.

`MeterTypeCorrect`, `MeterInvariant`, and from it `BillingIsRight`
(`BillingRight`).  `UsageExact` alone is not inductive: a seed read before
another worker's increment must not take effect.  `SeedsCurrent` says that a seed
that can still take effect is the current record, `FlushCovered` that what a
flush carries was metered, `FutureUntouched` that nothing of a coming month
exists, which is what the end of a month needs.

**Alerts** (`AlertsProofs`).  `AlertsTypesCorrect`.  `RulesHonoured`
(`HonouredSoon`): a flag that says no was read while no rule matched, so it
expires by `Ttl` and `MaxFill` after any rule that matches began to (`FlagInv`,
and `FillInv` of the dispatch that is about to fill it).  `NothingLostSilently`
(`NoSilentLoss`): while its rule stays enabled and it is not dropped, no step of a
worker takes an alert out of the places where it is kept (`KeptInv`), and a message with n retries
behind it was attempted as often (`TriedInv`).  `LogIsTrue` (`LogTruthful`): a
success is logged for a message that was accepted and not logged yet, so what was
accepted pays for the workers about to log as well (`LogInv`).

**Auto-fix** (`FixCacheProofs`).  `FixTypesCorrect` has, with the types, that a
running task is held by exactly one worker (`TaskInv`).  `NoIdleBlocker`
(`BlockedMeansWork`) needs what the status of a run can be, from where its
trigger and its worker are (`StatusInv`).  `OneFixAtATime` (`SerialFixes`): one
trigger at most has passed its check, nothing is in flight then, and what waits
or is worked on up to its end is the run in flight (`SerialInv`).
`QuietStateTrue` (`StateSettles`): someone has still to write the state of the
issue, or it shows how some run ended (`StateInv`).

**Accounts and organizations** (`AccountProofs`).

- Two-factor sign-in: `TwoFactorTypeCorrect` and `EnabledIsVerified`.
  `EnabledWasVerified` is inductive by itself, once the history variable
  `overtaken` names the two overlaps that break it: the flag is raised only over
  the secret that was checked, a set-up lowers it with the same save, and a
  profile save that nothing overtook writes what is there.
- One-time codes: `CodesTypeCorrect`, `CodesAreBounded`, `HintIsHonest`, and both
  of these as `SignInIsByCode`.  The bound is not inductive: `Counted` ties the
  tries and uses of a code to its row, and `ReadsTriable` says of every
  verification that has read a code that what it read was below the limit, and
  that a row with the same attempts is not consumed yet; saving over an unchanged
  row then keeps both.  The hint needs `AsksHonest`: a request under way carries
  the address its form still shows, and one that succeeded stored a code of it;
  codes are never removed (`SentKept`).
- Invites: `InvitesTypeCorrect`, `DoneIsTrue` (`DoneMeansMember`) and
  `NobodyLeftOut` (`NotLeftOut`).  While no account gave the address up, a page
  with a preview of its own, or with a request that holds the invite, belongs to
  the account that holds the address (`JoinInv`), and whoever is on "accepted" or
  "done" is a member.

- Assignees: `AssigneesTypesCorrect` and `TickedIsAssigned` (`TogglesKept`).
  Unless the user hurries, one save is under way at a time; it brings the set the
  user put together, and that set is on the server from its answer on, in what a
  fetch is answered with, and in the row once it is not stale (`TogglesInv`).
- The choice of organization and project: `SelectionTypesCorrect` and
  `ChosenStays` (`ChoiceStays`).  What this user chose is what is stored, and
  what the tab has chosen wherever its list holds it (`ChoiceInv`); every step
  that may put another in its place goes through `Rendered`, whose effects go back
  to what is stored.  That falling back to the first of a list chooses something
  of the list needs a least entry, which every nonempty set of pairs of numbers
  has because `<` is well-founded (`LeastIs`, `FirstIs`).

**Session** (`BrowserProofs`).  `SessionTypesCorrect`, with what goes with the
types: whatever holds no account holds no token (`SessionTInv`).  The three
properties are about different histories and have an invariant each.

- `AccountIsShown` (`AccountMatches`): while no sign-in crossed anything, there is
  one account to which the storage, every refresh, every tab and every call but
  those of the sign-in form belong, or to nobody (`OneUser`).
- `SessionLasts` (`SessionKept`): in a session that nobody ended and no request of
  which went unserved, what is stored
  and what was sent carries the current version of the token, except what is
  stored while the answer of a password change is awaited, which nothing else is
  under way beside (`KeptInv`).
- `SignOutIsClean` (`QuietSignOutClears`): while nothing was crossed, a tab that
  shows nobody has nothing under way but a sign-in or a logout, and beside a
  logout nothing is stored and no call holds a pair (`SignOutInv`).

**Lists** (`BrowserProofs`).  `ListTypesCorrect` has, with the types, that the URL is
that of the view; that every filter written to a URL is read back as it was
(`UrlIsRead`) then gives the first half of `UrlShowsTheView` (`UrlShowsView`); the
other half is that the project's arrival changes what the effect of each page but
the delivery log depends on, and so resets the offset.  `OffsetsBelong`
(`OffsetBelongs`) is inductive with that: an offset changes by paging, or is reset
with what it depends on, on each page but the delivery log, which the property
excepts.  `BulkReachesSeen` (`BulkActsOnSeen`): what is on the screen counts as
seen, and a page without check boxes has no selection (`SeenInv`).

**Query cache** (`FixCacheProofs`).  `CacheTypesCorrect` and `WritesAreSeen`
(`OwnWriteSeen`), for every journey, every number of writes, failures and moves.
One half is about the tables of `Screens` and holds by inspection of each pair of
a mutation and a query: names are unique (`NamesUnique`), and what a mutation
changes in a query that `Gaps` does not list it also invalidates or refetches
(`PromisesKept`).  The other half is the cache: of a write that is owed, an entry
lacks nothing, or is invalid, or is being fetched by a request that was served
after the write (`OwesInv`); only answers lag, and data that is not there does not
(`Quiet`).

**Tokenizer** (`PageProofs`).  `TokensAreRight` (`TokensAgree`) for texts of any
length over any characters.  The state is the text, so the invariant is about one
text (`TextAgrees`), and the work is an induction over it.  The library's
induction theorems are out of reach here; `Counted` says instead of a *set* of
numbers that holds 0 and each successor that it is all of them, which the
provers take from `LeastIs`, and `DefinedForward` and `DefinedBackward` give a
recursive function its values.  The reader of the reference has three facts:
`ReadingIs`, what it makes of each character; `ReadsOn`, that it stays in a
comment or string up to its end; `ClosingIs`, where an ending is first found.
`Fits` says of one token that the reader is in code at its first character, tells
all of it as the token does, and is in code behind it; `NextTokenFits` proves
that for each kind of token.  `Tiles` then says of the tokens from a place on
that they follow each other to the end of the text (`ScanTiles`).

**Span tree** (`PageProofs`).  `SpansAreDrawn` (`TreeDrawn`), for traces of any
length and whatever is collapsed.  `SortedIs`: the n-th of a set by start is the
one with n - 1 before it, so each has a place and no two the same (`Listing`).
What is drawn is described by the rows alone (`Forest`): each row is that of a
head or hangs from an earlier row, that of its parent, with nothing as shallow
between them (`Placed`); rows at one depth with nothing shallower between them are
in order (`Ordered`); and what should hang from a row does (`Complete`).  The
recursion keeps this: a forest with another tree behind it (`ForestGrows`), a row
with the forest of its children below it (`TreeGrows`, `InTurnGrows`), level by
level (`WalkIs`).  Then no span has two rows (`DrawnOnce`), because of two the
parents would have two, and so on up.  A drawn span is in no circle and has nothing
collapsed above it (`DrawnIsFree`): its parents are rows above its own.  And every
other is drawn (`FreeIsDrawn`): what is above its parent is less than what is
above it, by the number of spans.  This is also why levels as many as spans suffice.

**Event** (`PageProofs`).  `EventTypes` and `EventShownRight` (`EventAgrees`), for
traces and trails of any length and any limits.  `SameCrash`: the frames kept of a
list are, in their order, the ones of the app (`Kept`, `InAppIs`), so the last of
the one order and the first of the other are the same.  `LinesAgree`: the line of
each row is that of one of three stretches (`LinesAre`), and the marked one is the
second.  `CrumbsAgree`: the place of a crumb is the number of those before it;
for crumbs in order that is a stretch of numbers or what is left of them
(`ItemsInOrder`, `ItemsReversed`, and `ItemsAsSent` for times sent as text, by the
sizes of intervals).

**Calendars** (`PageProofs`).  `CalendarsAgree` (`CalendarAgrees`), for every walk in
the Jalali years 1212 to 1627.  First the Gregorian rules: the year and month that
`DateOf` chooses are the only ones (`DateIs`), and there are such (`DateFound`).
`g2d` is the day number of these rules (`G2dIs`), and `d2g` its inverse (`D2gIs`): a
day counted from the first of March lies in one century and one year of it
(`MarchYearIs`), and its month and day come from days by fives (`MarchDayIs`).  Then
the Jalali years: between two breaks the table is a cycle of 33 years
(`BreaksAre`, `JalCalIs`, `LeapYearIs`), and the day of March on which `jalCal` lets a
year begin is that of `NewYear` (`NewYearIs`).  So
`jalaliToDate` and `toJalali` are the rules and their inverse (`ToDate`, `FromDate`;
`d2j` has to decide in which Gregorian year a day lies), and every day of these
years has a date (`DayFound`).  The invariant of the walk is that the date counted
on is the date of the day (`CalendarInv`; `DayAfter` passes the end of a month and of
a year).  The grids and arrows follow from the rules alone: 42 days from a weekday
on show a month of at most 31 whole, whatever the calendar (`GridLaid`), and a month
number goes up and down by one (`JalaliArrows`, `GregorianArrows`).  Before 1210 and
after 1635 the table has other cycles and the theorem says nothing.

**Assumptions.**  The named assumptions of the modules, which TLC evaluates in
each run: messages have known hashes and users; `None` and `Missing` are not
values; workers and maintainers are different; periods, limits and page sizes are
positive and bounds natural numbers; spans start at natural numbers; walks stay in the Jalali years 1212 to 1627; accounts that are registered are accounts;
journeys write through mutations of their screens.  `CodesTypeCorrect` and what
follows it assume that there is an address to begin with (`Bounds`).  Counting
theorems need no assumption of finiteness on the constants: the sets they count
are finite because they grow by one.

**What the proofs found.**  `OwnWriteSeen` was false with two failures: a
mutation that only refetches an entry (the `refetch` of `OrgProvider` after the
organization's name or retention was saved) leaves it valid and old when the refetch is given
up.  The model now owes nothing there, and section 5 has the case.  Two arms of a
`CASE` of `Invites` overlapped, of which TLC takes the first and the language
either.  And the items of requests that were let in but not handled are counted
as they come and go (`awaited`) instead of summed over the requests.

**Model-checked only.**

- Everything under fairness (`MaintenanceEnds`, `EventuallySettled`, `FixEnds`,
  `PageFollows`, `CallsSettle`, `EventuallyFresh`): the provers here reach neither
  liveness under fairness nor ENABLED.  `FixPage` has only such a property.  Every safety
  invariant and action property of the passing runs is a theorem.

## 5. Where the code does not do what it says

Three statements have a run that violates them.

- **`merge_shared_user`**: two sources with a user in common, whom the target
  lacks, are re-pointed by one UPDATE that violates unique (issue, ident).
- **`stale_flag`**: `notifications/apps.py:54` announces that the cached flag is
  kept fresh when rules change.  The receivers are connected in lines 63 and 64
  without `weak=False`, unlike all others of the method, and are local to
  `ready()`: they are garbage when it returns, and a new rule is ignored until
  the flag expires.
- **`agents_shape`**: the page of an issue keeps the answer of the server under
  `["ai-configs", organization]`, the AI tab of the settings the unwrapped list.
  Whoever opens that tab while the answer is cached (shown at once, stale or not,
  until it has been unused for five minutes) has the page object read as a list
  (`settings/page.tsx:1362`).  The other way round nothing fails: the page of the
  issue reads through `unwrapList`.

The models show more that no run is spent on; the property concerned excepts the
case by a history variable or a guard, which names it.

*Issues and usage*
- A merge saves counters summed from rows it read without a lock, so an event
  stored in between is not counted (`issues/services.py:243`, against the head of
  the module, "without losing counts"), and one that commits between the
  re-pointing and the cascade is deleted (lines 227, 242).  `raced`.
- `IssueHash` is there to "support merge & regrouping" (`issues/models.py:97`),
  but `store_event` looks groups up by `Issue.primary_hash` (`services.py:100`).
  After a merge, every event with the hash of a source finds no issue, its
  IssueHash violates the unique constraint, and the event is lost.
- An issue listed as empty by the purge is deleted by id although it has received
  an event since, and the event goes with it (`issues/retention.py:25`).
- Only the counter of the current month is flushed (`billing/tasks.py:19`): what
  is metered between the last flush and midnight never reaches `UsageRecord`,
  which `usage_by_month` reads history from (`billing/services.py:121`).
- A crash between the commit and the signals leaves an issue that was never
  announced (`services.py:146`); one after them has `event_stored` sent again.
  When only the pool process is killed before the commit, the event is lost.  With ClickHouse the event is inserted outside
  the transaction, and stays although its issue rolls back (`issues/store.py:320`).

- `_rate_limited` counts by `aincr` (`ingest/views.py:73`), which is not atomic:
  requests that overlap there are counted once, and a slow one sets the counter
  back to what it read (`undone`).  The write also gives the counter the default
  lifetime of the cache, 300 seconds instead of 120; its key names the minute, so
  nothing depends on that.

*Fixes and alerts*
- Two triggers at once start two fixes (`ai/views.py:80`; `raced`), and a failed
  publish or start signal, or a killed pool process, leaves a run active for ever:
  every later trigger of the issue gets a 409 (`ai/tasks.py:42`,
  `ai/services.py:43`, `settings.py:209`; `orphan`).
- An alert whose pool process is killed is lost without a row in the log
  (`dropped`).
- The page of an issue: a 409 for the run already followed does not restart a cut
  stream; "done" between the save of the run and that of the issue
  (`ai/services.py:82`) leaves the page on "running" until it is read again; a
  late answer of the attaching effect replaces the run that is followed; a ticket
  that is refused is dropped without a word.  `AutofixState` of
  `frontend/lib/types.ts:76` does not have the "mr_created" that the service
  writes.
- Re-activating a channel clears no flag, even by intention.

*Accounts and organizations*
- Two logouts that overlap raise `token_version` once; a profile save that
  overlaps a logout brings the old version back, and with it the sessions
  (`accounts/views.py:142`, `158`).
- Enabling may set the flag over a secret that was generated since the one whose
  code was checked (`accounts/views.py:212`; `overtaken`); a card that shows a
  superseded secret refuses every code until it is loaded again.
- Overlapping verifications each save the attempts they read plus one, so tries
  are not counted and a code can sign in twice (`accounts/otp.py:57`;
  `overlapped`).  The hint "code sent to" shows the field as it is, which can be
  edited while the answer is awaited (`AuthForm.tsx:296`; `edited`).
- A re-invite promises that "only the newest link works"
  (`organizations/views.py:94`); an accept that had read the row saves ACCEPTED
  over it (line 161), so the newest link may be dead.  The invite page tells the
  next account with an address that it has joined by the invite of the account
  that gave the address up (`readdressed`).
- The last owner can be demoted (`organizations/views.py:76`).

*Browser session*
- "then clear locally regardless" (`AuthProvider.tsx:60`): a refresh under way at
  a sign-out stores its pair again afterwards, and so does one that the logout's
  own 401 starts in another tab; a `loadMe` that fails while a refresh is under
  way leaves such a pair too (`crossed`).
- After a quick sign-out and sign-in, a call of the first account that met a 401
  is repeated with the tokens of the second (`crossed`).
- A password change makes requests under way fail, and may sign out a tab that
  refreshes with the old pair (`ended`).
- One refresh that is throttled (ten refreshes and sign-ins a minute from one
  address, `accounts/views.py:119`, `errora/settings.py:271`) or answered with an
  error of the server ends the session in every tab: `doRefresh` clears the store
  on any answer that is not OK (`frontend/lib/api.ts:100`; `ended`).
- The query cache is not cleared at a sign-out: the next account of the tab is
  shown what the last one fetched, until it is fetched again.

*Cache, lists, pickers*
- The name or the retention of an organization is saved and its list refetched
  (`OrgProvider.tsx:23`), not invalidated: when the refetch fails and its retry
  too, the old value stays, and counts as fresh.
- The pairs of `Gaps` stay out of date for 30 seconds, or as long as the screen
  is open.  Switching the organization while a mutation is pending redirects its
  invalidation to the new one (`closure`).
- "keeps a URL offset", "would wipe an offset restored from the URL": the project is not known at the first render of a
  reloaded page, so the effect that skips only the first run drops the offset
  when it arrives (`issues/page.tsx:106`, `logs/page.tsx:81`,
  `performance/page.tsx:49`, `insights/page.tsx:85`), and a shared link opens on the first page.
  `UrlShowsView` says so.
- The delivery log keeps its offset when the organization is switched, and the
  webhooks tab its selected channel (`settings/page.tsx:953`).  A bulk action
  that empties the last page leaves the offset behind its end.
- Assignees are lost when a member is toggled between the answer of a save and
  the refetched row, or by key while a save is pending (`AssignDropdown.tsx:171`;
  `hurried`).
- Spans whose parents form a circle are not drawn (`SpanWaterfall.tsx`).
- A new organization is chosen before the list holds it: until the refetch
  arrives, the dashboard works in the first one, and stays there if it fails
  (`OrgSwitcher.tsx:45`).  A tab moves to the choice of another tab when one of
  its lists changes (`OrgProvider.tsx:33`).
- When a refetch brings an event without the chosen category of breadcrumbs, the
  selection box has no such option and the card says that nothing matches
  (`EventInsights.tsx:396`); open frames keep their flag by number, whatever frame
  is there now (`StackTrace.tsx:52`).  Times that an SDK sends as text are stored
  as they come, and the card then leaves the order of the payload in both
  directions (`EventInsights.tsx:418`): "newest first" has no effect.  With some
  times as text and some as numbers the order is the engine's.
- `ingest/normalize.py:34` keeps the first 250 frames of a trace, which are the
  oldest: a deeper trace loses the frame of the crash before anything looks for
  it.

## 6. Assumptions, bounds and fairness

**The environment.**  PostgreSQL at READ COMMITTED.  A single Redis command is
atomic; Django's `cache.incr` on Redis, an `EXISTS` and an `INCRBY`, is taken as
atomic; its `aincr` is two steps.  Celery acknowledges late
(`CELERY_TASK_ACKS_LATE`, `errora/settings.py:209`), without
`task_reject_on_worker_lost` and with the default prefork pool
(`docker/supervisord.conf:80`).  A worker dies in one of two ways, between any two
steps: the whole worker disappears (its container, its host), and the broker
delivers its task again after the visibility timeout; or a process of the pool is
killed (out of memory, a signal), and the worker that survives it acknowledges
the task, which is lost.  A task that raises is acknowledged and not retried (no
`autoretry_for` on these tasks).  JavaScript runs to its next `await`; React runs
the effects of a change before the next event; EventSource reconnects by itself
and drops nothing.

**The bounds** are constants, and all but the sets appear in a guard.

| Bound | In | Why it is enough |
|---|---|---|
| 2 workers | all but IngestGate and Alerts | each hazard is between two parties; the proofs remove the bound for storage, maintenance, metering and fixes |
| `MaxDeliveries` 2 | IssueStore, AutoFix | one redelivery shows what repeating does; 1 in the safety runs where merge or purge is the other party, whose properties are proved for all values |
| one hazard at a time (`OneHazard`) | `progress` | a merge waits for one thing at a time; a tick (for the purge), a redelivery and the third message are not combined, nothing that fairness drives is bounded, and new issues take the least free id |
| `MaxTime` 1 | IssueStore | an event before and one after a cutoff |
| 3 ids, 3 messages | IssueMaintenance | a target, a source and the issue a late event would create; proved for all values |
| `MaxTime` 3, `Minute` 2 | IngestGate | an entry is filled, expires and is filled again; two rate windows |
| `MaxFill` 1 | IngestGate | a request may hold what it read of the key for a tick; `KeyDecisionFresh` states the bound with it |
| quota 1, limit 1, one item | IngestGate | both limits are reached and exceeded with three requests |
| one toggle, one crash | IngestGate | one change of the key against stale entries; one redelivery at each point of the task; proved for all values |
| `MaxPeriod` 1, `MaxCalls` 4, `MaxEvictions` 1 | UsageMeter | a call and a flush across the end of the month, both workers seeding, a rebuild from the record; proved for all values |
| 1 worker, `MaxRetries` 1 (5 in the code), one crash, one replay | Alerts | tasks share nothing but the tables, which every step reads afresh; a first try, a retry, and a repetition of either |
| `Ttl` 1, `MaxFill` 1, `MaxTime` 2 | Alerts | a flag is filled late, decides for another occurrence, and expires |
| one rule, two changes | Alerts | created and then disabled, deleted or its channel switched; several rules multiply deliveries, not their kinds; proved for all values |
| three shapes, `MaxLost` 1 | FixPage | the fixes alone with two workers; the page with another trigger; the page with a worker that dies: one hazard at a time beside the page; the fixes proved for all values |
| 2 tabs, 3 secrets | TwoFactor | a set-up, one that overtakes it, and one after that; proved for all values |
| 2 forms, 2 addresses, 2 codes, 3 tries, `AttemptLimit` 2 (5 in the code) | OneTimeCodes | a code used up while another is asked for; proved for all values |
| 2 browsers, 2 accounts, 2 invites, 1 crash | Invites | one accepts while the other signs up or the invite is sent again; proved for all values |
| 3 toggles, 2 members, 2 saves under way | Assignees | one member on, one off, and one of them back; proved for all members and toggles |
| 2 organizations of up to 2 projects, 3 acts, 1 mishap | Selection | choose, reload or create, and choose again, with one change by others or one lost answer at any point; proved for all values |
| 2 tabs, 2 accounts, 4 acts, 1 expiry, 1 request lost or refused for want of service | Session | sign in, work, sign out and sign in again as another, or the same in two tabs; an expired token at any point of it; proved for all values |
| 5 acts, 3 rows, pages of 1, 2 projects, 2 searches | ListPages | to the second page, select, change what is listed, and come back; proved for all values |
| 2 writes, 1 failure, 2 moves, a few screens each | QueryCache | a write, another of the same or a conflicting kind, leaving and coming back; proved for all values.  More failures than one may leave an entry old for good, which `EventuallyFresh` excludes |
| 400 days from three starts | Calendar | a whole Jalali year about each kind of leap year, and five years after one; proved for every walk in 1212 to 1627 |
| 3 spans, 2 start times | Waterfall | a chain, siblings, an orphan, a circle; proved for all traces |
| 4 characters of 9 classes, 3 languages | Highlight | a comment or string opened, escaped, cut or closed; proved for all texts |
| 3 frames of 3 kinds or crumbs of 4 kinds, one with its time as text; 2 frames drawn, 1 frame and 2 crumbs copied (40, 20, 12 in the code) | EventView | frames of the app and of libraries in every order, above and below each limit; proved for all values |

Two more bounds are built into the models of the browser and are stated there: a
tab or form has one request of a kind under way, and a page is not left, nor the
profile loaded again, while its own request is under way.

Symmetry is used where no liveness is checked; in `store` it permutes ids and
workers beside the refinement, whose mapping knows neither.  `CHECK_DEADLOCK FALSE`
stands where the bounded system comes to rest, also in `MCStore.cfg`: when the
process that had the only event was killed, there is no issue whose status a user
could set.

**Fairness.**  `FairMaintSpec` is strongly fair to each worker's transaction:
PostgreSQL queues the waiters of a lock, so one that is released again and again
is granted in the end.  A waiting message is taken weakly fairly, and a merge or
purge that has begun goes on (`MaintFairness`, also of `ProgressSpec`).  Nothing makes users click, merges start or workers
crash.  `MCSpec` of `MCFixes` is weakly fair to the triggers, to each worker and
to what page and server answer, not to crashes, presses or lost calls.
`QueryCache` and `Session` are weakly fair to answers: a request that is not lost
is served and its answer handled; losses are bounded, since the code repeats a
request a bounded number of times.

**History variables** (`minted`, `ledger`, `sent`, `told`, `reopened`, `dirty`, `raced`,
`horizon`, `mergeFailed`, `torn`, `lost`, `metered`, `passes`, `undone`,
`backlog`, `awaited`, `again`, `orphan`, `changedAt`, `since`, `switched`, `dropped`,
`rested`, `crossed`, `ended`, `owed`, `verified`, `overtaken`, `overlapped`,
`edited`, `tries`, `uses`, `readdressed`, `meant`, `hurried`, `wish`, `pagedIn`,
`listed`) record what happened for the properties; no guard of the system reads
them, apart from `minted`, which stands for UUIDs and secrets that are never
reused, and `horizon`, which makes purges move forward.  `torn` excludes one case
from `UsageExact`: a key lost while a call or a flush is under way, for which the
code has `cache.set` and accepts the error.  (`torn` of `Alerts` is another
variable and described with it.)

## 7. Not modelled

- The ClickHouse event store.  `IssueStore` is the database backend.
- Fields of issues that `store_event` neither reads nor writes: priority,
  bookmarks, comments, seen marks, external issues.  `QueryCache` knows the
  mutations of them.
- Several projects on the server: the tables are keyed by project first, and no
  transaction here touches two.  A purge is one organization's.
- Ingest of transactions and logs: the same path without metering.  A rate limit
  of 0 and plans without a quota switch the gate off and leave nothing to check.
- Performance and insights: `store_transaction` has the locking of `store_event`;
  spans without an id are inserted again by a redelivery (`insights/extract.py:265`).
- Parsing, normalization, fingerprints, source maps, search queries: a message
  carries its hash.
- Roles, removal of members, projects and keys, personal access tokens, the TOTP
  step at sign-in.
- Deletion of an issue while it is being fixed; the lines of the live log.
- Updates that move an alert rule to another project or event type, rules that
  share a channel, and liveness of retries: their countdown is only a delay.
- Providers, GitLab, mail and SMS: calls that succeed or raise.
- Pages of the browser that only read, the cards of an event other than those of
  `EventView`, forms and their validation, formatting of numbers and dates,
  geometry, colours and texts.
- Deployment, configuration, the admin site and seed commands.

## 8. Plan

Done, in this order: storage with its abstract specification and proofs, merge
and purge, the ingest gate, metering with proofs, auto-fix, alerts; then the
browser's session, the query cache, the paged lists, the page of a fix, the
calendars, the span tree and the tokenizer; then invites, two-factor sign-in and
one-time codes with proofs, and assignees; the choice of organization and
project, and the view of an event; then proofs of signals and counters, of
maintenance, the ingest gate, auto-fix, alerts, invites, assignees, the choice of
organization and project, the session, lists, the query cache, the tokenizer, the
view of an event, the span tree and the calendars.

Next, by importance:

1. **Roles**: the last owner, members who are removed while they act;
   `effective_role` as an operator.
2. **Performance and insights**: `store_transaction` with a subscriber in a
   savepoint; spans replaced under redelivery; percentiles and buckets as
   operators over bounded tables.
3. **Algorithms** of the server against reference definitions: VLQ and segment
   lookup, fingerprints, envelope parsing, the search query, retention cutoffs.
