-------------------------------- MODULE Alerts --------------------------------
(***************************************************************************)
(* Alerts of one organization and one event type                           *)
(* (backend/apps/notifications): a receiver of a domain signal asks a      *)
(* cached flag whether any rule matches, fetches the rules in scope and    *)
(* publishes one delivery for each; a worker sends it through the channel, *)
(* logs it, and has it repeated when sending failed.  Administrators       *)
(* change rules and channels meanwhile.  Each rule has its own channel.    *)
(***************************************************************************)
EXTENDS Integers, FiniteSetsExt

CONSTANTS
  Occurrences,   \* dispatch() calls: occurrences of the event type
  Rules,         \* AlertRule ids
  InScope,       \* pairs <<o, r>>: rule r is global or of the project of o
  Workers,       \* Celery workers of the queue "notifications"
  None,          \* no cached flag
  Ttl,           \* _RULE_FLAG_TTL in ticks
  MaxRetries,    \* max_retries of deliver_notification
  MaxFill,       \* longest time between reading the rules and the cache.set (bound)
  MaxTime,       \* value at which the clock stops (bound)
  MaxChanges,    \* changes of rules and channels (bound)
  MaxCrashes,    \* workers that die (bound)
  MaxReplays     \* deliveries an administrator has replayed (bound)

Alert == Occurrences \X Rules

ASSUME AlertsAssumption ==
  /\ InScope \subseteq Alert
  /\ Ttl \in Nat \ {0} /\ MaxRetries \in Nat /\ MaxFill \in Nat /\ MaxTime \in Nat
  /\ MaxChanges \in Nat /\ MaxCrashes \in Nat /\ MaxReplays \in Nat
  /\ None \notin BOOLEAN \cup Alert

VARIABLES
  rule,      \* AlertRule: absent, enabled, disabled or deleted
  channel,   \* NotificationChannel.is_active of each rule's channel
  flag,      \* Redis: "has this organization a matching rule?"
  dp,        \* the dispatch calls
  queued,    \* waiting messages of each alert, by their number of retries
  wk,        \* the workers
  accepted,  \* messages of each alert that its channel accepted
  attempts,  \* calls of send for each alert
  logged,    \* NotificationLog rows of each alert: successes and failures
  changes, crashes, replays, now,
  since,     \* history: when each rule began to match
  torn,      \* history: a rule changed between a read and a fill of the flag
  switched,  \* history: rules that were disabled or deleted at some time
  dropped    \* history: alerts of which a message was not put back: the broker
             \* was down when it should be repeated, or its process was killed

ruleVars  == <<rule, channel, changes, since, torn, switched>>
sendVars  == <<wk, accepted, attempts, logged, crashes, replays, dropped>>
alertVars == <<ruleVars, sendVars, flag, dp, queued, now>>

NoFlag     == [found |-> None, expires |-> 0]
IdleWorker == [pc |-> "idle", alert |-> None, retries |-> 0]

AlertsInit ==
  /\ rule = [r \in Rules |-> "absent"] /\ channel = [r \in Rules |-> TRUE]
  /\ flag = NoFlag
  /\ dp = [o \in Occurrences |-> [pc |-> "new", at |-> 0, todo |-> {}]]
  /\ queued = [a \in Alert |-> [n \in 0..MaxRetries |-> 0]]
  /\ wk = [w \in Workers |-> IdleWorker]
  /\ accepted = [a \in Alert |-> 0] /\ attempts = [a \in Alert |-> 0]
  /\ logged = [a \in Alert |-> [success |-> 0, failure |-> 0]]
  /\ changes = 0 /\ crashes = 0 /\ replays = 0 /\ now = 0
  /\ since = [r \in Rules |-> 0] /\ torn = FALSE
  /\ switched = {} /\ dropped = {}

(* The filter of both queries: enabled, and the channel is active.         *)
Matching == {r \in Rules : rule[r] = "enabled" /\ channel[r]}

MatchingFor(o) == {r \in Matching : <<o, r>> \in InScope}

-----------------------------------------------------------------------------
(* dispatch and _has_matching_rule.                                        *)

Goes(o, pc) == dp' = [dp EXCEPT ![o].pc = pc]

Decides(o, found) ==
  dp' = [dp EXCEPT ![o].pc = IF found THEN "confirm" ELSE "skipped", ![o].at = now]

(* cache.get: the flag of the last minute decides, or the rules are asked. *)
CheckFlag(o) ==
  /\ dp[o].pc = "new"
  /\ IF flag.found # None /\ now < flag.expires
       THEN Decides(o, flag.found)
       ELSE Goes(o, "read")
  /\ UNCHANGED <<ruleVars, sendVars, flag, queued, now>>

(* exists(): whether any rule matches, whatever its project.               *)
ReadRules(o) ==
  /\ dp[o].pc = "read"
  /\ dp' = [dp EXCEPT ![o].pc = IF Matching # {} THEN "fill_yes" ELSE "fill_no", ![o].at = now]
  /\ UNCHANGED <<ruleVars, sendVars, flag, queued, now>>

Fill(o, found, ttl) ==
  /\ dp[o].pc = IF found THEN "fill_yes" ELSE "fill_no"
  /\ flag' = [found |-> found, expires |-> now + ttl]
  /\ Goes(o, IF found THEN "confirm" ELSE "skipped")
  /\ UNCHANGED <<ruleVars, sendVars, queued, now>>

(* Wrong: a flag that says no is kept twice as long.                       *)
FillFlagLonger(o) == Fill(o, TRUE, Ttl) \/ Fill(o, FALSE, Ttl + Ttl)

(* cache.set with what was read, whatever the rules are by now.            *)
FillFlag(o) == \E found \in BOOLEAN : Fill(o, found, Ttl)

(* rules.exists(), now with the project.                                   *)
ConfirmRules(o) ==
  /\ dp[o].pc = "confirm"
  /\ Goes(o, IF MatchingFor(o) = {} THEN "unmatched" ELSE "fetch")
  /\ UNCHANGED <<ruleVars, sendVars, flag, queued, now>>

FetchRules(o) ==
  /\ dp[o].pc = "fetch"
  /\ dp' = [dp EXCEPT ![o].pc = "publish", ![o].todo = MatchingFor(o)]
  /\ UNCHANGED <<ruleVars, sendVars, flag, queued, now>>

(* delay() for the next rule; without a broker the loop ends here, and the *)
(* exception stops the receivers after this one.                           *)
PublishAlert(o) ==
  /\ dp[o].pc = "publish" /\ dp[o].todo # {}
  /\ \/ \E r \in dp[o].todo :
          /\ queued' = [queued EXCEPT ![<<o, r>>][0] = @ + 1]
          /\ dp' = [dp EXCEPT ![o].todo = @ \ {r}]
     \/ Goes(o, "broken") /\ UNCHANGED queued
  /\ UNCHANGED <<ruleVars, sendVars, flag, now>>

EndDispatch(o) ==
  /\ dp[o].pc = "publish" /\ dp[o].todo = {}
  /\ Goes(o, "published")
  /\ UNCHANGED <<ruleVars, sendVars, flag, queued, now>>

-----------------------------------------------------------------------------
(* Rules and channels.  The receivers that should clear the flag when a    *)
(* rule is saved or deleted are connected weakly to a function local to    *)
(* ready(): when ready() has returned they are gone, and nothing clears it.*)

Changes(r, state, active) ==
  /\ changes < MaxChanges
  /\ changes' = changes + 1
  /\ rule' = [rule EXCEPT ![r] = state]
  /\ channel' = [channel EXCEPT ![r] = active]
  /\ since' = IF r \in Matching THEN since ELSE [since EXCEPT ![r] = now]
  /\ torn' = (torn \/ \E o \in Occurrences : dp[o].pc \in {"fill_yes", "fill_no"})
  /\ switched' = IF state \in {"disabled", "deleted"} THEN switched \cup {r} ELSE switched
  /\ UNCHANGED <<sendVars, flag, dp, queued, now>>

SaveRule(r) ==
  /\ rule[r] # "deleted"
  /\ \E state \in {"enabled", "disabled"} \ {rule[r]} : Changes(r, state, channel[r])

DeleteRule(r) ==
  /\ rule[r] \in {"enabled", "disabled"}
  /\ Changes(r, "deleted", channel[r])

SwitchChannel(r) ==
  /\ rule[r] \in {"enabled", "disabled"}
  /\ Changes(r, rule[r], ~channel[r])

-----------------------------------------------------------------------------
(* deliver_notification.                                                   *)

Steps(w, from, to) == wk[w].pc = from /\ wk' = [wk EXCEPT ![w].pc = to]

Ends(w, from) == wk[w].pc = from /\ wk' = [wk EXCEPT ![w] = IdleWorker]

RuleOf(w) == wk[w].alert[2]

TakeDelivery(w, a, n) ==
  /\ wk[w].pc = "idle" /\ queued[a][n] > 0
  /\ queued' = [queued EXCEPT ![a][n] = @ - 1]
  /\ wk' = [wk EXCEPT ![w] = [pc |-> "load", alert |-> a, retries |-> n]]
  /\ UNCHANGED <<ruleVars, flag, dp, now, accepted, attempts, logged, crashes, replays, dropped>>

(* The rule must still be there and enabled; its channel is not asked.     *)
LoadRule(w) ==
  /\ wk[w].pc = "load"
  /\ IF rule[RuleOf(w)] = "enabled" THEN Steps(w, "load", "send") ELSE Ends(w, "load")
  /\ UNCHANGED <<ruleVars, flag, dp, queued, now, accepted, attempts, logged, crashes, replays, dropped>>

(* The channel accepts the message, or send raises; a message may have     *)
(* been accepted and the answer lost.                                      *)
Send(w) ==
  /\ wk[w].pc = "send"
  /\ attempts' = [attempts EXCEPT ![wk[w].alert] = @ + 1]
  /\ \/ Steps(w, "send", "log_success") /\ accepted' = [accepted EXCEPT ![wk[w].alert] = @ + 1]
     \/ /\ Steps(w, "send", "log_failure")
        /\ accepted' \in {accepted, [accepted EXCEPT ![wk[w].alert] = @ + 1]}
  /\ UNCHANGED <<ruleVars, flag, dp, queued, now, logged, crashes, replays, dropped>>

(* Wrong: success is not logged.                                           *)
LogNoSuccess(w) ==
  /\ Ends(w, "log_success")
  /\ UNCHANGED <<ruleVars, flag, dp, queued, now, accepted, attempts, logged, crashes, replays, dropped>>

(* A log row needs its rule: when the rule was deleted the INSERT fails    *)
(* and the task with it.                                                   *)
LogSuccess(w) ==
  /\ Ends(w, "log_success")
  /\ logged' = IF rule[RuleOf(w)] = "deleted" THEN logged
               ELSE [logged EXCEPT ![wk[w].alert].success = @ + 1]
  /\ UNCHANGED <<ruleVars, flag, dp, queued, now, accepted, attempts, crashes, replays, dropped>>

LogFailure(w) ==
  /\ wk[w].pc = "log_failure"
  /\ IF rule[RuleOf(w)] = "deleted"
       THEN Ends(w, "log_failure") /\ UNCHANGED logged
       ELSE /\ Steps(w, "log_failure", "retry")
            /\ logged' = [logged EXCEPT ![wk[w].alert].failure = @ + 1]
  /\ UNCHANGED <<ruleVars, flag, dp, queued, now, accepted, attempts, crashes, replays, dropped>>

(* Wrong: the first attempt is counted as a retry.                         *)
RetryOnceLess(w) ==
  LET a == wk[w].alert  n == wk[w].retries IN
  /\ \/ /\ Steps(w, "retry", "acknowledge") /\ n + 1 < MaxRetries
        /\ queued' = [queued EXCEPT ![a][n + 1] = @ + 1]
        /\ UNCHANGED dropped
     \/ /\ Ends(w, "retry") /\ n + 1 < MaxRetries
        /\ dropped' = dropped \cup {a} /\ UNCHANGED queued
     \/ Ends(w, "retry") /\ n + 1 >= MaxRetries /\ UNCHANGED <<queued, dropped>>
  /\ UNCHANGED <<ruleVars, flag, dp, now, accepted, attempts, logged, crashes, replays>>

(* self.retry publishes the message again, for later, while retries are    *)
(* left; the broker may be down.                                           *)
Retry(w) ==
  LET a == wk[w].alert  n == wk[w].retries IN
  /\ \/ /\ Steps(w, "retry", "acknowledge") /\ n < MaxRetries
        /\ queued' = [queued EXCEPT ![a][n + 1] = @ + 1]
        /\ UNCHANGED dropped
     \/ /\ Ends(w, "retry") /\ n < MaxRetries
        /\ dropped' = dropped \cup {a} /\ UNCHANGED queued
     \/ Ends(w, "retry") /\ n = MaxRetries /\ UNCHANGED <<queued, dropped>>
  /\ UNCHANGED <<ruleVars, flag, dp, now, accepted, attempts, logged, crashes, replays>>

(* The message that was repeated is acknowledged.                          *)
Acknowledge(w) ==
  /\ Ends(w, "acknowledge")
  /\ UNCHANGED <<ruleVars, flag, dp, queued, now, accepted, attempts, logged, crashes, replays, dropped>>

(* The worker dies.  With its container gone, the broker delivers the      *)
(* message again, and not the one that retry published instead of it; when *)
(* a process of the pool was killed, Celery acknowledges it.               *)
CrashDelivery(w) ==
  /\ crashes < MaxCrashes
  /\ wk[w].pc # "idle"
  /\ \/ /\ queued' = [queued EXCEPT ![wk[w].alert][wk[w].retries] = @ + 1]
        /\ UNCHANGED dropped
     \/ dropped' = dropped \cup {wk[w].alert} /\ UNCHANGED queued
  /\ Ends(w, wk[w].pc)
  /\ crashes' = crashes + 1
  /\ UNCHANGED <<ruleVars, flag, dp, now, accepted, attempts, logged, replays>>

(* NotificationLogReplayView: a logged delivery is published once more.    *)
Replay(a) ==
  /\ replays < MaxReplays
  /\ logged[a].success + logged[a].failure > 0 /\ rule[a[2]] # "deleted"
  /\ queued' = [queued EXCEPT ![a][0] = @ + 1]
  /\ replays' = replays + 1
  /\ UNCHANGED <<ruleVars, flag, dp, now, wk, accepted, attempts, logged, crashes, dropped>>

-----------------------------------------------------------------------------

(* A dispatch whose reading of the rules is MaxFill old fills the flag now.*)
TickAlerts ==
  /\ now < MaxTime
  /\ \A o \in Occurrences : dp[o].pc \in {"fill_yes", "fill_no"} => now < dp[o].at + MaxFill
  /\ now' = now + 1
  /\ UNCHANGED <<ruleVars, sendVars, flag, dp, queued>>

Dispatch(o) ==
  \/ CheckFlag(o) \/ ReadRules(o) \/ FillFlag(o) \/ ConfirmRules(o) \/ FetchRules(o)
  \/ PublishAlert(o) \/ EndDispatch(o)

ChangeRule(r) == SaveRule(r) \/ DeleteRule(r) \/ SwitchChannel(r)

Deliver(w) ==
  LoadRule(w) \/ Send(w) \/ LogSuccess(w) \/ LogFailure(w) \/ Retry(w) \/ Acknowledge(w)

TakeAny(w) == \E a \in Alert, n \in 0..MaxRetries : TakeDelivery(w, a, n)

AlertsNext ==
  \/ \E o \in Occurrences : Dispatch(o)
  \/ \E r \in Rules : ChangeRule(r)
  \/ \E w \in Workers : Deliver(w) \/ TakeAny(w) \/ CrashDelivery(w)
  \/ \E a \in Alert : Replay(a)
  \/ TickAlerts

AlertsSpec == AlertsInit /\ [][AlertsNext]_alertVars

-----------------------------------------------------------------------------
(* Properties.                                                             *)

(* Type invariant of the rules, the flag, the messages and the workers.    *)
AlertsTypeOK ==
  /\ rule \in [Rules -> {"absent", "enabled", "disabled", "deleted"}]
  /\ channel \in [Rules -> BOOLEAN]
  /\ flag \in [found : BOOLEAN \cup {None}, expires : Nat]
  /\ dp \in [Occurrences -> [pc : {"new", "read", "fill_yes", "fill_no", "skipped", "confirm",
                                   "unmatched", "fetch", "publish", "broken", "published"},
                             at : Nat, todo : SUBSET Rules]]
  /\ queued \in [Alert -> [0..MaxRetries -> Nat]]
  /\ wk \in [Workers -> [pc : {"idle", "load", "send", "log_success", "log_failure", "retry",
                               "acknowledge"},
                         alert : Alert \cup {None}, retries : 0..MaxRetries]]
  /\ accepted \in [Alert -> Nat] /\ attempts \in [Alert -> Nat]
  /\ logged \in [Alert -> [success : Nat, failure : Nat]]
  /\ changes \in Nat /\ crashes \in Nat /\ replays \in Nat /\ now \in Nat
  /\ since \in [Rules -> Nat] /\ torn \in BOOLEAN
  /\ switched \subseteq Rules /\ dropped \subseteq Alert

(* An occurrence is dropped by the flag only while the rules that match it *)
(* are younger than the flag may be old: a rule that was created, enabled  *)
(* or given its channel back is honoured from then on.                     *)
HonouredSoon ==
  \A o \in Occurrences, r \in Matching :
    dp[o].pc = "skipped" => dp[o].at < since[r] + Ttl + MaxFill

(* The comment on the receivers: when rules change the flag is kept fresh. *)
(* (Leaves channels out, and changes while a dispatch fills the flag.)     *)
FlagFresh ==
  ~torn /\ (\A r \in Rules : channel[r]) /\ flag.found # None /\ now < flag.expires =>
    flag.found = (Matching # {})

Waiting(a)   == \E n \in 0..MaxRetries : queued[a][n] > 0
Attempted(a) == \E w \in Workers : wk[w].alert = a

(* An alert that was dispatched is not lost silently: it was accepted, is  *)
(* on its way, or has been tried MaxRetries + 1 times.  What loses one is  *)
(* that its rule was switched off, that the broker was down when it should *)
(* be repeated, or that the pool process that had it was killed.           *)
NoSilentLoss ==
  \A o \in Occurrences : dp[o].pc \in {"unmatched", "publish", "published"} =>
    \A r \in MatchingFor(o) \ (dp[o].todo \cup switched) :
      LET a == <<o, r>> IN
      \/ since[r] >= dp[o].at
      \/ accepted[a] > 0 \/ Waiting(a) \/ Attempted(a)
      \/ logged[a].failure > MaxRetries
      \/ a \in dropped

(* The log that administrators see is true: it has a row for each attempt  *)
(* that is over, but for workers that died and rules that were deleted,    *)
(* and a success only for a message that the channel accepted.             *)
LogTruthful ==
  \A a \in Alert :
    /\ logged[a].success <= accepted[a]
    /\ rule[a[2]] # "deleted" =>
         attempts[a] <= logged[a].success + logged[a].failure + crashes
           + Cardinality({w \in Workers : wk[w].alert = a
                                          /\ wk[w].pc \in {"log_success", "log_failure"}})
=============================================================================
