---------------------------- MODULE AlertsProofs ----------------------------
(***************************************************************************)
(* Proofs about Alerts, for any number of occurrences, rules, workers,     *)
(* retries and deaths: a rule is honoured from Ttl and MaxFill on, no      *)
(* alert is lost silently, and the log is true.                            *)
(***************************************************************************)
EXTENDS Alerts, FiniteSetTheorems, TLAPS

DispatchPcs == {"new", "read", "fill_yes", "fill_no", "skipped", "confirm", "unmatched", "fetch",
                "publish", "broken", "published"}
DispatchState == [pc : DispatchPcs, at : Nat, todo : SUBSET Rules]

DeliveryPcs == {"idle", "load", "send", "log_success", "log_failure", "retry", "acknowledge"}
DeliveryState == [pc : DeliveryPcs, alert : Alert \cup {None}, retries : 0..MaxRetries]

(* The workers that have a message; of one alert, those at some places.    *)
Busy == {w \in Workers : wk[w].pc # "idle"}
At(a, S) == {w \in Workers : wk[w].alert = a /\ wk[w].pc \in S}

(* Types with what keeps them: a worker with a message has its alert, only *)
(* finitely many have one, and no dispatch is of the future.               *)
WorkersInv ==
  /\ IsFiniteSet(Busy)
  /\ \A w \in Workers : wk[w].pc # "idle" <=> wk[w].alert \in Alert

AlertsTInv == AlertsTypeOK /\ WorkersInv /\ \A o \in Occurrences : dp[o].at <= now

LEMMA InitAlertsTInv == AlertsInit => AlertsTInv
<1> SUFFICES ASSUME AlertsInit PROVE AlertsTInv
  OBVIOUS
<1>1. Busy = {}
  BY DEF Busy, AlertsInit, IdleWorker
<1>2. IsFiniteSet(Busy)
  BY <1>1, FS_EmptySet
<1>3. WorkersInv
  BY <1>2, AlertsAssumption DEF WorkersInv, AlertsInit, IdleWorker
<1>4. /\ dp \in [Occurrences -> DispatchState] /\ wk \in [Workers -> DeliveryState]
      /\ \A o \in Occurrences : dp[o].at <= now
  <2>1. [pc |-> "new", at |-> 0, todo |-> {}] \in DispatchState /\ IdleWorker \in DeliveryState
    BY AlertsAssumption DEF DispatchState, DispatchPcs, DeliveryState, DeliveryPcs, IdleWorker
  <2> QED BY <2>1 DEF AlertsInit
<1>5. AlertsTypeOK
  <2>1. flag \in [found : BOOLEAN \cup {None}, expires : Nat]
    BY DEF AlertsInit, NoFlag
  <2>2. queued \in [Alert -> [0..MaxRetries -> Nat]] /\ logged \in [Alert -> [success : Nat, failure : Nat]]
    BY DEF AlertsInit
  <2> QED BY <1>4, <2>1, <2>2 DEF AlertsInit, AlertsTypeOK, DispatchState, DispatchPcs, DeliveryState,
             DeliveryPcs
<1> QED BY <1>3, <1>4, <1>5 DEF AlertsTInv

-----------------------------------------------------------------------------
(* A worker that moves on has its place changed and nothing else.          *)
LEMMA StepsMoves ==
  ASSUME AlertsTInv, NEW w \in Workers, NEW from, NEW to \in DeliveryPcs, Steps(w, from, to)
  PROVE  /\ wk[w].pc = from
         /\ wk' \in [Workers -> DeliveryState] /\ wk'[w].pc = to
         /\ wk'[w].alert = wk[w].alert /\ wk'[w].retries = wk[w].retries
         /\ \A v \in Workers \ {w} : wk'[v] = wk[v]
<1>1. wk \in [Workers -> DeliveryState]
  BY DEF AlertsTInv, AlertsTypeOK, DeliveryState, DeliveryPcs
<1> QED BY <1>1 DEF Steps, DeliveryState

LEMMA EndsMoves ==
  ASSUME AlertsTInv, NEW w \in Workers, NEW from, Ends(w, from)
  PROVE  /\ wk[w].pc = from
         /\ wk' \in [Workers -> DeliveryState] /\ wk'[w] = IdleWorker
         /\ wk'[w].pc = "idle" /\ wk'[w].alert = None
         /\ \A v \in Workers \ {w} : wk'[v] = wk[v]
<1>1. wk \in [Workers -> DeliveryState]
  BY DEF AlertsTInv, AlertsTypeOK, DeliveryState, DeliveryPcs
<1>2. IdleWorker \in DeliveryState
  BY AlertsAssumption DEF DeliveryState, DeliveryPcs, IdleWorker
<1> QED BY <1>1, <1>2 DEF Ends, IdleWorker

LEMMA TakeMoves ==
  ASSUME AlertsTInv, NEW w \in Workers, NEW a \in Alert, NEW n \in 0..MaxRetries, TakeDelivery(w, a, n)
  PROVE  /\ wk[w].pc = "idle"
         /\ wk' \in [Workers -> DeliveryState]
         /\ wk'[w].pc = "load" /\ wk'[w].alert = a /\ wk'[w].retries = n
         /\ \A v \in Workers \ {w} : wk'[v] = wk[v]
<1>1. wk \in [Workers -> DeliveryState]
  BY DEF AlertsTInv, AlertsTypeOK, DeliveryState, DeliveryPcs
<1>2. [pc |-> "load", alert |-> a, retries |-> n] \in DeliveryState
  BY DEF DeliveryState, DeliveryPcs
<1> QED BY <1>1, <1>2 DEF TakeDelivery

(* One worker that moves leaves the busy ones finitely many.               *)
LEMMA WorkersKeep ==
  ASSUME AlertsTInv, NEW w \in Workers, wk' \in [Workers -> DeliveryState],
         \A v \in Workers \ {w} : wk'[v] = wk[v],
         wk'[w].pc # "idle" <=> wk'[w].alert \in Alert
  PROVE  WorkersInv'
<1>1. IsFiniteSet(Busy \cup {w})
  BY FS_AddElement DEF AlertsTInv, WorkersInv
<1>2. Busy' \subseteq Busy \cup {w}
  BY DEF Busy
<1>3. IsFiniteSet(Busy')
  BY <1>1, <1>2, FS_Subset
<1> QED BY <1>3 DEF WorkersInv, AlertsTInv

(* The type invariant, by what it says of each counter.                    *)
LEMMA CountersType ==
  ASSUME AlertsTInv
  PROVE  /\ queued \in [Alert -> [0..MaxRetries -> Nat]]
         /\ logged \in [Alert -> [success : Nat, failure : Nat]]
         /\ accepted \in [Alert -> Nat] /\ attempts \in [Alert -> Nat] /\ crashes \in Nat
  BY Zenon DEF AlertsTInv, AlertsTypeOK

(* One message more or less of an alert.                                   *)
LEMMA QueueType ==
  ASSUME AlertsTInv, NEW a \in Alert, NEW n \in 0..MaxRetries, NEW k \in Nat,
         queued' = [queued EXCEPT ![a][n] = k]
  PROVE  /\ queued' \in [Alert -> [0..MaxRetries -> Nat]]
         /\ queued'[a][n] = k
         /\ \A b \in Alert, m \in 0..MaxRetries : b # a \/ m # n => queued'[b][m] = queued[b][m]
  BY CountersType

LEMMA QueueGrows ==
  ASSUME AlertsTInv, NEW a \in Alert, NEW n \in 0..MaxRetries
  PROVE  queued' = [queued EXCEPT ![a][n] = @ + 1] =>
           /\ queued' \in [Alert -> [0..MaxRetries -> Nat]]
           /\ queued'[a][n] = queued[a][n] + 1
           /\ \A b \in Alert, m \in 0..MaxRetries : b # a \/ m # n => queued'[b][m] = queued[b][m]
<1>1. queued \in [Alert -> [0..MaxRetries -> Nat]]
  BY CountersType
<1>2. queued[a] \in [0..MaxRetries -> Nat]
  BY <1>1
<1>3. queued[a][n] \in Nat
  BY <1>2
<1> DEFINE k == queued[a][n] + 1
<1>4. k \in Nat
  BY <1>3
<1> HIDE DEF k
<1>5. queued' = [queued EXCEPT ![a][n] = k] =>
        /\ queued' \in [Alert -> [0..MaxRetries -> Nat]]
        /\ queued'[a][n] = k
        /\ \A b \in Alert, m \in 0..MaxRetries : b # a \/ m # n => queued'[b][m] = queued[b][m]
  <2> SUFFICES ASSUME queued' = [queued EXCEPT ![a][n] = k]
               PROVE  /\ queued' \in [Alert -> [0..MaxRetries -> Nat]]
                      /\ queued'[a][n] = k
                      /\ \A b \in Alert, m \in 0..MaxRetries :
                           b # a \/ m # n => queued'[b][m] = queued[b][m]
    OBVIOUS
  <2> QED BY <1>4, QueueType, ZenonT(60)
<1> QED BY <1>5 DEF k

(* One log row more.                                                       *)
LEMMA SuccessLogged ==
  ASSUME AlertsTInv, NEW a \in Alert, logged' = [logged EXCEPT ![a].success = @ + 1]
  PROVE  /\ logged' \in [Alert -> [success : Nat, failure : Nat]]
         /\ logged'[a].success = logged[a].success + 1 /\ logged'[a].failure = logged[a].failure
         /\ \A b \in Alert \ {a} : logged'[b] = logged[b]
<1>1. logged \in [Alert -> [success : Nat, failure : Nat]]
  BY CountersType
<1> QED BY <1>1

LEMMA FailureLogged ==
  ASSUME AlertsTInv, NEW a \in Alert, logged' = [logged EXCEPT ![a].failure = @ + 1]
  PROVE  /\ logged' \in [Alert -> [success : Nat, failure : Nat]]
         /\ logged'[a].success = logged[a].success /\ logged'[a].failure = logged[a].failure + 1
         /\ \A b \in Alert \ {a} : logged'[b] = logged[b]
<1>1. logged \in [Alert -> [success : Nat, failure : Nat]]
  BY CountersType
<1> QED BY <1>1

(* One attempt more, and perhaps one accepted message.                     *)
LEMMA AttemptCounted ==
  ASSUME AlertsTInv, NEW a \in Alert, attempts' = [attempts EXCEPT ![a] = @ + 1]
  PROVE  /\ attempts' \in [Alert -> Nat] /\ attempts'[a] = attempts[a] + 1
         /\ \A b \in Alert \ {a} : attempts'[b] = attempts[b]
<1>1. attempts \in [Alert -> Nat]
  BY CountersType
<1> QED BY <1>1

LEMMA AcceptCounted ==
  ASSUME AlertsTInv, NEW a \in Alert, accepted' = [accepted EXCEPT ![a] = @ + 1]
  PROVE  /\ accepted' \in [Alert -> Nat] /\ accepted'[a] = accepted[a] + 1
         /\ \A b \in Alert \ {a} : accepted'[b] = accepted[b]
<1>1. accepted \in [Alert -> Nat]
  BY CountersType
<1> QED BY <1>1

(* The three ways a dispatch goes on.                                      *)
LEMMA GoesMoves ==
  ASSUME AlertsTInv, NEW o \in Occurrences, NEW p \in DispatchPcs, Goes(o, p)
  PROVE  /\ dp' \in [Occurrences -> DispatchState] /\ dp'[o].pc = p
         /\ dp'[o].at = dp[o].at /\ dp'[o].todo = dp[o].todo
         /\ \A q \in Occurrences \ {o} : dp'[q] = dp[q]
<1>1. dp \in [Occurrences -> DispatchState]
  BY DEF AlertsTInv, AlertsTypeOK, DispatchState, DispatchPcs
<1> QED BY <1>1 DEF Goes, DispatchState

Timed(o, p, t) == dp' = [dp EXCEPT ![o].pc = p, ![o].at = t]

LEMMA TimedMoves ==
  ASSUME AlertsTInv, NEW o \in Occurrences, NEW p \in DispatchPcs, NEW t \in Nat,
         Timed(o, p, t)
  PROVE  /\ dp' \in [Occurrences -> DispatchState] /\ dp'[o].pc = p
         /\ dp'[o].at = t /\ dp'[o].todo = dp[o].todo
         /\ \A q \in Occurrences \ {o} : dp'[q] = dp[q]
<1>1. dp \in [Occurrences -> DispatchState]
  BY DEF AlertsTInv, AlertsTypeOK, DispatchState, DispatchPcs
<1>2. dp' = [dp EXCEPT ![o] = [dp[o] EXCEPT !.pc = p, !.at = t]]
  BY <1>1 DEF Timed
<1>3. [dp[o] EXCEPT !.pc = p, !.at = t] \in DispatchState
  BY <1>1 DEF DispatchState
<1>4. dp'[o] = [dp[o] EXCEPT !.pc = p, !.at = t] /\ \A q \in Occurrences \ {o} : dp'[q] = dp[q]
  BY <1>1, <1>2
<1>5. dp' \in [Occurrences -> DispatchState]
  BY <1>1, <1>2, <1>3, Zenon
<1> QED BY <1>1, <1>4, <1>5 DEF DispatchState

LEMMA ListedMoves ==
  ASSUME AlertsTInv, NEW o \in Occurrences, NEW p \in DispatchPcs, NEW S \in SUBSET Rules,
         \/ dp' = [dp EXCEPT ![o].pc = p, ![o].todo = S]
         \/ dp' = [dp EXCEPT ![o].todo = S] /\ dp[o].pc = p
  PROVE  /\ dp' \in [Occurrences -> DispatchState] /\ dp'[o].pc = p
         /\ dp'[o].at = dp[o].at /\ dp'[o].todo = S
         /\ \A q \in Occurrences \ {o} : dp'[q] = dp[q]
<1>1. dp \in [Occurrences -> DispatchState]
  BY DEF AlertsTInv, AlertsTypeOK, DispatchState, DispatchPcs
<1>2. dp' = [dp EXCEPT ![o] = [dp[o] EXCEPT !.pc = p, !.todo = S]]
  <2>1. dp[o].pc = p => [dp[o] EXCEPT !.todo = S] = [dp[o] EXCEPT !.pc = p, !.todo = S]
    BY <1>1 DEF DispatchState
  <2> QED BY <1>1, <2>1
<1>3. [dp[o] EXCEPT !.pc = p, !.todo = S] \in DispatchState
  BY <1>1 DEF DispatchState
<1>4. dp'[o] = [dp[o] EXCEPT !.pc = p, !.todo = S] /\ \A q \in Occurrences \ {o} : dp'[q] = dp[q]
  BY <1>1, <1>2
<1>5. dp' \in [Occurrences -> DispatchState]
  BY <1>1, <1>2, <1>3, Zenon
<1> QED BY <1>1, <1>4, <1>5 DEF DispatchState

(* What each step of a dispatch is.                                        *)
LEMMA DispatchCases ==
  ASSUME AlertsTInv, NEW o \in Occurrences, Dispatch(o)
  PROVE  /\ UNCHANGED <<ruleVars, sendVars, now>>
         /\ dp' \in [Occurrences -> DispatchState]
         /\ \A q \in Occurrences \ {o} : dp'[q] = dp[q]
         /\ dp'[o].at \in {dp[o].at, now}
<1>t. now \in Nat /\ dp[o].todo \in SUBSET Rules
  BY DEF AlertsTInv, AlertsTypeOK
<1>1. CASE CheckFlag(o)
  <2>1. CASE flag.found # None /\ now < flag.expires
    <3>1. PICK p \in {"confirm", "skipped"} : Timed(o, p, now)
      BY <1>1, <2>1 DEF CheckFlag, Decides, Timed
    <3> QED BY <1>1, <1>t, <3>1, TimedMoves DEF CheckFlag, DispatchPcs
  <2>2. CASE ~(flag.found # None /\ now < flag.expires)
    BY <1>1, <2>2, GoesMoves DEF CheckFlag, DispatchPcs
  <2> QED BY <2>1, <2>2, Zenon
<1>2. CASE ReadRules(o)
  <2>1. PICK p \in {"fill_yes", "fill_no"} : Timed(o, p, now)
    BY <1>2 DEF ReadRules, Timed
  <2>2. UNCHANGED <<ruleVars, sendVars, now>>
    BY <1>2 DEF ReadRules
  <2>3. p \in DispatchPcs
    BY DEF DispatchPcs
  <2>4. /\ dp' \in [Occurrences -> DispatchState] /\ dp'[o].at = now
        /\ \A q \in Occurrences \ {o} : dp'[q] = dp[q]
    BY <1>t, <2>1, <2>3, TimedMoves
  <2> QED BY <2>2, <2>4
<1>3. CASE FillFlag(o)
  <2>1. PICK p \in {"confirm", "skipped"} : Goes(o, p)
    BY <1>3 DEF FillFlag, Fill
  <2>2. UNCHANGED <<ruleVars, sendVars, now>>
    BY <1>3 DEF FillFlag, Fill
  <2>3. p \in DispatchPcs
    BY DEF DispatchPcs
  <2> QED BY <2>1, <2>2, <2>3, GoesMoves
<1>4. CASE ConfirmRules(o)
  <2>1. PICK p \in {"unmatched", "fetch"} : Goes(o, p)
    BY <1>4 DEF ConfirmRules
  <2> QED BY <1>4, <2>1, GoesMoves DEF ConfirmRules, DispatchPcs
<1>5. CASE FetchRules(o)
  <2>1. MatchingFor(o) \in SUBSET Rules /\ "publish" \in DispatchPcs
    BY DEF MatchingFor, Matching, DispatchPcs
  <2> QED BY <1>5, <2>1, ListedMoves DEF FetchRules
<1>6. CASE PublishAlert(o)
  <2>1. CASE Goes(o, "broken")
    BY <1>6, <2>1, GoesMoves DEF PublishAlert, DispatchPcs
  <2>2. ASSUME NEW r \in dp[o].todo, dp' = [dp EXCEPT ![o].todo = @ \ {r}]
        PROVE  /\ dp' \in [Occurrences -> DispatchState]
               /\ \A q \in Occurrences \ {o} : dp'[q] = dp[q]
               /\ dp'[o].at \in {dp[o].at, now}
    <3>1. dp[o].todo \ {r} \in SUBSET Rules /\ "publish" \in DispatchPcs /\ dp[o].pc = "publish"
      BY <1>t, <1>6 DEF PublishAlert, DispatchPcs
    <3>2. dp' = [dp EXCEPT ![o].todo = dp[o].todo \ {r}]
      BY <2>2
    <3> QED BY <3>1, <3>2, ListedMoves
  <2> QED BY <1>6, <2>1, <2>2 DEF PublishAlert
<1>7. CASE EndDispatch(o)
  BY <1>7, GoesMoves DEF EndDispatch, DispatchPcs
<1> QED BY <1>1, <1>2, <1>3, <1>4, <1>5, <1>6, <1>7 DEF Dispatch

(* What a dispatch does to the flag and to the queue.                      *)
LEMMA DispatchTypes ==
  ASSUME AlertsTInv, NEW o \in Occurrences, Dispatch(o)
  PROVE  /\ flag' \in [found : BOOLEAN \cup {None}, expires : Nat]
         /\ queued' \in [Alert -> [0..MaxRetries -> Nat]]
<1>1. flag \in [found : BOOLEAN \cup {None}, expires : Nat] /\ now \in Nat
      /\ queued \in [Alert -> [0..MaxRetries -> Nat]] /\ Ttl \in Nat
  BY AlertsAssumption DEF AlertsTInv, AlertsTypeOK
<1>2. CASE FillFlag(o)
  <2>1. PICK b \in BOOLEAN : Fill(o, b, Ttl)
    BY <1>2 DEF FillFlag
  <2> QED BY <1>1, <2>1 DEF Fill
<1>3. CASE PublishAlert(o)
  <2>1. ASSUME NEW r \in dp[o].todo, queued' = [queued EXCEPT ![<<o, r>>][0] = @ + 1]
        PROVE  queued' \in [Alert -> [0..MaxRetries -> Nat]]
    <3>1. <<o, r>> \in Alert /\ 0 \in 0..MaxRetries
      BY <2>1, AlertsAssumption DEF Alert, AlertsTInv, AlertsTypeOK
    <3> QED BY <2>1, <3>1, QueueGrows
  <2> QED BY <1>1, <1>3, <2>1 DEF PublishAlert
<1>4. CASE CheckFlag(o) \/ ReadRules(o) \/ ConfirmRules(o) \/ FetchRules(o) \/ EndDispatch(o)
  BY <1>1, <1>4 DEF CheckFlag, ReadRules, ConfirmRules, FetchRules, EndDispatch
<1> QED BY <1>2, <1>3, <1>4 DEF Dispatch

(* A worker's step: what it leaves alone, and the types of what it counts. *)
LEMMA DeliveryTypes ==
  ASSUME AlertsTInv, NEW w \in Workers, Deliver(w) \/ TakeAny(w) \/ CrashDelivery(w)
  PROVE  /\ UNCHANGED <<ruleVars, flag, dp, now, replays>>
         /\ WorkersInv' /\ wk' \in [Workers -> DeliveryState]
         /\ queued' \in [Alert -> [0..MaxRetries -> Nat]]
         /\ accepted' \in [Alert -> Nat] /\ attempts' \in [Alert -> Nat]
         /\ logged' \in [Alert -> [success : Nat, failure : Nat]]
         /\ crashes' \in Nat /\ dropped' \subseteq Alert
<1>t. /\ wk \in [Workers -> DeliveryState]
      /\ queued \in [Alert -> [0..MaxRetries -> Nat]]
      /\ accepted \in [Alert -> Nat] /\ attempts \in [Alert -> Nat]
      /\ logged \in [Alert -> [success : Nat, failure : Nat]]
      /\ crashes \in Nat /\ dropped \subseteq Alert
      /\ WorkersInv /\ MaxRetries \in Nat
  BY AlertsAssumption DEF AlertsTInv, AlertsTypeOK, DeliveryState, DeliveryPcs
<1>a. wk[w].pc # "idle" => wk[w].alert \in Alert
  BY <1>t DEF WorkersInv
<1>r. wk[w].retries \in 0..MaxRetries
  BY <1>t DEF DeliveryState
<1>s. ASSUME NEW from, NEW to \in DeliveryPcs \ {"idle"}, Steps(w, from, to), from # "idle"
      PROVE  WorkersInv' /\ wk' \in [Workers -> DeliveryState]
  BY <1>s, <1>a, StepsMoves, WorkersKeep
<1>e. ASSUME NEW from, Ends(w, from)
      PROVE  WorkersInv' /\ wk' \in [Workers -> DeliveryState]
  BY <1>e, EndsMoves, WorkersKeep, AlertsAssumption
<1>1. CASE TakeAny(w)
  <2>1. PICK a \in Alert, n \in 0..MaxRetries : TakeDelivery(w, a, n)
    BY <1>1 DEF TakeAny
  <2>2. WorkersInv' /\ wk' \in [Workers -> DeliveryState]
    BY <2>1, TakeMoves, WorkersKeep
  <2>3. queued' = [queued EXCEPT ![a][n] = queued[a][n] - 1] /\ queued[a][n] - 1 \in Nat
    BY <1>t, <2>1 DEF TakeDelivery
  <2> QED BY <1>t, <2>1, <2>2, <2>3, QueueType DEF TakeDelivery
<1>2. CASE LoadRule(w)
  <2>1. Steps(w, "load", "send") \/ Ends(w, "load")
    BY <1>2 DEF LoadRule
  <2> QED BY <1>t, <1>2, <1>s, <1>e, <2>1 DEF LoadRule, DeliveryPcs
<1>3. CASE Send(w)
  <2>1. PICK to \in {"log_success", "log_failure"} : Steps(w, "send", to)
    BY <1>3 DEF Send
  <2>2. to \in DeliveryPcs \ {"idle"}
    BY DEF DeliveryPcs
  <2>3. wk[w].alert \in Alert
    BY <1>3, <1>a DEF Send
  <2>4. accepted' \in [Alert -> Nat] /\ attempts' \in [Alert -> Nat]
    BY <1>t, <1>3, <2>3, AttemptCounted, AcceptCounted DEF Send
  <2> QED BY <1>t, <1>3, <1>s, <2>1, <2>2, <2>4 DEF Send
<1>4. CASE LogSuccess(w)
  <2>1. Ends(w, "log_success") /\ wk[w].pc = "log_success"
    BY <1>4 DEF LogSuccess, Ends
  <2>2. logged' \in [Alert -> [success : Nat, failure : Nat]]
    BY <1>t, <1>a, <1>4, <2>1, SuccessLogged DEF LogSuccess
  <2> QED BY <1>t, <1>4, <1>e, <2>1, <2>2 DEF LogSuccess
<1>5. CASE LogFailure(w)
  <2>1. Ends(w, "log_failure") \/ Steps(w, "log_failure", "retry")
    BY <1>5 DEF LogFailure
  <2>2. logged' \in [Alert -> [success : Nat, failure : Nat]]
    <3>1. wk[w].alert \in Alert
      BY <1>5, <1>a DEF LogFailure
    <3> QED BY <1>t, <1>5, <3>1, FailureLogged DEF LogFailure
  <2> QED BY <1>t, <1>5, <1>s, <1>e, <2>1, <2>2 DEF LogFailure, DeliveryPcs
<1>6. CASE Retry(w)
  <2>1. wk[w].pc = "retry" /\ wk[w].alert \in Alert
    BY <1>6, <1>a DEF Retry, Steps, Ends
  <2>2. Steps(w, "retry", "acknowledge") \/ Ends(w, "retry")
    BY <1>6 DEF Retry
  <2>3. WorkersInv' /\ wk' \in [Workers -> DeliveryState]
    BY <1>s, <1>e, <2>2 DEF DeliveryPcs
  <2>4. queued' \in [Alert -> [0..MaxRetries -> Nat]]
    <3>1. CASE UNCHANGED queued
      BY <1>t, <3>1
    <3>2. CASE wk[w].retries < MaxRetries
               /\ queued' = [queued EXCEPT ![wk[w].alert][wk[w].retries + 1] = @ + 1]
      <4>1. wk[w].retries + 1 \in 0..MaxRetries
        BY <1>t, <1>r, <3>2
      <4>2. queued' = [queued EXCEPT ![wk[w].alert][wk[w].retries + 1]
                         = queued[wk[w].alert][wk[w].retries + 1] + 1]
            /\ queued[wk[w].alert][wk[w].retries + 1] + 1 \in Nat
        BY <1>t, <2>1, <3>2, <4>1
      <4> QED BY <2>1, <4>1, <4>2, QueueType
    <3> QED BY <1>6, <3>1, <3>2 DEF Retry
  <2>5. dropped' \subseteq Alert
    BY <1>t, <1>6, <2>1 DEF Retry
  <2> QED BY <1>t, <1>6, <2>3, <2>4, <2>5 DEF Retry
<1>7. CASE Acknowledge(w)
  BY <1>t, <1>7, <1>e DEF Acknowledge
<1>8. CASE CrashDelivery(w)
  <2>1. Ends(w, wk[w].pc) /\ wk[w].alert \in Alert
    BY <1>8, <1>a DEF CrashDelivery
  <2>2. CASE queued' = [queued EXCEPT ![wk[w].alert][wk[w].retries] = @ + 1] /\ UNCHANGED dropped
    <3>1. queued' = [queued EXCEPT ![wk[w].alert][wk[w].retries] = queued[wk[w].alert][wk[w].retries] + 1]
          /\ queued[wk[w].alert][wk[w].retries] + 1 \in Nat
      BY <1>t, <1>r, <2>1, <2>2
    <3>2. queued' \in [Alert -> [0..MaxRetries -> Nat]]
      BY <1>r, <2>1, <3>1, QueueType
    <3> QED BY <1>t, <1>8, <1>e, <2>1, <2>2, <3>2, SMTT(30) DEF CrashDelivery
  <2>3. CASE dropped' = dropped \cup {wk[w].alert} /\ UNCHANGED queued
    BY <1>t, <1>8, <1>e, <2>1, <2>3, SMTT(30) DEF CrashDelivery
  <2> QED BY <1>8, <2>2, <2>3 DEF CrashDelivery
<1> QED BY <1>1, <1>2, <1>3, <1>4, <1>5, <1>6, <1>7, <1>8 DEF Deliver

(* What an administrator does to a rule and its channel.                   *)
LEMMA ChangeCases ==
  ASSUME AlertsTInv, NEW r \in Rules, ChangeRule(r)
  PROVE  \E state \in {"enabled", "disabled", "deleted"}, active \in BOOLEAN :
           Changes(r, state, active) /\ rule[r] # "deleted"
<1>1. channel[r] \in BOOLEAN /\ rule[r] \in {"absent", "enabled", "disabled", "deleted"}
  BY DEF AlertsTInv, AlertsTypeOK
<1>2. CASE SaveRule(r)
  BY <1>1, <1>2 DEF SaveRule
<1>3. CASE DeleteRule(r)
  BY <1>1, <1>3 DEF DeleteRule
<1>4. CASE SwitchChannel(r)
  BY <1>1, <1>4 DEF SwitchChannel
<1> QED BY <1>2, <1>3, <1>4 DEF ChangeRule

LEMMA StepAlertsTInv == AlertsTInv /\ [AlertsNext]_alertVars => AlertsTInv'
<1> SUFFICES ASSUME AlertsTInv, [AlertsNext]_alertVars PROVE AlertsTInv'
  OBVIOUS
<1>t. AlertsTypeOK /\ WorkersInv /\ (\A o \in Occurrences : dp[o].at <= now)
      /\ dp \in [Occurrences -> DispatchState] /\ wk \in [Workers -> DeliveryState]
  BY DEF AlertsTInv, AlertsTypeOK, DispatchState, DispatchPcs, DeliveryState, DeliveryPcs
<1>n. now \in Nat
  BY <1>t DEF AlertsTypeOK
<1>w. UNCHANGED wk => WorkersInv'
  BY <1>t DEF WorkersInv, Busy
<1>1. ASSUME NEW o \in Occurrences, Dispatch(o) PROVE AlertsTInv'
  <2>1. /\ UNCHANGED <<ruleVars, sendVars, now>>
        /\ dp' \in [Occurrences -> DispatchState]
        /\ \A q \in Occurrences \ {o} : dp'[q] = dp[q]
        /\ dp'[o].at \in {dp[o].at, now}
    BY <1>1, DispatchCases
  <2>2. /\ flag' \in [found : BOOLEAN \cup {None}, expires : Nat]
        /\ queued' \in [Alert -> [0..MaxRetries -> Nat]]
    BY <1>1, DispatchTypes
  <2>3. AlertsTypeOK'
    BY <1>t, <2>1, <2>2 DEF AlertsTypeOK, ruleVars, sendVars, DispatchState, DispatchPcs
  <2>4. \A q \in Occurrences : dp'[q].at <= now'
    BY <1>t, <1>n, <2>1
  <2> QED BY <1>w, <2>1, <2>3, <2>4 DEF AlertsTInv, sendVars
<1>2. ASSUME NEW w \in Workers, Deliver(w) \/ TakeAny(w) \/ CrashDelivery(w) PROVE AlertsTInv'
  <2>1. /\ UNCHANGED <<ruleVars, flag, dp, now, replays>>
        /\ WorkersInv' /\ wk' \in [Workers -> DeliveryState]
        /\ queued' \in [Alert -> [0..MaxRetries -> Nat]]
        /\ accepted' \in [Alert -> Nat] /\ attempts' \in [Alert -> Nat]
        /\ logged' \in [Alert -> [success : Nat, failure : Nat]]
        /\ crashes' \in Nat /\ dropped' \subseteq Alert
    BY <1>2, DeliveryTypes
  <2>2. AlertsTypeOK'
    BY <1>t, <2>1 DEF AlertsTypeOK, ruleVars, DeliveryState, DeliveryPcs
  <2> QED BY <1>t, <2>1, <2>2 DEF AlertsTInv
<1>3. ASSUME NEW r \in Rules, ChangeRule(r) PROVE AlertsTInv'
  <2>1. PICK state \in {"enabled", "disabled", "deleted"}, active \in BOOLEAN : Changes(r, state, active)
    BY <1>3, ChangeCases
  <2>2. /\ rule' \in [Rules -> {"absent", "enabled", "disabled", "deleted"}]
        /\ channel' \in [Rules -> BOOLEAN] /\ changes' \in Nat
        /\ since' \in [Rules -> Nat] /\ torn' \in BOOLEAN /\ switched' \subseteq Rules
    BY <1>t, <2>1 DEF Changes, AlertsTypeOK
  <2>3. AlertsTypeOK'
    BY <1>t, <2>1, <2>2 DEF Changes, AlertsTypeOK, sendVars
  <2>4. UNCHANGED <<wk, dp, now>>
    BY <2>1 DEF Changes, sendVars
  <2> QED BY <1>t, <1>w, <2>3, <2>4 DEF AlertsTInv
<1>4. ASSUME NEW a \in Alert, Replay(a) PROVE AlertsTInv'
  <2>1. queued' \in [Alert -> [0..MaxRetries -> Nat]] /\ replays' \in Nat
    <3>1. 0 \in 0..MaxRetries
      BY AlertsAssumption
    <3>2. queued' = [queued EXCEPT ![a][0] = @ + 1]
      BY <1>4 DEF Replay
    <3>3. queued' \in [Alert -> [0..MaxRetries -> Nat]]
      BY <3>1, <3>2, QueueGrows
    <3> QED BY <1>4, <1>t, <3>3 DEF Replay, AlertsTypeOK
  <2>2. AlertsTypeOK'
    BY <1>4, <1>t, <2>1 DEF Replay, AlertsTypeOK, ruleVars
  <2> QED BY <1>4, <1>t, <1>w, <2>2 DEF AlertsTInv, Replay
<1>5. CASE TickAlerts
  <2>1. AlertsTypeOK'
    BY <1>5, <1>t DEF TickAlerts, AlertsTypeOK, ruleVars, sendVars
  <2>2. \A o \in Occurrences : dp[o].at \in Nat
    BY <1>t DEF DispatchState
  <2>3. \A o \in Occurrences : dp'[o].at <= now'
    BY <1>5, <1>t, <1>n, <2>2 DEF TickAlerts
  <2> QED BY <1>5, <1>w, <2>1, <2>3 DEF AlertsTInv, TickAlerts, sendVars
<1>6. CASE UNCHANGED alertVars
  <2>1. AlertsTypeOK'
    BY <1>6, <1>t DEF alertVars, AlertsTypeOK, ruleVars, sendVars
  <2>2. UNCHANGED <<wk, dp, now>>
    BY <1>6 DEF alertVars, sendVars
  <2> QED BY <1>t, <1>w, <2>1, <2>2 DEF AlertsTInv
<1> QED BY <1>1, <1>2, <1>3, <1>4, <1>5, <1>6 DEF AlertsNext

(* Every reachable state of the alerts is well typed.                      *)
THEOREM AlertsTypesCorrect == AlertsSpec => []AlertsTypeOK
<1>1. AlertsSpec => []AlertsTInv
  BY InitAlertsTInv, StepAlertsTInv, PTL DEF AlertsSpec
<1>2. AlertsTInv => AlertsTypeOK
  BY DEF AlertsTInv
<1> QED BY <1>1, <1>2, PTL

-----------------------------------------------------------------------------
(* A rule is honoured.  A flag that says no expires by Ttl and MaxFill     *)
(* after any rule that matches began to: it was read while none matched.   *)
FlagInv ==
  /\ flag.expires <= now + Ttl
  /\ flag.found = FALSE => \A r \in Matching : flag.expires <= since[r] + MaxFill + Ttl

FillInv(o) ==
  /\ dp[o].pc \in {"fill_yes", "fill_no"} => now <= dp[o].at + MaxFill
  /\ dp[o].pc = "fill_no" => \A r \in Matching : dp[o].at <= since[r]

HonourInv == FlagInv /\ HonouredSoon /\ \A o \in Occurrences : FillInv(o)

LEMMA InitHonourInv == AlertsInit => HonourInv
<1> SUFFICES ASSUME AlertsInit PROVE HonourInv
  OBVIOUS
<1>1. Matching = {} /\ flag.found # FALSE /\ flag.expires = 0 /\ now = 0
  BY AlertsAssumption DEF AlertsInit, Matching, NoFlag
<1>2. \A o \in Occurrences : dp[o].pc = "new"
  BY DEF AlertsInit
<1> QED BY <1>1, <1>2, AlertsAssumption DEF HonourInv, FlagInv, FillInv, HonouredSoon

(* The numbers that are compared.                                          *)
LEMMA Numbers ==
  ASSUME AlertsTInv
  PROVE  /\ now \in Nat /\ Ttl \in Nat \ {0} /\ MaxFill \in Nat
         /\ flag.expires \in Nat /\ flag.found \in BOOLEAN \cup {None}
         /\ \A r \in Rules : since[r] \in Nat
         /\ \A o \in Occurrences : dp[o].at \in Nat /\ dp[o].at <= now
         /\ Matching \subseteq Rules
  BY AlertsAssumption DEF AlertsTInv, AlertsTypeOK, Matching

(* A dispatch that does not fill the flag, and is not dropped by it.       *)
LEMMA DispatchHonours ==
  ASSUME AlertsTInv, HonourInv, NEW o \in Occurrences, Dispatch(o)
  PROVE  HonourInv'
<1>n. /\ now \in Nat /\ Ttl \in Nat \ {0} /\ MaxFill \in Nat
      /\ flag.expires \in Nat /\ flag.found \in BOOLEAN \cup {None}
      /\ \A r \in Rules : since[r] \in Nat
      /\ \A q \in Occurrences : dp[q].at \in Nat /\ dp[q].at <= now
      /\ Matching \subseteq Rules
  BY Numbers
<1>0. /\ UNCHANGED <<ruleVars, sendVars, now>>
      /\ dp' \in [Occurrences -> DispatchState]
      /\ \A q \in Occurrences \ {o} : dp'[q] = dp[q]
      /\ dp'[o].at \in {dp[o].at, now}
  BY DispatchCases
<1>m. UNCHANGED <<Matching, since, now>>
  BY <1>0 DEF Matching, ruleVars
<1>q. ASSUME FlagInv', FillInv(o)',
             \A r \in Matching : dp'[o].pc = "skipped" => dp'[o].at < since[r] + Ttl + MaxFill
      PROVE  HonourInv'
  <2>1. \A q \in Occurrences \ {o} : FillInv(q)'
    BY <1>0, <1>m DEF HonourInv, FillInv
  <2>2. HonouredSoon'
    BY <1>0, <1>m, <1>q DEF HonourInv, HonouredSoon
  <2> QED BY <1>q, <2>1, <2>2 DEF HonourInv
<1>f. UNCHANGED flag => FlagInv'
  BY <1>m DEF HonourInv, FlagInv
<1>1. CASE CheckFlag(o)
  <2>1. CASE flag.found # None /\ now < flag.expires
    <3>1. Timed(o, IF flag.found THEN "confirm" ELSE "skipped", now)
      BY <1>1, <2>1 DEF CheckFlag, Decides, Timed
    <3>2. CASE flag.found = TRUE
      <4>1. Timed(o, "confirm", now) /\ "confirm" \in DispatchPcs
        BY <3>1, <3>2 DEF DispatchPcs
      <4>2. dp'[o].pc = "confirm"
        BY <1>n, <4>1, TimedMoves
      <4>3. FillInv(o)'
        BY <4>2 DEF FillInv
      <4> QED BY <1>1, <1>f, <1>q, <4>2, <4>3 DEF CheckFlag
    <3>3. CASE flag.found = FALSE
      <4>1. Timed(o, "skipped", now) /\ "skipped" \in DispatchPcs
        BY <3>1, <3>3 DEF DispatchPcs
      <4>2. dp'[o].pc = "skipped" /\ dp'[o].at = now
        BY <1>n, <4>1, TimedMoves
      <4>3. FillInv(o)'
        BY <4>2 DEF FillInv
      <4>4. \A r \in Matching : now < since[r] + Ttl + MaxFill
        BY <1>n, <2>1, <3>3 DEF HonourInv, FlagInv
      <4> QED BY <1>1, <1>f, <1>q, <4>2, <4>3, <4>4 DEF CheckFlag
    <3> QED BY <1>n, <2>1, <3>2, <3>3
  <2>2. CASE ~(flag.found # None /\ now < flag.expires)
    <3>1. Goes(o, "read") /\ UNCHANGED flag /\ "read" \in DispatchPcs
      BY <1>1, <2>2 DEF CheckFlag, DispatchPcs
    <3>2. dp'[o].pc = "read"
      BY <3>1, GoesMoves
    <3>3. FillInv(o)'
      BY <3>2 DEF FillInv
    <3> QED BY <1>f, <1>q, <3>1, <3>2, <3>3
  <2> QED BY <2>1, <2>2, Zenon
<1>2. CASE ReadRules(o)
  <2>1. UNCHANGED flag
    BY <1>2 DEF ReadRules
  <2>2. CASE Matching # {}
    <3>1. Timed(o, "fill_yes", now) /\ "fill_yes" \in DispatchPcs
      BY <1>2, <2>2 DEF ReadRules, Timed, DispatchPcs
    <3>2. dp'[o].pc = "fill_yes" /\ dp'[o].at = now
      BY <1>n, <3>1, TimedMoves
    <3>3. FillInv(o)'
      BY <1>n, <1>m, <3>2 DEF FillInv
    <3> QED BY <1>f, <1>q, <2>1, <3>2, <3>3
  <2>3. CASE Matching = {}
    <3>1. Timed(o, "fill_no", now) /\ "fill_no" \in DispatchPcs
      BY <1>2, <2>3 DEF ReadRules, Timed, DispatchPcs
    <3>2. dp'[o].pc = "fill_no" /\ dp'[o].at = now
      BY <1>n, <3>1, TimedMoves
    <3>3. FillInv(o)'
      BY <1>n, <1>m, <2>3, <3>2 DEF FillInv
    <3> QED BY <1>f, <1>q, <2>1, <3>2, <3>3
  <2> QED BY <2>2, <2>3
<1>3. CASE FillFlag(o)
  <2>1. PICK found \in BOOLEAN : Fill(o, found, Ttl)
    BY <1>3 DEF FillFlag
  <2>2. flag'.found = found /\ flag'.expires = now + Ttl
    BY <2>1 DEF Fill
  <2>3. CASE found = TRUE
    <3>1. Goes(o, "confirm") /\ "confirm" \in DispatchPcs
      BY <2>1, <2>3 DEF Fill, DispatchPcs
    <3>2. dp'[o].pc = "confirm"
      BY <3>1, GoesMoves
    <3>3. FillInv(o)' /\ FlagInv'
      BY <1>n, <1>m, <2>2, <2>3, <3>2 DEF FillInv, FlagInv
    <3> QED BY <1>q, <3>2, <3>3
  <2>4. CASE found = FALSE
    <3>1. Goes(o, "skipped") /\ "skipped" \in DispatchPcs /\ dp[o].pc = "fill_no"
      BY <2>1, <2>4 DEF Fill, DispatchPcs
    <3>2. dp'[o].pc = "skipped" /\ dp'[o].at = dp[o].at
      BY <3>1, GoesMoves
    <3>3. now <= dp[o].at + MaxFill /\ \A r \in Matching : dp[o].at <= since[r]
      BY <3>1 DEF HonourInv, FillInv
    <3>4. \A r \in Matching : now + Ttl <= since[r] + MaxFill + Ttl /\ dp[o].at < since[r] + Ttl + MaxFill
      BY <1>n, <3>3
    <3>5. FillInv(o)'
      BY <3>2 DEF FillInv
    <3>6. FlagInv'
      BY <1>n, <1>m, <2>2, <3>4 DEF FlagInv
    <3> QED BY <1>q, <3>2, <3>4, <3>5, <3>6
  <2> QED BY <2>3, <2>4
<1>4. CASE ConfirmRules(o) \/ FetchRules(o) \/ PublishAlert(o) \/ EndDispatch(o)
  <2>1. UNCHANGED flag
    BY <1>4 DEF ConfirmRules, FetchRules, PublishAlert, EndDispatch
  <2>2. dp'[o].pc \in {"unmatched", "fetch", "publish", "broken", "published"}
    <3>1. CASE ConfirmRules(o)
      <4>1. PICK p \in {"unmatched", "fetch"} : Goes(o, p)
        BY <3>1 DEF ConfirmRules
      <4>2. p \in DispatchPcs
        BY DEF DispatchPcs
      <4> QED BY <4>1, <4>2, GoesMoves
    <3>2. CASE FetchRules(o)
      <4>1. MatchingFor(o) \in SUBSET Rules /\ "publish" \in DispatchPcs
        BY DEF MatchingFor, Matching, DispatchPcs
      <4> QED BY <3>2, <4>1, ListedMoves DEF FetchRules
    <3>3. CASE PublishAlert(o)
      <4>1. CASE Goes(o, "broken")
        BY <4>1, GoesMoves DEF DispatchPcs
      <4>2. ASSUME NEW r \in dp[o].todo, dp' = [dp EXCEPT ![o].todo = @ \ {r}]
            PROVE  dp'[o].pc = "publish"
        BY <3>3, <4>2 DEF PublishAlert, AlertsTInv, AlertsTypeOK
      <4> QED BY <3>3, <4>1, <4>2 DEF PublishAlert
    <3>4. CASE EndDispatch(o)
      BY <3>4, GoesMoves DEF EndDispatch, DispatchPcs
    <3> QED BY <1>4, <3>1, <3>2, <3>3, <3>4
  <2>3. FillInv(o)'
    BY <2>2 DEF FillInv
  <2> QED BY <1>f, <1>q, <2>1, <2>2, <2>3
<1> QED BY <1>1, <1>2, <1>3, <1>4 DEF Dispatch

(* A rule that begins to match does so now, and no flag is older.          *)
LEMMA ChangeHonours ==
  ASSUME AlertsTInv, HonourInv, NEW r \in Rules, ChangeRule(r)
  PROVE  HonourInv'
<1>n. /\ now \in Nat /\ Ttl \in Nat \ {0} /\ MaxFill \in Nat
      /\ flag.expires \in Nat /\ flag.found \in BOOLEAN \cup {None}
      /\ \A s \in Rules : since[s] \in Nat
      /\ \A q \in Occurrences : dp[q].at \in Nat /\ dp[q].at <= now
      /\ Matching \subseteq Rules
  BY Numbers
<1>1. PICK state \in {"enabled", "disabled", "deleted"}, active \in BOOLEAN : Changes(r, state, active)
  BY ChangeCases
<1>2. UNCHANGED <<flag, dp, now>>
  BY <1>1 DEF Changes
<1>3. since \in [Rules -> Nat] /\ rule \in [Rules -> {"absent", "enabled", "disabled", "deleted"}]
      /\ channel \in [Rules -> BOOLEAN]
  BY DEF AlertsTInv, AlertsTypeOK
<1>4. \A s \in Matching' : (s \in Matching /\ since'[s] = since[s]) \/ since'[s] = now
  BY <1>1, <1>3 DEF Changes, Matching
<1>5. FlagInv'
  BY <1>n, <1>2, <1>4 DEF HonourInv, FlagInv
<1>6. \A o \in Occurrences : FillInv(o)'
  BY <1>n, <1>2, <1>4 DEF HonourInv, FillInv
<1>7. HonouredSoon'
  BY <1>n, <1>2, <1>4 DEF HonourInv, HonouredSoon
<1> QED BY <1>5, <1>6, <1>7 DEF HonourInv

LEMMA StepHonourInv == AlertsTInv /\ HonourInv /\ [AlertsNext]_alertVars => HonourInv'
<1> SUFFICES ASSUME AlertsTInv, HonourInv, [AlertsNext]_alertVars PROVE HonourInv'
  OBVIOUS
<1>s. UNCHANGED <<rule, channel, since, flag, dp, now>> => HonourInv'
  BY DEF HonourInv, FlagInv, FillInv, HonouredSoon, Matching
<1>1. ASSUME NEW w \in Workers, Deliver(w) \/ TakeAny(w) \/ CrashDelivery(w) PROVE HonourInv'
  BY <1>1, <1>s, DeliveryTypes DEF ruleVars
<1>2. ASSUME NEW a \in Alert, Replay(a) PROVE HonourInv'
  BY <1>2, <1>s DEF Replay, ruleVars
<1>3. CASE TickAlerts
  <2>1. UNCHANGED <<rule, channel, since, flag, dp, Matching>>
    BY <1>3 DEF TickAlerts, ruleVars, Matching
  <2>2. now \in Nat /\ MaxFill \in Nat /\ Ttl \in Nat /\ flag.expires \in Nat
        /\ \A o \in Occurrences : dp[o].at \in Nat
    BY Numbers
  <2>3. now' = now + 1
        /\ \A o \in Occurrences : dp[o].pc \in {"fill_yes", "fill_no"} => now < dp[o].at + MaxFill
    BY <1>3 DEF TickAlerts
  <2>4. FlagInv'
    BY <2>1, <2>2, <2>3 DEF HonourInv, FlagInv
  <2>5. \A o \in Occurrences : FillInv(o)'
    BY <2>1, <2>2, <2>3 DEF HonourInv, FillInv
  <2>6. HonouredSoon'
    BY <2>1 DEF HonourInv, HonouredSoon
  <2> QED BY <2>4, <2>5, <2>6 DEF HonourInv
<1>4. CASE UNCHANGED alertVars
  BY <1>4, <1>s DEF alertVars, ruleVars
<1> QED BY <1>1, <1>2, <1>3, <1>4, DispatchHonours, ChangeHonours DEF AlertsNext

(* An occurrence is dropped by the flag only while the rules that match it *)
(* have matched for less than Ttl and MaxFill.                             *)
THEOREM RulesHonoured == AlertsSpec => []HonouredSoon
<1>1. AlertsTInv /\ HonourInv /\ [AlertsNext]_alertVars => (AlertsTInv /\ HonourInv)'
  BY StepAlertsTInv, StepHonourInv
<1>2. AlertsSpec => [](AlertsTInv /\ HonourInv)
  BY <1>1, InitAlertsTInv, InitHonourInv, PTL DEF AlertsSpec
<1>3. HonourInv => HonouredSoon
  BY DEF HonourInv
<1> QED BY <1>2, <1>3, PTL

-----------------------------------------------------------------------------
(* The steps of a worker, by what they do to each alert.                   *)
LEMMA Amounts ==
  ASSUME AlertsTInv, NEW a \in Alert
  PROVE  /\ accepted[a] \in Nat /\ attempts[a] \in Nat
         /\ logged[a].success \in Nat /\ logged[a].failure \in Nat
         /\ \A n \in 0..MaxRetries : queued[a][n] \in Nat
         /\ crashes \in Nat /\ MaxRetries \in Nat
         /\ \A w \in Workers : wk[w].retries \in 0..MaxRetries
<1>1. wk \in [Workers -> DeliveryState]
  BY DEF AlertsTInv, AlertsTypeOK, DeliveryState, DeliveryPcs
<1>2. \A w \in Workers : wk[w].retries \in 0..MaxRetries
  BY <1>1 DEF DeliveryState
<1> QED BY <1>2, CountersType, AlertsAssumption

(* Every message counted, when one is published.                           *)
LEMMA QueueCounts ==
  ASSUME AlertsTInv, NEW b \in Alert, NEW k \in 0..MaxRetries
  PROVE  queued' = [queued EXCEPT ![b][k] = @ + 1] =>
           \A a \in Alert, m \in 0..MaxRetries :
             queued'[a][m] = IF a = b /\ m = k THEN queued[a][m] + 1 ELSE queued[a][m]
<1> DEFINE grows == queued' = [queued EXCEPT ![b][k] = @ + 1]
<1>1. grows => /\ queued'[b][k] = queued[b][k] + 1
               /\ \A a \in Alert, m \in 0..MaxRetries : a # b \/ m # k => queued'[a][m] = queued[a][m]
  BY QueueGrows
<1> HIDE DEF grows
<1>2. grows => \A a \in Alert, m \in 0..MaxRetries :
                 queued'[a][m] = IF a = b /\ m = k THEN queued[a][m] + 1 ELSE queued[a][m]
  BY <1>1
<1> QED BY <1>2 DEF grows

LEMMA TakeEffect ==
  ASSUME AlertsTInv, NEW w \in Workers, NEW b \in Alert, NEW n \in 0..MaxRetries, TakeDelivery(w, b, n)
  PROVE  /\ UNCHANGED <<rule, accepted, attempts, logged, crashes, dropped>>
         /\ queued[b][n] > 0
         /\ \A a \in Alert, m \in 0..MaxRetries :
              queued'[a][m] = IF a = b /\ m = n THEN queued[a][m] - 1 ELSE queued[a][m]
<1>1. queued \in [Alert -> [0..MaxRetries -> Nat]]
  BY CountersType
<1>2. queued[b][n] > 0 /\ queued[b][n] \in Nat
  BY <1>1 DEF TakeDelivery
<1> DEFINE k == queued[b][n] - 1
<1>3. k \in Nat
  BY <1>2
<1>4. queued' = [queued EXCEPT ![b][n] = k]
  BY DEF TakeDelivery
<1>5. UNCHANGED <<rule, accepted, attempts, logged, crashes, dropped>>
  BY DEF TakeDelivery, ruleVars
<1> HIDE DEF k
<1>6. queued'[b][n] = k
      /\ \A a \in Alert, m \in 0..MaxRetries : a # b \/ m # n => queued'[a][m] = queued[a][m]
  BY <1>3, <1>4, QueueType, ZenonT(60)
<1> QED BY <1>2, <1>5, <1>6 DEF k

LEMMA SendEffect ==
  ASSUME AlertsTInv, NEW w \in Workers, Send(w)
  PROVE  /\ wk[w].alert \in Alert
         /\ UNCHANGED <<rule, queued, logged, crashes, dropped>>
         /\ \A a \in Alert :
              /\ attempts'[a] = IF a = wk[w].alert THEN attempts[a] + 1 ELSE attempts[a]
              /\ accepted'[a] >= accepted[a]
         /\ \/ Steps(w, "send", "log_success") /\ accepted'[wk[w].alert] = accepted[wk[w].alert] + 1
            \/ Steps(w, "send", "log_failure")
<1>1. wk[w].alert \in Alert
  BY DEF Send, AlertsTInv, WorkersInv
<1>2. UNCHANGED <<rule, queued, logged, crashes, dropped>>
  BY DEF Send, ruleVars
<1>3. \A a \in Alert : attempts'[a] = IF a = wk[w].alert THEN attempts[a] + 1 ELSE attempts[a]
  BY <1>1, AttemptCounted DEF Send
<1>4. accepted' = [accepted EXCEPT ![wk[w].alert] = @ + 1] =>
        \A a \in Alert : accepted'[a] = IF a = wk[w].alert THEN accepted[a] + 1 ELSE accepted[a]
  BY <1>1, AcceptCounted
<1>5. \A a \in Alert : accepted[a] \in Nat
  BY Amounts
<1>6. accepted' \in {accepted, [accepted EXCEPT ![wk[w].alert] = @ + 1]}
  BY DEF Send
<1>7. \A a \in Alert : accepted'[a] >= accepted[a]
  BY <1>4, <1>5, <1>6
<1>8. \/ Steps(w, "send", "log_success") /\ accepted'[wk[w].alert] = accepted[wk[w].alert] + 1
      \/ Steps(w, "send", "log_failure")
  BY <1>1, <1>4 DEF Send
<1> QED BY <1>1, <1>2, <1>3, <1>7, <1>8

LEMMA LogSuccessEffect ==
  ASSUME AlertsTInv, NEW w \in Workers, LogSuccess(w)
  PROVE  /\ wk[w].alert \in Alert /\ Ends(w, "log_success")
         /\ UNCHANGED <<rule, queued, accepted, attempts, crashes, dropped>>
         /\ \A a \in Alert :
              /\ logged'[a].failure = logged[a].failure
              /\ logged'[a].success = IF a = wk[w].alert /\ rule[a[2]] # "deleted"
                                        THEN logged[a].success + 1 ELSE logged[a].success
<1>1. wk[w].alert \in Alert /\ Ends(w, "log_success")
  BY DEF LogSuccess, Ends, AlertsTInv, WorkersInv
<1>2. UNCHANGED <<rule, queued, accepted, attempts, crashes, dropped>>
  BY DEF LogSuccess, ruleVars
<1>3. CASE rule[RuleOf(w)] = "deleted"
  BY <1>1, <1>2, <1>3 DEF LogSuccess, RuleOf
<1>4. CASE rule[RuleOf(w)] # "deleted"
  <2>1. logged' = [logged EXCEPT ![wk[w].alert].success = @ + 1]
    BY <1>4 DEF LogSuccess
  <2> QED BY <1>1, <1>2, <1>4, <2>1, SuccessLogged DEF RuleOf
<1> QED BY <1>3, <1>4

LEMMA LogFailureEffect ==
  ASSUME AlertsTInv, NEW w \in Workers, LogFailure(w)
  PROVE  /\ wk[w].alert \in Alert
         /\ UNCHANGED <<rule, queued, accepted, attempts, crashes, dropped>>
         /\ IF rule[wk[w].alert[2]] = "deleted"
              THEN Ends(w, "log_failure") /\ UNCHANGED logged
              ELSE /\ Steps(w, "log_failure", "retry")
                   /\ \A a \in Alert :
                        /\ logged'[a].success = logged[a].success
                        /\ logged'[a].failure = IF a = wk[w].alert THEN logged[a].failure + 1
                                                ELSE logged[a].failure
<1>1. wk[w].alert \in Alert
  BY DEF LogFailure, AlertsTInv, WorkersInv
<1>2. UNCHANGED <<rule, queued, accepted, attempts, crashes, dropped>>
  BY DEF LogFailure, ruleVars
<1>3. CASE rule[RuleOf(w)] = "deleted"
  BY <1>1, <1>2, <1>3 DEF LogFailure, RuleOf
<1>4. CASE rule[RuleOf(w)] # "deleted"
  <2>1. logged' = [logged EXCEPT ![wk[w].alert].failure = @ + 1] /\ Steps(w, "log_failure", "retry")
    BY <1>4 DEF LogFailure
  <2> QED BY <1>1, <1>2, <1>4, <2>1, FailureLogged DEF RuleOf
<1> QED BY <1>3, <1>4

LEMMA RetryEffect ==
  ASSUME AlertsTInv, NEW w \in Workers, Retry(w)
  PROVE  /\ wk[w].alert \in Alert /\ wk[w].pc = "retry"
         /\ UNCHANGED <<rule, accepted, attempts, logged, crashes>>
         /\ \/ /\ Steps(w, "retry", "acknowledge") /\ UNCHANGED dropped
               /\ wk[w].retries + 1 \in 0..MaxRetries
               /\ \A a \in Alert, m \in 0..MaxRetries :
                    queued'[a][m] = IF a = wk[w].alert /\ m = wk[w].retries + 1
                                      THEN queued[a][m] + 1 ELSE queued[a][m]
            \/ /\ Ends(w, "retry") /\ UNCHANGED queued
               /\ dropped' = dropped \cup {wk[w].alert}
            \/ /\ Ends(w, "retry") /\ UNCHANGED <<queued, dropped>>
               /\ wk[w].retries = MaxRetries
<1>1. wk[w].alert \in Alert /\ wk[w].pc = "retry"
  BY DEF Retry, Steps, Ends, AlertsTInv, WorkersInv
<1>2. UNCHANGED <<rule, accepted, attempts, logged, crashes>>
  BY DEF Retry, ruleVars
<1>3. ASSUME wk[w].retries < MaxRetries
      PROVE  /\ wk[w].retries + 1 \in 0..MaxRetries
             /\ queued' = [queued EXCEPT ![wk[w].alert][wk[w].retries + 1] = @ + 1] =>
                  \A a \in Alert, m \in 0..MaxRetries :
                    queued'[a][m] = IF a = wk[w].alert /\ m = wk[w].retries + 1
                                      THEN queued[a][m] + 1 ELSE queued[a][m]
  <2>1. wk[w].retries + 1 \in 0..MaxRetries
    BY <1>1, <1>3, Amounts
  <2> DEFINE b == wk[w].alert  k == wk[w].retries + 1
  <2>2. b \in Alert /\ k \in 0..MaxRetries
    BY <1>1, <2>1
  <2> HIDE DEF b, k
  <2>3. queued' = [queued EXCEPT ![b][k] = @ + 1] =>
          \A a \in Alert, m \in 0..MaxRetries :
            queued'[a][m] = IF a = b /\ m = k THEN queued[a][m] + 1 ELSE queued[a][m]
    BY <2>2, QueueCounts, ZenonT(60)
  <2> QED BY <2>1, <2>3, Zenon DEF b, k
<1> QED BY <1>1, <1>2, <1>3 DEF Retry

LEMMA CrashEffect ==
  ASSUME AlertsTInv, NEW w \in Workers, CrashDelivery(w)
  PROVE  /\ wk[w].alert \in Alert /\ Ends(w, wk[w].pc)
         /\ UNCHANGED <<rule, accepted, attempts, logged>> /\ crashes' = crashes + 1
         /\ \/ dropped' = dropped \cup {wk[w].alert} /\ UNCHANGED queued
            \/ /\ UNCHANGED dropped
               /\ \A a \in Alert, m \in 0..MaxRetries :
                    queued'[a][m] = IF a = wk[w].alert /\ m = wk[w].retries
                                      THEN queued[a][m] + 1 ELSE queued[a][m]
<1>1. wk[w].alert \in Alert /\ Ends(w, wk[w].pc)
  BY DEF CrashDelivery, AlertsTInv, WorkersInv
<1>2. UNCHANGED <<rule, accepted, attempts, logged>> /\ crashes' = crashes + 1
  BY DEF CrashDelivery, ruleVars
<1>3. wk[w].retries \in 0..MaxRetries
  BY <1>1, Amounts
<1> DEFINE b == wk[w].alert  k == wk[w].retries
<1>4. b \in Alert /\ k \in 0..MaxRetries
  BY <1>1, <1>3
<1> HIDE DEF b, k
<1>5. queued' = [queued EXCEPT ![b][k] = @ + 1] =>
        \A a \in Alert, m \in 0..MaxRetries :
          queued'[a][m] = IF a = b /\ m = k THEN queued[a][m] + 1 ELSE queued[a][m]
  BY <1>4, QueueCounts, ZenonT(60)
<1>6. \/ queued' = [queued EXCEPT ![b][k] = @ + 1] /\ UNCHANGED dropped
      \/ dropped' = dropped \cup {b} /\ UNCHANGED queued
  BY DEF CrashDelivery, b, k
<1>7. \/ dropped' = dropped \cup {b} /\ UNCHANGED queued
      \/ /\ UNCHANGED dropped
         /\ \A a \in Alert, m \in 0..MaxRetries :
              queued'[a][m] = IF a = b /\ m = k THEN queued[a][m] + 1 ELSE queued[a][m]
  BY <1>5, <1>6, Zenon
<1> QED BY <1>1, <1>2, <1>7, Zenon DEF b, k

-----------------------------------------------------------------------------
(* No alert is lost silently.  A message is repeated as often as failures  *)
(* are logged; while its rule is enabled, an alert passes from the queue   *)
(* to a worker, and back or to its end, with no step between.              *)
Serving(a) == \E w \in Workers : wk[w].alert = a /\ wk[w].pc # "acknowledge"
Kept(a) ==
  accepted[a] > 0 \/ Waiting(a) \/ Serving(a) \/ logged[a].failure > MaxRetries \/ a \in dropped

TriedInv(a) ==
  /\ \A n \in 0..MaxRetries : queued[a][n] > 0 => logged[a].failure >= n
  /\ \A w \in Workers : wk[w].alert = a =>
       /\ logged[a].failure >= wk[w].retries
       /\ wk[w].pc \in {"retry", "acknowledge"} => logged[a].failure > wk[w].retries
       /\ wk[w].pc = "log_success" => accepted[a] > 0

KeptInv(o) ==
  dp[o].pc \in {"unmatched", "publish", "published"} =>
    \A r \in MatchingFor(o) \ (dp[o].todo \cup switched) : since[r] >= dp[o].at \/ Kept(<<o, r>>)

LossInv == (\A a \in Alert : TriedInv(a)) /\ (\A o \in Occurrences : KeptInv(o))

LEMMA DeliveryTries ==
  ASSUME AlertsTInv, NEW w \in Workers, Deliver(w) \/ TakeAny(w) \/ CrashDelivery(w),
         NEW a \in Alert, TriedInv(a)
  PROVE  TriedInv(a)'
<1>a. /\ accepted[a] \in Nat /\ logged[a].failure \in Nat
      /\ \A n \in 0..MaxRetries : queued[a][n] \in Nat
      /\ MaxRetries \in Nat /\ \A v \in Workers : wk[v].retries \in 0..MaxRetries
  BY Amounts
<1>n. None \notin Alert
  BY AlertsAssumption
<1>1. CASE TakeAny(w)
  <2>1. PICK b \in Alert, n \in 0..MaxRetries : TakeDelivery(w, b, n)
    BY <1>1 DEF TakeAny
  <2>2. wk'[w].pc = "load" /\ wk'[w].alert = b /\ wk'[w].retries = n
        /\ \A v \in Workers \ {w} : wk'[v] = wk[v]
    BY <2>1, TakeMoves
  <2> QED BY <1>a, <2>1, <2>2, TakeEffect DEF TriedInv
<1>2. CASE LoadRule(w)
  <2>1. UNCHANGED <<queued, accepted, logged>>
    BY <1>2 DEF LoadRule
  <2>2. CASE Steps(w, "load", "send")
    BY <2>1, <2>2, StepsMoves DEF TriedInv, DeliveryPcs
  <2>3. CASE Ends(w, "load")
    BY <1>n, <2>1, <2>3, EndsMoves DEF TriedInv
  <2> QED BY <1>2, <2>2, <2>3 DEF LoadRule
<1>3. CASE Send(w)
  <2>1. UNCHANGED <<queued, logged>> /\ accepted'[a] >= accepted[a]
    BY <1>3, SendEffect
  <2>2. accepted'[a] \in Nat
    BY <1>3, DeliveryTypes DEF Deliver
  <2>3. CASE Steps(w, "send", "log_success") /\ accepted'[wk[w].alert] = accepted[wk[w].alert] + 1
    <3>1. wk'[w].alert = wk[w].alert /\ wk'[w].retries = wk[w].retries /\ wk'[w].pc = "log_success"
          /\ \A v \in Workers \ {w} : wk'[v] = wk[v]
      BY <2>3, StepsMoves DEF DeliveryPcs
    <3> QED BY <1>a, <2>1, <2>2, <2>3, <3>1 DEF TriedInv
  <2>4. CASE Steps(w, "send", "log_failure")
    <3>1. wk'[w].alert = wk[w].alert /\ wk'[w].retries = wk[w].retries /\ wk'[w].pc = "log_failure"
          /\ \A v \in Workers \ {w} : wk'[v] = wk[v]
      BY <2>4, StepsMoves DEF DeliveryPcs
    <3> QED BY <1>a, <2>1, <2>2, <3>1 DEF TriedInv
  <2> QED BY <1>3, <2>3, <2>4, SendEffect
<1>4. CASE LogSuccess(w)
  <2>1. UNCHANGED <<queued, accepted>> /\ logged'[a].failure = logged[a].failure /\ Ends(w, "log_success")
    BY <1>4, LogSuccessEffect
  <2> QED BY <1>n, <2>1, EndsMoves DEF TriedInv
<1>5. CASE LogFailure(w)
  <2>1. UNCHANGED <<queued, accepted>>
    BY <1>5, LogFailureEffect
  <2>2. CASE Ends(w, "log_failure") /\ UNCHANGED logged
    BY <1>n, <2>1, <2>2, EndsMoves DEF TriedInv
  <2>3. CASE /\ Steps(w, "log_failure", "retry")
             /\ logged'[a].failure = IF a = wk[w].alert THEN logged[a].failure + 1 ELSE logged[a].failure
    <3>1. wk'[w].alert = wk[w].alert /\ wk'[w].retries = wk[w].retries /\ wk'[w].pc = "retry"
          /\ \A v \in Workers \ {w} : wk'[v] = wk[v]
      BY <2>3, StepsMoves DEF DeliveryPcs
    <3> QED BY <1>a, <2>1, <2>3, <3>1 DEF TriedInv
  <2> QED BY <1>5, <2>2, <2>3, LogFailureEffect
<1>6. CASE Retry(w)
  <2>1. UNCHANGED <<accepted, logged>> /\ wk[w].pc = "retry"
    BY <1>6, RetryEffect
  <2>2. CASE /\ Steps(w, "retry", "acknowledge")
             /\ \A m \in 0..MaxRetries :
                  queued'[a][m] = IF a = wk[w].alert /\ m = wk[w].retries + 1
                                    THEN queued[a][m] + 1 ELSE queued[a][m]
    <3>1. wk'[w].alert = wk[w].alert /\ wk'[w].retries = wk[w].retries /\ wk'[w].pc = "acknowledge"
          /\ \A v \in Workers \ {w} : wk'[v] = wk[v]
      BY <2>2, StepsMoves DEF DeliveryPcs
    <3> QED BY <1>a, <2>1, <2>2, <3>1 DEF TriedInv
  <2>3. CASE Ends(w, "retry") /\ UNCHANGED queued
    BY <1>n, <2>1, <2>3, EndsMoves DEF TriedInv
  <2> QED BY <1>6, <2>2, <2>3, RetryEffect
<1>7. CASE Acknowledge(w)
  <2>1. UNCHANGED <<queued, accepted, logged>> /\ Ends(w, "acknowledge")
    BY <1>7 DEF Acknowledge
  <2> QED BY <1>n, <2>1, EndsMoves DEF TriedInv
<1>8. CASE CrashDelivery(w)
  <2>1. /\ UNCHANGED <<accepted, logged>> /\ Ends(w, wk[w].pc)
        /\ \/ UNCHANGED queued
           \/ \A m \in 0..MaxRetries :
                queued'[a][m] = IF a = wk[w].alert /\ m = wk[w].retries
                                  THEN queued[a][m] + 1 ELSE queued[a][m]
    BY <1>8, CrashEffect
  <2>2. wk'[w].alert = None /\ \A v \in Workers \ {w} : wk'[v] = wk[v]
    BY <2>1, EndsMoves
  <2> QED BY <1>a, <1>n, <2>1, <2>2 DEF TriedInv
<1> QED BY <1>1, <1>2, <1>3, <1>4, <1>5, <1>6, <1>7, <1>8 DEF Deliver

(* While its rule is enabled, no step of a worker loses an alert.          *)
LEMMA DeliveryKeeps ==
  ASSUME AlertsTInv, NEW w \in Workers, Deliver(w) \/ TakeAny(w) \/ CrashDelivery(w),
         NEW a \in Alert, TriedInv(a), rule[a[2]] = "enabled", Kept(a)
  PROVE  Kept(a)'
<1>a. /\ accepted[a] \in Nat /\ logged[a].failure \in Nat
      /\ \A n \in 0..MaxRetries : queued[a][n] \in Nat
      /\ MaxRetries \in Nat /\ \A v \in Workers : wk[v].retries \in 0..MaxRetries
  BY Amounts
<1>1. CASE TakeAny(w)
  <2>1. PICK b \in Alert, n \in 0..MaxRetries : TakeDelivery(w, b, n)
    BY <1>1 DEF TakeAny
  <2>2. wk[w].pc = "idle" /\ wk'[w].pc = "load" /\ wk'[w].alert = b
        /\ \A v \in Workers \ {w} : wk'[v] = wk[v]
    BY <2>1, TakeMoves
  <2>3. wk[w].alert # a
    BY <2>2 DEF AlertsTInv, WorkersInv
  <2>4. CASE a = b
    BY <2>2, <2>4 DEF Kept, Serving
  <2>5. CASE a # b
    <3>1. UNCHANGED <<accepted, logged, dropped>> /\ \A m \in 0..MaxRetries : queued'[a][m] = queued[a][m]
      BY <2>1, <2>5, TakeEffect
    <3> QED BY <2>2, <2>3, <3>1 DEF Kept, Serving, Waiting
  <2> QED BY <2>4, <2>5
<1>2. CASE LoadRule(w)
  <2>1. UNCHANGED <<queued, accepted, logged, dropped>>
    BY <1>2 DEF LoadRule
  <2>2. CASE Steps(w, "load", "send")
    <3>1. wk'[w].alert = wk[w].alert /\ wk'[w].pc = "send" /\ \A v \in Workers \ {w} : wk'[v] = wk[v]
      BY <2>2, StepsMoves DEF DeliveryPcs
    <3> QED BY <2>1, <3>1 DEF Kept, Serving, Waiting
  <2>3. CASE Ends(w, "load") /\ rule[wk[w].alert[2]] # "enabled"
    <3>1. wk[w].alert # a /\ \A v \in Workers \ {w} : wk'[v] = wk[v]
      BY <2>3, EndsMoves
    <3> QED BY <2>1, <3>1 DEF Kept, Serving, Waiting
  <2> QED BY <1>2, <2>2, <2>3 DEF LoadRule, RuleOf
<1>3. CASE Send(w)
  <2>1. UNCHANGED <<queued, logged, dropped>> /\ accepted'[a] >= accepted[a] /\ accepted'[a] \in Nat
    BY <1>3, SendEffect, DeliveryTypes DEF Deliver
  <2>2. PICK to \in {"log_success", "log_failure"} : Steps(w, "send", to)
    BY <1>3, SendEffect
  <2>3. to \in DeliveryPcs
    BY DEF DeliveryPcs
  <2>4. wk'[w].alert = wk[w].alert /\ wk'[w].pc = to /\ \A v \in Workers \ {w} : wk'[v] = wk[v]
    BY <2>2, <2>3, StepsMoves
  <2>5. Serving(a) => Serving(a)'
    BY <2>4 DEF Serving
  <2> QED BY <1>a, <2>1, <2>5 DEF Kept, Waiting
<1>4. CASE LogSuccess(w)
  <2>1. /\ UNCHANGED <<queued, accepted, dropped>> /\ logged'[a].failure = logged[a].failure
        /\ Ends(w, "log_success")
    BY <1>4, LogSuccessEffect
  <2>2. wk[w].pc = "log_success" /\ \A v \in Workers \ {w} : wk'[v] = wk[v]
    BY <2>1, EndsMoves
  <2>3. CASE wk[w].alert = a
    BY <2>1, <2>2, <2>3 DEF Kept, TriedInv
  <2>4. CASE wk[w].alert # a
    BY <2>1, <2>2, <2>4 DEF Kept, Serving, Waiting
  <2> QED BY <2>3, <2>4
<1>5. CASE LogFailure(w)
  <2>1. UNCHANGED <<queued, accepted, dropped>>
    BY <1>5, LogFailureEffect
  <2>2. CASE Ends(w, "log_failure") /\ UNCHANGED logged /\ rule[wk[w].alert[2]] = "deleted"
    <3>1. wk[w].alert # a /\ \A v \in Workers \ {w} : wk'[v] = wk[v]
      BY <2>2, EndsMoves
    <3> QED BY <2>1, <2>2, <3>1 DEF Kept, Serving, Waiting
  <2>3. CASE Steps(w, "log_failure", "retry") /\ logged'[a].failure >= logged[a].failure
             /\ logged'[a].failure \in Nat
    <3>1. wk'[w].alert = wk[w].alert /\ wk'[w].pc = "retry" /\ \A v \in Workers \ {w} : wk'[v] = wk[v]
      BY <2>3, StepsMoves DEF DeliveryPcs
    <3>2. Serving(a) => Serving(a)'
      BY <3>1 DEF Serving
    <3> QED BY <1>a, <2>1, <2>3, <3>2 DEF Kept, Waiting
  <2> QED BY <1>5, <1>a, <2>2, <2>3, LogFailureEffect
<1>6. CASE Retry(w)
  <2>1. UNCHANGED <<accepted, logged>> /\ wk[w].pc = "retry"
    BY <1>6, RetryEffect
  <2>2. CASE /\ Steps(w, "retry", "acknowledge") /\ UNCHANGED dropped
             /\ wk[w].retries + 1 \in 0..MaxRetries
             /\ \A m \in 0..MaxRetries :
                  queued'[a][m] = IF a = wk[w].alert /\ m = wk[w].retries + 1
                                    THEN queued[a][m] + 1 ELSE queued[a][m]
    <3>1. \A v \in Workers \ {w} : wk'[v] = wk[v]
      BY <2>2, StepsMoves DEF DeliveryPcs
    <3>2. Waiting(a) => Waiting(a)'
      BY <1>a, <2>2 DEF Waiting
    <3>3. wk[w].alert = a => Waiting(a)'
      BY <1>a, <2>2 DEF Waiting
    <3> QED BY <2>1, <2>2, <3>1, <3>2, <3>3 DEF Kept, Serving
  <2>3. CASE /\ Ends(w, "retry") /\ UNCHANGED queued
             /\ \/ dropped' = dropped \cup {wk[w].alert}
                \/ UNCHANGED dropped /\ wk[w].retries = MaxRetries
    <3>1. \A v \in Workers \ {w} : wk'[v] = wk[v]
      BY <2>3, EndsMoves
    <3>2. wk[w].alert = a => Kept(a)'
      BY <1>a, <2>1, <2>3 DEF Kept, TriedInv
    <3>3. wk[w].alert # a => Kept(a)'
      BY <2>1, <2>3, <3>1 DEF Kept, Serving, Waiting
    <3> QED BY <3>2, <3>3
  <2> QED BY <1>6, <2>2, <2>3, RetryEffect
<1>7. CASE Acknowledge(w)
  <2>1. UNCHANGED <<queued, accepted, logged, dropped>> /\ Ends(w, "acknowledge")
    BY <1>7 DEF Acknowledge
  <2>2. wk[w].pc = "acknowledge" /\ \A v \in Workers \ {w} : wk'[v] = wk[v]
    BY <2>1, EndsMoves
  <2> QED BY <2>1, <2>2 DEF Kept, Serving, Waiting
<1>8. CASE CrashDelivery(w)
  <2>1. UNCHANGED <<accepted, logged>> /\ Ends(w, wk[w].pc)
    BY <1>8, CrashEffect
  <2>2. \A v \in Workers \ {w} : wk'[v] = wk[v]
    BY <2>1, EndsMoves
  <2>3. CASE /\ UNCHANGED dropped
             /\ \A m \in 0..MaxRetries :
                  queued'[a][m] = IF a = wk[w].alert /\ m = wk[w].retries
                                    THEN queued[a][m] + 1 ELSE queued[a][m]
    <3>1. Waiting(a) => Waiting(a)'
      BY <1>a, <2>3 DEF Waiting
    <3>2. wk[w].alert = a => Waiting(a)'
      BY <1>a, <2>3 DEF Waiting
    <3> QED BY <2>1, <2>2, <2>3, <3>1, <3>2 DEF Kept, Serving
  <2>4. CASE dropped' = dropped \cup {wk[w].alert} /\ UNCHANGED queued
    BY <2>1, <2>2, <2>4 DEF Kept, Serving, Waiting
  <2> QED BY <1>8, <2>3, <2>4, CrashEffect
<1> QED BY <1>1, <1>2, <1>3, <1>4, <1>5, <1>6, <1>7, <1>8 DEF Deliver

(* A message more takes no alert away.                                     *)
LEMMA PublishKeeps ==
  ASSUME AlertsTInv, NEW a \in Alert, UNCHANGED <<wk, accepted, logged, dropped>>,
         \A m \in 0..MaxRetries : queued'[a][m] \in {queued[a][m], queued[a][m] + 1}
  PROVE  Kept(a) => Kept(a)'
<1>1. \A m \in 0..MaxRetries : queued[a][m] \in Nat
  BY Amounts
<1>2. Waiting(a) => Waiting(a)'
  BY <1>1 DEF Waiting
<1> QED BY <1>2 DEF Kept, Serving

LEMMA DispatchLoses ==
  ASSUME AlertsTInv, LossInv, NEW o \in Occurrences, Dispatch(o)
  PROVE  LossInv'
<1>0. /\ UNCHANGED <<ruleVars, sendVars, now>>
      /\ dp' \in [Occurrences -> DispatchState]
      /\ \A q \in Occurrences \ {o} : dp'[q] = dp[q]
  BY DispatchCases
<1>u. UNCHANGED <<wk, accepted, logged, dropped, Matching, since, switched>>
  BY <1>0 DEF sendVars, ruleVars, Matching
<1>m. UNCHANGED MatchingFor(o) /\ \A q \in Occurrences : UNCHANGED MatchingFor(q)
  BY <1>u DEF MatchingFor
<1>z. 0 \in 0..MaxRetries
  BY AlertsAssumption
<1>q. \A a \in Alert, m \in 0..MaxRetries :
        \/ queued'[a][m] = queued[a][m]
        \/ queued'[a][m] = queued[a][m] + 1 /\ m = 0
  <2>1. CASE PublishAlert(o)
    <3>1. ASSUME NEW r \in dp[o].todo, queued' = [queued EXCEPT ![<<o, r>>][0] = @ + 1]
          PROVE  \A a \in Alert, m \in 0..MaxRetries :
                   \/ queued'[a][m] = queued[a][m]
                   \/ queued'[a][m] = queued[a][m] + 1 /\ m = 0
      <4> DEFINE b == <<o, r>>
      <4>1. b \in Alert /\ queued' = [queued EXCEPT ![b][0] = @ + 1]
        BY <3>1 DEF Alert, AlertsTInv, AlertsTypeOK
      <4> HIDE DEF b
      <4>2. \A a \in Alert, m \in 0..MaxRetries :
              queued'[a][m] = IF a = b /\ m = 0 THEN queued[a][m] + 1 ELSE queued[a][m]
        BY <1>z, <4>1, QueueCounts
      <4> QED BY <4>2
    <3> QED BY <2>1, <3>1 DEF PublishAlert
  <2>2. CASE ~PublishAlert(o)
    BY <2>2 DEF Dispatch, CheckFlag, ReadRules, FillFlag, Fill, ConfirmRules, FetchRules, EndDispatch
  <2> QED BY <2>1, <2>2
<1>1. ASSUME NEW a \in Alert PROVE TriedInv(a)'
  <2>1. TriedInv(a) /\ logged[a].failure \in Nat /\ \A m \in 0..MaxRetries : queued[a][m] \in Nat
    BY Amounts DEF LossInv
  <2> QED BY <1>u, <1>q, <2>1 DEF TriedInv
<1>k. \A a \in Alert : Kept(a) => Kept(a)'
  BY <1>u, <1>q, PublishKeeps
<1>a. \A q \in Occurrences, r \in Rules : <<q, r>> \in Alert
  BY DEF Alert
<1>2. ASSUME NEW q \in Occurrences \ {o} PROVE KeptInv(q)'
  <2>1. KeptInv(q) /\ dp'[q] = dp[q] /\ UNCHANGED MatchingFor(q)
    BY <1>0, <1>m DEF LossInv
  <2>2. MatchingFor(q) \subseteq Rules
    BY DEF MatchingFor, Matching
  <2> QED BY <1>u, <1>k, <1>a, <2>1, <2>2 DEF KeptInv
<1>3. KeptInv(o)'
  <2>r. MatchingFor(o) \subseteq Rules /\ KeptInv(o)
    BY DEF MatchingFor, Matching, LossInv
  <2>t. dp \in [Occurrences -> DispatchState]
    BY DEF AlertsTInv, AlertsTypeOK, DispatchState, DispatchPcs
  <2>1. CASE CheckFlag(o) \/ ReadRules(o) \/ FillFlag(o)
    <3>1. dp'[o].pc \in {"read", "fill_yes", "fill_no", "skipped", "confirm"}
      BY <2>1, <2>t DEF CheckFlag, Decides, Goes, ReadRules, FillFlag, Fill, DispatchState
    <3> QED BY <3>1 DEF KeptInv
  <2>2. CASE ConfirmRules(o)
    <3>1. CASE MatchingFor(o) = {}
      BY <1>m, <3>1 DEF KeptInv
    <3>2. CASE MatchingFor(o) # {}
      <4>1. dp'[o].pc = "fetch"
        BY <2>2, <2>t, <3>2 DEF ConfirmRules, Goes, DispatchState
      <4> QED BY <4>1 DEF KeptInv
    <3> QED BY <3>1, <3>2
  <2>3. CASE FetchRules(o)
    <3>1. MatchingFor(o) \in SUBSET Rules /\ "publish" \in DispatchPcs
      BY <2>r DEF DispatchPcs
    <3>2. dp'[o].todo = MatchingFor(o)
      BY <2>3, <3>1, ListedMoves DEF FetchRules
    <3> QED BY <1>m, <3>2 DEF KeptInv
  <2>4. CASE PublishAlert(o)
    <3>1. CASE Goes(o, "broken")
      <4>1. dp'[o].pc = "broken"
        BY <3>1, GoesMoves DEF DispatchPcs
      <4> QED BY <4>1 DEF KeptInv
    <3>2. ASSUME NEW r \in dp[o].todo, queued' = [queued EXCEPT ![<<o, r>>][0] = @ + 1],
                 dp' = [dp EXCEPT ![o].todo = @ \ {r}]
          PROVE  KeptInv(o)'
      <4>1. dp[o].pc = "publish" /\ dp[o].todo \subseteq Rules /\ "publish" \in DispatchPcs
        BY <2>4, <2>t DEF PublishAlert, DispatchState, DispatchPcs
      <4> DEFINE S == dp[o].todo \ {r}
      <4>2. S \in SUBSET Rules /\ dp' = [dp EXCEPT ![o].todo = S]
        BY <3>2, <4>1
      <4> HIDE DEF S
      <4>3. dp'[o].todo = S /\ dp'[o].at = dp[o].at
        BY <2>t, <4>2 DEF DispatchState
      <4>4. Kept(<<o, r>>)'
        <5> DEFINE b == <<o, r>>
        <5>1. b \in Alert /\ queued' = [queued EXCEPT ![b][0] = @ + 1]
          BY <1>a, <3>2, <4>1
        <5> HIDE DEF b
        <5>2. queued'[b][0] = queued[b][0] + 1 /\ queued[b][0] \in Nat
          BY <1>z, <5>1, QueueGrows, Amounts
        <5>3. Waiting(b)'
          BY <1>z, <5>2 DEF Waiting
        <5>4. Kept(b)'
          BY <5>3 DEF Kept
        <5> QED BY <5>4 DEF b
      <4> QED BY <1>u, <1>m, <1>k, <1>a, <2>r, <4>1, <4>3, <4>4 DEF KeptInv, S
    <3> QED BY <2>4, <3>1, <3>2 DEF PublishAlert
  <2>5. CASE EndDispatch(o)
    <3>1. Goes(o, "published") /\ "published" \in DispatchPcs /\ dp[o].pc = "publish"
      BY <2>5 DEF EndDispatch, DispatchPcs
    <3>2. dp'[o].at = dp[o].at /\ dp'[o].todo = dp[o].todo
      BY <3>1, GoesMoves
    <3> QED BY <1>u, <1>m, <1>k, <1>a, <2>r, <3>1, <3>2 DEF KeptInv
  <2> QED BY <2>1, <2>2, <2>3, <2>4, <2>5 DEF Dispatch
<1> QED BY <1>1, <1>2, <1>3 DEF LossInv

LEMMA InitLossInv == AlertsInit => LossInv
<1> SUFFICES ASSUME AlertsInit PROVE LossInv
  OBVIOUS
<1>1. ASSUME NEW a \in Alert PROVE TriedInv(a)
  <2>1. \A n \in 0..MaxRetries : queued[a][n] = 0
    BY DEF AlertsInit
  <2>2. \A w \in Workers : wk[w].alert # a
    BY AlertsAssumption DEF AlertsInit, IdleWorker
  <2> QED BY <2>1, <2>2 DEF TriedInv
<1>2. ASSUME NEW o \in Occurrences PROVE KeptInv(o)
  BY DEF AlertsInit, KeptInv
<1> QED BY <1>1, <1>2 DEF LossInv

LEMMA StepLossInv == AlertsTInv /\ LossInv /\ [AlertsNext]_alertVars => LossInv'
<1> SUFFICES ASSUME AlertsTInv, LossInv, [AlertsNext]_alertVars PROVE LossInv'
  OBVIOUS
<1>z. 0 \in 0..MaxRetries
  BY AlertsAssumption
<1>a. \A q \in Occurrences, r \in Rules : <<q, r>> \in Alert
  BY DEF Alert
<1>r. \A q \in Occurrences : MatchingFor(q) \subseteq Rules
  BY DEF MatchingFor, Matching
<1>1. ASSUME NEW w \in Workers, Deliver(w) \/ TakeAny(w) \/ CrashDelivery(w) PROVE LossInv'
  <2>1. UNCHANGED <<ruleVars, dp>>
    BY <1>1, DeliveryTypes
  <2>2. \A a \in Alert : TriedInv(a)'
    BY <1>1, DeliveryTries DEF LossInv
  <2>3. ASSUME NEW q \in Occurrences PROVE KeptInv(q)'
    <3>1. UNCHANGED <<MatchingFor(q), since, switched, dp>> /\ KeptInv(q)
      BY <2>1 DEF ruleVars, MatchingFor, Matching, LossInv
    <3>2. ASSUME NEW r \in MatchingFor(q), Kept(<<q, r>>) PROVE Kept(<<q, r>>)'
      <4> DEFINE b == <<q, r>>
      <4>1. b \in Alert /\ b[2] = r /\ rule[r] = "enabled"
        BY <1>a, <1>r, <3>2 DEF MatchingFor, Matching
      <4>2. Kept(b)
        BY <3>2
      <4> HIDE DEF b
      <4>3. Kept(b)'
        BY <1>1, <4>1, <4>2, DeliveryKeeps DEF LossInv
      <4> QED BY <4>3 DEF b
    <3> QED BY <3>1, <3>2 DEF KeptInv
  <2> QED BY <2>2, <2>3 DEF LossInv
<1>2. ASSUME NEW r \in Rules, ChangeRule(r) PROVE LossInv'
  <2>1. PICK state \in {"enabled", "disabled", "deleted"}, active \in BOOLEAN : Changes(r, state, active)
    BY <1>2, ChangeCases
  <2>2. UNCHANGED <<dp, queued, wk, accepted, logged, dropped, now>>
    BY <2>1 DEF Changes, sendVars
  <2>3. /\ since \in [Rules -> Nat] /\ rule \in [Rules -> {"absent", "enabled", "disabled", "deleted"}]
        /\ channel \in [Rules -> BOOLEAN]
    BY DEF AlertsTInv, AlertsTypeOK
  <2>4. /\ switched \subseteq switched'
        /\ \A s \in Matching' : (s \in Matching /\ since'[s] = since[s]) \/ since'[s] = now
    BY <2>1, <2>3 DEF Changes, Matching
  <2>5. \A a \in Alert : TriedInv(a)' /\ (Kept(a) => Kept(a)')
    BY <2>2 DEF LossInv, TriedInv, Kept, Waiting, Serving
  <2>6. ASSUME NEW q \in Occurrences PROVE KeptInv(q)'
    <3>1. \A s \in MatchingFor(q)' : (s \in MatchingFor(q) /\ since'[s] = since[s]) \/ since'[s] = now
      BY <2>4 DEF MatchingFor
    <3>2. dp[q].at <= now /\ KeptInv(q)
      BY DEF AlertsTInv, LossInv
    <3> QED BY <1>a, <1>r, <2>2, <2>4, <2>5, <3>1, <3>2 DEF KeptInv
  <2> QED BY <2>5, <2>6 DEF LossInv
<1>3. ASSUME NEW b \in Alert, Replay(b) PROVE LossInv'
  <2>1. queued' = [queued EXCEPT ![b][0] = @ + 1] =>
          \A a \in Alert, m \in 0..MaxRetries :
            queued'[a][m] = IF a = b /\ m = 0 THEN queued[a][m] + 1 ELSE queued[a][m]
    BY <1>z, QueueCounts
  <2>2. \A a \in Alert, m \in 0..MaxRetries :
          queued'[a][m] = IF a = b /\ m = 0 THEN queued[a][m] + 1 ELSE queued[a][m]
    BY <1>3, <2>1, Zenon DEF Replay
  <2>3. UNCHANGED <<dp, ruleVars, wk, accepted, logged, dropped>>
    BY <1>3 DEF Replay
  <2>4. ASSUME NEW a \in Alert PROVE TriedInv(a)' /\ (Kept(a) => Kept(a)')
    <3>1. TriedInv(a) /\ logged[a].failure \in Nat /\ \A m \in 0..MaxRetries : queued[a][m] \in Nat
      BY Amounts DEF LossInv
    <3> QED BY <2>2, <2>3, <3>1, PublishKeeps DEF TriedInv
  <2>5. ASSUME NEW q \in Occurrences PROVE KeptInv(q)'
    <3>1. UNCHANGED <<MatchingFor(q), since, switched>> /\ KeptInv(q)
      BY <2>3 DEF ruleVars, MatchingFor, Matching, LossInv
    <3> QED BY <1>a, <1>r, <2>3, <2>4, <3>1 DEF KeptInv
  <2> QED BY <2>4, <2>5 DEF LossInv
<1>4. CASE TickAlerts \/ UNCHANGED alertVars
  <2>1. UNCHANGED <<ruleVars, sendVars, dp, queued>>
    BY <1>4 DEF TickAlerts, alertVars
  <2> QED BY <2>1 DEF ruleVars, sendVars, LossInv, TriedInv, KeptInv, Kept, Waiting, Serving,
             MatchingFor, Matching
<1> QED BY <1>1, <1>2, <1>3, <1>4, DispatchLoses DEF AlertsNext

(* An alert that was dispatched is not lost silently: only a rule that was *)
(* switched off, a broker that is down for a repetition or a pool process  *)
(* that is killed loses one that was not accepted or tried to the end.     *)
THEOREM NothingLostSilently == AlertsSpec => []NoSilentLoss
<1>1. AlertsTInv /\ LossInv /\ [AlertsNext]_alertVars => (AlertsTInv /\ LossInv)'
  BY StepAlertsTInv, StepLossInv
<1>2. AlertsSpec => [](AlertsTInv /\ LossInv)
  BY <1>1, InitAlertsTInv, InitLossInv, PTL DEF AlertsSpec
<1>3. LossInv => NoSilentLoss
  BY DEF LossInv, KeptInv, NoSilentLoss, Kept, Serving, Attempted
<1> QED BY <1>2, <1>3, PTL

-----------------------------------------------------------------------------
(* The log is true.  A success is logged for a message that was accepted   *)
(* and not yet logged, so what is accepted pays for the workers that are   *)
(* about to log one as well.                                               *)
LogInv(a) ==
  /\ logged[a].success + Cardinality(At(a, {"log_success"})) <= accepted[a]
  /\ rule[a[2]] # "deleted" =>
       attempts[a] <= logged[a].success + logged[a].failure + crashes
         + Cardinality(At(a, {"log_success", "log_failure"}))

(* One worker moves: how many workers are at some places.                  *)
LEMMA AtCounts ==
  ASSUME AlertsTInv, NEW a \in Alert, NEW S, "idle" \notin S
  PROVE  IsFiniteSet(At(a, S)) /\ Cardinality(At(a, S)) \in Nat
<1>1. At(a, S) \subseteq Busy /\ IsFiniteSet(Busy)
  BY DEF At, Busy, AlertsTInv, WorkersInv
<1> QED BY <1>1, FS_Subset, FS_CardinalityType

LEMMA AtMoves ==
  ASSUME AlertsTInv, NEW a \in Alert, NEW S, "idle" \notin S,
         NEW w \in Workers, \A v \in Workers \ {w} : wk'[v] = wk[v]
  PROVE  /\ Cardinality(At(a, S)) \in Nat
         /\ (w \in At(a, S) <=> w \in At(a, S)') => Cardinality(At(a, S)') = Cardinality(At(a, S))
         /\ w \in At(a, S) /\ w \notin At(a, S)' => Cardinality(At(a, S)') = Cardinality(At(a, S)) - 1
         /\ w \notin At(a, S) /\ w \in At(a, S)' => Cardinality(At(a, S)') = Cardinality(At(a, S)) + 1
<1>1. IsFiniteSet(At(a, S)) /\ Cardinality(At(a, S)) \in Nat
  BY AtCounts
<1>2. (w \in At(a, S) <=> w \in At(a, S)') => At(a, S)' = At(a, S)
  BY DEF At
<1>3. CASE w \in At(a, S) /\ w \notin At(a, S)'
  <2>1. At(a, S)' = At(a, S) \ {w}
    BY <1>3 DEF At
  <2>2. Cardinality(At(a, S) \ {w}) = Cardinality(At(a, S)) - 1
    BY <1>1, <1>3, FS_RemoveElement
  <2> QED BY <1>1, <1>3, <2>1, <2>2
<1>4. CASE w \notin At(a, S) /\ w \in At(a, S)'
  <2>1. At(a, S)' = At(a, S) \cup {w}
    BY <1>4 DEF At
  <2>2. Cardinality(At(a, S) \cup {w}) = Cardinality(At(a, S)) + 1
    BY <1>1, <1>4, FS_AddElement
  <2> QED BY <1>1, <1>4, <2>1, <2>2
<1> QED BY <1>1, <1>2, <1>3, <1>4

LEMMA DeliveryLogs ==
  ASSUME AlertsTInv, NEW w \in Workers, Deliver(w) \/ TakeAny(w) \/ CrashDelivery(w),
         NEW a \in Alert, LogInv(a)
  PROVE  LogInv(a)'
<1> DEFINE one == At(a, {"log_success"})
           two == At(a, {"log_success", "log_failure"})
<1>a. /\ accepted[a] \in Nat /\ attempts[a] \in Nat /\ crashes \in Nat
      /\ logged[a].success \in Nat /\ logged[a].failure \in Nat
      /\ Cardinality(one) \in Nat /\ Cardinality(two) \in Nat
  BY Amounts, AtCounts
<1>n. None \notin Alert
  BY AlertsAssumption
<1>i. /\ logged[a].success + Cardinality(one) <= accepted[a]
      /\ rule[a[2]] # "deleted" =>
           attempts[a] <= logged[a].success + logged[a].failure + crashes + Cardinality(two)
  BY DEF LogInv
<1>m. ASSUME \A v \in Workers \ {w} : wk'[v] = wk[v]
      PROVE  /\ (w \in one <=> w \in one') => Cardinality(one') = Cardinality(one)
             /\ w \in one /\ w \notin one' => Cardinality(one') = Cardinality(one) - 1
             /\ w \notin one /\ w \in one' => Cardinality(one') = Cardinality(one) + 1
             /\ (w \in two <=> w \in two') => Cardinality(two') = Cardinality(two)
             /\ w \in two /\ w \notin two' => Cardinality(two') = Cardinality(two) - 1
             /\ w \notin two /\ w \in two' => Cardinality(two') = Cardinality(two) + 1
  BY <1>m, AtMoves
<1>b. /\ w \in one <=> wk[w].alert = a /\ wk[w].pc = "log_success"
      /\ w \in two <=> wk[w].alert = a /\ wk[w].pc \in {"log_success", "log_failure"}
      /\ w \in one' <=> wk'[w].alert = a /\ wk'[w].pc = "log_success"
      /\ w \in two' <=> wk'[w].alert = a /\ wk'[w].pc \in {"log_success", "log_failure"}
  BY DEF At
<1>g. ASSUME /\ logged'[a].success + Cardinality(one') <= accepted'[a]
             /\ rule'[a[2]] # "deleted" =>
                  attempts'[a] <= logged'[a].success + logged'[a].failure + crashes' + Cardinality(two')
      PROVE  LogInv(a)'
  BY <1>g DEF LogInv
<1> HIDE DEF one, two
<1>s. ASSUME UNCHANGED <<rule, accepted, attempts, logged, crashes>>,
             \A v \in Workers \ {w} : wk'[v] = wk[v],
             wk[w].pc \notin {"log_success", "log_failure"},
             wk'[w].pc \notin {"log_success", "log_failure"}
      PROVE  LogInv(a)'
  <2>1. Cardinality(one') = Cardinality(one) /\ Cardinality(two') = Cardinality(two)
    BY <1>s, <1>m, <1>b
  <2> QED BY <1>s, <1>i, <1>g, <2>1
<1>1. CASE TakeAny(w)
  <2>1. PICK b \in Alert, n \in 0..MaxRetries : TakeDelivery(w, b, n)
    BY <1>1 DEF TakeAny
  <2>2. wk[w].pc = "idle" /\ wk'[w].pc = "load" /\ \A v \in Workers \ {w} : wk'[v] = wk[v]
    BY <2>1, TakeMoves
  <2> QED BY <2>1, <2>2, <1>s, TakeEffect
<1>2. CASE LoadRule(w)
  <2>1. UNCHANGED <<rule, accepted, attempts, logged, crashes>>
    BY <1>2 DEF LoadRule, ruleVars
  <2>2. /\ wk[w].pc = "load" /\ wk'[w].pc \in {"send", "idle"}
        /\ \A v \in Workers \ {w} : wk'[v] = wk[v]
    <3>1. Steps(w, "load", "send") \/ Ends(w, "load")
      BY <1>2 DEF LoadRule
    <3> QED BY <3>1, StepsMoves, EndsMoves DEF DeliveryPcs
  <2> QED BY <2>1, <2>2, <1>s
<1>3. CASE Send(w)
  <2>1. /\ UNCHANGED <<rule, logged, crashes>> /\ accepted'[a] >= accepted[a]
        /\ attempts'[a] = IF a = wk[w].alert THEN attempts[a] + 1 ELSE attempts[a]
    BY <1>3, SendEffect
  <2>2. accepted'[a] \in Nat
    BY <1>3, DeliveryTypes DEF Deliver
  <2>3. CASE Steps(w, "send", "log_success") /\ accepted'[wk[w].alert] = accepted[wk[w].alert] + 1
    <3>1. /\ wk[w].pc = "send" /\ wk'[w].alert = wk[w].alert /\ wk'[w].pc = "log_success"
          /\ \A v \in Workers \ {w} : wk'[v] = wk[v]
      BY <2>3, StepsMoves DEF DeliveryPcs
    <3>2. CASE wk[w].alert = a
      <4>1. Cardinality(one') = Cardinality(one) + 1 /\ Cardinality(two') = Cardinality(two) + 1
        BY <1>m, <1>b, <3>1, <3>2
      <4> QED BY <1>a, <1>i, <1>g, <2>1, <2>3, <3>2, <4>1
    <3>3. CASE wk[w].alert # a
      <4>1. Cardinality(one') = Cardinality(one) /\ Cardinality(two') = Cardinality(two)
        BY <1>m, <1>b, <3>1, <3>3
      <4> QED BY <1>a, <1>i, <1>g, <2>1, <2>2, <3>3, <4>1
    <3> QED BY <3>2, <3>3
  <2>4. CASE Steps(w, "send", "log_failure")
    <3>1. /\ wk[w].pc = "send" /\ wk'[w].alert = wk[w].alert /\ wk'[w].pc = "log_failure"
          /\ \A v \in Workers \ {w} : wk'[v] = wk[v]
      BY <2>4, StepsMoves DEF DeliveryPcs
    <3>2. /\ Cardinality(one') = Cardinality(one)
          /\ Cardinality(two') = IF wk[w].alert = a THEN Cardinality(two) + 1 ELSE Cardinality(two)
      BY <1>m, <1>b, <3>1
    <3> QED BY <1>a, <1>i, <1>g, <2>1, <2>2, <3>2
  <2> QED BY <1>3, <2>3, <2>4, SendEffect
<1>4. CASE LogSuccess(w)
  <2>1. /\ UNCHANGED <<rule, accepted, attempts, crashes>> /\ Ends(w, "log_success")
        /\ logged'[a].failure = logged[a].failure
        /\ logged'[a].success = IF a = wk[w].alert /\ rule[a[2]] # "deleted"
                                  THEN logged[a].success + 1 ELSE logged[a].success
    BY <1>4, LogSuccessEffect
  <2>2. /\ wk[w].pc = "log_success" /\ wk'[w].pc = "idle"
        /\ \A v \in Workers \ {w} : wk'[v] = wk[v]
    BY <2>1, EndsMoves
  <2>3. CASE wk[w].alert = a
    <3>1. Cardinality(one') = Cardinality(one) - 1 /\ Cardinality(two') = Cardinality(two) - 1
      BY <1>m, <1>b, <2>2, <2>3
    <3> QED BY <1>a, <1>i, <1>g, <2>1, <2>3, <3>1
  <2>4. CASE wk[w].alert # a
    <3>1. Cardinality(one') = Cardinality(one) /\ Cardinality(two') = Cardinality(two)
      BY <1>m, <1>b, <2>2, <2>4
    <3> QED BY <1>a, <1>i, <1>g, <2>1, <2>4, <3>1
  <2> QED BY <2>3, <2>4
<1>5. CASE LogFailure(w)
  <2>1. UNCHANGED <<rule, accepted, attempts, crashes>>
    BY <1>5, LogFailureEffect
  <2>2. CASE Ends(w, "log_failure") /\ UNCHANGED logged /\ rule[wk[w].alert[2]] = "deleted"
    <3>1. /\ wk[w].pc = "log_failure" /\ wk'[w].pc = "idle"
          /\ \A v \in Workers \ {w} : wk'[v] = wk[v]
      BY <2>2, EndsMoves
    <3>2. /\ Cardinality(one') = Cardinality(one)
          /\ wk[w].alert # a => Cardinality(two') = Cardinality(two)
      BY <1>m, <1>b, <3>1
    <3> QED BY <1>a, <1>i, <1>g, <2>1, <2>2, <3>2
  <2>3. CASE /\ Steps(w, "log_failure", "retry")
             /\ logged'[a].success = logged[a].success
             /\ logged'[a].failure = IF a = wk[w].alert THEN logged[a].failure + 1 ELSE logged[a].failure
    <3>1. /\ wk[w].pc = "log_failure" /\ wk'[w].pc = "retry"
          /\ \A v \in Workers \ {w} : wk'[v] = wk[v]
      BY <2>3, StepsMoves DEF DeliveryPcs
    <3>2. /\ Cardinality(one') = Cardinality(one)
          /\ Cardinality(two') = IF wk[w].alert = a THEN Cardinality(two) - 1 ELSE Cardinality(two)
      BY <1>m, <1>b, <3>1
    <3> QED BY <1>a, <1>i, <1>g, <2>1, <2>3, <3>2
  <2> QED BY <1>5, <2>2, <2>3, LogFailureEffect
<1>6. CASE Retry(w)
  <2>1. UNCHANGED <<rule, accepted, attempts, logged, crashes>>
    BY <1>6, RetryEffect
  <2>2. /\ wk[w].pc = "retry" /\ wk'[w].pc \in {"acknowledge", "idle"}
        /\ \A v \in Workers \ {w} : wk'[v] = wk[v]
    <3>1. Steps(w, "retry", "acknowledge") \/ Ends(w, "retry")
      BY <1>6, RetryEffect
    <3> QED BY <3>1, StepsMoves, EndsMoves DEF DeliveryPcs
  <2> QED BY <2>1, <2>2, <1>s
<1>7. CASE Acknowledge(w)
  <2>1. UNCHANGED <<rule, accepted, attempts, logged, crashes>> /\ Ends(w, "acknowledge")
    BY <1>7 DEF Acknowledge, ruleVars
  <2>2. /\ wk[w].pc = "acknowledge" /\ wk'[w].pc = "idle" /\ \A v \in Workers \ {w} : wk'[v] = wk[v]
    BY <2>1, EndsMoves
  <2> QED BY <2>1, <2>2, <1>s
<1>8. CASE CrashDelivery(w)
  <2>1. /\ UNCHANGED <<rule, accepted, attempts, logged>> /\ crashes' = crashes + 1
        /\ Ends(w, wk[w].pc)
    BY <1>8, CrashEffect
  <2>2. wk'[w].pc = "idle" /\ \A v \in Workers \ {w} : wk'[v] = wk[v]
    BY <2>1, EndsMoves
  <2>3. /\ Cardinality(one') \in {Cardinality(one), Cardinality(one) - 1}
        /\ Cardinality(two') \in {Cardinality(two), Cardinality(two) - 1}
    BY <1>m, <1>b, <2>2
  <2> QED BY <1>a, <1>i, <1>g, <2>1, <2>3
<1> QED BY <1>1, <1>2, <1>3, <1>4, <1>5, <1>6, <1>7, <1>8 DEF Deliver

LEMMA InitLogInv == AlertsInit => \A a \in Alert : LogInv(a)
<1> SUFFICES ASSUME AlertsInit, NEW a \in Alert PROVE LogInv(a)
  OBVIOUS
<1>1. \A S : At(a, S) = {}
  BY AlertsAssumption DEF AlertsInit, IdleWorker, At
<1>2. logged[a].success = 0 /\ logged[a].failure = 0 /\ accepted[a] = 0 /\ attempts[a] = 0 /\ crashes = 0
  BY DEF AlertsInit
<1> QED BY <1>1, <1>2, FS_EmptySet DEF LogInv

LEMMA StepLogInv ==
  AlertsTInv /\ (\A a \in Alert : LogInv(a)) /\ [AlertsNext]_alertVars => (\A a \in Alert : LogInv(a))'
<1> SUFFICES ASSUME AlertsTInv, \A a \in Alert : LogInv(a), [AlertsNext]_alertVars, NEW a \in Alert
             PROVE  LogInv(a)'
  OBVIOUS
<1>s. ASSUME UNCHANGED <<wk, accepted, attempts, logged, crashes>>,
             rule'[a[2]] # "deleted" => rule[a[2]] # "deleted"
      PROVE  LogInv(a)'
  BY <1>s DEF LogInv, At
<1>1. ASSUME NEW w \in Workers, Deliver(w) \/ TakeAny(w) \/ CrashDelivery(w) PROVE LogInv(a)'
  BY <1>1, DeliveryLogs
<1>2. ASSUME NEW o \in Occurrences, Dispatch(o) PROVE LogInv(a)'
  BY <1>2, <1>s, DispatchCases DEF sendVars, ruleVars
<1>3. ASSUME NEW r \in Rules, ChangeRule(r) PROVE LogInv(a)'
  <2>1. PICK state \in {"enabled", "disabled", "deleted"}, active \in BOOLEAN :
          Changes(r, state, active) /\ rule[r] # "deleted"
    BY <1>3, ChangeCases
  <2>2. rule \in [Rules -> {"absent", "enabled", "disabled", "deleted"}] /\ a[2] \in Rules
    BY DEF AlertsTInv, AlertsTypeOK, Alert
  <2>3. rule'[a[2]] # "deleted" => rule[a[2]] # "deleted"
    BY <2>1, <2>2 DEF Changes
  <2> QED BY <1>s, <2>1, <2>3 DEF Changes, sendVars
<1>4. ASSUME NEW b \in Alert, Replay(b) PROVE LogInv(a)'
  BY <1>4, <1>s DEF Replay, ruleVars
<1>5. CASE TickAlerts \/ UNCHANGED alertVars
  BY <1>5, <1>s DEF TickAlerts, alertVars, ruleVars, sendVars
<1> QED BY <1>1, <1>2, <1>3, <1>4, <1>5 DEF AlertsNext

(* The log that administrators see is true: a row for each attempt that is *)
(* over, and a success only for a message that the channel accepted.       *)
THEOREM LogIsTrue == AlertsSpec => []LogTruthful
<1>1. AlertsTInv /\ (\A a \in Alert : LogInv(a)) => LogTruthful
  <2> SUFFICES ASSUME AlertsTInv, \A a \in Alert : LogInv(a), NEW a \in Alert
               PROVE  /\ logged[a].success <= accepted[a]
                      /\ rule[a[2]] # "deleted" =>
                           attempts[a] <= logged[a].success + logged[a].failure + crashes
                             + Cardinality({w \in Workers : wk[w].alert = a
                                              /\ wk[w].pc \in {"log_success", "log_failure"}})
    BY DEF LogTruthful
  <2>1. /\ LogInv(a) /\ logged[a].success \in Nat /\ accepted[a] \in Nat
        /\ Cardinality(At(a, {"log_success"})) \in Nat
    BY Amounts, AtCounts
  <2> QED BY <2>1 DEF LogInv, At
<1>2. AlertsSpec => [](AlertsTInv /\ \A a \in Alert : LogInv(a))
  <2>1. AlertsTInv /\ (\A a \in Alert : LogInv(a)) /\ [AlertsNext]_alertVars
          => (AlertsTInv /\ \A a \in Alert : LogInv(a))'
    BY StepAlertsTInv, StepLogInv
  <2> QED BY <2>1, InitAlertsTInv, InitLogInv, PTL DEF AlertsSpec
<1> QED BY <1>1, <1>2, PTL
=============================================================================
