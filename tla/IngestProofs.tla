----------------------------- MODULE IngestProofs -----------------------------
(***************************************************************************)
(* Proofs about IngestGate, for any number of requests and workers and any *)
(* limits: how stale a decision on the key can be, how far the rate limit  *)
(* and the quota can be exceeded, and that nothing is billed before it is  *)
(* stored; and about UsageMeter, for any number of callers, periods, calls *)
(* and lost keys: the metering of the current period is exact, and no      *)
(* record bills more than was metered.                                     *)
(***************************************************************************)
EXTENDS IngestGate, UsageMeter, FiniteSetTheorems, TLAPS

(***************************************************************************)
(* IngestGate                                                              *)
(***************************************************************************)

Phases == {"new", "read", "fill", "quota", "rate", "set", "bump", "items", "answered", "refused"}

Reqs == [pc : Phases, items : 0..MaxItems, found : BOOLEAN, at : 0..MaxTime,
         window : Windows, count : Nat]

(* The window of the clock is one of the windows.                          *)
LEMMA WindowIsOne ==
  ASSUME GateTypeOK
  PROVE  Window \in Windows /\ 0 \in Windows
<1>1. /\ now \in Nat /\ MaxTime \in Nat /\ now <= MaxTime /\ Minute \in Nat \ {0}
  BY GateAssumption DEF GateTypeOK
<1>2. now \div Minute \in Nat /\ MaxTime \div Minute \in Nat /\ now \div Minute <= MaxTime \div Minute
  BY <1>1
<1> QED
  BY <1>2 DEF Window, Windows

LEMMA NewRequestType ==
  ASSUME GateTypeOK
  PROVE  NewRequest \in Reqs /\ [NewRequest EXCEPT !.pc = "answered"] \in Reqs
<1>1. 0 \in 0..MaxItems /\ 0 \in 0..MaxTime /\ 0 \in Windows
  BY GateAssumption, WindowIsOne
<1> QED
  BY <1>1 DEF NewRequest, Reqs, Phases

(* What a step that decides on the key, or reads it, leaves of a request.  *)
KeyStep(g, r, p, f, t) == [g EXCEPT ![r].pc = p, ![r].found = f, ![r].at = t]

LEMMA KeyFields ==
  ASSUME NEW g \in [Requests -> Reqs], NEW r \in Requests,
         NEW p \in Phases, NEW f \in BOOLEAN, NEW t \in 0..MaxTime
  PROVE  /\ KeyStep(g, r, p, f, t) \in [Requests -> Reqs]
         /\ KeyStep(g, r, p, f, t)[r].pc = p
         /\ KeyStep(g, r, p, f, t)[r].found = f
         /\ KeyStep(g, r, p, f, t)[r].at = t
         /\ \A s \in Requests \ {r} : KeyStep(g, r, p, f, t)[s] = g[s]
<1> DEFINE one == [g EXCEPT ![r].pc = p]
           two == [one EXCEPT ![r].found = f]
           q   == [two[r] EXCEPT !.at = t]
<1>1. /\ one \in [Requests -> Reqs] /\ one[r].pc = p
      /\ \A s \in Requests \ {r} : one[s] = g[s]
  BY DEF Reqs
<1>2. KeyStep(g, r, p, f, t) = [two EXCEPT ![r] = q]
  BY Zenon DEF KeyStep
<1> HIDE DEF one
<1>3. /\ two \in [Requests -> Reqs] /\ two[r].pc = p /\ two[r].found = f
      /\ \A s \in Requests \ {r} : two[s] = g[s]
  BY <1>1 DEF Reqs
<1> HIDE DEF two
<1>4. q \in Reqs /\ q.at = t /\ q.pc = two[r].pc /\ q.found = two[r].found
  BY <1>3 DEF Reqs
<1> HIDE DEF q
<1>5. /\ KeyStep(g, r, p, f, t) \in [Requests -> Reqs]
      /\ KeyStep(g, r, p, f, t)[r] = q
      /\ \A s \in Requests \ {r} : KeyStep(g, r, p, f, t)[s] = g[s]
  BY <1>2, <1>3, <1>4
<1> QED
  BY <1>3, <1>4, <1>5, Zenon

-----------------------------------------------------------------------------
(* The workers at some of the places of process_event.                     *)
At(S) == {w \in Workers : wk[w] \in S}

(* What the move of one worker changes of their number.                    *)
LEMMA Moved ==
  ASSUME GateTypeOK, NEW S, IsFiniteSet(At(S)),
         NEW w \in Workers, NEW to, wk' = [wk EXCEPT ![w] = to]
  PROVE  /\ IsFiniteSet(At(S)') /\ Cardinality(At(S)) \in Nat /\ Cardinality(At(S)') \in Nat
         /\ (wk[w] \in S <=> to \in S) => Cardinality(At(S)') = Cardinality(At(S))
         /\ wk[w] \in S /\ to \notin S => Cardinality(At(S)') = Cardinality(At(S)) - 1
         /\ wk[w] \notin S /\ to \in S => Cardinality(At(S)') = Cardinality(At(S)) + 1
<1>1. \A v \in Workers : wk'[v] = IF v = w THEN to ELSE wk[v]
  BY DEF GateTypeOK
<1>2. Cardinality(At(S)) \in Nat
  BY FS_CardinalityType
<1>3. /\ IsFiniteSet(At(S) \ {w})
      /\ Cardinality(At(S) \ {w}) = Cardinality(At(S)) - IF wk[w] \in S THEN 1 ELSE 0
  <2>1. w \in At(S) <=> wk[w] \in S
    BY DEF At
  <2> QED
    BY <1>2, <2>1, FS_RemoveElement
<1>4. CASE to \in S
  <2>1. At(S)' = (At(S) \ {w}) \cup {w}
    BY <1>1, <1>4 DEF At
  <2>2. w \notin At(S) \ {w}
    OBVIOUS
  <2>3. /\ IsFiniteSet((At(S) \ {w}) \cup {w})
        /\ Cardinality((At(S) \ {w}) \cup {w}) = Cardinality(At(S) \ {w}) + 1
    BY <1>3, <2>2, FS_AddElement
  <2>4. Cardinality(At(S)') \in Nat
    BY <2>1, <2>3, FS_CardinalityType
  <2> QED
    BY <1>2, <1>3, <1>4, <2>1, <2>3, <2>4
<1>5. CASE to \notin S
  <2>1. At(S)' = At(S) \ {w}
    BY <1>1, <1>5 DEF At
  <2>2. Cardinality(At(S)') \in Nat
    BY <1>3, <2>1, FS_CardinalityType
  <2> QED
    BY <1>2, <1>3, <1>5, <2>1, <2>2
<1> QED
  BY <1>4, <1>5

(* The sets the properties count are finite: they grow one by one.         *)
Finite == IsFiniteSet(At({"taken", "stored"})) /\ IsFiniteSet(At({"stored"}))

GateTInv == GateTypeOK /\ Finite

LEMMA InitGateTInv == GateInit => GateTInv
<1> SUFFICES ASSUME GateInit
             PROVE  GateTInv
  OBVIOUS
<1>1. MaxTime \div Minute \in Nat /\ 0 \in 0..MaxItems /\ 0 \in 0..MaxTime
      /\ 0 \in 0..MaxCrashes /\ 0 \in 0..MaxToggles
  BY GateAssumption
<1>2. NewRequest \in Reqs
  BY <1>1 DEF NewRequest, Reqs, Phases, Windows
<1>3. GateTypeOK
  BY <1>1, <1>2 DEF GateInit, GateTypeOK, NoEntry, Reqs, Phases
<1>4. At({"taken", "stored"}) = {} /\ At({"stored"}) = {}
  BY DEF GateInit, At
<1> QED
  BY <1>3, <1>4, FS_EmptySet DEF GateTInv, Finite

(* The events not metered yet are a number.                                *)
LEMMA UnmeteredType ==
  ASSUME GateTInv
  PROVE  Unmetered \in Int /\ Unmetered = queue + Cardinality(At({"taken", "stored"})) + awaited
<1>1. Cardinality(At({"taken", "stored"})) \in Nat
  BY FS_CardinalityType DEF GateTInv, Finite
<1> QED
  BY <1>1 DEF Unmetered, At, GateTInv, GateTypeOK

LEMMA LargerOf ==
  ASSUME NEW a \in Int, NEW b \in Int
  PROVE  Max({a, b}) \in Int /\ Max({a, b}) >= a /\ Max({a, b}) >= b
<1>1. \E x \in {a, b} : \A y \in {a, b} : x >= y
  OBVIOUS
<1> QED
  BY <1>1 DEF Max

LEMMA StepGateTInv == GateTInv /\ [GateNext]_gateVars => GateTInv'
<1> SUFFICES ASSUME GateTInv, [GateNext]_gateVars
             PROVE  GateTInv'
  OBVIOUS
<1> USE DEF keyVars, rateVars, workVars, quotaVars
<1>t. GateTypeOK /\ rq \in [Requests -> Reqs]
  BY DEF GateTInv, GateTypeOK, Reqs, Phases
<1>f. ASSUME UNCHANGED wk
      PROVE  Finite'
  BY <1>f DEF GateTInv, Finite, At
<1>1. ASSUME NEW r \in Requests, LookUp(r)
      PROVE  GateTInv'
  <2>1. rq' \in [Requests -> Reqs]
    <3>1. CASE Decides(r, keyCache.found) /\ keyCache.found # None
      <4>1. keyCache.found \in BOOLEAN /\ now \in 0..MaxTime
        BY <1>t, <3>1 DEF GateTypeOK
      <4>2. ASSUME NEW f \in BOOLEAN, Decides(r, f)
            PROVE  rq' \in [Requests -> Reqs]
        <5>1. PICK pc \in NextOf(f) : rq' = KeyStep(rq, r, pc, f, now)
          BY <4>2, Zenon DEF Decides, KeyStep
        <5>2. pc \in Phases
          BY DEF NextOf, Phases
        <5> QED
          BY <1>t, <4>1, <5>1, <5>2, KeyFields
      <4> QED
        BY <3>1, <4>1, <4>2
    <3>2. CASE Goes(r, "read")
      BY <1>t, <3>2 DEF Goes, Reqs, Phases
    <3> QED
      BY <1>1, <3>1, <3>2 DEF LookUp
  <2> QED
    BY <1>1, <1>t, <1>f, <2>1 DEF LookUp, GateTInv, GateTypeOK, Reqs, Phases
<1>2. ASSUME NEW r \in Requests, ReadKey(r)
      PROVE  GateTInv'
  <2>1. rq' \in [Requests -> Reqs]
    <3>1. active \in BOOLEAN /\ now \in 0..MaxTime
      BY <1>t DEF GateTypeOK
    <3> QED
      <4>1. rq' = KeyStep(rq, r, "fill", active, now)
        BY <1>2, Zenon DEF ReadKey, KeyStep
      <4> QED
        BY <1>t, <3>1, <4>1, KeyFields DEF Phases
  <2> QED
    BY <1>2, <1>t, <1>f, <2>1 DEF ReadKey, GateTInv, GateTypeOK, Reqs, Phases
<1>3. ASSUME NEW r \in Requests, FillKey(r)
      PROVE  GateTInv'
  <2>1. rq' \in [Requests -> Reqs]
    BY <1>3, <1>t DEF FillKey, NextOf, Goes, Reqs, Phases
  <2>2. keyCache' \in [found : BOOLEAN \cup {None}, expires : Nat]
    BY <1>3, <1>t, GateAssumption DEF FillKey, GateTypeOK, Reqs
  <2> QED
    BY <1>3, <1>t, <1>f, <2>1, <2>2 DEF FillKey, GateTInv, GateTypeOK, Reqs, Phases
<1>4. ASSUME NEW r \in Requests, CheckQuota(r)
      PROVE  GateTInv'
  <2>1. CASE Answers(r) /\ UNCHANGED backlog
    <3>1. rq' \in [Requests -> Reqs] /\ awaited' \in Int
      BY <1>t, <2>1, NewRequestType DEF Answers, GateTypeOK, Reqs
    <3> QED
      BY <1>4, <1>t, <1>f, <2>1, <3>1 DEF CheckQuota, GateTInv, GateTypeOK, Reqs, Phases
  <2>2. CASE /\ \E n \in 0..MaxItems :
                  /\ rq' = [rq EXCEPT ![r] = [NewRequest EXCEPT !.pc = "rate", !.items = n]]
                  /\ awaited' = awaited + n
             /\ backlog' = Max({backlog, Unmetered})
    <3>1. PICK n \in 0..MaxItems :
            /\ rq' = [rq EXCEPT ![r] = [NewRequest EXCEPT !.pc = "rate", !.items = n]]
            /\ awaited' = awaited + n
      BY <2>2
    <3>2. [NewRequest EXCEPT !.pc = "rate", !.items = n] \in Reqs
      BY <1>t, NewRequestType DEF Reqs, Phases, NewRequest
    <3>3. rq' \in [Requests -> Reqs] /\ awaited' \in Int
      BY <1>t, <3>1, <3>2, GateAssumption DEF GateTypeOK
    <3>4. backlog' \in Nat
      <4>1. backlog \in Nat /\ backlog \in Int /\ Unmetered \in Int
        BY <1>t, UnmeteredType DEF GateTypeOK
      <4>2. Max({backlog, Unmetered}) \in Int /\ Max({backlog, Unmetered}) >= backlog
        BY <4>1, LargerOf, Zenon
      <4> QED
        BY <2>2, <4>1, <4>2
    <3> QED
      BY <1>4, <1>t, <1>f, <3>3, <3>4 DEF CheckQuota, GateTInv, GateTypeOK, Reqs, Phases
  <2> QED
    BY <1>4, <2>1, <2>2 DEF CheckQuota
<1>5. ASSUME NEW r \in Requests, CountRequest(r)
      PROVE  GateTInv'
  <2>1. Window \in Windows /\ Counter(Window) \in Nat
    BY <1>t, WindowIsOne DEF Counter, GateTypeOK
  <2>2. ASSUME NEW pc \in {"set", "bump"}
        PROVE  [rq EXCEPT ![r].pc = pc, ![r].window = Window, ![r].count = Counter(Window)]
                 \in [Requests -> Reqs]
    BY <1>t, <2>1 DEF Reqs, Phases
  <2>3. rq' \in [Requests -> Reqs]
    BY <1>5, <2>2 DEF CountRequest
  <2> QED
    BY <1>5, <1>t, <1>f, <2>3 DEF CountRequest, GateTInv, GateTypeOK, Reqs, Phases
<1>6. ASSUME NEW r \in Requests, BumpCounter(r) \/ SetCounter(r)
      PROVE  GateTInv'
  <2>1. rq[r].window \in Windows /\ 0 \in Windows /\ rq[r].count \in Nat
    BY <1>t, WindowIsOne DEF Reqs
  <2>2. rq' \in [Requests -> Reqs] /\ awaited' \in Int /\ passes' \in [Windows -> Nat]
    <3>1. CASE Answers(r) /\ UNCHANGED passes
      BY <1>t, <3>1, NewRequestType DEF Answers, GateTypeOK, Reqs
    <3>2. CASE Passes(r) /\ UNCHANGED awaited
      <4>1. rq' = [rq EXCEPT ![r].pc = "items", ![r].window = 0, ![r].count = 0]
            /\ passes' = [passes EXCEPT ![rq[r].window] = passes[rq[r].window] + 1]
        BY <3>2 DEF Passes
      <4>2. rq' \in [Requests -> Reqs]
        BY <1>t, <2>1, <4>1 DEF Reqs, Phases
      <4>3. passes' \in [Windows -> Nat]
        BY <1>t, <2>1, <4>1 DEF GateTypeOK
      <4> QED
        BY <1>t, <3>2, <4>2, <4>3 DEF GateTypeOK
    <3> QED
      BY <1>6, <3>1, <3>2 DEF BumpCounter, SetCounter
  <2>3. rate' \in [Windows -> Nat \cup {None}] /\ undone' \in [Windows -> Nat]
    <3> DEFINE m == rq[r].window
    <3>1. PICK v \in Nat : Writes(m, v)
      BY <1>6, <2>1 DEF BumpCounter, SetCounter
    <3>2. rate' = [rate EXCEPT ![m] = v] /\ rate' \in [Windows -> Nat \cup {None}]
      BY <1>t, <2>1, <3>1 DEF Writes, GateTypeOK
    <3>3. PICK u \in Nat : undone' = [undone EXCEPT ![m] = u]
      <4>1. undone[m] \in Nat /\ undone[m] + 1 \in Nat
        BY <1>t, <2>1 DEF GateTypeOK
      <4> QED
        BY <3>1, <4>1 DEF Writes
    <3> QED
      BY <1>t, <2>1, <3>2, <3>3 DEF GateTypeOK
  <2>4. UNCHANGED <<active, keyCache, changedAt, toggles, queue, wk, stored, used, crashes, again,
                    now, backlog>>
    BY <1>6 DEF BumpCounter, SetCounter
  <2> QED
    BY <1>t, <1>f, <2>2, <2>3, <2>4 DEF GateTInv, GateTypeOK, Reqs, Phases
<1>7. ASSUME NEW r \in Requests, SendItem(r)
      PROVE  GateTInv'
  <2>1. rq[r].items - 1 \in 0..MaxItems
    BY <1>7, <1>t, GateAssumption DEF SendItem, Reqs
  <2>2. rq' \in [Requests -> Reqs]
    BY <1>7, <1>t, <2>1 DEF SendItem, Reqs, Phases
  <2>3. queue' \in Nat /\ awaited' \in Int
    BY <1>7, <1>t DEF SendItem, GateTypeOK
  <2> QED
    BY <1>7, <1>t, <1>f, <2>2, <2>3 DEF SendItem, GateTInv, GateTypeOK, Reqs, Phases
<1>8. ASSUME NEW r \in Requests, Answer(r)
      PROVE  GateTInv'
  <2>1. rq' \in [Requests -> Reqs] /\ awaited' \in Int
    BY <1>8, <1>t, NewRequestType DEF Answer, Answers, GateTypeOK, Reqs
  <2> QED
    BY <1>8, <1>t, <1>f, <2>1 DEF Answer, GateTInv, GateTypeOK, Reqs, Phases
<1>9. ASSUME NEW w \in Workers, NEW to \in {"idle", "taken", "stored", "metered"},
             wk' = [wk EXCEPT ![w] = to]
      PROVE  Finite'
  BY <1>9, <1>t, Moved DEF GateTInv, Finite
<1>10. ASSUME NEW w \in Workers, TakeTask(w) \/ StoreTask(w) \/ MeterTask(w) \/ EndTask(w)
       PROVE  GateTInv'
  <2>1. /\ wk' \in [Workers -> {"idle", "taken", "stored", "metered"}]
        /\ queue' \in Nat /\ stored' \in Nat /\ used' \in Nat
    BY <1>10, <1>t DEF TakeTask, StoreTask, MeterTask, EndTask, Moves, GateTypeOK
  <2>2. UNCHANGED <<active, keyCache, changedAt, toggles, rate, passes, undone, crashes, again,
                    rq, now, awaited, backlog>>
    BY <1>10 DEF TakeTask, StoreTask, MeterTask, EndTask
  <2>3. Finite'
    BY <1>10, <1>9 DEF TakeTask, StoreTask, MeterTask, EndTask, Moves
  <2> QED
    BY <1>t, <2>1, <2>2, <2>3 DEF GateTInv, GateTypeOK
<1>11. ASSUME NEW w \in Workers, CrashTask(w)
       PROVE  GateTInv'
  <2>1. Finite'
    BY <1>11, <1>9 DEF CrashTask
  <2> QED
    BY <1>11, <1>t, <2>1, GateAssumption DEF CrashTask, GateTInv, GateTypeOK
<1>12. CASE ToggleKey
  BY <1>12, <1>t, <1>f, GateAssumption DEF ToggleKey, GateTInv, GateTypeOK
<1>13. CASE TickGate
  BY <1>13, <1>t, <1>f, GateAssumption DEF TickGate, GateTInv, GateTypeOK
<1>14. CASE UNCHANGED gateVars
  BY <1>14, <1>t, <1>f DEF gateVars, GateTInv, GateTypeOK
<1> QED
  BY <1>1, <1>2, <1>3, <1>4, <1>5, <1>6, <1>7, <1>8, <1>10, <1>11, <1>12, <1>13, <1>14
  DEF GateNext, Request, Task

(* Every reachable state of the gate is well typed.                        *)
THEOREM GateTypesCorrect == GateSpec => []GateTypeOK
<1>1. GateSpec => []GateTInv
  BY InitGateTInv, StepGateTInv, PTL DEF GateSpec
<1> QED
  BY <1>1, PTL DEF GateTInv

-----------------------------------------------------------------------------
(* The state of the key that decided.                                      *)

(* An entry that is wrong by now was read before the key changed, and was  *)
(* cached no more than MaxFill after that.                                 *)
EntryFresh ==
  /\ changedAt <= now
  /\ keyCache.found # None =>
       /\ keyCache.expires <= now + Minute
       /\ keyCache.found # active => keyCache.expires <= changedAt + MaxFill + Minute

(* So was what a request read and has not cached yet.                      *)
ReadFresh(r) ==
  /\ rq[r].at <= now
  /\ rq[r].pc = "fill" =>
       /\ now <= rq[r].at + MaxFill
       /\ rq[r].found # active => rq[r].at <= changedAt
  /\ Decided(r) /\ rq[r].found # active => rq[r].at < changedAt + MaxFill + Minute

KeyInv == EntryFresh /\ \A r \in Requests : ReadFresh(r)

LEMMA InitKeyInv == GateInit => KeyInv
BY GateAssumption DEF GateInit, KeyInv, EntryFresh, ReadFresh, Decided, NoEntry, NewRequest

(* A request past the quota gate, or answered, says nothing of the key.    *)
LEMMA QuietKey ==
  ASSUME GateTInv, KeyInv, UNCHANGED <<keyVars, now>>, NEW r \in Requests,
         rq'[r].pc \notin {"fill", "quota", "refused"}, rq'[r].at <= now,
         \A s \in Requests \ {r} : rq'[s] = rq[s]
  PROVE  KeyInv'
<1>1. EntryFresh'
  BY DEF KeyInv, EntryFresh, keyVars
<1>2. ReadFresh(r)'
  BY DEF ReadFresh, Decided, keyVars
<1>3. ASSUME NEW s \in Requests \ {r}
      PROVE  ReadFresh(s)'
  BY <1>3 DEF KeyInv, ReadFresh, Decided, keyVars
<1> QED
  BY <1>1, <1>2, <1>3 DEF KeyInv

LEMMA StepKeyInv == GateTInv /\ KeyInv /\ [GateNext]_gateVars => KeyInv'
<1> SUFFICES ASSUME GateTInv, KeyInv, [GateNext]_gateVars
             PROVE  KeyInv'
  OBVIOUS
<1> USE DEF keyVars, rateVars, workVars, quotaVars
<1>t. /\ rq \in [Requests -> Reqs] /\ active \in BOOLEAN
      /\ keyCache \in [found : BOOLEAN \cup {None}, expires : Nat]
      /\ now \in 0..MaxTime /\ changedAt \in 0..MaxTime
  BY DEF GateTInv, GateTypeOK, Reqs, Phases
<1>c. Minute \in Nat \ {0} /\ MaxFill \in Nat /\ MaxTime \in Nat
  BY GateAssumption
<1>k. EntryFresh /\ \A r \in Requests : ReadFresh(r)
  BY DEF KeyInv
<1>1. ASSUME NEW r \in Requests, LookUp(r)
      PROVE  KeyInv'
  <2>1. CASE keyCache.found # None /\ now < keyCache.expires
    <3>1. keyCache.found \in BOOLEAN
      BY <1>t, <2>1
    <3>2. PICK pc \in NextOf(keyCache.found) : rq' = KeyStep(rq, r, pc, keyCache.found, now)
      BY <1>1, <2>1, Zenon DEF LookUp, Decides, KeyStep
    <3>a. pc \in {"quota", "refused"} /\ pc \in Phases
      BY DEF NextOf, Phases
    <3>3. /\ rq'[r].pc \in {"quota", "refused"}
          /\ rq'[r].found = keyCache.found /\ rq'[r].at = now
          /\ \A s \in Requests \ {r} : rq'[s] = rq[s]
      BY <1>t, <3>1, <3>2, <3>a, KeyFields
    <3>4. UNCHANGED <<active, keyCache, changedAt, now>>
      BY <1>1 DEF LookUp
    <3>5. EntryFresh'
      BY <1>k, <3>4 DEF EntryFresh
    <3>6. ReadFresh(r)'
      BY <1>t, <1>c, <1>k, <2>1, <3>3, <3>4 DEF EntryFresh, ReadFresh, Decided
    <3>7. ASSUME NEW s \in Requests \ {r}
          PROVE  ReadFresh(s)'
      BY <1>k, <3>3, <3>4 DEF ReadFresh, Decided
    <3> QED
      BY <3>5, <3>6, <3>7 DEF KeyInv
  <2>2. CASE Goes(r, "read")
    <3>1. /\ rq'[r].pc = "read" /\ rq'[r].at = rq[r].at
          /\ \A s \in Requests \ {r} : rq'[s] = rq[s]
      BY <1>t, <2>2 DEF Goes, Reqs
    <3> QED
      BY <1>1, <1>k, <3>1, QuietKey DEF LookUp, ReadFresh
  <2> QED
    BY <1>1, <2>1, <2>2 DEF LookUp
<1>2. ASSUME NEW r \in Requests, ReadKey(r)
      PROVE  KeyInv'
  <2>1. rq' = KeyStep(rq, r, "fill", active, now)
    BY <1>2, Zenon DEF ReadKey, KeyStep
  <2>2. /\ rq'[r].pc = "fill" /\ rq'[r].found = active /\ rq'[r].at = now
        /\ \A s \in Requests \ {r} : rq'[s] = rq[s]
    BY <1>t, <2>1, KeyFields DEF Phases
  <2>3. UNCHANGED <<active, keyCache, changedAt, now>>
    BY <1>2 DEF ReadKey
  <2>4. EntryFresh'
    BY <1>k, <2>3 DEF EntryFresh
  <2>5. ReadFresh(r)'
    BY <1>t, <1>c, <2>2, <2>3 DEF ReadFresh, Decided
  <2>6. ASSUME NEW s \in Requests \ {r}
        PROVE  ReadFresh(s)'
    BY <1>k, <2>2, <2>3 DEF ReadFresh, Decided
  <2> QED
    BY <2>4, <2>5, <2>6 DEF KeyInv
<1>3. ASSUME NEW r \in Requests, FillKey(r)
      PROVE  KeyInv'
  <2>1. /\ rq'[r].pc \in {"quota", "refused"}
        /\ rq'[r].found = rq[r].found /\ rq'[r].at = rq[r].at
        /\ \A s \in Requests \ {r} : rq'[s] = rq[s]
    BY <1>3, <1>t DEF FillKey, NextOf, Goes, Reqs
  <2>2. /\ rq[r].pc = "fill" /\ rq[r].at \in Nat
        /\ keyCache'.found = rq[r].found /\ keyCache'.expires = now + Minute
        /\ UNCHANGED <<active, changedAt, now>>
    BY <1>3, <1>t, <1>c DEF FillKey, Reqs
  <2>3. EntryFresh'
    BY <1>t, <1>c, <1>k, <2>2 DEF EntryFresh, ReadFresh
  <2>4. ReadFresh(r)'
    BY <1>t, <1>c, <1>k, <2>1, <2>2 DEF ReadFresh, Decided
  <2>5. ASSUME NEW s \in Requests \ {r}
        PROVE  ReadFresh(s)'
    BY <1>k, <2>1, <2>2 DEF ReadFresh, Decided
  <2> QED
    BY <2>3, <2>4, <2>5 DEF KeyInv
<1>4. ASSUME NEW r \in Requests,
             CheckQuota(r) \/ CountRequest(r) \/ BumpCounter(r) \/ SetCounter(r)
             \/ SendItem(r) \/ Answer(r)
      PROVE  KeyInv'
  <2>1. /\ rq'[r].pc \in {"rate", "set", "bump", "items", "answered"} /\ rq'[r].at \in {0, rq[r].at}
        /\ \A s \in Requests \ {r} : rq'[s] = rq[s]
    <3>1. CASE Answers(r)
      BY <1>t, <3>1 DEF Answers, NewRequest, Reqs
    <3>2. CASE CheckQuota(r)
      BY <1>t, <3>1, <3>2, ZenonT(60) DEF CheckQuota, NewRequest, Reqs
    <3>3. CASE CountRequest(r)
      BY <1>t, <3>3 DEF CountRequest, Reqs
    <3>4. CASE BumpCounter(r) \/ SetCounter(r)
      <4>1. Answers(r) \/ Passes(r)
        BY <3>4 DEF BumpCounter, SetCounter
      <4> QED
        BY <1>t, <3>1, <4>1 DEF Passes, Reqs
    <3>5. CASE SendItem(r)
      BY <1>t, <3>5 DEF SendItem, Reqs
    <3>6. CASE Answer(r)
      BY <3>1, <3>6 DEF Answer
    <3> QED
      BY <1>4, <3>2, <3>3, <3>4, <3>5, <3>6
  <2>2. rq'[r].at <= now
    BY <1>t, <1>k, <2>1 DEF ReadFresh
  <2>3. UNCHANGED <<keyVars, now>>
    BY <1>4 DEF CheckQuota, CountRequest, BumpCounter, SetCounter, SendItem, Answer
  <2> QED
    BY <2>1, <2>2, <2>3, QuietKey
<1>5. CASE ToggleKey
  <2>1. EntryFresh'
    BY <1>t, <1>c, <1>k, <1>5 DEF ToggleKey, EntryFresh
  <2>2. ASSUME NEW r \in Requests
        PROVE  ReadFresh(r)'
    <3>1. rq[r].at \in Nat
      BY <1>t, <1>c DEF Reqs
    <3> QED
      BY <1>t, <1>c, <1>k, <1>5, <3>1 DEF ToggleKey, ReadFresh, Decided
  <2> QED
    BY <2>1, <2>2 DEF KeyInv
<1>6. CASE TickGate
  <2>1. EntryFresh'
    BY <1>t, <1>c, <1>k, <1>6 DEF TickGate, EntryFresh
  <2>2. ASSUME NEW r \in Requests
        PROVE  ReadFresh(r)'
    <3>1. rq[r].at \in Nat
      BY <1>t, <1>c DEF Reqs
    <3> QED
      BY <1>t, <1>c, <1>k, <1>6, <3>1 DEF TickGate, ReadFresh, Decided
  <2> QED
    BY <2>1, <2>2 DEF KeyInv
<1>7. ASSUME UNCHANGED <<active, keyCache, changedAt, now, rq>>
      PROVE  KeyInv'
  BY <1>7, <1>k DEF KeyInv, EntryFresh, ReadFresh, Decided
<1>8. ASSUME NEW w \in Workers, Task(w)
      PROVE  KeyInv'
  BY <1>7, <1>8 DEF Task, TakeTask, StoreTask, MeterTask, EndTask, CrashTask
<1>9. CASE UNCHANGED gateVars
  BY <1>7, <1>9 DEF gateVars
<1> QED
  BY <1>1, <1>2, <1>3, <1>4, <1>5, <1>6, <1>8, <1>9 DEF GateNext, Request

(* A key that was deactivated lets nothing in a minute later, plus the     *)
(* time a slow request holds what it read before it caches it.             *)
THEOREM KeyStateIsFresh == GateSpec => []KeyDecisionFresh
<1>1. GateSpec => [](GateTInv /\ KeyInv)
  BY InitGateTInv, StepGateTInv, InitKeyInv, StepKeyInv, PTL DEF GateSpec
<1>2. KeyInv => KeyDecisionFresh
  BY DEF KeyInv, ReadFresh, KeyDecisionFresh
<1> QED
  BY <1>1, <1>2, PTL

-----------------------------------------------------------------------------
(* The rate limit and the quota.                                           *)

Lets(m) == RateLimit * undone[m]

(* What passed in a window is at most its counter, and at most RateLimit,  *)
(* but for what each write that undid counts let through again.            *)
Counted(m) == passes[m] <= Lets(m) + Counter(m) /\ passes[m] <= Lets(m) + RateLimit

RateInv == \A m \in Windows : Counted(m)

LimitInv == RateInv /\ OvershootBounded

LEMMA LetsType ==
  ASSUME GateTInv, NEW m \in Windows
  PROVE  Lets(m) \in Nat /\ Counter(m) \in Nat
<1>1. RateLimit \in Nat /\ undone[m] \in Nat
  BY GateAssumption DEF GateTInv, GateTypeOK
<1>2. Counter(m) \in Nat
  BY DEF GateTInv, GateTypeOK, Counter
<1>3. \A a, b \in Nat : a * b \in Nat
  OBVIOUS
<1> QED
  BY <1>1, <1>2, <1>3 DEF Lets

LEMMA InitLimitInv == GateInit => LimitInv
<1> SUFFICES ASSUME GateInit
             PROVE  LimitInv
  OBVIOUS
<1>1. RateInv
  <2>1. RateLimit \in Nat /\ RateLimit * 0 = 0
    BY GateAssumption
  <2>2. ASSUME NEW m \in Windows
        PROVE  Counted(m)
    <3>1. rate[m] = None /\ passes[m] = 0 /\ undone[m] = 0
      BY DEF GateInit
    <3> QED
      BY <2>1, <3>1 DEF Counted, Counter, Lets
  <2> QED
    BY <2>2 DEF RateInv
<1>2. Unmetered = 0
  <2>1. {w \in Workers : wk[w] \in {"taken", "stored"}} = {}
    BY DEF GateInit
  <2> QED
    BY <2>1, FS_EmptySet DEF Unmetered, GateInit
<1> QED
  BY <1>1, <1>2, GateAssumption DEF GateInit, LimitInv, OvershootBounded

LEMMA StepRateInv == GateTInv /\ RateInv /\ [GateNext]_gateVars => RateInv'
<1> SUFFICES ASSUME GateTInv, RateInv, [GateNext]_gateVars
             PROVE  RateInv'
  OBVIOUS
<1> USE DEF keyVars, rateVars, workVars, quotaVars
<1>t. /\ rq \in [Requests -> Reqs]
      /\ rate \in [Windows -> Nat \cup {None}]
      /\ passes \in [Windows -> Nat] /\ undone \in [Windows -> Nat]
  BY DEF GateTInv, GateTypeOK, Reqs, Phases
<1>c. RateLimit \in Nat \ {0} /\ None \notin Int
  BY GateAssumption
<1>2. ASSUME NEW r \in Requests, BumpCounter(r) \/ SetCounter(r)
      PROVE  RateInv'
  <2> DEFINE n == rq[r].window
  <2>1. n \in Windows
    BY <1>t DEF Reqs
  <2>2. PICK v \in Nat : /\ v >= 1 /\ Writes(n, v)
                         /\ UNCHANGED passes \/ (Passes(r) /\ v <= RateLimit)
    <3>1. CASE BumpCounter(r)
      <4>1. rq[r].count + 1 \in Nat /\ rq[r].count + 1 >= 1
        BY <1>t DEF Reqs
      <4>2. UNCHANGED passes \/ (Passes(r) /\ rq[r].count + 1 <= RateLimit)
        BY <1>c, <3>1, <4>1 DEF BumpCounter
      <4> QED
        BY <3>1, <4>1, <4>2 DEF BumpCounter
    <3>2. CASE SetCounter(r)
      BY <1>c, <3>2 DEF SetCounter
    <3> QED
      BY <1>2, <3>1, <3>2
  <2>3. /\ rate' = [rate EXCEPT ![n] = v]
        /\ undone' = [undone EXCEPT ![n] = IF v = Counter(n) + 1 THEN undone[n] ELSE undone[n] + 1]
        /\ \/ UNCHANGED passes
           \/ passes' = [passes EXCEPT ![n] = passes[n] + 1] /\ v <= RateLimit
    <3>1. UNCHANGED passes \/ (passes' = [passes EXCEPT ![n] = passes[n] + 1] /\ v <= RateLimit)
      BY <2>2 DEF Passes
    <3>2. /\ rate' = [rate EXCEPT ![n] = v]
          /\ undone' = [undone EXCEPT ![n] = IF v = Counter(n) + 1 THEN undone[n] ELSE undone[n] + 1]
      <4>1. Writes(n, v)
        BY <2>2
      <4> QED
        BY <4>1 DEF Writes
    <3> QED
      BY <3>1, <3>2
  <2>4. ASSUME NEW m \in Windows
        PROVE  Counted(m)'
    <3>1. Lets(m) \in Nat /\ Counter(m) \in Nat /\ Counted(m)
      BY LetsType DEF RateInv
    <3>2. CASE m = n
      <4>1. Counter(m)' = v
        BY <1>t, <1>c, <2>1, <2>3, <3>2 DEF Counter
      <4>2. passes'[m] = passes[m] \/ (passes'[m] = passes[m] + 1 /\ v <= RateLimit)
        BY <1>t, <2>1, <2>3, <3>2
      <4>3. CASE v = Counter(m) + 1
        <5>1. undone'[m] = undone[m]
          BY <1>t, <2>1, <2>3, <3>2, <4>3
        <5>2. Lets(m)' = Lets(m)
          BY <5>1 DEF Lets
        <5> QED
          BY <1>t, <1>c, <3>1, <4>1, <4>2, <4>3, <5>2 DEF Counted
      <4>4. CASE v # Counter(m) + 1
        <5>1. undone'[m] = undone[m] + 1 /\ undone[m] \in Nat
          BY <1>t, <2>1, <2>3, <3>2, <4>4
        <5>2. \A a, b \in Nat : a * (b + 1) = a * b + a
          OBVIOUS
        <5>3. Lets(m)' = Lets(m) + RateLimit
          BY <1>c, <5>1, <5>2 DEF Lets
        <5>4. passes[m] \in Nat /\ RateLimit \in Nat /\ RateLimit >= 1 /\ v \in Nat /\ v >= 1
          <6>1. v \in Nat /\ v >= 1
            BY <2>2
          <6> QED
            BY <1>t, <1>c, <6>1
        <5>5. passes'[m] <= passes[m] + 1 /\ passes'[m] \in Nat
          BY <4>2, <5>4
        <5> QED
          BY <3>1, <4>1, <5>3, <5>4, <5>5 DEF Counted
      <4> QED
        BY <4>3, <4>4
    <3>3. CASE m # n
      <4>1. undone'[m] = undone[m] /\ rate'[m] = rate[m] /\ passes'[m] = passes[m]
        BY <1>t, <2>1, <2>3, <3>3
      <4> QED
        BY <3>1, <4>1 DEF Counted, Counter, Lets
    <3> QED
      BY <3>2, <3>3
  <2> QED
    BY <2>4 DEF RateInv
<1>3. ASSUME UNCHANGED rateVars
      PROVE  RateInv'
  BY <1>3 DEF RateInv, Counted, Counter, Lets
<1>4. ASSUME NEW r \in Requests,
             LookUp(r) \/ ReadKey(r) \/ FillKey(r) \/ CheckQuota(r) \/ CountRequest(r)
             \/ SendItem(r) \/ Answer(r)
      PROVE  RateInv'
  BY <1>3, <1>4 DEF LookUp, ReadKey, FillKey, CheckQuota, CountRequest, SendItem, Answer
<1>5. ASSUME NEW w \in Workers, Task(w)
      PROVE  RateInv'
  BY <1>3, <1>5 DEF Task, TakeTask, StoreTask, MeterTask, EndTask, CrashTask
<1>6. CASE ToggleKey \/ TickGate \/ UNCHANGED gateVars
  BY <1>3, <1>6 DEF ToggleKey, TickGate, gateVars
<1> QED
  BY <1>2, <1>4, <1>5, <1>6 DEF GateNext, Request

(* What is used and what may still be used together grow only when a       *)
(* request is let in, and by a delivery of what was metered already.       *)
LEMMA NoOvershoot ==
  ASSUME GateTInv, GateTInv', OvershootBounded, UNCHANGED backlog,
         used' + Unmetered' - again' <= used + Unmetered - again
  PROVE  OvershootBounded'
<1>1. Unmetered \in Int /\ Unmetered' \in Int
  <2>1. Cardinality(At({"taken", "stored"})') \in Nat
    BY FS_CardinalityType DEF GateTInv, Finite
  <2> QED
    BY <2>1, UnmeteredType DEF Unmetered, At, GateTInv, GateTypeOK
<1>2. used \in Int /\ used' \in Int /\ again \in Int /\ again' \in Int /\ backlog \in Int
  BY DEF GateTInv, GateTypeOK
<1>3. Quota \in Int /\ MaxItems \in Int
  BY GateAssumption
<1>4. used + Unmetered <= Quota - 1 + backlog + MaxItems + again
  BY DEF OvershootBounded
<1>5. \A u, v, n, m, a, c, b, q, i \in Int :
        u + n <= q - 1 + b + i + a /\ v + m - c <= u + n - a => v + m <= q - 1 + b + i + c
  OBVIOUS
<1>6. used' + Unmetered' <= Quota - 1 + backlog + MaxItems + again'
  BY <1>1, <1>2, <1>3, <1>4, <1>5, ZenonT(60)
<1> QED
  BY <1>6 DEF OvershootBounded

LEMMA StepOvershoot == GateTInv /\ OvershootBounded /\ [GateNext]_gateVars => OvershootBounded'
<1> SUFFICES ASSUME GateTInv, OvershootBounded, [GateNext]_gateVars
             PROVE  OvershootBounded'
  OBVIOUS
<1> USE DEF keyVars, rateVars, workVars, quotaVars
<1> DEFINE busy == At({"taken", "stored"})
<1>t. /\ queue \in Nat /\ used \in Nat /\ again \in Nat /\ backlog \in Nat /\ awaited \in Int
      /\ rq \in [Requests -> Reqs] /\ wk \in [Workers -> {"idle", "taken", "stored", "metered"}]
      /\ GateTypeOK /\ IsFiniteSet(busy) /\ Cardinality(busy) \in Nat
  BY FS_CardinalityType DEF GateTInv, GateTypeOK, Finite, Reqs, Phases
<1>p. GateTInv'
  BY StepGateTInv
<1>u. /\ Unmetered = queue + Cardinality(busy) + awaited
      /\ Unmetered' = queue' + Cardinality(busy') + awaited'
  BY DEF Unmetered, At
<1>b. UNCHANGED wk => busy' = busy
  BY DEF At
<1> HIDE DEF busy
<1>1. ASSUME NEW r \in Requests, Answers(r),
             UNCHANGED <<queue, wk, used, again, backlog>>
      PROVE  OvershootBounded'
  <2>1. rq[r].items \in Nat /\ awaited' = awaited - rq[r].items
    BY <1>1, <1>t, GateAssumption DEF Answers, Reqs
  <2> QED
    BY <1>1, <1>t, <1>p, <1>u, <1>b, <2>1, NoOvershoot
<1>2. ASSUME UNCHANGED <<queue, wk, used, again, backlog, awaited>>
      PROVE  OvershootBounded'
  BY <1>2, <1>t, <1>p, <1>u, <1>b, NoOvershoot
<1>3. ASSUME NEW r \in Requests, CheckQuota(r)
      PROVE  OvershootBounded'
  <2>1. CASE used >= Quota
    BY <1>1, <1>3, <2>1 DEF CheckQuota
  <2>2. CASE ~(used >= Quota)
    <3>1. PICK n \in 0..MaxItems : awaited' = awaited + n
      BY <1>3, <2>2 DEF CheckQuota
    <3>2. /\ UNCHANGED <<queue, wk, used, again>>
          /\ backlog' = Max({backlog, Unmetered})
      BY <1>3, <2>2 DEF CheckQuota
    <3>3. Unmetered \in Int /\ Unmetered' = Unmetered + n
      BY <1>t, <1>u, <1>b, <3>1, <3>2, GateAssumption
    <3>4. backlog' \in Int /\ backlog' >= Unmetered
      <4>1. backlog \in Int
        BY <1>t
      <4> QED
        BY <3>2, <3>3, <4>1, LargerOf, Zenon
    <3>5. Quota \in Nat /\ MaxItems \in Nat /\ used <= Quota - 1 /\ n <= MaxItems /\ n \in Nat
      BY <1>t, <2>2, GateAssumption
    <3> QED
      BY <1>t, <3>2, <3>3, <3>4, <3>5 DEF OvershootBounded
  <2> QED
    BY <2>1, <2>2
<1>4. ASSUME NEW r \in Requests, BumpCounter(r)
      PROVE  OvershootBounded'
  BY <1>1, <1>2, <1>4 DEF BumpCounter
<1>5. ASSUME NEW r \in Requests, SendItem(r)
      PROVE  OvershootBounded'
  <2>1. /\ queue' \in {queue, queue + 1} /\ awaited' = awaited - 1
        /\ UNCHANGED <<wk, used, again, backlog>>
    BY <1>5 DEF SendItem
  <2> QED
    BY <1>t, <1>p, <1>u, <1>b, <2>1, NoOvershoot
<1>6. ASSUME NEW r \in Requests, Answer(r)
      PROVE  OvershootBounded'
  BY <1>1, <1>6 DEF Answer
<1>7. ASSUME NEW r \in Requests, LookUp(r) \/ ReadKey(r) \/ FillKey(r) \/ CountRequest(r) \/ SetCounter(r)
      PROVE  OvershootBounded'
  BY <1>2, <1>7 DEF LookUp, ReadKey, FillKey, CountRequest, SetCounter
<1>m. ASSUME NEW w \in Workers, NEW to, wk' = [wk EXCEPT ![w] = to]
      PROVE  /\ Cardinality(busy') \in Nat
             /\ (wk[w] \in {"taken", "stored"} <=> to \in {"taken", "stored"}) =>
                  Cardinality(busy') = Cardinality(busy)
             /\ wk[w] \in {"taken", "stored"} /\ to \notin {"taken", "stored"} =>
                  Cardinality(busy') = Cardinality(busy) - 1
             /\ wk[w] \notin {"taken", "stored"} /\ to \in {"taken", "stored"} =>
                  Cardinality(busy') = Cardinality(busy) + 1
  BY <1>m, <1>t, Moved DEF busy
<1>8. ASSUME NEW w \in Workers, TakeTask(w)
      PROVE  OvershootBounded'
  <2>1. Cardinality(busy') = Cardinality(busy) + 1
    BY <1>8, <1>m, <1>t DEF TakeTask, Moves
  <2> QED
    BY <1>8, <1>t, <1>p, <1>u, <2>1, NoOvershoot DEF TakeTask
<1>9. ASSUME NEW w \in Workers, StoreTask(w)
      PROVE  OvershootBounded'
  <2>1. Cardinality(busy') = Cardinality(busy)
    BY <1>9, <1>m, <1>t DEF StoreTask, Moves
  <2> QED
    BY <1>9, <1>t, <1>p, <1>u, <2>1, NoOvershoot DEF StoreTask
<1>10. ASSUME NEW w \in Workers, MeterTask(w)
       PROVE  OvershootBounded'
  <2>1. Cardinality(busy') = Cardinality(busy) - 1
    <3>1. wk[w] \in {"taken", "stored"} /\ wk' = [wk EXCEPT ![w] = "metered"]
      BY <1>10 DEF MeterTask, Moves
    <3>2. "metered" \notin {"taken", "stored"}
      OBVIOUS
    <3> QED
      BY <1>m, <3>1, <3>2, Zenon
  <2> QED
    BY <1>10, <1>t, <1>p, <1>u, <2>1, NoOvershoot DEF MeterTask
<1>11. ASSUME NEW w \in Workers, EndTask(w)
       PROVE  OvershootBounded'
  <2>1. Cardinality(busy') \in Nat /\ Cardinality(busy') <= Cardinality(busy)
    BY <1>11, <1>m, <1>t DEF EndTask, Moves
  <2> QED
    BY <1>11, <1>t, <1>p, <1>u, <2>1, NoOvershoot DEF EndTask
<1>12. ASSUME NEW w \in Workers, CrashTask(w)
       PROVE  OvershootBounded'
  <2>1. CASE wk[w] = "metered"
    <3>1. Cardinality(busy') = Cardinality(busy)
      <4>1. wk' = [wk EXCEPT ![w] = "idle"]
        BY <1>12 DEF CrashTask
      <4>2. ~(wk[w] \in {"taken", "stored"}) /\ ~("idle" \in {"taken", "stored"})
        BY <2>1
      <4> QED
        BY <1>m, <4>1, <4>2, Zenon
    <3> QED
      BY <1>12, <1>t, <1>p, <1>u, <2>1, <3>1, NoOvershoot DEF CrashTask
  <2>2. CASE wk[w] # "metered"
    <3>1. Cardinality(busy') = Cardinality(busy) - 1
      <4>1. wk[w] \in {"taken", "stored"} /\ wk' = [wk EXCEPT ![w] = "idle"]
        BY <1>12, <1>t, <2>2 DEF CrashTask
      <4>2. "idle" \notin {"taken", "stored"}
        OBVIOUS
      <4> QED
        BY <1>m, <4>1, <4>2, Zenon
    <3> QED
      BY <1>12, <1>t, <1>p, <1>u, <2>2, <3>1, NoOvershoot DEF CrashTask
  <2> QED
    BY <2>1, <2>2
<1>13. CASE ToggleKey \/ TickGate \/ UNCHANGED gateVars
  BY <1>2, <1>13 DEF ToggleKey, TickGate, gateVars
<1> QED
  BY <1>3, <1>4, <1>5, <1>6, <1>7, <1>8, <1>9, <1>10, <1>11, <1>12, <1>13
  DEF GateNext, Request, Task

(* Races alone exceed the limits of the endpoint, and by no more than what *)
(* raced: requests whose write of the counter undid those of others, and   *)
(* the events let in and not metered when the quota was last found free.   *)
THEOREM OnlyRacesExceedLimits == GateSpec => []LimitsBounded
<1>1. GateSpec => [](GateTInv /\ LimitInv)
  <2>1. GateTInv /\ LimitInv /\ [GateNext]_gateVars => GateTInv' /\ LimitInv'
    BY StepGateTInv, StepRateInv, StepOvershoot DEF LimitInv
  <2> QED
    BY <2>1, InitGateTInv, InitLimitInv, PTL DEF GateSpec
<1>2. GateTInv /\ LimitInv => LimitsBounded
  <2> SUFFICES ASSUME GateTInv, LimitInv
               PROVE  LimitsBounded
    OBVIOUS
  <2>1. ASSUME NEW m \in Windows
        PROVE  passes[m] <= RateLimit * (1 + undone[m])
    <3>1. passes[m] <= Lets(m) + RateLimit
      BY DEF LimitInv, RateInv, Counted
    <3>2. RateLimit \in Nat /\ undone[m] \in Nat
      BY GateAssumption DEF GateTInv, GateTypeOK
    <3>3. \A a, b \in Nat : a * (1 + b) = a * b + a
      OBVIOUS
    <3> QED
      BY <3>1, <3>2, <3>3 DEF Lets
  <2> QED
    BY <2>1 DEF LimitInv, LimitsBounded, RateBounded
<1> QED
  BY <1>1, <1>2, PTL

-----------------------------------------------------------------------------
(* Billing.                                                                *)

LEMMA StepBilled == GateTInv /\ BilledWasStored /\ [GateNext]_gateVars => BilledWasStored'
<1> SUFFICES ASSUME GateTInv, BilledWasStored, [GateNext]_gateVars
             PROVE  BilledWasStored'
  OBVIOUS
<1> USE DEF keyVars, rateVars, workVars, quotaVars
<1> DEFINE owed == At({"stored"})
<1>t. /\ used \in Nat /\ stored \in Nat
      /\ wk \in [Workers -> {"idle", "taken", "stored", "metered"}]
      /\ GateTypeOK /\ IsFiniteSet(owed) /\ Cardinality(owed) \in Nat
  BY FS_CardinalityType DEF GateTInv, GateTypeOK, Finite
<1>u. owed = {w \in Workers : wk[w] = "stored"} /\ owed' = {w \in Workers : wk'[w] = "stored"}
  BY DEF At
<1>b. used + Cardinality(owed) <= stored
  BY <1>u DEF BilledWasStored
<1>g. used' + Cardinality(owed') <= stored' => BilledWasStored'
  BY <1>u DEF BilledWasStored
<1> HIDE DEF owed
<1>m. ASSUME NEW w \in Workers, NEW to, wk' = [wk EXCEPT ![w] = to]
      PROVE  /\ Cardinality(owed') \in Nat
             /\ (wk[w] \in {"stored"} <=> to \in {"stored"}) =>
                  Cardinality(owed') = Cardinality(owed)
             /\ wk[w] \in {"stored"} /\ to \notin {"stored"} =>
                  Cardinality(owed') = Cardinality(owed) - 1
             /\ wk[w] \notin {"stored"} /\ to \in {"stored"} =>
                  Cardinality(owed') = Cardinality(owed) + 1
  BY <1>m, <1>t, Moved DEF owed
<1>1. ASSUME UNCHANGED <<wk, used, stored>>
      PROVE  BilledWasStored'
  BY <1>1 DEF BilledWasStored
<1>2. ASSUME NEW w \in Workers, StoreTask(w)
      PROVE  BilledWasStored'
  <2>1. Cardinality(owed') = Cardinality(owed) + 1
    BY <1>2, <1>m, <1>t DEF StoreTask, Moves
  <2> QED
    BY <1>2, <1>t, <1>b, <1>g, <2>1 DEF StoreTask
<1>3. ASSUME NEW w \in Workers, MeterTask(w)
      PROVE  BilledWasStored'
  <2>1. Cardinality(owed') = Cardinality(owed) - 1
    <3>1. wk[w] \in {"stored"} /\ wk' = [wk EXCEPT ![w] = "metered"]
      BY <1>3 DEF MeterTask, Moves
    <3>2. "metered" \notin {"stored"}
      OBVIOUS
    <3> QED
      BY <1>m, <3>1, <3>2, Zenon
  <2> QED
    BY <1>3, <1>t, <1>b, <1>g, <2>1 DEF MeterTask
<1>4. ASSUME NEW w \in Workers, TakeTask(w) \/ EndTask(w) \/ CrashTask(w)
      PROVE  BilledWasStored'
  <2>1. Cardinality(owed') \in Nat /\ Cardinality(owed') <= Cardinality(owed)
    <3>1. PICK to \in {"idle", "taken"} : wk' = [wk EXCEPT ![w] = to]
      BY <1>4 DEF TakeTask, EndTask, CrashTask, Moves
    <3>2. to \notin {"stored"}
      OBVIOUS
    <3>3. /\ Cardinality(owed') \in Nat
          /\ Cardinality(owed') = Cardinality(owed) \/ Cardinality(owed') = Cardinality(owed) - 1
      BY <1>m, <3>1, <3>2, Zenon
    <3> QED
      BY <1>t, <3>3
  <2>2. UNCHANGED <<used, stored>>
    BY <1>4 DEF TakeTask, EndTask, CrashTask
  <2> QED
    BY <1>t, <1>b, <1>g, <2>1, <2>2
<1>5. ASSUME NEW r \in Requests, Request(r)
      PROVE  BilledWasStored'
  BY <1>1, <1>5 DEF Request, LookUp, ReadKey, FillKey, CheckQuota, CountRequest, BumpCounter, SetCounter,
                    SendItem, Answer
<1>6. CASE ToggleKey \/ TickGate \/ UNCHANGED gateVars
  BY <1>1, <1>6 DEF ToggleKey, TickGate, gateVars
<1> QED
  BY <1>2, <1>3, <1>4, <1>5, <1>6 DEF GateNext, Task

(* No event is metered that was not stored before, whichever worker dies   *)
(* between the two.                                                        *)
THEOREM NothingBilledUnstored == GateSpec => []BilledWasStored
<1>1. GateInit => BilledWasStored
  <2> SUFFICES ASSUME GateInit
               PROVE  BilledWasStored
    OBVIOUS
  <2>1. {w \in Workers : wk[w] = "stored"} = {}
    BY DEF GateInit
  <2> QED
    BY <2>1, FS_EmptySet DEF GateInit, BilledWasStored
<1> QED
  BY <1>1, InitGateTInv, StepGateTInv, StepBilled, PTL DEF GateSpec

(***************************************************************************)
(* UsageMeter                                                              *)
(***************************************************************************)
(* What a counter or a record counts is a number.                          *)
LEMMA CountNumber == ASSUME NEW v \in Int \cup {Missing} PROVE Count(v) \in Int
  BY DEF Count

-----------------------------------------------------------------------------
(* Type correctness: every value of the meter keeps its type.              *)
THEOREM MeterTypeCorrect == MeterSpec => []MeterTypeOK
<1>1. MeterInit => MeterTypeOK
  <2>1. 0 \in Periods
    BY MeterAssumption DEF MeterAssumption, Periods
  <2>2. IdleCall \in [pc : {"idle", "seed", "add", "incr", "set"}, key : Periods, base : Int]
    BY <2>1 DEF IdleCall
  <2>3. IdleFlush \in [pc : {"idle", "write"}, key : Periods, value : Int]
    BY <2>1 DEF IdleFlush
  <2> SUFFICES ASSUME MeterInit PROVE MeterTypeOK
    OBVIOUS
  <2> USE DEF MeterInit
  <2>4. counter \in [Periods -> Int \cup {Missing}] /\ record \in [Periods -> Int \cup {Missing}]
    OBVIOUS
  <2>5. mt \in [Callers -> [pc : {"idle", "seed", "add", "incr", "set"}, key : Periods, base : Int]]
    BY <2>2
  <2>6. metered \in [Periods -> Int] /\ lost \in [Periods -> Int]
    OBVIOUS
  <2> QED BY <2>1, <2>3, <2>4, <2>5, <2>6 DEF MeterTypeOK
<1>2. MeterTypeOK /\ [MeterNext]_meterVars => MeterTypeOK'
  <2> SUFFICES ASSUME MeterTypeOK, [MeterNext]_meterVars PROVE MeterTypeOK'
    OBVIOUS
  <2> USE DEF MeterTypeOK
  <2>1. ASSUME NEW w \in Callers, NEW call \in [pc : {"idle", "seed", "add", "incr", "set"}, key : Periods, base : Int], Step(w, call)
        PROVE mt' \in [Callers -> [pc : {"idle", "seed", "add", "incr", "set"}, key : Periods, base : Int]]
    BY <2>1 DEF Step
  <2>2. IdleCall \in [pc : {"idle", "seed", "add", "incr", "set"}, key : Periods, base : Int]
    BY MeterAssumption DEF MeterAssumption, IdleCall, Periods
  <2>3. ASSUME NEW w \in Callers, NEW key \in Periods, Increment(w, key)
        PROVE /\ counter' \in [Periods -> Int \cup {Missing}]
              /\ metered' \in [Periods -> Int]
              /\ mt' \in [Callers -> [pc : {"idle", "seed", "add", "incr", "set"}, key : Periods, base : Int]]
    BY <2>1, <2>2, <2>3 DEF Increment
  <2>4. ASSUME NEW w \in Callers, MeterIncr(w) PROVE MeterTypeOK'
    <3>1. CASE Increment(w, period)
      BY <2>3, <2>4, <3>1 DEF MeterIncr
    <3>2. CASE Step(w, [pc |-> "seed", key |-> period, base |-> 0]) /\ UNCHANGED <<counter, metered>>
      BY <2>1, <2>4, <3>2 DEF MeterIncr
    <3> QED BY <2>4, <3>1, <3>2 DEF MeterIncr
  <2>5. ASSUME NEW w \in Callers, MeterSeed(w) PROVE MeterTypeOK'
    <3>1. Count(record[period]) \in Int
      BY CountNumber
    <3> QED BY <2>1, <2>5, <3>1 DEF MeterSeed, SeedWith, storeVars
  <2>6. ASSUME NEW w \in Callers, MeterAdd(w) PROVE MeterTypeOK'
    <3>1. [mt[w] EXCEPT !.pc = "incr"] \in [pc : {"idle", "seed", "add", "incr", "set"}, key : Periods, base : Int]
      OBVIOUS
    <3> QED BY <2>1, <2>6, <3>1 DEF MeterAdd
  <2>7. ASSUME NEW w \in Callers, MeterIncrAgain(w) PROVE MeterTypeOK'
    <3>1. CASE Increment(w, mt[w].key)
      BY <2>3, <2>7, <3>1 DEF MeterIncrAgain
    <3>2. CASE Step(w, [mt[w] EXCEPT !.pc = "set"]) /\ UNCHANGED <<counter, metered>>
      <4>1. [mt[w] EXCEPT !.pc = "set"] \in [pc : {"idle", "seed", "add", "incr", "set"}, key : Periods, base : Int]
        OBVIOUS
      <4> QED BY <2>1, <2>7, <3>2, <4>1 DEF MeterIncrAgain
    <3> QED BY <2>7, <3>1, <3>2 DEF MeterIncrAgain
  <2>8. ASSUME NEW w \in Callers, MeterSet(w) PROVE MeterTypeOK'
    BY <2>1, <2>2, <2>8 DEF MeterSet
  <2>9. ASSUME NEW w \in Callers, MeterAbandon(w) PROVE MeterTypeOK'
    BY <2>1, <2>2, <2>9 DEF MeterAbandon, storeVars
  <2>10. CASE FlushRead
    BY <2>10 DEF FlushRead, storeVars
  <2>11. CASE FlushWrite
    BY <2>11, MeterAssumption DEF MeterAssumption, FlushWrite, IdleFlush, Periods
  <2>12. CASE Rollover
    BY <2>12, MeterAssumption DEF MeterAssumption, Rollover, Periods, storeVars
  <2>13. ASSUME NEW p \in Periods, Evict(p) PROVE MeterTypeOK'
    <3>1. Count(record[p]) \in Int
      BY CountNumber
    <3> QED BY <2>13, <3>1 DEF Evict
  <2>14. CASE UNCHANGED meterVars
    BY <2>14 DEF meterVars
  <2> QED
    BY <2>4, <2>5, <2>6, <2>7, <2>8, <2>9, <2>10, <2>11, <2>12, <2>13, <2>14
    DEF MeterNext, Meter
<1> QED
  BY <1>1, <1>2, PTL DEF MeterSpec

-----------------------------------------------------------------------------
(* The inductive invariant: MeterInv holds in every reachable state.       *)

LEMMA MeterInvInit == MeterInit => MeterInv
<1> SUFFICES ASSUME MeterInit PROVE MeterInv
  OBVIOUS
<1> USE DEF MeterInit
<1>1. 0 \in Periods /\ \A p \in Periods : p \in Int
  BY MeterAssumption DEF MeterAssumption, Periods
<1>2. \A p \in Periods : Count(record[p]) = 0
  BY DEF Count
<1>3. FutureUntouched
  BY <1>1 DEF FutureUntouched, IdleCall, IdleFlush
<1>4. UsageExact
  BY <1>1, <1>2 DEF UsageExact, GetUsage
<1>5. RecordCovered
  BY <1>1, <1>2 DEF RecordCovered
<1>6. SeedsCurrent
  BY DEF SeedsCurrent, IdleCall
<1>7. FlushCovered
  BY <1>1, <1>2 DEF FlushCovered, IdleFlush
<1> QED
  BY <1>3, <1>4, <1>5, <1>6, <1>7 DEF MeterInv

(* A completed increment adds one to the counter and to what was metered.  *)
LEMMA IncrementKeeps ==
  ASSUME MeterTypeOK, MeterInv, NEW w \in Callers, NEW key \in Periods, key <= period,
         Increment(w, key), UNCHANGED <<period, record, fl, lost, torn>>
  PROVE  MeterInv'
<1> USE DEF MeterTypeOK, Increment, Step
<1>1. \A p \in Periods : p \in Int
  BY MeterAssumption DEF MeterAssumption, Periods
<1>2. mt'[w] = IdleCall /\ \A v \in Callers : v # w => mt'[v] = mt[v]
  OBVIOUS
<1>3. /\ counter'[key] = counter[key] + 1 /\ metered'[key] = metered[key] + 1
      /\ \A p \in Periods : p # key => counter'[p] = counter[p] /\ metered'[p] = metered[p]
  OBVIOUS
<1>4. counter[key] \in Int /\ counter'[key] # Missing
  BY <1>3, MeterAssumption DEF MeterAssumption
<1>5. \A p \in Periods : Count(record[p]) \in Int
  BY CountNumber
<1>6. FutureUntouched'
  <2>1. FutureUntouched /\ period >= 0
    BY MeterAssumption DEF MeterInv, Periods, MeterAssumption
  <2>2. \A p \in Periods : p > period =>
          counter'[p] = Missing /\ record[p] = Missing /\ metered'[p] = 0 /\ lost[p] = 0
    BY <1>1, <1>3, <2>1 DEF FutureUntouched
  <2>3. \A v \in Callers : mt'[v].key <= period
    BY <1>2, <2>1 DEF FutureUntouched, IdleCall
  <2>4. fl.key <= period
    BY <2>1 DEF FutureUntouched
  <2> QED BY <2>2, <2>3, <2>4 DEF FutureUntouched
<1>7. UsageExact'
  <2>1. CASE key = period
    BY <1>3, <1>4, <2>1 DEF MeterInv, UsageExact, GetUsage
  <2>2. CASE key # period
    BY <1>3, <2>2 DEF MeterInv, UsageExact, GetUsage
  <2> QED BY <2>1, <2>2
<1>8. RecordCovered'
  BY <1>3, <1>5 DEF MeterInv, RecordCovered
<1>9. ~torn => SeedsCurrent'
  BY <1>2, <1>3, <1>4 DEF MeterInv, SeedsCurrent, IdleCall
<1>10. ~torn => FlushCovered'
  <2> SUFFICES ASSUME ~torn PROVE FlushCovered'
    OBVIOUS
  <2>1. FlushCovered
    BY DEF MeterInv
  <2>2. \A p \in Periods : metered[p] \in Int /\ lost[p] \in Int /\ metered'[p] >= metered[p]
    BY <1>3
  <2>3. lost'[period'] >= 0 /\ Count(record'[period']) <= metered'[period'] - lost'[period']
    BY <2>1, <2>2, <1>5 DEF FlushCovered
  <2>4. ASSUME fl.pc = "write" PROVE fl.value <= metered'[fl.key]
    BY <2>1, <2>2, <2>4 DEF FlushCovered
  <2>5. ASSUME fl.pc = "write", fl.key = period
        PROVE counter'[period] # Missing /\ fl.value <= metered'[period] - lost[period]
    BY <2>1, <2>2, <2>5, <1>3, <1>4 DEF FlushCovered
  <2> QED BY <2>3, <2>4, <2>5 DEF FlushCovered
<1> QED
  BY <1>6, <1>7, <1>8, <1>9, <1>10 DEF MeterInv

(* A step of one call that leaves counters and records alone.              *)
LEMMA CallKeeps ==
  ASSUME MeterTypeOK, MeterInv, NEW w \in Callers,
         NEW call \in [pc : {"idle", "seed", "add", "incr", "set"}, key : Periods, base : Int],
         Step(w, call), UNCHANGED <<period, counter, record, fl, metered, lost, torn>>,
         call.key <= period,
         ~torn /\ call.key = period =>
           /\ call.pc = "add" /\ counter[period] = Missing => call.base = Count(record[period])
           /\ call.pc = "incr" => counter[period] # Missing
           /\ call.pc # "set"
  PROVE  MeterInv'
<1> USE DEF Step
<1>1. mt'[w] = call /\ \A v \in Callers : v # w => mt'[v] = mt[v]
  BY DEF MeterTypeOK
<1>2. FutureUntouched'
  BY <1>1 DEF MeterInv, FutureUntouched
<1>3. UsageExact' /\ RecordCovered'
  BY DEF MeterInv, UsageExact, GetUsage, RecordCovered
<1>4. ~torn => SeedsCurrent'
  BY <1>1 DEF MeterInv, SeedsCurrent
<1>5. ~torn => FlushCovered'
  BY DEF MeterInv, FlushCovered
<1> QED
  BY <1>2, <1>3, <1>4, <1>5 DEF MeterInv

(* Seeding a missing counter with the record gives it the usage it had.    *)
LEMMA AddKeeps ==
  ASSUME MeterTypeOK, MeterInv, NEW w \in Callers, MeterAdd(w)
  PROVE  MeterInv'
<1> USE DEF MeterTypeOK, MeterAdd, Step
<1>1. mt'[w] = [mt[w] EXCEPT !.pc = "incr"] /\ \A v \in Callers : v # w => mt'[v] = mt[v]
  OBVIOUS
<1>2. mt'[w].pc = "incr" /\ mt'[w].key = mt[w].key
  BY <1>1
<1>3. /\ \A p \in Periods : p # mt[w].key => counter'[p] = counter[p]
      /\ counter[mt[w].key] # Missing => counter'[mt[w].key] = counter[mt[w].key]
      /\ counter[mt[w].key] = Missing => counter'[mt[w].key] = mt[w].base
      /\ counter'[mt[w].key] # Missing
  BY MeterAssumption DEF MeterAssumption
<1>4. \A p \in Periods : counter[p] # Missing => counter'[p] = counter[p]
  BY <1>3
<1>5. \A p \in Periods : p \in Int
  BY MeterAssumption DEF MeterAssumption, Periods
<1>6. FutureUntouched'
  <2>1. \A p \in Periods : p > period => p # mt[w].key
    BY <1>5 DEF MeterInv, FutureUntouched
  <2> QED BY <1>1, <1>2, <1>3, <2>1 DEF MeterInv, FutureUntouched
<1>7. ASSUME ~torn, mt[w].key = period, counter[period] = Missing
      PROVE  counter'[period] = Count(record[period])
  BY <1>3, <1>7 DEF MeterInv, SeedsCurrent
<1>8. UsageExact'
  <2>1. CASE mt[w].key = period /\ counter[period] = Missing
    BY <1>3, <1>7, <2>1 DEF MeterInv, UsageExact, GetUsage
  <2>2. CASE ~(mt[w].key = period /\ counter[period] = Missing)
    BY <1>3, <2>2 DEF MeterInv, UsageExact, GetUsage
  <2> QED BY <2>1, <2>2
<1>9. RecordCovered'
  BY DEF MeterInv, RecordCovered
<1>10. ~torn => SeedsCurrent'
  BY <1>1, <1>2, <1>3 DEF MeterInv, SeedsCurrent
<1>11. ~torn => FlushCovered'
  BY <1>4 DEF MeterInv, FlushCovered
<1> QED
  BY <1>6, <1>8, <1>9, <1>10, <1>11 DEF MeterInv

(* Without a torn call, only a call of a past period reaches cache.set.    *)
LEMMA SetKeeps ==
  ASSUME MeterTypeOK, MeterInv, NEW w \in Callers, MeterSet(w)
  PROVE  MeterInv'
<1> USE DEF MeterTypeOK, MeterSet, Step
<1>1. mt'[w] = IdleCall /\ \A v \in Callers : v # w => mt'[v] = mt[v]
  OBVIOUS
<1>2. \A p \in Periods : p # mt[w].key => counter'[p] = counter[p] /\ metered'[p] = metered[p]
  OBVIOUS
<1>3. \A p \in Periods : metered[p] \in Int /\ lost[p] \in Int /\ metered'[p] >= metered[p]
  OBVIOUS
<1>4. \A p \in Periods : p \in Int /\ p >= 0
  BY MeterAssumption DEF MeterAssumption, Periods
<1>5. \A p \in Periods : Count(record[p]) \in Int
  BY CountNumber
<1>6. ~torn => mt[w].key # period
  BY DEF MeterInv, SeedsCurrent
<1>7. FutureUntouched'
  <2>1. \A p \in Periods : p > period => p # mt[w].key
    BY <1>4 DEF MeterInv, FutureUntouched
  <2> QED BY <1>1, <1>2, <1>4, <2>1 DEF MeterInv, FutureUntouched, IdleCall
<1>8. UsageExact'
  BY <1>2, <1>6 DEF MeterInv, UsageExact, GetUsage
<1>9. RecordCovered'
  BY <1>3, <1>5 DEF MeterInv, RecordCovered
<1>10. ~torn => SeedsCurrent'
  BY <1>1, <1>2, <1>6 DEF MeterInv, SeedsCurrent, IdleCall
<1>11. ~torn => FlushCovered'
  <2> SUFFICES ASSUME ~torn PROVE FlushCovered'
    OBVIOUS
  <2>1. metered'[period] = metered[period] /\ counter'[period] = counter[period]
    BY <1>2, <1>6
  <2>2. fl.pc = "write" => fl.value <= metered'[fl.key]
    BY <1>3 DEF MeterInv, FlushCovered
  <2> QED BY <2>1, <2>2 DEF MeterInv, FlushCovered
<1> QED
  BY <1>7, <1>8, <1>9, <1>10, <1>11 DEF MeterInv

(* flush_usage reads the counter of the current period.                    *)
LEMMA FlushReadKeeps ==
  ASSUME MeterTypeOK, MeterInv, FlushRead
  PROVE  MeterInv'
<1> USE DEF MeterTypeOK, FlushRead, storeVars
<1>1. fl'.pc = "write" /\ fl'.key = period /\ fl'.value = counter[period]
  OBVIOUS
<1>2. counter[period] \in Int
  OBVIOUS
<1>3. FutureUntouched'
  BY <1>1, MeterAssumption DEF MeterInv, FutureUntouched, Periods, MeterAssumption
<1>4. UsageExact' /\ RecordCovered'
  BY DEF MeterInv, UsageExact, GetUsage, RecordCovered
<1>5. ~torn => SeedsCurrent'
  BY DEF MeterInv, SeedsCurrent
<1>6. ~torn => counter[period] = metered[period] - lost[period]
  BY DEF MeterInv, UsageExact, GetUsage
<1>7. ~torn => FlushCovered'
  BY <1>1, <1>2, <1>6 DEF MeterInv, FlushCovered
<1> QED
  BY <1>3, <1>4, <1>5, <1>7 DEF MeterInv

(* ... and writes the record of the period it read, over by then or not.   *)
LEMMA FlushWriteKeeps ==
  ASSUME MeterTypeOK, MeterInv, FlushWrite
  PROVE  MeterInv'
<1> USE DEF MeterTypeOK, FlushWrite
<1>1. record'[fl.key] = fl.value /\ \A p \in Periods : p # fl.key => record'[p] = record[p]
  OBVIOUS
<1>2. fl'.pc = "idle" /\ fl'.key = 0
  BY DEF IdleFlush
<1>3. Count(record'[fl.key]) = fl.value
  BY <1>1, MeterAssumption DEF Count, MeterAssumption
<1>4. \A p \in Periods : p \in Int /\ p >= 0
  BY MeterAssumption DEF MeterAssumption, Periods
<1>5. FutureUntouched'
  <2>1. fl.key <= period
    BY DEF MeterInv, FutureUntouched
  <2>2. \A p \in Periods : p > period => p # fl.key
    BY <1>4, <2>1
  <2> QED BY <1>1, <1>2, <1>4, <2>2 DEF MeterInv, FutureUntouched
<1>6. ~torn /\ fl.key = period => counter[period] # Missing
  BY DEF MeterInv, FlushCovered
<1>7. UsageExact'
  BY <1>1, <1>6 DEF MeterInv, UsageExact, GetUsage
<1>8. RecordCovered'
  <2> SUFFICES ASSUME ~torn, NEW p \in Periods PROVE Count(record'[p]) <= metered[p]
    BY DEF RecordCovered
  <2>1. CASE p = fl.key
    BY <1>3, <2>1 DEF MeterInv, FlushCovered
  <2>2. CASE p # fl.key
    BY <1>1, <2>2 DEF MeterInv, RecordCovered
  <2> QED BY <2>1, <2>2
<1>9. ~torn => SeedsCurrent'
  BY <1>1, <1>6 DEF MeterInv, SeedsCurrent
<1>10. ~torn => FlushCovered'
  <2> SUFFICES ASSUME ~torn PROVE Count(record'[period]) <= metered[period] - lost[period]
    BY <1>2 DEF MeterInv, FlushCovered
  <2>1. CASE period = fl.key
    BY <1>3, <2>1 DEF MeterInv, FlushCovered
  <2>2. CASE period # fl.key
    BY <1>1, <2>2 DEF MeterInv, FlushCovered
  <2> QED BY <2>1, <2>2
<1> QED
  BY <1>5, <1>7, <1>8, <1>9, <1>10 DEF MeterInv

(* A new period starts from nothing.                                       *)
LEMMA RolloverKeeps ==
  ASSUME MeterTypeOK, MeterInv, Rollover
  PROVE  MeterInv'
<1> USE DEF MeterTypeOK, Rollover, storeVars
<1>1. period' = period + 1 /\ period' \in Periods /\ period \in Int
  BY MeterAssumption DEF MeterAssumption, Periods
<1>2. \A p \in Periods : p \in Int
  BY MeterAssumption DEF MeterAssumption, Periods
<1>3. /\ counter[period'] = Missing /\ record[period'] = Missing
      /\ metered[period'] = 0 /\ lost[period'] = 0 /\ Count(record[period']) = 0
  BY <1>1 DEF MeterInv, FutureUntouched, Count
<1>4. FutureUntouched'
  <2>1. \A p \in Periods : p > period' => p > period
    BY <1>1, <1>2
  <2>2. \A w \in Callers : mt[w].key \in Int /\ mt[w].key <= period
    BY <1>2 DEF MeterInv, FutureUntouched
  <2>3. fl.key \in Int /\ fl.key <= period
    BY <1>2 DEF MeterInv, FutureUntouched
  <2> QED BY <1>1, <2>1, <2>2, <2>3 DEF MeterInv, FutureUntouched
<1>5. UsageExact'
  BY <1>3 DEF UsageExact, GetUsage
<1>6. RecordCovered'
  BY DEF MeterInv, RecordCovered
<1>7. \A w \in Callers : mt[w].key # period'
  BY <1>1, <1>2 DEF MeterInv, FutureUntouched
<1>8. fl.key # period'
  BY <1>1, <1>2 DEF MeterInv, FutureUntouched
<1>9. ~torn => SeedsCurrent'
  BY <1>7 DEF SeedsCurrent
<1>10. ~torn => FlushCovered'
  BY <1>3, <1>8 DEF MeterInv, FlushCovered
<1> QED
  BY <1>4, <1>5, <1>6, <1>9, <1>10 DEF MeterInv

(* Losing a key loses what the record does not have yet.                   *)
LEMMA EvictKeeps ==
  ASSUME MeterTypeOK, MeterInv, NEW q \in Periods, Evict(q)
  PROVE  MeterInv'
<1> USE DEF MeterTypeOK, Evict
<1>1. /\ counter'[q] = Missing /\ lost'[q] = lost[q] + counter[q] - Count(record[q])
      /\ \A p \in Periods : p # q => counter'[p] = counter[p] /\ lost'[p] = lost[p]
  OBVIOUS
<1>2. \A p \in Periods : Count(record[p]) \in Int
  BY CountNumber
<1>3. ~torn' => ~torn /\ fl.pc = "idle" /\ \A w \in Callers : mt[w].pc = "idle"
  OBVIOUS
<1>4. FutureUntouched'
  <2>1. \A p \in Periods : p > period => p # q
    BY DEF MeterInv, FutureUntouched
  <2> QED BY <1>1, <2>1 DEF MeterInv, FutureUntouched
<1>5. ~torn /\ q = period => counter[q] = metered[q] - lost[q]
  BY DEF MeterInv, UsageExact, GetUsage
<1>6. counter[q] \in Int
  OBVIOUS
<1>7. ~torn /\ q = period => lost'[q] = metered[q] - Count(record[q])
  BY <1>1, <1>2, <1>5, <1>6
<1>8. UsageExact'
  <2>1. CASE q = period
    BY <1>1, <1>2, <1>3, <1>7, <2>1 DEF UsageExact, GetUsage
  <2>2. CASE q # period
    BY <1>1, <1>3, <2>2 DEF MeterInv, UsageExact, GetUsage
  <2> QED BY <2>1, <2>2
<1>9. RecordCovered'
  BY <1>3 DEF MeterInv, RecordCovered
<1>10. ~torn' => SeedsCurrent'
  BY <1>3 DEF SeedsCurrent
<1>11. ~torn' => FlushCovered'
  <2> SUFFICES ASSUME ~torn' PROVE FlushCovered'
    OBVIOUS
  <2>1. FlushCovered /\ RecordCovered
    BY <1>3 DEF MeterInv
  <2>2. CASE q = period
    <3>1. lost'[period] = metered[period] - Count(record[period])
      BY <1>3, <1>7, <2>2
    <3>2. Count(record[period]) <= metered[period]
      BY <1>3, <2>1 DEF RecordCovered
    <3> QED BY <1>2, <1>3, <3>1, <3>2 DEF FlushCovered
  <2>3. CASE q # period
    BY <1>1, <1>3, <2>1, <2>3 DEF FlushCovered
  <2> QED BY <2>2, <2>3
<1> QED
  BY <1>4, <1>8, <1>9, <1>10, <1>11 DEF MeterInv

(* Every step keeps the inductive invariant.                               *)
LEMMA MeterInvStep == MeterTypeOK /\ MeterInv /\ [MeterNext]_meterVars => MeterInv'
<1> SUFFICES ASSUME MeterTypeOK, MeterInv, [MeterNext]_meterVars PROVE MeterInv'
  OBVIOUS
<1> DEFINE Call == [pc : {"idle", "seed", "add", "incr", "set"}, key : Periods, base : Int]
<1>1. /\ 0 \in Periods /\ 0 <= period /\ period <= period
      /\ \A w \in Callers : mt[w].key \in Periods /\ mt[w].key <= period
  BY MeterAssumption DEF MeterAssumption, Periods, MeterTypeOK, MeterInv, FutureUntouched
<1>2. IdleCall \in Call
  BY <1>1 DEF IdleCall
<1>3. ASSUME NEW w \in Callers, MeterIncr(w) PROVE MeterInv'
  <2>1. CASE Increment(w, period)
    BY <1>1, <1>3, <2>1, IncrementKeeps DEF MeterIncr, MeterTypeOK
  <2>2. CASE Step(w, [pc |-> "seed", key |-> period, base |-> 0]) /\ UNCHANGED <<counter, metered>>
    <3>1. [pc |-> "seed", key |-> period, base |-> 0] \in Call
      BY DEF MeterTypeOK
    <3> QED BY <1>1, <1>3, <2>2, <3>1, CallKeeps DEF MeterIncr
  <2> QED BY <1>3, <2>1, <2>2 DEF MeterIncr
<1>4. ASSUME NEW w \in Callers, MeterSeed(w) PROVE MeterInv'
  <2>1. [pc |-> "add", key |-> mt[w].key, base |-> Count(record[period])] \in Call
    BY CountNumber DEF MeterTypeOK
  <2> QED BY <1>1, <1>4, <2>1, CallKeeps DEF MeterSeed, SeedWith, storeVars
<1>5. ASSUME NEW w \in Callers, MeterIncrAgain(w) PROVE MeterInv'
  <2>1. CASE Increment(w, mt[w].key)
    BY <1>1, <1>5, <2>1, IncrementKeeps DEF MeterIncrAgain
  <2>2. CASE counter[mt[w].key] = Missing /\ Step(w, [mt[w] EXCEPT !.pc = "set"]) /\ UNCHANGED <<counter, metered>>
    <3>1. [mt[w] EXCEPT !.pc = "set"] \in Call /\ [mt[w] EXCEPT !.pc = "set"].key = mt[w].key
      BY DEF MeterTypeOK
    <3>2. ~torn => mt[w].key # period
      BY <1>5, <2>2 DEF MeterIncrAgain, MeterInv, SeedsCurrent
    <3> QED BY <1>1, <1>5, <2>2, <3>1, <3>2, CallKeeps DEF MeterIncrAgain
  <2> QED BY <1>5, <2>1, <2>2 DEF MeterIncrAgain
<1>6. ASSUME NEW w \in Callers, MeterAbandon(w) PROVE MeterInv'
  BY <1>1, <1>2, <1>6, CallKeeps DEF MeterAbandon, IdleCall, storeVars
<1>7. CASE UNCHANGED meterVars
  BY <1>7 DEF meterVars, MeterInv, FutureUntouched, UsageExact, GetUsage, RecordCovered,
              SeedsCurrent, FlushCovered
<1> QED
  BY <1>3, <1>4, <1>5, <1>6, <1>7, AddKeeps, SetKeeps, FlushReadKeeps, FlushWriteKeeps,
     RolloverKeeps, EvictKeeps
  DEF MeterNext, Meter

(* The inductive invariant holds in every reachable state.                 *)
THEOREM MeterInvariant == MeterSpec => []MeterInv
  BY MeterTypeCorrect, MeterInvInit, MeterInvStep, PTL DEF MeterSpec

(* The usage of the current period, which the quota gate reads, counts     *)
(* every completed call once, however many workers seed at the same time,  *)
(* and no record of any period bills more than was metered in it.          *)
THEOREM BillingIsRight == MeterSpec => []BillingRight
<1>1. MeterInv => BillingRight
  BY DEF MeterInv, BillingRight
<1> QED
  BY <1>1, MeterInvariant, PTL
=============================================================================
