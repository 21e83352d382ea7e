--------------------------- MODULE IssueStoreProofs ---------------------------
(***************************************************************************)
(* Proofs about IssueStore, for any number of workers, messages, issues    *)
(* and crashes: type correctness, the safety of concurrent event storage,  *)
(* and that it implements IssueTracker.                                    *)
(***************************************************************************)
EXTENDS IssueStore, FiniteSetTheorems, TLAPS

(* A worker with a task has a message; past its first statement, an issue. *)
WellFormed(r) ==
  /\ r \in WorkerState
  /\ r.pc # "idle" => r.msg \in Messages
  /\ r.pc \notin {"idle", "taken"} => r.issue \in IssueIds

(* Types together with the facts they need to be preserved.                *)
TInv == TypeOK /\ \A w \in Workers : WellFormed(wk[w])

LEMMA MessageFields ==
  ASSUME NEW m \in Messages
  PROVE  m.hash \in Hashes /\ m.user \in Users \cup {None}
BY MessagesAssumption

(* What a step of one worker means for the worker function.                *)
LEMMA BecomesEffect ==
  ASSUME TypeOK, NEW w \in Workers, NEW r, Becomes(w, r)
  PROVE  wk'[w] = r /\ \A v \in Workers \ {w} : wk'[v] = wk[v]
BY DEF Becomes, TypeOK

LEMMA BecomesType ==
  ASSUME TInv, NEW w \in Workers, NEW r, WellFormed(r), Becomes(w, r)
  PROVE  wk' \in [Workers -> WorkerState] /\ \A v \in Workers : WellFormed(wk[v])'
<1>1. wk' \in [Workers -> WorkerState]
  BY DEF Becomes, TInv, TypeOK, WellFormed
<1>2. wk'[w] = r /\ \A v \in Workers \ {w} : wk'[v] = wk[v]
  BY BecomesEffect DEF TInv
<1> QED
  BY <1>1, <1>2 DEF TInv, WellFormed

LEMMA IdleWellFormed == WellFormed(IdleWorker)
BY DEF WellFormed, IdleWorker, WorkerState

LEMMA ReleaseType ==
  ASSUME TypeOK, NEW o
  PROVE  ReleaseOf(o) \in [IssueIds -> Owners \cup {None}]
BY DEF TypeOK, ReleaseOf

LEMMA BumpedType ==
  ASSUME TypeOK, NEW w \in Workers, NEW i \in IssueIds, wk[w].msg \in Messages
  PROVE  Bumped(i, w) \in IssueRow
<1>1. issue[i] \in IssueRow /\ wk[w] \in WorkerState
  BY DEF TypeOK
<1>2. wk[w].msg.hash \in Hashes
  BY MessageFields
<1> DEFINE prior == IF wk[w].created THEN BlankIssue ELSE issue[i]
<1>3. /\ prior.times \in Nat /\ prior.users \in Nat /\ prior.last \in Nat
      /\ issue[i].status \in Statuses
  BY <1>1 DEF BlankIssue, IssueRow
<1>4. wk[w].ts \in Nat
  BY <1>1 DEF WorkerState
<1> QED
  BY <1>2, <1>3, <1>4 DEF Bumped, IssueRow, Statuses

(* Dispatch leaves the tables, the locks and most histories as they are.   *)
LEMMA DispatchKeeps ==
  ASSUME NEW w, Dispatch(w)
  PROVE  /\ UNCHANGED <<dbVars, lockVars, deliveries, now, minted, ledger, reopened, dirty>>
         /\ wk[w].pc \in {"committed", "announced", "dispatched"}
  BY DEF Dispatch, Announce, SendStored, EndTask, Raise, Dispatching, histVars

(* What the steps of a dispatch have in common: they leave the tables      *)
(* alone, and the worker goes on with its message or is idle.              *)
LEMMA DispatchMeans ==
  ASSUME TInv, NEW w \in Workers, Dispatch(w)
  PROVE  /\ UNCHANGED <<dbVars, lockVars, deliveries, now, minted, ledger, reopened, dirty>>
         /\ wk[w].pc \in {"committed", "announced", "dispatched"}
         /\ wk[w].msg \in Messages /\ wk[w].issue \in IssueIds
         /\ \E r : /\ Becomes(w, r) /\ WellFormed(r)
                  /\ r.pc \in {"idle", "announced", "dispatched"}
<1>1. /\ UNCHANGED <<dbVars, lockVars, deliveries, now, minted, ledger, reopened, dirty>>
      /\ wk[w].pc \in {"committed", "announced", "dispatched"}
  BY DispatchKeeps
<1>2. wk[w] \in WorkerState /\ wk[w].msg \in Messages /\ wk[w].issue \in IssueIds
  BY <1>1 DEF TInv, WellFormed
<1>3. CASE Announce(w)
  <2> DEFINE r == [wk[w] EXCEPT !.pc = "announced"]
  <2>1. Becomes(w, r) /\ r.pc = "announced" /\ WellFormed(r)
    BY <1>2, <1>3 DEF Announce, WorkerState, WellFormed
  <2> QED
    BY <1>1, <1>2, <2>1
<1>4. CASE SendStored(w)
  <2> DEFINE r == [wk[w] EXCEPT !.pc = "dispatched"]
  <2>1. Becomes(w, r) /\ r.pc = "dispatched" /\ WellFormed(r)
    BY <1>2, <1>4 DEF SendStored, WorkerState, WellFormed
  <2> QED
    BY <1>1, <1>2, <2>1
<1>5. CASE EndTask(w) \/ Raise(w)
  <2>1. Becomes(w, IdleWorker) /\ IdleWorker.pc = "idle"
    BY <1>5 DEF EndTask, Raise, Finish, IdleWorker
  <2> QED
    BY <1>1, <1>2, <2>1, IdleWellFormed
<1> QED
  BY <1>3, <1>4, <1>5 DEF Dispatch

LEMMA InitTInv == Init => TInv
BY IdleWellFormed
DEF Init, TInv, TypeOK, BlankIssue, IssueRow, WellFormed, Statuses, Owners

LEMMA StepTInv == TInv /\ [Next]_vars => TInv'
<1> SUFFICES ASSUME TInv, [Next]_vars
             PROVE  TInv'
  OBVIOUS
<1>t. TypeOK /\ \A w \in Workers : WellFormed(wk[w]) /\ wk[w] \in WorkerState
  BY DEF TInv, TypeOK
<1>1. ASSUME NEW m \in Messages, Accept(m)
      PROVE  TInv'
  BY <1>1, <1>t DEF Accept, TInv, TypeOK, WellFormed, dbVars, lockVars, histVars
<1>2. ASSUME NEW w \in Workers, NEW m \in Messages, Take(w, m)
      PROVE  TInv'
  <2> DEFINE r == [wk[w] EXCEPT !.pc = "taken", !.msg = m]
  <2>1. WellFormed(r)
    BY <1>t DEF WellFormed, WorkerState
  <2>2. Becomes(w, r)
    BY <1>2 DEF Take
  <2>3. wk' \in [Workers -> WorkerState] /\ \A v \in Workers : WellFormed(wk[v])'
    BY <2>1, <2>2, BecomesType
  <2> QED
    BY <1>2, <1>t, <2>3 DEF Take, TInv, TypeOK, dbVars, lockVars, histVars
<1>3. ASSUME NEW w \in Workers, Crash(w)
      PROVE  TInv'
  <2>1. wk' \in [Workers -> WorkerState] /\ \A v \in Workers : WellFormed(wk[v])'
    BY <1>3, IdleWellFormed, BecomesType DEF Crash, Finish
  <2> QED
    BY <1>3, <1>t, <2>1, ReleaseType DEF Crash, Finish, TInv, TypeOK, dbVars, histVars
<1>4. ASSUME NEW w \in Workers, LockIssue(w)
      PROVE  TInv'
  <2>1. PICK i \in Group(wk[w].msg.hash) :
          /\ lock' = [lock EXCEPT ![i] = w]
          /\ Becomes(w, [wk[w] EXCEPT !.pc = "locked", !.issue = i, !.created = FALSE,
                                      !.regressed = (issue[i].status = "resolved")])
    BY <1>4 DEF LockIssue
  <2> DEFINE r == [wk[w] EXCEPT !.pc = "locked", !.issue = i, !.created = FALSE,
                                !.regressed = (issue[i].status = "resolved")]
  <2>2. i \in IssueIds
    BY <1>t DEF Group, TypeOK
  <2>3. WellFormed(r)
    BY <1>4, <1>t, <2>2 DEF LockIssue, WellFormed, WorkerState
  <2>4. wk' \in [Workers -> WorkerState] /\ \A v \in Workers : WellFormed(wk[v])'
    BY <2>1, <2>3, BecomesType
  <2> QED
    BY <1>4, <1>t, <2>1, <2>2, <2>4 DEF LockIssue, TInv, TypeOK, Owners, dbVars, histVars
<1>5. ASSUME NEW w \in Workers, CreateIssue(w)
      PROVE  TInv'
  <2>1. PICK i \in IssueIds :
          /\ lock' = [lock EXCEPT ![i] = w]
          /\ Becomes(w, [wk[w] EXCEPT !.pc = "locked", !.issue = i, !.created = TRUE,
                                      !.regressed = FALSE])
    BY <1>5 DEF CreateIssue
  <2> DEFINE r == [wk[w] EXCEPT !.pc = "locked", !.issue = i, !.created = TRUE,
                                !.regressed = FALSE]
  <2>2. WellFormed(r)
    BY <1>5, <1>t, ZenonT(60) DEF CreateIssue, WellFormed, WorkerState
  <2>3. wk' \in [Workers -> WorkerState] /\ \A v \in Workers : WellFormed(wk[v])'
    BY <2>1, <2>2, BecomesType
  <2> QED
    BY <1>5, <1>t, <2>1, <2>3 DEF CreateIssue, TInv, TypeOK, Owners, dbVars, histVars
<1>7. ASSUME NEW w \in Workers, WriteRows(w)
      PROVE  TInv'
  <2>1. wk[w].issue \in IssueIds /\ wk[w].msg \in Messages
    BY <1>7, <1>t DEF WriteRows, WellFormed
  <2>2. wk[w].msg.user \in Users \cup {None}
    BY <2>1, MessageFields
  <2> DEFINE isNew == wk[w].msg.user # None /\ <<wk[w].issue, wk[w].msg.user>> \notin seenBy
  <2>3. PICK ts \in 0..now :
          Becomes(w, [wk[w] EXCEPT !.pc = "written", !.newUser = isNew, !.ts = ts])
    BY <1>7 DEF WriteRows
  <2>4. ts \in Nat /\ isNew \in BOOLEAN
    BY <1>t DEF TypeOK
  <2>5. pendingUsers' \in [Owners -> SUBSET (IssueIds \X Users)]
    BY <1>7, <1>t, <2>1, <2>2 DEF WriteRows, TypeOK, Owners
  <2> HIDE DEF isNew
  <2> DEFINE r == [wk[w] EXCEPT !.pc = "written", !.newUser = isNew, !.ts = ts]
  <2>6. WellFormed(r)
    BY <1>t, <2>1, <2>4 DEF WellFormed, WorkerState
  <2>7. wk' \in [Workers -> WorkerState] /\ \A v \in Workers : WellFormed(wk[v])'
    BY <2>3, <2>6, BecomesType
  <2> QED
    BY <1>7, <1>t, <2>5, <2>7 DEF WriteRows, TInv, TypeOK, dbVars, histVars
<1>8. ASSUME NEW w \in Workers, Commit(w)
      PROVE  TInv'
  <2>1. wk[w].issue \in IssueIds /\ wk[w].msg \in Messages
    BY <1>8, <1>t DEF Commit, WellFormed
  <2>2. Bumped(wk[w].issue, w) \in IssueRow
    BY <2>1, <1>t, BumpedType
  <2>3. wk[w].msg.hash \in Hashes
    BY <2>1, MessageFields
  <2> DEFINE r == [wk[w] EXCEPT !.pc = "committed"]
  <2>4. WellFormed(r)
    BY <1>t, <2>1 DEF WellFormed, WorkerState
  <2>5. wk' \in [Workers -> WorkerState] /\ \A v \in Workers : WellFormed(wk[v])'
    BY <1>8, <2>4, BecomesType DEF Commit
  <2>6. /\ rows' \subseteq IssueIds /\ minted' \subseteq IssueIds /\ dirty' \subseteq IssueIds
        /\ issue' \in [IssueIds -> IssueRow]
        /\ hashes' \in [Hashes -> IssueIds \cup {None}]
    BY <1>8, <1>t, <2>1, <2>2, <2>3 DEF Commit, TypeOK
  <2>7. events' \subseteq EventRow /\ ledger' \subseteq EventRow
    BY <1>8, <1>t, <2>1 DEF Commit, TypeOK, EventRow
  <2>8. /\ seenBy' \subseteq IssueIds \X Users
        /\ pendingUsers' \in [Owners -> SUBSET (IssueIds \X Users)]
    BY <1>8, <1>t DEF Commit, TypeOK, Owners
  <2>9. lock' \in [IssueIds -> Owners \cup {None}] /\ reopened' \in [IssueIds -> Nat]
    BY <1>8, <1>t, <2>1, ReleaseType DEF Commit, TypeOK
  <2> QED
    BY <1>8, <1>t, <2>5, <2>6, <2>7, <2>8, <2>9 DEF Commit, TInv, TypeOK
<1>9. ASSUME NEW w \in Workers, Dispatch(w)
      PROVE  TInv'
  <2>1. wk[w].issue \in IssueIds /\ wk[w].msg \in Messages
    BY <1>9, DispatchMeans
  <2>2. sent' \in [IssueIds -> [created : Nat, regressed : Nat]]
    BY <1>9, <1>t, <2>1
    DEF Dispatch, Announce, SendStored, EndTask, Raise, TypeOK, histVars
  <2>3. told' \in [Messages -> Nat]
    BY <1>9, <1>t, <2>1
    DEF Dispatch, Announce, SendStored, EndTask, Raise, TypeOK, histVars
  <2>4. wk' \in [Workers -> WorkerState] /\ \A v \in Workers : WellFormed(wk[v])'
    BY <1>9, DispatchMeans, BecomesType
  <2>5. queue' \in [Messages -> {"unsent", "queued", "running", "done", "failed"}]
    BY <1>9, <1>t DEF Dispatch, Announce, SendStored, EndTask, Raise, Finish, TypeOK
  <2> QED
    BY <1>9, <1>t, <2>2, <2>3, <2>4, <2>5, DispatchMeans DEF TInv, TypeOK, dbVars, lockVars
<1>10. ASSUME NEW S \in SUBSET rows, NEW status \in UserStatuses, SetStatus(S, status)
       PROVE  TInv'
  <2>1. status \in Statuses
    BY StatusAssumption DEF Statuses
  <2>2. ASSUME NEW r \in IssueRow
        PROVE  [r EXCEPT !.status = status] \in IssueRow
    BY <2>1 DEF IssueRow
  <2>3. issue' \in [IssueIds -> IssueRow]
    BY <1>10, <1>t, <2>2 DEF SetStatus, TypeOK
  <2> QED
    BY <1>10, <1>t, <2>3 DEF SetStatus, TInv, TypeOK, lockVars
<1>11. CASE Tick
  BY <1>11, <1>t DEF Tick, TInv, TypeOK, dbVars, lockVars, histVars
<1>12. CASE UNCHANGED vars
  BY <1>12, <1>t DEF vars, TInv, TypeOK, dbVars, lockVars, histVars
<1> QED
  BY <1>1, <1>2, <1>3, <1>4, <1>5, <1>7, <1>8, <1>9, <1>10, <1>11, <1>12
  DEF Next, WorkerNext, UserNext, StoreEvent

(* Every reachable state of the store is well typed.                       *)
THEOREM TypeCorrect == Spec => []TypeOK
<1>1. Spec => []TInv
  BY InitTInv, StepTInv, PTL DEF Spec
<1> QED
  BY <1>1, PTL DEF TInv

-----------------------------------------------------------------------------
(* Safety of concurrent event storage.                                     *)

LEMMA OwnersNotNone == \A w \in Workers : w # None
BY NoneAssumption

LEMMA InitStoreInv == Init => StoreInv
BY DEF Init, StoreInv, LockHeld, CreatorAlone, FinderCurrent, OneIssuePerGroup,
       ResolvedMeansQuiet, InTransaction, IdleWorker

(* A step of w that leaves the tables and the other workers' locks alone,  *)
(* and after which w is in no transaction, keeps the invariant.            *)
LEMMA LeaveTransaction ==
  ASSUME TInv, StoreInv, NEW w \in Workers, NEW r, Becomes(w, r),
         r.pc \notin {"locked", "written"},
         UNCHANGED <<rows, issue, minted, dirty>>,
         \A i \in IssueIds : lock'[i] = lock[i] \/ lock[i] = w
  PROVE  StoreInv'
<1>1. wk'[w] = r /\ \A v \in Workers \ {w} : wk'[v] = wk[v]
  BY BecomesEffect DEF TInv
<1>2. \A v \in Workers : InTransaction(v)' => v # w /\ InTransaction(v) /\ wk'[v] = wk[v]
  BY <1>1 DEF InTransaction
<1>3. \A v \in Workers : InTransaction(v) => wk[v].issue \in IssueIds
  BY DEF TInv, WellFormed, InTransaction
<1>4. LockHeld'
  BY <1>2, <1>3 DEF LockHeld, StoreInv
<1>5. CreatorAlone'
  BY <1>2 DEF CreatorAlone, StoreInv, Group
<1>6. FinderCurrent'
  BY <1>2 DEF FinderCurrent, StoreInv
<1> QED
  BY <1>4, <1>5, <1>6 DEF StoreInv, OneIssuePerGroup, ResolvedMeansQuiet

LEMMA StepStoreInv == TInv /\ StoreInv /\ [Next]_vars => StoreInv'
<1> SUFFICES ASSUME TInv, StoreInv, [Next]_vars
             PROVE  StoreInv'
  OBVIOUS
<1>i. /\ \A v \in Workers : InTransaction(v) => wk[v].issue \in IssueIds /\ wk[v].msg \in Messages
      /\ TypeOK
  BY DEF TInv, WellFormed, InTransaction
<1>1. ASSUME NEW m \in Messages, Accept(m)
      PROVE  StoreInv'
  BY <1>1 DEF Accept, StoreInv, LockHeld, CreatorAlone, FinderCurrent, OneIssuePerGroup,
              ResolvedMeansQuiet, InTransaction, Group, dbVars, lockVars, histVars
<1>2. ASSUME NEW w \in Workers, NEW m \in Messages, Take(w, m)
      PROVE  StoreInv'
  <2> DEFINE r == [wk[w] EXCEPT !.pc = "taken", !.msg = m]
  <2>1. r.pc = "taken"
    BY <1>i DEF TypeOK, WorkerState
  <2> QED
    BY <1>2, <2>1, LeaveTransaction DEF Take, dbVars, lockVars, histVars
<1>3. ASSUME NEW w \in Workers, Crash(w)
      PROVE  StoreInv'
  BY <1>3, LeaveTransaction DEF Crash, Finish, IdleWorker, ReleaseOf, dbVars, histVars
<1>4. ASSUME NEW w \in Workers, LockIssue(w)
      PROVE  StoreInv'
  <2>1. PICK i \in Group(wk[w].msg.hash) :
          /\ Free(i)
          /\ lock' = [lock EXCEPT ![i] = w]
          /\ Becomes(w, [wk[w] EXCEPT !.pc = "locked", !.issue = i, !.created = FALSE,
                                      !.regressed = (issue[i].status = "resolved")])
    BY <1>4 DEF LockIssue
  <2>2. i \in IssueIds /\ i \in rows /\ issue[i].hash = wk[w].msg.hash
    BY <1>i DEF Group, TypeOK
  <2>3. /\ wk'[w].issue = i /\ wk'[w].msg = wk[w].msg /\ ~wk'[w].created
        /\ wk'[w].regressed = (issue[i].status = "resolved")
        /\ \A v \in Workers \ {w} : wk'[v] = wk[v]
    <3> DEFINE r == [wk[w] EXCEPT !.pc = "locked", !.issue = i, !.created = FALSE,
                                  !.regressed = (issue[i].status = "resolved")]
    <3>1. wk'[w] = r /\ \A v \in Workers \ {w} : wk'[v] = wk[v]
      BY <1>i, <2>1, BecomesEffect
    <3>2. wk[w] \in WorkerState
      BY <1>i DEF TypeOK
    <3> QED
      BY <3>1, <3>2 DEF WorkerState
  <2>4. ~InTransaction(w)
    BY <1>4 DEF LockIssue, InTransaction
  <2>5. \A v \in Workers \ {w} : InTransaction(v) => wk[v].issue # i
    BY <2>1, OwnersNotNone DEF StoreInv, LockHeld, Free
  <2>6. UNCHANGED <<rows, issue, minted, dirty>>
    BY <1>4 DEF LockIssue, dbVars, histVars
  <2>7. LockHeld'
    BY <1>i, <2>1, <2>2, <2>3, <2>5 DEF LockHeld, StoreInv, InTransaction, TypeOK
  <2>8. CreatorAlone'
    BY <2>3, <2>6 DEF CreatorAlone, StoreInv, InTransaction, Group
  <2>9. FinderCurrent'
    BY <2>2, <2>3, <2>6 DEF FinderCurrent, StoreInv, InTransaction
  <2> QED
    BY <2>6, <2>7, <2>8, <2>9 DEF StoreInv, OneIssuePerGroup, ResolvedMeansQuiet
<1>5. ASSUME NEW w \in Workers, CreateIssue(w)
      PROVE  StoreInv'
  <2>1. PICK i \in IssueIds \ minted :
          /\ Free(i)
          /\ lock' = [lock EXCEPT ![i] = w]
          /\ Becomes(w, [wk[w] EXCEPT !.pc = "locked", !.issue = i, !.created = TRUE,
                                      !.regressed = FALSE])
    BY <1>5 DEF CreateIssue
  <2>2. /\ wk'[w].issue = i /\ wk'[w].msg = wk[w].msg /\ wk'[w].created
        /\ \A v \in Workers \ {w} : wk'[v] = wk[v]
    <3> DEFINE r == [wk[w] EXCEPT !.pc = "locked", !.issue = i, !.created = TRUE,
                                  !.regressed = FALSE]
    <3>1. wk'[w] = r /\ \A v \in Workers \ {w} : wk'[v] = wk[v]
      BY <1>i, <2>1, BecomesEffect
    <3>2. wk[w] \in WorkerState
      BY <1>i DEF TypeOK
    <3> QED
      BY <3>1, <3>2 DEF WorkerState
  <2>3. \A v \in Workers \ {w} : InTransaction(v) => wk[v].issue # i
    BY <2>1, OwnersNotNone DEF StoreInv, LockHeld, Free
  <2>4. UNCHANGED <<rows, issue, minted, dirty>>
    BY <1>5 DEF CreateIssue, dbVars, histVars
  <2>5. LockHeld'
    BY <1>i, <2>1, <2>2, <2>3 DEF LockHeld, StoreInv, InTransaction, TypeOK
  <2>6. CreatorAlone'
    BY <1>5, <2>1, <2>2, <2>4
    DEF CreateIssue, Inserting, CreatorAlone, StoreInv, InTransaction, Group
  <2>7. FinderCurrent'
    BY <2>2, <2>4 DEF FinderCurrent, StoreInv, InTransaction
  <2> QED
    BY <2>4, <2>5, <2>6, <2>7 DEF StoreInv, OneIssuePerGroup, ResolvedMeansQuiet
<1>7. ASSUME NEW w \in Workers, WriteRows(w)
      PROVE  StoreInv'
  <2>1. PICK n \in BOOLEAN, ts \in 0..now :
          Becomes(w, [wk[w] EXCEPT !.pc = "written", !.newUser = n, !.ts = ts])
    BY <1>7 DEF WriteRows
  <2>2. /\ wk'[w].issue = wk[w].issue /\ wk'[w].msg = wk[w].msg
        /\ wk'[w].created = wk[w].created /\ wk'[w].regressed = wk[w].regressed
        /\ \A v \in Workers \ {w} : wk'[v] = wk[v]
    <3> DEFINE r == [wk[w] EXCEPT !.pc = "written", !.newUser = n, !.ts = ts]
    <3>1. wk'[w] = r /\ \A v \in Workers \ {w} : wk'[v] = wk[v]
      BY <1>i, <2>1, BecomesEffect
    <3>2. wk[w] \in WorkerState
      BY <1>i DEF TypeOK
    <3> QED
      BY <3>1, <3>2 DEF WorkerState
  <2>3. \A v \in Workers : InTransaction(v)' => InTransaction(v)
    BY <1>7, <2>2 DEF WriteRows, InTransaction
  <2>4. UNCHANGED <<rows, issue, minted, dirty, lock>>
    BY <1>7 DEF WriteRows, dbVars, histVars
  <2>5. LockHeld'
    BY <2>2, <2>3, <2>4 DEF LockHeld, StoreInv
  <2>6. CreatorAlone'
    BY <2>2, <2>3, <2>4 DEF CreatorAlone, StoreInv, Group
  <2>7. FinderCurrent'
    BY <2>2, <2>3, <2>4 DEF FinderCurrent, StoreInv
  <2> QED
    BY <2>4, <2>5, <2>6, <2>7 DEF StoreInv, OneIssuePerGroup, ResolvedMeansQuiet
<1>8. ASSUME NEW w \in Workers, Commit(w)
      PROVE  StoreInv'
  <2> DEFINE i == wk[w].issue
             h == wk[w].msg.hash
  <2>1. InTransaction(w) /\ i \in IssueIds /\ lock[i] = w
    BY <1>8, <1>i DEF Commit, InTransaction, StoreInv, LockHeld
  <2>2. ~InTransaction(w)' /\ \A v \in Workers \ {w} : wk'[v] = wk[v]
    BY <1>8, <1>i, BecomesEffect DEF Commit, InTransaction, TypeOK, WorkerState
  <2>3. \A v \in Workers \ {w} : InTransaction(v) => wk[v].issue # i
    BY <2>1 DEF StoreInv, LockHeld
  <2>4. \A v \in Workers : InTransaction(v)' => v # w /\ InTransaction(v) /\ wk'[v] = wk[v]
    BY <2>2 DEF InTransaction
  <2>5. /\ rows' = rows \cup {i} /\ minted' = minted \cup {i} /\ dirty' = dirty \cup {i}
        /\ issue'[i] = Bumped(i, w) /\ \A j \in IssueIds \ {i} : issue'[j] = issue[j]
        /\ lock' = ReleaseOf(w)
    BY <1>8, <1>i, <2>1 DEF Commit, TypeOK
  <2>6. issue'[i].hash = h /\ issue'[i].status # "resolved"
    BY <1>i, <2>1, <2>5 DEF Bumped, StoreInv, FinderCurrent
  <2>7. \A j \in rows : j # i => issue[j].hash # h
    BY <2>1 DEF StoreInv, CreatorAlone, FinderCurrent, OneIssuePerGroup, Group
  <2>8. LockHeld'
    BY <1>i, <2>4, <2>5 DEF LockHeld, StoreInv, ReleaseOf
  <2>9. CreatorAlone'
    <3> SUFFICES ASSUME NEW v \in Workers, InTransaction(v)', wk'[v].created
                 PROVE  /\ wk'[v].issue \notin minted'
                        /\ Group(wk[v].msg.hash)' = {}
                        /\ \A x \in Workers :
                             InTransaction(x)' /\ wk'[x].created
                               /\ wk'[x].msg.hash = wk'[v].msg.hash => x = v
      BY DEF CreatorAlone
    <3>1. v # w /\ InTransaction(v) /\ wk'[v] = wk[v] /\ wk[v].created
      BY <2>4
    <3>2. wk[v].issue \notin minted /\ Group(wk[v].msg.hash) = {}
      BY <3>1 DEF StoreInv, CreatorAlone
    <3>3. wk[v].msg.hash # h
      BY <2>1, <3>1, <3>2 DEF StoreInv, CreatorAlone, FinderCurrent, Group
    <3>4. Group(wk[v].msg.hash)' = {}
      BY <1>i, <2>5, <2>6, <3>1, <3>2, <3>3 DEF Group, TypeOK
    <3> QED
      BY <2>3, <2>4, <2>5, <3>1, <3>2, <3>4 DEF StoreInv, CreatorAlone
  <2>10. FinderCurrent'
    BY <1>i, <2>3, <2>4, <2>5 DEF FinderCurrent, StoreInv
  <2>11. OneIssuePerGroup'
    BY <1>i, <2>5, <2>6, <2>7 DEF OneIssuePerGroup, StoreInv, TypeOK
  <2>12. ResolvedMeansQuiet'
    BY <1>i, <2>5, <2>6 DEF ResolvedMeansQuiet, StoreInv, TypeOK
  <2> QED
    BY <2>5, <2>8, <2>9, <2>10, <2>11, <2>12 DEF StoreInv
<1>9. ASSUME NEW w \in Workers, Dispatch(w)
      PROVE  StoreInv'
  BY <1>9, DispatchMeans, LeaveTransaction DEF dbVars, lockVars
<1>10. ASSUME NEW S \in SUBSET rows, NEW status \in UserStatuses, SetStatus(S, status)
       PROVE  StoreInv'
  <2>1. UNCHANGED <<rows, minted, lock, wk>> /\ dirty' = dirty \ S
    BY <1>10 DEF SetStatus, lockVars
  <2>2. \A j \in IssueIds : issue'[j].hash = issue[j].hash /\ (j \notin S => issue'[j] = issue[j])
    BY <1>10, <1>i DEF SetStatus, TypeOK, IssueRow
  <2>3. \A v \in Workers : InTransaction(v) => wk[v].issue \notin S
    BY <1>10, OwnersNotNone DEF SetStatus, StoreInv, LockHeld, Free
  <2>4. LockHeld' /\ (\A v \in Workers : InTransaction(v)' <=> InTransaction(v))
    BY <2>1 DEF LockHeld, StoreInv, InTransaction
  <2>5. CreatorAlone'
    BY <1>i, <2>1, <2>2, <2>4 DEF CreatorAlone, StoreInv, Group, TypeOK
  <2>6. FinderCurrent'
    BY <1>i, <2>1, <2>2, <2>3, <2>4 DEF FinderCurrent, StoreInv
  <2>7. OneIssuePerGroup' /\ ResolvedMeansQuiet'
    BY <1>i, <2>1, <2>2 DEF OneIssuePerGroup, ResolvedMeansQuiet, StoreInv, TypeOK
  <2> QED
    BY <2>1, <2>4, <2>5, <2>6, <2>7 DEF StoreInv
<1>11. CASE Tick
  BY <1>11 DEF Tick, StoreInv, LockHeld, CreatorAlone, FinderCurrent, OneIssuePerGroup,
              ResolvedMeansQuiet, InTransaction, Group, dbVars, lockVars, histVars
<1>12. CASE UNCHANGED vars
  BY <1>12 DEF vars, StoreInv, LockHeld, CreatorAlone, FinderCurrent, OneIssuePerGroup,
              ResolvedMeansQuiet, InTransaction, Group, dbVars, lockVars, histVars
<1> QED
  BY <1>1, <1>2, <1>3, <1>4, <1>5, <1>7, <1>8, <1>9, <1>10, <1>11, <1>12
  DEF Next, WorkerNext, UserNext, StoreEvent

(* The inductive invariant holds in every reachable state.                 *)
THEOREM StoreInvariant == Spec => []StoreInv
<1>1. Init => TInv /\ StoreInv
  BY InitTInv, InitStoreInv
<1>2. TInv /\ StoreInv /\ [Next]_vars => (TInv /\ StoreInv)'
  BY StepTInv, StepStoreInv
<1> QED
  BY <1>1, <1>2, PTL DEF Spec

(* However many workers store events and users triage, a group has one     *)
(* issue, and an issue that is resolved has had no event since.            *)
THEOREM OneIssue == Spec => []OneIssuePerGroup
BY StoreInvariant, PTL DEF StoreInv

THEOREM NoMissedRegression == Spec => []ResolvedMeansQuiet
BY StoreInvariant, PTL DEF StoreInv

-----------------------------------------------------------------------------
(* Signals: who still has to announce an issue, or that it was reopened.   *)

Announcing(w) == wk[w].pc = "committed" /\ wk[w].created

Alerting(i) ==
  {w \in Workers : wk[w].pc = "committed" /\ wk[w].regressed /\ wk[w].issue = i}

(* An issue is announced by the one worker that created it, which has not  *)
(* done it yet; each worker that still has to report a regression of an    *)
(* issue is one reopening of it without its signal.                        *)
SignalsInv ==
  /\ \A i \in IssueIds : sent[i].created <= 1
  /\ \A i \in IssueIds \ minted : sent[i].created = 0
  /\ \A w \in Workers : Announcing(w) => wk[w].issue \in minted /\ sent[wk[w].issue].created = 0
  /\ \A v, w \in Workers :
       Announcing(v) /\ Announcing(w) /\ wk[v].issue = wk[w].issue => v = w
  /\ \A i \in IssueIds :
       /\ IsFiniteSet(Alerting(i))
       /\ sent[i].regressed + Cardinality(Alerting(i)) <= reopened[i]

LEMMA InitSignalsInv == Init => SignalsInv
<1> SUFFICES ASSUME Init
             PROVE  SignalsInv
  OBVIOUS
<1>1. \A i \in IssueIds : Alerting(i) = {}
  BY DEF Init, Alerting, IdleWorker
<1>2. \A w \in Workers : ~Announcing(w)
  BY DEF Init, Announcing, IdleWorker
<1>3. \A i \in IssueIds : IsFiniteSet(Alerting(i)) /\ Cardinality(Alerting(i)) = 0
  <2>1. IsFiniteSet({}) /\ Cardinality({}) = 0
    BY FS_EmptySet
  <2> QED
    BY <1>1, <2>1
<1> QED
  BY <1>2, <1>3 DEF Init, SignalsInv

(* A step that does not bring w to its commit, and sends nothing: w may    *)
(* have crashed before it sent its signals.                                *)
LEMMA NothingSent ==
  ASSUME TInv, SignalsInv, NEW w \in Workers, NEW r, Becomes(w, r), r.pc # "committed",
         UNCHANGED <<minted, sent, reopened>>
  PROVE  SignalsInv'
<1>1. wk'[w] = r /\ \A v \in Workers \ {w} : wk'[v] = wk[v]
  BY BecomesEffect DEF TInv
<1>2. \A v \in Workers : Announcing(v)' => v # w /\ Announcing(v) /\ wk'[v] = wk[v]
  BY <1>1 DEF Announcing
<1>3. ASSUME NEW i \in IssueIds
      PROVE  /\ IsFiniteSet(Alerting(i))'
             /\ Cardinality(Alerting(i))' <= Cardinality(Alerting(i))
             /\ Cardinality(Alerting(i)) \in Nat /\ Cardinality(Alerting(i))' \in Nat
  <2>1. Alerting(i)' = Alerting(i) \ {w}
    BY <1>1 DEF Alerting
  <2>2. IsFiniteSet(Alerting(i))
    BY DEF SignalsInv
  <2>3. /\ IsFiniteSet(Alerting(i) \ {w}) /\ Cardinality(Alerting(i)) \in Nat
        /\ Cardinality(Alerting(i) \ {w}) =
             IF w \in Alerting(i) THEN Cardinality(Alerting(i)) - 1 ELSE Cardinality(Alerting(i))
    BY <2>2, FS_RemoveElement, FS_CardinalityType
  <2>4. Cardinality(Alerting(i) \ {w}) \in Nat
    BY <2>3, FS_CardinalityType
  <2> QED
    BY <2>1, <2>3, <2>4
<1>4. \A i \in IssueIds : sent[i].regressed \in Nat /\ reopened[i] \in Nat
  BY DEF TInv, TypeOK
<1>5. \A i \in IssueIds :
        IsFiniteSet(Alerting(i))' /\ sent'[i].regressed + Cardinality(Alerting(i))' <= reopened'[i]
  BY <1>3, <1>4 DEF SignalsInv
<1> QED
  BY <1>2, <1>5 DEF SignalsInv

(* A step of nobody.                                                       *)
LEMMA NobodySends ==
  ASSUME SignalsInv, UNCHANGED <<wk, minted, sent, reopened>>
  PROVE  SignalsInv'
<1>1. /\ \A i \in IssueIds : Alerting(i)' = Alerting(i)
      /\ \A w \in Workers : Announcing(w)' <=> Announcing(w)
  BY DEF Alerting, Announcing
<1> QED
  BY <1>1 DEF SignalsInv

LEMMA StepSignalsInv == TInv /\ StoreInv /\ SignalsInv /\ [Next]_vars => SignalsInv'
<1> SUFFICES ASSUME TInv, StoreInv, SignalsInv, [Next]_vars
             PROVE  SignalsInv'
  OBVIOUS
<1>t. TypeOK /\ \A w \in Workers : wk[w] \in WorkerState
  BY DEF TInv, TypeOK
<1>1. ASSUME NEW m \in Messages, Accept(m)
      PROVE  SignalsInv'
  BY <1>1, NobodySends DEF Accept, histVars
<1>2. ASSUME NEW w \in Workers, NEW m \in Messages, Take(w, m)
      PROVE  SignalsInv'
  <2> DEFINE r == [wk[w] EXCEPT !.pc = "taken", !.msg = m]
  <2>1. r.pc # "committed"
    BY <1>t DEF WorkerState
  <2> QED
    BY <1>2, <2>1, NothingSent DEF Take, histVars
<1>3. ASSUME NEW w \in Workers, Crash(w)
      PROVE  SignalsInv'
  BY <1>3, NothingSent DEF Crash, Finish, IdleWorker, histVars
<1>4. ASSUME NEW w \in Workers, LockIssue(w)
      PROVE  SignalsInv'
  <2>1. PICK i \in Group(wk[w].msg.hash) :
          Becomes(w, [wk[w] EXCEPT !.pc = "locked", !.issue = i, !.created = FALSE,
                                   !.regressed = (issue[i].status = "resolved")])
    BY <1>4 DEF LockIssue
  <2> DEFINE r == [wk[w] EXCEPT !.pc = "locked", !.issue = i, !.created = FALSE,
                                !.regressed = (issue[i].status = "resolved")]
  <2>2. r.pc # "committed"
    BY <1>t DEF WorkerState
  <2> QED
    BY <1>4, <2>1, <2>2, NothingSent DEF LockIssue, histVars
<1>5. ASSUME NEW w \in Workers, CreateIssue(w)
      PROVE  SignalsInv'
  <2>1. PICK i \in IssueIds :
          Becomes(w, [wk[w] EXCEPT !.pc = "locked", !.issue = i, !.created = TRUE,
                                   !.regressed = FALSE])
    BY <1>5 DEF CreateIssue
  <2> DEFINE r == [wk[w] EXCEPT !.pc = "locked", !.issue = i, !.created = TRUE,
                                !.regressed = FALSE]
  <2>2. r.pc # "committed"
    BY <1>t DEF WorkerState
  <2> QED
    BY <1>5, <2>1, <2>2, NothingSent DEF CreateIssue, histVars
<1>6. ASSUME NEW w \in Workers, WriteRows(w)
      PROVE  SignalsInv'
  <2>1. PICK n \in BOOLEAN, ts \in 0..now :
          Becomes(w, [wk[w] EXCEPT !.pc = "written", !.newUser = n, !.ts = ts])
    BY <1>6 DEF WriteRows
  <2> DEFINE r == [wk[w] EXCEPT !.pc = "written", !.newUser = n, !.ts = ts]
  <2>2. r.pc # "committed"
    BY <1>t DEF WorkerState
  <2> QED
    BY <1>6, <2>1, <2>2, NothingSent DEF WriteRows, histVars
<1>7. ASSUME NEW w \in Workers, Commit(w)
      PROVE  SignalsInv'
  <2> DEFINE i == wk[w].issue
  <2>1. /\ InTransaction(w) /\ i \in IssueIds /\ wk[w].pc # "committed"
        /\ wk[w].created => i \notin minted
    BY <1>7 DEF Commit, InTransaction, TInv, WellFormed, StoreInv, CreatorAlone
  <2>2. /\ wk'[w].pc = "committed" /\ wk'[w].issue = i
        /\ wk'[w].created = wk[w].created /\ wk'[w].regressed = wk[w].regressed
        /\ \A v \in Workers \ {w} : wk'[v] = wk[v]
    <3>1. Becomes(w, [wk[w] EXCEPT !.pc = "committed"])
      BY <1>7 DEF Commit
    <3>2. wk'[w] = [wk[w] EXCEPT !.pc = "committed"] /\ \A v \in Workers \ {w} : wk'[v] = wk[v]
      BY <1>t, <3>1, BecomesEffect
    <3> QED
      BY <1>t, <3>2 DEF WorkerState
  <2>3. /\ sent' = sent /\ minted' = minted \cup {i}
        /\ reopened'[i] = IF wk[w].regressed THEN reopened[i] + 1 ELSE reopened[i]
        /\ \A j \in IssueIds \ {i} : reopened'[j] = reopened[j]
    BY <1>7, <1>t, <2>1 DEF Commit, TypeOK
  <2>4. \A v \in Workers :
          Announcing(v)' => (v = w /\ wk[w].created) \/ (Announcing(v) /\ wk'[v] = wk[v])
    BY <2>2 DEF Announcing
  <2>5. \A v \in Workers : wk[w].created /\ Announcing(v) => wk[v].issue # i
    BY <2>1 DEF SignalsInv
  <2>6. /\ \A v \in Workers : Announcing(v)' => wk'[v].issue \in minted'
                                               /\ sent'[wk'[v].issue].created = 0
        /\ \A v, x \in Workers :
             Announcing(v)' /\ Announcing(x)' /\ wk'[v].issue = wk'[x].issue => v = x
    BY <2>1, <2>2, <2>3, <2>4, <2>5 DEF SignalsInv
  <2>7. ASSUME NEW j \in IssueIds
        PROVE  /\ IsFiniteSet(Alerting(j))'
               /\ sent'[j].regressed + Cardinality(Alerting(j))' <= reopened'[j]
    <3>1. /\ IsFiniteSet(Alerting(j)) /\ Cardinality(Alerting(j)) \in Nat
          /\ sent[j].regressed + Cardinality(Alerting(j)) <= reopened[j]
          /\ sent[j].regressed \in Nat /\ reopened[j] \in Nat
      BY <1>t, FS_CardinalityType DEF SignalsInv, TypeOK
    <3>2. CASE j = i /\ wk[w].regressed
      <4>1. Alerting(j)' = Alerting(j) \cup {w} /\ w \notin Alerting(j)
        BY <2>1, <2>2, <3>2 DEF Alerting
      <4>2. IsFiniteSet(Alerting(j))' /\ Cardinality(Alerting(j))' = Cardinality(Alerting(j)) + 1
        BY <3>1, <4>1, FS_AddElement
      <4> QED
        BY <2>3, <3>1, <3>2, <4>2
    <3>3. CASE ~(j = i /\ wk[w].regressed)
      <4>1. Alerting(j)' = Alerting(j)
        BY <2>1, <2>2, <3>3 DEF Alerting
      <4> QED
        BY <2>3, <3>1, <3>3, <4>1
    <3> QED
      BY <3>2, <3>3
  <2> QED
    BY <2>3, <2>6, <2>7 DEF SignalsInv
<1>8. ASSUME NEW w \in Workers, Announce(w)
      PROVE  SignalsInv'
  <2> DEFINE i == wk[w].issue
  <2> DEFINE announced == wk[w].created
             alerted   == wk[w].regressed
  <2>1. i \in IssueIds /\ wk[w].pc = "committed"
    BY <1>8 DEF Announce, TInv, WellFormed
  <2>2. sent' = [sent EXCEPT ![i].created = IF announced THEN @ + 1 ELSE @,
                             ![i].regressed = IF alerted THEN @ + 1 ELSE @]
    BY <1>8 DEF Announce
  <2>3. wk'[w].pc = "announced" /\ \A v \in Workers \ {w} : wk'[v] = wk[v]
    <3> DEFINE r == [wk[w] EXCEPT !.pc = "announced"]
    <3>1. wk'[w] = r /\ \A v \in Workers \ {w} : wk'[v] = wk[v]
      BY <1>8, <1>t, BecomesEffect DEF Announce
    <3> QED
      BY <1>t, <3>1 DEF WorkerState
  <2>4. UNCHANGED <<minted, reopened>>
    BY <1>8 DEF Announce
  <2>5. /\ sent'[i].created = IF announced THEN sent[i].created + 1 ELSE sent[i].created
        /\ sent'[i].regressed = IF alerted THEN sent[i].regressed + 1 ELSE sent[i].regressed
        /\ \A j \in IssueIds \ {i} : sent'[j] = sent[j]
    BY <1>t, <2>1, <2>2 DEF TypeOK
  <2>6. /\ announced => Announcing(w)
        /\ \A v \in Workers : Announcing(v)' => v # w /\ Announcing(v) /\ wk'[v] = wk[v]
    BY <2>1, <2>3 DEF Announcing
  <2>7. announced => /\ sent[i].created = 0 /\ i \in minted
                     /\ \A v \in Workers : Announcing(v)' => wk'[v].issue # i
    BY <2>6 DEF SignalsInv
  <2>b. \A j \in IssueIds : sent'[j].created = sent[j].created
                             \/ (j = i /\ announced /\ sent'[j].created = 1)
    BY <1>t, <2>1, <2>5, <2>7
  <2>8. /\ \A j \in IssueIds : sent'[j].created <= 1
        /\ \A j \in IssueIds \ minted : sent'[j].created = 0
        /\ \A v \in Workers : Announcing(v)' => wk[v].issue \in IssueIds
    BY <2>1, <2>6, <2>7, <2>b DEF SignalsInv, TInv, WellFormed, Announcing
  <2>c. \A v \in Workers : Announcing(v)' => wk'[v].issue \in minted
                                             /\ sent'[wk'[v].issue].created = 0
    BY <2>6, <2>7, <2>8, <2>b DEF SignalsInv
  <2>9. ASSUME NEW j \in IssueIds
        PROVE  /\ IsFiniteSet(Alerting(j))'
               /\ sent'[j].regressed + Cardinality(Alerting(j))' <= reopened'[j]
    <3>1. /\ IsFiniteSet(Alerting(j)) /\ Cardinality(Alerting(j)) \in Nat
          /\ sent[j].regressed + Cardinality(Alerting(j)) <= reopened[j]
          /\ sent[j].regressed \in Nat /\ reopened[j] \in Nat
      BY <1>t, FS_CardinalityType DEF SignalsInv, TypeOK
    <3>2. Alerting(j)' = Alerting(j) \ {w}
      BY <2>3 DEF Alerting
    <3>3. /\ IsFiniteSet(Alerting(j))'
          /\ Cardinality(Alerting(j))' = IF w \in Alerting(j) THEN Cardinality(Alerting(j)) - 1
                                                               ELSE Cardinality(Alerting(j))
      BY <3>1, <3>2, FS_RemoveElement
    <3>4. j = i /\ alerted => w \in Alerting(j)
      BY <2>1 DEF Alerting
    <3> QED
      BY <2>4, <2>5, <3>1, <3>3, <3>4
  <2> QED
    BY <2>4, <2>6, <2>8, <2>9, <2>c DEF SignalsInv
<1>12. ASSUME NEW w \in Workers, SendStored(w)
       PROVE  SignalsInv'
  <2> DEFINE r == [wk[w] EXCEPT !.pc = "dispatched"]
  <2>1. r.pc # "committed"
    BY <1>t DEF WorkerState
  <2> QED
    BY <1>12, <2>1, NothingSent DEF SendStored
<1>13. ASSUME NEW w \in Workers, EndTask(w) \/ Raise(w)
       PROVE  SignalsInv'
  BY <1>13, NothingSent DEF EndTask, Raise, Finish, IdleWorker, histVars
<1>9. ASSUME NEW S \in SUBSET rows, NEW status \in UserStatuses, SetStatus(S, status)
      PROVE  SignalsInv'
  BY <1>9, NobodySends DEF SetStatus
<1>10. CASE Tick
  BY <1>10, NobodySends DEF Tick, histVars
<1>11. CASE UNCHANGED vars
  BY <1>11, NobodySends DEF vars, histVars
<1> QED
  BY <1>1, <1>2, <1>3, <1>4, <1>5, <1>6, <1>7, <1>8, <1>9, <1>10, <1>11, <1>12, <1>13
  DEF Next, WorkerNext, UserNext, StoreEvent, Dispatch

-----------------------------------------------------------------------------
(* Counters: a delivery of a message stores at most one event, and a user  *)
(* counted as new is one no other worker has recorded in the meantime.     *)

(* A running message is held by one worker, which has stored no event of   *)
(* this delivery before it commits.                                        *)
DeliveryInv ==
  /\ \A w \in Workers : wk[w].pc # "idle" => queue[wk[w].msg] = "running"
  /\ \A v, w \in Workers :
       wk[v].pc # "idle" /\ wk[w].pc # "idle" /\ wk[v].msg = wk[w].msg => v = w
  /\ \A e \in events : e.issue \in minted /\ e.delivery <= deliveries[e.msg]
  /\ \A w \in Workers : wk[w].pc \in {"taken", "locked", "written"} =>
       \A e \in events : e.msg = wk[w].msg => e.delivery < deliveries[e.msg]

LEMMA InitDeliveryInv == Init => DeliveryInv
BY DEF Init, DeliveryInv, IdleWorker

(* A worker that goes on with its message and stores nothing.              *)
LEMMA SameMessage ==
  ASSUME TInv, DeliveryInv, NEW w \in Workers, NEW r, Becomes(w, r), r.msg = wk[w].msg,
         wk[w].pc # "idle",
         r.pc \in {"taken", "locked", "written"} => wk[w].pc \in {"taken", "locked", "written"},
         UNCHANGED <<queue, deliveries, events, minted>>
  PROVE  DeliveryInv'
<1>1. wk'[w] = r /\ \A v \in Workers \ {w} : wk'[v] = wk[v]
  BY BecomesEffect DEF TInv
<1> QED
  BY <1>1 DEF DeliveryInv

(* A worker that ends its task, acknowledged or not.                       *)
LEMMA MessageLeft ==
  ASSUME TInv, DeliveryInv, NEW w \in Workers, wk[w].pc # "idle",
         NEW outcome, Finish(w, outcome), UNCHANGED <<deliveries, events, minted>>
  PROVE  DeliveryInv'
<1>1. wk'[w] = IdleWorker /\ \A v \in Workers \ {w} : wk'[v] = wk[v]
  BY BecomesEffect DEF TInv, Finish
<1>2. \A m \in Messages : m # wk[w].msg => queue'[m] = queue[m]
  BY DEF Finish, TInv, TypeOK
<1>3. \A v \in Workers : wk[v].pc # "idle" => wk[v].msg \in Messages
  BY DEF TInv, WellFormed
<1>4. \A v \in Workers : wk'[v].pc # "idle" =>
        v # w /\ wk'[v] = wk[v] /\ queue'[wk[v].msg] = queue[wk[v].msg]
  BY <1>1, <1>2, <1>3 DEF DeliveryInv, IdleWorker
<1> QED
  BY <1>1, <1>4 DEF DeliveryInv, IdleWorker

LEMMA StepDeliveryInv == TInv /\ DeliveryInv /\ [Next]_vars => DeliveryInv'
<1> SUFFICES ASSUME TInv, DeliveryInv, [Next]_vars
             PROVE  DeliveryInv'
  OBVIOUS
<1>t. /\ TypeOK /\ \A w \in Workers : wk[w] \in WorkerState
      /\ \A w \in Workers : wk[w].pc # "idle" => wk[w].msg \in Messages
      /\ \A e \in events : e.msg \in Messages /\ e.delivery \in Nat
  BY DEF TInv, TypeOK, WellFormed, EventRow
<1>1. ASSUME NEW m \in Messages, Accept(m)
      PROVE  DeliveryInv'
  <2>1. \A v \in Workers : wk[v].pc # "idle" => wk[v].msg # m
    BY <1>1 DEF Accept, DeliveryInv
  <2> QED
    BY <1>1, <1>t, <2>1 DEF Accept, DeliveryInv, TypeOK, dbVars, histVars
<1>2. ASSUME NEW w \in Workers, NEW m \in Messages, Take(w, m)
      PROVE  DeliveryInv'
  <2>1. wk'[w].pc = "taken" /\ wk'[w].msg = m /\ \A v \in Workers \ {w} : wk'[v] = wk[v]
    <3> DEFINE r == [wk[w] EXCEPT !.pc = "taken", !.msg = m]
    <3>1. wk'[w] = r /\ \A v \in Workers \ {w} : wk'[v] = wk[v]
      BY <1>2, <1>t, BecomesEffect DEF Take
    <3> QED
      BY <1>t, <3>1 DEF WorkerState
  <2>2. \A v \in Workers : wk[v].pc # "idle" => wk[v].msg # m
    BY <1>2 DEF Take, DeliveryInv
  <2>3. /\ queue'[m] = "running" /\ deliveries'[m] = deliveries[m] + 1
        /\ \A n \in Messages \ {m} : queue'[n] = queue[n] /\ deliveries'[n] = deliveries[n]
        /\ UNCHANGED <<events, minted>>
    BY <1>2, <1>t DEF Take, TypeOK, dbVars, histVars
  <2>4. \A e \in events :
          e.delivery <= deliveries'[e.msg] /\ (e.msg = m => e.delivery < deliveries'[m])
    BY <1>t, <2>3 DEF DeliveryInv, TypeOK
  <2>5. \A v \in Workers \ {w} : wk[v].pc # "idle" =>
          deliveries'[wk[v].msg] = deliveries[wk[v].msg] /\ queue'[wk[v].msg] = queue[wk[v].msg]
    BY <1>t, <2>2, <2>3
  <2> QED
    BY <2>1, <2>2, <2>3, <2>4, <2>5 DEF DeliveryInv
<1>3. ASSUME NEW w \in Workers, Crash(w)
      PROVE  DeliveryInv'
  BY <1>3, MessageLeft DEF Crash, dbVars, histVars
<1>4. ASSUME NEW w \in Workers, LockIssue(w)
      PROVE  DeliveryInv'
  <2>1. PICK i \in Group(wk[w].msg.hash) :
          Becomes(w, [wk[w] EXCEPT !.pc = "locked", !.issue = i, !.created = FALSE,
                                   !.regressed = (issue[i].status = "resolved")])
    BY <1>4 DEF LockIssue
  <2> DEFINE r == [wk[w] EXCEPT !.pc = "locked", !.issue = i, !.created = FALSE,
                                !.regressed = (issue[i].status = "resolved")]
  <2>2. r.msg = wk[w].msg
    BY <1>t DEF WorkerState
  <2> QED
    BY <1>4, <2>1, <2>2, SameMessage DEF LockIssue, dbVars, histVars
<1>5. ASSUME NEW w \in Workers, CreateIssue(w)
      PROVE  DeliveryInv'
  <2>1. PICK i \in IssueIds :
          Becomes(w, [wk[w] EXCEPT !.pc = "locked", !.issue = i, !.created = TRUE,
                                   !.regressed = FALSE])
    BY <1>5 DEF CreateIssue
  <2> DEFINE r == [wk[w] EXCEPT !.pc = "locked", !.issue = i, !.created = TRUE,
                                !.regressed = FALSE]
  <2>2. r.msg = wk[w].msg
    BY <1>t DEF WorkerState
  <2> QED
    BY <1>5, <2>1, <2>2, SameMessage DEF CreateIssue, dbVars, histVars
<1>6. ASSUME NEW w \in Workers, WriteRows(w)
      PROVE  DeliveryInv'
  <2>1. PICK n \in BOOLEAN, ts \in 0..now :
          Becomes(w, [wk[w] EXCEPT !.pc = "written", !.newUser = n, !.ts = ts])
    BY <1>6 DEF WriteRows
  <2> DEFINE r == [wk[w] EXCEPT !.pc = "written", !.newUser = n, !.ts = ts]
  <2>2. r.msg = wk[w].msg
    BY <1>t DEF WorkerState
  <2> QED
    BY <1>6, <2>1, <2>2, SameMessage DEF WriteRows, dbVars, histVars
<1>7. ASSUME NEW w \in Workers, Commit(w)
      PROVE  DeliveryInv'
  <2> DEFINE m == wk[w].msg
             e == [msg |-> m, delivery |-> deliveries[m], issue |-> wk[w].issue, at |-> now]
  <2>1. wk'[w].pc = "committed" /\ wk'[w].msg = m /\ \A v \in Workers \ {w} : wk'[v] = wk[v]
    <3> DEFINE r == [wk[w] EXCEPT !.pc = "committed"]
    <3>1. wk'[w] = r /\ \A v \in Workers \ {w} : wk'[v] = wk[v]
      BY <1>7, <1>t, BecomesEffect DEF Commit
    <3> QED
      BY <1>t, <3>1 DEF WorkerState
  <2>2. /\ wk[w].pc = "written" /\ m \in Messages /\ deliveries[m] \in Nat
        /\ events' = events \cup {e} /\ minted' = minted \cup {wk[w].issue}
        /\ UNCHANGED <<queue, deliveries>>
    BY <1>7, <1>t DEF Commit, TypeOK
  <2>3. \A f \in events' : f.issue \in minted' /\ f.delivery <= deliveries'[f.msg]
    BY <2>2 DEF DeliveryInv
  <2>4. \A v \in Workers \ {w} : wk[v].pc # "idle" => wk[v].msg # m
    BY <2>2 DEF DeliveryInv
  <2> QED
    BY <2>1, <2>2, <2>3, <2>4 DEF DeliveryInv
<1>8. ASSUME NEW w \in Workers, Dispatch(w)
      PROVE  DeliveryInv'
  <2>1. wk[w].pc # "idle" /\ UNCHANGED <<deliveries, events, minted>>
    BY <1>8, DispatchMeans DEF dbVars
  <2>2. CASE EndTask(w) \/ Raise(w)
    BY <2>1, <2>2, MessageLeft DEF EndTask, Raise
  <2>3. CASE Announce(w)
    <3> DEFINE r == [wk[w] EXCEPT !.pc = "announced"]
    <3>1. r.msg = wk[w].msg /\ r.pc = "announced"
      BY <1>t DEF WorkerState
    <3> QED
      BY <2>1, <2>3, <3>1, SameMessage DEF Announce
  <2>4. CASE SendStored(w)
    <3> DEFINE r == [wk[w] EXCEPT !.pc = "dispatched"]
    <3>1. r.msg = wk[w].msg /\ r.pc = "dispatched"
      BY <1>t DEF WorkerState
    <3> QED
      BY <2>1, <2>4, <3>1, SameMessage DEF SendStored
  <2> QED
    BY <1>8, <2>2, <2>3, <2>4 DEF Dispatch
<1>9. ASSUME NEW S \in SUBSET rows, NEW status \in UserStatuses, SetStatus(S, status)
      PROVE  DeliveryInv'
  BY <1>9 DEF SetStatus, DeliveryInv
<1>10. CASE Tick
  BY <1>10 DEF Tick, DeliveryInv, dbVars, histVars
<1>11. CASE UNCHANGED vars
  BY <1>11 DEF vars, DeliveryInv, dbVars, histVars
<1> QED
  BY <1>1, <1>2, <1>3, <1>4, <1>5, <1>6, <1>7, <1>8, <1>9, <1>10, <1>11
  DEF Next, WorkerNext, UserNext, StoreEvent

-----------------------------------------------------------------------------
(* event_stored: a delivery that has not come to its end has not sent it.  *)

ToldInv ==
  /\ \A m \in Messages : told[m] <= deliveries[m]
  /\ \A w \in Workers : wk[w].pc \notin {"idle", "dispatched"} =>
       told[wk[w].msg] < deliveries[wk[w].msg]

(* A step of one worker that sends nothing and takes no message.           *)
LEMMA NothingTold ==
  ASSUME TInv, ToldInv, NEW w \in Workers, NEW r, Becomes(w, r),
         \/ r.pc \in {"idle", "dispatched"}
         \/ r.msg = wk[w].msg /\ wk[w].pc \notin {"idle", "dispatched"},
         UNCHANGED <<told, deliveries>>
  PROVE  ToldInv'
<1>1. wk'[w] = r /\ \A v \in Workers \ {w} : wk'[v] = wk[v]
  BY BecomesEffect DEF TInv
<1> QED
  BY <1>1 DEF ToldInv

LEMMA StepToldInv == TInv /\ DeliveryInv /\ ToldInv /\ [Next]_vars => ToldInv'
<1> SUFFICES ASSUME TInv, DeliveryInv, ToldInv, [Next]_vars
             PROVE  ToldInv'
  OBVIOUS
<1>t. /\ TypeOK /\ \A w \in Workers : wk[w] \in WorkerState
      /\ \A w \in Workers : wk[w].pc # "idle" => wk[w].msg \in Messages
  BY DEF TInv, TypeOK, WellFormed
<1>1. ASSUME UNCHANGED <<wk, told, deliveries>>
      PROVE  ToldInv'
  BY <1>1 DEF ToldInv
<1>2. ASSUME NEW w \in Workers, NEW m \in Messages, Take(w, m)
      PROVE  ToldInv'
  <2>1. wk'[w].pc = "taken" /\ wk'[w].msg = m /\ \A v \in Workers \ {w} : wk'[v] = wk[v]
    <3> DEFINE r == [wk[w] EXCEPT !.pc = "taken", !.msg = m]
    <3>1. wk'[w] = r /\ \A v \in Workers \ {w} : wk'[v] = wk[v]
      BY <1>2, <1>t, BecomesEffect DEF Take
    <3> QED
      BY <1>t, <3>1 DEF WorkerState
  <2>2. \A v \in Workers : wk[v].pc # "idle" => wk[v].msg # m
    BY <1>2 DEF Take, DeliveryInv
  <2>3. /\ deliveries'[m] = deliveries[m] + 1 /\ told' = told
        /\ \A n \in Messages \ {m} : deliveries'[n] = deliveries[n]
    BY <1>2, <1>t DEF Take, TypeOK, histVars
  <2>4. \A n \in Messages : told[n] \in Nat /\ deliveries[n] \in Nat
    BY <1>t DEF TypeOK
  <2>5. \A n \in Messages : told'[n] <= deliveries'[n] /\ (n = m => told'[n] < deliveries'[n])
    BY <2>3, <2>4 DEF ToldInv
  <2> QED
    BY <1>t, <2>1, <2>2, <2>3, <2>5 DEF ToldInv
<1>3. ASSUME NEW w \in Workers, Crash(w) \/ EndTask(w) \/ Raise(w)
      PROVE  ToldInv'
  <2>1. Becomes(w, IdleWorker) /\ IdleWorker.pc = "idle" /\ UNCHANGED <<told, deliveries>>
    BY <1>3 DEF Crash, EndTask, Raise, Finish, IdleWorker, histVars
  <2> QED
    BY <2>1, NothingTold
<1>4. ASSUME NEW w \in Workers, LockIssue(w) \/ CreateIssue(w)
      PROVE  ToldInv'
  <2>1. PICK i, created, regressed :
          Becomes(w, [wk[w] EXCEPT !.pc = "locked", !.issue = i, !.created = created,
                                   !.regressed = regressed])
    BY <1>4 DEF LockIssue, CreateIssue
  <2> DEFINE r == [wk[w] EXCEPT !.pc = "locked", !.issue = i, !.created = created,
                                !.regressed = regressed]
  <2>2. r.msg = wk[w].msg
    BY <1>t DEF WorkerState
  <2>3. wk[w].pc = "taken" /\ UNCHANGED <<told, deliveries>>
    BY <1>4 DEF LockIssue, CreateIssue, histVars
  <2> QED
    BY <2>1, <2>2, <2>3, NothingTold
<1>5. ASSUME NEW w \in Workers, WriteRows(w)
      PROVE  ToldInv'
  <2>1. PICK n, ts : Becomes(w, [wk[w] EXCEPT !.pc = "written", !.newUser = n, !.ts = ts])
    BY <1>5 DEF WriteRows
  <2> DEFINE r == [wk[w] EXCEPT !.pc = "written", !.newUser = n, !.ts = ts]
  <2>2. r.msg = wk[w].msg /\ wk[w].pc = "locked" /\ UNCHANGED <<told, deliveries>>
    BY <1>5, <1>t DEF WriteRows, WorkerState, histVars
  <2> QED
    BY <2>1, <2>2, NothingTold
<1>6. ASSUME NEW w \in Workers, Commit(w)
      PROVE  ToldInv'
  <2> DEFINE r == [wk[w] EXCEPT !.pc = "committed"]
  <2>1. Becomes(w, r) /\ wk[w].pc = "written" /\ UNCHANGED <<told, deliveries>>
    BY <1>6 DEF Commit
  <2>2. r.msg = wk[w].msg
    BY <1>t DEF WorkerState
  <2> QED
    BY <2>1, <2>2, NothingTold
<1>7. ASSUME NEW w \in Workers, Announce(w)
      PROVE  ToldInv'
  <2> DEFINE r == [wk[w] EXCEPT !.pc = "announced"]
  <2>1. Becomes(w, r) /\ wk[w].pc = "committed" /\ UNCHANGED <<told, deliveries>>
    BY <1>7 DEF Announce
  <2>2. r.msg = wk[w].msg
    BY <1>t DEF WorkerState
  <2> QED
    BY <2>1, <2>2, NothingTold
<1>8. ASSUME NEW w \in Workers, SendStored(w)
      PROVE  ToldInv'
  <2> DEFINE m == wk[w].msg
  <2>1. wk[w].pc \in {"committed", "announced"} /\ m \in Messages
    BY <1>8, <1>t DEF SendStored
  <2>2. wk'[w].pc = "dispatched" /\ \A v \in Workers \ {w} : wk'[v] = wk[v]
    <3> DEFINE r == [wk[w] EXCEPT !.pc = "dispatched"]
    <3>1. wk'[w] = r /\ \A v \in Workers \ {w} : wk'[v] = wk[v]
      BY <1>8, <1>t, BecomesEffect DEF SendStored
    <3> QED
      BY <1>t, <3>1 DEF WorkerState
  <2>3. /\ told'[m] = told[m] + 1 /\ \A n \in Messages \ {m} : told'[n] = told[n]
        /\ deliveries' = deliveries
    BY <1>8, <1>t, <2>1 DEF SendStored, TypeOK
  <2>4. \A v \in Workers \ {w} : wk[v].pc # "idle" => wk[v].msg # m
    BY <2>1 DEF DeliveryInv
  <2>5. told[m] \in Nat /\ deliveries[m] \in Nat /\ told[m] < deliveries[m]
    BY <1>t, <2>1 DEF ToldInv, TypeOK
  <2> QED
    BY <1>t, <2>2, <2>3, <2>4, <2>5 DEF ToldInv
<1>9. CASE (\E m \in Messages : Accept(m)) \/ UserNext \/ Tick \/ UNCHANGED vars
  BY <1>1, <1>9 DEF Accept, UserNext, SetStatus, Tick, vars, histVars
<1> QED
  BY <1>2, <1>3, <1>4, <1>5, <1>6, <1>7, <1>8, <1>9
  DEF Next, WorkerNext, StoreEvent, Dispatch

(* issue_created is sent at most once for an issue, issue_regressed no     *)
(* more often than the issue was reopened, and event_stored no more often  *)
(* than a message was delivered, for any number of workers, wherever they  *)
(* die between commit, signals and acknowledgement.                        *)
THEOREM SignalsOnce == Spec => []NoDuplicateSignal
<1> DEFINE IInv == TInv /\ StoreInv /\ SignalsInv /\ DeliveryInv /\ ToldInv
<1>1. Init => IInv
  <2>1. Init => ToldInv
    BY DEF Init, ToldInv, IdleWorker
  <2> QED
    BY <2>1, InitTInv, InitStoreInv, InitSignalsInv, InitDeliveryInv
<1>2. IInv /\ [Next]_vars => IInv'
  BY StepTInv, StepStoreInv, StepSignalsInv, StepDeliveryInv, StepToldInv
<1>3. IInv => NoDuplicateSignal
  <2> SUFFICES ASSUME TInv, SignalsInv, ToldInv, NEW i \in IssueIds
               PROVE  sent[i].created <= 1 /\ sent[i].regressed <= reopened[i]
    BY DEF NoDuplicateSignal, ToldInv
  <2>1. /\ Cardinality(Alerting(i)) \in Nat
        /\ sent[i].regressed \in Nat /\ reopened[i] \in Nat
    BY FS_CardinalityType DEF SignalsInv, TInv, TypeOK
  <2> QED
    BY <2>1 DEF SignalsInv
<1> QED
  BY <1>1, <1>2, <1>3, PTL DEF Spec

(* A worker that found its user new has inserted the only row for it, and  *)
(* the row is still missing from the table when the worker commits.        *)
NewUserInv ==
  /\ \A p \in seenBy : p[1] \in minted
  /\ \A w \in Workers : wk[w].pc = "written" =>
       LET p == <<wk[w].issue, wk[w].msg.user>> IN
       /\ wk[w].newUser => wk[w].msg.user \in Users /\ p \notin seenBy /\ pendingUsers[w] = {p}
       /\ ~wk[w].newUser => pendingUsers[w] = {}

LEMMA InitNewUserInv == Init => NewUserInv
BY DEF Init, NewUserInv, IdleWorker

(* A step of w that records no user and does not bring w to its commit.    *)
LEMMA NoUserRecorded ==
  ASSUME TInv, NewUserInv, NEW w \in Workers, NEW r, Becomes(w, r), r.pc # "written",
         UNCHANGED <<minted, seenBy>>,
         \A v \in Workers \ {w} : pendingUsers'[v] = pendingUsers[v]
  PROVE  NewUserInv'
<1>1. wk'[w] = r /\ \A v \in Workers \ {w} : wk'[v] = wk[v]
  BY BecomesEffect DEF TInv
<1> QED
  BY <1>1 DEF NewUserInv

LEMMA StepNewUserInv == TInv /\ StoreInv /\ NewUserInv /\ [Next]_vars => NewUserInv'
<1> SUFFICES ASSUME TInv, StoreInv, NewUserInv, [Next]_vars
             PROVE  NewUserInv'
  OBVIOUS
<1>t. TypeOK /\ \A w \in Workers : wk[w] \in WorkerState /\ w \in Owners
  BY DEF TInv, TypeOK, Owners
<1>1. ASSUME NEW m \in Messages, Accept(m)
      PROVE  NewUserInv'
  BY <1>1 DEF Accept, NewUserInv, dbVars, lockVars, histVars
<1>2. ASSUME NEW w \in Workers, NEW m \in Messages, Take(w, m)
      PROVE  NewUserInv'
  <2> DEFINE r == [wk[w] EXCEPT !.pc = "taken", !.msg = m]
  <2>1. r.pc # "written"
    BY <1>t DEF WorkerState
  <2> QED
    BY <1>2, <2>1, NoUserRecorded DEF Take, dbVars, lockVars, histVars
<1>3. ASSUME NEW w \in Workers, Crash(w)
      PROVE  NewUserInv'
  <2>1. \A v \in Workers \ {w} : pendingUsers'[v] = pendingUsers[v]
    BY <1>3, <1>t DEF Crash, TypeOK
  <2> QED
    BY <1>3, <2>1, NoUserRecorded DEF Crash, Finish, IdleWorker, dbVars, histVars
<1>4. ASSUME NEW w \in Workers, LockIssue(w)
      PROVE  NewUserInv'
  <2>1. PICK i \in Group(wk[w].msg.hash) :
          Becomes(w, [wk[w] EXCEPT !.pc = "locked", !.issue = i, !.created = FALSE,
                                   !.regressed = (issue[i].status = "resolved")])
    BY <1>4 DEF LockIssue
  <2> DEFINE r == [wk[w] EXCEPT !.pc = "locked", !.issue = i, !.created = FALSE,
                                !.regressed = (issue[i].status = "resolved")]
  <2>2. r.pc # "written"
    BY <1>t DEF WorkerState
  <2> QED
    BY <1>4, <2>1, <2>2, NoUserRecorded DEF LockIssue, dbVars, histVars
<1>5. ASSUME NEW w \in Workers, CreateIssue(w)
      PROVE  NewUserInv'
  <2>1. PICK i \in IssueIds :
          Becomes(w, [wk[w] EXCEPT !.pc = "locked", !.issue = i, !.created = TRUE,
                                   !.regressed = FALSE])
    BY <1>5 DEF CreateIssue
  <2> DEFINE r == [wk[w] EXCEPT !.pc = "locked", !.issue = i, !.created = TRUE,
                                !.regressed = FALSE]
  <2>2. r.pc # "written"
    BY <1>t DEF WorkerState
  <2> QED
    BY <1>5, <2>1, <2>2, NoUserRecorded DEF CreateIssue, dbVars, histVars
<1>6. ASSUME NEW w \in Workers, WriteRows(w)
      PROVE  NewUserInv'
  <2> DEFINE i == wk[w].issue
             u == wk[w].msg.user
             isNew == u # None /\ <<i, u>> \notin seenBy
  <2>1. PICK ts \in 0..now :
          Becomes(w, [wk[w] EXCEPT !.pc = "written", !.newUser = isNew, !.ts = ts])
    BY <1>6 DEF WriteRows
  <2>2. /\ wk'[w].issue = i /\ wk'[w].msg = wk[w].msg /\ (wk'[w].newUser <=> isNew)
        /\ \A v \in Workers \ {w} : wk'[v] = wk[v]
    <3> HIDE DEF isNew
    <3> DEFINE r == [wk[w] EXCEPT !.pc = "written", !.newUser = isNew, !.ts = ts]
    <3>1. wk'[w] = r /\ \A v \in Workers \ {w} : wk'[v] = wk[v]
      BY <1>t, <2>1, BecomesEffect
    <3> QED
      BY <1>t, <3>1 DEF WorkerState
  <2>3. /\ pendingUsers'[w] = IF isNew THEN {<<i, u>>} ELSE {}
        /\ \A v \in Workers \ {w} : pendingUsers'[v] = pendingUsers[v]
        /\ UNCHANGED <<minted, seenBy>>
    BY <1>6, <1>t DEF WriteRows, TypeOK, dbVars, histVars
  <2>4. isNew => u \in Users
    BY <1>6, MessageFields DEF WriteRows, TInv, WellFormed
  <2> QED
    BY <2>2, <2>3, <2>4 DEF NewUserInv
<1>7. ASSUME NEW w \in Workers, Commit(w)
      PROVE  NewUserInv'
  <2> DEFINE i == wk[w].issue
  <2>1. wk'[w].pc = "committed" /\ \A v \in Workers \ {w} : wk'[v] = wk[v]
    <3> DEFINE r == [wk[w] EXCEPT !.pc = "committed"]
    <3>1. wk'[w] = r /\ \A v \in Workers \ {w} : wk'[v] = wk[v]
      BY <1>7, <1>t, BecomesEffect DEF Commit
    <3> QED
      BY <1>t, <3>1 DEF WorkerState
  <2>2. /\ wk[w].pc = "written" /\ seenBy' = seenBy \cup pendingUsers[w]
        /\ minted' = minted \cup {i}
        /\ \A v \in Workers \ {w} : pendingUsers'[v] = pendingUsers[v]
    BY <1>7, <1>t DEF Commit, TypeOK
  <2>3. \A p \in pendingUsers[w] : p[1] = i
    <3>1. pendingUsers[w] \subseteq {<<i, wk[w].msg.user>>}
      BY <2>2 DEF NewUserInv
    <3> QED
      BY <3>1
  <2>4. \A v \in Workers \ {w} : wk[v].pc = "written" => wk[v].issue # i
    BY <2>2 DEF StoreInv, LockHeld, InTransaction
  <2>5. \A p \in seenBy' : p[1] \in minted'
    BY <2>2, <2>3 DEF NewUserInv
  <2> QED
    BY <2>1, <2>2, <2>3, <2>4, <2>5 DEF NewUserInv
<1>8. ASSUME NEW w \in Workers, Dispatch(w)
      PROVE  NewUserInv'
  BY <1>8, DispatchMeans, NoUserRecorded DEF dbVars, lockVars
<1>9. ASSUME NEW S \in SUBSET rows, NEW status \in UserStatuses, SetStatus(S, status)
      PROVE  NewUserInv'
  BY <1>9 DEF SetStatus, NewUserInv, lockVars
<1>10. CASE Tick
  BY <1>10 DEF Tick, NewUserInv, dbVars, lockVars, histVars
<1>11. CASE UNCHANGED vars
  BY <1>11 DEF vars, NewUserInv, dbVars, lockVars, histVars
<1> QED
  BY <1>1, <1>2, <1>3, <1>4, <1>5, <1>6, <1>7, <1>8, <1>9, <1>10, <1>11
  DEF Next, WorkerNext, UserNext, StoreEvent

-----------------------------------------------------------------------------

StoredEvents(i) == {e \in events : e.issue = i}
DistinctUsers(i) == {u \in Users : <<i, u>> \in seenBy}

(* The counters of an issue, with the finiteness counting needs.           *)
Counted(i) ==
  /\ IsFiniteSet(StoredEvents(i)) /\ IsFiniteSet(DistinctUsers(i))
  /\ i \in rows => /\ issue[i].times = Cardinality(StoredEvents(i))
                    /\ issue[i].users = Cardinality(DistinctUsers(i))

CountInv == \A i \in IssueIds : Counted(i)

LEMMA InitCountInv == Init => CountInv
<1> SUFFICES ASSUME Init, NEW i \in IssueIds
             PROVE  Counted(i)
  BY DEF CountInv
<1>1. StoredEvents(i) = {} /\ DistinctUsers(i) = {} /\ i \notin rows
  BY DEF Init, StoredEvents, DistinctUsers
<1> QED
  BY <1>1, FS_EmptySet DEF Counted

(* A step that leaves the counters and the rows they count alone.          *)
LEMMA NothingCounted ==
  ASSUME TInv, CountInv, UNCHANGED <<rows, seenBy, events>>,
         \A i \in rows : issue'[i].times = issue[i].times /\ issue'[i].users = issue[i].users
  PROVE  CountInv'
<1>1. \A i \in IssueIds : StoredEvents(i)' = StoredEvents(i) /\ DistinctUsers(i)' = DistinctUsers(i)
  BY DEF StoredEvents, DistinctUsers
<1> QED
  BY <1>1 DEF CountInv, Counted

(* A commit counts one event that was not stored, and its user exactly if  *)
(* that user was not recorded.                                             *)
LEMMA CommitAddsOne ==
  ASSUME TInv, StoreInv, DeliveryInv, NewUserInv, NEW w \in Workers, Commit(w),
         NEW i \in IssueIds, i = wk[w].issue,
         IsFiniteSet(StoredEvents(i)), IsFiniteSet(DistinctUsers(i))
  PROVE  LET new == IF wk[w].newUser THEN 1 ELSE 0 IN
         /\ rows' = rows \cup {i}
         /\ \A j \in IssueIds \ {i} :
              /\ issue'[j] = issue[j]
              /\ StoredEvents(j)' = StoredEvents(j) /\ DistinctUsers(j)' = DistinctUsers(j)
         /\ IsFiniteSet(StoredEvents(i))' /\ IsFiniteSet(DistinctUsers(i))'
         /\ Cardinality(StoredEvents(i))' = Cardinality(StoredEvents(i)) + 1
         /\ Cardinality(DistinctUsers(i))' = Cardinality(DistinctUsers(i)) + new
         /\ \/ /\ i \in rows
               /\ issue'[i].times = issue[i].times + 1 /\ issue'[i].users = issue[i].users + new
            \/ /\ Cardinality(StoredEvents(i)) = 0 /\ Cardinality(DistinctUsers(i)) = 0
               /\ issue'[i].times = 1 /\ issue'[i].users = new
<1> DEFINE m == wk[w].msg
           e == [msg |-> m, delivery |-> deliveries[m], issue |-> i, at |-> now]
           u == wk[w].msg.user
           new == IF wk[w].newUser THEN 1 ELSE 0
<1>1. /\ wk[w].pc = "written" /\ InTransaction(w) /\ m \in Messages
      /\ TypeOK /\ wk[w] \in WorkerState /\ deliveries[m] \in Nat /\ issue[i] \in IssueRow
  BY DEF Commit, InTransaction, TInv, WellFormed, TypeOK
<1>2. /\ rows' = rows \cup {i} /\ events' = events \cup {e}
      /\ seenBy' = seenBy \cup pendingUsers[w]
      /\ issue'[i] = Bumped(i, w) /\ \A j \in IssueIds \ {i} : issue'[j] = issue[j]
  BY <1>1 DEF Commit, TypeOK
<1>3. e \notin events
  BY <1>1 DEF DeliveryInv
<1>4. ASSUME NEW j \in IssueIds, j # i
      PROVE  StoredEvents(j)' = StoredEvents(j) /\ DistinctUsers(j)' = DistinctUsers(j)
  <2>1. StoredEvents(j)' = StoredEvents(j)
    BY <1>2, <1>4 DEF StoredEvents
  <2>2. \A p \in pendingUsers[w] : p = <<i, u>>
    BY <1>1 DEF NewUserInv
  <2>3. DistinctUsers(j)' = DistinctUsers(j)
    BY <1>2, <1>4, <2>2 DEF DistinctUsers
  <2> QED
    BY <2>1, <2>3
<1>6. /\ IsFiniteSet(StoredEvents(i))'
      /\ Cardinality(StoredEvents(i))' = Cardinality(StoredEvents(i)) + 1
  <2>1. StoredEvents(i)' = StoredEvents(i) \cup {e} /\ e \notin StoredEvents(i)
    BY <1>2, <1>3 DEF StoredEvents
  <2> QED
    BY <2>1, FS_AddElement
<1>7. /\ IsFiniteSet(DistinctUsers(i))'
      /\ Cardinality(DistinctUsers(i))' = Cardinality(DistinctUsers(i)) + new
  <2>1. CASE wk[w].newUser
    <3>1. u \in Users /\ <<i, u>> \notin seenBy /\ pendingUsers[w] = {<<i, u>>}
      BY <1>1, <2>1 DEF NewUserInv
    <3>2. DistinctUsers(i)' = DistinctUsers(i) \cup {u} /\ u \notin DistinctUsers(i)
      BY <1>2, <3>1 DEF DistinctUsers
    <3> QED
      BY <2>1, <3>2, FS_AddElement
  <2>2. CASE ~wk[w].newUser
    <3>1. pendingUsers[w] = {}
      BY <1>1, <2>2 DEF NewUserInv
    <3>2. DistinctUsers(i)' = DistinctUsers(i)
      BY <1>2, <3>1 DEF DistinctUsers
    <3> QED
      BY <2>2, <3>2, FS_CardinalityType
  <2> QED
    BY <2>1, <2>2
<1>8. /\ i \notin rows => /\ wk[w].created
                         /\ Cardinality(StoredEvents(i)) = 0 /\ Cardinality(DistinctUsers(i)) = 0
      /\ i \in rows => ~wk[w].created
  <2>1. i \notin rows => wk[w].created
    BY <1>1 DEF StoreInv, FinderCurrent
  <2>2. wk[w].created => i \notin minted
    BY <1>1 DEF StoreInv, CreatorAlone
  <2>3. i \notin minted => StoredEvents(i) = {} /\ DistinctUsers(i) = {} /\ i \notin rows
    BY DEF StoredEvents, DistinctUsers, DeliveryInv, NewUserInv, StoreInv
  <2>4. Cardinality({}) = 0
    BY FS_EmptySet
  <2> QED
    BY <2>1, <2>2, <2>3, <2>4
<1>9. \/ /\ i \in rows
         /\ issue'[i].times = issue[i].times + 1 /\ issue'[i].users = issue[i].users + new
      \/ /\ Cardinality(StoredEvents(i)) = 0 /\ Cardinality(DistinctUsers(i)) = 0
         /\ issue'[i].times = 1 /\ issue'[i].users = new
  BY <1>2, <1>8 DEF Bumped, BlankIssue
<1> QED
  BY <1>2, <1>4, <1>6, <1>7, <1>9

LEMMA CommitCounts ==
  ASSUME TInv, StoreInv, DeliveryInv, NewUserInv, CountInv, NEW w \in Workers, Commit(w)
  PROVE  CountInv'
<1>0. PICK i \in IssueIds : i = wk[w].issue
  BY DEF Commit, TInv, WellFormed
<1> DEFINE new == IF wk[w].newUser THEN 1 ELSE 0
<1>1. IsFiniteSet(StoredEvents(i)) /\ IsFiniteSet(DistinctUsers(i))
  BY DEF CountInv, Counted
<1>2. /\ rows' = rows \cup {i}
      /\ \A j \in IssueIds \ {i} :
           /\ issue'[j] = issue[j]
           /\ StoredEvents(j)' = StoredEvents(j) /\ DistinctUsers(j)' = DistinctUsers(j)
      /\ IsFiniteSet(StoredEvents(i))' /\ IsFiniteSet(DistinctUsers(i))'
      /\ Cardinality(StoredEvents(i))' = Cardinality(StoredEvents(i)) + 1
      /\ Cardinality(DistinctUsers(i))' = Cardinality(DistinctUsers(i)) + new
      /\ \/ /\ i \in rows
            /\ issue'[i].times = issue[i].times + 1 /\ issue'[i].users = issue[i].users + new
         \/ /\ Cardinality(StoredEvents(i)) = 0 /\ Cardinality(DistinctUsers(i)) = 0
            /\ issue'[i].times = 1 /\ issue'[i].users = new
  BY <1>0, <1>1, CommitAddsOne
<1>3. ASSUME NEW j \in IssueIds, j # i
      PROVE  Counted(j)'
  BY <1>2, <1>3 DEF CountInv, Counted
<1>4. Counted(i)'
  BY <1>2 DEF CountInv, Counted
<1> QED
  BY <1>3, <1>4 DEF CountInv

LEMMA StepCountInv ==
  TInv /\ StoreInv /\ DeliveryInv /\ NewUserInv /\ CountInv /\ [Next]_vars => CountInv'
<1> SUFFICES ASSUME TInv, StoreInv, DeliveryInv, NewUserInv, CountInv, [Next]_vars
             PROVE  CountInv'
  OBVIOUS
<1>1. ASSUME NEW m \in Messages, Accept(m)
      PROVE  CountInv'
  BY <1>1, NothingCounted DEF Accept, dbVars
<1>2. ASSUME NEW w \in Workers, Commit(w)
      PROVE  CountInv'
  BY <1>2, CommitCounts
<1>3. ASSUME NEW w \in Workers, (StoreEvent(w) /\ ~Commit(w)) \/ Crash(w)
                                \/ \E m \in Messages : Take(w, m)
      PROVE  CountInv'
  <2>1. UNCHANGED dbVars
    BY <1>3, DispatchMeans DEF StoreEvent, LockIssue, CreateIssue, WriteRows, Crash, Take
  <2> QED
    BY <2>1, NothingCounted DEF dbVars
<1>4. ASSUME NEW S \in SUBSET rows, NEW status \in UserStatuses, SetStatus(S, status)
      PROVE  CountInv'
  <2>1. \A i \in IssueIds : issue'[i].times = issue[i].times /\ issue'[i].users = issue[i].users
    BY <1>4 DEF SetStatus, TInv, TypeOK, IssueRow
  <2> QED
    BY <1>4, <2>1, NothingCounted DEF SetStatus, TInv, TypeOK
<1>5. CASE Tick
  BY <1>5, NothingCounted DEF Tick, dbVars
<1>6. CASE UNCHANGED vars
  BY <1>6, NothingCounted DEF vars, dbVars
<1> QED
  BY <1>1, <1>2, <1>3, <1>4, <1>5, <1>6 DEF Next, WorkerNext, UserNext, StoreEvent

(* times_seen of every issue is the number of its stored events and        *)
(* users_seen the number of its distinct users, however many workers store *)
(* events of a group at once, crash, and store a delivery again.           *)
THEOREM CountersStayExact == Spec => []CountersExact
<1> DEFINE IInv == TInv /\ StoreInv /\ DeliveryInv /\ NewUserInv /\ CountInv
<1>1. Init => IInv
  BY InitTInv, InitStoreInv, InitDeliveryInv, InitNewUserInv, InitCountInv
<1>2. IInv /\ [Next]_vars => IInv'
  BY StepTInv, StepStoreInv, StepDeliveryInv, StepNewUserInv, StepCountInv
<1>3. IInv => CountersExact
  BY DEF CountInv, Counted, CountersExact, CountsExact, UsersExact, StoredEvents, DistinctUsers,
         TInv, TypeOK
<1> QED
  BY <1>1, <1>2, <1>3, PTL DEF Spec

-----------------------------------------------------------------------------
(***************************************************************************)
(* The store implements the abstract tracker: every commit of a worker is  *)
(* one observation, every status change one triage, and any other step     *)
(* leaves the groups as they are.                                          *)
(***************************************************************************)

(* Users recorded by a worker that is about to commit are the user of its  *)
(* event, and no user is recorded for an issue that never existed.         *)
UsersInv ==
  /\ \A p \in seenBy : p[1] \in minted
  /\ \A i \in rows : issue[i].hash \in Hashes
  /\ \A w \in Workers : wk[w].pc = "written" =>
       LET i == wk[w].issue
           u == wk[w].msg.user
       IN  /\ pendingUsers[w] \subseteq {<<i, u>>}
           /\ u = None => pendingUsers[w] = {}
           /\ u # None => <<i, u>> \in seenBy \cup pendingUsers[w]

LEMMA InitUsersInv == Init => UsersInv
BY DEF Init, UsersInv, IdleWorker

(* A step of w that changes no table and does not bring w to its commit.   *)
LEMMA OtherPc ==
  ASSUME TInv, UsersInv, NEW w \in Workers, NEW r, Becomes(w, r), r.pc # "written",
         UNCHANGED <<rows, issue, minted, seenBy>>,
         \A v \in Workers \ {w} : pendingUsers'[v] = pendingUsers[v]
  PROVE  UsersInv'
<1>1. wk'[w] = r /\ \A v \in Workers \ {w} : wk'[v] = wk[v]
  BY BecomesEffect DEF TInv
<1> QED
  BY <1>1 DEF UsersInv

LEMMA StepUsersInv == TInv /\ StoreInv /\ UsersInv /\ [Next]_vars => UsersInv'
<1> SUFFICES ASSUME TInv, StoreInv, UsersInv, [Next]_vars
             PROVE  UsersInv'
  OBVIOUS
<1>t. TypeOK /\ \A v \in Workers : v \in Owners
  BY DEF TInv, Owners
<1>1. ASSUME NEW m \in Messages, Accept(m)
      PROVE  UsersInv'
  BY <1>1 DEF Accept, UsersInv, dbVars, lockVars, histVars
<1>2. ASSUME NEW w \in Workers, NEW m \in Messages, Take(w, m)
      PROVE  UsersInv'
  <2> DEFINE r == [wk[w] EXCEPT !.pc = "taken", !.msg = m]
  <2>1. r.pc # "written"
    BY <1>t DEF TypeOK, WorkerState
  <2> QED
    BY <1>2, <2>1, OtherPc DEF Take, dbVars, lockVars, histVars
<1>3. ASSUME NEW w \in Workers, Crash(w)
      PROVE  UsersInv'
  <2>1. \A v \in Workers \ {w} : pendingUsers'[v] = pendingUsers[v]
    BY <1>3, <1>t DEF Crash, TypeOK
  <2> QED
    BY <1>3, <2>1, OtherPc DEF Crash, Finish, IdleWorker, dbVars, histVars
<1>4. ASSUME NEW w \in Workers, LockIssue(w)
      PROVE  UsersInv'
  <2>1. PICK i \in Group(wk[w].msg.hash) :
          Becomes(w, [wk[w] EXCEPT !.pc = "locked", !.issue = i, !.created = FALSE,
                                   !.regressed = (issue[i].status = "resolved")])
    BY <1>4 DEF LockIssue
  <2> DEFINE r == [wk[w] EXCEPT !.pc = "locked", !.issue = i, !.created = FALSE,
                                !.regressed = (issue[i].status = "resolved")]
  <2>2. r.pc # "written"
    BY <1>t DEF TypeOK, WorkerState
  <2> QED
    BY <1>4, <2>1, <2>2, OtherPc DEF LockIssue, dbVars, histVars
<1>5. ASSUME NEW w \in Workers, CreateIssue(w)
      PROVE  UsersInv'
  <2>1. PICK i \in IssueIds :
          Becomes(w, [wk[w] EXCEPT !.pc = "locked", !.issue = i, !.created = TRUE,
                                   !.regressed = FALSE])
    BY <1>5 DEF CreateIssue
  <2> DEFINE r == [wk[w] EXCEPT !.pc = "locked", !.issue = i, !.created = TRUE,
                                !.regressed = FALSE]
  <2>2. r.pc # "written"
    BY <1>t DEF TypeOK, WorkerState
  <2> QED
    BY <1>5, <2>1, <2>2, OtherPc DEF CreateIssue, dbVars, histVars
<1>7. ASSUME NEW w \in Workers, WriteRows(w)
      PROVE  UsersInv'
  <2> DEFINE i == wk[w].issue
             u == wk[w].msg.user
  <2>1. PICK n \in BOOLEAN, ts \in 0..now :
          Becomes(w, [wk[w] EXCEPT !.pc = "written", !.newUser = n, !.ts = ts])
    BY <1>7 DEF WriteRows
  <2>2. /\ wk'[w].issue = i /\ wk'[w].msg = wk[w].msg
        /\ \A v \in Workers \ {w} : wk'[v] = wk[v]
    <3> DEFINE r == [wk[w] EXCEPT !.pc = "written", !.newUser = n, !.ts = ts]
    <3>1. wk'[w] = r /\ \A v \in Workers \ {w} : wk'[v] = wk[v]
      BY <1>t, <2>1, BecomesEffect
    <3>2. wk[w] \in WorkerState
      BY <1>t DEF TypeOK
    <3> QED
      BY <3>1, <3>2 DEF WorkerState
  <2>3. /\ pendingUsers'[w] = IF u # None /\ <<i, u>> \notin seenBy THEN {<<i, u>>} ELSE {}
        /\ \A v \in Workers \ {w} : pendingUsers'[v] = pendingUsers[v]
    BY <1>7, <1>t DEF WriteRows, TypeOK
  <2>4. UNCHANGED <<rows, issue, minted, seenBy>>
    BY <1>7 DEF WriteRows, dbVars, histVars
  <2> QED
    BY <2>2, <2>3, <2>4 DEF UsersInv
<1>8. ASSUME NEW w \in Workers, Commit(w)
      PROVE  UsersInv'
  <2> DEFINE i == wk[w].issue
  <2>1. i \in IssueIds /\ wk[w].msg \in Messages
    BY <1>8 DEF Commit, TInv, WellFormed
  <2>2. /\ seenBy' = seenBy \cup pendingUsers[w] /\ minted' = minted \cup {i}
        /\ rows' = rows \cup {i}
        /\ issue'[i].hash = wk[w].msg.hash /\ \A j \in IssueIds \ {i} : issue'[j] = issue[j]
        /\ \A v \in Workers \ {w} : pendingUsers'[v] = pendingUsers[v]
    BY <1>8, <1>t, <2>1 DEF Commit, TypeOK, Bumped
  <2>3. wk'[w].pc # "written" /\ \A v \in Workers \ {w} : wk'[v] = wk[v]
    <3> DEFINE r == [wk[w] EXCEPT !.pc = "committed"]
    <3>1. wk'[w] = r /\ \A v \in Workers \ {w} : wk'[v] = wk[v]
      BY <1>8, <1>t, BecomesEffect DEF Commit
    <3>2. wk[w] \in WorkerState
      BY <1>t DEF TypeOK
    <3> QED
      BY <3>1, <3>2 DEF WorkerState
  <2>4. \A p \in seenBy' : p[1] \in minted'
    <3>1. pendingUsers[w] \subseteq {<<i, wk[w].msg.user>>}
      BY <1>8 DEF Commit, UsersInv
    <3>2. \A p \in seenBy : p[1] \in minted
      BY DEF UsersInv
    <3> QED
      BY <2>2, <3>1, <3>2
  <2>5. \A j \in rows' : issue'[j].hash \in Hashes
    BY <1>t, <2>1, <2>2, MessageFields DEF UsersInv, TypeOK
  <2> QED
    BY <2>2, <2>3, <2>4, <2>5 DEF UsersInv
<1>9. ASSUME NEW w \in Workers, Dispatch(w)
      PROVE  UsersInv'
  BY <1>9, DispatchMeans, OtherPc DEF dbVars, lockVars
<1>10. ASSUME NEW S \in SUBSET rows, NEW status \in UserStatuses, SetStatus(S, status)
       PROVE  UsersInv'
  <2>1. \A j \in IssueIds : issue'[j].hash = issue[j].hash
    BY <1>10, <1>t DEF SetStatus, TypeOK, IssueRow
  <2> QED
    BY <1>10, <1>t, <2>1 DEF SetStatus, UsersInv, TypeOK, lockVars
<1>11. CASE Tick
  BY <1>11 DEF Tick, UsersInv, dbVars, lockVars, histVars
<1>12. CASE UNCHANGED vars
  BY <1>12 DEF vars, UsersInv, dbVars, lockVars, histVars
<1> QED
  BY <1>1, <1>2, <1>3, <1>4, <1>5, <1>7, <1>8, <1>9, <1>10, <1>11, <1>12
  DEF Next, WorkerNext, UserNext, StoreEvent

-----------------------------------------------------------------------------
(* The refinement mapping.                                                 *)

(* A group has at most one issue, so IssueOf names it.                     *)
LEMMA IssueOfMember ==
  ASSUME OneIssuePerGroup, NEW i \in rows
  PROVE  Group(issue[i].hash) # {} /\ IssueOf(issue[i].hash) = i
<1>1. i \in Group(issue[i].hash)
  BY DEF Group
<1>2. IssueOf(issue[i].hash) \in Group(issue[i].hash)
  BY <1>1 DEF IssueOf
<1> QED
  BY <1>1, <1>2 DEF Group, OneIssuePerGroup

LEMMA InitRefines == Init => Tracker!TrackerInit
BY DEF Init, Tracker!TrackerInit, groupStatus, groupCount, groupPeople, Group

(* Steps that change no group.                                             *)
LEMMA Stutter ==
  ASSUME UNCHANGED <<rows, issue, seenBy>>
  PROVE  UNCHANGED Tracker!trackerVars
BY DEF Tracker!trackerVars, groupStatus, groupCount, groupPeople, Group, IssueOf

LEMMA CommitObserves ==
  ASSUME TInv, StoreInv, UsersInv, StoreInv', NEW w \in Workers, Commit(w),
         NEW i, NEW h, NEW u, i = wk[w].issue, h = wk[w].msg.hash, u = wk[w].msg.user
  PROVE  Tracker!Observe(h, u)
<1>1. i \in IssueIds /\ wk[w].msg \in Messages /\ h \in Hashes /\ u \in Users \cup {None}
  BY MessageFields DEF Commit, TInv, WellFormed
<1>2. InTransaction(w) /\ wk[w].pc = "written"
  BY DEF Commit, InTransaction
<1>3. /\ rows' = rows \cup {i} /\ seenBy' = seenBy \cup pendingUsers[w]
      /\ issue'[i] = Bumped(i, w) /\ \A j \in IssueIds \ {i} : issue'[j] = issue[j]
  BY <1>1 DEF Commit, TInv, TypeOK
<1>4. issue'[i].hash = h
  BY <1>3 DEF Bumped
<1>5. Group(h)' # {} /\ IssueOf(h)' = i
  <2>1. OneIssuePerGroup' /\ i \in rows'
    BY <1>3 DEF StoreInv
  <2>2. i \in Group(h)'
    BY <1>3, <1>4 DEF Group
  <2>3. IssueOf(h)' \in Group(h)'
    BY <2>2 DEF IssueOf
  <2> QED
    BY <1>4, <2>1, <2>2, <2>3 DEF Group, OneIssuePerGroup
<1>6. ASSUME NEW g \in Hashes, g # h
      PROVE  Group(g)' = Group(g) /\ i \notin Group(g)
  <2>1. i \notin Group(g)
    BY <1>2, <1>6 DEF StoreInv, CreatorAlone, FinderCurrent, Group
  <2>2. \A j \in rows : j # i => issue'[j] = issue[j]
    BY <1>3 DEF TInv, TypeOK
  <2> QED
    BY <1>3, <1>4, <1>6, <2>1, <2>2 DEF Group
<1>7. ASSUME NEW g \in Hashes, g # h, Group(g) # {}
      PROVE  /\ IssueOf(g)' = IssueOf(g) /\ IssueOf(g) # i
             /\ issue'[IssueOf(g)] = issue[IssueOf(g)]
  <2>1. IssueOf(g) \in Group(g)
    BY <1>7 DEF IssueOf
  <2>2. IssueOf(g) \in IssueIds /\ IssueOf(g) # i
    BY <1>6, <1>7, <2>1 DEF Group, TInv, TypeOK
  <2>3. IssueOf(g)' = IssueOf(g)
    BY <1>6, <1>7 DEF IssueOf
  <2> QED
    BY <1>3, <2>2, <2>3
(* The groups of the other hashes do not change ...                        *)
<1>8. ASSUME NEW g \in Hashes, g # h
      PROVE  /\ groupStatus'[g] = groupStatus[g]
             /\ groupCount'[g] = groupCount[g]
             /\ groupPeople'[g] = groupPeople[g]
  <2>1. Group(g)' = Group(g)
    BY <1>6, <1>8
  <2>2. CASE Group(g) = {}
    BY <2>1, <2>2, <1>8 DEF groupStatus, groupCount, groupPeople
  <2>3. CASE Group(g) # {}
    <3>1. /\ IssueOf(g)' = IssueOf(g) /\ IssueOf(g) # i
          /\ issue'[IssueOf(g)] = issue[IssueOf(g)]
      BY <1>7, <1>8, <2>3
    <3>2. \A x \in Users : <<IssueOf(g), x>> \in seenBy' <=> <<IssueOf(g), x>> \in seenBy
      BY <1>2, <1>3, <3>1 DEF UsersInv
    <3> QED
      BY <1>8, <2>1, <2>3, <3>1, <3>2 DEF groupStatus, groupCount, groupPeople
  <2> QED
    BY <2>2, <2>3
(* ... and the group of the event has one more of everything.              *)
<1>9. /\ groupStatus'[h] = issue'[i].status
      /\ groupCount'[h] = issue'[i].times
      /\ groupPeople'[h] = {x \in Users : <<i, x>> \in seenBy'}
  BY <1>1, <1>5 DEF groupStatus, groupCount, groupPeople
<1>10. {x \in Users : <<i, x>> \in seenBy'} = {x \in Users : <<i, x>> \in seenBy} \cup ({u} \ {None})
  <2>1. /\ pendingUsers[w] \subseteq {<<i, u>>}
        /\ u = None => pendingUsers[w] = {}
        /\ u # None => <<i, u>> \in seenBy \cup pendingUsers[w]
    BY <1>2 DEF UsersInv
  <2>2. CASE u = None
    BY <1>3, <2>1, <2>2
  <2>3. CASE u # None
    <3>1. u \in Users /\ seenBy' = seenBy \cup {<<i, u>>}
      BY <1>1, <1>3, <2>1, <2>3
    <3>2. \A x \in Users : <<i, x>> \in seenBy' <=> <<i, x>> \in seenBy \/ x = u
      BY <3>1
    <3> QED
      BY <2>3, <3>1, <3>2
  <2> QED
    BY <2>2, <2>3
<1>11. /\ issue'[i].status = Tracker!Reopened(groupStatus[h])
       /\ issue'[i].times = groupCount[h] + 1
       /\ {x \in Users : <<i, x>> \in seenBy} = groupPeople[h]
  <2>1. CASE wk[w].created
    <3>1. Group(h) = {} /\ i \notin minted
      BY <1>2, <2>1 DEF StoreInv, CreatorAlone
    <3>2. groupStatus[h] = None /\ groupCount[h] = 0 /\ groupPeople[h] = {}
      BY <1>1, <3>1 DEF groupStatus, groupCount, groupPeople
    <3>3. issue'[i].status = "unresolved" /\ issue'[i].times = 0 + 1
      BY <1>3, <2>1 DEF Bumped, BlankIssue
    <3>4. \A x \in Users : <<i, x>> \notin seenBy
      BY <3>1 DEF UsersInv
    <3> QED
      BY <3>2, <3>3, <3>4 DEF Tracker!Reopened
  <2>2. CASE ~wk[w].created
    <3>1. /\ i \in rows /\ issue[i].hash = h
          /\ wk[w].regressed <=> issue[i].status = "resolved"
      BY <1>2, <2>2 DEF StoreInv, FinderCurrent
    <3>2. Group(h) # {} /\ IssueOf(h) = i
      BY <3>1, IssueOfMember DEF StoreInv
    <3>3. /\ issue'[i].status = IF issue[i].status = "resolved" THEN "unresolved" ELSE issue[i].status
          /\ issue'[i].times = issue[i].times + 1
      BY <1>3, <2>2, <3>1 DEF Bumped
    <3>4. issue[i].status # None
      BY <1>1, NoneAssumption DEF TInv, TypeOK, IssueRow, Statuses
    <3>5. /\ groupStatus[h] = issue[i].status
          /\ groupCount[h] = issue[i].times
          /\ groupPeople[h] = {x \in Users : <<i, x>> \in seenBy}
      BY <1>1, <3>2 DEF groupStatus, groupCount, groupPeople
    <3> QED
      BY <3>3, <3>4, <3>5 DEF Tracker!Reopened
  <2> QED
    BY <2>1, <2>2
<1>12. groupStatus' = [groupStatus EXCEPT ![h] = Tracker!Reopened(@)]
  BY <1>1, <1>8, <1>9, <1>11 DEF groupStatus
<1>13. groupCount' = [groupCount EXCEPT ![h] = @ + 1]
  BY <1>1, <1>8, <1>9, <1>11 DEF groupCount
<1>14. groupPeople' = [groupPeople EXCEPT ![h] = @ \cup ({u} \ {None})]
  BY <1>1, <1>8, <1>9, <1>10, <1>11 DEF groupPeople
<1> QED
  BY <1>12, <1>13, <1>14 DEF Tracker!Observe

LEMMA SetStatusTriages ==
  ASSUME TInv, StoreInv, NEW S \in SUBSET rows, NEW s \in UserStatuses, SetStatus(S, s)
  PROVE  Tracker!Triage({issue[i].hash : i \in S} \cap Hashes, s)
<1> DEFINE H == {issue[i].hash : i \in S} \cap Hashes
<1>1. /\ UNCHANGED <<rows, seenBy>>
      /\ \A j \in IssueIds : /\ issue'[j].hash = issue[j].hash
                             /\ issue'[j].times = issue[j].times
                             /\ issue'[j].status = IF j \in S THEN s ELSE issue[j].status
  BY DEF SetStatus, TInv, TypeOK, IssueRow
<1>2. \A h \in Hashes : Group(h)' = Group(h)
  BY <1>1 DEF Group, TInv, TypeOK
<1>3. \A h \in Hashes : IssueOf(h)' = IssueOf(h)
  BY <1>2 DEF IssueOf
<1>4. \A h \in Hashes : Group(h) # {} => IssueOf(h) \in rows /\ IssueOf(h) \in IssueIds
  BY DEF IssueOf, Group, TInv, TypeOK
<1>5. \A h \in Hashes : Group(h) # {} => (IssueOf(h) \in S <=> h \in H)
  <2> SUFFICES ASSUME NEW h \in Hashes, Group(h) # {}
               PROVE  IssueOf(h) \in S <=> h \in H
    OBVIOUS
  <2>1. IssueOf(h) \in Group(h)
    BY DEF IssueOf
  <2>2. issue[IssueOf(h)].hash = h /\ IssueOf(h) \in rows
    BY <2>1 DEF Group
  <2>3. \A i \in S : issue[i].hash = h => i = IssueOf(h)
    BY <2>2 DEF StoreInv, OneIssuePerGroup
  <2> QED
    BY <2>2, <2>3
<1>6. \A h \in H : Group(h) # {}
  BY DEF Group
<1>7. \A h \in H : groupStatus[h] # None
  BY <1>4, <1>6, NoneAssumption DEF groupStatus, TInv, TypeOK, IssueRow, Statuses
<1>8. groupStatus' = [h \in Hashes |-> IF h \in H THEN s ELSE groupStatus[h]]
  BY <1>1, <1>2, <1>3, <1>4, <1>5, <1>6 DEF groupStatus
<1>9. groupCount' = groupCount
  BY <1>1, <1>2, <1>3, <1>4 DEF groupCount
<1>10. groupPeople' = groupPeople
  BY <1>1, <1>2, <1>3 DEF groupPeople
<1> QED
  BY <1>7, <1>8, <1>9, <1>10 DEF Tracker!Triage

LEMMA StepRefines ==
  TInv /\ StoreInv /\ UsersInv /\ StoreInv' /\ [Next]_vars
    => [Tracker!TrackerNext]_(Tracker!trackerVars)
<1> SUFFICES ASSUME TInv, StoreInv, UsersInv, StoreInv', [Next]_vars
             PROVE  [Tracker!TrackerNext]_(Tracker!trackerVars)
  OBVIOUS
<1>1. ASSUME NEW w \in Workers, Commit(w)
      PROVE  Tracker!TrackerNext
  <2>1. wk[w].msg.hash \in Hashes /\ wk[w].msg.user \in Users \cup {None}
    BY <1>1, MessageFields DEF Commit, TInv, WellFormed
  <2> QED
    BY <1>1, <2>1, CommitObserves DEF Tracker!TrackerNext
<1>2. ASSUME NEW S \in SUBSET rows, NEW s \in UserStatuses, SetStatus(S, s)
      PROVE  Tracker!TrackerNext
  <2>1. s \in {"unresolved", "resolved", "ignored", "archived"}
    BY StatusAssumption
  <2> QED
    BY <1>2, <2>1, SetStatusTriages DEF Tracker!TrackerNext
<1>3. ASSUME NEW m \in Messages, Accept(m)
      PROVE  UNCHANGED <<rows, issue, seenBy>>
  BY <1>3 DEF Accept, dbVars
<1>4. ASSUME NEW w \in Workers,
             \/ \E m \in Messages : Take(w, m)
             \/ Crash(w) \/ LockIssue(w) \/ CreateIssue(w)
             \/ WriteRows(w) \/ Dispatch(w)
      PROVE  UNCHANGED <<rows, issue, seenBy>>
  BY <1>4, DispatchMeans DEF Take, Crash, LockIssue, CreateIssue, WriteRows, dbVars
<1>5. ASSUME Tick \/ UNCHANGED vars
      PROVE  UNCHANGED <<rows, issue, seenBy>>
  BY <1>5 DEF Tick, vars, dbVars
<1> QED
  BY <1>1, <1>2, <1>3, <1>4, <1>5, Stutter DEF Next, WorkerNext, UserNext, StoreEvent

(* Concurrent event storage implements the abstract tracker.               *)
THEOREM StoreRefinesTracker == Spec => RefinesTracker
<1>1. Init => TInv /\ StoreInv /\ UsersInv
  BY InitTInv, InitStoreInv, InitUsersInv
<1>2. TInv /\ StoreInv /\ UsersInv /\ [Next]_vars => (TInv /\ StoreInv /\ UsersInv)'
  BY StepTInv, StepStoreInv, StepUsersInv
<1>3. TInv /\ StoreInv /\ UsersInv /\ [Next]_vars => [Tracker!TrackerNext]_(Tracker!trackerVars)
  BY <1>2, StepRefines
<1> QED
  BY <1>1, <1>2, <1>3, InitRefines, PTL DEF Spec, RefinesTracker, Tracker!TrackerSpec
=============================================================================
