-------------------------- MODULE MCIssueMaintenance --------------------------
(* Instances of IssueMaintenance for TLC.                                  *)
EXTENDS IssueMaintenance, TLC

CONSTANTS h1, h2, h3, u1, u2

MCHashes      == {h1, h2}
MCThreeHashes == {h1, h2, h3}
MCUsers       == {u1, u2}
MCMaintainers == {Merger, Purger}

Msg(n, h, u) == [n |-> n, hash |-> h, user |-> u]

\* two groups with a user in common, then a second event of each group
MCTwoGroups == {Msg(1, h1, u1), Msg(2, h2, u1), Msg(3, h2, u2)}

\* three groups with a user in common
MCThreeGroups == {Msg(1, h1, None), Msg(2, h2, u1), Msg(3, h3, u1)}

(* Progress, one hazard at a time beside a merge of two groups: a worker   *)
(* that dies and has its message delivered again, the purge, or a third    *)
(* message and the deadlock of merge and worker.  Only what users, the     *)
(* clock and misfortune do is bounded, nothing that fairness asks for.  A  *)
(* new issue gets the least id that is free.                               *)
Third == CHOOSE m \in Messages : m.n = 3
Redelivered == {m \in Messages : deliveries[m] = 2 \/ (deliveries[m] = 1 /\ queue[m] = "queued")}
OneHazard ==
  now + Cardinality(Redelivered) + (IF queue[Third] = "unsent" THEN 0 ELSE 1) <= 1

IdsInOrder ==
  \A i \in IssueIds \ minted :
    lock[i] = None /\ lock'[i] # None =>
      \A j \in IssueIds : j < i => j \in minted \/ lock[j] # None

Ingest ==
  /\ \/ Tick
     \/ \E m \in Messages : Accept(m) \/ \E w \in Workers : Take(w, m)
     \/ \E w \in Workers : LockIssue(w) \/ CreateIssue(w) \/ WriteRows(w) \/ Commit(w)
                           \/ Announce(w) \/ SendStored(w) \/ EndTask(w)
     \/ now = 0 /\ queue[Third] = "unsent" /\ \E w \in Workers : Raise(w) \/ Crash(w)
  /\ UNCHANGED maintVars /\ RaceNoted

ProgressNext ==
  /\ \/ Ingest \/ MaintenanceNext
     \/ \E w \in Workers : CreateConflict(w) \/ DeadlockKillsWorker(w)
  /\ OneHazard' /\ IdsInOrder

ProgressSpec == MaintInit /\ [][ProgressNext]_allVars /\ MaintFairness

Symmetric == Permutations(Workers) \cup Permutations(IssueIds)
=============================================================================
