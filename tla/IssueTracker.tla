----------------------------- MODULE IssueTracker -----------------------------
(***************************************************************************)
(* What event aggregation promises, without workers, locks or rows: events *)
(* are observed one at a time, each counted once in the group of its hash, *)
(* and an event of a resolved group reopens it in the same step.           *)
(***************************************************************************)
EXTENDS Naturals

CONSTANTS Hashes, Users, None

VARIABLES
  status,   \* status of each group, None while it has no event
  count,    \* events observed in each group (times_seen)
  people    \* users met in each group

trackerVars == <<status, count, people>>

TrackerInit ==
  /\ status = [h \in Hashes |-> None]
  /\ count  = [h \in Hashes |-> 0]
  /\ people = [h \in Hashes |-> {}]

Reopened(s) == IF s \in {None, "resolved"} THEN "unresolved" ELSE s

Observe(h, u) ==
  /\ status' = [status EXCEPT ![h] = Reopened(@)]
  /\ count'  = [count EXCEPT ![h] = @ + 1]
  /\ people' = [people EXCEPT ![h] = @ \cup ({u} \ {None})]

(* Users triage groups that exist; triage never touches the counters.      *)
Triage(H, s) ==
  /\ \A h \in H : status[h] # None
  /\ status' = [h \in Hashes |-> IF h \in H THEN s ELSE status[h]]
  /\ UNCHANGED <<count, people>>

TrackerNext ==
  \/ \E h \in Hashes, u \in Users \cup {None} : Observe(h, u)
  \/ \E H \in SUBSET Hashes, s \in {"unresolved", "resolved", "ignored", "archived"} : Triage(H, s)

TrackerSpec == TrackerInit /\ [][TrackerNext]_trackerVars
=============================================================================
