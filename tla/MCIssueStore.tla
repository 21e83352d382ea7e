---------------------------- MODULE MCIssueStore ----------------------------
(* Instances of IssueStore for TLC: two hashes, two users, two messages.   *)
EXTENDS IssueStore, TLC

CONSTANTS h1, h2, u1, u2

MCHashes == {h1, h2}
MCUsers  == {u1, u2}

Msg(n, h, u) == [n |-> n, hash |-> h, user |-> u]

\* two events of one user in one group
MCPair == {Msg(1, h1, u1), Msg(2, h1, u1)}

MCSymmetric == Permutations(Workers) \cup Permutations(IssueIds)
=============================================================================
