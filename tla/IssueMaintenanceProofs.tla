------------------------ MODULE IssueMaintenanceProofs ------------------------
(***************************************************************************)
(* Proofs about IssueMaintenance: what merges and purges leave of the      *)
(* invariants of concurrent event storage, for any number of workers,      *)
(* issues, hashes and users and any sets of merged and purged issues.      *)
(***************************************************************************)
EXTENDS IssueMaintenance, IssueStoreProofs, WellFoundedInduction

-----------------------------------------------------------------------------
(* Sums over finite sets.  Induction is by the smallest counterexample,    *)
(* which needs no operator parameter.                                      *)

LEMMA LeastNat ==
  ASSUME NEW T, T \subseteq Nat, T # {}
  PROVE  \E n \in T : \A m \in T : n <= m
<1> DEFINE R == OpToRel(<, Nat)
<1>1. IsWellFoundedOn(R, Nat)
  BY NatLessThanWellFounded
<1>2. \A x, y \in Nat : y < x => <<y, x>> \in R
  BY DEF OpToRel
<1> HIDE DEF R
<1>3. PICK n \in T : \A m \in T : ~ (<<m, n>> \in R)
  BY <1>1, WFMin
<1>4. ASSUME NEW m \in T
      PROVE  n <= m
  <2>1. ~(m < n)
    BY <1>2, <1>3, <1>4
  <2> QED
    BY <2>1
<1> QED
  BY <1>4

Some(U) == CHOOSE x \in U : TRUE

(* What holds of the empty set, and of a set if it holds without one of    *)
(* its elements, holds of a finite set; G is the set of subsets it holds   *)
(* of.                                                                     *)
LEMMA SubsetInduction ==
  ASSUME NEW S, IsFiniteSet(S), NEW G, {} \in G,
         \A U \in SUBSET S : U # {} /\ U \ {Some(U)} \in G => U \in G
  PROVE  S \in G
<1> SUFFICES ASSUME S \notin G
             PROVE  FALSE
  OBVIOUS
<1> DEFINE Bad == {U \in SUBSET S : U \notin G}
           T   == {Cardinality(U) : U \in Bad}
<1>1. \A U \in Bad : IsFiniteSet(U) /\ Cardinality(U) \in Nat
  BY FS_Subset, FS_CardinalityType
<1>2. T \subseteq Nat /\ T # {}
  BY <1>1
<1>3. PICK n \in T : \A m \in T : n <= m
  BY <1>2, LeastNat
<1>4. PICK U \in Bad : Cardinality(U) = n
  BY <1>3
<1>5. U # {} /\ Some(U) \in U
  BY <1>4 DEF Some
<1>6. Cardinality(U \ {Some(U)}) = Cardinality(U) - 1
  BY <1>1, <1>5, FS_RemoveElement
<1>7. U \ {Some(U)} \in Bad
  BY <1>4, <1>5
<1>8. Cardinality(U \ {Some(U)}) \in T
  BY <1>7
<1>9. n <= Cardinality(U) - 1 /\ Cardinality(U) \in Nat
  BY <1>1, <1>3, <1>6, <1>8
<1> QED
  BY <1>4, <1>9

(* The equations of the sum, for the subsets in D, ...                     *)
Solves(g, read, D) ==
  \A U \in D : g[U] = IF U = {} THEN 0 ELSE read[Some(U)].times + g[U \ {Some(U)}]

(* ... have a solution, for the subsets of at most n elements, for every n. *)
Level(S, n) == {U \in SUBSET S : Cardinality(U) <= n}

LEMMA LevelsSolved ==
  ASSUME NEW read, NEW S, IsFiniteSet(S)
  PROVE  \A n \in Nat : \E g : g = [U \in Level(S, n) |-> g[U]] /\ Solves(g, read, Level(S, n))
<1> DEFINE Good(n) == \E g : g = [U \in Level(S, n) |-> g[U]] /\ Solves(g, read, Level(S, n))
           T == {n \in Nat : ~Good(n)}
<1>c. \A U \in SUBSET S : IsFiniteSet(U) /\ Cardinality(U) \in Nat
  BY FS_Subset, FS_CardinalityType
<1> SUFFICES ASSUME T # {}
             PROVE  FALSE
  BY Zenon
<1>1. PICK n \in T : \A m \in T : n <= m
  BY LeastNat
<1>2. CASE n = 0
  <2>1. Level(S, 0) = {{}}
    <3>1. \A U \in SUBSET S : Cardinality(U) = 0 <=> U = {}
      BY <1>c, FS_EmptySet
    <3> QED
      BY <1>c, <3>1 DEF Level
  <2> DEFINE g == [U \in Level(S, 0) |-> 0]
  <2>2. g = [U \in Level(S, 0) |-> g[U]] /\ Solves(g, read, Level(S, 0))
    BY <2>1 DEF Solves
  <2>3. Good(0)
    BY <2>2, Zenon
  <2> QED
    BY <1>1, <1>2, <2>3
<1>3. CASE n # 0
  <2>1. n \in Nat /\ n - 1 \in Nat /\ n - 1 \notin T
    BY <1>1, <1>3
  <2>2. PICK g : g = [U \in Level(S, n - 1) |-> g[U]] /\ Solves(g, read, Level(S, n - 1))
    BY <2>1
  <2> DEFINE L == Level(S, n)
             V(U) == IF U = {} THEN 0 ELSE read[Some(U)].times + g[U \ {Some(U)}]
             h == [U \in L |-> V(U)]
  <2>3. \A U \in L : U # {} => U \ {Some(U)} \in Level(S, n - 1)
    <3> SUFFICES ASSUME NEW U \in L, U # {}
                 PROVE  U \ {Some(U)} \in Level(S, n - 1)
      OBVIOUS
    <3>1. U \in SUBSET S /\ Cardinality(U) <= n /\ Some(U) \in U
      BY DEF Level, Some
    <3>2. Cardinality(U \ {Some(U)}) = Cardinality(U) - 1
      BY <1>c, <3>1, FS_RemoveElement
    <3> QED
      BY <1>c, <2>1, <3>1, <3>2 DEF Level
  <2>4. Level(S, n - 1) \subseteq L
    BY <1>c, <2>1 DEF Level
  <2>5. \A U \in Level(S, n - 1) : g[U] = V(U)
    BY <2>2 DEF Solves
  <2>6. \A U \in L : U # {} => h[U \ {Some(U)}] = g[U \ {Some(U)}]
    BY <2>3, <2>4, <2>5
  <2>7. h = [U \in L |-> h[U]] /\ Solves(h, read, L)
    BY <2>6 DEF Solves
  <2>8. Good(n)
    BY <2>7, Zenon
  <2> QED
    BY <1>1, <2>8
<1> QED
  BY <1>2, <1>3

(* The sum over a finite set: one of its elements, and the sum over the    *)
(* others.                                                                 *)
LEMMA TimesOfSteps ==
  ASSUME NEW read, NEW S, IsFiniteSet(S)
  PROVE  \E it : TimesOf(read, S) = it[S] /\ Solves(it, read, SUBSET S)
<1> DEFINE it == CHOOSE g : g = [s \in SUBSET S |->
                    IF s = {} THEN 0
                    ELSE read[CHOOSE x \in s : TRUE].times + g[s \ {CHOOSE x \in s : TRUE}]]
<1>1. TimesOf(read, S) = it[S]
  BY DEF TimesOf, FoldSet, MapThenFoldSet
<1>2. \E g : g = [s \in SUBSET S |-> IF s = {} THEN 0 ELSE read[Some(s)].times + g[s \ {Some(s)}]]
  <2>1. Cardinality(S) \in Nat /\ \A U \in SUBSET S : Cardinality(U) <= Cardinality(S)
    BY FS_Subset, FS_CardinalityType
  <2>2. Level(S, Cardinality(S)) = SUBSET S
    BY <2>1 DEF Level
  <2>n. \E g : g = [U \in Level(S, Cardinality(S)) |-> g[U]] /\ Solves(g, read, Level(S, Cardinality(S)))
    BY <2>1, LevelsSolved, Zenon
  <2>3. PICK g : g = [U \in SUBSET S |-> g[U]] /\ Solves(g, read, SUBSET S)
    BY <2>2, <2>n
  <2>4. g = [s \in SUBSET S |-> IF s = {} THEN 0 ELSE read[Some(s)].times + g[s \ {Some(s)}]]
    BY <2>3 DEF Solves
  <2> QED
    BY <2>4
<1>3. it = [s \in SUBSET S |-> IF s = {} THEN 0 ELSE read[Some(s)].times + it[s \ {Some(s)}]]
  BY <1>2 DEF Some
<1> HIDE DEF it
<1>4. Solves(it, read, SUBSET S)
  BY <1>3 DEF Solves
<1> QED
  BY <1>1, <1>4

LEMMA TimesOfType ==
  ASSUME NEW read, NEW S, IsFiniteSet(S), \A i \in S : read[i].times \in Nat
  PROVE  TimesOf(read, S) \in Nat
<1>1. PICK it : TimesOf(read, S) = it[S] /\ Solves(it, read, SUBSET S)
  BY TimesOfSteps
<1> DEFINE G == {U \in SUBSET S : it[U] \in Nat}
<1>2. it[{}] = 0
  BY <1>1 DEF Solves
<1>3. ASSUME NEW U \in SUBSET S, U # {}, U \ {Some(U)} \in G
      PROVE  U \in G
  <2>1. Some(U) \in S /\ read[Some(U)].times \in Nat
    BY <1>3 DEF Some
  <2>2. it[U] = read[Some(U)].times + it[U \ {Some(U)}]
    BY <1>1, <1>3 DEF Solves
  <2> QED
    BY <1>3, <2>1, <2>2
<1>4. S \in G
  <2>1. {} \in G
    BY <1>2
  <2> HIDE DEF G
  <2> QED
    BY <1>3, <2>1, SubsetInduction
<1> QED
  BY <1>1, <1>4

(* The latest of finitely many times is one of them.                       *)
LEMMA LatestType ==
  ASSUME NEW read, NEW S, IsFiniteSet(S), S # {}, \A i \in S : read[i].last \in Nat
  PROVE  Max({read[i].last : i \in S}) \in Nat
<1> DEFINE G == {U \in SUBSET S : U = {} \/ \E j \in U : \A i \in U : read[j].last >= read[i].last}
<1>1. {} \in G
  OBVIOUS
<1>2. ASSUME NEW U \in SUBSET S, U # {}, U \ {Some(U)} \in G
      PROVE  U \in G
  <2>1. Some(U) \in U /\ U \subseteq S
    BY <1>2 DEF Some
  <2>2. CASE U \ {Some(U)} = {}
    <3>1. \A i \in U : i = Some(U)
      BY <2>2
    <3> QED
      BY <2>1, <3>1
  <2>3. CASE \E j \in U \ {Some(U)} : \A i \in U \ {Some(U)} : read[j].last >= read[i].last
    <3>1. PICK j \in U \ {Some(U)} : \A i \in U \ {Some(U)} : read[j].last >= read[i].last
      BY <2>3
    <3>2. CASE read[j].last >= read[Some(U)].last
      <4>1. \A i \in U : read[j].last >= read[i].last
        BY <3>1, <3>2
      <4> QED
        BY <3>1, <4>1
    <3>3. CASE ~(read[j].last >= read[Some(U)].last)
      <4>1. \A i \in U : read[Some(U)].last >= read[i].last
        BY <2>1, <3>1, <3>3
      <4> QED
        BY <2>1, <4>1
    <3> QED
      BY <3>2, <3>3
  <2> QED
    BY <1>2, <2>2, <2>3
<1>3. S \in G
  <2> HIDE DEF G
  <2> QED
    BY <1>1, <1>2, SubsetInduction
<1>4. PICK j \in S : \A i \in S : read[j].last >= read[i].last
  BY <1>3
<1>5. \E x \in {read[i].last : i \in S} : \A y \in {read[i].last : i \in S} : x >= y
  BY <1>4
<1>6. Max({read[i].last : i \in S}) \in {read[i].last : i \in S}
  BY <1>5 DEF Max
<1> QED
  BY <1>6

-----------------------------------------------------------------------------
(* Types.                                                                  *)

(* What the tables hold was inserted row by row.                           *)
FiniteTables ==
  /\ IsFiniteSet(rows) /\ IsFiniteSet(events) /\ IsFiniteSet(seenBy)
  /\ \A o \in Owners : IsFiniteSet(pendingUsers[o])

LEMMA InitFiniteTables == Init => FiniteTables
BY FS_EmptySet DEF Init, FiniteTables

LEMMA StepFiniteTables == TInv /\ FiniteTables /\ [Next]_vars => FiniteTables'
<1> SUFFICES ASSUME TInv, FiniteTables, [Next]_vars
             PROVE  FiniteTables'
  OBVIOUS
<1>t. TypeOK
  BY DEF TInv
<1>1. ASSUME UNCHANGED <<rows, events, seenBy, pendingUsers>>
      PROVE  FiniteTables'
  BY <1>1 DEF FiniteTables
<1>2. ASSUME NEW w \in Workers, Crash(w)
      PROVE  FiniteTables'
  BY <1>2, <1>t, FS_EmptySet DEF Crash, FiniteTables, TypeOK, dbVars
<1>3. ASSUME NEW w \in Workers, WriteRows(w)
      PROVE  FiniteTables'
  <2>1. \A x : IsFiniteSet({x}) /\ IsFiniteSet({})
    BY FS_Singleton, FS_EmptySet
  <2> QED
    BY <1>3, <1>t, <2>1 DEF WriteRows, FiniteTables, TypeOK, dbVars
<1>4. ASSUME NEW w \in Workers, Commit(w)
      PROVE  FiniteTables'
  <2>1. PICK i, e : rows' = rows \cup {i} /\ events' = events \cup {e}
    BY <1>4 DEF Commit
  <2>2. /\ seenBy' = seenBy \cup pendingUsers[w]
        /\ pendingUsers' = [pendingUsers EXCEPT ![w] = {}]
    BY <1>4 DEF Commit
  <2>3. IsFiniteSet(rows') /\ IsFiniteSet(events')
    BY <2>1, FS_AddElement DEF FiniteTables
  <2>4. IsFiniteSet(seenBy')
    BY <2>2, FS_Union DEF FiniteTables, Owners
  <2> QED
    BY <1>t, <2>2, <2>3, <2>4, FS_EmptySet DEF FiniteTables, TypeOK
<1>5. ASSUME NEW w \in Workers,
             LockIssue(w) \/ CreateIssue(w) \/ Dispatch(w) \/ \E m \in Messages : Take(w, m)
      PROVE  FiniteTables'
  BY <1>1, <1>5, DispatchKeeps DEF LockIssue, CreateIssue, Take, dbVars, lockVars
<1>6. CASE (\E m \in Messages : Accept(m)) \/ UserNext \/ Tick \/ UNCHANGED vars
  BY <1>1, <1>6 DEF Accept, UserNext, SetStatus, Tick, vars, dbVars, lockVars
<1> QED
  BY <1>2, <1>3, <1>4, <1>5, <1>6 DEF Next, WorkerNext, StoreEvent

Merge == [pc : {"idle", "read", "reassigned", "seen", "folded", "cascaded", "deleted"},
          target : IssueIds \cup {None}, sources : SUBSET IssueIds,
          read : [IssueIds -> IssueRow], moved : SUBSET EventRow,
          movedHashes : SUBSET Hashes, seen : SUBSET Users, users : Nat]

Purge == [pc : {"idle", "purging", "listed", "cascaded"}, cutoff : Nat, ids : SUBSET IssueIds]

Doomed == [events : SUBSET EventRow, users : SUBSET (IssueIds \X Users)]

MergeType ==
  /\ mg \in Merge /\ IsFiniteSet(mg.moved)
  /\ mg.pc # "idle" => mg.target \in IssueIds /\ IsFiniteSet(mg.sources)

MaintTInv ==
  /\ TInv /\ FiniteTables
  /\ MergeType /\ pg \in Purge /\ doomed \in Doomed
  /\ horizon \in Nat /\ mergeFailed \in BOOLEAN /\ raced \in BOOLEAN

LEMMA NoMergeType == NoMerge \in Merge /\ NoMerge.pc = "idle" /\ IsFiniteSet(NoMerge.moved)
<1>1. BlankIssue \in IssueRow
  BY DEF BlankIssue, IssueRow, Statuses
<1> QED
  BY <1>1, FS_EmptySet DEF NoMerge, Merge

LEMMA NoPurgeType == NoPurge \in Purge /\ NothingDoomed \in Doomed
BY DEF NoPurge, Purge, NothingDoomed, Doomed

LEMMA InitMaintTInv == MaintInit => MaintTInv
<1> SUFFICES ASSUME MaintInit
             PROVE  MaintTInv
  OBVIOUS
<1>1. TInv /\ FiniteTables
  BY InitTInv, InitFiniteTables DEF MaintInit
<1>2. MergeType
  BY NoMergeType, Zenon DEF MaintInit, MergeType
<1>3. pg \in Purge /\ doomed \in Doomed
  BY NoPurgeType, Zenon DEF MaintInit
<1>4. horizon \in Nat /\ mergeFailed \in BOOLEAN /\ raced \in BOOLEAN
  BY DEF MaintInit
<1> QED
  BY <1>1, <1>2, <1>3, <1>4 DEF MaintTInv

LEMMA RaceType ==
  ASSUME RaceNoted, raced \in BOOLEAN
  PROVE  raced' \in BOOLEAN
BY DEF RaceNoted

(* The row the merge saves is a row of the table.                          *)
LEMMA MergedRowType ==
  ASSUME MaintTInv, mg.pc # "idle"
  PROVE  /\ MergedRow \in IssueRow
         /\ MergedRow.hash = issue[mg.target].hash /\ MergedRow.status = issue[mg.target].status
         /\ MergedRow.times = TimesOf(mg.read, mg.sources \cup {mg.target})
         /\ MergedRow.users = mg.users
<1> DEFINE S == mg.sources \cup {mg.target}
           n == TimesOf(mg.read, S)
           l == Max({mg.read[i].last : i \in S})
<1>1. /\ mg.target \in IssueIds /\ mg.sources \subseteq IssueIds /\ mg.users \in Nat
      /\ mg.read \in [IssueIds -> IssueRow] /\ issue[mg.target] \in IssueRow
  BY DEF MaintTInv, MergeType, Merge, TInv, TypeOK
<1>2. IsFiniteSet(S) /\ S # {} /\ S \subseteq IssueIds
  BY <1>1, FS_AddElement DEF MaintTInv, MergeType
<1>3. \A i \in S : mg.read[i].times \in Nat /\ mg.read[i].last \in Nat
  BY <1>1, <1>2 DEF IssueRow
<1> HIDE DEF S
<1>4. n \in Nat
  BY <1>2, <1>3, TimesOfType
<1>5. l \in Nat
  BY <1>2, <1>3, LatestType
<1>6. MergedRow = [issue[mg.target] EXCEPT !.times = n, !.users = mg.users, !.last = l]
  BY Zenon DEF MergedRow, S
<1>7. n = TimesOf(mg.read, mg.sources \cup {mg.target})
  BY Zenon DEF S
<1> HIDE DEF n, l
<1> QED
  BY <1>1, <1>4, <1>5, <1>6, <1>7 DEF IssueRow

(* The image of a finite set under a function.                             *)
LEMMA ImageFinite ==
  ASSUME NEW S, IsFiniteSet(S), NEW f, f = [x \in S |-> f[x]]
  PROVE  LET T == {f[x] : x \in S} IN
         /\ IsFiniteSet(T)
         /\ (\A x, y \in S : f[x] = f[y] => x = y) => Cardinality(T) = Cardinality(S)
<1> DEFINE T == {f[x] : x \in S}
<1>1. f \in Surjection(S, T)
  BY DEF Surjection
<1>2. IsFiniteSet(T) /\ (Cardinality(T) = Cardinality(S) <=> f \in Injection(S, T))
  BY <1>1, FS_Surjection
<1>3. (\A x, y \in S : f[x] = f[y] => x = y) => f \in Injection(S, T)
  BY <1>1 DEF Injection, Surjection, IsInjective
<1> QED
  BY <1>2, <1>3

(* The users the merge folds into its target, and their number.            *)
LEMMA FoldedType ==
  ASSUME MaintTInv, mg.pc # "idle"
  PROVE  LET P == {<<mg.target, p[2]>> : p \in FoldedUsers} IN
         /\ P \in SUBSET (IssueIds \X Users) /\ IsFiniteSet(P)
         /\ Cardinality({u \in Users : <<mg.target, u>> \in seenBy \cup P}) \in Nat
<1> DEFINE P == {<<mg.target, p[2]>> : p \in FoldedUsers}
           U == {u \in Users : <<mg.target, u>> \in seenBy \cup P}
<1>1. seenBy \in SUBSET (IssueIds \X Users) /\ IsFiniteSet(seenBy) /\ mg.target \in IssueIds
  BY DEF MaintTInv, MergeType, TInv, TypeOK, FiniteTables
<1>2. FoldedUsers \subseteq seenBy
  BY DEF FoldedUsers, UsersOf
<1>3. P \in SUBSET (IssueIds \X Users)
  BY <1>1, <1>2
<1>4. IsFiniteSet(P)
  <2> DEFINE f == [p \in FoldedUsers |-> <<mg.target, p[2]>>]
  <2>1. IsFiniteSet(FoldedUsers)
    BY <1>1, <1>2, FS_Subset
  <2>2. f = [p \in FoldedUsers |-> f[p]]
    OBVIOUS
  <2> HIDE DEF f
  <2>3. IsFiniteSet({f[p] : p \in FoldedUsers})
    BY <2>1, <2>2, ImageFinite
  <2>4. P = {f[p] : p \in FoldedUsers}
    BY DEF f
  <2> QED
    BY <2>3, <2>4
<1>5. IsFiniteSet(U) /\ Cardinality(U) \in Nat
  <2> DEFINE Q == seenBy \cup P
             f == [q \in Q |-> q[2]]
  <2>1. IsFiniteSet(Q)
    BY <1>1, <1>4, FS_Union
  <2>2. f = [q \in Q |-> f[q]]
    OBVIOUS
  <2>3. U \subseteq {f[q] : q \in Q}
    <3> SUFFICES ASSUME NEW u \in U
                 PROVE  u \in {f[q] : q \in Q}
      OBVIOUS
    <3>1. <<mg.target, u>> \in Q /\ f[<<mg.target, u>>] = u
      OBVIOUS
    <3> QED
      BY <3>1
  <2> HIDE DEF f, Q
  <2>4. IsFiniteSet({f[q] : q \in Q})
    BY <2>1, <2>2, ImageFinite
  <2> HIDE DEF U
  <2> QED
    BY <2>3, <2>4, FS_Subset, FS_CardinalityType
<1> QED
  BY <1>3, <1>4, <1>5

LEMMA TablesKept ==
  ASSUME TInv, FiniteTables, [Next]_vars
  PROVE  TInv' /\ FiniteTables'
BY StepTInv, StepFiniteTables

(* A step of the merge that leaves the tables, the locks and the rest of   *)
(* maintenance as they are.                                                *)
LEMMA MergeStepType ==
  ASSUME MaintTInv, RaceNoted, UNCHANGED <<vars, pg, horizon, mergeFailed>>,
         MergeType', doomed' \in Doomed
  PROVE  MaintTInv'
<1>1. TInv' /\ FiniteTables'
  BY TablesKept DEF MaintTInv
<1>2. raced' \in BOOLEAN
  BY RaceType DEF MaintTInv
<1> QED
  BY <1>1, <1>2 DEF MaintTInv

LEMMA CascadeType ==
  ASSUME MaintTInv, NEW S \in SUBSET IssueIds, Cascade(S)
  PROVE  doomed' \in Doomed
BY DEF MaintTInv, Cascade, EventsOf, UsersOf, Doomed, TInv, TypeOK

LEMMA MergeSteps ==
  ASSUME MaintTInv
  PROVE  /\ \A t \in rows, S \in SUBSET rows : MergeRead(t, S) => MaintTInv'
         /\ MergeReassign \/ MergeSeen \/ MergeCascade => MaintTInv'
<1>t. TypeOK /\ FiniteTables /\ mg \in Merge /\ doomed \in Doomed
  BY DEF MaintTInv, TInv, MergeType
<1>1. ASSUME NEW t \in rows, NEW S \in SUBSET rows, MergeRead(t, S)
      PROVE  MaintTInv'
  <2> DEFINE r == [i \in IssueIds |-> IF i \in S \cup {t} THEN issue[i] ELSE BlankIssue]
  <2>1. r \in [IssueIds -> IssueRow]
    <3>1. BlankIssue \in IssueRow
      BY DEF BlankIssue, IssueRow, Statuses
    <3> QED
      BY <1>t, <3>1 DEF TypeOK
  <2>2. t \in IssueIds /\ S \in SUBSET IssueIds /\ IsFiniteSet(S)
    BY <1>t, FS_Subset DEF TypeOK, FiniteTables
  <2>3. mg' = [NoMerge EXCEPT !.pc = "read", !.target = t, !.sources = S, !.read = r]
    BY <1>1, Zenon DEF MergeRead
  <2> HIDE DEF r
  <2>4. MergeType'
    BY <2>1, <2>2, <2>3, NoMergeType DEF MergeType, Merge
  <2> QED
    BY <1>1, <1>t, <2>4, MergeStepType DEF MergeRead
<1>2. ASSUME MergeReassign
      PROVE  MaintTInv'
  <2>1. EventsOf(mg.sources) \subseteq EventRow /\ HashesOf(mg.sources) \subseteq Hashes
    BY <1>t DEF EventsOf, HashesOf, TypeOK
  <2>2. IsFiniteSet(EventsOf(mg.sources))
    BY <1>t, FS_Subset DEF EventsOf, FiniteTables
  <2>3. MergeType'
    BY <1>2, <1>t, <2>1, <2>2 DEF MergeReassign, MaintTInv, MergeType, Merge
  <2> QED
    BY <1>2, <1>t, <2>3, MergeStepType DEF MergeReassign
<1>3. ASSUME MergeSeen
      PROVE  MaintTInv'
  <2>1. MergeType'
    BY <1>3, <1>t DEF MergeSeen, MaintTInv, MergeType, Merge
  <2> QED
    BY <1>3, <1>t, <2>1, MergeStepType DEF MergeSeen
<1>4. ASSUME MergeCascade
      PROVE  MaintTInv'
  <2>1. MergeType'
    BY <1>4, <1>t DEF MergeCascade, MaintTInv, MergeType, Merge
  <2>2. mg.sources \in SUBSET IssueIds
    BY <1>t DEF Merge
  <2>3. doomed' \in Doomed
    BY <1>4, <2>2, CascadeType DEF MergeCascade
  <2> QED
    BY <1>4, <2>1, <2>3, MergeStepType DEF MergeCascade
<1> QED
  BY <1>1, <1>2, <1>3, <1>4

(* A step that leaves the queue, the workers and the histories alone.      *)
LEMMA StoreTypeKept ==
  ASSUME TInv, UNCHANGED <<queue, deliveries, wk, now, histVars>>,
         rows' \subseteq IssueIds, issue' \in [IssueIds -> IssueRow],
         hashes' \in [Hashes -> IssueIds \cup {None}],
         seenBy' \subseteq IssueIds \X Users, events' \subseteq EventRow,
         lock' \in [IssueIds -> Owners \cup {None}],
         pendingUsers' \in [Owners -> SUBSET (IssueIds \X Users)]
  PROVE  TInv'
BY DEF TInv, TypeOK, histVars, WellFormed

LEMMA MaintainersOwn == Merger \in Owners /\ Merger \notin Workers
BY MaintainersAssumption, NoneAssumption DEF Owners

LEMMA MergeUsersType ==
  ASSUME MaintTInv, MergeUsers
  PROVE  MaintTInv'
<1> DEFINE P == {<<mg.target, p[2]>> : p \in FoldedUsers}
           n == Cardinality({u \in Users : <<mg.target, u>> \in seenBy \cup P})
<1>t. TInv /\ TypeOK /\ FiniteTables /\ mg \in Merge /\ doomed \in Doomed
  BY DEF MaintTInv, TInv, MergeType
<1>1. mg.pc # "idle"
  BY DEF MergeUsers
<1>2. P \in SUBSET (IssueIds \X Users) /\ IsFiniteSet(P) /\ n \in Nat
  BY <1>1, FoldedType
<1>3. pendingUsers' = [pendingUsers EXCEPT ![Merger] = P]
  BY DEF MergeUsers
<1>4. pendingUsers'[Merger] = P
  BY <1>t, <1>3, MaintainersOwn DEF TypeOK
<1>5. mg' = [mg EXCEPT !.pc = "folded", !.users = n]
  BY <1>4 DEF MergeUsers
<1> HIDE DEF P, n
<1>6. MergeType'
  BY <1>t, <1>1, <1>2, <1>5 DEF MaintTInv, MergeType, Merge
<1>7. FiniteTables'
  BY <1>t, <1>2, <1>3 DEF MergeUsers, FiniteTables, TypeOK, dbVars
<1>8. pendingUsers' \in [Owners -> SUBSET (IssueIds \X Users)]
  BY <1>t, <1>2, <1>3 DEF TypeOK
<1>9. TInv'
  <2>1. UNCHANGED <<dbVars, lock, queue, deliveries, wk, now, histVars>>
    BY DEF MergeUsers
  <2> QED
    BY <1>t, <1>8, <2>1, StoreTypeKept DEF TypeOK, dbVars
<1>10. UNCHANGED <<pg, doomed, horizon, mergeFailed>> /\ raced' \in BOOLEAN
  BY RaceType DEF MergeUsers, MaintTInv
<1> QED
  BY <1>6, <1>7, <1>9, <1>10 DEF MaintTInv

LEMMA MergeDeleteType ==
  ASSUME MaintTInv, MergeDelete
  PROVE  MaintTInv'
<1>t. TInv /\ TypeOK /\ FiniteTables /\ mg \in Merge
  BY DEF MaintTInv, TInv, MergeType
<1>1. /\ lock' = [i \in IssueIds |-> IF i \in mg.sources THEN Merger ELSE lock[i]]
      /\ mg' = [mg EXCEPT !.pc = "deleted"] /\ mg.pc # "idle"
      /\ UNCHANGED <<dbVars, pendingUsers, queue, deliveries, wk, now, histVars, pg, doomed,
                     horizon, mergeFailed>>
  BY DEF MergeDelete
<1>2. lock' \in [IssueIds -> Owners \cup {None}]
  BY <1>t, <1>1, MaintainersOwn DEF TypeOK
<1>3. MergeType'
  BY <1>t, <1>1 DEF MaintTInv, MergeType, Merge
<1>4. TInv'
  BY <1>t, <1>1, <1>2, StoreTypeKept DEF TypeOK, dbVars
<1>5. FiniteTables'
  BY <1>t, <1>1 DEF FiniteTables, dbVars
<1>6. raced' \in BOOLEAN
  BY RaceType DEF MergeDelete, MaintTInv
<1> QED
  BY <1>1, <1>3, <1>4, <1>5, <1>6 DEF MaintTInv

(* The merge ends: its locks and its inserted keys are given up.           *)
LEMMA MergeEnds ==
  ASSUME MaintTInv, lock' = ReleaseOf(Merger),
         pendingUsers' = [pendingUsers EXCEPT ![Merger] = {}],
         mg' = NoMerge, doomed' = NothingDoomed
  PROVE  /\ lock' \in [IssueIds -> Owners \cup {None}]
         /\ pendingUsers' \in [Owners -> SUBSET (IssueIds \X Users)]
         /\ \A o \in Owners : IsFiniteSet(pendingUsers'[o])
         /\ MergeType' /\ doomed' \in Doomed
<1>t. TypeOK /\ FiniteTables
  BY DEF MaintTInv, TInv
<1>1. lock' \in [IssueIds -> Owners \cup {None}]
  BY <1>t, ReleaseType
<1>2. pendingUsers' \in [Owners -> SUBSET (IssueIds \X Users)]
  BY <1>t DEF TypeOK
<1>3. \A o \in Owners : IsFiniteSet(pendingUsers'[o])
  BY <1>t, FS_EmptySet DEF TypeOK, FiniteTables
<1>4. MergeType'
  BY NoMergeType, Zenon DEF MergeType
<1>5. doomed' \in Doomed
  BY NoPurgeType
<1> QED
  BY <1>1, <1>2, <1>3, <1>4, <1>5

LEMMA MergeRollbackType ==
  ASSUME MaintTInv, MergeRollback
  PROVE  MaintTInv'
<1>t. TInv /\ TypeOK /\ FiniteTables
  BY DEF MaintTInv, TInv
<1>1. /\ lock' \in [IssueIds -> Owners \cup {None}]
      /\ pendingUsers' \in [Owners -> SUBSET (IssueIds \X Users)]
      /\ \A o \in Owners : IsFiniteSet(pendingUsers'[o])
      /\ MergeType' /\ doomed' \in Doomed
  BY MergeEnds DEF MergeRollback
<1>2. /\ UNCHANGED <<dbVars, queue, deliveries, wk, now, histVars, pg, horizon>>
      /\ mergeFailed' = TRUE
  BY DEF MergeRollback
<1>3. TInv'
  BY <1>t, <1>1, <1>2, StoreTypeKept DEF TypeOK, dbVars
<1>4. FiniteTables'
  BY <1>t, <1>1, <1>2 DEF FiniteTables, dbVars
<1>5. raced' \in BOOLEAN
  BY RaceType DEF MergeRollback, MaintTInv
<1> QED
  BY <1>1, <1>2, <1>3, <1>4, <1>5 DEF MaintTInv

LEMMA MergeCommitType ==
  ASSUME MaintTInv, MergeCommit
  PROVE  MaintTInv'
<1>t. /\ TInv /\ TypeOK /\ FiniteTables /\ mg \in Merge
      /\ mg.pc # "idle" /\ mg.target \in IssueIds
  BY DEF MaintTInv, TInv, MergeType, MergeCommit
<1>1. /\ lock' \in [IssueIds -> Owners \cup {None}]
      /\ pendingUsers' \in [Owners -> SUBSET (IssueIds \X Users)]
      /\ \A o \in Owners : IsFiniteSet(pendingUsers'[o])
      /\ MergeType' /\ doomed' \in Doomed
  BY MergeEnds DEF MergeCommit
<1>2. issue' \in [IssueIds -> IssueRow]
  <2> DEFINE b == IssuesWithout(mg.sources)
             r == MergedRow
  <2>1. b \in [IssueIds -> IssueRow]
    <3>1. BlankIssue \in IssueRow
      BY DEF BlankIssue, IssueRow, Statuses
    <3> QED
      BY <1>t, <3>1 DEF TypeOK, IssuesWithout
  <2>2. r \in IssueRow
    BY <1>t, MergedRowType
  <2>3. issue' = [b EXCEPT ![mg.target] = r]
    BY DEF MergeCommit
  <2> HIDE DEF b, r
  <2> QED
    BY <1>t, <2>1, <2>2, <2>3
<1>3. events' \subseteq EventRow /\ IsFiniteSet(events')
  <2> DEFINE M == {[e EXCEPT !.issue = mg.target] : e \in mg.moved}
             f == [e \in mg.moved |-> [e EXCEPT !.issue = mg.target]]
  <2>1. M \subseteq EventRow
    BY <1>t DEF EventRow, Merge
  <2>2. IsFiniteSet(mg.moved)
    BY DEF MaintTInv, MergeType
  <2>3. f = [e \in mg.moved |-> f[e]] /\ M = {f[e] : e \in mg.moved}
    OBVIOUS
  <2>4. IsFiniteSet(M)
    <3> HIDE DEF M, f
    <3> QED
      BY <2>2, <2>3, ImageFinite
  <2>5. events' = (events \ doomed.events) \cup M
    BY DEF MergeCommit
  <2> HIDE DEF M
  <2>6. IsFiniteSet(events \ doomed.events)
    BY <1>t, FS_Difference DEF FiniteTables
  <2> QED
    BY <1>t, <2>1, <2>4, <2>5, <2>6, FS_Union DEF TypeOK
<1>4. seenBy' \subseteq IssueIds \X Users /\ IsFiniteSet(seenBy')
  <2>1. seenBy' = (seenBy \ doomed.users) \cup pendingUsers[Merger]
    BY DEF MergeCommit
  <2>2. IsFiniteSet(seenBy \ doomed.users) /\ IsFiniteSet(pendingUsers[Merger])
    BY <1>t, FS_Difference, MaintainersOwn DEF FiniteTables
  <2>3. pendingUsers[Merger] \subseteq IssueIds \X Users
    BY <1>t, MaintainersOwn DEF TypeOK
  <2> QED
    BY <1>t, <2>1, <2>2, <2>3, FS_Union DEF TypeOK
<1>5. rows' \subseteq IssueIds /\ IsFiniteSet(rows')
  BY <1>t, FS_Difference DEF MergeCommit, FiniteTables, TypeOK
<1>6. hashes' \in [Hashes -> IssueIds \cup {None}]
  BY <1>t DEF MergeCommit, TypeOK
<1>7. UNCHANGED <<queue, deliveries, wk, now, histVars, pg, horizon, mergeFailed>>
  BY DEF MergeCommit
<1>8. TInv'
  BY <1>t, <1>1, <1>2, <1>3, <1>4, <1>5, <1>6, <1>7, StoreTypeKept
<1>9. FiniteTables'
  BY <1>1, <1>3, <1>4, <1>5 DEF FiniteTables
<1>10. raced' \in BOOLEAN
  BY RaceType DEF MergeCommit, MaintTInv
<1> QED
  BY <1>1, <1>7, <1>8, <1>9, <1>10 DEF MaintTInv

LEMMA PurgeEventsType ==
  ASSUME MaintTInv, NEW cutoff \in 1..now, PurgeEvents(cutoff)
  PROVE  MaintTInv'
<1>t. TInv /\ TypeOK /\ FiniteTables /\ mg \in Merge /\ cutoff \in Nat
  BY DEF MaintTInv, TInv, TypeOK, MergeType
<1>1. events' = {e \in events : e.at >= cutoff}
  BY DEF PurgeEvents
<1>2. /\ UNCHANGED <<rows, issue, hashes, seenBy, lockVars, queue, deliveries, wk, now,
                     histVars, mg, doomed, mergeFailed>>
      /\ pg' = [NoPurge EXCEPT !.pc = "purging", !.cutoff = cutoff]
      /\ horizon' = cutoff
  BY DEF PurgeEvents
<1>3. TInv'
  BY <1>t, <1>1, <1>2, StoreTypeKept DEF TypeOK, lockVars
<1>4. FiniteTables'
  BY <1>t, <1>1, <1>2, FS_Subset DEF FiniteTables, lockVars
<1>5. pg' \in Purge
  BY <1>t, <1>2 DEF NoPurge, Purge
<1>6. MergeType'
  BY <1>2 DEF MergeType, MaintTInv
<1>7. raced' \in BOOLEAN
  BY RaceType DEF PurgeEvents, MaintTInv
<1> QED
  BY <1>t, <1>2, <1>3, <1>4, <1>5, <1>6, <1>7 DEF MaintTInv

LEMMA PurgeSteps ==
  ASSUME MaintTInv, PurgeStep
  PROVE  MaintTInv'
<1>t. TInv /\ TypeOK /\ FiniteTables /\ pg \in Purge
  BY DEF MaintTInv, TInv
<1>m. MergeType' /\ raced' \in BOOLEAN /\ UNCHANGED <<mg, horizon, mergeFailed>>
  <2>1. UNCHANGED <<mg, horizon, mergeFailed>> /\ RaceNoted
    BY DEF PurgeStep, PurgeList, PurgeCascade, PurgeDelete
  <2>2. MergeType'
    BY <2>1 DEF MaintTInv, MergeType
  <2> QED
    BY <2>1, <2>2, RaceType DEF MaintTInv
<1>1. CASE PurgeList
  <2>1. EmptyIssues \in SUBSET IssueIds
    BY <1>t DEF EmptyIssues, TypeOK
  <2>2. pg' \in Purge
    BY <1>1, <1>t, <2>1, NoPurgeType DEF PurgeList, Purge
  <2>3. UNCHANGED <<vars, doomed>>
    BY <1>1 DEF PurgeList
  <2>4. TInv' /\ FiniteTables'
    BY <1>t, <2>3, TablesKept
  <2> QED
    BY <1>m, <2>2, <2>3, <2>4 DEF MaintTInv
<1>2. CASE PurgeCascade
  <2>1. pg' \in Purge /\ pg.ids \in SUBSET IssueIds
    BY <1>2, <1>t DEF PurgeCascade, Purge
  <2>2. doomed' \in Doomed
    BY <1>2, <2>1, CascadeType DEF PurgeCascade
  <2>3. UNCHANGED vars
    BY <1>2 DEF PurgeCascade
  <2>4. TInv' /\ FiniteTables'
    BY <1>t, <2>3, TablesKept
  <2> QED
    BY <1>m, <2>1, <2>2, <2>4 DEF MaintTInv
<1>3. CASE PurgeDelete
  <2>1. UNCHANGED <<lockVars, queue, deliveries, wk, now, histVars>> /\ doomed' = NothingDoomed
    BY <1>3 DEF PurgeDelete
  <2>2. pg' \in Purge
    BY <1>3, <1>t, NoPurgeType DEF PurgeDelete, Purge
  <2>3. CASE UNCHANGED dbVars
    <3>1. UNCHANGED vars
      BY <2>1, <2>3 DEF vars
    <3>2. TInv' /\ FiniteTables'
      BY <1>t, <3>1, TablesKept
    <3> QED
      BY <1>m, <2>1, <2>2, <3>2, NoPurgeType DEF MaintTInv
  <2>4. CASE ~UNCHANGED dbVars
    <3>1. /\ rows' = rows \ pg.ids /\ events' = events \ doomed.events
          /\ seenBy' = seenBy \ doomed.users
          /\ hashes' = [h \in Hashes |-> IF hashes[h] \in pg.ids THEN None ELSE hashes[h]]
          /\ issue' = IssuesWithout(pg.ids)
      BY <1>3, <2>4 DEF PurgeDelete
    <3>2. issue' \in [IssueIds -> IssueRow]
      <4>1. BlankIssue \in IssueRow
        BY DEF BlankIssue, IssueRow, Statuses
      <4> QED
        BY <1>t, <3>1, <4>1 DEF IssuesWithout, TypeOK
    <3>3. TInv'
      BY <1>t, <2>1, <3>1, <3>2, StoreTypeKept DEF TypeOK, lockVars
    <3>4. FiniteTables'
      BY <1>t, <2>1, <3>1, FS_Difference DEF FiniteTables, lockVars
    <3> QED
      BY <1>m, <2>1, <2>2, <3>3, <3>4, NoPurgeType DEF MaintTInv
  <2> QED
    BY <2>3, <2>4
<1> QED
  BY <1>1, <1>2, <1>3 DEF PurgeStep

LEMMA WorkerFailsType ==
  ASSUME MaintTInv, NEW w \in Workers, CreateConflict(w) \/ DeadlockKillsWorker(w)
  PROVE  MaintTInv'
<1>t. TInv /\ TypeOK /\ FiniteTables
  BY DEF MaintTInv, TInv
<1>1. /\ UNCHANGED <<dbVars, pendingUsers, deliveries, now, histVars, maintVars>>
      /\ Finish(w, "failed") /\ RaceNoted
      /\ lock' = lock \/ lock' = ReleaseOf(w)
  BY DEF CreateConflict, DeadlockKillsWorker, lockVars
<1>2. wk' \in [Workers -> WorkerState] /\ \A v \in Workers : WellFormed(wk[v])'
  BY <1>1, <1>t, IdleWellFormed, BecomesType DEF Finish
<1>3. TInv'
  BY <1>t, <1>1, <1>2, ReleaseType, ZenonT(60) DEF Finish, TInv, TypeOK, dbVars, histVars
<1>4. FiniteTables'
  BY <1>t, <1>1 DEF FiniteTables, dbVars
<1>5. UNCHANGED <<mg, pg, doomed, horizon, mergeFailed>> /\ raced' \in BOOLEAN
  BY <1>1, RaceType DEF maintVars, MaintTInv
<1> QED
  BY <1>3, <1>4, <1>5 DEF MaintTInv, MergeType

LEMMA StoreNextType ==
  ASSUME MaintTInv, StoreNext
  PROVE  MaintTInv'
<1>1. TInv' /\ FiniteTables'
  BY TablesKept DEF StoreNext, MaintTInv
<1>2. UNCHANGED <<mg, pg, doomed, horizon, mergeFailed>> /\ raced' \in BOOLEAN
  BY RaceType DEF StoreNext, maintVars, MaintTInv
<1> QED
  BY <1>1, <1>2 DEF MaintTInv, MergeType

LEMMA StepMaintTInv == MaintTInv /\ [MaintNext]_allVars => MaintTInv'
<1> SUFFICES ASSUME MaintTInv, [MaintNext]_allVars
             PROVE  MaintTInv'
  OBVIOUS
<1>1. CASE StoreNext
  BY <1>1, StoreNextType
<1>2. CASE MaintenanceNext
  BY <1>2, MergeSteps, MergeUsersType, MergeDeleteType, MergeCommitType, MergeRollbackType,
     PurgeEventsType, PurgeSteps
  DEF MaintenanceNext, MergeStep, MergeFails, DeadlockKillsMerge
<1>3. CASE \E w \in Workers : CreateConflict(w) \/ DeadlockKillsWorker(w)
  BY <1>3, WorkerFailsType
<1>4. CASE UNCHANGED allVars
  <2>1. TInv' /\ FiniteTables'
    BY <1>4, TablesKept DEF allVars, MaintTInv
  <2> QED
    BY <1>4, <2>1 DEF allVars, maintVars, MaintTInv, MergeType
<1> QED
  BY <1>1, <1>2, <1>3, <1>4 DEF MaintNext

(* Every reachable state of the store under merges and purges is well      *)
(* typed: sums over any finite set of merged issues included.              *)
THEOREM MaintTypesCorrect == MaintSpec => []MaintTypeOK
<1>1. MaintTInv => MaintTypeOK
  BY DEF MaintTInv, MaintTypeOK, TInv, MergeType, Merge, Purge
<1> QED
  BY <1>1, InitMaintTInv, StepMaintTInv, PTL DEF MaintSpec

-----------------------------------------------------------------------------
(* Safety of event storage under merges and purges, and the hash table.    *)

(* A merge works on rows that stay: nothing else deletes rows meanwhile.   *)
(* The hashes it moves are still those of its sources when it commits, and *)
(* by then it holds the rows it deletes.                                   *)
MergeInv ==
  /\ mg.pc # "idle" => /\ pg.pc = "idle" /\ mg.target \in rows \ mg.sources
                       /\ mg.sources \subseteq rows
  /\ mg.pc \notin {"idle", "read"} => mg.movedHashes = HashesOf(mg.sources)
  /\ mg.pc = "deleted" => \A s \in mg.sources : lock[s] = Merger

(* The hash a worker found free for its new issue is free until it commits. *)
CreatorsHash ==
  \A w \in Workers : InTransaction(w) /\ wk[w].created => hashes[wk[w].msg.hash] = None

HashTable ==
  /\ HashAgrees /\ CreatorsHash
  /\ \A i \in rows : issue[i].hash \in Hashes

HashInv == StoreInv /\ HashTable /\ MergeInv

LEMMA InitHashInv == MaintInit => HashInv
<1> SUFFICES ASSUME MaintInit
             PROVE  HashInv
  OBVIOUS
<1>1. mg.pc = "idle"
  BY NoMergeType DEF MaintInit
<1>2. StoreInv
  BY InitStoreInv DEF MaintInit
<1>3. HashTable
  BY DEF MaintInit, Init, HashTable, HashAgrees, CreatorsHash, InTransaction, IdleWorker
<1> QED
  BY <1>1, <1>2, <1>3 DEF HashInv, MergeInv

(* Rows disappear that no worker is working on; the rest keep their group  *)
(* and their status.                                                       *)
LEMMA RowsGone ==
  ASSUME TInv, StoreInv, UNCHANGED <<wk, minted, dirty>>, rows' \subseteq rows,
         \A i \in rows' : issue'[i].hash = issue[i].hash /\ issue'[i].status = issue[i].status,
         \A w \in Workers : InTransaction(w) =>
           lock'[wk[w].issue] = w /\ (wk[w].issue \in rows => wk[w].issue \in rows')
  PROVE  StoreInv'
<1>1. LockHeld' /\ CreatorAlone'
  BY DEF StoreInv, LockHeld, CreatorAlone, InTransaction, Group
<1>2. FinderCurrent'
  BY DEF StoreInv, FinderCurrent, InTransaction
<1>3. OneIssuePerGroup' /\ ResolvedMeansQuiet'
  BY DEF StoreInv, OneIssuePerGroup, ResolvedMeansQuiet
<1> QED
  BY <1>1, <1>2, <1>3 DEF StoreInv

(* Tables as they were; no worker starts to create an issue.               *)
LEMMA HashesKept ==
  ASSUME HashTable, UNCHANGED <<rows, hashes>>,
         \A i \in rows : issue'[i].hash = issue[i].hash,
         \A w \in Workers : InTransaction(w)' /\ wk'[w].created =>
           InTransaction(w) /\ wk[w].created /\ wk'[w].msg = wk[w].msg
  PROVE  HashTable'
BY DEF HashTable, HashAgrees, CreatorsHash

LEMMA StoreNextHash ==
  ASSUME TInv, StoreInv, HashTable, Next
  PROVE  HashTable'
<1>t. TypeOK /\ \A v \in Workers : wk[v] \in WorkerState /\ WellFormed(wk[v])
  BY DEF TInv, TypeOK
<1>1. ASSUME UNCHANGED <<dbVars, wk>>
      PROVE  HashTable'
  BY <1>1, HashesKept DEF dbVars, InTransaction
<1>2. ASSUME NEW w \in Workers, NEW r, Becomes(w, r), UNCHANGED dbVars,
             ~(r.pc \in {"locked", "written"} /\ r.created)
      PROVE  HashTable'
  <2>1. wk'[w] = r /\ \A v \in Workers \ {w} : wk'[v] = wk[v]
    BY <1>2, <1>t, BecomesEffect
  <2> QED
    BY <1>2, <2>1, HashesKept DEF dbVars, InTransaction
<1>3. ASSUME NEW w \in Workers, CreateIssue(w)
      PROVE  HashTable'
  <2>1. PICK i \in IssueIds :
          Becomes(w, [wk[w] EXCEPT !.pc = "locked", !.issue = i, !.created = TRUE,
                                   !.regressed = FALSE])
    BY <1>3 DEF CreateIssue
  <2> DEFINE r == [wk[w] EXCEPT !.pc = "locked", !.issue = i, !.created = TRUE,
                                !.regressed = FALSE]
  <2>2. wk'[w] = r /\ \A v \in Workers \ {w} : wk'[v] = wk[v]
    BY <1>t, <2>1, BecomesEffect
  <2>3. r.msg = wk[w].msg /\ hashes[wk[w].msg.hash] = None /\ UNCHANGED dbVars
    BY <1>3, <1>t DEF CreateIssue, WorkerState
  <2> HIDE DEF r
  <2>4. /\ HashAgrees' /\ \A j \in rows' : issue'[j].hash \in Hashes
    BY <2>3 DEF HashTable, HashAgrees, dbVars
  <2>5. CreatorsHash'
    BY <2>2, <2>3 DEF HashTable, CreatorsHash, InTransaction, dbVars
  <2> QED
    BY <2>4, <2>5 DEF HashTable
<1>4. ASSUME NEW w \in Workers, LockIssue(w)
      PROVE  HashTable'
  <2>1. PICK i \in Group(wk[w].msg.hash) :
          Becomes(w, [wk[w] EXCEPT !.pc = "locked", !.issue = i, !.created = FALSE,
                                   !.regressed = (issue[i].status = "resolved")])
    BY <1>4 DEF LockIssue
  <2> DEFINE r == [wk[w] EXCEPT !.pc = "locked", !.issue = i, !.created = FALSE,
                                !.regressed = (issue[i].status = "resolved")]
  <2>2. ~r.created /\ UNCHANGED dbVars
    BY <1>4, <1>t DEF LockIssue, WorkerState
  <2> QED
    BY <1>2, <2>1, <2>2
<1>5. ASSUME NEW w \in Workers, WriteRows(w)
      PROVE  HashTable'
  <2>1. PICK n \in BOOLEAN, ts \in 0..now :
          Becomes(w, [wk[w] EXCEPT !.pc = "written", !.newUser = n, !.ts = ts])
    BY <1>5 DEF WriteRows
  <2> DEFINE r == [wk[w] EXCEPT !.pc = "written", !.newUser = n, !.ts = ts]
  <2>2. wk'[w] = r /\ \A v \in Workers \ {w} : wk'[v] = wk[v]
    BY <1>t, <2>1, BecomesEffect
  <2>3. r.msg = wk[w].msg /\ r.created = wk[w].created /\ InTransaction(w) /\ UNCHANGED dbVars
    BY <1>5, <1>t DEF WriteRows, WorkerState, InTransaction
  <2> QED
    BY <2>2, <2>3, HashesKept DEF dbVars, InTransaction
<1>6. ASSUME NEW w \in Workers, Commit(w)
      PROVE  HashTable'
  <2> DEFINE i == wk[w].issue
             h == wk[w].msg.hash
  <2>1. /\ InTransaction(w) /\ i \in IssueIds /\ h \in Hashes /\ wk[w].created \in BOOLEAN
    BY <1>6, <1>t, MessageFields DEF Commit, InTransaction, WellFormed, WorkerState
  <2>2. /\ rows' = rows \cup {i}
        /\ issue'[i].hash = h /\ \A j \in IssueIds \ {i} : issue'[j] = issue[j]
        /\ hashes' = IF wk[w].created THEN [hashes EXCEPT ![h] = i] ELSE hashes
    <3>1. issue' = [issue EXCEPT ![i] = Bumped(i, w)]
      BY <1>6 DEF Commit
    <3>2. issue'[i] = Bumped(i, w)
      BY <1>t, <2>1, <3>1 DEF TypeOK
    <3>3. Bumped(i, w).hash = h
      BY DEF Bumped
    <3> QED
      BY <1>6, <1>t, <2>1, <3>1, <3>2, <3>3 DEF Commit, TypeOK
  <2>3. \A v \in Workers : InTransaction(v)' => v # w /\ InTransaction(v) /\ wk'[v] = wk[v]
    BY <1>6, <1>t, BecomesEffect DEF Commit, InTransaction, WorkerState
  <2>4. CASE wk[w].created
    <3>1. i \notin rows /\ \A j \in rows : issue[j].hash # h
      BY <2>1, <2>4 DEF StoreInv, CreatorAlone, Group
    <3>2. \A v \in Workers : v # w /\ InTransaction(v) /\ wk[v].created => wk[v].msg.hash # h
      BY <2>1, <2>4 DEF StoreInv, CreatorAlone
    <3>3. hashes'[h] = i /\ \A g \in Hashes \ {h} : hashes'[g] = hashes[g]
      BY <1>t, <2>1, <2>2, <2>4 DEF TypeOK
    <3>4. \A j \in rows : issue[j].hash \in Hashes /\ hashes[issue[j].hash] = j
      BY DEF HashTable, HashAgrees
    <3>5. HashAgrees'
      BY <1>t, <2>2, <3>1, <3>3, <3>4 DEF HashAgrees, TypeOK
    <3>6. \A v \in Workers : InTransaction(v) => wk[v].msg.hash \in Hashes
      BY <1>t, MessageFields DEF InTransaction, WellFormed
    <3>7. CreatorsHash'
      BY <2>3, <3>2, <3>3, <3>6 DEF HashTable, CreatorsHash
    <3> QED
      BY <1>t, <2>1, <2>2, <3>4, <3>5, <3>7 DEF HashTable, TypeOK
  <2>5. CASE ~wk[w].created
    <3>1. i \in rows /\ issue[i].hash = h
      BY <2>1, <2>5 DEF StoreInv, FinderCurrent
    <3>2. HashAgrees'
      BY <1>t, <2>2, <2>5, <3>1 DEF HashTable, HashAgrees, TypeOK
    <3>3. CreatorsHash'
      BY <2>2, <2>3, <2>5 DEF HashTable, CreatorsHash
    <3> QED
      BY <1>t, <2>1, <2>2, <3>2, <3>3 DEF HashTable, TypeOK
  <2> QED
    BY <2>4, <2>5
<1>7. ASSUME NEW w \in Workers, Crash(w) \/ Dispatch(w)
      PROVE  HashTable'
  <2>1. CASE Crash(w)
    BY <1>2, <2>1 DEF Crash, Finish, IdleWorker
  <2>2. CASE Dispatch(w)
    <3>1. PICK r : Becomes(w, r) /\ r.pc \in {"idle", "announced", "dispatched"}
      BY <1>t, <2>2, DispatchMeans
    <3> QED
      BY <1>2, <2>2, <3>1, DispatchKeeps
  <2> QED
    BY <1>7, <2>1, <2>2
<1>8. ASSUME NEW w \in Workers, NEW m \in Messages, Take(w, m)
      PROVE  HashTable'
  <2> DEFINE r == [wk[w] EXCEPT !.pc = "taken", !.msg = m]
  <2>1. r.pc = "taken"
    BY <1>t DEF WorkerState
  <2> QED
    BY <1>2, <1>8, <2>1 DEF Take
<1>9. ASSUME NEW S \in SUBSET rows, NEW status \in UserStatuses, SetStatus(S, status)
      PROVE  HashTable'
  <2>1. \A i \in IssueIds : issue'[i].hash = issue[i].hash
    BY <1>9, <1>t DEF SetStatus, TypeOK, IssueRow
  <2> QED
    BY <1>9, <1>t, <2>1, HashesKept DEF SetStatus, InTransaction, TypeOK
<1>10. CASE (\E m \in Messages : Accept(m)) \/ Tick
  BY <1>1, <1>10 DEF Accept, Tick
<1> QED
  BY <1>3, <1>4, <1>5, <1>6, <1>7, <1>8, <1>9, <1>10 DEF Next, WorkerNext, UserNext, StoreEvent

(* Storing events and setting statuses deletes no row, takes no hash from  *)
(* an issue and no lock from the merge.                                    *)
LEMMA NextKeeps ==
  ASSUME TInv, StoreInv, HashTable, Next
  PROVE  /\ rows \subseteq rows'
         /\ \A h \in Hashes : hashes'[h] # hashes[h] => hashes[h] = None /\ hashes'[h] \notin rows
         /\ \A i \in IssueIds : lock[i] = Merger => lock'[i] = Merger
<1> DEFINE Goal == /\ rows \subseteq rows'
                   /\ \A h \in Hashes : hashes'[h] # hashes[h] =>
                        hashes[h] = None /\ hashes'[h] \notin rows
                   /\ \A i \in IssueIds : lock[i] = Merger => lock'[i] = Merger
<1>t. TypeOK /\ \A v \in Workers : wk[v] \in WorkerState /\ WellFormed(wk[v])
  BY DEF TInv, TypeOK
<1>m. Merger # None /\ \A w \in Workers : w # Merger
  BY NoneAssumption, MaintainersAssumption
<1>1. ASSUME NEW w \in Workers, Crash(w)
      PROVE  Goal
  BY <1>1, <1>m DEF Crash, ReleaseOf, dbVars
<1>2. ASSUME NEW w \in Workers, LockIssue(w) \/ CreateIssue(w)
      PROVE  Goal
  <2>1. UNCHANGED dbVars /\ \E i : Free(i) /\ lock' = [lock EXCEPT ![i] = w]
    BY <1>2 DEF LockIssue, CreateIssue
  <2> QED
    BY <1>t, <1>m, <2>1 DEF Free, TypeOK, dbVars
<1>3. ASSUME NEW w \in Workers, Commit(w)
      PROVE  Goal
  <2> DEFINE i == wk[w].issue
             h == wk[w].msg.hash
  <2>1. InTransaction(w) /\ h \in Hashes
    BY <1>3, <1>t, MessageFields DEF Commit, InTransaction, WellFormed
  <2>2. /\ rows' = rows \cup {i} /\ lock' = ReleaseOf(w)
        /\ hashes' = IF wk[w].created THEN [hashes EXCEPT ![h] = i] ELSE hashes
    BY <1>3 DEF Commit
  <2>3. wk[w].created => hashes[h] = None /\ i \notin rows
    BY <2>1 DEF HashTable, CreatorsHash, StoreInv, CreatorAlone
  <2>4. \A i2 \in IssueIds : lock[i2] = Merger => lock'[i2] = Merger
    BY <1>m, <2>2 DEF ReleaseOf
  <2>5. \A g \in Hashes : hashes'[g] # hashes[g] => hashes[g] = None /\ hashes'[g] \notin rows
    BY <1>t, <2>1, <2>2, <2>3 DEF TypeOK
  <2> QED
    BY <2>2, <2>4, <2>5
<1>4. ASSUME NEW w \in Workers, WriteRows(w) \/ Dispatch(w) \/ \E m \in Messages : Take(w, m)
      PROVE  Goal
  BY <1>4, DispatchKeeps DEF WriteRows, Take, dbVars, lockVars
<1>5. CASE (\E m \in Messages : Accept(m)) \/ UserNext \/ Tick
  BY <1>5 DEF Accept, UserNext, SetStatus, Tick, dbVars, lockVars
<1> QED
  BY <1>1, <1>2, <1>3, <1>4, <1>5 DEF Next, WorkerNext, StoreEvent

LEMMA StoreNextMerge ==
  ASSUME TInv, StoreInv, HashTable, MergeInv, Next, UNCHANGED maintVars
  PROVE  MergeInv'
<1>1. /\ rows \subseteq rows'
      /\ \A h \in Hashes : hashes'[h] # hashes[h] => hashes[h] = None /\ hashes'[h] \notin rows
      /\ \A i \in IssueIds : lock[i] = Merger => lock'[i] = Merger
  BY NextKeeps
<1>2. None \notin rows /\ rows \subseteq IssueIds
  BY NoneAssumption DEF TInv, TypeOK
<1>3. mg.pc # "idle" => HashesOf(mg.sources)' = HashesOf(mg.sources)
  BY <1>1, <1>2 DEF MergeInv, HashesOf, maintVars
<1> QED
  BY <1>1, <1>2, <1>3 DEF MergeInv, maintVars

(* The commit of a merge.                                                  *)
LEMMA MergeCommitHash ==
  ASSUME MaintTInv, HashInv, MergeCommit
  PROVE  HashInv'
<1>t. /\ TInv /\ TypeOK /\ mg \in Merge /\ StoreInv /\ HashTable /\ MergeInv
  BY DEF MaintTInv, TInv, MergeType, HashInv
<1>1. /\ mg.pc = "deleted" /\ mg.target \in rows \ mg.sources /\ mg.sources \subseteq rows
      /\ mg.movedHashes = HashesOf(mg.sources) /\ \A s \in mg.sources : lock[s] = Merger
      /\ rows' = rows \ mg.sources /\ rows \subseteq IssueIds
  BY <1>t DEF MergeCommit, MergeInv, TypeOK
<1>2. \A i \in rows' : issue'[i].hash = issue[i].hash /\ issue'[i].status = issue[i].status
  <2> DEFINE b == IssuesWithout(mg.sources)
             r == MergedRow
  <2>1. r.hash = issue[mg.target].hash /\ r.status = issue[mg.target].status
    BY <1>1, MergedRowType
  <2>2. issue' = [b EXCEPT ![mg.target] = r]
    BY DEF MergeCommit
  <2>3. b = [i \in IssueIds |-> b[i]] /\ \A i \in rows' : b[i] = issue[i]
    BY <1>1 DEF IssuesWithout
  <2> HIDE DEF b, r
  <2> QED
    BY <1>1, <2>1, <2>2, <2>3
<1>3. \A w \in Workers : InTransaction(w) =>
        /\ wk[w].issue \in IssueIds /\ lock[wk[w].issue] = w /\ w # Merger
        /\ lock'[wk[w].issue] = w /\ wk[w].issue \notin mg.sources
  <2>1. \A w \in Workers : InTransaction(w) =>
          wk[w].issue \in IssueIds /\ lock[wk[w].issue] = w /\ w # Merger
    BY <1>t, MaintainersOwn DEF TInv, WellFormed, InTransaction, StoreInv, LockHeld
  <2>2. lock' = ReleaseOf(Merger)
    BY DEF MergeCommit
  <2> QED
    BY <1>1, <2>1, <2>2 DEF ReleaseOf
<1>4. StoreInv'
  <2>1. UNCHANGED <<wk, minted, dirty>>
    BY DEF MergeCommit, histVars
  <2> QED
    BY <1>t, <1>1, <1>2, <1>3, <2>1, RowsGone
<1>5. HashTable'
  <2>1. hashes' = [h \in Hashes |-> IF h \in mg.movedHashes THEN mg.target
                                    ELSE IF hashes[h] \in mg.sources THEN None ELSE hashes[h]]
    BY DEF MergeCommit
  <2>2. HashAgrees' /\ \A i \in rows' : issue'[i].hash \in Hashes
    BY <1>t, <1>1, <1>2, <2>1 DEF HashTable, HashAgrees, HashesOf
  <2>3. \A w \in Workers : InTransaction(w) /\ wk[w].created =>
          wk[w].msg.hash \in Hashes /\ hashes[wk[w].msg.hash] = None
    BY <1>t, MessageFields DEF HashTable, CreatorsHash, TInv, WellFormed, InTransaction
  <2>4. None \notin mg.sources
    BY <1>1, NoneAssumption
  <2>5. CreatorsHash'
    BY <1>1, <2>1, <2>3, <2>4 DEF CreatorsHash, InTransaction, HashesOf, MergeCommit
  <2> QED
    BY <2>2, <2>5 DEF HashTable
<1>6. MergeInv'
  <2>1. mg' = NoMerge
    BY DEF MergeCommit
  <2> QED
    BY <2>1, NoMergeType DEF MergeInv
<1> QED
  BY <1>4, <1>5, <1>6 DEF HashInv

LEMMA PurgeDeleteHash ==
  ASSUME MaintTInv, HashInv, PurgeDelete
  PROVE  HashInv'
<1>t. /\ TInv /\ TypeOK /\ StoreInv /\ HashTable /\ MergeInv
      /\ UNCHANGED <<lock, wk, minted, dirty, mg>> /\ pg.pc = "cascaded"
  BY DEF MaintTInv, TInv, HashInv, PurgeDelete, histVars, lockVars
<1>1. mg'.pc = "idle"
  BY <1>t DEF MergeInv
<1>2. CASE UNCHANGED dbVars
  <2>1. StoreInv'
    BY <1>t, <1>2, RowsGone DEF dbVars, StoreInv, LockHeld
  <2>2. HashTable'
    BY <1>t, <1>2, HashesKept DEF dbVars, InTransaction
  <2> QED
    BY <1>1, <2>1, <2>2 DEF HashInv, MergeInv
<1>3. CASE ~UNCHANGED dbVars
  <2>1. /\ rows' = rows \ pg.ids /\ \A i \in pg.ids : Free(i)
        /\ hashes' = [h \in Hashes |-> IF hashes[h] \in pg.ids THEN None ELSE hashes[h]]
        /\ issue' = IssuesWithout(pg.ids)
    BY <1>3 DEF PurgeDelete
  <2>2. \A i \in rows' : issue'[i] = issue[i]
    BY <1>t, <2>1 DEF IssuesWithout, TypeOK
  <2>3. \A w \in Workers : InTransaction(w) => lock[wk[w].issue] = w /\ w # None
    BY <1>t, OwnersNotNone DEF StoreInv, LockHeld
  <2>4. StoreInv'
    BY <1>t, <2>1, <2>2, <2>3, RowsGone DEF Free
  <2>5. HashAgrees' /\ \A i \in rows' : issue'[i].hash \in Hashes
    BY <1>t, <2>1, <2>2 DEF HashTable, HashAgrees
  <2>6. \A w \in Workers : InTransaction(w) /\ wk[w].created =>
          wk[w].msg.hash \in Hashes /\ hashes[wk[w].msg.hash] = None
    BY <1>t, MessageFields DEF HashTable, CreatorsHash, TInv, WellFormed, InTransaction
  <2>7. CreatorsHash'
    BY <1>t, <2>1, <2>6 DEF CreatorsHash, InTransaction
  <2> QED
    BY <1>1, <2>4, <2>5, <2>7 DEF HashInv, HashTable, MergeInv
<1> QED
  BY <1>2, <1>3

LEMMA TablesUntouched ==
  ASSUME TInv, StoreInv, HashTable, UNCHANGED <<rows, issue, hashes, wk, minted, dirty>>,
         \A i \in IssueIds : lock[i] # lock'[i] => lock[i] \notin Workers
  PROVE  StoreInv' /\ HashTable'
<1>1. \A w \in Workers : InTransaction(w) => wk[w].issue \in IssueIds /\ lock[wk[w].issue] = w
  BY DEF TInv, WellFormed, InTransaction, StoreInv, LockHeld
<1>2. StoreInv'
  BY <1>1, RowsGone
<1>3. HashTable'
  BY HashesKept DEF InTransaction
<1> QED
  BY <1>2, <1>3

LEMMA StepHashInv == MaintTInv /\ HashInv /\ [MaintNext]_allVars => HashInv'
<1> SUFFICES ASSUME MaintTInv, HashInv, [MaintNext]_allVars
             PROVE  HashInv'
  OBVIOUS
<1>t. TInv /\ TypeOK /\ mg \in Merge /\ StoreInv /\ HashTable /\ MergeInv
  BY DEF MaintTInv, TInv, MergeType, HashInv
<1>n. None \notin Workers /\ Merger \notin Workers
  BY NoneAssumption, MaintainersOwn
<1>1. ASSUME UNCHANGED vars, MergeInv'
      PROVE  HashInv'
  <2>1. UNCHANGED <<rows, issue, hashes, wk, minted, dirty, lock>>
    BY <1>1 DEF vars, dbVars, lockVars, histVars
  <2> QED
    BY <1>1, <1>t, <2>1, TablesUntouched DEF HashInv
<1>2. CASE StoreNext
  <2>1. StoreInv'
    BY <1>2, <1>t, StepStoreInv DEF StoreNext
  <2> QED
    BY <1>2, <1>t, <2>1, StoreNextHash, StoreNextMerge DEF StoreNext, HashInv
<1>3. ASSUME NEW t \in rows, NEW S \in SUBSET rows, MergeRead(t, S)
      PROVE  HashInv'
  <2> DEFINE r == [i \in IssueIds |-> IF i \in S \cup {t} THEN issue[i] ELSE BlankIssue]
  <2>1. mg' = [NoMerge EXCEPT !.pc = "read", !.target = t, !.sources = S, !.read = r]
    BY <1>3, Zenon DEF MergeRead
  <2> HIDE DEF r
  <2>2. mg'.pc = "read" /\ mg'.target = t /\ mg'.sources = S
    BY <2>1, NoMergeType DEF Merge
  <2>3. UNCHANGED <<vars, pg, rows>> /\ pg.pc = "idle" /\ t \notin S
    BY <1>3 DEF MergeRead, MaintenanceIdle, vars, dbVars
  <2>4. MergeInv'
    BY <2>2, <2>3 DEF MergeInv
  <2> QED
    BY <1>1, <2>3, <2>4
<1>4. CASE MergeReassign
  <2>1. /\ mg.pc = "read" /\ mg'.pc = "reassigned" /\ mg'.target = mg.target
        /\ mg'.sources = mg.sources /\ mg'.movedHashes = HashesOf(mg.sources)
    BY <1>4, <1>t DEF MergeReassign, Merge
  <2>2. UNCHANGED <<vars, pg, rows, hashes>>
    BY <1>4 DEF MergeReassign, vars, dbVars
  <2>3. MergeInv'
    BY <1>t, <2>1, <2>2 DEF MergeInv, HashesOf
  <2> QED
    BY <1>1, <2>2, <2>3
<1>5. CASE MergeSeen \/ MergeCascade
  <2>1. /\ mg.pc \notin {"idle", "read"} /\ mg'.pc \notin {"idle", "read", "deleted"}
        /\ mg'.target = mg.target /\ mg'.sources = mg.sources
        /\ mg'.movedHashes = mg.movedHashes
    BY <1>5, <1>t DEF MergeSeen, MergeCascade, Merge
  <2>2. UNCHANGED <<vars, pg, rows, hashes>>
    BY <1>5 DEF MergeSeen, MergeCascade, vars, dbVars
  <2>3. MergeInv'
    BY <1>t, <2>1, <2>2 DEF MergeInv, HashesOf
  <2> QED
    BY <1>1, <2>2, <2>3
<1>6. CASE MergeUsers
  <2>1. /\ mg.pc \notin {"idle", "read"} /\ mg'.pc \notin {"idle", "read", "deleted"}
        /\ mg'.target = mg.target /\ mg'.sources = mg.sources
        /\ mg'.movedHashes = mg.movedHashes
    BY <1>6, <1>t DEF MergeUsers, Merge
  <2>2. UNCHANGED <<rows, issue, hashes, wk, minted, dirty, lock, pg>>
    BY <1>6 DEF MergeUsers, dbVars, histVars
  <2>3. MergeInv'
    BY <1>t, <2>1, <2>2 DEF MergeInv, HashesOf
  <2> QED
    BY <1>t, <2>2, <2>3, TablesUntouched DEF HashInv
<1>7. CASE MergeDelete
  <2>1. /\ mg.pc = "cascaded" /\ mg'.pc = "deleted" /\ mg'.target = mg.target
        /\ mg'.sources = mg.sources /\ mg'.movedHashes = mg.movedHashes
    BY <1>7, <1>t DEF MergeDelete, Merge
  <2>2. UNCHANGED <<rows, issue, hashes, wk, minted, dirty, pg>>
    BY <1>7 DEF MergeDelete, dbVars, histVars
  <2>3. /\ lock' = [i \in IssueIds |-> IF i \in mg.sources THEN Merger ELSE lock[i]]
        /\ \A s \in mg.sources : lock[s] = None
        /\ mg.sources \subseteq IssueIds
    BY <1>7, <1>t DEF MergeDelete, Free, Merge
  <2>4. MergeInv'
    BY <1>t, <2>1, <2>2, <2>3 DEF MergeInv, HashesOf
  <2>5. \A i \in IssueIds : lock[i] # lock'[i] => lock[i] \notin Workers
    BY <1>n, <2>3
  <2> QED
    BY <1>t, <2>2, <2>4, <2>5, TablesUntouched DEF HashInv
<1>8. CASE MergeCommit
  BY <1>8, MergeCommitHash
<1>9. CASE MergeRollback
  <2>1. UNCHANGED <<rows, issue, hashes, wk, minted, dirty>>
    BY <1>9 DEF MergeRollback, dbVars, histVars
  <2>2. lock' = ReleaseOf(Merger) /\ mg' = NoMerge
    BY <1>9 DEF MergeRollback
  <2>3. \A i \in IssueIds : lock[i] # lock'[i] => lock[i] \notin Workers
    BY <1>n, <2>2 DEF ReleaseOf
  <2>4. MergeInv'
    BY <2>2, NoMergeType DEF MergeInv
  <2> QED
    BY <1>t, <2>1, <2>3, <2>4, TablesUntouched DEF HashInv
<1>10. ASSUME NEW cutoff \in 1..now, PurgeEvents(cutoff)
       PROVE  HashInv'
  <2>1. UNCHANGED <<rows, issue, hashes, wk, minted, dirty, lock, mg>> /\ mg.pc = "idle"
    BY <1>10 DEF PurgeEvents, MaintenanceIdle, lockVars, histVars
  <2>2. MergeInv'
    BY <2>1 DEF MergeInv
  <2> QED
    BY <1>t, <2>1, <2>2, TablesUntouched DEF HashInv
<1>11. CASE PurgeList \/ PurgeCascade
  <2>1. UNCHANGED <<vars, mg>> /\ mg.pc = "idle"
    BY <1>11, <1>t DEF PurgeList, PurgeCascade, MergeInv
  <2>2. MergeInv'
    BY <2>1 DEF MergeInv
  <2> QED
    BY <1>1, <2>1, <2>2
<1>12. CASE PurgeDelete
  BY <1>12, PurgeDeleteHash
<1>13. ASSUME NEW w \in Workers, CreateConflict(w) \/ DeadlockKillsWorker(w)
       PROVE  HashInv'
  <2>1. /\ UNCHANGED <<dbVars, histVars, maintVars>> /\ Becomes(w, IdleWorker)
        /\ lock' = lock \/ lock' = ReleaseOf(w)
    BY <1>13 DEF CreateConflict, DeadlockKillsWorker, Finish, lockVars
  <2>2. IdleWorker.pc = "idle"
    BY DEF IdleWorker
  <2>3. StoreInv'
    BY <1>t, <2>1, <2>2, LeaveTransaction DEF dbVars, histVars, ReleaseOf
  <2>4. HashTable'
    <3>1. wk'[w] = IdleWorker /\ \A v \in Workers \ {w} : wk'[v] = wk[v]
      BY <1>t, <2>1, BecomesEffect
    <3> QED
      BY <1>t, <2>1, <2>2, <3>1, HashesKept DEF dbVars, InTransaction
  <2>5. MergeInv'
    <3>1. \A i \in IssueIds : lock[i] = Merger => lock'[i] = Merger
      BY <1>n, <2>1 DEF ReleaseOf
    <3>2. mg.sources \subseteq IssueIds /\ UNCHANGED <<mg, pg, rows, hashes>>
      BY <1>t, <2>1 DEF Merge, dbVars, maintVars
    <3> QED
      BY <1>t, <3>1, <3>2 DEF MergeInv, HashesOf
  <2> QED
    BY <2>3, <2>4, <2>5 DEF HashInv
<1>14. CASE UNCHANGED allVars
  <2>1. UNCHANGED <<vars, mg, pg, rows, hashes, lock>>
    BY <1>14 DEF allVars, vars, dbVars, lockVars, maintVars
  <2>2. MergeInv'
    BY <1>t, <2>1 DEF MergeInv, HashesOf
  <2> QED
    BY <1>1, <2>1, <2>2
<1> QED
  BY <1>2, <1>3, <1>4, <1>5, <1>6, <1>7, <1>8, <1>9, <1>10, <1>11, <1>12, <1>13, <1>14
  DEF MaintNext, MaintenanceNext, MergeStep, PurgeStep, MergeFails, DeadlockKillsMerge

(* Merging and purging, at any moment and with any workers in the middle   *)
(* of their transactions, keep the invariant of concurrent event storage:  *)
(* one issue for a group, locks respected, no missed regression.           *)
THEOREM StoreInvUnderMaintenance == MaintSpec => []StoreInv
<1>1. MaintSpec => [](MaintTInv /\ HashInv)
  BY InitMaintTInv, StepMaintTInv, InitHashInv, StepHashInv, PTL DEF MaintSpec
<1> QED
  BY <1>1, PTL DEF HashInv

(* A live issue is what its own grouping hash resolves to, whatever merges *)
(* and purges run beside the workers.                                      *)
THEOREM HashesAgree == MaintSpec => []HashAgrees
<1>1. MaintSpec => [](MaintTInv /\ HashInv)
  BY InitMaintTInv, StepMaintTInv, InitHashInv, StepHashInv, PTL DEF MaintSpec
<1>2. HashInv => HashAgrees
  BY DEF HashInv, HashTable
<1> QED
  BY <1>1, <1>2, PTL

-----------------------------------------------------------------------------
(* Counters and events, as long as no worker overlaps with maintenance.    *)

(* The sum of counters that are at least, or exactly, the events stored.   *)
LEMMA SumOfCounts ==
  ASSUME NEW read, NEW S, IsFiniteSet(S), IsFiniteSet(events),
         \A i \in S : read[i].times \in Nat /\ read[i].times >= Cardinality(StoredEvents(i))
  PROVE  /\ TimesOf(read, S) >= Cardinality(EventsOf(S))
         /\ (\A i \in S : read[i].times = Cardinality(StoredEvents(i))) =>
              TimesOf(read, S) = Cardinality(EventsOf(S))
<1>1. PICK it : TimesOf(read, S) = it[S] /\ Solves(it, read, SUBSET S)
  BY TimesOfSteps
<1>f. /\ \A i : IsFiniteSet(StoredEvents(i)) /\ Cardinality(StoredEvents(i)) \in Nat
      /\ \A U : IsFiniteSet(EventsOf(U)) /\ Cardinality(EventsOf(U)) \in Nat
  <2>1. (\A i : StoredEvents(i) \subseteq events) /\ \A U : EventsOf(U) \subseteq events
    BY DEF StoredEvents, EventsOf
  <2> QED
    BY <2>1, FS_Subset, FS_CardinalityType
<1> DEFINE Exact == \A i \in S : read[i].times = Cardinality(StoredEvents(i))
           G == {U \in SUBSET S : /\ it[U] \in Nat /\ it[U] >= Cardinality(EventsOf(U))
                                  /\ Exact => it[U] = Cardinality(EventsOf(U))}
<1>2. {} \in G
  <2>1. it[{}] = 0 /\ EventsOf({}) = {}
    BY <1>1 DEF Solves, EventsOf
  <2> QED
    BY <2>1, FS_EmptySet
<1>3. ASSUME NEW U \in SUBSET S, U # {}, U \ {Some(U)} \in G
      PROVE  U \in G
  <2> DEFINE x == Some(U)
             V == U \ {x}
  <2>1. x \in U /\ x \in S
    BY <1>3 DEF Some
  <2>2. it[U] = read[x].times + it[V]
    BY <1>1, <1>3 DEF Solves
  <2>3. EventsOf(U) = StoredEvents(x) \cup EventsOf(V) /\ StoredEvents(x) \cap EventsOf(V) = {}
    BY <2>1 DEF EventsOf, StoredEvents
  <2>4. Cardinality(EventsOf(U)) = Cardinality(StoredEvents(x)) + Cardinality(EventsOf(V))
    <3>1. Cardinality(EventsOf(U)) =
            Cardinality(StoredEvents(x)) + Cardinality(EventsOf(V)) - Cardinality({})
      BY <1>f, <2>3, FS_Union
    <3> QED
      BY <1>f, <3>1, FS_EmptySet
  <2>5. /\ it[V] \in Nat /\ it[V] >= Cardinality(EventsOf(V))
        /\ Exact => it[V] = Cardinality(EventsOf(V))
    BY <1>3
  <2>6. /\ read[x].times \in Nat /\ read[x].times >= Cardinality(StoredEvents(x))
        /\ Exact => read[x].times = Cardinality(StoredEvents(x))
    BY <2>1
  <2> HIDE DEF Exact, x, V
  <2>7. /\ it[U] \in Nat /\ it[U] >= Cardinality(EventsOf(U))
        /\ Exact => it[U] = Cardinality(EventsOf(U))
    BY <1>f, <2>2, <2>4, <2>5, <2>6
  <2> QED
    BY <2>7
<1>4. S \in G
  <2> HIDE DEF G
  <2> QED
    BY <1>2, <1>3, SubsetInduction
<1> QED
  BY <1>1, <1>4

LEMMA FiniteCounts ==
  ASSUME FiniteTables, NEW i
  PROVE  /\ IsFiniteSet(StoredEvents(i)) /\ Cardinality(StoredEvents(i)) \in Nat
         /\ IsFiniteSet(DistinctUsers(i)) /\ Cardinality(DistinctUsers(i)) \in Nat
<1>1. StoredEvents(i) \subseteq events
  BY DEF StoredEvents
<1> DEFINE f == [q \in seenBy |-> q[2]]
<1>2. f = [q \in seenBy |-> f[q]]
  OBVIOUS
<1>3. DistinctUsers(i) \subseteq {f[q] : q \in seenBy}
  <2> SUFFICES ASSUME NEW u \in DistinctUsers(i)
               PROVE  u \in {f[q] : q \in seenBy}
    OBVIOUS
  <2>1. <<i, u>> \in seenBy /\ f[<<i, u>>] = u
    BY DEF DistinctUsers
  <2> QED
    BY <2>1
<1> HIDE DEF f
<1>4. IsFiniteSet({f[q] : q \in seenBy})
  BY <1>2, ImageFinite DEF FiniteTables
<1> QED
  BY <1>1, <1>3, <1>4, FS_Subset, FS_CardinalityType DEF FiniteTables

EventsDistinct == \A e, f \in events : e.msg = f.msg /\ e.delivery = f.delivery => e = f

(* No event that retention has to keep is lost; its date goes with it.     *)
EventsThere ==
  \A e \in ledger : e.at >= horizon =>
    \E f \in events : f.msg = e.msg /\ f.delivery = e.delivery /\ f.at = e.at

CountsAlone ==
  \A i \in rows :
    /\ issue[i].users = Cardinality(DistinctUsers(i))
    /\ issue[i].times >= Cardinality(StoredEvents(i))
    /\ horizon = 0 => issue[i].times = Cardinality(StoredEvents(i))

MergedUsers == {u \in Users : <<mg.target, u>> \in seenBy \cup pendingUsers[Merger]}

(* What the merge has read, moved, counted and deleted is still all there  *)
(* is: nothing was stored under its issues since.                          *)
MergeExact ==
  /\ mg.pc # "idle" =>
       \A i \in mg.sources \cup {mg.target} : mg.read[i].times = issue[i].times
  /\ mg.pc \notin {"idle", "read"} => mg.moved = EventsOf(mg.sources)
  /\ mg.pc \in {"folded", "cascaded", "deleted"} =>
       /\ mg.users = Cardinality(MergedUsers)
       /\ \A p \in pendingUsers[Merger] : p[1] = mg.target
  /\ mg.pc \in {"cascaded", "deleted"} =>
       doomed.events = EventsOf(mg.sources) /\ doomed.users = UsersOf(mg.sources)

(* The issues the purge has listed are still empty.                        *)
PurgeExact ==
  /\ pg.pc # "idle" => horizon # 0
  /\ pg.pc \in {"listed", "cascaded"} => EventsOf(pg.ids) = {}
  /\ pg.pc = "cascaded" => doomed.events = {} /\ doomed.users = UsersOf(pg.ids)

Stored == EventsDistinct /\ EventsThere /\ CountsAlone

Alone ==
  /\ MaintenanceIdle \/ WorkersQuiet
  /\ DeliveryInv /\ NewUserInv /\ Stored
  /\ MergeExact /\ PurgeExact

AloneInv == ~raced => Alone

LEMMA InitAloneInv == MaintInit => AloneInv
<1> SUFFICES ASSUME MaintInit
             PROVE  Alone
  BY DEF AloneInv
<1>1. mg.pc = "idle" /\ pg.pc = "idle"
  BY NoMergeType DEF MaintInit, NoPurge
<1>2. DeliveryInv /\ NewUserInv
  BY InitDeliveryInv, InitNewUserInv DEF MaintInit
<1>3. Stored
  BY DEF MaintInit, Init, Stored, EventsDistinct, EventsThere, CountsAlone
<1> QED
  BY <1>1, <1>2, <1>3 DEF Alone, MaintenanceIdle, MergeExact, PurgeExact

LEMMA NoRace ==
  ASSUME RaceNoted, ~raced'
  PROVE  /\ ~raced
         /\ (MaintenanceIdle /\ MaintenanceIdle') \/ (WorkersQuiet /\ WorkersQuiet')
BY DEF RaceNoted

(* Between the transactions of workers nothing but statuses changes.       *)
LEMMA Undisturbed ==
  ASSUME TInv, Next, WorkersQuiet, WorkersQuiet'
  PROVE  /\ UNCHANGED <<rows, hashes, seenBy, events, ledger, minted>>
         /\ pendingUsers'[Merger] = pendingUsers[Merger]
         /\ \A i \in IssueIds : issue'[i].times = issue[i].times /\ issue'[i].users = issue[i].users
<1> DEFINE Goal == /\ UNCHANGED <<rows, hashes, seenBy, events, ledger, minted>>
                   /\ pendingUsers'[Merger] = pendingUsers[Merger]
                   /\ \A i \in IssueIds : /\ issue'[i].times = issue[i].times
                                           /\ issue'[i].users = issue[i].users
<1>t. TypeOK /\ \A w \in Workers : wk[w] \in WorkerState
  BY DEF TInv, TypeOK
<1>1. ASSUME NEW w \in Workers, LockIssue(w) \/ CreateIssue(w)
      PROVE  FALSE
  <2>1. PICK r : Becomes(w, r) /\ r.pc = "locked"
    <3>1. \E i, c, g : Becomes(w, [wk[w] EXCEPT !.pc = "locked", !.issue = i, !.created = c,
                                                !.regressed = g])
      BY <1>1, Zenon DEF LockIssue, CreateIssue
    <3>2. PICK i, c, g : Becomes(w, [wk[w] EXCEPT !.pc = "locked", !.issue = i, !.created = c,
                                                !.regressed = g])
      BY <3>1
    <3> DEFINE r == [wk[w] EXCEPT !.pc = "locked", !.issue = i, !.created = c, !.regressed = g]
    <3>3. r.pc = "locked"
      BY <1>t DEF WorkerState
    <3> QED
      BY <3>2, <3>3
  <2>2. wk'[w] = r
    BY <1>t, <2>1, BecomesEffect
  <2> QED
    BY <2>1, <2>2 DEF WorkersQuiet, InTransaction
<1>2. ASSUME NEW w \in Workers, WriteRows(w) \/ Commit(w)
      PROVE  FALSE
  BY <1>2 DEF WriteRows, Commit, WorkersQuiet, InTransaction
<1>3. ASSUME NEW w \in Workers, Crash(w)
      PROVE  Goal
  <2>1. pendingUsers'[Merger] = pendingUsers[Merger]
    BY <1>3, <1>t, MaintainersOwn DEF Crash, TypeOK
  <2> QED
    BY <1>3, <2>1 DEF Crash, dbVars, histVars
<1>4. ASSUME NEW w \in Workers, Dispatch(w) \/ \E m \in Messages : Take(w, m)
      PROVE  Goal
  BY <1>4, DispatchKeeps DEF Take, dbVars, lockVars, histVars
<1>5. ASSUME NEW S \in SUBSET rows, NEW status \in UserStatuses, SetStatus(S, status)
      PROVE  Goal
  <2>1. \A i \in IssueIds : issue'[i].times = issue[i].times /\ issue'[i].users = issue[i].users
    BY <1>5, <1>t DEF SetStatus, TypeOK, IssueRow
  <2> QED
    BY <1>5, <2>1 DEF SetStatus, lockVars
<1>6. CASE (\E m \in Messages : Accept(m)) \/ Tick
  BY <1>6 DEF Accept, Tick, dbVars, lockVars, histVars
<1> QED
  BY <1>1, <1>2, <1>3, <1>4, <1>5, <1>6 DEF Next, WorkerNext, UserNext, StoreEvent

(* The same rows, events, users and counters.                              *)
LEMMA StoredKept ==
  ASSUME Stored, UNCHANGED <<rows, events, seenBy, ledger, horizon>>,
         \A i \in rows : issue'[i].times = issue[i].times /\ issue'[i].users = issue[i].users
  PROVE  Stored'
<1>1. \A i : StoredEvents(i)' = StoredEvents(i) /\ DistinctUsers(i)' = DistinctUsers(i)
  BY DEF StoredEvents, DistinctUsers
<1>2. CountsAlone'
  BY <1>1 DEF Stored, CountsAlone
<1> QED
  BY <1>2 DEF Stored, EventsDistinct, EventsThere

LEMMA MaintenanceKept ==
  ASSUME MaintTInv, MergeExact, PurgeExact,
         UNCHANGED <<mg, pg, doomed, horizon, events, seenBy>>,
         pendingUsers'[Merger] = pendingUsers[Merger],
         \A i \in IssueIds : issue'[i].times = issue[i].times
  PROVE  MergeExact' /\ PurgeExact'
<1>1. mg.pc # "idle" => mg.sources \cup {mg.target} \subseteq IssueIds
  BY DEF MaintTInv, MergeType, Merge
<1>2. /\ EventsOf(mg.sources)' = EventsOf(mg.sources) /\ UsersOf(mg.sources)' = UsersOf(mg.sources)
      /\ EventsOf(pg.ids)' = EventsOf(pg.ids) /\ UsersOf(pg.ids)' = UsersOf(pg.ids)
      /\ MergedUsers' = MergedUsers
  BY DEF EventsOf, UsersOf, MergedUsers
<1>3. MergeExact'
  BY <1>1, <1>2 DEF MergeExact
<1>4. PurgeExact'
  BY <1>2 DEF PurgeExact
<1> QED
  BY <1>3, <1>4

LEMMA MaintenanceResting ==
  ASSUME MaintenanceIdle'
  PROVE  MergeExact' /\ PurgeExact'
BY DEF MaintenanceIdle, MergeExact, PurgeExact

(* An event stored while no maintenance runs.                              *)
LEMMA CommitStored ==
  ASSUME MaintTInv, StoreInv, DeliveryInv, NewUserInv, Stored, NEW w \in Workers, Commit(w),
         UNCHANGED horizon
  PROVE  Stored'
<1>t. TInv /\ TypeOK /\ FiniteTables
  BY DEF MaintTInv, TInv
<1>0. PICK i \in IssueIds : i = wk[w].issue
  BY <1>t DEF Commit, TInv, WellFormed
<1> DEFINE new == IF wk[w].newUser THEN 1 ELSE 0
           m == wk[w].msg
           e == [msg |-> m, delivery |-> deliveries[m], issue |-> i, at |-> now]
<1>1. /\ events' = events \cup {e} /\ ledger' = ledger \cup {e}
      /\ \A f \in events : f.msg = m => f.delivery # deliveries[m]
  <2>1. events' = events \cup {e} /\ ledger' = ledger \cup {e} /\ wk[w].pc = "written"
    BY <1>0 DEF Commit
  <2>2. \A f \in events : f.msg = m => f.delivery < deliveries[m] /\ f.delivery \in Nat
    BY <1>t, <2>1 DEF DeliveryInv, TypeOK, EventRow
  <2> QED
    BY <2>1, <2>2
<1>2. EventsDistinct' /\ EventsThere'
  <2>1. EventsDistinct'
    BY <1>1 DEF Stored, EventsDistinct
  <2>2. EventsThere'
    BY <1>1 DEF Stored, EventsThere
  <2> QED
    BY <2>1, <2>2
<1>3. /\ IsFiniteSet(StoredEvents(i)) /\ Cardinality(StoredEvents(i)) \in Nat
      /\ IsFiniteSet(DistinctUsers(i)) /\ Cardinality(DistinctUsers(i)) \in Nat
  BY <1>t, FiniteCounts
<1>4. /\ rows' = rows \cup {i}
      /\ \A j \in IssueIds \ {i} :
           /\ issue'[j] = issue[j]
           /\ StoredEvents(j)' = StoredEvents(j) /\ DistinctUsers(j)' = DistinctUsers(j)
      /\ Cardinality(StoredEvents(i))' = Cardinality(StoredEvents(i)) + 1
      /\ Cardinality(DistinctUsers(i))' = Cardinality(DistinctUsers(i)) + new
      /\ \/ /\ i \in rows
            /\ issue'[i].times = issue[i].times + 1 /\ issue'[i].users = issue[i].users + new
         \/ /\ Cardinality(StoredEvents(i)) = 0 /\ Cardinality(DistinctUsers(i)) = 0
            /\ issue'[i].times = 1 /\ issue'[i].users = new
  BY <1>t, <1>0, <1>3, CommitAddsOne
<1>5. /\ issue[i].times \in Nat /\ rows \subseteq IssueIds
  BY <1>t DEF TypeOK, IssueRow
<1>6. CountsAlone'
  <2>1. ASSUME NEW j \in rows', j # i
        PROVE  /\ issue'[j].users = Cardinality(DistinctUsers(j))'
               /\ issue'[j].times >= Cardinality(StoredEvents(j))'
               /\ horizon' = 0 => issue'[j].times = Cardinality(StoredEvents(j))'
    BY <1>4, <1>5, <2>1 DEF Stored, CountsAlone
  <2>2. /\ issue'[i].users = Cardinality(DistinctUsers(i))'
        /\ issue'[i].times >= Cardinality(StoredEvents(i))'
        /\ horizon' = 0 => issue'[i].times = Cardinality(StoredEvents(i))'
    BY <1>3, <1>4, <1>5 DEF Stored, CountsAlone
  <2> QED
    BY <2>1, <2>2 DEF CountsAlone
<1> QED
  BY <1>2, <1>6 DEF Stored

LEMMA StoreNextAlone ==
  ASSUME MaintTInv, StoreInv, Alone, StoreNext, ~raced'
  PROVE  Alone'
<1>t. /\ TInv /\ TypeOK /\ Next /\ UNCHANGED <<mg, pg, doomed, horizon, mergeFailed>>
      /\ DeliveryInv /\ NewUserInv /\ Stored /\ MergeExact /\ PurgeExact
  BY DEF MaintTInv, TInv, StoreNext, maintVars, Alone
<1>r. (MaintenanceIdle /\ MaintenanceIdle') \/ (WorkersQuiet /\ WorkersQuiet')
  BY NoRace DEF StoreNext
<1>1. DeliveryInv' /\ NewUserInv'
  BY <1>t, StepDeliveryInv, StepNewUserInv
<1>2. CASE WorkersQuiet /\ WorkersQuiet'
  <2>1. /\ UNCHANGED <<rows, seenBy, events, ledger>>
        /\ pendingUsers'[Merger] = pendingUsers[Merger]
        /\ \A i \in IssueIds : issue'[i].times = issue[i].times /\ issue'[i].users = issue[i].users
    BY <1>2, <1>t, Undisturbed
  <2>2. Stored'
    BY <1>t, <2>1, StoredKept DEF TypeOK
  <2>3. MergeExact' /\ PurgeExact'
    BY <1>t, <2>1, MaintenanceKept
  <2> QED
    BY <1>1, <1>2, <2>2, <2>3 DEF Alone
<1>3. CASE MaintenanceIdle /\ MaintenanceIdle'
  <2>1. MergeExact' /\ PurgeExact'
    BY <1>3, MaintenanceResting
  <2>2. Stored'
    <3>1. ASSUME UNCHANGED dbVars, UNCHANGED ledger
          PROVE  Stored'
      BY <1>t, <3>1, StoredKept DEF dbVars
    <3>2. ASSUME NEW w \in Workers, Commit(w)
          PROVE  Stored'
      BY <1>t, <3>2, CommitStored
    <3>3. ASSUME NEW w \in Workers, (StoreEvent(w) /\ ~Commit(w)) \/ Crash(w)
                                    \/ \E m \in Messages : Take(w, m)
          PROVE  Stored'
      <4>1. UNCHANGED dbVars /\ UNCHANGED ledger
        BY <3>3, DispatchKeeps DEF StoreEvent, LockIssue, CreateIssue, WriteRows, Crash, Take, histVars
      <4> QED
        BY <3>1, <4>1
    <3>4. ASSUME NEW S \in SUBSET rows, NEW status \in UserStatuses, SetStatus(S, status)
          PROVE  Stored'
      <4>1. \A i \in IssueIds : issue'[i].times = issue[i].times /\ issue'[i].users = issue[i].users
        BY <3>4, <1>t DEF SetStatus, TypeOK, IssueRow
      <4>2. UNCHANGED <<rows, events, seenBy, ledger>>
        BY <3>4 DEF SetStatus
      <4> QED
        BY <1>t, <4>1, <4>2, StoredKept DEF TypeOK
    <3>5. CASE (\E m \in Messages : Accept(m)) \/ Tick
      <4>1. UNCHANGED dbVars /\ UNCHANGED ledger
        BY <3>5 DEF Accept, Tick, histVars
      <4> QED
        BY <3>1, <4>1
    <3> QED
      BY <1>t, <3>2, <3>3, <3>4, <3>5 DEF Next, WorkerNext, UserNext, StoreEvent
  <2> QED
    BY <1>1, <1>3, <2>1, <2>2 DEF Alone
<1> QED
  BY <1>r, <1>2, <1>3

(* A maintenance step while the workers are quiet: the events that remain  *)
(* are old ones, perhaps under another issue.                              *)
LEMMA QuietStores ==
  ASSUME DeliveryInv, NewUserInv, WorkersQuiet, UNCHANGED <<wk, queue, deliveries, minted>>,
         \A f \in events' : /\ f.issue \in minted
                            /\ \E e \in events : e.msg = f.msg /\ e.delivery = f.delivery,
         \A p \in seenBy' : p[1] \in minted
  PROVE  DeliveryInv' /\ NewUserInv' /\ WorkersQuiet'
<1>1. DeliveryInv'
  BY DEF DeliveryInv
<1>2. \A w \in Workers : wk[w].pc # "written"
  BY DEF WorkersQuiet, InTransaction
<1>3. NewUserInv'
  BY <1>2 DEF NewUserInv
<1> QED
  BY <1>1, <1>3 DEF WorkersQuiet, InTransaction

(* ... and if it changes no table, only what maintenance did is to check.  *)
LEMMA QuietKeeps ==
  ASSUME Alone, WorkersQuiet, MergeExact', PurgeExact',
         UNCHANGED <<wk, queue, deliveries, minted, dbVars, ledger, horizon>>
  PROVE  Alone'
<1>1. DeliveryInv' /\ NewUserInv' /\ WorkersQuiet'
  BY QuietStores DEF Alone, DeliveryInv, NewUserInv, dbVars
<1>2. Stored'
  BY StoredKept DEF Alone, dbVars
<1> QED
  BY <1>1, <1>2 DEF Alone

LEMMA MergeStepsAlone ==
  ASSUME MaintTInv, HashInv, Alone, WorkersQuiet,
         \/ \E t \in rows, S \in SUBSET rows : MergeRead(t, S)
         \/ MergeReassign \/ MergeSeen \/ MergeUsers \/ MergeCascade \/ MergeDelete
         \/ MergeRollback /\ mg.pc # "idle"
  PROVE  Alone'
<1>t. TypeOK /\ mg \in Merge /\ MergeExact /\ PurgeExact /\ MergeInv
  BY DEF MaintTInv, TInv, MergeType, Alone, HashInv
<1>u. UNCHANGED <<wk, queue, deliveries, minted, dbVars, ledger, horizon, pg>>
  BY DEF MergeRead, MergeReassign, MergeSeen, MergeUsers, MergeCascade, MergeDelete,
         MergeRollback, vars, histVars
<1>p. pg.pc = "idle"
  BY <1>t DEF MergeRead, MaintenanceIdle, MergeInv, MergeReassign, MergeSeen, MergeUsers,
              MergeCascade, MergeDelete
<1>q. PurgeExact'
  BY <1>p, <1>u DEF PurgeExact
<1>e. /\ EventsOf(mg.sources) = {e \in events' : e.issue \in mg.sources}
      /\ UsersOf(mg.sources) = {p \in seenBy' : p[1] \in mg.sources}
  BY <1>u DEF EventsOf, UsersOf, dbVars
<1>1. ASSUME NEW t \in rows, NEW S \in SUBSET rows, MergeRead(t, S)
      PROVE  MergeExact'
  <2> DEFINE r == [i \in IssueIds |-> IF i \in S \cup {t} THEN issue[i] ELSE BlankIssue]
  <2>1. mg' = [NoMerge EXCEPT !.pc = "read", !.target = t, !.sources = S, !.read = r]
    BY <1>1, Zenon DEF MergeRead
  <2>2. S \cup {t} \subseteq IssueIds
    BY <1>t DEF TypeOK
  <2>3. \A i \in S \cup {t} : r[i] = issue[i]
    BY <2>2
  <2> HIDE DEF r
  <2>4. mg'.pc = "read" /\ mg'.target = t /\ mg'.sources = S /\ mg'.read = r
    BY <2>1, NoMergeType DEF Merge
  <2> QED
    BY <1>u, <2>3, <2>4 DEF MergeExact, dbVars
<1>2. ASSUME MergeReassign
      PROVE  MergeExact'
  <2>1. /\ mg.pc = "read" /\ mg'.pc = "reassigned" /\ mg'.target = mg.target
        /\ mg'.sources = mg.sources /\ mg'.read = mg.read /\ mg'.moved = EventsOf(mg.sources)
    BY <1>2, <1>t DEF MergeReassign, Merge
  <2> QED
    BY <1>t, <1>u, <1>e, <2>1 DEF MergeExact, EventsOf, dbVars
<1>3. ASSUME MergeSeen
      PROVE  MergeExact'
  <2>1. /\ mg.pc = "reassigned" /\ mg'.pc = "seen" /\ mg'.target = mg.target
        /\ mg'.sources = mg.sources /\ mg'.read = mg.read /\ mg'.moved = mg.moved
    BY <1>3, <1>t DEF MergeSeen, Merge
  <2> QED
    BY <1>t, <1>u, <1>e, <2>1 DEF MergeExact, EventsOf, dbVars
<1>4. ASSUME MergeUsers
      PROVE  MergeExact'
  <2> DEFINE P == {<<mg.target, p[2]>> : p \in FoldedUsers}
             n == Cardinality({u \in Users : <<mg.target, u>> \in seenBy \cup P})
  <2>1. pendingUsers'[Merger] = P
    BY <1>4, <1>t, MaintainersOwn DEF MergeUsers, TypeOK
  <2>2. mg' = [mg EXCEPT !.pc = "folded", !.users = n]
    BY <1>4, <2>1 DEF MergeUsers
  <2>3. \A p \in P : p[1] = mg.target
    OBVIOUS
  <2>4. n = Cardinality({u \in Users : <<mg.target, u>> \in seenBy' \cup pendingUsers'[Merger]})
    BY <1>u, <2>1 DEF dbVars
  <2> HIDE DEF P, n
  <2>5. /\ mg.pc = "seen" /\ mg'.pc = "folded" /\ mg'.target = mg.target
        /\ mg'.sources = mg.sources /\ mg'.read = mg.read /\ mg'.moved = mg.moved
        /\ mg'.users = n
    BY <1>4, <1>t, <2>2 DEF MergeUsers, Merge
  <2>6. MergedUsers' = {u \in Users : <<mg.target, u>> \in seenBy' \cup pendingUsers'[Merger]}
    BY <2>5 DEF MergedUsers
  <2> QED
    BY <1>t, <1>u, <1>e, <2>1, <2>3, <2>4, <2>5, <2>6 DEF MergeExact, EventsOf, dbVars
<1>5. ASSUME MergeCascade
      PROVE  MergeExact'
  <2>1. /\ mg.pc = "folded" /\ mg'.pc = "cascaded" /\ mg'.target = mg.target
        /\ mg'.sources = mg.sources /\ mg'.read = mg.read /\ mg'.moved = mg.moved
        /\ mg'.users = mg.users
    BY <1>5, <1>t DEF MergeCascade, Merge
  <2>2. doomed'.events = EventsOf(mg.sources) /\ doomed'.users = UsersOf(mg.sources)
    BY <1>5 DEF MergeCascade, Cascade
  <2>3. MergedUsers' = MergedUsers /\ pendingUsers' = pendingUsers
    BY <1>5, <1>u, <2>1 DEF MergeCascade, MergedUsers, vars, lockVars, dbVars
  <2> QED
    BY <1>t, <1>u, <1>e, <2>1, <2>2, <2>3 DEF MergeExact, EventsOf, UsersOf, dbVars
<1>6. ASSUME MergeDelete
      PROVE  MergeExact'
  <2>1. /\ mg.pc = "cascaded" /\ mg'.pc = "deleted" /\ mg'.target = mg.target
        /\ mg'.sources = mg.sources /\ mg'.read = mg.read /\ mg'.moved = mg.moved
        /\ mg'.users = mg.users /\ UNCHANGED <<pendingUsers, doomed>>
    BY <1>6, <1>t DEF MergeDelete, Merge
  <2>2. MergedUsers' = MergedUsers
    BY <1>u, <2>1 DEF MergedUsers, dbVars
  <2> QED
    BY <1>t, <1>u, <1>e, <2>1, <2>2 DEF MergeExact, EventsOf, UsersOf, dbVars
<1>7. ASSUME MergeRollback
      PROVE  MergeExact'
  <2>1. mg'.pc = "idle"
    BY <1>7, NoMergeType DEF MergeRollback
  <2> QED
    BY <2>1 DEF MergeExact
<1> QED
  BY <1>q, <1>u, <1>1, <1>2, <1>3, <1>4, <1>5, <1>6, <1>7, QuietKeeps

LEMMA PurgeStepsAlone ==
  ASSUME MaintTInv, HashInv, Alone, WorkersQuiet, PurgeList \/ PurgeCascade
  PROVE  Alone'
<1>t. TypeOK /\ pg \in Purge /\ MergeExact /\ PurgeExact /\ MergeInv
  BY DEF MaintTInv, TInv, Alone, HashInv
<1>u. UNCHANGED <<wk, queue, deliveries, minted, dbVars, ledger, horizon, mg>>
  BY DEF PurgeList, PurgeCascade, vars, histVars
<1>1. MergeExact'
  BY <1>t, <1>u DEF MergeExact, MergeInv, PurgeList, PurgeCascade
<1>2. CASE PurgeList
  <2>1. EventsOf(EmptyIssues) = {}
    BY DEF EventsOf, EmptyIssues
  <2>2. pg' = NoPurge \/ (pg'.pc = "listed" /\ pg'.ids = EmptyIssues)
    BY <1>2, <1>t DEF PurgeList, Purge
  <2>3. EventsOf(EmptyIssues) = {e \in events' : e.issue \in EmptyIssues}
    BY <1>u DEF EventsOf, dbVars
  <2>4. PurgeExact'
    BY <1>2, <1>t, <1>u, <2>1, <2>2, <2>3 DEF PurgeList, PurgeExact, NoPurge, EventsOf
  <2> QED
    BY <1>1, <1>u, <2>4, QuietKeeps
<1>3. CASE PurgeCascade
  <2>1. pg.pc = "listed" /\ pg'.pc = "cascaded" /\ pg'.ids = pg.ids
    BY <1>3, <1>t DEF PurgeCascade, Purge
  <2>2. doomed'.events = EventsOf(pg.ids) /\ doomed'.users = UsersOf(pg.ids)
    BY <1>3 DEF PurgeCascade, Cascade
  <2>3. EventsOf(pg.ids)' = EventsOf(pg.ids) /\ UsersOf(pg.ids)' = UsersOf(pg.ids)
    BY <1>u, <2>1 DEF EventsOf, UsersOf, dbVars
  <2>4. PurgeExact'
    BY <1>t, <1>u, <2>1, <2>2, <2>3 DEF PurgeExact
  <2> QED
    BY <1>1, <1>u, <2>4, QuietKeeps
<1> QED
  BY <1>2, <1>3

LEMMA PurgeEventsAlone ==
  ASSUME MaintTInv, HashInv, Alone, WorkersQuiet,
         NEW cutoff \in 1..now, PurgeEvents(cutoff)
  PROVE  Alone'
<1>t. /\ TypeOK /\ FiniteTables /\ horizon \in Nat /\ cutoff \in Nat
      /\ DeliveryInv /\ NewUserInv /\ EventsDistinct /\ EventsThere /\ CountsAlone
  BY DEF MaintTInv, TInv, TypeOK, Alone, Stored
<1>1. /\ events' = {e \in events : e.at >= cutoff} /\ horizon' = cutoff /\ cutoff > horizon
      /\ UNCHANGED <<rows, issue, hashes, seenBy, lockVars, queue, deliveries, wk, now,
                     histVars, mg, doomed, mergeFailed>>
      /\ mg.pc = "idle"
  BY <1>t DEF PurgeEvents, MaintenanceIdle
<1>2. pg'.pc = "purging"
  BY DEF PurgeEvents, NoPurge
<1>3. DeliveryInv' /\ NewUserInv' /\ WorkersQuiet'
  <2>1. UNCHANGED <<wk, queue, deliveries, minted>>
    BY <1>1 DEF histVars
  <2>2. \A f \in events' : /\ f.issue \in minted
                          /\ \E e \in events : e.msg = f.msg /\ e.delivery = f.delivery
    BY <1>t, <1>1 DEF DeliveryInv
  <2>3. \A p \in seenBy' : p[1] \in minted
    BY <1>t, <1>1 DEF NewUserInv
  <2> QED
    BY <1>t, <2>1, <2>2, <2>3, QuietStores
<1>4. EventsDistinct'
  BY <1>t, <1>1 DEF EventsDistinct
<1>5. EventsThere'
  <2> SUFFICES ASSUME NEW e \in ledger, e.at >= cutoff
               PROVE  \E f \in events' : f.msg = e.msg /\ f.delivery = e.delivery /\ f.at = e.at
    BY <1>1 DEF EventsThere, histVars
  <2>1. e.at \in Nat /\ e.at >= horizon
    BY <1>t, <1>1 DEF TypeOK, EventRow
  <2>2. PICK f \in events : f.msg = e.msg /\ f.delivery = e.delivery /\ f.at = e.at
    BY <1>t, <2>1 DEF EventsThere
  <2> QED
    BY <1>1, <2>2
<1>6. CountsAlone'
  <2> SUFFICES ASSUME NEW i \in rows
               PROVE  /\ issue[i].users = Cardinality(DistinctUsers(i))'
                      /\ issue[i].times >= Cardinality(StoredEvents(i))'
    BY <1>t, <1>1 DEF CountsAlone
  <2>1. DistinctUsers(i)' = DistinctUsers(i) /\ StoredEvents(i)' \subseteq StoredEvents(i)
    BY <1>1 DEF DistinctUsers, StoredEvents
  <2>2. IsFiniteSet(StoredEvents(i)) /\ Cardinality(StoredEvents(i)) \in Nat
    BY <1>t, FiniteCounts
  <2>3. /\ Cardinality(StoredEvents(i))' <= Cardinality(StoredEvents(i))
        /\ Cardinality(StoredEvents(i))' \in Nat
    BY <2>1, <2>2, FS_Subset, FS_CardinalityType
  <2>4. issue[i].times \in Nat
    BY <1>t DEF TypeOK, IssueRow
  <2> QED
    BY <1>t, <2>1, <2>2, <2>3, <2>4 DEF CountsAlone
<1>7. MergeExact' /\ PurgeExact'
  BY <1>t, <1>1, <1>2 DEF MergeExact, PurgeExact
<1> QED
  BY <1>3, <1>4, <1>5, <1>6, <1>7 DEF Alone, Stored

LEMMA PurgeDeleteAlone ==
  ASSUME MaintTInv, HashInv, Alone, WorkersQuiet, PurgeDelete
  PROVE  Alone'
<1>t. /\ TypeOK /\ MergeInv /\ PurgeExact /\ Stored /\ DeliveryInv /\ NewUserInv
      /\ UNCHANGED <<wk, queue, deliveries, minted, ledger, horizon, mg>>
  BY DEF MaintTInv, TInv, Alone, HashInv, PurgeDelete, histVars
<1>1. /\ pg.pc = "cascaded" /\ mg.pc = "idle" /\ horizon # 0
      /\ doomed.events = {} /\ doomed.users = UsersOf(pg.ids)
  BY <1>t DEF PurgeDelete, MergeInv, PurgeExact
<1>2. pg'.pc \in {"idle", "purging"}
  <2>1. pg \in Purge
    BY DEF MaintTInv
  <2>2. pg' = NoPurge \/ pg' = [pg EXCEPT !.pc = "purging", !.ids = {}]
    BY Zenon DEF PurgeDelete
  <2>3. [pg EXCEPT !.pc = "purging", !.ids = {}].pc = "purging"
    BY <2>1 DEF Purge
  <2>4. NoPurge.pc = "idle"
    BY DEF NoPurge
  <2> QED
    BY <2>2, <2>3, <2>4, Zenon
<1>3. MergeExact' /\ PurgeExact'
  BY <1>t, <1>1, <1>2 DEF MergeExact, PurgeExact
<1>4. CASE UNCHANGED dbVars
  BY <1>t, <1>3, <1>4, QuietKeeps
<1>5. CASE ~UNCHANGED dbVars
  <2>1. /\ rows' = rows \ pg.ids /\ events' = events /\ seenBy' = seenBy \ UsersOf(pg.ids)
        /\ issue' = IssuesWithout(pg.ids)
    BY <1>1, <1>5 DEF PurgeDelete
  <2>2. DeliveryInv' /\ NewUserInv' /\ WorkersQuiet'
    <3>1. \A f \in events' : /\ f.issue \in minted
                            /\ \E e \in events : e.msg = f.msg /\ e.delivery = f.delivery
      BY <1>t, <2>1 DEF DeliveryInv
    <3>2. \A p \in seenBy' : p[1] \in minted
      BY <1>t, <2>1 DEF NewUserInv
    <3> QED
      BY <1>t, <3>1, <3>2, QuietStores
  <2>3. \A i \in rows' : issue'[i] = issue[i]
    BY <1>t, <2>1 DEF IssuesWithout, TypeOK
  <2>4. \A i \in rows' : StoredEvents(i)' = StoredEvents(i) /\ DistinctUsers(i)' = DistinctUsers(i)
    BY <2>1 DEF StoredEvents, DistinctUsers, UsersOf
  <2>5. Stored'
    BY <1>t, <2>1, <2>3, <2>4 DEF Stored, EventsDistinct, EventsThere, CountsAlone
  <2> QED
    BY <1>3, <2>2, <2>5 DEF Alone
<1> QED
  BY <1>4, <1>5

(* The commit of a merge nobody overlapped with: its target has every      *)
(* event and every user of the union, and counts them.                     *)
LEMMA MergeCommitAlone ==
  ASSUME MaintTInv, HashInv, Alone, WorkersQuiet, MergeCommit
  PROVE  Alone'
<1> DEFINE t == mg.target
           S == mg.sources
           E == EventsOf(S)
           M == {[e EXCEPT !.issue = t] : e \in E}
<1>t. /\ TypeOK /\ FiniteTables /\ mg \in Merge /\ IsFiniteSet(S)
      /\ EventsDistinct /\ EventsThere /\ CountsAlone /\ DeliveryInv /\ NewUserInv
      /\ MergeExact /\ StoreInv
  BY DEF MaintTInv, TInv, MergeType, Alone, HashInv, Stored, MergeCommit
<1>u. UNCHANGED <<wk, queue, deliveries, minted, ledger, horizon>>
  BY DEF MergeCommit, histVars
<1>1. /\ mg.pc = "deleted" /\ t \in rows /\ t \notin S /\ S \subseteq rows /\ rows \subseteq IssueIds
      /\ rows \subseteq minted /\ pg.pc = "idle"
  BY <1>t DEF MergeCommit, HashInv, MergeInv, TypeOK, StoreInv
<1>2. /\ mg.moved = E /\ doomed.events = E /\ doomed.users = UsersOf(S)
      /\ mg.users = Cardinality(MergedUsers) /\ \A p \in pendingUsers[Merger] : p[1] = t
      /\ \A i \in S \cup {t} : mg.read[i].times = issue[i].times
  BY <1>t, <1>1 DEF MergeExact
<1>3. /\ rows' = rows \ S /\ events' = (events \ E) \cup M
      /\ seenBy' = (seenBy \ UsersOf(S)) \cup pendingUsers[Merger]
  BY <1>2 DEF MergeCommit
<1>e. \A e \in E : /\ e \in EventRow /\ e \in events /\ e.issue \in S
                  /\ [e EXCEPT !.issue = t].issue = t /\ [e EXCEPT !.issue = t].msg = e.msg
                  /\ [e EXCEPT !.issue = t].delivery = e.delivery
                  /\ [e EXCEPT !.issue = t].at = e.at
  BY <1>t DEF EventsOf, TypeOK, EventRow
<1>m. \A f \in M : f.issue = t /\ \E e \in E : e.msg = f.msg /\ e.delivery = f.delivery /\ e.at = f.at
                                         /\ f = [e EXCEPT !.issue = t]
  BY <1>e
<1>4. /\ issue'[t].times = TimesOf(mg.read, S \cup {t}) /\ issue'[t].users = mg.users
      /\ \A i \in rows' \ {t} : issue'[i] = issue[i]
  <2> DEFINE b == IssuesWithout(S)
             r == MergedRow
  <2>1. r.times = TimesOf(mg.read, S \cup {t}) /\ r.users = mg.users
    BY <1>1, MergedRowType
  <2>2. issue' = [b EXCEPT ![t] = r]
    BY DEF MergeCommit
  <2>3. b = [i \in IssueIds |-> b[i]] /\ \A i \in rows' : b[i] = issue[i]
    BY <1>1, <1>3 DEF IssuesWithout
  <2> HIDE DEF b, r
  <2> QED
    BY <1>1, <1>3, <2>1, <2>2, <2>3
<1>5. DeliveryInv' /\ NewUserInv' /\ WorkersQuiet'
  <2>1. \A f \in events' : /\ f.issue \in minted
                          /\ \E e \in events : e.msg = f.msg /\ e.delivery = f.delivery
    BY <1>t, <1>1, <1>3, <1>e, <1>m DEF DeliveryInv
  <2>2. \A p \in seenBy' : p[1] \in minted
    BY <1>t, <1>1, <1>2, <1>3 DEF NewUserInv
  <2> QED
    BY <1>t, <1>u, <2>1, <2>2, QuietStores
<1>6. EventsDistinct'
  <2> SUFFICES ASSUME NEW e \in events', NEW f \in events', e.msg = f.msg, e.delivery = f.delivery
               PROVE  e = f
    BY DEF EventsDistinct
  <2> HIDE DEF M, E
  <2>1. CASE e \in M /\ f \in M
    <3>1. PICK e1 \in E : e1.msg = e.msg /\ e1.delivery = e.delivery /\ e = [e1 EXCEPT !.issue = t]
      BY <1>m, <2>1
    <3>2. PICK f1 \in E : f1.msg = f.msg /\ f1.delivery = f.delivery /\ f = [f1 EXCEPT !.issue = t]
      BY <1>m, <2>1
    <3>3. e1 = f1
      BY <1>t, <1>e, <3>1, <3>2 DEF EventsDistinct
    <3> QED
      BY <3>1, <3>2, <3>3
  <2>2. CASE e \notin M \/ f \notin M
    <3>1. \A g \in events \ E, f2 \in M : ~(g.msg = f2.msg /\ g.delivery = f2.delivery)
      BY <1>t, <1>e, <1>m DEF EventsDistinct
    <3> QED
      BY <1>t, <1>3, <2>2, <3>1 DEF EventsDistinct
  <2> QED
    BY <2>1, <2>2
<1>7. EventsThere'
  <2> SUFFICES ASSUME NEW e \in ledger, e.at >= horizon
               PROVE  \E f \in events' : f.msg = e.msg /\ f.delivery = e.delivery /\ f.at = e.at
    BY <1>u DEF EventsThere
  <2>1. PICK f \in events : f.msg = e.msg /\ f.delivery = e.delivery /\ f.at = e.at
    BY <1>t DEF EventsThere
  <2>2. CASE f \in E
    <3>1. [f EXCEPT !.issue = t] \in events'
      BY <1>3, <2>2
    <3> QED
      BY <1>e, <2>1, <2>2, <3>1
  <2>3. CASE f \notin E
    BY <1>3, <2>1, <2>3
  <2> QED
    BY <2>2, <2>3
<1>8. ASSUME NEW i \in rows', i # t
      PROVE  StoredEvents(i)' = StoredEvents(i) /\ DistinctUsers(i)' = DistinctUsers(i)
  <2>1. i \notin S
    BY <1>3
  <2>2. StoredEvents(i)' = StoredEvents(i)
    <3> HIDE DEF M
    <3> QED
      BY <1>3, <1>e, <1>m, <1>8, <2>1 DEF StoredEvents
  <2>3. DistinctUsers(i)' = DistinctUsers(i)
    BY <1>2, <1>3, <1>8, <2>1 DEF DistinctUsers, UsersOf
  <2> QED
    BY <2>2, <2>3
<1>9. Cardinality({u \in Users : <<t, u>> \in seenBy'}) = mg.users
  <2>1. {u \in Users : <<t, u>> \in seenBy'} = MergedUsers
    BY <1>1, <1>3 DEF MergedUsers, UsersOf
  <2> QED
    BY <1>2, <2>1
<1>10. Cardinality({e \in events' : e.issue = t}) = Cardinality(EventsOf(S \cup {t}))
  <2> DEFINE X == {e \in events : e.issue = t}
             g == [e \in E |-> [e EXCEPT !.issue = t]]
  <2>1. IsFiniteSet(E) /\ IsFiniteSet(X)
    BY <1>t, FS_Subset DEF FiniteTables, EventsOf
  <2>2. g = [e \in E |-> g[e]] /\ M = {g[e] : e \in E}
    OBVIOUS
  <2>3. \A e, f \in E : g[e] = g[f] => e = f
    <3> SUFFICES ASSUME NEW e \in E, NEW f \in E, [e EXCEPT !.issue = t] = [f EXCEPT !.issue = t]
                 PROVE  e = f
      OBVIOUS
    <3>1. e.msg = f.msg /\ e.delivery = f.delivery
      BY <1>e
    <3> QED
      BY <1>t, <1>e, <3>1 DEF EventsDistinct
  <2>4. IsFiniteSet(M) /\ Cardinality(M) = Cardinality(E)
    <3> HIDE DEF M, E, g
    <3> QED
      BY <2>1, <2>2, <2>3, ImageFinite
  <2>5. {e \in events' : e.issue = t} = X \cup M
    <3> HIDE DEF M
    <3> QED
      BY <1>1, <1>3, <1>e, <1>m
  <2>6. X \cap M = {}
    <3> HIDE DEF M
    <3> QED
      BY <1>t, <1>1, <1>e, <1>m DEF EventsDistinct
  <2>7. EventsOf(S \cup {t}) = X \cup E /\ X \cap E = {}
    BY <1>1 DEF EventsOf
  <2> HIDE DEF X, M, E
  <2>8. Cardinality(X \cup M) = Cardinality(X) + Cardinality(M) - Cardinality({})
    BY <2>1, <2>4, <2>6, FS_Union
  <2>9. Cardinality(X \cup E) = Cardinality(X) + Cardinality(E) - Cardinality({})
    BY <2>1, <2>7, FS_Union
  <2> QED
    BY <2>4, <2>5, <2>7, <2>8, <2>9
<1>11. /\ issue'[t].times >= Cardinality(EventsOf(S \cup {t}))
       /\ horizon = 0 => issue'[t].times = Cardinality(EventsOf(S \cup {t}))
  <2>1. IsFiniteSet(S \cup {t}) /\ IsFiniteSet(events)
    BY <1>t, FS_AddElement DEF FiniteTables
  <2>2. \A i \in S \cup {t} :
          /\ mg.read[i].times \in Nat /\ mg.read[i].times >= Cardinality(StoredEvents(i))
          /\ horizon = 0 => mg.read[i].times = Cardinality(StoredEvents(i))
    <3>1. \A i \in S \cup {t} : i \in rows /\ issue[i].times \in Nat
      BY <1>t, <1>1 DEF TypeOK, IssueRow
    <3> QED
      BY <1>t, <1>2, <3>1 DEF CountsAlone
  <2> HIDE DEF S, t
  <2> QED
    BY <1>4, <2>1, <2>2, SumOfCounts
<1>12. CountsAlone'
  <2> SUFFICES ASSUME NEW i \in rows'
               PROVE  /\ issue'[i].users = Cardinality(DistinctUsers(i))'
                      /\ issue'[i].times >= Cardinality(StoredEvents(i))'
                      /\ horizon = 0 => issue'[i].times = Cardinality(StoredEvents(i))'
    BY <1>u DEF CountsAlone
  <2>1. CASE i = t
    <3>1. /\ Cardinality(DistinctUsers(i))' = mg.users
          /\ Cardinality(StoredEvents(i))' = Cardinality(EventsOf(S \cup {t}))
      BY <1>9, <1>10, <2>1 DEF DistinctUsers, StoredEvents
    <3> QED
      BY <1>4, <1>11, <2>1, <3>1
  <2>2. CASE i # t
    <3>1. i \in rows
      BY <1>3
    <3> QED
      BY <1>t, <1>4, <1>8, <2>2, <3>1 DEF CountsAlone
  <2> QED
    BY <2>1, <2>2
<1>13. MergeExact' /\ PurgeExact'
  <2>1. mg'.pc = "idle" /\ pg'.pc = "idle"
    BY <1>1, NoMergeType DEF MergeCommit
  <2> QED
    BY <2>1, MaintenanceResting DEF MaintenanceIdle
<1> QED
  BY <1>5, <1>6, <1>7, <1>12, <1>13 DEF Alone, Stored

LEMMA WorkerFailsAlone ==
  ASSUME MaintTInv, HashInv, Alone, NEW w \in Workers,
         CreateConflict(w) \/ DeadlockKillsWorker(w), ~raced'
  PROVE  Alone'
<1>r. /\ RaceNoted
      /\ (MaintenanceIdle /\ MaintenanceIdle') \/ (WorkersQuiet /\ WorkersQuiet')
  BY NoRace DEF CreateConflict, DeadlockKillsWorker
<1>t. /\ TInv /\ TypeOK /\ DeliveryInv /\ NewUserInv /\ Stored /\ MergeExact /\ PurgeExact
  BY DEF MaintTInv, TInv, Alone
<1>1. CASE CreateConflict(w)
  <2>1. /\ UNCHANGED <<dbVars, lockVars, deliveries, now, histVars, maintVars>>
        /\ Finish(w, "failed") /\ wk[w].pc = "taken"
    BY <1>1 DEF CreateConflict
  <2>2. DeliveryInv'
    BY <1>t, <2>1, MessageLeft DEF dbVars, histVars
  <2>3. NewUserInv'
    BY <1>t, <2>1, NoUserRecorded DEF Finish, IdleWorker, dbVars, lockVars, histVars
  <2>4. Stored'
    BY <1>t, <2>1, StoredKept DEF dbVars, histVars, maintVars
  <2>5. MergeExact' /\ PurgeExact'
    BY <1>t, <2>1, MaintenanceKept DEF dbVars, lockVars, maintVars
  <2> QED
    BY <1>r, <2>2, <2>3, <2>4, <2>5 DEF Alone
<1>2. CASE DeadlockKillsWorker(w)
  <2>1. mg.pc = "deleted" /\ wk[w].pc = "locked"
    BY <1>2 DEF DeadlockKillsWorker, Deadlocked
  <2> QED
    BY <1>r, <2>1 DEF MaintenanceIdle, WorkersQuiet, InTransaction
<1> QED
  BY <1>1, <1>2

LEMMA StepAloneInv ==
  MaintTInv /\ HashInv /\ AloneInv /\ [MaintNext]_allVars => AloneInv'
<1> SUFFICES ASSUME MaintTInv, HashInv, AloneInv, [MaintNext]_allVars, ~raced'
             PROVE  Alone'
  BY DEF AloneInv
<1>1. CASE StoreNext
  <2>1. Alone
    BY <1>1, NoRace DEF StoreNext, AloneInv
  <2> QED
    BY <1>1, <2>1, StoreNextAlone DEF HashInv
<1>2. CASE MaintenanceNext
  <2>1. RaceNoted /\ ~(MaintenanceIdle /\ MaintenanceIdle')
    <3>1. ASSUME NEW t \in rows, NEW S \in SUBSET rows, MergeRead(t, S)
          PROVE  RaceNoted /\ ~MaintenanceIdle'
      <4>1. RaceNoted /\ mg'.pc = "read"
        <5> DEFINE r == [i \in IssueIds |-> IF i \in S \cup {t} THEN issue[i] ELSE BlankIssue]
        <5>1. mg' = [NoMerge EXCEPT !.pc = "read", !.target = t, !.sources = S, !.read = r]
          BY <3>1, Zenon DEF MergeRead
        <5> HIDE DEF r
        <5> QED
          BY <3>1, <5>1, NoMergeType DEF MergeRead, Merge
      <4> QED
        BY <4>1 DEF MaintenanceIdle
    <3>2. ASSUME MergeStep
          PROVE  RaceNoted /\ ~MaintenanceIdle
      BY <3>2 DEF MergeStep, MergeReassign, MergeSeen, MergeUsers, MergeCascade, MergeDelete,
         MergeCommit, MergeFails, DeadlockKillsMerge, Deadlocked, MergeRollback, MaintenanceIdle
    <3>3. ASSUME NEW cutoff \in 1..now, PurgeEvents(cutoff)
          PROVE  RaceNoted /\ ~MaintenanceIdle'
      BY <3>3 DEF PurgeEvents, NoPurge, MaintenanceIdle
    <3>4. ASSUME PurgeStep
          PROVE  RaceNoted /\ ~MaintenanceIdle
      BY <3>4 DEF PurgeStep, PurgeList, PurgeCascade, PurgeDelete, MaintenanceIdle
    <3> QED
      BY <1>2, <3>1, <3>2, <3>3, <3>4 DEF MaintenanceNext
  <2>2. Alone /\ WorkersQuiet
    BY <2>1, NoRace DEF AloneInv
  <2>3. MergeFails \/ DeadlockKillsMerge => MergeRollback /\ mg.pc # "idle"
    BY DEF MergeFails, DeadlockKillsMerge, Deadlocked
  <2> QED
    BY <1>2, <2>2, <2>3, MergeStepsAlone, MergeCommitAlone, PurgeEventsAlone, PurgeStepsAlone,
       PurgeDeleteAlone
    DEF MaintenanceNext, MergeStep, PurgeStep
<1>3. ASSUME NEW w \in Workers, CreateConflict(w) \/ DeadlockKillsWorker(w)
      PROVE  Alone'
  <2>1. Alone
    BY <1>3, NoRace DEF CreateConflict, DeadlockKillsWorker, AloneInv
  <2> QED
    BY <1>3, <2>1, WorkerFailsAlone
<1>4. CASE UNCHANGED allVars
  <2>1. UNCHANGED <<dbVars, lockVars, wk, queue, deliveries, histVars, mg, pg, doomed, horizon, raced>>
    BY <1>4 DEF allVars, vars, maintVars
  <2>2. Alone
    BY <2>1 DEF AloneInv
  <2>3. DeliveryInv' /\ NewUserInv'
    BY <2>1, <2>2 DEF Alone, DeliveryInv, NewUserInv, dbVars, lockVars, histVars
  <2>4. Stored'
    BY <2>1, <2>2, StoredKept DEF Alone, dbVars, histVars
  <2>5. MergeExact' /\ PurgeExact'
    BY <2>1, <2>2, MaintenanceKept DEF Alone, dbVars, lockVars
  <2> QED
    BY <2>1, <2>2, <2>3, <2>4, <2>5 DEF Alone, MaintenanceIdle, WorkersQuiet, InTransaction
<1> QED
  BY <1>1, <1>2, <1>3, <1>4 DEF MaintNext

(* As long as no event is stored while a merge or a purge runs, merging    *)
(* sums the counters of any set of issues exactly, users_seen is the size  *)
(* of the union, and no event that retention has to keep is lost.          *)
THEOREM MaintenanceExactAlone == MaintSpec => []ExactAlone
<1>1. MaintSpec => [](MaintTInv /\ HashInv /\ AloneInv)
  BY InitMaintTInv, StepMaintTInv, InitHashInv, StepHashInv, InitAloneInv, StepAloneInv, PTL
  DEF MaintSpec
<1>2. AloneInv => ExactAlone
  <2> SUFFICES ASSUME AloneInv, ~raced
               PROVE  /\ UsersExact /\ EventsKept
                      /\ IF horizon = 0 THEN CountsExact
                         ELSE \A i \in rows : issue[i].times >= Cardinality(EventsOf({i}))
    BY DEF ExactAlone
  <2>1. EventsThere /\ CountsAlone
    BY DEF AloneInv, Alone, Stored
  <2>2. EventsKept
    BY <2>1 DEF EventsThere, EventsKept
  <2>3. \A i : EventsOf({i}) = StoredEvents(i)
    BY DEF EventsOf, StoredEvents
  <2> QED
    BY <2>1, <2>2, <2>3 DEF CountsAlone, UsersExact, CountsExact, DistinctUsers, StoredEvents
<1> QED
  BY <1>1, <1>2, PTL
=============================================================================
