------------------------------ MODULE Waterfall ------------------------------
(***************************************************************************)
(* The span tree of a transaction (SpanWaterfall.tsx): spans, linked to    *)
(* their parents by id, become a tree in chronological order, whose nodes  *)
(* the user collapses and expands.                                         *)
(***************************************************************************)
EXTENDS Naturals, Sequences, FiniteSets

CONSTANTS Ids,        \* of the spans of a trace; an id is given once
          Root,       \* rootSpanId, the span of the transaction itself
          Elsewhere,  \* a parent that is not among the spans
          Starts,     \* start_ms
          MaxSpans    \* bound: of a trace

ASSUME WaterfallAssumption == Starts \subseteq Nat /\ MaxSpans \in Nat

Span == [id : Ids, parent : Ids \cup {Root, Elsewhere}, start : Starts]

VARIABLES spans,      \* the sequence of spans the server sent
          collapsed   \* the ids of the collapsed nodes

wvars == <<spans, collapsed>>

(* A node is the place of its span in the sequence.  It hangs below the    *)
(* span that its own names, if that is in the sequence; all the others are *)
(* roots.                                                                  *)
HasParent(n) ==
  spans[n].parent # Root /\ \E p \in DOMAIN spans : spans[p].id = spans[n].parent

\* siblings as they come
unsorted(S) == [k \in 1..Cardinality(S) |-> CHOOSE n \in S : Cardinality({m \in S : m < n}) = k - 1]
\* siblings by start, each behind those that come before it
Earlier(m, n) == \/ spans[m].start < spans[n].start
                 \/ spans[m].start = spans[n].start /\ m < n
byStart(S) ==
  [k \in 1..Cardinality(S) |-> CHOOSE n \in S : Cardinality({m \in S : Earlier(m, n)}) = k - 1]

children(n) == byStart({c \in DOMAIN spans : HasParent(c) /\ spans[c].parent = spans[n].id})
roots == byStart({n \in DOMAIN spans : ~HasParent(n)})

(* What is drawn, from top to bottom: [span, depth].  No chain of spans is *)
(* longer than the sequence, which so gives the levels that may follow.    *)
InTurn(nodes, rows) ==
  LET upTo[k \in 0..Len(nodes)] == IF k = 0 THEN <<>> ELSE upTo[k - 1] \o rows[nodes[k]]
  IN  upTo[Len(nodes)]
walk ==
  LET below[levels \in 0..Len(spans)] ==
        [n \in DOMAIN spans |->
           IF levels = 0 THEN <<>>
           ELSE <<[span |-> n, depth |-> Len(spans) - levels]>> \o
                (IF spans[n].id \in collapsed THEN <<>> ELSE InTurn(children(n), below[levels - 1]))]
  IN  below[Len(spans)]
visible == InTurn(roots, walk)

(* A trace, in the order and with the parents it was recorded with.        *)
WaterfallInit ==
  /\ spans \in {t \in UNION {[1..n -> Span] : n \in 0..MaxSpans} :
                  \A i, j \in DOMAIN t : t[i].id = t[j].id => i = j}
  /\ collapsed = {}

\* The chevron of a row that has children.
toggle(id) ==
  /\ \E i \in DOMAIN visible : /\ spans[visible[i].span].id = id
                               /\ children(visible[i].span) # <<>>
  /\ collapsed' = IF id \in collapsed THEN collapsed \ {id} ELSE collapsed \cup {id}
  /\ UNCHANGED spans

WaterfallSpec == WaterfallInit /\ [][\E id \in Ids : toggle(id)]_wvars

-----------------------------------------------------------------------------
(* The nodes above a node, on the way to its root: what every set holds    *)
(* that has its parent and the parents of its members.  They are itself as *)
(* well when its parents go round in a circle.                             *)
Parents(S) == {p \in DOMAIN spans : \E n \in S : HasParent(n) /\ spans[n].parent = spans[p].id}
Above(n) == {p \in DOMAIN spans :
               \A S \in SUBSET DOMAIN spans : Parents({n} \cup S) \subseteq S => p \in S}

(* Every span is drawn once, unless one above it is collapsed (or it is    *)
(* above itself: spans in a circle, and those below, are left out); below  *)
(* its parent, indented by one, and siblings in the order they started.    *)
TreeDrawn ==
  LET rows   == visible
      At(n)  == {i \in DOMAIN rows : rows[i].span = n}
      Circle(n) == \E a \in {n} \cup Above(n) : a \in Above(a)
      Parent(i) == {k \in 1..(i - 1) : /\ rows[k].depth < rows[i].depth
                                       /\ \A l \in (k + 1)..(i - 1) :
                                            rows[l].depth >= rows[i].depth}
  IN  /\ \A n \in DOMAIN spans :
           IF Circle(n) \/ \E a \in Above(n) : spans[a].id \in collapsed
           THEN At(n) = {} ELSE \E i \in DOMAIN rows : At(n) = {i}
      /\ \A i \in DOMAIN rows :
           IF HasParent(rows[i].span)
           THEN \E k \in Parent(i) : /\ spans[rows[k].span].id = spans[rows[i].span].parent
                                     /\ rows[i].depth = rows[k].depth + 1
           ELSE rows[i].depth = 0
      /\ \A i, k \in DOMAIN rows :
           i < k /\ Parent(i) = Parent(k) /\ rows[i].depth = rows[k].depth
             => spans[rows[i].span].start <= spans[rows[k].span].start
==============================================================================
