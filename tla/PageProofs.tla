------------------------------ MODULE PageProofs ------------------------------
(***************************************************************************)
(* Proofs about what pages compute from data of any size: the tokens of a  *)
(* source text (Highlight), an event in all its places (EventView), the    *)
(* tree of the spans of a transaction (Waterfall), and the dates of two    *)
(* calendars (Calendar).  The first three are about recursive definitions; *)
(* what is shown of these first is shown of sets of numbers.               *)
(***************************************************************************)
EXTENDS Highlight, EventView, Waterfall, Calendar, FiniteSetTheorems, WellFoundedInduction, TLAPS

(***************************************************************************)
(* Numbers, and functions defined by recursion on them                     *)
(***************************************************************************)

LEMMA LeastIs == ASSUME NEW S \in SUBSET Nat, S # {} PROVE \E x \in S : \A y \in S : x <= y
<1>0. PICK R : R = OpToRel(<, Nat)
  OBVIOUS
<1>1. IsWellFoundedOn(R, Nat)
  BY <1>0, NatLessThanWellFounded
<1>2. \A x, y \in Nat : y < x => <<y, x>> \in R
  BY <1>0 DEF OpToRel
<1>3. PICK x \in S : \A y \in S : ~(<<y, x>> \in R)
  BY <1>1, WFMin
<1>4. ASSUME NEW y \in S PROVE x <= y
  <2>1. ~(y < x)
    BY <1>2, <1>3
  <2> QED BY <2>1
<1> QED BY <1>4

(* Induction on numbers, of the members of a set.                          *)
LEMMA Counted == ASSUME NEW S \in SUBSET Nat, 0 \in S, \A n \in S : n + 1 \in S PROVE \A n \in Nat : n \in S
<1> SUFFICES ASSUME Nat \ S # {} PROVE FALSE
  OBVIOUS
<1>1. PICK x \in Nat \ S : \A y \in Nat \ S : x <= y
  BY LeastIs
<1>2. x # 0
  OBVIOUS
<1>3. x - 1 \in Nat /\ ~(x <= x - 1)
  BY <1>2
<1>4. x - 1 \in S
  BY <1>1, <1>3
<1>5. (x - 1) + 1 \in S
  BY <1>4
<1> QED BY <1>3, <1>5

(* A function that is defined from its end backwards, each value by a      *)
(* later one, exists; so does one that is defined forwards, each value by  *)
(* the one before.                                                         *)
HasBackward(N, M, D, next, G, base) ==
  \E f \in [1..M -> D] : \A i \in 1..M : f[i] = IF i > N THEN base[i] ELSE G[i][f[next[i]]]
HasForward(N, D, first, G) ==
  \E f \in [0..N -> D] : f[0] = first /\ \A i \in 1..N : f[i] = G[i][f[i - 1]]

LEMMA DefinedBackward ==
  ASSUME NEW N \in Nat, NEW M \in Nat, N <= M, NEW D, NEW next \in [1..N -> 1..M],
         \A i \in 1..N : next[i] > i, NEW G \in [1..N -> [D -> D]], NEW base \in [1..M -> D]
  PROVE  HasBackward(N, M, D, next, G, base)
<1> DEFINE Right(f, i) == f[i] = IF i > N THEN base[i] ELSE G[i][f[next[i]]]
           S == {k \in Nat : \E f \in [1..M -> D] : \A i \in 1..M : i + k > N => Right(f, i)}
<1>1. 0 \in S
  <2>1. \A i \in 1..M : i + 0 > N => Right(base, i)
    OBVIOUS
  <2> QED BY <2>1
<1>2. ASSUME NEW k \in S PROVE k + 1 \in S
  <2>1. PICK f \in [1..M -> D] : \A i \in 1..M : i + k > N => Right(f, i)
    OBVIOUS
  <2>2. CASE k >= N
    <3>1. \A i \in 1..M : i + k > N
      BY <2>2
    <3>2. \A i \in 1..M : i + (k + 1) > N => Right(f, i)
      BY <2>1, <3>1
    <3> QED BY <3>2
  <2>3. CASE k < N
    <3>1. PICK z \in 1..N : z = N - k
      BY <2>3
    <3>2. z \in 1..M /\ next[z] \in 1..M /\ next[z] > z
      OBVIOUS
    <3>3. PICK d \in D : d = G[z][f[next[z]]]
      BY <3>2
    <3>4. PICK g : g = [f EXCEPT ![z] = d]
      OBVIOUS
    <3>5. g \in [1..M -> D] /\ g[z] = d /\ \A i \in 1..M : i # z => g[i] = f[i]
      BY <3>2, <3>4
    <3>6. ASSUME NEW i \in 1..M, i + (k + 1) > N PROVE Right(g, i)
      <4>1. CASE i = z
        <5>1. g[next[z]] = f[next[z]] /\ ~(z > N)
          BY <3>2, <3>5
        <5> QED BY <5>1, <4>1, <3>3, <3>5
      <4>2. CASE i # z
        <5>1. Right(f, i) /\ i > z
          BY <2>1, <3>1, <3>6, <4>2
        <5>2. CASE i > N
          BY <5>1, <5>2, <3>5, <4>2
        <5>3. CASE ~(i > N)
          <6>1. next[i] \in 1..M /\ next[i] > i
            BY <5>3
          <6>2. next[i] # z
            BY <6>1, <5>1
          <6> QED BY <6>1, <6>2, <5>1, <5>3, <3>5, <4>2
        <5> QED BY <5>2, <5>3
      <4> QED BY <4>1, <4>2
    <3> HIDE DEF Right
    <3>7. \A i \in 1..M : i + (k + 1) > N => Right(g, i)
      BY <3>6
    <3>8. g \in [1..M -> D]
      BY <3>5
    <3>9. \E h \in [1..M -> D] : \A i \in 1..M : i + (k + 1) > N => Right(h, i)
      BY <3>7, <3>8
    <3>10. k + 1 \in Nat
      OBVIOUS
    <3> QED BY <3>9, <3>10
  <2>4. k \in Nat
    OBVIOUS
  <2> HIDE DEF S
  <2> QED BY <2>2, <2>3, <2>4
<1>3. N \in S
  <2> HIDE DEF S
  <2>1. S \in SUBSET Nat
    BY DEF S
  <2> QED BY <1>1, <1>2, <2>1, Counted
<1>4. PICK f \in [1..M -> D] : \A i \in 1..M : i + N > N => Right(f, i)
  BY <1>3
<1>5. \A i \in 1..M : i + N > N
  OBVIOUS
<1> QED BY <1>4, <1>5 DEF HasBackward

LEMMA DefinedForward ==
  ASSUME NEW N \in Nat, NEW D, NEW first \in D, NEW G \in [1..N -> [D -> D]]
  PROVE  HasForward(N, D, first, G)
<1> DEFINE Right(f, i) == f[i] = IF i = 0 THEN first ELSE G[i][f[i - 1]]
           S == {k \in Nat : \E f \in [0..N -> D] : \A i \in 0..N : i <= k => Right(f, i)}
<1>1. 0 \in S
  <2>1. PICK f : f = [i \in 0..N |-> first]
    OBVIOUS
  <2>2. f \in [0..N -> D] /\ \A i \in 0..N : i <= 0 => Right(f, i)
    BY <2>1
  <2> QED BY <2>2
<1>2. ASSUME NEW k \in S PROVE k + 1 \in S
  <2>1. PICK f \in [0..N -> D] : \A i \in 0..N : i <= k => Right(f, i)
    OBVIOUS
  <2>2. CASE k >= N
    <3>1. \A i \in 0..N : i <= k + 1 => Right(f, i)
      BY <2>1, <2>2
    <3> QED BY <3>1
  <2>3. CASE k < N
    <3>1. PICK z \in 1..N : z = k + 1
      BY <2>3
    <3>2. z \in 0..N /\ z - 1 \in 0..N /\ z - 1 # z /\ z # 0
      OBVIOUS
    <3>3. PICK d \in D : d = G[z][f[z - 1]]
      BY <3>2
    <3>4. PICK g : g = [f EXCEPT ![z] = d]
      OBVIOUS
    <3>5. g \in [0..N -> D] /\ g[z] = d /\ \A i \in 0..N : i # z => g[i] = f[i]
      BY <3>2, <3>4
    <3>6. ASSUME NEW i \in 0..N, i <= k + 1 PROVE Right(g, i)
      <4>1. CASE i = z
        BY <4>1, <3>2, <3>3, <3>5
      <4>2. CASE i # z
        <5>1. Right(f, i) /\ i < z
          BY <2>1, <3>1, <3>6, <4>2
        <5>2. CASE i = 0
          BY <5>1, <5>2, <3>5, <4>2
        <5>3. CASE i # 0
          <6>1. i - 1 \in 0..N /\ i - 1 # z
            BY <5>1, <5>3
          <6> QED BY <6>1, <5>1, <5>3, <3>5, <4>2
        <5> QED BY <5>2, <5>3
      <4> QED BY <4>1, <4>2
    <3> QED BY <3>5, <3>6
  <2> QED BY <2>2, <2>3
<1>3. N \in S
  <2> HIDE DEF S
  <2>1. S \in SUBSET Nat
    BY DEF S
  <2> QED BY <1>1, <1>2, <2>1, Counted
<1>4. PICK f \in [0..N -> D] : \A i \in 0..N : i <= N => Right(f, i)
  BY <1>3
<1>5. f[0] = first
  BY <1>4
<1>6. \A i \in 1..N : f[i] = G[i][f[i - 1]]
  <2> TAKE i \in 1..N
  <2>1. i \in 0..N /\ i <= N /\ i # 0
    OBVIOUS
  <2> QED BY <2>1, <1>4
<1> QED BY <1>5, <1>6 DEF HasForward

(***************************************************************************)
(* The highlighter                                                         *)
(***************************************************************************)

Text == code \in Seq(Characters)
Modes == {"code", "open", "block", "close", "line", "string", "escape"}
Readers == [mode : Modes, quote : Quotes \cup {"none"}, class : {"comment", "string", "other"}]
Types == {"plain", "comment", "string", "number", "function", "punctuation"}
Tokens == [first : Nat, last : Nat, type : Types]

LEMMA AtIs ==
  ASSUME Text
  PROVE  /\ Len(code) \in Nat
         /\ \A i \in 1..Len(code) : At(i) = code[i] /\ code[i] \in Characters /\ code[i] # "end"
         /\ \A i \in Nat \ (1..Len(code)) : At(i) = "end"
BY HighlightAssumption DEF Text, At

LEMMA StartsWithTwo ==
  ASSUME NEW a, NEW b, NEW i \in Nat
  PROVE  StartsWith(<<a, b>>, i) <=> At(i) = a /\ At(i + 1) = b
<1>1. Len(<<a, b>>) = 2 /\ <<a, b>>[1] = a /\ <<a, b>>[2] = b
  OBVIOUS
<1>2. \A k \in 1..2 : k = 1 \/ k = 2
  OBVIOUS
<1>3. StartsWith(<<a, b>>, i) <=> \A k \in 1..2 : At(i + k - 1) = <<a, b>>[k]
  BY <1>1 DEF StartsWith
<1>4. i + 1 - 1 = i /\ i + 2 - 1 = i + 1
  OBVIOUS
<1> HIDE DEF At
<1> QED BY <1>1, <1>2, <1>3, <1>4

LEMMA StartsWithOne ==
  ASSUME NEW a, NEW i \in Nat
  PROVE  StartsWith(<<a>>, i) <=> At(i) = a
<1>1. Len(<<a>>) = 1 /\ <<a>>[1] = a /\ i + 1 - 1 = i
  OBVIOUS
<1>2. \A k \in 1..1 : k = 1
  OBVIOUS
<1>3. 1 \in 1..1
  OBVIOUS
<1>4. StartsWith(<<a>>, i) <=> \A k \in 1..1 : At(i + k - 1) = <<a>>[k]
  BY <1>1 DEF StartsWith
<1> HIDE DEF At
<1> QED BY <1>1, <1>2, <1>3, <1>4

LEMMA LineStarts ==
  ASSUME NEW i \in Nat
  PROVE  StartsWith(lineComment, i) => /\ At(i) \in {"-", "#", "/"}
                                       /\ At(i) = "/" => At(i + 1) = "/"
<1>1. lineComment \in {<<"-", "-">>, <<"#">>, <<"/", "/">>}
  BY DEF lineComment
<1>2. CASE lineComment = <<"-", "-">>
  BY <1>2, StartsWithTwo
<1>3. CASE lineComment = <<"#">>
  BY <1>3, StartsWithOne
<1>4. CASE lineComment = <<"/", "/">>
  BY <1>4, StartsWithTwo
<1> QED BY <1>1, <1>2, <1>3, <1>4

LEMMA StretchIs ==
  ASSUME Text, NEW i \in 1..Len(code), NEW class, "end" \notin class
  PROVE  /\ Stretch(i, class) \in i..Len(code)
         /\ \A k \in (i + 1)..Stretch(i, class) : code[k] \in class
         /\ At(Stretch(i, class) + 1) \notin class
<1> DEFINE Ends == {m \in Nat : m > i /\ m <= Len(code) + 1 /\ At(m) \notin class}
<1>1. Len(code) \in Nat /\ i \in Nat /\ i <= Len(code)
  BY AtIs
<1>2. Len(code) + 1 \in Ends
  BY <1>1, AtIs
<1>3. PICK m \in Ends : \A y \in Ends : m <= y
  BY <1>2, LeastIs
<1>4. PICK j \in i..Len(code) : m = j + 1
  <2>1. m - 1 \in i..Len(code) /\ m = (m - 1) + 1
    BY <1>1
  <2> QED BY <2>1
<1>5. ASSUME NEW k \in (i + 1)..j PROVE code[k] \in class
  <2>1. k \in 1..Len(code) /\ k \in Nat /\ k > i /\ k <= Len(code) + 1 /\ ~(m <= k)
    BY <1>1, <1>4
  <2>2. At(k) \in class
    BY <2>1, <1>3
  <2> QED BY <2>1, <2>2, AtIs
<1>6. At(j + 1) \notin class
  BY <1>4
<1>7. \E x \in i..Len(code) : /\ \A k \in (i + 1)..x : code[k] \in class
                             /\ At(x + 1) \notin class
  BY <1>5, <1>6
<1> QED BY <1>7 DEF Stretch

LEMMA IndexIs ==
  ASSUME Text, NEW text, NEW i \in Nat
  PROVE  \/ IndexOf(text, i) = 0 /\ \A l \in i..Len(code) : ~StartsWith(text, l)
         \/ /\ IndexOf(text, i) \in i..Len(code) /\ StartsWith(text, IndexOf(text, i))
            /\ \A l \in i..(IndexOf(text, i) - 1) : ~StartsWith(text, l)
<1> DEFINE found == {k \in i..Len(code) : StartsWith(text, k)}
<1>1. IndexOf(text, i) = IF found = {} THEN 0 ELSE CHOOSE k \in found : \A l \in found : k <= l
  BY DEF IndexOf
<1>2. CASE found = {}
  BY <1>1, <1>2
<1>3. CASE found # {}
  <2>1. found \in SUBSET Nat
    BY AtIs
  <2>2. \E k \in found : \A l \in found : k <= l
    BY <2>1, <1>3, LeastIs
  <2>3. PICK k \in found : k = IndexOf(text, i) /\ \A l \in found : k <= l
    BY <2>2, <1>1, <1>3
  <2>4. ASSUME NEW l \in i..(k - 1) PROVE ~StartsWith(text, l)
    <3>1. l \in i..Len(code) /\ ~(k <= l)
      BY AtIs
    <3> QED BY <3>1, <2>3
  <2> QED BY <2>3, <2>4
<1> QED BY <1>2, <1>3

(* What the recursive definitions define.                                  *)
LEMMA ReadType == ASSUME NEW r \in Readers, NEW i PROVE Read(r, i) \in Readers /\ ReadInCode(i) \in Readers
<1>1. ReadInCode(i) \in Readers
  BY DEF ReadInCode, Reader, InCode, Readers, Modes, Quotes
<1>2. r.mode \in Modes /\ r.quote \in Quotes \cup {"none"}
  BY DEF Readers
<1>3. CASE r.mode = "code"
  BY <1>1, <1>3 DEF Read
<1>4. CASE r.mode = "open"
  BY <1>1, <1>4 DEF Read, Reader, Readers, Modes
<1>5. CASE r.mode = "block"
  BY <1>1, <1>5 DEF Read, Reader, Readers, Modes
<1>6. CASE r.mode = "close"
  BY <1>1, <1>6 DEF Read, Reader, Readers, Modes
<1>7. CASE r.mode = "line"
  BY <1>1, <1>7 DEF Read, Reader, InCode, Readers, Modes
<1>8. CASE r.mode = "string"
  <2>1. Read(r, i) = Reader(CASE code[i] = "backslash" -> "escape" [] code[i] = r.quote -> "code"
                              [] OTHER -> "string", r.quote, "string")
    BY <1>8 DEF Read
  <2>2. PICK m : m = CASE code[i] = "backslash" -> "escape" [] code[i] = r.quote -> "code"
                       [] OTHER -> "string"
    OBVIOUS
  <2>3. m \in Modes
    BY <2>2 DEF Modes
  <2> QED BY <1>1, <1>2, <2>1, <2>2, <2>3 DEF Reader, Readers
<1>9. CASE r.mode = "escape"
  BY <1>1, <1>2, <1>9 DEF Read, Reader, Readers, Modes
<1> QED BY <1>2, <1>3, <1>4, <1>5, <1>6, <1>7, <1>8, <1>9 DEF Modes

LEMMA ReadingIs ==
  ASSUME Text
  PROVE  /\ \A i \in 0..Len(code) : reading[i] \in Readers
         /\ reading[0] = InCode
         /\ \A i \in 1..Len(code) : reading[i] = Read(reading[i - 1], i)
<1>0. Len(code) \in Nat /\ InCode \in Readers
  BY AtIs DEF InCode, Reader, Readers, Modes
<1>1. PICK G : G = [i \in 1..Len(code) |-> [r \in Readers |-> Read(r, i)]]
  OBVIOUS
<1>2. G \in [1..Len(code) -> [Readers -> Readers]]
  BY <1>1, ReadType
<1>2a. HasForward(Len(code), Readers, InCode, G)
  BY <1>0, <1>2, DefinedForward
<1>3. PICK f \in [0..Len(code) -> Readers] :
        f[0] = InCode /\ \A i \in 1..Len(code) : f[i] = G[i][f[i - 1]]
  BY <1>2a DEF HasForward
<1>4. ASSUME NEW i \in 1..Len(code) PROVE f[i] = Read(f[i - 1], i)
  <2>1. i - 1 \in 0..Len(code)
    BY <1>0
  <2> QED BY <2>1, <1>1, <1>3
<1>5. f = [i \in 0..Len(code) |-> IF i = 0 THEN InCode ELSE Read(f[i - 1], i)]
  <2>1. ASSUME NEW i \in 0..Len(code) PROVE f[i] = IF i = 0 THEN InCode ELSE Read(f[i - 1], i)
    <3>1. CASE i = 0
      BY <3>1, <1>3
    <3>2. CASE i # 0
      BY <3>2, <1>4, <1>0
    <3> QED BY <3>1, <3>2
  <2> QED BY <2>1
<1>6. reading = [i \in 0..Len(code) |-> IF i = 0 THEN InCode ELSE Read(reading[i - 1], i)]
  BY <1>5, Zenon DEF reading
<1>7. ASSUME NEW i \in 0..Len(code) PROVE reading[i] = IF i = 0 THEN InCode ELSE Read(reading[i - 1], i)
  BY <1>6
<1>8. reading[0] = InCode
  BY <1>7, <1>0
<1>9. ASSUME NEW i \in 1..Len(code) PROVE reading[i] = Read(reading[i - 1], i)
  BY <1>7, <1>0
<1>10. \A i \in 0..Len(code) : reading[i] \in Readers
  <2> DEFINE S == {n \in Nat : n <= Len(code) => reading[n] \in Readers}
  <2>1. 0 \in S
    BY <1>8, <1>0
  <2>2. ASSUME NEW n \in S PROVE n + 1 \in S
    <3>1. CASE n + 1 <= Len(code)
      <4>1. n + 1 \in 1..Len(code) /\ n <= Len(code) /\ (n + 1) - 1 = n
        BY <3>1, <1>0
      <4>2. reading[n] \in Readers
        BY <4>1
      <4>3. reading[n + 1] = Read(reading[n], n + 1)
        BY <4>1, <1>9
      <4> QED BY <4>2, <4>3, ReadType
    <3>2. CASE ~(n + 1 <= Len(code))
      BY <3>2
    <3> QED BY <3>1, <3>2
  <2>3. S \in SUBSET Nat
    OBVIOUS
  <2> HIDE DEF S
  <2>4. \A n \in Nat : n \in S
    BY <2>1, <2>2, <2>3, Counted
  <2> QED BY <2>4, <1>0 DEF S
<1> QED BY <1>8, <1>9, <1>10

LEMMA ClosingIs ==
  ASSUME Text, NEW q
  PROVE  \A j \in 1..(Len(code) + 2) :
           Closing(q)[j] = IF j > Len(code) THEN Len(code)
                           ELSE IF code[j] = "backslash" THEN Closing(q)[j + 2]
                           ELSE IF code[j] = q THEN j ELSE Closing(q)[j + 1]
<1> DEFINE N == Len(code)
           M == Len(code) + 2
<1>0. N \in Nat /\ M \in Nat /\ N <= M
  BY AtIs
<1>1. PICK next : next = [j \in 1..N |-> IF code[j] = "backslash" THEN j + 2 ELSE j + 1]
  OBVIOUS
<1>2. PICK G : G = [j \in 1..N |-> [d \in Nat |->
                     IF code[j] = "backslash" THEN d ELSE IF code[j] = q THEN j ELSE d]]
  OBVIOUS
<1>3. PICK base : base = [j \in 1..M |-> N]
  OBVIOUS
<1>4. next \in [1..N -> 1..M] /\ G \in [1..N -> [Nat -> Nat]] /\ base \in [1..M -> Nat]
  <2>1. next \in [1..N -> 1..M]
    BY <1>0, <1>1
  <2>2. G \in [1..N -> [Nat -> Nat]]
    BY <1>0, <1>2
  <2>3. base \in [1..M -> Nat]
    BY <1>0, <1>3
  <2> QED BY <2>1, <2>2, <2>3
<1>5. \A j \in 1..N : next[j] > j
  BY <1>0, <1>1
<1>6. PICK f \in [1..M -> Nat] : \A j \in 1..M : f[j] = IF j > N THEN base[j] ELSE G[j][f[next[j]]]
  <2> HIDE DEF N, M
  <2>1. HasBackward(N, M, Nat, next, G, base)
    BY <1>0, <1>4, <1>5, DefinedBackward
  <2> QED BY <2>1 DEF HasBackward
<1>7. ASSUME NEW j \in 1..M
      PROVE  f[j] = IF j > N THEN N ELSE IF code[j] = "backslash" THEN f[j + 2]
                    ELSE IF code[j] = q THEN j ELSE f[j + 1]
  <2>1. CASE j > N
    BY <2>1, <1>3, <1>6
  <2>2. CASE ~(j > N)
    <3>1. j \in 1..N
      BY <2>2, <1>0
    <3>1a. next[j] \in 1..M
      <4> HIDE DEF N, M
      <4> QED BY <3>1, <1>4
    <3>2. f[next[j]] \in Nat
      BY <3>1a, <1>6
    <3>3. G[j][f[next[j]]] = IF code[j] = "backslash" THEN f[next[j]] ELSE IF code[j] = q THEN j ELSE f[next[j]]
      BY <3>1, <3>2, <1>2
    <3>4. next[j] = IF code[j] = "backslash" THEN j + 2 ELSE j + 1
      BY <3>1, <1>1
    <3> HIDE DEF N
    <3> QED BY <2>2, <3>3, <3>4, <1>6
  <2> QED BY <2>1, <2>2
<1>8. f = [j \in 1..(Len(code) + 2) |->
             IF j > Len(code) THEN Len(code)
             ELSE IF code[j] = "backslash" THEN f[j + 2]
             ELSE IF code[j] = q THEN j ELSE f[j + 1]]
  BY <1>7
<1>9. Closing(q) = [j \in 1..(Len(code) + 2) |->
             IF j > Len(code) THEN Len(code)
             ELSE IF code[j] = "backslash" THEN Closing(q)[j + 2]
             ELSE IF code[j] = q THEN j ELSE Closing(q)[j + 1]]
  BY <1>8, Zenon DEF Closing
<1> HIDE DEF N, M
<1> QED BY <1>9

-----------------------------------------------------------------------------
(* A token that begins at place i fits: if the reader is in code before i, *)
(* it reads the token as one of its class and is in code after it.         *)
Fits(t, i) ==
  /\ t \in Tokens /\ t.first = i /\ t.last \in i..Len(code)
  /\ reading[i] = ReadInCode(i) =>
       /\ \A k \in i..t.last : reading[k].class = ClassOf(t.type)
       /\ t.last < Len(code) => reading[t.last + 1] = ReadInCode(t.last + 1)

LEMMA TokenFits ==
  ASSUME Text, NEW i \in 1..Len(code), NEW j \in i..Len(code), NEW type \in Types,
         reading[i] = ReadInCode(i) =>
           /\ \A k \in i..j : reading[k].class = ClassOf(type)
           /\ j < Len(code) => reading[j + 1] = ReadInCode(j + 1)
  PROVE  Fits(Token(i, j, type), i)
<1>1. i \in Nat /\ j \in Nat
  BY AtIs
<1>2. Token(i, j, type) \in Tokens /\ Token(i, j, type).first = i
      /\ Token(i, j, type).last = j /\ Token(i, j, type).type = type
  BY <1>1 DEF Token, Tokens
<1> QED BY <1>2 DEF Fits

LEMMA ReadsOn ==
  ASSUME Text, NEW i \in 1..Len(code), NEW j \in i..Len(code), NEW r,
         reading[i] = r, \A k \in (i + 1)..j : Read(r, k) = r
  PROVE  \A k \in i..j : reading[k] = r
<1> DEFINE S == {n \in Nat : i + n <= j => reading[i + n] = r}
<1>0. Len(code) \in Nat /\ i \in Nat /\ j \in Nat
  BY AtIs
<1>1. 0 \in S
  BY <1>0
<1>2. ASSUME NEW n \in S PROVE n + 1 \in S
  <2>1. ASSUME i + (n + 1) <= j PROVE reading[i + (n + 1)] = r
    <3>1. /\ i + n <= j /\ i + (n + 1) \in (i + 1)..j /\ i + (n + 1) \in 1..Len(code)
          /\ (i + (n + 1)) - 1 = i + n
      BY <1>0, <2>1
    <3>2. reading[i + n] = r
      BY <3>1
    <3>3. reading[i + (n + 1)] = Read(reading[i + n], i + (n + 1))
      BY <3>1, ReadingIs
    <3> QED BY <3>1, <3>2, <3>3
  <2> QED BY <2>1
<1>3. S \in SUBSET Nat
  OBVIOUS
<1>4. ASSUME NEW k \in i..j PROVE reading[k] = r
  <2> HIDE DEF S
  <2>1. k - i \in Nat /\ i + (k - i) = k /\ k <= j
    BY <1>0
  <2>2. k - i \in S
    BY <1>1, <1>2, <1>3, <2>1, Counted
  <2> QED BY <2>1, <2>2 DEF S
<1> QED BY <1>4

(* Characters at which nothing but code begins.                            *)
Ordinary == {" ", "newline", "a", "x", "backslash", ":", "("}

LEMMA OrdinaryIs ==
  ASSUME Text, NEW i \in 1..Len(code), code[i] \in Ordinary
  PROVE  ReadInCode(i) = InCode /\ Read(InCode, i) = InCode
<1>1. At(i) = code[i] /\ i \in Nat
  BY AtIs
<1>2. ~StartsWith(<<"/", "*">>, i) /\ ~StartsWith(lineComment, i) /\ code[i] \notin Quotes
  BY <1>1, StartsWithTwo, LineStarts DEF Ordinary, Quotes
<1>3. ReadInCode(i) = InCode
  BY <1>2 DEF ReadInCode
<1>4. InCode.mode = "code"
  BY DEF InCode, Reader
<1> QED BY <1>3, <1>4 DEF Read

\* From code on, the reader reads as in code.
LEMMA OnFromCode ==
  ASSUME Text, NEW i \in 1..Len(code), reading[i].mode = "code", i < Len(code)
  PROVE  reading[i + 1] = ReadInCode(i + 1)
<1>1. i + 1 \in 1..Len(code) /\ (i + 1) - 1 = i
  BY AtIs
<1>2. reading[i + 1] = Read(reading[i], i + 1)
  BY <1>1, ReadingIs
<1> QED BY <1>2 DEF Read

LEMMA OthersClass == \A type \in Types : type \notin {"comment", "string"} => ClassOf(type) = InCode.class
BY DEF Types, ClassOf, InCode, Reader

LEMMA StretchFits ==
  ASSUME Text, NEW i \in 1..Len(code), NEW class \in SUBSET Ordinary, code[i] \in Ordinary,
         NEW type \in Types, type \notin {"comment", "string"}
  PROVE  Fits(Token(i, Stretch(i, class), type), i)
<1>1. "end" \notin class
  BY DEF Ordinary
<1>2. PICK j : j = Stretch(i, class)
  OBVIOUS
<1>3. j \in i..Len(code) /\ j \in 1..Len(code) /\ \A k \in (i + 1)..j : code[k] \in Ordinary /\ k \in 1..Len(code)
  BY <1>1, <1>2, StretchIs, AtIs
<1>4. ASSUME reading[i] = ReadInCode(i)
      PROVE  /\ \A k \in i..j : reading[k].class = ClassOf(type)
             /\ j < Len(code) => reading[j + 1] = ReadInCode(j + 1)
  <2>1. reading[i] = InCode
    BY <1>4, OrdinaryIs
  <2>2. \A k \in (i + 1)..j : Read(InCode, k) = InCode
    BY <1>3, OrdinaryIs
  <2>3. \A k \in i..j : reading[k] = InCode
    BY <1>3, <2>1, <2>2, ReadsOn
  <2>4. j \in i..j /\ InCode.mode = "code"
    BY <1>3, AtIs DEF InCode, Reader
  <2> QED BY <1>3, <2>3, <2>4, OnFromCode, OthersClass
<1> QED BY <1>2, <1>3, <1>4, TokenFits

LEMMA SingleFits ==
  ASSUME Text, NEW i \in 1..Len(code), ReadInCode(i) = InCode,
         NEW type \in Types, type \notin {"comment", "string"}
  PROVE  Fits(Token(i, i, type), i)
<1>1. i \in i..Len(code) /\ \A k \in i..i : k = i
  BY AtIs
<1>2. ASSUME reading[i] = ReadInCode(i)
      PROVE  /\ \A k \in i..i : reading[k].class = ClassOf(type)
             /\ i < Len(code) => reading[i + 1] = ReadInCode(i + 1)
  <2>1. InCode.mode = "code"
    BY DEF InCode, Reader
  <2> QED BY <1>1, <1>2, <2>1, OnFromCode, OthersClass
<1> QED BY <1>1, <1>2, TokenFits

LEMMA LineFits ==
  ASSUME Text, NEW i \in 1..Len(code), StartsWith(lineComment, i), ~(lang # "sql" /\ StartsWith(<<"/", "*">>, i))
  PROVE  Fits(Token(i, Stretch(i, Characters \ {"newline"}), "comment"), i)
<1>0. PICK class : class = Characters \ {"newline"}
  OBVIOUS
<1>1. "end" \notin class
  BY <1>0, HighlightAssumption
<1>2. PICK j : j = Stretch(i, class)
  OBVIOUS
<1>3. /\ j \in i..Len(code) /\ j \in 1..Len(code)
      /\ \A k \in (i + 1)..j : code[k] \in class /\ k \in 1..Len(code)
      /\ At(j + 1) \notin class
  <2>1. /\ j \in i..Len(code) /\ At(j + 1) \notin class
        /\ \A k \in (i + 1)..j : code[k] \in class
    BY <1>1, <1>2, StretchIs
  <2>2. j \in 1..Len(code) /\ \A k \in (i + 1)..j : k \in 1..Len(code)
    BY <2>1, AtIs
  <2> QED BY <2>1, <2>2
<1>4. PICK r : r = Reader("line", "none", "comment")
  OBVIOUS
<1>5. r.mode = "line" /\ r.class = "comment" /\ "comment" \in Types /\ ClassOf("comment") = "comment"
  BY <1>4 DEF Reader, Types, ClassOf
<1>6. ReadInCode(i) = r
  <2>1. code[i] \notin Quotes
    BY AtIs, LineStarts DEF Quotes
  <2> QED BY <2>1, <1>4 DEF ReadInCode
<1>7. ASSUME reading[i] = ReadInCode(i)
      PROVE  /\ \A k \in i..j : reading[k].class = ClassOf("comment")
             /\ j < Len(code) => reading[j + 1] = ReadInCode(j + 1)
  <2>1. \A k \in (i + 1)..j : Read(r, k) = r
    BY <1>0, <1>3, <1>5 DEF Read
  <2>2. \A k \in i..j : reading[k] = r
    BY <1>3, <1>6, <1>7, <2>1, ReadsOn
  <2>3. ASSUME j < Len(code) PROVE reading[j + 1] = ReadInCode(j + 1)
    <3>1. j + 1 \in 1..Len(code) /\ (j + 1) - 1 = j /\ j \in i..j
      BY <1>3, <2>3, AtIs
    <3>2. code[j + 1] = "newline"
      BY <3>1, <1>0, <1>3, AtIs
    <3>3. reading[j + 1] = Read(r, j + 1)
      BY <3>1, <2>2, ReadingIs
    <3>4. Read(r, j + 1) = InCode
      BY <3>2, <1>5 DEF Read
    <3>5. code[j + 1] \in Ordinary
      BY <3>2 DEF Ordinary
    <3> QED BY <3>1, <3>3, <3>4, <3>5, OrdinaryIs
  <2> QED BY <2>2, <2>3, <1>5
<1> QED BY <1>0, <1>2, <1>3, <1>5, <1>7, TokenFits

LEMMA BlockFits ==
  ASSUME Text, NEW i \in 1..Len(code), lang # "sql", StartsWith(<<"/", "*">>, i), NEW j,
         j = IF IndexOf(<<"*", "/">>, i + 2) = 0 THEN Len(code) ELSE IndexOf(<<"*", "/">>, i + 2) + 1
  PROVE  Fits(Token(i, j, "comment"), i)
<1>1. PICK opener, block, close : /\ opener = Reader("open", "none", "comment")
                                  /\ block = Reader("block", "none", "comment")
                                  /\ close = Reader("close", "none", "comment")
  OBVIOUS
<1>2. /\ opener.mode = "open" /\ block.mode = "block" /\ close.mode = "close"
      /\ opener.class = "comment" /\ block.class = "comment" /\ close.class = "comment"
      /\ "comment" \in Types /\ ClassOf("comment") = "comment"
  BY <1>1 DEF Reader, Types, ClassOf
<1>3. PICK e : e = IndexOf(<<"*", "/">>, i + 2)
  OBVIOUS
<1>4. Len(code) \in Nat /\ i \in Nat /\ i + 1 \in 1..Len(code) /\ (i + 1) - 1 = i
  <2>1. At(i + 1) = "*" /\ i \in Nat /\ Len(code) \in Nat
    BY StartsWithTwo, AtIs
  <2>2. At(i + 1) # "end"
    BY <2>1
  <2> QED BY <2>1, <2>2, AtIs
<1>5. ReadInCode(i) = opener
  <2>1. At(i) = "/" /\ At(i + 1) = "*" /\ code[i] = "/"
    BY <1>4, StartsWithTwo, AtIs
  <2>2. ~StartsWith(lineComment, i) /\ code[i] \notin Quotes
    BY <1>4, <2>1, LineStarts DEF Quotes
  <2> QED BY <1>1, <2>2 DEF ReadInCode
<1>6. /\ \A k \in 1..Len(code) : Read(opener, k) = block
      /\ \A k \in 1..Len(code) : Read(block, k) = IF StartsWith(<<"*", "/">>, k) THEN close ELSE block
      /\ \A k \in 1..Len(code) : Read(close, k).mode = "code" /\ Read(close, k).class = "comment"
  <2>1. \A k \in 1..Len(code) : Read(opener, k) = block
    BY <1>1, <1>2 DEF Read
  <2>2. \A k \in 1..Len(code) : Read(block, k) = IF StartsWith(<<"*", "/">>, k) THEN close ELSE block
    BY <1>1, <1>2 DEF Read
  <2>3. \A k \in 1..Len(code) : Read(close, k).mode = "code" /\ Read(close, k).class = "comment"
    BY <1>2 DEF Read, Reader
  <2> QED BY <2>1, <2>2, <2>3
<1>7. \/ e = 0 /\ \A l \in (i + 2)..Len(code) : ~StartsWith(<<"*", "/">>, l)
      \/ /\ e \in (i + 2)..Len(code) /\ StartsWith(<<"*", "/">>, e)
         /\ \A l \in (i + 2)..(e - 1) : ~StartsWith(<<"*", "/">>, l)
  <2>1. i + 2 \in Nat
    BY <1>4
  <2> QED BY <1>3, <2>1, IndexIs
<1>8. ASSUME reading[i] = ReadInCode(i) PROVE reading[i] = opener /\ reading[i + 1] = block
  <2>1. reading[i + 1] = Read(reading[i], i + 1)
    BY <1>4, ReadingIs
  <2> QED BY <1>4, <1>5, <1>6, <1>8, <2>1
<1>9. CASE e = 0
  <2>0. j = Len(code) /\ \A l \in (i + 2)..Len(code) : ~StartsWith(<<"*", "/">>, l)
    BY <1>3, <1>4, <1>7, <1>9
  <2>1. ASSUME reading[i] = ReadInCode(i) PROVE \A k \in i..Len(code) : reading[k].class = "comment"
    <3>1. Len(code) \in (i + 1)..Len(code) /\ \A k \in ((i + 1) + 1)..Len(code) : k \in (i + 2)..Len(code) /\ k \in 1..Len(code)
      BY <1>4
    <3>2. \A k \in ((i + 1) + 1)..Len(code) : Read(block, k) = block
      BY <3>1, <2>0, <1>6
    <3>3. \A k \in (i + 1)..Len(code) : reading[k] = block
      BY <1>4, <1>8, <2>1, <3>1, <3>2, ReadsOn
    <3>4. \A k \in i..Len(code) : k = i \/ k \in (i + 1)..Len(code)
      BY <1>4
    <3> QED BY <1>2, <1>8, <2>1, <3>3, <3>4
  <2>2. Len(code) \in i..Len(code) /\ ~(Len(code) < Len(code))
    BY <1>4
  <2> QED BY <1>2, <2>0, <2>1, <2>2, TokenFits
<1>10. CASE e # 0
  <2>0. /\ j = e + 1 /\ e \in (i + 2)..Len(code) /\ StartsWith(<<"*", "/">>, e)
        /\ \A l \in (i + 2)..(e - 1) : ~StartsWith(<<"*", "/">>, l)
    BY <1>3, <1>7, <1>10
  <2>1. /\ e \in 1..Len(code) /\ e - 1 \in (i + 1)..Len(code) /\ e - 1 \in 0..Len(code)
        /\ j \in i..Len(code) /\ j \in 1..Len(code) /\ j - 1 = e
    <3>1. At(e + 1) = "/" /\ e \in Nat
      BY <2>0, <1>4, StartsWithTwo
    <3>2. At(e + 1) # "end"
      BY <3>1
    <3>3. e + 1 \in 1..Len(code)
      BY <3>1, <3>2, AtIs
    <3> QED BY <3>3, <2>0, <1>4
  <2>2. ASSUME reading[i] = ReadInCode(i)
        PROVE  /\ \A k \in i..j : reading[k].class = "comment"
               /\ reading[j].mode = "code"
    <3>1. \A k \in ((i + 1) + 1)..(e - 1) : k \in (i + 2)..(e - 1) /\ k \in 1..Len(code)
      BY <1>4, <2>1
    <3>2. \A k \in ((i + 1) + 1)..(e - 1) : Read(block, k) = block
      BY <3>1, <2>0, <1>6
    <3>3. \A k \in (i + 1)..(e - 1) : reading[k] = block
      BY <1>4, <1>8, <2>1, <2>2, <3>2, ReadsOn
    <3>4. reading[e - 1] = block
      <4>1. e - 1 \in (i + 1)..(e - 1)
        BY <1>4, <2>1
      <4> QED BY <3>3, <4>1
    <3>5. reading[e] = close
      BY <2>0, <2>1, <3>4, <1>6, ReadingIs
    <3>6. reading[j] = Read(close, j)
      BY <2>1, <3>5, ReadingIs
    <3>7. \A k \in i..j : k = i \/ k \in (i + 1)..(e - 1) \/ k = e \/ k = j
      BY <1>4, <2>1
    <3>8. reading[j].mode = "code" /\ reading[j].class = "comment"
      BY <2>1, <3>6, <1>6
    <3> QED BY <1>2, <1>8, <2>2, <3>3, <3>5, <3>7, <3>8
  <2>3. ASSUME reading[i] = ReadInCode(i), j < Len(code) PROVE reading[j + 1] = ReadInCode(j + 1)
    BY <2>1, <2>2, <2>3, OnFromCode
  <2> QED BY <1>2, <2>1, <2>2, <2>3, TokenFits
<1> QED BY <1>9, <1>10

(* From the place after its opening quote, a string is read to its end.    *)
LEMMA StringRead ==
  ASSUME Text, NEW i \in 1..Len(code), NEW q \in Quotes
  PROVE  \A j \in (i + 1)..(Len(code) + 2) :
           /\ Closing(q)[j] \in i..Len(code)
           /\ (j <= Len(code) /\ reading[j - 1] = Reader("string", q, "string")) =>
                /\ \A k \in j..Closing(q)[j] : reading[k].class = "string"
                /\ Closing(q)[j] < Len(code) => reading[Closing(q)[j]].mode = "code"
<1> DEFINE r == Reader("string", q, "string")
           P(j) == /\ Closing(q)[j] \in i..Len(code)
                   /\ (j <= Len(code) /\ reading[j - 1] = r) =>
                        /\ \A k \in j..Closing(q)[j] : reading[k].class = "string"
                        /\ Closing(q)[j] < Len(code) => reading[Closing(q)[j]].mode = "code"
           S == {n \in Nat : \A j \in (i + 1)..(Len(code) + 2) : j + n > Len(code) => P(j)}
<1>0. Len(code) \in Nat /\ i \in Nat /\ i <= Len(code)
  BY AtIs
<1>1. ASSUME NEW j \in (i + 1)..(Len(code) + 2), j > Len(code) PROVE P(j)
  <2>1. j \in 1..(Len(code) + 2) /\ ~(j <= Len(code)) /\ Len(code) \in i..Len(code)
    BY <1>0, <1>1
  <2>2. Closing(q)[j] = Len(code)
    BY <2>1, <1>1, ClosingIs
  <2> HIDE DEF r
  <2> QED BY <2>1, <2>2
<1>2. 0 \in S
  <2> HIDE DEF P
  <2>1. \A j \in (i + 1)..(Len(code) + 2) : j + 0 > Len(code) => P(j)
    <3>1. \A j \in (i + 1)..(Len(code) + 2) : j + 0 = j
      BY <1>0
    <3> QED BY <1>1, <3>1
  <2> QED BY <2>1
<1>3. ASSUME NEW n \in S, NEW j \in (i + 1)..Len(code), j + (n + 1) > Len(code),
             \A l \in (j + 1)..(Len(code) + 2) : P(l)
      PROVE  P(j)
  <2>1. /\ j \in 1..(Len(code) + 2) /\ j \in 1..Len(code) /\ ~(j > Len(code)) /\ j <= Len(code)
        /\ j + 1 \in (j + 1)..(Len(code) + 2) /\ j + 2 \in (j + 1)..(Len(code) + 2)
        /\ (j + 1) - 1 = j /\ (j + 2) - 1 = j + 1
    BY <1>0
  <2>2. /\ r.mode = "string" /\ r.quote = q /\ r.class = "string" /\ q # "backslash"
        /\ r = Reader("string", q, "string")
    BY DEF Reader, Quotes
  <2> HIDE DEF r
  <2>3. reading[j] = Read(reading[j - 1], j)
    BY <2>1, ReadingIs
  <2>3a. Closing(q)[j] = IF code[j] = "backslash" THEN Closing(q)[j + 2]
                         ELSE IF code[j] = q THEN j ELSE Closing(q)[j + 1]
    BY <2>1, ClosingIs
  <2>4. CASE code[j] = "backslash"
    <3>1. Closing(q)[j] = Closing(q)[j + 2] /\ P(j + 2)
      BY <2>1, <2>3a, <2>4, <1>3
    <3>2. ASSUME reading[j - 1] = r
          PROVE  /\ \A k \in j..Closing(q)[j] : reading[k].class = "string"
                 /\ Closing(q)[j] < Len(code) => reading[Closing(q)[j]].mode = "code"
      <4>1. PICK x : x = Reader("escape", q, "string")
        OBVIOUS
      <4>2. x.mode = "escape" /\ x.quote = q /\ x.class = "string"
        BY <4>1 DEF Reader
      <4>3. reading[j] = x
        BY <4>1, <2>2, <2>3, <2>4, <3>2 DEF Read
      <4>4. CASE j + 1 <= Len(code)
        <5>1. j + 1 \in 1..Len(code) /\ reading[j + 1] = Read(x, j + 1)
          BY <4>4, <4>3, <2>1, <1>0, ReadingIs
        <5>2. Read(x, j + 1) = r
          BY <4>2, <2>2 DEF Read
        <5>3. CASE j + 2 <= Len(code)
          <6>1. /\ \A k \in (j + 2)..Closing(q)[j + 2] : reading[k].class = "string"
                /\ Closing(q)[j + 2] < Len(code) => reading[Closing(q)[j + 2]].mode = "code"
            BY <5>1, <5>2, <5>3, <3>1, <2>1
          <6>2. \A k \in j..Closing(q)[j + 2] : k = j \/ k = j + 1 \/ k \in (j + 2)..Closing(q)[j + 2]
            BY <1>0, <3>1
          <6> QED BY <6>1, <6>2, <5>1, <5>2, <4>2, <4>3, <3>1, <2>2
        <5>4. CASE ~(j + 2 <= Len(code))
          <6>1. j + 2 \in 1..(Len(code) + 2) /\ j + 2 > Len(code)
            BY <5>4, <1>0
          <6>2. Closing(q)[j] = Len(code) /\ ~(Len(code) < Len(code))
            BY <6>1, <3>1, <1>0, ClosingIs
          <6>3. \A k \in j..Len(code) : k = j \/ k = j + 1
            BY <5>4, <1>0
          <6> QED BY <6>2, <6>3, <5>1, <5>2, <4>2, <4>3, <2>2
        <5> QED BY <5>3, <5>4
      <4>5. CASE ~(j + 1 <= Len(code))
        <5>1. j + 2 \in 1..(Len(code) + 2) /\ j + 2 > Len(code)
          BY <4>5, <1>0
        <5>2. Closing(q)[j] = Len(code) /\ ~(Len(code) < Len(code))
          BY <5>1, <3>1, <1>0, ClosingIs
        <5>3. \A k \in j..Len(code) : k = j
          BY <4>5, <1>0
        <5> QED BY <5>2, <5>3, <4>2, <4>3
      <4> QED BY <4>4, <4>5
    <3> QED BY <3>1, <3>2
  <2>5. CASE code[j] = q
    <3>1. Closing(q)[j] = j
      BY <2>2, <2>3a, <2>5
    <3>2. ASSUME reading[j - 1] = r PROVE reading[j].class = "string" /\ reading[j].mode = "code"
      BY <2>2, <2>3, <2>5, <3>2 DEF Read, Reader
    <3>3. j \in i..Len(code) /\ \A k \in j..j : k = j
      BY <1>0
    <3> QED BY <3>1, <3>2, <3>3
  <2>6. CASE code[j] # "backslash" /\ code[j] # q
    <3>1. Closing(q)[j] = Closing(q)[j + 1] /\ P(j + 1)
      BY <2>1, <2>3a, <2>6, <1>3
    <3>2. ASSUME reading[j - 1] = r
          PROVE  /\ \A k \in j..Closing(q)[j] : reading[k].class = "string"
                 /\ Closing(q)[j] < Len(code) => reading[Closing(q)[j]].mode = "code"
      <4>1. reading[j] = r
        BY <2>2, <2>3, <2>6, <3>2 DEF Read
      <4>2. CASE j + 1 <= Len(code)
        <5>1. /\ \A k \in (j + 1)..Closing(q)[j + 1] : reading[k].class = "string"
              /\ Closing(q)[j + 1] < Len(code) => reading[Closing(q)[j + 1]].mode = "code"
          BY <4>1, <4>2, <3>1, <2>1
        <5>2. \A k \in j..Closing(q)[j + 1] : k = j \/ k \in (j + 1)..Closing(q)[j + 1]
          BY <1>0, <3>1
        <5> QED BY <5>1, <5>2, <4>1, <3>1, <2>2
      <4>3. CASE ~(j + 1 <= Len(code))
        <5>1. j + 1 \in 1..(Len(code) + 2) /\ j + 1 > Len(code)
          BY <4>3, <1>0
        <5>2. Closing(q)[j] = Len(code) /\ ~(Len(code) < Len(code))
          BY <5>1, <3>1, <1>0, ClosingIs
        <5>3. \A k \in j..Len(code) : k = j
          BY <4>3, <1>0
        <5> QED BY <5>2, <5>3, <4>1, <2>2
      <4> QED BY <4>2, <4>3
    <3> QED BY <3>1, <3>2
  <2> QED BY <2>4, <2>5, <2>6
<1>4. ASSUME NEW n \in S PROVE n + 1 \in S
  <2> HIDE DEF P
  <2>1. n \in Nat /\ \A j \in (i + 1)..(Len(code) + 2) : j + n > Len(code) => P(j)
    OBVIOUS
  <2>2. ASSUME NEW j \in (i + 1)..(Len(code) + 2), j + (n + 1) > Len(code) PROVE P(j)
    <3>1. CASE j > Len(code)
      BY <3>1, <1>1
    <3>2. CASE ~(j > Len(code))
      <4>1. j \in (i + 1)..Len(code)
        BY <3>2, <1>0
      <4>2. \A l \in (j + 1)..(Len(code) + 2) : l \in (i + 1)..(Len(code) + 2) /\ l + n > Len(code)
        BY <1>0, <2>1, <2>2
      <4> QED BY <4>1, <4>2, <2>1, <2>2, <1>3
    <3> QED BY <3>1, <3>2
  <2> QED BY <2>1, <2>2
<1>5. S \in SUBSET Nat
  OBVIOUS
<1>6. Len(code) \in S
  <2> HIDE DEF S
  <2> QED BY <1>0, <1>2, <1>4, <1>5, Counted
<1>7. ASSUME NEW j \in (i + 1)..(Len(code) + 2) PROVE P(j)
  <2> HIDE DEF P
  <2>1. j + Len(code) > Len(code)
    BY <1>0
  <2> QED BY <1>6, <2>1
<1> QED BY <1>7

LEMMA StringFits ==
  ASSUME Text, NEW i \in 1..Len(code), code[i] \in Quotes
  PROVE  Fits(Token(i, EndOfString(i), "string"), i)
<1>1. PICK q \in Quotes : q = code[i]
  OBVIOUS
<1>2. PICK r : r = Reader("string", q, "string")
  OBVIOUS
<1>3. r.class = "string" /\ "string" \in Types /\ ClassOf("string") = "string"
  BY <1>2 DEF Reader, Types, ClassOf
<1>4. ReadInCode(i) = r
  <2>1. At(i) \in Quotes /\ i \in Nat
    BY AtIs
  <2>2. ~StartsWith(<<"/", "*">>, i) /\ ~StartsWith(lineComment, i)
    BY <2>1, StartsWithTwo, LineStarts DEF Quotes
  <2> QED BY <1>1, <1>2, <2>2 DEF ReadInCode
<1>5. PICK e : e = EndOfString(i)
  OBVIOUS
<1>6. /\ i + 1 \in (i + 1)..(Len(code) + 2) /\ i + 1 \in 1..(Len(code) + 2) /\ (i + 1) - 1 = i
      /\ i + 1 <= Len(code) \/ i = Len(code)
      /\ i \in Nat /\ Len(code) \in Nat
  BY AtIs
<1>7. e = Closing(q)[i + 1]
  BY <1>1, <1>5 DEF EndOfString
<1>8. /\ e \in i..Len(code)
      /\ (i + 1 <= Len(code) /\ reading[i] = r) =>
           /\ \A k \in (i + 1)..e : reading[k].class = "string"
           /\ e < Len(code) => reading[e].mode = "code"
  BY <1>2, <1>6, <1>7, StringRead
<1>9. ASSUME reading[i] = ReadInCode(i)
      PROVE  /\ \A k \in i..e : reading[k].class = ClassOf("string")
             /\ e < Len(code) => reading[e + 1] = ReadInCode(e + 1)
  <2>1. CASE i + 1 <= Len(code)
    <3>1. \A k \in i..e : k = i \/ k \in (i + 1)..e
      BY <1>6, <1>8
    <3>2. e \in 1..Len(code)
      BY <1>6, <1>8
    <3> QED BY <2>1, <3>1, <3>2, <1>3, <1>4, <1>8, <1>9, OnFromCode
  <2>2. CASE i = Len(code)
    <3>0. e \in i..Len(code)
      BY <1>8
    <3>1. e = i /\ ~(e < Len(code))
      BY <3>0, <1>6, <2>2
    <3>2. \A k \in i..i : k = i
      BY <1>6
    <3> QED BY <3>1, <3>2, <1>3, <1>4, <1>9
  <2> QED BY <2>1, <2>2, <1>6
<1> QED BY <1>3, <1>5, <1>8, <1>9, TokenFits

(* Each token fits where it begins.                                        *)
LEMMA NextTokenFits == ASSUME Text, NEW i \in 1..Len(code) PROVE Fits(NextToken(i), i)
<1>1. code[i] = At(i) /\ i \in Nat /\ code[i] # "end"
  BY AtIs
<1>2. PICK block, line : /\ block = (lang # "sql" /\ StartsWith(<<"/", "*">>, i))
                         /\ line = StartsWith(lineComment, i)
  OBVIOUS
<1>3. /\ block => At(i) = "/" /\ At(i + 1) = "*"
      /\ line => At(i) \in {"-", "#", "/"} /\ (At(i) = "/" => At(i + 1) = "/")
  BY <1>1, <1>2, StartsWithTwo, LineStarts
<1>4. CASE code[i] \in Space
  <2>1. NextToken(i) = Token(i, Stretch(i, Space), "plain")
    BY <1>1, <1>2, <1>3, <1>4 DEF NextToken, Space, Quotes, Punctuation
  <2>2. Space \in SUBSET Ordinary /\ code[i] \in Ordinary /\ "plain" \in Types /\ "plain" \notin {"comment", "string"}
    BY <1>4 DEF Space, Ordinary, Types
  <2> QED BY <2>1, <2>2, StretchFits
<1>5. CASE block
  <2>1. NextToken(i) = LET end == IndexOf(<<"*", "/">>, i + 2)
                       IN  Token(i, IF end = 0 THEN Len(code) ELSE end + 1, "comment")
    BY <1>1, <1>2, <1>3, <1>5 DEF NextToken, Space, Quotes, Punctuation
  <2> QED BY <2>1, <1>2, <1>5, BlockFits
<1>6. CASE line
  <2>1. NextToken(i) = Token(i, Stretch(i, Characters \ {"newline"}), "comment")
    BY <1>1, <1>2, <1>3, <1>6 DEF NextToken, Space, Quotes, Punctuation
  <2> QED BY <2>1, <1>2, <1>3, <1>6, LineFits
<1>7. CASE code[i] \in Quotes
  <2>1. NextToken(i) = Token(i, EndOfString(i), "string")
    BY <1>1, <1>2, <1>3, <1>7 DEF NextToken, Space, Quotes, Punctuation
  <2> QED BY <2>1, <1>7, StringFits
<1>8. CASE code[i] = "x"
  <2>1. NextToken(i) = Token(i, Stretch(i, {"x", "a"}), "number")
    BY <1>1, <1>2, <1>3, <1>8 DEF NextToken, Space, Quotes, Punctuation
  <2>2. {"x", "a"} \in SUBSET Ordinary /\ code[i] \in Ordinary /\ "number" \in Types /\ "number" \notin {"comment", "string"}
    BY <1>8 DEF Ordinary, Types
  <2> QED BY <2>1, <2>2, StretchFits
<1>9. CASE code[i] \in {"a", "backslash"}
  <2>1. NextToken(i) = LET j == Stretch(i, {"a", "x"}) IN Token(i, j, WordType(i, j))
    BY <1>1, <1>2, <1>3, <1>9 DEF NextToken, Space, Quotes, Punctuation
  <2>2. PICK type : type = WordType(i, Stretch(i, {"a", "x"}))
    OBVIOUS
  <2>3. type \in Types /\ type \notin {"comment", "string"}
    BY <2>2 DEF WordType, Types
  <2>4. {"a", "x"} \in SUBSET Ordinary /\ code[i] \in Ordinary
    BY <1>9 DEF Ordinary
  <2> QED BY <2>1, <2>2, <2>3, <2>4, StretchFits
<1>10. CASE code[i] \in Punctuation
  <2>1. NextToken(i) = Token(i, i, "punctuation")
    BY <1>1, <1>2, <1>3, <1>10 DEF NextToken, Space, Quotes, Punctuation
  <2>2. code[i] \in Ordinary /\ "punctuation" \in Types /\ "punctuation" \notin {"comment", "string"}
    BY <1>10 DEF Punctuation, Ordinary, Types
  <2> QED BY <2>1, <2>2, OrdinaryIs, SingleFits
<1>11. CASE ~block /\ ~line /\ code[i] \notin Space \cup Quotes \cup {"x", "a", "backslash"} \cup Punctuation
  <2>1. NextToken(i) = Token(i, i, "plain")
    BY <1>2, <1>11 DEF NextToken
  <2>2. ReadInCode(i) = InCode
    BY <1>2, <1>11 DEF ReadInCode
  <2>3. "plain" \in Types /\ "plain" \notin {"comment", "string"}
    BY DEF Types
  <2> QED BY <2>1, <2>2, <2>3, SingleFits
<1> QED BY <1>4, <1>5, <1>6, <1>7, <1>8, <1>9, <1>10, <1>11

LEMMA ScanIs ==
  ASSUME Text
  PROVE  \A i \in 1..(Len(code) + 1) :
           /\ scanFrom[i] = IF i > Len(code) THEN <<>>
                            ELSE <<NextToken(i)>> \o scanFrom[NextToken(i).last + 1]
           /\ scanFrom[i] \in Seq(Tokens)
<1> DEFINE N == Len(code)
           M == Len(code) + 1
<1>0. N \in Nat /\ M \in Nat /\ N <= M
  BY AtIs
<1>1. ASSUME NEW i \in 1..N
      PROVE  NextToken(i) \in Tokens /\ NextToken(i).last + 1 \in 1..M /\ NextToken(i).last + 1 > i
  <2>1. NextToken(i) \in Tokens /\ NextToken(i).last \in i..Len(code)
    BY NextTokenFits DEF Fits
  <2> QED BY <1>0, <2>1
<1>2. PICK next : next = [i \in 1..N |-> NextToken(i).last + 1]
  OBVIOUS
<1>3. PICK D : D = Seq(Tokens)
  OBVIOUS
<1>4. PICK G : G = [i \in 1..N |-> [s \in D |-> <<NextToken(i)>> \o s]]
  OBVIOUS
<1>5. PICK base : base = [i \in 1..M |-> <<>>]
  OBVIOUS
<1>6. next \in [1..N -> 1..M] /\ \A i \in 1..N : next[i] > i
  BY <1>1, <1>2
<1>7. G \in [1..N -> [D -> D]]
  <2>1. ASSUME NEW i \in 1..N, NEW s \in D PROVE <<NextToken(i)>> \o s \in D
    <3>1. <<NextToken(i)>> \in Seq(Tokens)
      BY <1>1
    <3> QED BY <3>1, <1>3
  <2> QED BY <2>1, <1>4
<1>8. base \in [1..M -> D]
  BY <1>3, <1>5
<1>9. PICK f \in [1..M -> D] : \A i \in 1..M : f[i] = IF i > N THEN base[i] ELSE G[i][f[next[i]]]
  <2> HIDE DEF N, M
  <2>1. HasBackward(N, M, D, next, G, base)
    BY <1>0, <1>6, <1>7, <1>8, DefinedBackward
  <2> QED BY <2>1 DEF HasBackward
<1>10. ASSUME NEW i \in 1..M
       PROVE  f[i] = IF i > N THEN <<>> ELSE <<NextToken(i)>> \o f[NextToken(i).last + 1]
  <2>1. CASE i > N
    BY <2>1, <1>5, <1>9
  <2>2. CASE ~(i > N)
    <3>1. i \in 1..N
      BY <2>2, <1>0
    <3>2. next[i] = NextToken(i).last + 1 /\ next[i] \in 1..M
      BY <3>1, <1>1, <1>2
    <3> HIDE DEF N, M
    <3>3. f[next[i]] \in D
      BY <3>2, <1>9
    <3>4. G[i][f[next[i]]] = <<NextToken(i)>> \o f[next[i]]
      BY <3>1, <3>3, <1>4
    <3> QED BY <2>2, <3>2, <3>4, <1>9
  <2> QED BY <2>1, <2>2
<1>11. f = [i \in 1..(Len(code) + 1) |->
              IF i > Len(code) THEN <<>> ELSE <<NextToken(i)>> \o f[NextToken(i).last + 1]]
  BY <1>10
<1>12. scanFrom = [i \in 1..(Len(code) + 1) |->
              IF i > Len(code) THEN <<>> ELSE <<NextToken(i)>> \o scanFrom[NextToken(i).last + 1]]
  BY <1>11, Zenon DEF scanFrom
<1>13. \A i \in 1..(Len(code) + 1) :
         scanFrom[i] = IF i > Len(code) THEN <<>>
                       ELSE <<NextToken(i)>> \o scanFrom[NextToken(i).last + 1]
  BY <1>12
<1> DEFINE S == {n \in Nat : \A i \in 1..M : i + n > N => scanFrom[i] \in Seq(Tokens)}
<1>14. 0 \in S
  <2>1. ASSUME NEW i \in 1..M, i + 0 > N PROVE scanFrom[i] \in Seq(Tokens)
    <3>1. i > Len(code)
      BY <2>1, <1>0
    <3>2. scanFrom[i] = <<>>
      BY <3>1, <1>13
    <3>3. <<>> \in Seq(Tokens)
      OBVIOUS
    <3> QED BY <3>2, <3>3
  <2> QED BY <2>1
<1>15. ASSUME NEW n \in S PROVE n + 1 \in S
  <2>1. n \in Nat /\ \A i \in 1..M : i + n > N => scanFrom[i] \in Seq(Tokens)
    OBVIOUS
  <2>2. ASSUME NEW i \in 1..M, i + (n + 1) > N PROVE scanFrom[i] \in Seq(Tokens)
    <3>1. CASE i > N
      BY <3>1, <1>13
    <3>2. CASE ~(i > N)
      <4>1. i \in 1..N
        BY <3>2, <1>0
      <4>2. PICK l : l = NextToken(i).last + 1
        OBVIOUS
      <4>3. l \in 1..M /\ l > i /\ NextToken(i) \in Tokens
        BY <4>1, <4>2, <1>1
      <4>4. l + n > N
        BY <1>0, <2>1, <2>2, <4>3
      <4>5. scanFrom[l] \in Seq(Tokens)
        BY <2>1, <4>3, <4>4
      <4>6. scanFrom[i] = <<NextToken(i)>> \o scanFrom[l]
        BY <3>2, <4>2, <1>13
      <4>7. <<NextToken(i)>> \in Seq(Tokens)
        BY <4>3
      <4> QED BY <4>5, <4>6, <4>7
    <3> QED BY <3>1, <3>2
  <2> QED BY <2>1, <2>2
<1>16. S \in SUBSET Nat
  OBVIOUS
<1>17. N \in S
  <2> HIDE DEF S
  <2> QED BY <1>0, <1>14, <1>15, <1>16, Counted
<1>18. \A i \in 1..M : i + N > N
  BY <1>0
<1> QED BY <1>13, <1>17, <1>18

(* The tokens from a place on are the text from there on, and fit.         *)
Tiles(tokens, i) ==
  /\ \A k \in DOMAIN tokens :
       /\ tokens[k].first = IF k = 1 THEN i ELSE tokens[k - 1].last + 1
       /\ tokens[k].last \in tokens[k].first..Len(code)
       /\ tokens[k].type \in Types
       /\ \A p \in tokens[k].first..tokens[k].last : reading[p].class = ClassOf(tokens[k].type)
  /\ IF i > Len(code) THEN tokens = <<>>
     ELSE Len(tokens) > 0 /\ tokens[Len(tokens)].last = Len(code)

LEMMA ScanTiles ==
  ASSUME Text
  PROVE  \A i \in 1..(Len(code) + 1) :
           (i <= Len(code) => reading[i] = ReadInCode(i)) => Tiles(scanFrom[i], i)
<1> DEFINE P(i) == (i <= Len(code) => reading[i] = ReadInCode(i)) => Tiles(scanFrom[i], i)
           S == {n \in Nat : \A i \in 1..(Len(code) + 1) : i + n > Len(code) => P(i)}
<1>0. Len(code) \in Nat
  BY AtIs
<1>1. ASSUME NEW i \in 1..(Len(code) + 1), i > Len(code) PROVE P(i)
  <2>1. scanFrom[i] = <<>>
    BY <1>1, ScanIs
  <2>2. \A k \in DOMAIN <<>> : FALSE
    OBVIOUS
  <2> QED BY <2>2,  <2>1, <1>1 DEF Tiles
<1>2. 0 \in S
  <2> HIDE DEF P
  <2>1. \A i \in 1..(Len(code) + 1) : i + 0 = i
    BY <1>0
  <2> QED BY <1>1, <2>1
<1>3. ASSUME NEW i \in 1..Len(code), reading[i] = ReadInCode(i), \A l \in (i + 1)..(Len(code) + 1) : P(l)
      PROVE  Tiles(scanFrom[i], i)
  <2>1. PICK t : t = NextToken(i)
    OBVIOUS
  <2>2. Fits(t, i)
    BY <2>1, NextTokenFits
  <2>3. /\ t \in Tokens /\ t.first = i /\ t.last \in i..Len(code)
        /\ \A p \in i..t.last : reading[p].class = ClassOf(t.type)
        /\ t.last < Len(code) => reading[t.last + 1] = ReadInCode(t.last + 1)
    BY <2>2, <1>3 DEF Fits
  <2>4. PICK l : l = t.last + 1
    OBVIOUS
  <2>5. /\ l \in (i + 1)..(Len(code) + 1) /\ l \in 1..(Len(code) + 1) /\ (l <= Len(code) <=> t.last < Len(code))
        /\ (l > Len(code) => t.last = Len(code))
        /\ i \in 1..(Len(code) + 1) /\ ~(i > Len(code))
    BY <1>0, <2>3, <2>4
  <2>6. PICK s : s = scanFrom[l]
    OBVIOUS
  <2>7. Tiles(s, l) /\ s \in Seq(Tokens)
    BY <2>3, <2>4, <2>5, <2>6, <1>3, ScanIs
  <2>8. scanFrom[i] = <<t>> \o s
    BY <2>1, <2>4, <2>5, <2>6, ScanIs
  <2>9. PICK u : u = <<t>> \o s
    OBVIOUS
  <2>10. /\ Len(s) \in Nat /\ Len(u) = Len(s) + 1 /\ DOMAIN u = 1..(Len(s) + 1)
         /\ u[1] = t /\ \A k \in 1..Len(s) : u[k + 1] = s[k]
         /\ DOMAIN s = 1..Len(s)
    <3>1. <<t>> \in Seq(Tokens) /\ Len(<<t>>) = 1 /\ <<t>>[1] = t
      BY <2>3
    <3> QED BY <2>7, <2>9, <3>1
  <2>11. t.type \in Types
    BY <2>3 DEF Tokens
  <2>12. ASSUME NEW k \in DOMAIN u
         PROVE  /\ u[k].first = IF k = 1 THEN i ELSE u[k - 1].last + 1
                /\ u[k].last \in u[k].first..Len(code)
                /\ u[k].type \in Types
                /\ \A p \in u[k].first..u[k].last : reading[p].class = ClassOf(u[k].type)
    <3>1. CASE k = 1
      BY <3>1, <2>3, <2>10, <2>11
    <3>2. CASE k # 1
      <4>1. PICK m \in 1..Len(s) : k = m + 1
        <5>1. k - 1 \in 1..Len(s) /\ k = (k - 1) + 1
          BY <3>2, <2>10
        <5> QED BY <5>1
      <4>2. u[k] = s[m] /\ m \in DOMAIN s /\ k - 1 = m
        BY <4>1, <2>10
      <4>3. /\ s[m].first = IF m = 1 THEN l ELSE s[m - 1].last + 1
            /\ s[m].last \in s[m].first..Len(code)
            /\ s[m].type \in Types
            /\ \A p \in s[m].first..s[m].last : reading[p].class = ClassOf(s[m].type)
        BY <4>2, <2>7 DEF Tiles
      <4>4. u[k - 1].last + 1 = IF m = 1 THEN l ELSE s[m - 1].last + 1
        <5>1. CASE m = 1
          BY <5>1, <4>2, <2>4, <2>10
        <5>2. CASE m # 1
          <6>1. m - 1 \in 1..Len(s) /\ (m - 1) + 1 = m
            BY <5>2, <2>10
          <6> QED BY <6>1, <5>2, <4>2, <2>10
        <5> QED BY <5>1, <5>2
      <4> QED BY <3>2, <4>2, <4>3, <4>4
    <3> QED BY <3>1, <3>2
  <2>13. Len(u) > 0 /\ u[Len(u)].last = Len(code)
    <3>1. CASE l > Len(code)
      <4>1. s = <<>> /\ Len(<<>>) = 0
        BY <3>1, <2>7 DEF Tiles
      <4> QED BY <4>1, <3>1, <2>5, <2>10
    <3>2. CASE ~(l > Len(code))
      <4>1. Len(s) > 0 /\ s[Len(s)].last = Len(code)
        BY <3>2, <2>7 DEF Tiles
      <4>2. Len(s) \in 1..Len(s)
        BY <4>1, <2>10
      <4> QED BY <4>1, <4>2, <2>10
    <3> QED BY <3>1, <3>2
  <2>14. Tiles(u, i)
    BY <2>5, <2>12, <2>13 DEF Tiles
  <2> QED BY <2>8, <2>9, <2>14
<1>4. ASSUME NEW n \in S PROVE n + 1 \in S
  <2> HIDE DEF P
  <2>1. n \in Nat /\ \A i \in 1..(Len(code) + 1) : i + n > Len(code) => P(i)
    OBVIOUS
  <2>2. ASSUME NEW i \in 1..(Len(code) + 1), i + (n + 1) > Len(code) PROVE P(i)
    <3>1. CASE i > Len(code)
      BY <3>1, <1>1
    <3>2. CASE ~(i > Len(code))
      <4>1. i \in 1..Len(code)
        BY <3>2, <1>0
      <4>2. \A l \in (i + 1)..(Len(code) + 1) : l \in 1..(Len(code) + 1) /\ l + n > Len(code)
        BY <1>0, <2>1, <2>2
      <4>3. \A l \in (i + 1)..(Len(code) + 1) : P(l)
        BY <4>2, <2>1
      <4>4. i <= Len(code)
        BY <4>1
      <4> QED BY <4>1, <4>3, <4>4, <1>3 DEF P
    <3> QED BY <3>1, <3>2
  <2> QED BY <2>1, <2>2
<1>5. S \in SUBSET Nat
  OBVIOUS
<1>6. Len(code) \in S
  <2> HIDE DEF S
  <2> QED BY <1>0, <1>2, <1>4, <1>5, Counted
<1>7. \A i \in 1..(Len(code) + 1) : i + Len(code) > Len(code)
  BY <1>0
<1>8. \A i \in 1..(Len(code) + 1) : P(i)
  <2> HIDE DEF P
  <2> QED BY <1>6, <1>7
<1> QED BY <1>8

LEMMA TextAgrees == Text => TokensAgree
<1> SUFFICES ASSUME Text PROVE TokensAgree
  OBVIOUS
<1>1. Len(code) \in Nat /\ 1 \in 1..(Len(code) + 1) /\ (code # <<>> => Len(code) > 0)
  BY AtIs DEF Text
<1>2. ASSUME 1 <= Len(code) PROVE reading[1] = ReadInCode(1)
  <2>1. 1 \in 1..Len(code) /\ 1 - 1 = 0
    BY <1>1, <1>2
  <2>2. reading[1] = Read(reading[0], 1) /\ reading[0] = InCode
    BY <2>1, ReadingIs
  <2>3. InCode.mode = "code"
    BY DEF InCode, Reader
  <2> QED BY <2>2, <2>3 DEF Read
<1>3. Tiles(scan, 1) /\ scan \in Seq(Tokens)
  BY <1>1, <1>2, ScanTiles, ScanIs DEF scan
<1>4. PICK tokens : tokens = tokenize
  OBVIOUS
<1>5. DOMAIN tokens = DOMAIN scan /\ Len(tokens) = Len(scan) /\ Len(scan) \in Nat /\ DOMAIN scan = 1..Len(scan)
  <2>1. CASE lang # "json"
    BY <1>3, <1>4, <2>1 DEF tokenize
  <2>2. CASE lang = "json"
    <3>1. Len(scan) \in Nat /\ DOMAIN scan = 1..Len(scan)
      BY <1>3
    <3>2. tokens = [k \in DOMAIN scan |-> IF Key(scan[k]) THEN [scan[k] EXCEPT !.type = "property"] ELSE scan[k]]
      BY <1>4, <2>2 DEF tokenize
    <3>3. tokens = [k \in 1..Len(scan) |-> tokens[k]]
      BY <3>1, <3>2
    <3>4. Len(tokens) = Len(scan)
      BY <3>1, <3>3
    <3> QED BY <3>1, <3>2, <3>4
  <2> QED BY <2>1, <2>2
<1>6. ASSUME NEW k \in DOMAIN scan
      PROVE  /\ tokens[k].first = scan[k].first /\ tokens[k].last = scan[k].last
             /\ ClassOf(tokens[k].type) = ClassOf(scan[k].type)
  <2>1. scan[k] \in Tokens
    BY <1>3, <1>5
  <2>2. CASE tokens[k] = scan[k]
    BY <2>2
  <2>3. CASE tokens[k] = [scan[k] EXCEPT !.type = "property"] /\ Key(scan[k])
    BY <2>1, <2>3 DEF Tokens, Key, ClassOf
  <2>4. tokens[k] = scan[k] \/ (tokens[k] = [scan[k] EXCEPT !.type = "property"] /\ Key(scan[k]))
    <3>1. CASE lang # "json"
      BY <1>4, <3>1 DEF tokenize
    <3>2. CASE lang = "json"
      <4>1. tokens = [m \in DOMAIN scan |-> IF Key(scan[m]) THEN [scan[m] EXCEPT !.type = "property"] ELSE scan[m]]
        BY <1>4, <3>2 DEF tokenize
      <4> QED BY <4>1
    <3> QED BY <3>1, <3>2
  <2> QED BY <2>2, <2>3, <2>4
<1>7. ASSUME NEW k \in DOMAIN tokens
      PROVE  /\ tokens[k].first = IF k = 1 THEN 1 ELSE tokens[k - 1].last + 1
             /\ tokens[k].last \in tokens[k].first..Len(code)
             /\ \A i \in tokens[k].first..tokens[k].last : reading[i].class = ClassOf(tokens[k].type)
  <2>1. /\ scan[k].first = IF k = 1 THEN 1 ELSE scan[k - 1].last + 1
        /\ scan[k].last \in scan[k].first..Len(code)
        /\ \A p \in scan[k].first..scan[k].last : reading[p].class = ClassOf(scan[k].type)
    BY <1>3, <1>5 DEF Tiles
  <2>2. CASE k = 1
    BY <2>1, <2>2, <1>5, <1>6
  <2>3. CASE k # 1
    <3>1. k - 1 \in DOMAIN scan
      BY <2>3, <1>5
    <3> QED BY <2>1, <2>3, <3>1, <1>5, <1>6
  <2> QED BY <2>2, <2>3
<1>8. ASSUME code # <<>> PROVE tokens[Len(tokens)].last = Len(code)
  <2>1. Len(scan) > 0 /\ scan[Len(scan)].last = Len(code)
    BY <1>1, <1>3, <1>8 DEF Tiles
  <2>2. Len(scan) \in DOMAIN scan
    BY <2>1, <1>5
  <2> QED BY <2>1, <2>2, <1>5, <1>6
<1> QED BY <1>4, <1>7, <1>8 DEF TokensAgree

(* highlight.ts: for every text, however its strings, comments and escapes *)
(* nest or are cut short, the tokens are the text, and agree with a reader *)
(* of it.                                                                  *)
THEOREM TokensAreRight == HighlightSpec => []TokensAgree
<1>1. HighlightInit => Text
  BY DEF HighlightInit, Text
<1>2. Text /\ [HighlightNext]_hvars => Text'
  <2> SUFFICES ASSUME Text, [HighlightNext]_hvars PROVE Text'
    OBVIOUS
  <2>1. CASE UNCHANGED hvars
    BY <2>1 DEF Text, hvars
  <2>2. ASSUME NEW c \in Characters, Typed(c) PROVE Text'
    BY <2>2 DEF Text, Typed
  <2> QED BY <2>1, <2>2 DEF HighlightNext
<1> QED BY <1>1, <1>2, TextAgrees, PTL DEF HighlightSpec

(***************************************************************************)
(* An event                                                                *)
(***************************************************************************)

(* A filtered list: the first and the last of those kept.                  *)
Kept(own, trace, places, n) ==
  \/ own = <<>> /\ \A k \in 1..n : ~trace[places[k]].inApp
  \/ /\ Len(own) > 0
     /\ \E k \in 1..n : /\ own[1] = places[k] /\ trace[places[k]].inApp
                        /\ \A l \in 1..(k - 1) : ~trace[places[l]].inApp
     /\ \E k \in 1..n : /\ own[Len(own)] = places[k] /\ trace[places[k]].inApp
                        /\ \A l \in (k + 1)..n : ~trace[places[l]].inApp

LEMMA InAppIs ==
  ASSUME NEW trace, NEW places \in Seq(Nat)
  PROVE  InApp(trace, places) \in Seq(Nat) /\ Kept(InApp(trace, places), trace, places, Len(places))
<1>0. PICK N \in Nat : N = Len(places)
  OBVIOUS
<1>1. \A n \in 1..N : places[n] \in Nat
  BY <1>0
<1>2. PICK D : D = Seq(Nat)
  OBVIOUS
<1>3. PICK G : G = [n \in 1..N |-> [s \in D |-> IF trace[places[n]].inApp THEN Append(s, places[n]) ELSE s]]
  OBVIOUS
<1>4. G \in [1..N -> [D -> D]]
  <2>1. ASSUME NEW n \in 1..N, NEW s \in D
        PROVE  (IF trace[places[n]].inApp THEN Append(s, places[n]) ELSE s) \in D
    BY <1>1, <1>2
  <2> QED BY <2>1, <1>3
<1>5. <<>> \in D
  BY <1>2
<1>6. HasForward(N, D, <<>>, G)
  BY <1>4, <1>5, DefinedForward
<1>7. PICK f \in [0..N -> D] : f[0] = <<>> /\ \A n \in 1..N : f[n] = G[n][f[n - 1]]
  BY <1>6 DEF HasForward
<1>8. ASSUME NEW n \in 1..N
      PROVE  f[n] = IF trace[places[n]].inApp THEN Append(f[n - 1], places[n]) ELSE f[n - 1]
  <2>1. n - 1 \in 0..N
    BY <1>0
  <2>2. f[n - 1] \in D
    BY <2>1
  <2> QED BY <2>2, <1>3, <1>7
<1>9. f = [n \in 0..Len(places) |->
             IF n = 0 THEN <<>>
             ELSE IF trace[places[n]].inApp THEN Append(f[n - 1], places[n]) ELSE f[n - 1]]
  <2>1. ASSUME NEW n \in 0..N
        PROVE  f[n] = IF n = 0 THEN <<>>
                      ELSE IF trace[places[n]].inApp THEN Append(f[n - 1], places[n]) ELSE f[n - 1]
    <3>1. n = 0 \/ n \in 1..N
      BY <1>0
    <3> QED BY <3>1, <1>7, <1>8
  <2> QED BY <2>1, <1>0
<1>10. PICK own : own = CHOOSE o : o = [n \in 0..Len(places) |->
             IF n = 0 THEN <<>>
             ELSE IF trace[places[n]].inApp THEN Append(o[n - 1], places[n]) ELSE o[n - 1]]
  OBVIOUS
<1>11. own = [n \in 0..Len(places) |->
             IF n = 0 THEN <<>>
             ELSE IF trace[places[n]].inApp THEN Append(own[n - 1], places[n]) ELSE own[n - 1]]
  BY <1>9, <1>10, Zenon
<1>12. InApp(trace, places) = own[Len(places)]
  BY <1>10, Zenon DEF InApp
<1>13. /\ own[0] = <<>>
       /\ \A n \in 1..N : own[n] = IF trace[places[n]].inApp THEN Append(own[n - 1], places[n]) ELSE own[n - 1]
  <2>1. \A n \in 0..N : own[n] = IF n = 0 THEN <<>>
             ELSE IF trace[places[n]].inApp THEN Append(own[n - 1], places[n]) ELSE own[n - 1]
    BY <1>0, <1>11
  <2>2. 0 \in 0..N /\ \A n \in 1..N : n \in 0..N /\ n # 0
    OBVIOUS
  <2> QED BY <2>1, <2>2
<1> DEFINE S == {n \in Nat : n <= N => own[n] \in Seq(Nat) /\ Kept(own[n], trace, places, n)}
<1>14. 0 \in S
  <2>1. Kept(<<>>, trace, places, 0)
    BY DEF Kept
  <2>2. <<>> \in Seq(Nat)
    OBVIOUS
  <2>3. own[0] \in Seq(Nat) /\ Kept(own[0], trace, places, 0)
    BY <2>1, <2>2, <1>13
  <2> QED BY <2>3
<1>15. ASSUME NEW n \in S PROVE n + 1 \in S
  <2>1. n \in Nat /\ (n <= N => own[n] \in Seq(Nat) /\ Kept(own[n], trace, places, n))
    OBVIOUS
  <2>2. ASSUME n + 1 <= N PROVE own[n + 1] \in Seq(Nat) /\ Kept(own[n + 1], trace, places, n + 1)
    <3>1. n + 1 \in 1..N /\ n <= N /\ (n + 1) - 1 = n
      BY <2>1, <2>2
    <3>2. PICK s \in Seq(Nat) : s = own[n]
      BY <2>1, <3>1
    <3>3. Kept(s, trace, places, n)
      BY <2>1, <3>1, <3>2
    <3>4. PICK p \in Nat : p = places[n + 1]
      BY <1>1, <3>1
    <3>5. own[n + 1] = IF trace[p].inApp THEN Append(s, p) ELSE s
      BY <3>1, <3>2, <3>4, <1>13
    <3>6. \A k \in 1..(n + 1) : k \in 1..n \/ k = n + 1
      BY <2>1
    <3>7. CASE trace[p].inApp
      <4>1. PICK t : t = Append(s, p)
        OBVIOUS
      <4>2. /\ t \in Seq(Nat) /\ Len(t) = Len(s) + 1 /\ t[Len(t)] = p /\ Len(s) \in Nat
            /\ (Len(s) > 0 => t[1] = s[1]) /\ Len(t) > 0
        BY <4>1
      <4>3. \E k \in 1..(n + 1) : /\ t[Len(t)] = places[k] /\ trace[places[k]].inApp
                                  /\ \A l \in (k + 1)..(n + 1) : ~trace[places[l]].inApp
        <5>1. n + 1 \in 1..(n + 1) /\ \A l \in ((n + 1) + 1)..(n + 1) : FALSE
          BY <2>1
        <5> QED BY <5>1, <4>2, <3>4, <3>7
      <4>4. \E k \in 1..(n + 1) : /\ t[1] = places[k] /\ trace[places[k]].inApp
                                  /\ \A l \in 1..(k - 1) : ~trace[places[l]].inApp
        <5>1. CASE s = <<>> /\ \A k \in 1..n : ~trace[places[k]].inApp
          <6>1. t[1] = p
            BY <5>1, <4>2
          <6>2. n + 1 \in 1..(n + 1) /\ (n + 1) - 1 = n
            BY <2>1
          <6> QED BY <6>1, <6>2, <5>1, <3>4, <3>7
        <5>2. CASE /\ Len(s) > 0
                   /\ \E k \in 1..n : /\ s[1] = places[k] /\ trace[places[k]].inApp
                                      /\ \A l \in 1..(k - 1) : ~trace[places[l]].inApp
          <6>1. \A k \in 1..n : k \in 1..(n + 1)
            BY <2>1
          <6> QED BY <6>1, <5>2, <4>2
        <5> QED BY <5>1, <5>2, <3>3 DEF Kept
      <4> QED BY <4>1, <4>2, <4>3, <4>4, <3>5, <3>7 DEF Kept
    <3>8. CASE ~trace[p].inApp
      <4>1. own[n + 1] = s
        BY <3>5, <3>8
      <4>2. CASE s = <<>> /\ \A k \in 1..n : ~trace[places[k]].inApp
        <5>1. \A k \in 1..(n + 1) : ~trace[places[k]].inApp
          BY <4>2, <3>4, <3>6, <3>8
        <5> QED BY <5>1, <4>1, <4>2 DEF Kept
      <4>3. CASE /\ Len(s) > 0
                 /\ \E k \in 1..n : /\ s[1] = places[k] /\ trace[places[k]].inApp
                                    /\ \A l \in 1..(k - 1) : ~trace[places[l]].inApp
                 /\ \E k \in 1..n : /\ s[Len(s)] = places[k] /\ trace[places[k]].inApp
                                    /\ \A l \in (k + 1)..n : ~trace[places[l]].inApp
        <5>1. \A k \in 1..n : k \in 1..(n + 1) /\ \A l \in (k + 1)..(n + 1) : l \in (k + 1)..n \/ l = n + 1
          BY <2>1
        <5>2. \E k \in 1..(n + 1) : /\ s[1] = places[k] /\ trace[places[k]].inApp
                                    /\ \A l \in 1..(k - 1) : ~trace[places[l]].inApp
          BY <5>1, <4>3
        <5>3. \E k \in 1..(n + 1) : /\ s[Len(s)] = places[k] /\ trace[places[k]].inApp
                                    /\ \A l \in (k + 1)..(n + 1) : ~trace[places[l]].inApp
          BY <5>1, <4>3, <3>4, <3>8
        <5> QED BY <5>2, <5>3, <4>1, <4>3 DEF Kept
      <4> QED BY <4>1, <4>2, <4>3, <3>3 DEF Kept
    <3> QED BY <3>7, <3>8
  <2> QED BY <2>1, <2>2
<1>16. S \in SUBSET Nat
  OBVIOUS
<1>17. N \in S
  <2> HIDE DEF S
  <2> QED BY <1>0, <1>14, <1>15, <1>16, Counted
<1> QED BY <1>0, <1>12, <1>17

-----------------------------------------------------------------------------
(* Types, and with them what is true of every event: a row that is drawn   *)
(* has a flag.                                                             *)
EventTInv ==
  /\ event.exceptions \in Seq(Seq(Frames)) /\ event.crumbs \in Seq(Crumbs)
  /\ Len(event.crumbs) <= TraceLength
  /\ DOMAIN showAll = DOMAIN event.exceptions /\ DOMAIN opened = DOMAIN event.exceptions
  /\ \A x \in DOMAIN event.exceptions :
       showAll[x] \in BOOLEAN /\ DOMAIN opened[x] = DOMAIN shownFrames(event.exceptions[x], showAll[x])

LEMMA PlacesAre ==
  ASSUME NEW trace, NEW T, trace \in Seq(T)
  PROVE  /\ Places(trace) \in Seq(Nat) /\ Len(Places(trace)) = Len(trace) /\ Len(trace) \in Nat
         /\ \A k \in 1..Len(trace) : Places(trace)[k] = k
         /\ Reverse(Places(trace)) \in Seq(Nat) /\ Len(Reverse(Places(trace))) = Len(trace)
         /\ \A k \in 1..Len(trace) : Reverse(Places(trace))[k] = Len(trace) - k + 1
<1>1. PICK n \in Nat : n = Len(trace) /\ DOMAIN trace = 1..n
  OBVIOUS
<1>2. PICK p : p = Places(trace)
  OBVIOUS
<1>3. p = [i \in 1..n |-> i]
  BY <1>1, <1>2 DEF Places
<1>4. p \in Seq(Nat) /\ Len(p) = n /\ \A k \in 1..n : p[k] = k
  BY <1>3
<1>5. PICK r : r = Reverse(p)
  OBVIOUS
<1>6. r = [i \in 1..n |-> p[(n - i) + 1]]
  BY <1>4, <1>5 DEF Reverse
<1>7. \A k \in 1..n : r[k] = n - k + 1 /\ n - k + 1 \in Nat
  <2>1. \A k \in 1..n : (n - k) + 1 \in 1..n
    OBVIOUS
  <2> QED BY <2>1, <1>4, <1>6
<1>8. r \in Seq(Nat) /\ Len(r) = n
  BY <1>6, <1>7
<1> QED BY <1>1, <1>2, <1>4, <1>5, <1>7, <1>8

LEMMA UpToIs ==
  ASSUME NEW T, NEW list \in Seq(T), NEW n \in Nat
  PROVE  /\ UpTo(list, n) \in Seq(T)
         /\ Len(UpTo(list, n)) = IF Len(list) < n THEN Len(list) ELSE n
         /\ \A k \in 1..Len(UpTo(list, n)) : UpTo(list, n)[k] = list[k] /\ k \in 1..Len(list)
<1>1. PICK m \in Nat : m = (IF Len(list) < n THEN Len(list) ELSE n)
  OBVIOUS
<1>2. m <= Len(list)
  BY <1>1
<1>3. UpTo(list, n) = SubSeq(list, 1, m)
  BY <1>1 DEF UpTo
<1>4. SubSeq(list, 1, m) \in Seq(T) /\ Len(SubSeq(list, 1, m)) = m /\ \A k \in 1..m : SubSeq(list, 1, m)[k] = list[k]
  BY <1>2
<1>5. \A k \in 1..m : k \in 1..Len(list)
  BY <1>2
<1> QED BY <1>1, <1>3, <1>4, <1>5

LEMMA ShownIs ==
  ASSUME EventAssumption, NEW trace, NEW T, trace \in Seq(T), NEW all \in BOOLEAN
  PROVE  /\ shownFrames(trace, all) \in Seq(Nat)
         /\ Len(shownFrames(trace, all)) <= Len(trace)
         /\ \A k \in 1..Len(shownFrames(trace, all)) :
              shownFrames(trace, all)[k] = Len(trace) - k + 1 /\ k \in 1..Len(trace)
<1>1. PICK r : r = Reverse(Places(trace))
  OBVIOUS
<1>2. /\ r \in Seq(Nat) /\ Len(r) = Len(trace) /\ Len(trace) \in Nat
      /\ \A k \in 1..Len(trace) : r[k] = Len(trace) - k + 1
  BY <1>1, PlacesAre
<1>3. CASE all
  BY <1>1, <1>2, <1>3 DEF shownFrames
<1>4. CASE ~all
  <2>1. shownFrames(trace, all) = UpTo(r, MaxFrames)
    BY <1>1, <1>4 DEF shownFrames
  <2>2. MaxFrames \in Nat
    BY DEF EventAssumption
  <2>3. PICK u : u = UpTo(r, MaxFrames)
    OBVIOUS
  <2>4. /\ u \in Seq(Nat) /\ Len(u) = (IF Len(r) < MaxFrames THEN Len(r) ELSE MaxFrames)
        /\ \A k \in 1..Len(u) : u[k] = r[k] /\ k \in 1..Len(r)
    BY <1>2, <2>2, <2>3, UpToIs
  <2>5. Len(u) <= Len(trace)
    BY <1>2, <2>2, <2>4
  <2> QED BY <1>2, <2>1, <2>3, <2>4, <2>5
<1> QED BY <1>3, <1>4

(* Every copy of the trace begins with the frame of the crash.             *)
LEMMA CrashIs == ASSUME EventAssumption, EventTInv PROVE SameCrash
<1> SUFFICES ASSUME suspect # 0 PROVE SameCrash
  BY DEF SameCrash
<1>1. event.exceptions # <<>> /\ suspect = topInAppFrame(Last(event.exceptions))
  BY DEF suspect
<1>2. PICK z : z = Len(event.exceptions)
  OBVIOUS
<1>3. z \in DOMAIN event.exceptions /\ z \in 1..Len(event.exceptions)
  BY <1>1, <1>2 DEF EventTInv
<1>4. PICK trace : trace = event.exceptions[z]
  OBVIOUS
<1>5. trace \in Seq(Frames) /\ Last(event.exceptions) = trace
  BY <1>2, <1>3, <1>4 DEF EventTInv, Last
<1>6. PICK all \in BOOLEAN : all = showAll[z]
  BY <1>3 DEF EventTInv
<1>7. Last(showAll) = all
  <2>1. DOMAIN showAll = 1..z /\ z \in Nat
    BY <1>2 DEF EventTInv
  <2>2. showAll = [x \in 1..z |-> showAll[x]] \/ Len(showAll) = z
    <3>1. Len(showAll) = z
      BY <2>1
    <3> QED BY <3>1
  <2>3. Len(showAll) = z
    BY <2>1
  <2> QED BY <2>3, <1>6 DEF Last
<1>8. PICK n \in Nat : n = Len(trace)
  BY <1>5
<1>9. PICK up, down : up = Places(trace) /\ down = Reverse(Places(trace))
  OBVIOUS
<1>10. /\ up \in Seq(Nat) /\ Len(up) = n /\ \A k \in 1..n : up[k] = k
       /\ down \in Seq(Nat) /\ Len(down) = n /\ \A k \in 1..n : down[k] = n - k + 1
  BY <1>5, <1>8, <1>9, PlacesAre
<1>11. PICK first, last : first = InApp(trace, down) /\ last = InApp(trace, up)
  OBVIOUS
<1>12. /\ first \in Seq(Nat) /\ Kept(first, trace, down, n)
       /\ last \in Seq(Nat) /\ Kept(last, trace, up, n)
  BY <1>10, <1>11, InAppIs
<1>13. suspect = IF last # <<>> THEN last[Len(last)] ELSE n
  BY <1>1, <1>5, <1>8, <1>9, <1>11 DEF topInAppFrame, Last
<1>14. /\ suspect \in 1..n /\ (last # <<>> => trace[suspect].inApp)
       /\ \A i \in (suspect + 1)..n : ~trace[i].inApp
       /\ (last = <<>> => suspect = n /\ \A i \in 1..n : ~trace[i].inApp)
  <2>1. CASE last = <<>>
    <3>1. \A i \in 1..n : ~trace[i].inApp
      <4>1. ~(Len(last) > 0)
        BY <2>1
      <4> QED BY <4>1, <1>10, <1>12 DEF Kept
    <3>2. suspect = n /\ n # 0
      BY <2>1, <1>13
    <3>3. suspect \in 1..n /\ \A i \in (suspect + 1)..n : FALSE
      BY <3>2
    <3> QED BY <2>1, <3>1, <3>2, <3>3
  <2>2. CASE last # <<>>
    <3>1. PICK k \in 1..n : /\ last[Len(last)] = up[k] /\ trace[up[k]].inApp
                            /\ \A l \in (k + 1)..n : ~trace[up[l]].inApp
      BY <2>2, <1>12 DEF Kept
    <3>2. suspect = k
      BY <2>2, <3>1, <1>10, <1>13
    <3>3. \A l \in (k + 1)..n : l \in 1..n
      OBVIOUS
    <3> QED BY <2>2, <3>1, <3>2, <3>3, <1>10
  <2> QED BY <2>1, <2>2
<1>15. stackBlock(trace)[1] = suspect
  <2>1. PICK list : list = IF first # <<>> THEN first ELSE down
    OBVIOUS
  <2>2. list \in Seq(Nat) /\ Len(list) > 0 /\ list[1] = suspect
    <3>1. CASE first = <<>>
      <4>1. \A k \in 1..n : ~trace[down[k]].inApp
        <5>1. ~(Len(first) > 0)
          BY <3>1
        <5> QED BY <5>1, <1>12 DEF Kept
      <4>2. \A i \in 1..n : n - i + 1 \in 1..n /\ n - (n - i + 1) + 1 = i
        OBVIOUS
      <4>3. \A i \in 1..n : ~trace[i].inApp
        BY <4>1, <4>2, <1>10
      <4>4. last = <<>>
        BY <4>3, <1>14
      <4>5. suspect = n /\ 1 \in 1..n /\ n - 1 + 1 = n
        BY <4>4, <1>14
      <4>6. list = down /\ down[1] = n
        BY <3>1, <4>5, <2>1, <1>10
      <4> QED BY <4>5, <4>6, <1>10
    <3>2. CASE first # <<>>
      <4>1. PICK k \in 1..n : /\ first[1] = down[k] /\ trace[down[k]].inApp
                              /\ \A l \in 1..(k - 1) : ~trace[down[l]].inApp
        BY <3>2, <1>12 DEF Kept
      <4>2. down[k] = n - k + 1 /\ n - k + 1 \in 1..n
        BY <1>10
      <4>3. ~(n - k + 1 \in (suspect + 1)..n)
        BY <4>1, <4>2, <1>14
      <4>4. trace[suspect].inApp
        <5>1. last # <<>>
          BY <4>1, <4>2, <1>14
        <5> QED BY <5>1, <1>14
      <4>5. n - suspect + 1 \in 1..n /\ down[n - suspect + 1] = suspect
        <5>1. n - suspect + 1 \in 1..n /\ n - (n - suspect + 1) + 1 = suspect
          BY <1>14
        <5> QED BY <5>1, <1>10
      <4>6. ~(n - suspect + 1 \in 1..(k - 1))
        BY <4>1, <4>4, <4>5
      <4>7. n - k + 1 = suspect
        BY <4>2, <4>3, <4>5, <4>6, <1>14
      <4>8. list = first /\ Len(first) > 0
        BY <3>2, <2>1, <1>12 DEF Kept
      <4> QED BY <4>1, <4>2, <4>7, <4>8, <1>12
    <3> QED BY <3>1, <3>2
  <2>3. stackBlock(trace) = UpTo(list, MarkdownFrames)
    BY <2>1, <1>9, <1>11 DEF stackBlock
  <2>4. MarkdownFrames \in Nat /\ MarkdownFrames > 0
    BY DEF EventAssumption
  <2>5. PICK u : u = UpTo(list, MarkdownFrames)
    OBVIOUS
  <2>6. /\ Len(u) = (IF Len(list) < MarkdownFrames THEN Len(list) ELSE MarkdownFrames)
        /\ \A k \in 1..Len(u) : u[k] = list[k]
    BY <2>2, <2>4, <2>5, UpToIs
  <2>7. 1 \in 1..Len(u)
    BY <2>2, <2>4, <2>6
  <2> QED BY <2>2, <2>3, <2>5, <2>6, <2>7
<1>16. PICK rows : rows = shownFrames(trace, all)
  OBVIOUS
<1>17. rows \in Seq(Nat) /\ \A k \in 1..Len(rows) : rows[k] = n - k + 1 /\ k \in 1..n
  BY <1>5, <1>8, <1>16, ShownIs
<1>18. PICK above : above = {i \in DOMAIN trace : i > suspect}
  OBVIOUS
<1>19. above = (suspect + 1)..n
  BY <1>5, <1>8, <1>14, <1>18
<1>20. Cardinality(above) = n - suspect
  <2>1. suspect + 1 \in Int /\ n \in Int /\ suspect + 1 <= n + 1
    BY <1>14
  <2>2. Cardinality((suspect + 1)..n) = IF suspect + 1 > n THEN 0 ELSE n - (suspect + 1) + 1
    BY <2>1, FS_Interval
  <2> QED BY <2>1, <2>2, <1>14, <1>19
<1>21. ASSUME Cardinality(above) < Len(rows) PROVE rows[Cardinality(above) + 1] = suspect
  <2>1. n - suspect + 1 \in 1..Len(rows)
    BY <1>14, <1>17, <1>20, <1>21
  <2>2. rows[n - suspect + 1] = n - (n - suspect + 1) + 1
    BY <2>1, <1>17
  <2> QED BY <2>2, <1>14, <1>20
<1>22. \A i \in above : ~trace[i].inApp
  BY <1>14, <1>19
<1> QED BY <1>5, <1>7, <1>15, <1>16, <1>18, <1>21, <1>22 DEF SameCrash

IsJoin(u, s, t, T) ==
  /\ u \in Seq(T) /\ Len(u) = Len(s) + Len(t)
  /\ \A k \in 1..Len(s) : u[k] = s[k]
  /\ \A k \in 1..Len(t) : u[Len(s) + k] = t[k]

LEMMA Joined ==
  ASSUME NEW T, NEW s \in Seq(T), NEW t \in Seq(T), NEW u, u = s \o t
  PROVE  IsJoin(u, s, t, T)
<1>1. u \in Seq(T) /\ Len(u) = Len(s) + Len(t)
  OBVIOUS
<1>2. \A k \in 1..Len(s) : u[k] = s[k]
  OBVIOUS
<1>3. ASSUME NEW k \in 1..Len(t) PROVE u[Len(s) + k] = t[k]
  <2>1. PICK n \in 1..(Len(s) + Len(t)) : n = Len(s) + k
    OBVIOUS
  <2>2. u[n] = t[n - Len(s)] /\ n - Len(s) = k
    BY <2>1
  <2> QED BY <2>1, <2>2
<1> QED BY <1>1, <1>2, <1>3 DEF IsJoin

(* The source lines of a frame: the k-th has the number line - pre + k - 1. *)
LEMMA LinesAre ==
  ASSUME NEW f, f.line \in Nat, f.pre \in Nat, f.post \in Nat, f.context # "absent", f.line > f.pre
  PROVE  \A k \in DOMAIN ContextLines(f) :
           /\ k \in Nat /\ 1 \in DOMAIN ContextLines(f)
           /\ ContextLines(f)[k].no = f.line - f.pre + k - 1
           /\ ContextLines(f)[k].current => k = f.pre + 1
<1>0. PICK L, P, Q \in Nat : L = f.line /\ P = f.pre /\ Q = f.post
  OBVIOUS
<1>1. PICK pre : pre = [k \in 1..P |-> [no |-> (L + k) - P - 1, current |-> FALSE]]
  OBVIOUS
<1>2. PICK mid : mid = <<[no |-> L, current |-> TRUE]>>
  OBVIOUS
<1>3. PICK post : post = [k \in 1..Q |-> [no |-> L + k, current |-> FALSE]]
  OBVIOUS
<1>4. L # 0
  BY <1>0
<1>5. ContextLines(f) = pre \o mid \o post
  <2>1. ContextLines(f) =
          [k \in 1..f.pre |-> [no |-> (f.line + k) - f.pre - 1, current |-> FALSE]]
          \o <<[no |-> f.line, current |-> TRUE]>>
          \o [k \in 1..f.post |-> [no |-> f.line + k, current |-> FALSE]]
    BY <1>0, <1>4 DEF ContextLines
  <2> QED BY <2>1, <1>0, <1>1, <1>2, <1>3
<1>6. PICK Row : Row = [no : Int, current : BOOLEAN]
  OBVIOUS
<1>7. /\ pre \in Seq(Row) /\ Len(pre) = P
      /\ \A k \in 1..P : pre[k].no = L - P + k - 1 /\ pre[k].current = FALSE
  <2>1. \A k \in 1..P : pre[k] = [no |-> (L + k) - P - 1, current |-> FALSE]
    BY <1>1
  <2>2. ASSUME NEW k \in 1..P
        PROVE  pre[k].no = L - P + k - 1 /\ pre[k].current = FALSE /\ pre[k] \in Row
    <3>1. PICK n \in Int : n = (L + k) - P - 1
      OBVIOUS
    <3>2. pre[k] = [no |-> n, current |-> FALSE]
      BY <2>1, <3>1
    <3>3. pre[k].no = n /\ pre[k].current = FALSE /\ pre[k] \in Row
      BY <3>2, <1>6
    <3>4. n = L - P + k - 1
      BY <3>1
    <3> QED BY <3>3, <3>4
  <2>3. DOMAIN pre = 1..P /\ pre = [k \in 1..P |-> pre[k]]
    BY <1>1
  <2>4. pre \in [1..P -> Row]
    BY <2>2, <2>3
  <2>5. pre \in Seq(Row) /\ Len(pre) = P
    BY <2>4
  <2> QED BY <2>2, <2>5
<1>8. mid \in Seq(Row) /\ Len(mid) = 1 /\ mid[1].no = L /\ mid[1].current = TRUE
  <2>1. [no |-> L, current |-> TRUE] \in Row
    BY <1>6
  <2> QED BY <2>1, <1>2
<1>9. /\ post \in Seq(Row) /\ Len(post) = Q
      /\ \A k \in 1..Q : post[k].no = L + k /\ post[k].current = FALSE
  <2>1. \A k \in 1..Q : post[k] = [no |-> L + k, current |-> FALSE]
    BY <1>3
  <2>2. ASSUME NEW k \in 1..Q
        PROVE  post[k].no = L + k /\ post[k].current = FALSE /\ post[k] \in Row
    <3>1. PICK n \in Int : n = L + k
      OBVIOUS
    <3>2. post[k] = [no |-> n, current |-> FALSE]
      BY <2>1, <3>1
    <3> QED BY <3>1, <3>2, <1>6
  <2>3. DOMAIN post = 1..Q /\ post = [k \in 1..Q |-> post[k]]
    BY <1>3
  <2>4. post \in [1..Q -> Row]
    BY <2>2, <2>3
  <2>5. post \in Seq(Row) /\ Len(post) = Q
    BY <2>4
  <2> QED BY <2>2, <2>5
<1>10. PICK two : two = pre \o mid
  OBVIOUS
<1>11. /\ two \in Seq(Row) /\ Len(two) = P + 1
       /\ (\A k \in 1..P : two[k] = pre[k]) /\ two[P + 1] = mid[1]
  <2>1. pre \in Seq(Row) /\ mid \in Seq(Row) /\ Len(pre) = P /\ Len(mid) = 1 /\ 1 \in 1..1
    BY <1>7, <1>8
  <2>2. IsJoin(two, pre, mid, Row)
    BY <2>1, <1>10, Joined
  <2> QED BY <2>1, <2>2 DEF IsJoin
<1>12. PICK lines : lines = two \o post
  OBVIOUS
<1>13. /\ lines \in Seq(Row) /\ Len(lines) = P + 1 + Q
       /\ \A k \in 1..(P + 1) : lines[k] = two[k]
       /\ \A k \in 1..Q : lines[P + 1 + k] = post[k]
  <2>1. two \in Seq(Row) /\ post \in Seq(Row) /\ Len(two) = P + 1 /\ Len(post) = Q
    BY <1>9, <1>11
  <2>2. IsJoin(lines, two, post, Row)
    BY <2>1, <1>12, Joined
  <2> QED BY <2>1, <2>2 DEF IsJoin
<1>14. lines = ContextLines(f)
  BY <1>5, <1>10, <1>12
<1>15. DOMAIN lines = 1..(P + 1 + Q) /\ 1 \in DOMAIN lines
  BY <1>13
<1>16. ASSUME NEW k \in DOMAIN lines
       PROVE  k \in Nat /\ lines[k].no = L - P + k - 1 /\ (lines[k].current => k = P + 1)
  <2>1. CASE k \in 1..P
    <3>1. k \in 1..(P + 1) /\ lines[k] = pre[k]
      BY <2>1, <1>11, <1>13
    <3> QED BY <3>1, <2>1, <1>7
  <2>2. CASE k = P + 1
    <3>1. k \in 1..(P + 1) /\ lines[k] = mid[1]
      BY <2>2, <1>11, <1>13
    <3> QED BY <3>1, <2>2, <1>8
  <2>3. CASE k \in (P + 2)..(P + 1 + Q)
    <3>1. k - P - 1 \in 1..Q /\ P + 1 + (k - P - 1) = k
      BY <2>3
    <3>2. lines[k] = post[k - P - 1]
      BY <3>1, <1>13
    <3>3. lines[k].no = L + (k - P - 1) /\ lines[k].current = FALSE
      BY <3>1, <3>2, <1>9
    <3>4. L + (k - P - 1) = L - P + k - 1
      BY <2>3
    <3> QED BY <3>3, <3>4, <2>3
  <2> QED BY <2>1, <2>2, <2>3, <1>15
<1> QED BY <1>0, <1>14, <1>15, <1>16

LEMMA LinesHold == ASSUME EventAssumption, EventTInv PROVE LinesAgree
<1> DEFINE Frame(x, r) == event.exceptions[x][shownFrames(event.exceptions[x], showAll[x])[r]]
           Agree(f, lines) == /\ \A k \in DOMAIN lines : lines[k].no = lines[1].no + k - 1
                              /\ \A k \in DOMAIN lines :
                                   lines[k].current => lines[k].no = blameLine(f)
           Holds(x, r) == /\ opened[x][r] /\ Frame(x, r).context # "absent"
                          /\ Frame(x, r).line > Frame(x, r).pre
                          => Agree(Frame(x, r), ContextLines(Frame(x, r)))
<1>l. LinesAgree <=> \A x \in DOMAIN opened : \A r \in DOMAIN opened[x] : Holds(x, r)
  BY Zenon DEF LinesAgree
<1> SUFFICES ASSUME NEW x \in DOMAIN opened, NEW r \in DOMAIN opened[x], NEW f, f = Frame(x, r),
                    f.context # "absent", f.line > f.pre, NEW k \in DOMAIN ContextLines(f)
             PROVE  /\ ContextLines(f)[k].no = ContextLines(f)[1].no + k - 1
                    /\ ContextLines(f)[k].current => ContextLines(f)[k].no = blameLine(f)
  <2> HIDE DEF Frame
  <2> QED BY <1>l
<1>1. x \in DOMAIN event.exceptions /\ r \in DOMAIN shownFrames(event.exceptions[x], showAll[x])
      /\ showAll[x] \in BOOLEAN
  BY DEF EventTInv
<1>2. PICK trace : trace = event.exceptions[x]
  OBVIOUS
<1>3. trace \in Seq(Frames)
  BY <1>1, <1>2 DEF EventTInv
<1>4. PICK rows : rows = shownFrames(trace, showAll[x])
  OBVIOUS
<1>5. rows \in Seq(Nat) /\ \A n \in 1..Len(rows) : rows[n] = Len(trace) - n + 1 /\ n \in 1..Len(trace)
  BY <1>1, <1>3, <1>4, ShownIs
<1>6. r \in 1..Len(rows)
  BY <1>1, <1>2, <1>4, <1>5
<1>7. rows[r] \in 1..Len(trace)
  <2>1. Len(trace) \in Nat /\ r \in 1..Len(trace)
    BY <1>3, <1>5, <1>6
  <2> QED BY <2>1, <1>5, <1>6
<1>8. f \in Frames
  BY <1>2, <1>3, <1>4, <1>7
<1>9. f.line \in Nat /\ f.pre \in Nat /\ f.post \in Nat
  BY <1>8 DEF EventAssumption
<1>10. \A n \in DOMAIN ContextLines(f) :
           /\ n \in Nat /\ 1 \in DOMAIN ContextLines(f)
           /\ ContextLines(f)[n].no = f.line - f.pre + n - 1
           /\ ContextLines(f)[n].current => n = f.pre + 1
  BY <1>9, LinesAre
<1>11. /\ k \in Nat /\ ContextLines(f)[1].no = f.line - f.pre + 1 - 1
       /\ ContextLines(f)[k].no = f.line - f.pre + k - 1
       /\ ContextLines(f)[k].current => k = f.pre + 1
  BY <1>10
<1> QED BY <1>9, <1>11 DEF blameLine

(* Crumbs that all match, listed in the order of places or the other way.  *)
AllMatch == filter.cat = AnyText /\ filter.q = AnyText

LEMMA IntervalSize ==
  ASSUME NEW a \in Nat, NEW b \in Nat, a <= b + 1
  PROVE  Cardinality(a..b) = b - a + 1
<1>1. Cardinality(a..b) = IF a > b THEN 0 ELSE b - a + 1
  BY FS_Interval
<1> QED BY <1>1

LEMMA ItemsInOrder ==
  ASSUME EventAssumption, EventTInv, AllMatch, NEW n \in Nat, n = Len(event.crumbs),
         \A i, j \in 1..n : i < j => event.crumbs[i].timestamp <= event.crumbs[j].timestamp,
         filter.order = "oldest", InWords = {}
  PROVE  items = [k \in 1..n |-> k]
<1> DEFINE kept == {i \in DOMAIN event.crumbs : Matches(event.crumbs[i])}
           Time(i) == IF event.crumbs[i].timestamp # 0 THEN event.crumbs[i].timestamp ELSE i - 1
           Before(i) == {j \in kept :
             \/ IF filter.order = "oldest" THEN Time(j) < Time(i) ELSE Time(i) < Time(j)
             \/ Time(i) = Time(j) /\ j < i}
<1>1. items = [k \in 1..Cardinality(kept) |-> CHOOSE i \in kept : Cardinality(Before(i)) = k - 1]
  <2>1. kept \cap InWords = {}
    OBVIOUS
  <2> QED BY <2>1 DEF items
<1>2. kept = 1..n
  <2>1. DOMAIN event.crumbs = 1..n
    BY DEF EventTInv
  <2>2. \A i \in 1..n : Matches(event.crumbs[i])
    BY DEF AllMatch, Matches
  <2> QED BY <2>1, <2>2
<1>3. \A i \in 1..n : /\ event.crumbs[i].timestamp \in Nat
                      /\ event.crumbs[i].timestamp # 0 => event.crumbs[i].timestamp >= n
  <2>1. TraceLength \in Nat /\ n <= TraceLength
    BY DEF EventAssumption, EventTInv
  <2>2. \A i \in 1..n : event.crumbs[i] \in Crumbs
    BY DEF EventTInv
  <2>3. ASSUME NEW i \in 1..n
        PROVE  /\ event.crumbs[i].timestamp \in Nat
               /\ event.crumbs[i].timestamp # 0 => event.crumbs[i].timestamp >= TraceLength
    BY <2>2 DEF EventAssumption
  <2> QED BY <2>1, <2>3
<1>4. \A i \in 1..n : Time(i) \in Nat
  BY <1>3
<1>5. \A i, j \in 1..n : i < j => Time(i) <= Time(j)
  <2> TAKE i, j \in 1..n
  <2> HAVE i < j
  <2>1. PICK s, t \in Nat : s = event.crumbs[i].timestamp /\ t = event.crumbs[j].timestamp
    BY <1>3
  <2>2. s <= t /\ (s # 0 => s >= n) /\ (t # 0 => t >= n)
    BY <2>1, <1>3
  <2>3. Time(i) = (IF s # 0 THEN s ELSE i - 1) /\ Time(j) = IF t # 0 THEN t ELSE j - 1
    BY <2>1
  <2> HIDE DEF Time
  <2> QED BY <2>2, <2>3
<1>6. ASSUME NEW i \in 1..n PROVE Cardinality(Before(i)) = i - 1
  <2>1. Before(i) = 1..(i - 1)
    <3>1. \A j \in 1..n : j \in Before(i) <=> Time(j) < Time(i) \/ (Time(i) = Time(j) /\ j < i)
      BY <1>2
    <3>2. \A j \in 1..n : j < i => j \in Before(i)
      <4> HIDE DEF Before, Time
      <4> QED BY <3>1, <1>4, <1>5
    <3>3. \A j \in 1..n : ~(j < i) => ~(j \in Before(i))
      <4> HIDE DEF Before, Time
      <4>1. \A j \in 1..n : ~(j < i) => Time(i) <= Time(j)
        BY <1>4, <1>5
      <4> QED BY <4>1, <3>1, <1>4
    <3>4. Before(i) \subseteq 1..n
      BY <1>2
    <3> HIDE DEF Before
    <3>5. \A j \in 1..n : j < i <=> j \in 1..(i - 1)
      OBVIOUS
    <3>6. 1..(i - 1) \subseteq 1..n
      OBVIOUS
    <3>7. \A j \in 1..n : j \in Before(i) <=> j \in 1..(i - 1)
      BY <3>2, <3>3, <3>5
    <3> QED BY <3>4, <3>6, <3>7, Zenon
  <2> HIDE DEF Before
  <2>2. 1 \in Nat /\ i - 1 \in Nat /\ 1 <= (i - 1) + 1
    OBVIOUS
  <2> QED BY <2>1, <2>2, IntervalSize
<1>7. Cardinality(kept) = n
  <2> HIDE DEF kept
  <2> QED BY <1>2, IntervalSize
<1> HIDE DEF kept, Before
<1>8. ASSUME NEW k \in 1..n PROVE (CHOOSE i \in kept : Cardinality(Before(i)) = k - 1) = k
  <2>1. k \in kept /\ Cardinality(Before(k)) = k - 1
    BY <1>2, <1>6
  <2>2. \A i \in kept : Cardinality(Before(i)) = k - 1 => i = k
    BY <1>2, <1>6
  <2> QED BY <2>1, <2>2
<1> QED BY <1>1, <1>7, <1>8

LEMMA ItemsReversed ==
  ASSUME EventAssumption, EventTInv, AllMatch, NEW n \in Nat, n = Len(event.crumbs),
         \A i, j \in 1..n : i < j => event.crumbs[i].timestamp < event.crumbs[j].timestamp,
         filter.order = "newest", InWords = {}
  PROVE  items = [k \in 1..n |-> n - k + 1]
<1> DEFINE kept == {i \in DOMAIN event.crumbs : Matches(event.crumbs[i])}
           Time(i) == IF event.crumbs[i].timestamp # 0 THEN event.crumbs[i].timestamp ELSE i - 1
           Before(i) == {j \in kept :
             \/ IF filter.order = "oldest" THEN Time(j) < Time(i) ELSE Time(i) < Time(j)
             \/ Time(i) = Time(j) /\ j < i}
<1>1. items = [k \in 1..Cardinality(kept) |-> CHOOSE i \in kept : Cardinality(Before(i)) = k - 1]
  <2>1. kept \cap InWords = {}
    OBVIOUS
  <2> QED BY <2>1 DEF items
<1>2. kept = 1..n
  <2>1. DOMAIN event.crumbs = 1..n
    BY DEF EventTInv
  <2>2. \A i \in 1..n : Matches(event.crumbs[i])
    BY DEF AllMatch, Matches
  <2> QED BY <2>1, <2>2
<1>3. \A i \in 1..n : /\ event.crumbs[i].timestamp \in Nat
                      /\ event.crumbs[i].timestamp # 0 => event.crumbs[i].timestamp >= n
  <2>1. TraceLength \in Nat /\ n <= TraceLength
    BY DEF EventAssumption, EventTInv
  <2>2. \A i \in 1..n : event.crumbs[i] \in Crumbs
    BY DEF EventTInv
  <2>3. ASSUME NEW i \in 1..n
        PROVE  /\ event.crumbs[i].timestamp \in Nat
               /\ event.crumbs[i].timestamp # 0 => event.crumbs[i].timestamp >= TraceLength
    BY <2>2 DEF EventAssumption
  <2> QED BY <2>1, <2>3
<1>4. \A i \in 1..n : Time(i) \in Nat
  BY <1>3
<1>5. \A i, j \in 1..n : i < j => Time(i) < Time(j)
  <2> TAKE i, j \in 1..n
  <2> HAVE i < j
  <2>1. PICK s, t \in Nat : s = event.crumbs[i].timestamp /\ t = event.crumbs[j].timestamp
    BY <1>3
  <2>2. s < t /\ (s # 0 => s >= n) /\ (t # 0 => t >= n)
    BY <2>1, <1>3
  <2>3. Time(i) = (IF s # 0 THEN s ELSE i - 1) /\ Time(j) = IF t # 0 THEN t ELSE j - 1
    BY <2>1
  <2> HIDE DEF Time
  <2> QED BY <2>2, <2>3
<1>6. ASSUME NEW i \in 1..n PROVE Cardinality(Before(i)) = n - i
  <2>1. Before(i) = (i + 1)..n
    <3>1. \A j \in 1..n : j \in Before(i) <=> Time(i) < Time(j) \/ (Time(i) = Time(j) /\ j < i)
      BY <1>2
    <3>2. \A j \in 1..n : i < j => j \in Before(i)
      <4> HIDE DEF Before, Time
      <4> QED BY <3>1, <1>5
    <3>3. \A j \in 1..n : ~(i < j) => ~(j \in Before(i))
      <4> HIDE DEF Before, Time
      <4>1. \A j \in 1..n : j < i => Time(j) < Time(i)
        BY <1>5
      <4> QED BY <4>1, <3>1, <1>4
    <3>4. Before(i) \subseteq 1..n
      BY <1>2
    <3> HIDE DEF Before
    <3>5. \A j \in 1..n : i < j <=> j \in (i + 1)..n
      OBVIOUS
    <3>6. (i + 1)..n \subseteq 1..n
      OBVIOUS
    <3>7. \A j \in 1..n : j \in Before(i) <=> j \in (i + 1)..n
      BY <3>2, <3>3, <3>5
    <3> QED BY <3>4, <3>6, <3>7, Zenon
  <2> HIDE DEF Before
  <2>2. i + 1 \in Nat /\ i + 1 <= n + 1 /\ n - (i + 1) + 1 = n - i
    OBVIOUS
  <2>3. Cardinality((i + 1)..n) = n - (i + 1) + 1
    BY <2>2, IntervalSize
  <2> QED BY <2>1, <2>2, <2>3
<1>7. Cardinality(kept) = n
  <2> HIDE DEF kept
  <2> QED BY <1>2, IntervalSize
<1> HIDE DEF kept, Before
<1>8. ASSUME NEW k \in 1..n PROVE (CHOOSE i \in kept : Cardinality(Before(i)) = k - 1) = n - k + 1
  <2>1. n - k + 1 \in kept /\ Cardinality(Before(n - k + 1)) = k - 1
    <3>1. n - k + 1 \in 1..n /\ n - (n - k + 1) = k - 1
      OBVIOUS
    <3> QED BY <3>1, <1>2, <1>6
  <2>2. ASSUME NEW i \in kept, Cardinality(Before(i)) = k - 1 PROVE i = n - k + 1
    <3>1. i \in 1..n /\ n - i = k - 1
      BY <2>2, <1>2, <1>6
    <3> QED BY <3>1
  <2> QED BY <2>1, <2>2
<1> QED BY <1>1, <1>7, <1>8

LEMMA ItemsAsSent ==
  ASSUME EventTInv, AllMatch, NEW n \in Nat, n = Len(event.crumbs),
         InWords = 1..n
  PROVE  items = [k \in 1..n |-> k]
<1> DEFINE kept == {i \in DOMAIN event.crumbs : Matches(event.crumbs[i])}
           words == kept \cap InWords
           Time(i) == IF event.crumbs[i].timestamp # 0 THEN event.crumbs[i].timestamp ELSE i - 1
           Sent(i) == {j \in kept : j < i}
           Sorted(i) ==
             {j \in kept :
                \/ IF filter.order = "oldest" THEN Time(j) < Time(i) ELSE Time(i) < Time(j)
                \/ Time(i) = Time(j) /\ j < i}
           Before(i) == IF words # {} THEN Sent(i) ELSE Sorted(i)
<1>2. kept = 1..n
  <2>1. DOMAIN event.crumbs = 1..n
    BY DEF EventTInv
  <2>2. \A i \in 1..n : Matches(event.crumbs[i])
    BY DEF AllMatch, Matches
  <2> QED BY <2>1, <2>2
<1>1. items = [k \in 1..Cardinality(kept) |-> CHOOSE i \in kept : Cardinality(Before(i)) = k - 1]
  <2>1. words = kept
    BY <1>2
  <2> QED BY <2>1 DEF items
<1>6. ASSUME NEW i \in 1..n PROVE Cardinality(Before(i)) = i - 1
  <2>0. words # {}
    BY <1>2
  <2>1. Before(i) = 1..(i - 1)
    <3>1. \A j : j \in Before(i) <=> j \in kept /\ j < i
      <4>1. Before(i) = Sent(i)
        <5> HIDE DEF words, Sent, Sorted
        <5> QED BY <2>0
      <4> HIDE DEF Before, kept
      <4> QED BY <4>1
    <3> HIDE DEF Before, kept
    <3>2. \A j : j \in Before(i) <=> j \in 1..(i - 1)
      BY <3>1, <1>2
    <3> QED BY <3>2, Zenon
  <2>2. 1 \in Nat /\ i - 1 \in Nat /\ 1 <= (i - 1) + 1
    OBVIOUS
  <2> HIDE DEF Before
  <2> QED BY <2>1, <2>2, IntervalSize
<1>7. Cardinality(kept) = n
  <2> HIDE DEF kept
  <2> QED BY <1>2, IntervalSize
<1> HIDE DEF kept, Before
<1>8. ASSUME NEW k \in 1..n PROVE (CHOOSE i \in kept : Cardinality(Before(i)) = k - 1) = k
  <2>1. k \in kept /\ Cardinality(Before(k)) = k - 1
    BY <1>2, <1>6
  <2>2. \A i \in kept : Cardinality(Before(i)) = k - 1 => i = k
    BY <1>2, <1>6
  <2> QED BY <2>1, <2>2
<1> QED BY <1>1, <1>7, <1>8

LEMMA PrefixIs ==
  ASSUME NEW s \in Seq(Nat), NEW t \in Seq(Nat), Len(s) <= Len(t), \A k \in 1..Len(s) : s[k] = t[k]
  PROVE  IsPrefix(s, t)
<1>1. PICK m \in Nat : m = Len(s)
  OBVIOUS
<1>2. SubSeq(s, 1, m) = [k \in 1..m |-> s[k]] /\ SubSeq(t, 1, m) = [k \in 1..m |-> t[k]]
  BY <1>1
<1>3. SubSeq(s, 1, m) = SubSeq(t, 1, m)
  BY <1>1, <1>2
<1> QED BY <1>1, <1>3 DEF IsPrefix

LEMMA ReverseIs ==
  ASSUME NEW s \in Seq(Nat)
  PROVE  /\ Reverse(s) \in Seq(Nat) /\ Len(Reverse(s)) = Len(s)
         /\ \A k \in 1..Len(s) : Reverse(s)[k] = s[Len(s) - k + 1]
<1>1. PICK n \in Nat : n = Len(s)
  OBVIOUS
<1>2. Reverse(s) = [k \in 1..n |-> s[(n - k) + 1]]
  BY <1>1 DEF Reverse
<1>3. \A k \in 1..n : (n - k) + 1 \in 1..n /\ s[(n - k) + 1] \in Nat
  BY <1>1
<1>4. Reverse(s) \in [1..n -> Nat]
  BY <1>2, <1>3
<1> QED BY <1>1, <1>2, <1>4

\* Read from its end, the copy is the places from the last one down.
LEMMA CopiedIs ==
  ASSUME EventAssumption, NEW n \in Nat, event.crumbs \in Seq(Crumbs), n = Len(event.crumbs)
  PROVE  /\ Reverse(copied) \in Seq(Nat) /\ Len(Reverse(copied)) <= n
         /\ \A k \in 1..Len(Reverse(copied)) : Reverse(copied)[k] = n - k + 1
<1>1. PICK all : all = Places(event.crumbs)
  OBVIOUS
<1>2. all \in Seq(Nat) /\ Len(all) = n /\ \A k \in 1..n : all[k] = k
  BY <1>1, PlacesAre
<1>2a. MarkdownCrumbs \in Nat /\ MarkdownCrumbs > 0
  BY DEF EventAssumption
<1>3. PICK a : a = IF Len(all) > MarkdownCrumbs THEN Len(all) - MarkdownCrumbs + 1 ELSE 1
  OBVIOUS
<1>4. a \in Nat /\ a >= 1 /\ a <= n + 1
  <2>1. CASE n > MarkdownCrumbs
    BY <2>1, <1>2, <1>2a, <1>3
  <2>2. CASE ~(n > MarkdownCrumbs)
    BY <2>2, <1>2, <1>2a, <1>3
  <2> QED BY <2>1, <2>2
<1>5. copied = SubSeq(all, a, n)
  <2>1. copied = SubSeq(all, IF Len(all) > MarkdownCrumbs THEN Len(all) - MarkdownCrumbs + 1 ELSE 1, Len(all))
    BY <1>1 DEF copied
  <2>2. copied = SubSeq(all, a, Len(all))
    BY <1>3, <2>1, Zenon
  <2> QED BY <2>2, <1>2
<1>6. PICK m \in Nat : m = n - a + 1
  <2>1. n - a + 1 \in Nat
    BY <1>4
  <2> QED BY <2>1
<1>7. PICK c : c = copied
  OBVIOUS
<1>8. c = [k \in 1..m |-> all[a + k - 1]]
  BY <1>2, <1>4, <1>5, <1>6, <1>7
<1>9. \A k \in 1..m : c[k] = a + k - 1 /\ a + k - 1 \in Nat
  <2> TAKE k \in 1..m
  <2>1. PICK i \in 1..n : i = a + k - 1
    BY <1>4, <1>6
  <2>2. c[k] = all[i] /\ all[i] = i
    BY <2>1, <1>2, <1>8
  <2> QED BY <2>1, <2>2
<1>10. c \in [1..m -> Nat]
  BY <1>8, <1>9
<1>11. c \in Seq(Nat) /\ Len(c) = m
  BY <1>10
<1>12. PICK r : r = Reverse(c)
  OBVIOUS
<1>13. r \in Seq(Nat) /\ Len(r) = m /\ \A k \in 1..m : r[k] = c[m - k + 1]
  BY <1>11, <1>12, ReverseIs
<1>14. \A k \in 1..m : r[k] = n - k + 1
  <2> TAKE k \in 1..m
  <2>0. m - k + 1 \in 1..m
    OBVIOUS
  <2>1. PICK i \in 1..m : i = m - k + 1
    BY <2>0
  <2>2. r[k] = c[i] /\ c[i] = a + i - 1
    BY <2>1, <1>9, <1>13
  <2> QED BY <2>1, <2>2, <1>4, <1>6
<1>15. m <= n
  BY <1>4, <1>6
<1> QED BY <1>7, <1>12, <1>13, <1>14, <1>15

LEMMA CrumbsHold == ASSUME EventAssumption, EventTInv PROVE CrumbsAgree
<1>0. PICK n \in Nat : n = Len(event.crumbs) /\ DOMAIN event.crumbs = 1..n
  <2>1. event.crumbs \in Seq(Crumbs)
    BY DEF EventTInv
  <2> QED BY <2>1
<1>1. PICK r : r = Reverse(copied)
  OBVIOUS
<1>2. event.crumbs \in Seq(Crumbs)
  BY DEF EventTInv
<1>3. r \in Seq(Nat) /\ Len(r) <= n /\ \A k \in 1..Len(r) : r[k] = n - k + 1
  BY <1>0, <1>1, <1>2, CopiedIs
<1>4. ASSUME items = [k \in 1..n |-> k] PROVE IsSuffix(copied, items)
  <2>2. items \in [1..n -> Nat]
    BY <1>4
  <2>3. items \in Seq(Nat) /\ Len(items) = n
    BY <2>2
  <2>4. PICK t : t = Reverse(items)
    OBVIOUS
  <2>5. t \in Seq(Nat) /\ Len(t) = n /\ \A k \in 1..n : t[k] = items[n - k + 1]
    BY <2>3, <2>4, ReverseIs
  <2>6. \A k \in 1..n : t[k] = n - k + 1
    <3>1. \A k \in 1..n : n - k + 1 \in 1..n
      OBVIOUS
    <3> QED BY <3>1, <1>4, <2>5
  <2>7. \A k \in 1..Len(r) : k \in 1..n
    BY <1>3
  <2>8. \A k \in 1..Len(r) : r[k] = t[k]
    BY <2>6, <2>7, <1>3
  <2>9. IsPrefix(r, t)
    BY <2>5, <2>8, <1>3, PrefixIs
  <2> QED BY <2>4, <2>9, <1>1 DEF IsSuffix
<1>4a. ASSUME AllMatch, InWords = {}, filter.order = "oldest",
              \A i, j \in 1..n : i < j => event.crumbs[i].timestamp <= event.crumbs[j].timestamp
       PROVE  IsSuffix(copied, items)
  BY <1>0, <1>4, <1>4a, ItemsInOrder
<1>4b. ASSUME AllMatch, InWords = 1..n PROVE IsSuffix(copied, items)
  BY <1>0, <1>4, <1>4b, ItemsAsSent
<1>5. ASSUME AllMatch, InWords = {}, filter.order = "newest",
             \A i, j \in 1..n : i < j => event.crumbs[i].timestamp < event.crumbs[j].timestamp
      PROVE  IsPrefix(Reverse(copied), items)
  <2>1. items = [k \in 1..n |-> n - k + 1]
    BY <1>0, <1>5, ItemsReversed
  <2>2. \A k \in 1..n : n - k + 1 \in Nat
    OBVIOUS
  <2>3. items \in [1..n -> Nat]
    BY <2>1, <2>2
  <2>4. items \in Seq(Nat) /\ Len(items) = n
    BY <2>3
  <2>5. \A k \in 1..Len(r) : k \in 1..n
    BY <1>3
  <2>6. \A k \in 1..Len(r) : r[k] = items[k]
    BY <2>1, <2>5, <1>3
  <2> QED BY <2>4, <2>6, <1>1, <1>3, PrefixIs
<1>6. ASSUME NEW stamps, stamps = [i \in DOMAIN event.crumbs |-> event.crumbs[i].timestamp]
      PROVE  DOMAIN stamps = 1..n /\ \A i \in 1..n : stamps[i] = event.crumbs[i].timestamp
  BY <1>0, <1>6
<1> QED BY <1>0, <1>4a, <1>4b, <1>5, <1>6 DEF CrumbsAgree, AllMatch

-----------------------------------------------------------------------------
LEMMA EventsTyped ==
  ASSUME EventAssumption, NEW e \in Events
  PROVE  /\ e.exceptions \in Seq(Seq(Frames)) /\ e.crumbs \in Seq(Crumbs)
         /\ Len(e.crumbs) <= TraceLength
<1>0. TraceLength \in Nat
  BY DEF EventAssumption
<1>1. PICK traces : traces = UNION {[1..n -> Frames] : n \in 0..TraceLength}
  OBVIOUS
<1>2. PICK trails : trails = UNION {[1..n -> Crumbs] : n \in 0..TraceLength}
  OBVIOUS
<1>3. traces \subseteq Seq(Frames)
  <2>1. ASSUME NEW t \in traces PROVE t \in Seq(Frames)
    <3>1. PICK n \in 0..TraceLength : t \in [1..n -> Frames]
      BY <1>1
    <3> QED BY <3>1
  <2> QED BY <2>1
<1>4. \A c \in trails : c \in Seq(Crumbs) /\ Len(c) <= TraceLength
  <2>1. ASSUME NEW c \in trails PROVE c \in Seq(Crumbs) /\ Len(c) <= TraceLength
    <3>1. PICK n \in 0..TraceLength : c \in [1..n -> Crumbs]
      BY <1>2
    <3>2. c \in Seq(Crumbs) /\ Len(c) = n
      BY <3>1
    <3> QED BY <3>2, <1>0
  <2> QED BY <2>1
<1>5. \/ \E t \in traces : e = [exceptions |-> <<t>>, crumbs |-> <<>>]
      \/ \E f, g \in Frames : e = [exceptions |-> <<<<f>>, <<g>>>>, crumbs |-> <<>>]
      \/ \E c \in trails : e = [exceptions |-> <<>>, crumbs |-> c]
  BY <1>1, <1>2 DEF Events
<1>6. CASE \E t \in traces : e = [exceptions |-> <<t>>, crumbs |-> <<>>]
  <2>1. PICK t \in traces : e = [exceptions |-> <<t>>, crumbs |-> <<>>]
    BY <1>6
  <2>2. t \in Seq(Frames)
    BY <1>3
  <2>3. <<t>> \in Seq(Seq(Frames)) /\ <<>> \in Seq(Crumbs) /\ Len(<<>>) = 0
    BY <2>2
  <2> QED BY <2>1, <2>3, <1>0
<1>7. CASE \E f, g \in Frames : e = [exceptions |-> <<<<f>>, <<g>>>>, crumbs |-> <<>>]
  <2>1. PICK f, g \in Frames : e = [exceptions |-> <<<<f>>, <<g>>>>, crumbs |-> <<>>]
    BY <1>7
  <2>2. <<f>> \in Seq(Frames) /\ <<g>> \in Seq(Frames)
    OBVIOUS
  <2>3. PICK u, v \in Seq(Frames) : u = <<f>> /\ v = <<g>>
    BY <2>2
  <2>4. <<u, v>> \in Seq(Seq(Frames)) /\ <<>> \in Seq(Crumbs) /\ Len(<<>>) = 0
    OBVIOUS
  <2> QED BY <2>1, <2>3, <2>4, <1>0
<1>8. CASE \E c \in trails : e = [exceptions |-> <<>>, crumbs |-> c]
  <2>1. PICK c \in trails : e = [exceptions |-> <<>>, crumbs |-> c]
    BY <1>8
  <2>2. <<>> \in Seq(Seq(Frames))
    OBVIOUS
  <2> QED BY <2>1, <2>2, <1>4
<1> QED BY <1>5, <1>6, <1>7, <1>8

LEMMA MountedRows ==
  ASSUME NEW trace, NEW all, NEW before, NEW m, m = Mounted(trace, all, before)
  PROVE  DOMAIN m = DOMAIN shownFrames(trace, all)
BY DEF Mounted

LEMMA EventTypes == EventSpec => []EventTInv
<1> USE EventAssumption
<1>1. EventInit => EventTInv
  <2> SUFFICES ASSUME EventInit PROVE EventTInv
    OBVIOUS
  <2>1. /\ event \in Events /\ showAll = [x \in DOMAIN event.exceptions |-> FALSE]
        /\ opened = [x \in DOMAIN event.exceptions |-> Mounted(event.exceptions[x], FALSE, <<>>)]
    BY DEF EventInit
  <2>2. /\ event.exceptions \in Seq(Seq(Frames)) /\ event.crumbs \in Seq(Crumbs)
        /\ Len(event.crumbs) <= TraceLength
    BY <2>1, EventsTyped
  <2>3. ASSUME NEW x \in DOMAIN event.exceptions
        PROVE  showAll[x] \in BOOLEAN /\ DOMAIN opened[x] = DOMAIN shownFrames(event.exceptions[x], showAll[x])
    <3>1. showAll[x] = FALSE /\ opened[x] = Mounted(event.exceptions[x], FALSE, <<>>)
      BY <2>1
    <3>2. opened[x] = Mounted(event.exceptions[x], showAll[x], <<>>)
      BY <3>1, Zenon
    <3>3. showAll[x] \in BOOLEAN
      BY <3>1
    <3>4. DOMAIN opened[x] = DOMAIN shownFrames(event.exceptions[x], showAll[x])
      BY <3>2, MountedRows
    <3> QED BY <3>3, <3>4
  <2>4. DOMAIN showAll = DOMAIN event.exceptions /\ DOMAIN opened = DOMAIN event.exceptions
    BY <2>1
  <2> QED BY <2>2, <2>3, <2>4 DEF EventTInv
<1>2. EventTInv /\ [EventNext]_evars => EventTInv'
  <2> SUFFICES ASSUME EventTInv, [EventNext]_evars PROVE EventTInv'
    OBVIOUS
  <2>1. ASSUME NEW e \in Events, Refetched(e) PROVE EventTInv'
    <3>1. PICK all : all = [x \in DOMAIN e.exceptions |-> x \in DOMAIN showAll /\ showAll[x]]
      OBVIOUS
    <3>2. PICK before : before = [x \in DOMAIN e.exceptions |-> IF x \in DOMAIN opened THEN opened[x] ELSE <<>>]
      OBVIOUS
    <3>3. /\ event' = e
          /\ DOMAIN showAll' = DOMAIN e.exceptions /\ DOMAIN opened' = DOMAIN e.exceptions
          /\ \A x \in DOMAIN e.exceptions :
               /\ showAll'[x] = all[x]
               /\ opened'[x] = Mounted(e.exceptions[x], all[x], before[x])
      BY <2>1, <3>1, <3>2 DEF Refetched
    <3>4. /\ e.exceptions \in Seq(Seq(Frames)) /\ e.crumbs \in Seq(Crumbs)
          /\ Len(e.crumbs) <= TraceLength
      BY EventsTyped
    <3>5. \A x \in DOMAIN e.exceptions : all[x] \in BOOLEAN
      BY <3>1 DEF EventTInv
    <3>6. \A x \in DOMAIN event'.exceptions :
            showAll'[x] \in BOOLEAN /\ DOMAIN opened'[x] = DOMAIN shownFrames(event'.exceptions[x], showAll'[x])
      BY <3>3, <3>5, MountedRows
    <3> QED BY <3>3, <3>4, <3>6 DEF EventTInv, shownFrames
  <2>2. ASSUME NEW x \in DOMAIN event.exceptions, ShowAll(x) PROVE EventTInv'
    <3>1. /\ event' = event /\ showAll' = [showAll EXCEPT ![x] = TRUE]
          /\ opened' = [opened EXCEPT ![x] = Mounted(event.exceptions[x], TRUE, opened[x])]
      BY <2>2 DEF ShowAll
    <3>2. /\ DOMAIN showAll' = DOMAIN event.exceptions /\ DOMAIN opened' = DOMAIN event.exceptions
          /\ \A y \in DOMAIN event.exceptions :
               /\ showAll'[y] = IF y = x THEN TRUE ELSE showAll[y]
               /\ opened'[y] = IF y = x THEN Mounted(event.exceptions[x], TRUE, opened[x]) ELSE opened[y]
      BY <3>1 DEF EventTInv
    <3>3. \A y \in DOMAIN event.exceptions :
            showAll'[y] \in BOOLEAN /\ DOMAIN opened'[y] = DOMAIN shownFrames(event.exceptions[y], showAll'[y])
      <4> TAKE y \in DOMAIN event.exceptions
      <4>1. CASE y = x
        <5>1. showAll'[y] = TRUE /\ opened'[y] = Mounted(event.exceptions[y], TRUE, opened[x])
          BY <3>2, <4>1
        <5>2. opened'[y] = Mounted(event.exceptions[y], showAll'[y], opened[x])
          BY <5>1, Zenon
        <5>3. showAll'[y] \in BOOLEAN
          BY <5>1
        <5>4. DOMAIN opened'[y] = DOMAIN shownFrames(event.exceptions[y], showAll'[y])
          BY <5>2, MountedRows
        <5> QED BY <5>3, <5>4
      <4>2. CASE y # x
        BY <3>2, <4>2 DEF EventTInv
      <4> QED BY <4>1, <4>2
    <3> QED BY <3>1, <3>2, <3>3 DEF EventTInv, shownFrames
  <2>3. ASSUME NEW x \in DOMAIN event.exceptions, NEW r \in DOMAIN opened[x], ToggleFrame(x, r) PROVE EventTInv'
    <3>1. event' = event /\ showAll' = showAll /\ opened' = [opened EXCEPT ![x] = [opened[x] EXCEPT ![r] = ~opened[x][r]]]
      BY <2>3 DEF ToggleFrame
    <3>2. DOMAIN opened' = DOMAIN opened /\ \A y \in DOMAIN opened : DOMAIN opened'[y] = DOMAIN opened[y]
      BY <3>1
    <3>3. \A y \in DOMAIN event.exceptions :
            showAll'[y] \in BOOLEAN /\ DOMAIN opened'[y] = DOMAIN shownFrames(event.exceptions[y], showAll'[y])
      BY <3>1, <3>2 DEF EventTInv
    <3> QED BY <3>1, <3>2, <3>3 DEF EventTInv
  <2>4. CASE SetFilter
    BY <2>4 DEF SetFilter, EventTInv, shownFrames
  <2>5. CASE UNCHANGED evars
    BY <2>5 DEF evars, EventTInv, shownFrames
  <2> QED BY <2>1, <2>2, <2>3, <2>4, <2>5 DEF EventNext
<1> QED BY <1>1, <1>2, PTL DEF EventSpec

(* EventInsights, StackTrace, issueMarkdown: whatever traces and crumbs    *)
(* the events have, and whatever was opened, drawn in full or filtered     *)
(* before another event took the place of the one shown, the parts of the  *)
(* page and the copied text agree.                                         *)
THEOREM EventShownRight == EventSpec => []EventAgrees
<1>1. EventTInv => EventAgrees
  BY EventAssumption, CrashIs, LinesHold, CrumbsHold DEF EventAgrees
<1> QED BY <1>1, EventTypes, PTL

(***************************************************************************)
(* The tree of spans                                                       *)
(***************************************************************************)

TreeInv ==
  /\ DOMAIN spans = 1..Len(spans) /\ Len(spans) \in Nat
  /\ \A n \in DOMAIN spans : spans[n].start \in Nat
  /\ \A m, n \in DOMAIN spans : spans[m].id = spans[n].id => m = n

LEMMA TreeTyped == WaterfallSpec => []TreeInv
<1>1. WaterfallInit => TreeInv
  <2> SUFFICES ASSUME WaterfallInit PROVE TreeInv
    OBVIOUS
  <2>1. PICK n \in Nat : spans \in [1..n -> Span]
    BY WaterfallAssumption DEF WaterfallInit, WaterfallAssumption
  <2>2. spans \in Seq(Span) /\ Len(spans) = n
    BY <2>1
  <2>3. \A s \in Span : s.start \in Nat
    BY WaterfallAssumption DEF Span, WaterfallAssumption
  <2>4. \A m, k \in DOMAIN spans : spans[m].id = spans[k].id => m = k
    BY DEF WaterfallInit
  <2> QED BY <2>1, <2>2, <2>3, <2>4 DEF TreeInv
<1>2. TreeInv /\ [\E id \in Ids : toggle(id)]_wvars => TreeInv'
  BY DEF TreeInv, toggle, wvars
<1> QED BY <1>1, <1>2, PTL DEF WaterfallSpec

(* What byStart lists: all of a set, each before those that come later.    *)
Listing(s, S, m) ==
  /\ m \in Nat /\ DOMAIN s = 1..m /\ Len(s) = m
  /\ \A k \in 1..m : s[k] \in S
  /\ \A n \in S : \E k \in 1..m : s[k] = n
  /\ \A j, k \in 1..m : j < k => Earlier(s[j], s[k])

LEMMA EarlierIs ==
  ASSUME TreeInv
  PROVE  /\ \A n \in DOMAIN spans : ~Earlier(n, n)
         /\ \A l, m, n \in DOMAIN spans : Earlier(l, m) /\ Earlier(m, n) => Earlier(l, n)
         /\ \A m, n \in DOMAIN spans : m # n => Earlier(m, n) \/ Earlier(n, m)
<1>1. PICK f : f = [n \in DOMAIN spans |-> spans[n].start]
  OBVIOUS
<1>2. \A n \in DOMAIN spans : f[n] \in Nat /\ n \in Nat
  BY <1>1 DEF TreeInv
<1>3. \A m, n \in DOMAIN spans : Earlier(m, n) <=> f[m] < f[n] \/ (f[m] = f[n] /\ m < n)
  BY <1>1 DEF Earlier
<1> QED BY <1>2, <1>3

LEMMA SortedIs ==
  ASSUME TreeInv, NEW S \in SUBSET DOMAIN spans
  PROVE  Listing(byStart(S), S, Cardinality(S))
<1> DEFINE B(n) == {l \in S : Earlier(l, n)}
<1>1. PICK m : m = Cardinality(S)
  OBVIOUS
<1>2. IsFiniteSet(S) /\ m \in Nat
  <2>1. PICK N \in Nat : DOMAIN spans = 1..N
    BY DEF TreeInv
  <2>2. IsFiniteSet(1..N)
    BY <2>1, FS_Interval
  <2> QED BY <1>1, <2>1, <2>2, FS_Subset, FS_CardinalityType
<1>3. PICK r : r = [n \in S |-> Cardinality(B(n))]
  OBVIOUS
<1>4. ASSUME NEW n \in S PROVE r[n] \in Nat /\ r[n] < m
  <2>1. B(n) \in SUBSET S /\ n \notin B(n)
    BY EarlierIs
  <2> HIDE DEF B
  <2>2. IsFiniteSet(B(n)) /\ Cardinality(B(n)) <= m /\ Cardinality(B(n)) # m
    BY <1>1, <1>2, <2>1, FS_Subset
  <2>3. Cardinality(B(n)) \in Nat
    BY <2>2, FS_CardinalityType
  <2> QED BY <1>2, <1>3, <2>2, <2>3
<1>5. ASSUME NEW k \in S, NEW n \in S, Earlier(k, n) PROVE r[k] < r[n]
  <2>1. B(k) \subseteq B(n) /\ k \in B(n) /\ k \notin B(k) /\ B(n) \subseteq S
    BY <1>5, EarlierIs
  <2> HIDE DEF B
  <2>2. IsFiniteSet(B(n))
    BY <1>2, <2>1, FS_Subset
  <2>3. Cardinality(B(k)) <= Cardinality(B(n)) /\ Cardinality(B(k)) # Cardinality(B(n))
    BY <2>1, <2>2, FS_Subset
  <2>4. r[k] <= r[n] /\ r[k] # r[n]
    BY <1>3, <2>3
  <2> QED BY <1>4, <2>4
<1>6. \A k, n \in S : r[k] = r[n] => k = n
  BY <1>4, <1>5, EarlierIs
<1>7. PICK f : f = [n \in S |-> r[n] + 1]
  OBVIOUS
<1>8. f \in [S -> 1..m] /\ \A k, n \in S : f[k] = f[n] => k = n
  BY <1>2, <1>4, <1>6, <1>7
<1>9. f \in Injection(S, 1..m)
  BY <1>8 DEF Injection, IsInjective
<1>10. IsFiniteSet(1..m) /\ Cardinality(1..m) = m
  BY <1>2, FS_Interval
<1>11. f \in Surjection(S, 1..m)
  BY <1>1, <1>9, <1>10, FS_Injection
<1>12. \A k \in 1..m : \E n \in S : f[n] = k
  BY <1>11 DEF Surjection
<1>13. ASSUME NEW k \in 1..m PROVE \E n \in S : r[n] = k - 1
  <2>1. PICK n \in S : f[n] = k
    BY <1>12
  <2> QED BY <2>1, <1>4, <1>7
<1>14. PICK s : s = [k \in 1..m |-> CHOOSE n \in S : Cardinality(B(n)) = k - 1]
  OBVIOUS
<1>15. byStart(S) = s
  BY <1>1, <1>14 DEF byStart
<1> HIDE DEF B
<1>16. ASSUME NEW k \in 1..m PROVE s[k] \in S /\ r[s[k]] = k - 1
  <2>1. \E n \in S : Cardinality(B(n)) = k - 1
    BY <1>3, <1>13
  <2>2. s[k] \in S /\ Cardinality(B(s[k])) = k - 1
    BY <1>14, <2>1
  <2> QED BY <1>3, <2>2
<1>17. DOMAIN s = 1..m /\ Len(s) = m
  BY <1>2, <1>14
<1>18. ASSUME NEW n \in S PROVE \E k \in 1..m : s[k] = n
  <2>1. PICK k \in 1..m : k = r[n] + 1
    BY <1>2, <1>4
  <2>2. r[s[k]] = r[n] /\ s[k] \in S
    BY <1>4, <1>16, <2>1
  <2> QED BY <1>6, <2>2
<1>19. ASSUME NEW j \in 1..m, NEW k \in 1..m, j < k PROVE Earlier(s[j], s[k])
  <2>1. PICK a \in S : a = s[j] /\ r[a] = j - 1
    BY <1>16
  <2>2. PICK b \in S : b = s[k] /\ r[b] = k - 1
    BY <1>16
  <2>3. a # b /\ ~(r[b] < r[a])
    BY <1>2, <1>19, <2>1, <2>2
  <2>4. ~Earlier(b, a)
    BY <1>5, <2>3
  <2> QED BY <2>1, <2>2, <2>3, <2>4, EarlierIs
<1> QED BY <1>1, <1>2, <1>15, <1>16, <1>17, <1>18, <1>19 DEF Listing

-----------------------------------------------------------------------------
(* A row hangs from another: its span is a child of that of the other,     *)
(* which is expanded, and nothing between them is as shallow.  A forest    *)
(* has heads at one depth, below each of which everything hangs that is to *)
(* be drawn; a tree is a forest with one head, its first row.              *)
Rows == Seq([span : Nat, depth : Nat])
Kids(n) == {c \in DOMAIN spans : HasParent(c) /\ spans[c].parent = spans[n].id}
Shut(n) == spans[n].id \in collapsed
Hangs(R, k, i) ==
  /\ R[i].depth = R[k].depth + 1 /\ R[i].span \in Kids(R[k].span) /\ ~Shut(R[k].span)
  /\ \A l \in (k + 1)..(i - 1) : R[l].depth >= R[i].depth
Placed(R, d, H) ==
  \A i \in DOMAIN R : /\ R[i].span \in DOMAIN spans /\ R[i].depth >= d
                      /\ \/ R[i].depth = d /\ R[i].span \in H
                         \/ \E k \in 1..(i - 1) : Hangs(R, k, i)
Ordered(R) ==
  \A i, k \in DOMAIN R :
    i < k /\ R[i].depth = R[k].depth /\ (\A l \in i..k : R[l].depth >= R[i].depth)
      => Earlier(R[i].span, R[k].span)
Complete(R, d, H) ==
  /\ d < Len(spans) => \A h \in H : \E i \in DOMAIN R : R[i].span = h /\ R[i].depth = d
  /\ \A i \in DOMAIN R : ~Shut(R[i].span) /\ R[i].depth + 1 < Len(spans) =>
       \A c \in Kids(R[i].span) : \E k \in DOMAIN R : R[k].span = c /\ R[k].depth = R[i].depth + 1
Forest(R, d, H) == R \in Rows /\ Placed(R, d, H) /\ Ordered(R) /\ Complete(R, d, H)
Tree(R, d, h) ==
  /\ Forest(R, d, {h}) /\ Len(R) > 0 /\ R[1].span = h /\ R[1].depth = d
  /\ \A i \in 2..Len(R) : R[i].depth > d

LEMMA RowsAre ==
  ASSUME NEW R \in Rows
  PROVE  /\ Len(R) \in Nat /\ DOMAIN R = 1..Len(R)
         /\ \A i \in DOMAIN R : i \in Nat /\ R[i].depth \in Nat /\ R[i].span \in Nat
<1>1. PICK T : T = [span : Nat, depth : Nat]
  OBVIOUS
<1>2. R \in Seq(T)
  BY <1>1 DEF Rows
<1>3. Len(R) \in Nat /\ DOMAIN R = 1..Len(R) /\ \A i \in DOMAIN R : R[i] \in T
  BY <1>2
<1>4. \A r \in T : r.depth \in Nat /\ r.span \in Nat
  BY <1>1
<1> QED BY <1>3, <1>4

(* Another tree behind a forest, with a head after all of its heads.       *)
LEMMA ForestGrows ==
  ASSUME TreeInv, NEW d \in Nat, NEW H \in SUBSET DOMAIN spans, NEW h \in DOMAIN spans,
         NEW F, Forest(F, d, H), NEW B, Tree(B, d, h), \A g \in H : Earlier(g, h),
         NEW U, U = F \o B
  PROVE  Forest(U, d, H \cup {h})
<1>1. F \in Rows /\ B \in Rows
  BY DEF Forest, Tree
<1>2. PICK a, b \in Nat : a = Len(F) /\ b = Len(B)
  BY <1>1, RowsAre
<1>3. /\ DOMAIN F = 1..a /\ DOMAIN B = 1..b /\ b > 0
      /\ \A i \in 1..a : F[i].depth \in Nat
      /\ \A i \in 1..b : B[i].depth \in Nat
  BY <1>1, <1>2, RowsAre DEF Tree
<1>4. /\ U \in Rows /\ DOMAIN U = 1..(a + b)
      /\ \A i \in 1..a : U[i] = F[i]
      /\ \A i \in 1..b : U[a + i] = B[i]
  <2>1. F \in Seq([span : Nat, depth : Nat]) /\ B \in Seq([span : Nat, depth : Nat])
    BY <1>1 DEF Rows
  <2>2. IsJoin(U, F, B, [span : Nat, depth : Nat])
    BY <2>1, Joined
  <2>3. U \in Rows /\ Len(U) = a + b
    BY <2>2, <1>2 DEF IsJoin, Rows
  <2> QED BY <2>2, <2>3, <1>2, RowsAre DEF IsJoin
<1>5. \A i \in 1..(a + b) : i \in 1..a \/ \E j \in 1..b : i = a + j
  <2> TAKE i \in 1..(a + b)
  <2>1. i \in 1..a \/ (i - a \in 1..b /\ i = a + (i - a))
    OBVIOUS
  <2> QED BY <2>1
<1>6. Placed(F, d, H) /\ Ordered(F) /\ Complete(F, d, H)
  BY DEF Forest
<1>7. Placed(B, d, {h}) /\ Ordered(B) /\ Complete(B, d, {h})
  BY DEF Tree, Forest
<1>8. B[1].span = h /\ B[1].depth = d /\ \A i \in 2..b : B[i].depth > d
  BY <1>2 DEF Tree
<1>9. Placed(U, d, H \cup {h})
  <2>1. ASSUME NEW i \in 1..a
        PROVE  /\ U[i].span \in DOMAIN spans /\ U[i].depth >= d
               /\ \/ U[i].depth = d /\ U[i].span \in H \cup {h}
                  \/ \E k \in 1..(i - 1) : Hangs(U, k, i)
    <3>1. F[i].span \in DOMAIN spans /\ F[i].depth >= d /\ U[i] = F[i]
      BY <1>3, <1>4, <1>6 DEF Placed
    <3>2. CASE F[i].depth = d /\ F[i].span \in H
      BY <3>1, <3>2
    <3>3. ASSUME NEW k \in 1..(i - 1), Hangs(F, k, i) PROVE Hangs(U, k, i)
      <4>1. k \in 1..a /\ \A l \in (k + 1)..(i - 1) : l \in 1..a
        BY <1>2
      <4>2. U[k] = F[k] /\ \A l \in (k + 1)..(i - 1) : U[l] = F[l]
        BY <4>1, <1>4
      <4> QED BY <3>1, <3>3, <4>2 DEF Hangs
    <3> QED BY <3>1, <3>2, <3>3, <1>3, <1>6 DEF Placed
  <2>2. ASSUME NEW i \in 1..b
        PROVE  /\ U[a + i].span \in DOMAIN spans /\ U[a + i].depth >= d
               /\ \/ U[a + i].depth = d /\ U[a + i].span \in H \cup {h}
                  \/ \E k \in 1..((a + i) - 1) : Hangs(U, k, a + i)
    <3>1. B[i].span \in DOMAIN spans /\ B[i].depth >= d /\ U[a + i] = B[i]
      BY <1>3, <1>4, <1>7 DEF Placed
    <3>2. CASE B[i].depth = d /\ B[i].span \in {h}
      BY <3>1, <3>2
    <3>3. ASSUME NEW k \in 1..(i - 1), Hangs(B, k, i) PROVE Hangs(U, a + k, a + i)
      <4>1. k \in 1..b /\ U[a + k] = B[k]
        BY <1>2, <1>4
      <4>2. ASSUME NEW l \in ((a + k) + 1)..((a + i) - 1) PROVE U[l].depth >= B[i].depth
        <5>1. PICK q \in (k + 1)..(i - 1) : l = a + q
          <6>1. l - a \in (k + 1)..(i - 1) /\ l = a + (l - a)
            BY <1>2
          <6> QED BY <6>1
        <5>2. q \in 1..b /\ U[l] = B[q]
          BY <1>2, <1>4, <5>1, SMTT(30)
        <5> QED BY <5>1, <5>2, <3>3 DEF Hangs
      <4> QED BY <3>1, <3>3, <4>1, <4>2 DEF Hangs
    <3>4. \A k \in 1..(i - 1) : a + k \in 1..((a + i) - 1)
      BY <1>2
    <3> QED BY <3>1, <3>2, <3>3, <3>4, <1>3, <1>7 DEF Placed
  <2>3. ASSUME NEW i \in 1..(a + b)
        PROVE  /\ U[i].span \in DOMAIN spans /\ U[i].depth >= d
               /\ \/ U[i].depth = d /\ U[i].span \in H \cup {h}
                  \/ \E k \in 1..(i - 1) : Hangs(U, k, i)
    <3>1. CASE i \in 1..a
      BY <2>1, <3>1, Zenon
    <3>2. ASSUME NEW j \in 1..b, i = a + j
          PROVE  /\ U[i].span \in DOMAIN spans /\ U[i].depth >= d
                 /\ \/ U[i].depth = d /\ U[i].span \in H \cup {h}
                    \/ \E k \in 1..(i - 1) : Hangs(U, k, i)
      BY <2>2, <3>2, Zenon
    <3> QED BY <3>1, <3>2, <1>5, Zenon
  <2> QED BY <2>3, <1>4 DEF Placed
<1>10. Ordered(U)
  <2> SUFFICES ASSUME NEW i \in 1..(a + b), NEW k \in 1..(a + b), i < k, U[i].depth = U[k].depth,
                      \A l \in i..k : U[l].depth >= U[i].depth
               PROVE  Earlier(U[i].span, U[k].span)
    BY <1>4 DEF Ordered
  <2>1. CASE k \in 1..a
    <3>1. i \in 1..a /\ \A l \in i..k : l \in 1..a
      BY <1>2, <2>1
    <3>2. U[i] = F[i] /\ U[k] = F[k] /\ \A l \in i..k : U[l] = F[l]
      BY <2>1, <3>1, <1>4
    <3> QED BY <2>1, <3>1, <3>2, <1>3, <1>6 DEF Ordered
  <2>2. ASSUME NEW p \in 1..b, NEW q \in 1..b, i = a + p, k = a + q PROVE Earlier(U[i].span, U[k].span)
    <3>1. p < q /\ U[i] = B[p] /\ U[k] = B[q]
      BY <1>2, <2>2, <1>4, SMTT(30)
    <3>2. \A l \in p..q : l \in 1..b /\ a + l \in i..k
      BY <1>2, <2>2, SMTT(30)
    <3>3. \A l \in p..q : B[l].depth >= B[p].depth
      BY <3>1, <3>2, <1>4
    <3> QED BY <3>1, <3>3, <1>3, <1>7 DEF Ordered
  <2>3. ASSUME NEW q \in 1..b, i \in 1..a, k = a + q PROVE Earlier(U[i].span, U[k].span)
    <3>1. 1 \in 1..b /\ a + 1 \in i..k /\ U[i] = F[i] /\ U[k] = B[q] /\ U[a + 1] = B[1]
      BY <1>2, <1>3, <1>4, <2>3
    <3>2. d >= F[i].depth /\ F[i].depth >= d
      BY <3>1, <1>3, <1>6, <1>8, <2>3 DEF Placed
    <3>3. F[i].depth = d /\ B[q].depth = d
      BY <3>1, <3>2, <1>3, <2>3, SMTT(30)
    <3>4. q = 1
      <4>1. q = 1 \/ q \in 2..b
        BY <1>2
      <4> QED BY <4>1, <3>3, <1>8
    <3>5. F[i].span \in H
      <4>1. ASSUME NEW j \in 1..(i - 1), Hangs(F, j, i) PROVE FALSE
        <5>1. j \in 1..a
          BY <1>2, <2>3
        <5>2. F[j].depth >= d /\ F[j].depth \in Nat /\ F[i].depth = F[j].depth + 1
          BY <5>1, <1>3, <1>6, <4>1 DEF Placed, Hangs
        <5>3. PICK x \in Nat : x = F[j].depth
          BY <5>2
        <5>4. x >= d /\ d = x + 1
          BY <5>2, <5>3, <3>3, Zenon
        <5> QED BY <5>4
      <4> QED BY <4>1, <2>3, <1>3, <1>6 DEF Placed
    <3> QED BY <3>1, <3>4, <3>5, <1>8
  <2>4. i \in 1..a \/ ~(k \in 1..a)
    BY <1>2
  <2> QED BY <2>1, <2>2, <2>3, <2>4, <1>5
<1>11. Complete(U, d, H \cup {h})
  <2>1. \A i \in 1..a : i \in DOMAIN U
    BY <1>4, <1>2
  <2>2. \A i \in 1..b : a + i \in DOMAIN U
    BY <1>4, <1>2
  <2>3. ASSUME d < Len(spans), NEW g \in H \cup {h}
        PROVE  \E i \in DOMAIN U : U[i].span = g /\ U[i].depth = d
    <3>1. CASE g \in H
      <4>1. PICK i \in 1..a : F[i].span = g /\ F[i].depth = d
        BY <2>3, <3>1, <1>3, <1>6 DEF Complete
      <4> QED BY <4>1, <2>1, <1>4
    <3>2. CASE g = h
      <4>1. 1 \in 1..b
        BY <1>3
      <4> QED BY <4>1, <3>2, <2>2, <1>4, <1>8
    <3> QED BY <3>1, <3>2
  <2>4. ASSUME NEW i \in 1..a, ~Shut(U[i].span), U[i].depth + 1 < Len(spans), NEW c \in Kids(U[i].span)
        PROVE  \E k \in DOMAIN U : U[k].span = c /\ U[k].depth = U[i].depth + 1
    <3>1. U[i] = F[i]
      BY <1>4
    <3>a. i \in DOMAIN F /\ ~Shut(F[i].span) /\ F[i].depth + 1 < Len(spans) /\ c \in Kids(F[i].span)
      BY <3>1, <2>4, <1>3, Zenon
    <3>2. PICK k \in DOMAIN F : F[k].span = c /\ F[k].depth = F[i].depth + 1
      BY <3>a, <1>6, Zenon DEF Complete
    <3>b. k \in 1..a
      BY <1>3
    <3> QED BY <3>1, <3>2, <3>b, <2>1, <1>4
  <2>5. ASSUME NEW i \in 1..b, ~Shut(U[a + i].span), U[a + i].depth + 1 < Len(spans),
               NEW c \in Kids(U[a + i].span)
        PROVE  \E k \in DOMAIN U : U[k].span = c /\ U[k].depth = U[a + i].depth + 1
    <3>1. U[a + i] = B[i]
      BY <1>4
    <3>a. i \in DOMAIN B /\ ~Shut(B[i].span) /\ B[i].depth + 1 < Len(spans) /\ c \in Kids(B[i].span)
      BY <3>1, <2>5, <1>3, Zenon
    <3>2. PICK k \in DOMAIN B : B[k].span = c /\ B[k].depth = B[i].depth + 1
      BY <3>a, <1>7, Zenon DEF Complete
    <3>b. k \in 1..b
      BY <1>3
    <3> QED BY <3>1, <3>2, <3>b, <2>2, <1>4
  <2>6. ASSUME NEW i \in 1..(a + b), ~Shut(U[i].span), U[i].depth + 1 < Len(spans), NEW c \in Kids(U[i].span)
        PROVE  \E k \in DOMAIN U : U[k].span = c /\ U[k].depth = U[i].depth + 1
    <3>1. CASE i \in 1..a
      BY <2>4, <2>6, <3>1, Zenon
    <3>2. ASSUME NEW j \in 1..b, i = a + j
          PROVE  \E k \in DOMAIN U : U[k].span = c /\ U[k].depth = U[i].depth + 1
      BY <2>5, <2>6, <3>2, Zenon
    <3> QED BY <3>1, <3>2, <1>5, Zenon
  <2> QED BY <2>3, <2>6, <1>4, Zenon DEF Complete
<1> QED BY <1>4, <1>9, <1>10, <1>11 DEF Forest

LEMMA NoRows ==
  ASSUME NEW d \in Nat, NEW H, H = {} \/ ~(d < Len(spans))
  PROVE  Forest(<<>>, d, H)
<1>1. <<>> \in Rows /\ DOMAIN <<>> = {}
  BY DEF Rows
<1>2. Placed(<<>>, d, H) /\ Ordered(<<>>)
  BY <1>1 DEF Placed, Ordered
<1>3. Complete(<<>>, d, H)
  BY <1>1, Zenon DEF Complete
<1> QED BY <1>1, <1>2, <1>3 DEF Forest

(* The row of a head, and below it the forest of its children.             *)
LEMMA TreeGrows ==
  ASSUME TreeInv, NEW d \in Nat, d < Len(spans), NEW h \in DOMAIN spans,
         NEW F, F = <<>> \/ (~Shut(h) /\ Forest(F, d + 1, Kids(h))),
         ~Shut(h) => Forest(F, d + 1, Kids(h)),
         NEW B, B = <<[span |-> h, depth |-> d]>> \o F
  PROVE  Tree(B, d, h)
<1>1. h \in Nat
  BY DEF TreeInv
<1>2. F \in Rows
  <2>1. <<>> \in Rows
    BY DEF Rows
  <2> QED BY <2>1 DEF Forest
<1>3. PICK b \in Nat : b = Len(F)
  BY <1>2, RowsAre
<1>4. DOMAIN F = 1..b /\ \A i \in 1..b : F[i].depth \in Nat
  BY <1>2, <1>3, RowsAre
<1>5. /\ B \in Rows /\ DOMAIN B = 1..(b + 1) /\ Len(B) = b + 1
      /\ B[1].span = h /\ B[1].depth = d
      /\ \A i \in 1..b : B[i + 1] = F[i]
  <2>1. PICK top : top = <<[span |-> h, depth |-> d]>>
    OBVIOUS
  <2>2. top \in Seq([span : Nat, depth : Nat]) /\ Len(top) = 1 /\ top[1] = [span |-> h, depth |-> d]
    BY <1>1, <2>1
  <2>3. F \in Seq([span : Nat, depth : Nat])
    BY <1>2 DEF Rows
  <2>4. IsJoin(B, top, F, [span : Nat, depth : Nat])
    BY <2>1, <2>2, <2>3, Joined
  <2>5. B \in Rows /\ Len(B) = 1 + b /\ B[1] = [span |-> h, depth |-> d] /\ \A i \in 1..b : B[1 + i] = F[i]
    BY <2>2, <2>4, <1>3 DEF IsJoin, Rows
  <2>6. 1 + b = b + 1 /\ \A i \in 1..b : 1 + i = i + 1
    BY <1>3
  <2>7. DOMAIN B = 1..Len(B)
    BY <2>5, RowsAre
  <2> QED BY <2>5, <2>6, <2>7
<1>6. \A i \in 1..(b + 1) : i = 1 \/ \E j \in 1..b : i = j + 1
  <2> TAKE i \in 1..(b + 1)
  <2>1. i = 1 \/ (i - 1 \in 1..b /\ i = (i - 1) + 1)
    OBVIOUS
  <2> QED BY <2>1
<1>7. b > 0 => ~Shut(h) /\ Forest(F, d + 1, Kids(h))
  BY <1>3
<1>8. \A i \in 1..b : F[i].depth >= d + 1 /\ F[i].span \in DOMAIN spans
  <2> TAKE i \in 1..b
  <2>1. b > 0
    BY <1>3
  <2> QED BY <2>1, <1>4, <1>7 DEF Forest, Placed
<1>9. Placed(B, d, {h})
  <2>1. ASSUME NEW i \in 1..b
        PROVE  /\ B[i + 1].span \in DOMAIN spans /\ B[i + 1].depth >= d
               /\ \E k \in 1..((i + 1) - 1) : Hangs(B, k, i + 1)
    <3>1. b > 0 /\ B[i + 1] = F[i] /\ i \in DOMAIN F
      BY <1>3, <1>4, <1>5
    <3>2. Placed(F, d + 1, Kids(h)) /\ ~Shut(h)
      BY <3>1, <1>7 DEF Forest
    <3>3. \/ F[i].depth = d + 1 /\ F[i].span \in Kids(h)
          \/ \E k \in 1..(i - 1) : Hangs(F, k, i)
      BY <3>1, <3>2, Zenon DEF Placed
    <3>4. CASE F[i].depth = d + 1 /\ F[i].span \in Kids(h)
      <4>1. 1 \in 1..((i + 1) - 1)
        BY <1>3
      <4>2. ASSUME NEW l \in (1 + 1)..((i + 1) - 1) PROVE B[l].depth >= d + 1
        <5>1. PICK j \in 1..b : j = l - 1 /\ l = j + 1
          BY <1>3
        <5> QED BY <5>1, <1>5, <1>8
      <4>3. Hangs(B, 1, i + 1)
        BY <3>1, <3>2, <3>4, <4>2, <1>5 DEF Hangs
      <4>4. B[i + 1].span \in DOMAIN spans /\ B[i + 1].depth >= d
        BY <3>1, <1>4, <1>8
      <4> QED BY <4>1, <4>3, <4>4
    <3>5. ASSUME NEW k \in 1..(i - 1), Hangs(F, k, i) PROVE Hangs(B, k + 1, i + 1)
      <4>1. k \in 1..b /\ B[k + 1] = F[k]
        BY <1>3, <1>5
      <4>2. ASSUME NEW l \in ((k + 1) + 1)..((i + 1) - 1) PROVE B[l].depth >= F[i].depth
        <5>1. PICK j \in (k + 1)..(i - 1) : l = j + 1
          <6>1. l - 1 \in (k + 1)..(i - 1) /\ l = (l - 1) + 1
            BY <1>3
          <6> QED BY <6>1
        <5>2. j \in 1..b /\ B[l] = F[j]
          BY <1>3, <1>5, <5>1
        <5> QED BY <5>1, <5>2, <3>5 DEF Hangs
      <4> QED BY <3>1, <3>5, <4>1, <4>2 DEF Hangs
    <3>6. \A k \in 1..(i - 1) : k + 1 \in 1..((i + 1) - 1)
      BY <1>3
    <3>7. B[i + 1].span \in DOMAIN spans /\ B[i + 1].depth >= d
      BY <3>1, <1>4, <1>8
    <3> QED BY <3>3, <3>4, <3>5, <3>6, <3>7
  <2>2. ASSUME NEW i \in 1..(b + 1)
        PROVE  /\ B[i].span \in DOMAIN spans /\ B[i].depth >= d
               /\ \/ B[i].depth = d /\ B[i].span \in {h}
                  \/ \E k \in 1..(i - 1) : Hangs(B, k, i)
    <3>1. CASE i = 1
      BY <3>1, <1>5
    <3>2. ASSUME NEW j \in 1..b, i = j + 1
          PROVE  /\ B[i].span \in DOMAIN spans /\ B[i].depth >= d
                 /\ \E k \in 1..(i - 1) : Hangs(B, k, i)
      BY <2>1, <3>2, Zenon
    <3> QED BY <3>1, <3>2, <1>6
  <2> QED BY <2>2, <1>5 DEF Placed
<1>10. Ordered(B)
  <2> SUFFICES ASSUME NEW i \in 1..(b + 1), NEW k \in 1..(b + 1), i < k, B[i].depth = B[k].depth,
                      \A l \in i..k : B[l].depth >= B[i].depth
               PROVE  Earlier(B[i].span, B[k].span)
    BY <1>5 DEF Ordered
  <2>1. PICK q \in 1..b : k = q + 1
    BY <1>3, <1>6
  <2>2. B[k] = F[q] /\ F[q].depth >= d + 1
    BY <2>1, <1>5, <1>8
  <2>3. i # 1
    BY <2>2, <1>4, <1>5
  <2>4. PICK p \in 1..b : i = p + 1
    BY <2>3, <1>6
  <2>5. b > 0 /\ p < q /\ B[i] = F[p] /\ \A l \in p..q : l \in 1..b /\ l + 1 \in i..k
    BY <2>1, <2>4, <1>3, <1>5
  <2>6. \A l \in p..q : F[l].depth >= F[p].depth
    BY <2>5, <1>5
  <2>7. Ordered(F)
    BY <2>5, <1>7 DEF Forest
  <2> QED BY <2>2, <2>5, <2>6, <2>7, <1>4 DEF Ordered
<1>11. Complete(B, d, {h})
  <2>1. \A i \in 1..b : i + 1 \in DOMAIN B
    BY <1>3, <1>5
  <2>2. 1 \in DOMAIN B
    BY <1>3, <1>5
  <2>3. ASSUME ~Shut(h), d + 1 < Len(spans), NEW c \in Kids(h)
        PROVE  \E k \in DOMAIN B : B[k].span = c /\ B[k].depth = d + 1
    <3>1. Complete(F, d + 1, Kids(h))
      BY <2>3 DEF Forest
    <3>2. PICK k \in DOMAIN F : F[k].span = c /\ F[k].depth = d + 1
      BY <2>3, <3>1, Zenon DEF Complete
    <3>3. k \in 1..b
      BY <1>4
    <3> QED BY <3>2, <3>3, <2>1, <1>5
  <2>4. ASSUME NEW i \in 1..b, ~Shut(B[i + 1].span), B[i + 1].depth + 1 < Len(spans),
               NEW c \in Kids(B[i + 1].span)
        PROVE  \E k \in DOMAIN B : B[k].span = c /\ B[k].depth = B[i + 1].depth + 1
    <3>1. B[i + 1] = F[i] /\ b > 0
      BY <1>3, <1>5
    <3>2. Complete(F, d + 1, Kids(h))
      BY <3>1, <1>7 DEF Forest
    <3>3. i \in DOMAIN F /\ ~Shut(F[i].span) /\ F[i].depth + 1 < Len(spans) /\ c \in Kids(F[i].span)
      BY <3>1, <2>4, <1>4, Zenon
    <3>4. PICK k \in DOMAIN F : F[k].span = c /\ F[k].depth = F[i].depth + 1
      BY <3>2, <3>3, Zenon DEF Complete
    <3>5. k \in 1..b
      BY <1>4
    <3> QED BY <3>1, <3>4, <3>5, <2>1, <1>5
  <2>5. ASSUME NEW i \in 1..(b + 1), ~Shut(B[i].span), B[i].depth + 1 < Len(spans), NEW c \in Kids(B[i].span)
        PROVE  \E k \in DOMAIN B : B[k].span = c /\ B[k].depth = B[i].depth + 1
    <3>1. CASE i = 1
      <4>1. ~Shut(h) /\ d + 1 < Len(spans) /\ c \in Kids(h)
        BY <2>5, <3>1, <1>5, Zenon
      <4>2. PICK k \in DOMAIN B : B[k].span = c /\ B[k].depth = d + 1
        BY <4>1, <2>3
      <4> QED BY <4>2, <3>1, <1>5
    <3>2. ASSUME NEW j \in 1..b, i = j + 1
          PROVE  \E k \in DOMAIN B : B[k].span = c /\ B[k].depth = B[i].depth + 1
      BY <2>4, <2>5, <3>2, Zenon
    <3> QED BY <3>1, <3>2, <1>6, Zenon
  <2>6. \A g \in {h} : \E i \in DOMAIN B : B[i].span = g /\ B[i].depth = d
    BY <2>2, <1>5
  <2> QED BY <2>5, <2>6, <1>5, Zenon DEF Complete
<1>12. \A i \in 2..Len(B) : B[i].depth > d
  <2> TAKE i \in 2..Len(B)
  <2>1. PICK j \in 1..b : i = j + 1
    <3>1. i \in 1..(b + 1) /\ i # 1
      BY <1>3, <1>5
    <3> QED BY <3>1, <1>6
  <2>2. B[i] = F[j] /\ F[j].depth >= d + 1 /\ F[j].depth \in Nat
    BY <2>1, <1>4, <1>5, <1>8
  <2> QED BY <2>2
<1>13. Len(B) > 0
  BY <1>3, <1>5
<1>14. Forest(B, d, {h})
  BY <1>5, <1>9, <1>10, <1>11 DEF Forest
<1> QED BY <1>5, <1>12, <1>13, <1>14 DEF Tree

(* A row for each node, deeper by as many levels as are left; none when    *)
(* none are left.                                                          *)
Grown(W, d) ==
  /\ W \in [DOMAIN spans -> Rows]
  /\ \A n \in DOMAIN spans : IF d < Len(spans) THEN Tree(W[n], d, n) ELSE W[n] = <<>>

LEMMA InTurnIs ==
  ASSUME TreeInv, NEW nodes, NEW m \in Nat, DOMAIN nodes = 1..m, Len(nodes) = m,
         \A k \in 1..m : nodes[k] \in DOMAIN spans,
         NEW W \in [DOMAIN spans -> Rows]
  PROVE  \E u \in [0..m -> Rows] : /\ InTurn(nodes, W) = u[m] /\ u[0] = <<>>
                                   /\ \A k \in 1..m : u[k] = u[k - 1] \o W[nodes[k]]
<1>1. <<>> \in Rows
  BY DEF Rows
<1>2. PICK G : G = [k \in 1..m |-> [s \in Rows |-> s \o W[nodes[k]]]]
  OBVIOUS
<1>3. G \in [1..m -> [Rows -> Rows]]
  <2>1. \A s, t \in Rows : s \o t \in Rows
    BY DEF Rows
  <2>2. ASSUME NEW k \in 1..m, NEW s \in Rows PROVE s \o W[nodes[k]] \in Rows
    BY <2>1
  <2> QED BY <2>2, <1>2
<1>4. HasForward(m, Rows, <<>>, G)
  BY <1>1, <1>3, DefinedForward
<1>5. PICK f \in [0..m -> Rows] : f[0] = <<>> /\ \A k \in 1..m : f[k] = G[k][f[k - 1]]
  BY <1>4 DEF HasForward
<1>6. ASSUME NEW k \in 1..m PROVE f[k] = f[k - 1] \o W[nodes[k]]
  <2>1. k - 1 \in 0..m
    OBVIOUS
  <2>2. f[k - 1] \in Rows
    BY <2>1
  <2> QED BY <2>2, <1>2, <1>5
<1>7. f = [k \in 0..Len(nodes) |-> IF k = 0 THEN <<>> ELSE f[k - 1] \o W[nodes[k]]]
  <2>1. ASSUME NEW k \in 0..m PROVE f[k] = IF k = 0 THEN <<>> ELSE f[k - 1] \o W[nodes[k]]
    <3>1. k = 0 \/ k \in 1..m
      OBVIOUS
    <3> QED BY <3>1, <1>5, <1>6
  <2> QED BY <2>1
<1>8. PICK u : u = CHOOSE v : v = [k \in 0..Len(nodes) |-> IF k = 0 THEN <<>> ELSE v[k - 1] \o W[nodes[k]]]
  OBVIOUS
<1>9. u = [k \in 0..Len(nodes) |-> IF k = 0 THEN <<>> ELSE u[k - 1] \o W[nodes[k]]]
  BY <1>7, <1>8, Zenon
<1>10. InTurn(nodes, W) = u[m]
  BY <1>8, Zenon DEF InTurn
<1>11. u[0] = <<>> /\ \A k \in 1..m : u[k] = u[k - 1] \o W[nodes[k]]
  <2>1. \A k \in 0..m : u[k] = IF k = 0 THEN <<>> ELSE u[k - 1] \o W[nodes[k]]
    BY <1>9
  <2>2. 0 \in 0..m /\ \A k \in 1..m : k \in 0..m /\ k # 0
    OBVIOUS
  <2> QED BY <2>1, <2>2
<1>12. \A k \in 0..m : u[k] \in Rows
  <2> DEFINE S == {k \in Nat : k <= m => u[k] \in Rows}
  <2>1. 0 \in S
    BY <1>1, <1>11
  <2>2. ASSUME NEW k \in S PROVE k + 1 \in S
    <3>1. ASSUME k + 1 <= m PROVE u[k + 1] \in Rows
      <4>1. k + 1 \in 1..m /\ (k + 1) - 1 = k /\ u[k] \in Rows
        BY <3>1
      <4>2. u[k + 1] = u[k] \o W[nodes[k + 1]] /\ W[nodes[k + 1]] \in Rows
        BY <4>1, <1>11
      <4> QED BY <4>1, <4>2 DEF Rows
    <3> QED BY <3>1
  <2>3. S \in SUBSET Nat
    OBVIOUS
  <2>4. \A k \in Nat : k \in S
    <3> HIDE DEF S
    <3> QED BY <2>1, <2>2, <2>3, Counted
  <2> QED BY <2>4
<1>13. u \in [0..m -> Rows]
  BY <1>9, <1>12
<1> QED BY <1>10, <1>11, <1>13

LEMMA InTurnGrows ==
  ASSUME TreeInv, NEW d \in 0..Len(spans), NEW W, Grown(W, d), NEW S \in SUBSET DOMAIN spans
  PROVE  Forest(InTurn(byStart(S), W), d, S)
<1>1. PICK nodes : nodes = byStart(S)
  OBVIOUS
<1>2. PICK m : m = Cardinality(S)
  OBVIOUS
<1>3. Listing(nodes, S, m)
  BY <1>1, <1>2, SortedIs
<1>4. /\ m \in Nat /\ DOMAIN nodes = 1..m /\ Len(nodes) = m
      /\ \A k \in 1..m : nodes[k] \in S /\ nodes[k] \in DOMAIN spans
      /\ \A n \in S : \E k \in 1..m : nodes[k] = n
      /\ \A j, k \in 1..m : j < k => Earlier(nodes[j], nodes[k])
  BY <1>3 DEF Listing
<1>m. m \in Nat
  BY <1>4
<1>5. d \in Nat /\ Len(spans) \in Nat /\ W \in [DOMAIN spans -> Rows]
  BY DEF TreeInv, Grown
<1>6. PICK u \in [0..m -> Rows] : /\ InTurn(nodes, W) = u[m] /\ u[0] = <<>>
                                  /\ \A k \in 1..m : u[k] = u[k - 1] \o W[nodes[k]]
  BY <1>4, <1>5, InTurnIs, ZenonT(60)
<1> DEFINE H(k) == {nodes[j] : j \in 1..k}
           S0 == {k \in Nat : k <= m => Forest(u[k], d, H(k))}
<1>7. 0 \in S0
  <2>1. H(0) = {}
    OBVIOUS
  <2>2. Forest(<<>>, d, {})
    BY <1>5, NoRows
  <2> HIDE DEF H
  <2> QED BY <2>1, <2>2, <1>6
<1>8. ASSUME NEW k \in S0 PROVE k + 1 \in S0
  <2>1. k \in Nat /\ k + 1 \in Nat /\ (k <= m => Forest(u[k], d, H(k)))
    OBVIOUS
  <2>2. ASSUME k + 1 <= m PROVE Forest(u[k + 1], d, H(k + 1))
    <3>1. k + 1 \in 1..m /\ k \in 0..m /\ (k + 1) - 1 = k /\ k <= m
      BY <2>1, <2>2, <1>m
    <3>2. PICK h \in DOMAIN spans : h = nodes[k + 1]
      BY <3>1, <1>4
    <3>3. H(k + 1) = H(k) \cup {h}
      <4>1. 1..(k + 1) = (1..k) \cup {k + 1}
        BY <2>1
      <4> QED BY <4>1, <3>2
    <3>4. H(k) \in SUBSET DOMAIN spans /\ \A g \in H(k) : Earlier(g, h)
      <4>1. \A j \in 1..k : j \in 1..m /\ j < k + 1
        BY <2>1, <3>1, <1>4
      <4> QED BY <4>1, <3>1, <3>2, <1>4
    <3>5. u[k + 1] = u[k] \o W[h] /\ Forest(u[k], d, H(k))
      BY <2>1, <3>1, <3>2, <1>6
    <3> HIDE DEF H
    <3>6. CASE d < Len(spans)
      <4>1. Tree(W[h], d, h)
        BY <3>6 DEF Grown
      <4>2. Forest(u[k + 1], d, H(k) \cup {h})
        BY <3>4, <3>5, <4>1, <1>5, ForestGrows
      <4> QED BY <4>2, <3>3
    <3>7. CASE ~(d < Len(spans))
      <4>1. W[h] = <<>>
        BY <3>7 DEF Grown
      <4>2. u[k] \in Rows
        BY <3>1
      <4>3. u[k + 1] = u[k]
        BY <4>1, <4>2, <3>5 DEF Rows
      <4>4. Placed(u[k], d, H(k)) /\ Ordered(u[k]) /\ Complete(u[k], d, H(k))
        BY <3>5 DEF Forest
      <4>5. Placed(u[k], d, H(k + 1))
        <5>1. H(k) \subseteq H(k + 1)
          BY <3>3
        <5> QED BY <4>4, <5>1, Zenon DEF Placed
      <4>6. Complete(u[k], d, H(k + 1))
        BY <4>4, <3>7, Zenon DEF Complete
      <4> QED BY <4>2, <4>3, <4>4, <4>5, <4>6 DEF Forest
    <3> QED BY <3>6, <3>7
  <2> QED BY <2>1, <2>2
<1>9. S0 \in SUBSET Nat
  OBVIOUS
<1>10. m \in S0
  <2> HIDE DEF S0
  <2> QED BY <1>4, <1>7, <1>8, <1>9, Counted
<1>11. Forest(u[m], d, H(m))
  BY <1>4, <1>10
<1>12. H(m) = S
  BY <1>4
<1> HIDE DEF H
<1> QED BY <1>1, <1>6, <1>11, <1>12

Below(W, n, d) ==
  <<[span |-> n, depth |-> d]>> \o (IF Shut(n) THEN <<>> ELSE InTurn(children(n), W))

LEMMA BelowIs ==
  ASSUME TreeInv, NEW d \in Nat, d < Len(spans), NEW W, Grown(W, d + 1), NEW n \in DOMAIN spans
  PROVE  Tree(Below(W, n, d), d, n)
<1>1. Kids(n) \in SUBSET DOMAIN spans /\ children(n) = byStart(Kids(n))
  BY DEF Kids, children
<1>2. d + 1 \in 0..Len(spans)
  BY DEF TreeInv
<1>3. Forest(InTurn(children(n), W), d + 1, Kids(n))
  BY <1>1, <1>2, InTurnGrows
<1>4. PICK F : F = IF Shut(n) THEN <<>> ELSE InTurn(children(n), W)
  OBVIOUS
<1>5. /\ F = <<>> \/ (~Shut(n) /\ Forest(F, d + 1, Kids(n)))
      /\ ~Shut(n) => Forest(F, d + 1, Kids(n))
  BY <1>3, <1>4
<1>6. Below(W, n, d) = <<[span |-> n, depth |-> d]>> \o F
  BY <1>4, Zenon DEF Below
<1> QED BY <1>5, <1>6, TreeGrows

LEMMA WalkIs == TreeInv => Grown(walk, 0)
<1> SUFFICES ASSUME TreeInv PROVE Grown(walk, 0)
  OBVIOUS
<1>0. PICK N \in Nat : N = Len(spans)
  BY DEF TreeInv
<1>1. PICK D : D = [DOMAIN spans -> Rows]
  OBVIOUS
<1>2. PICK none : none = [n \in DOMAIN spans |-> <<>>]
  OBVIOUS
<1>3. none \in D
  <2>1. <<>> \in Rows
    BY DEF Rows
  <2> QED BY <2>1, <1>1, <1>2
<1>4. \A W \in D, n \in DOMAIN spans, d \in Nat : Below(W, n, d) \in Rows
  <2> TAKE W \in D, n \in DOMAIN spans, d \in Nat
  <2>1. n \in Nat
    BY DEF TreeInv
  <2>2. PICK top \in Rows : top = <<[span |-> n, depth |-> d]>>
    <3>1. [span |-> n, depth |-> d] \in [span : Nat, depth : Nat]
      BY <2>1
    <3>2. <<[span |-> n, depth |-> d]>> \in Rows
      BY <3>1 DEF Rows
    <3> QED BY <3>2
  <2>3. InTurn(children(n), W) \in Rows
    <3>1. Kids(n) \in SUBSET DOMAIN spans /\ children(n) = byStart(Kids(n))
      BY DEF Kids, children
    <3>2. PICK nodes, m : nodes = byStart(Kids(n)) /\ m = Cardinality(Kids(n))
      OBVIOUS
    <3>3. Listing(nodes, Kids(n), m)
      BY <3>1, <3>2, SortedIs
    <3>4. m \in Nat /\ DOMAIN nodes = 1..m /\ Len(nodes) = m /\ \A k \in 1..m : nodes[k] \in DOMAIN spans
      BY <3>1, <3>3 DEF Listing
    <3>5. PICK u \in [0..m -> Rows] : InTurn(nodes, W) = u[m]
      BY <3>4, <1>1, InTurnIs, ZenonT(60)
    <3>6. m \in 0..m
      BY <3>4
    <3> QED BY <3>1, <3>2, <3>5, <3>6
  <2>4. PICK F \in Rows : F = IF Shut(n) THEN <<>> ELSE InTurn(children(n), W)
    <3>1. <<>> \in Rows
      BY DEF Rows
    <3> QED BY <3>1, <2>3
  <2>5. Below(W, n, d) = top \o F
    BY <2>2, <2>4, Zenon DEF Below
  <2> QED BY <2>5 DEF Rows
<1>5. PICK G : G = [l \in 1..N |-> [W \in D |-> [n \in DOMAIN spans |-> Below(W, n, N - l)]]]
  OBVIOUS
<1>6. G \in [1..N -> [D -> D]]
  <2>1. ASSUME NEW l \in 1..N, NEW W \in D PROVE [n \in DOMAIN spans |-> Below(W, n, N - l)] \in D
    <3>1. N - l \in Nat
      OBVIOUS
    <3> QED BY <3>1, <1>1, <1>4
  <2> QED BY <2>1, <1>5
<1>7. HasForward(N, D, none, G)
  BY <1>3, <1>6, DefinedForward
<1>8. PICK f \in [0..N -> D] : f[0] = none /\ \A l \in 1..N : f[l] = G[l][f[l - 1]]
  BY <1>7 DEF HasForward
<1>9. ASSUME NEW l \in 1..N PROVE f[l] = [n \in DOMAIN spans |-> Below(f[l - 1], n, N - l)]
  <2>1. l - 1 \in 0..N
    OBVIOUS
  <2>2. f[l - 1] \in D
    BY <2>1
  <2> QED BY <2>2, <1>5, <1>8
<1> DEFINE Level(v, l) ==
      [n \in DOMAIN spans |->
         IF l = 0 THEN <<>>
         ELSE <<[span |-> n, depth |-> Len(spans) - l]>> \o
              (IF spans[n].id \in collapsed THEN <<>> ELSE InTurn(children(n), v[l - 1]))]
<1>10. ASSUME NEW v, NEW l \in 1..N PROVE Level(v, l) = [n \in DOMAIN spans |-> Below(v[l - 1], n, N - l)]
  <2>1. l # 0 /\ Len(spans) - l = N - l
    BY <1>0
  <2> QED BY <2>1, Zenon DEF Below, Shut
<1>11. \A v : Level(v, 0) = none
  BY <1>2
<1>12. f = [l \in 0..Len(spans) |-> Level(f, l)]
  <2> HIDE DEF Level
  <2>1. ASSUME NEW l \in 0..N PROVE f[l] = Level(f, l)
    <3>1. l = 0 \/ l \in 1..N
      OBVIOUS
    <3> QED BY <3>1, <1>8, <1>9, <1>10, <1>11
  <2> QED BY <2>1, <1>0
<1>13. PICK v : v = CHOOSE w : w = [l \in 0..Len(spans) |-> Level(w, l)]
  OBVIOUS
<1>14. v = [l \in 0..Len(spans) |-> Level(v, l)]
  <2> HIDE DEF Level
  <2> QED BY <1>12, <1>13, Zenon
<1>15. walk = v[Len(spans)]
  BY <1>13, Zenon DEF walk
<1>16. v[0] = none /\ \A l \in 1..N : v[l] = [n \in DOMAIN spans |-> Below(v[l - 1], n, N - l)]
  <2> HIDE DEF Level
  <2>1. \A l \in 0..N : v[l] = Level(v, l)
    BY <1>0, <1>14
  <2>2. 0 \in 0..N /\ \A l \in 1..N : l \in 0..N
    OBVIOUS
  <2> QED BY <2>1, <2>2, <1>10, <1>11
<1> HIDE DEF Level
<1> DEFINE S == {l \in Nat : l <= N => Grown(v[l], N - l)}
<1>17. 0 \in S
  <2>1. N - 0 = N /\ ~(N < Len(spans))
    BY <1>0
  <2>2. Grown(none, N)
    BY <2>1, <1>1, <1>2, <1>3 DEF Grown
  <2> QED BY <2>1, <2>2, <1>16
<1>18. ASSUME NEW l \in S PROVE l + 1 \in S
  <2>1. l \in Nat /\ l + 1 \in Nat /\ (l <= N => Grown(v[l], N - l))
    OBVIOUS
  <2>2. ASSUME l + 1 <= N PROVE Grown(v[l + 1], N - (l + 1))
    <3>1. PICK d \in Nat : d = N - (l + 1)
      BY <2>1, <2>2
    <3>2. l + 1 \in 1..N /\ (l + 1) - 1 = l /\ l <= N /\ d + 1 = N - l /\ d < Len(spans)
      BY <2>1, <2>2, <3>1, <1>0
    <3>3. Grown(v[l], d + 1)
      BY <2>1, <3>2
    <3>4. v[l + 1] = [n \in DOMAIN spans |-> Below(v[l], n, d)]
      BY <3>1, <3>2, <1>16
    <3>5. \A n \in DOMAIN spans : Tree(Below(v[l], n, d), d, n)
      BY <3>2, <3>3, BelowIs
    <3>6. \A n \in DOMAIN spans : Below(v[l], n, d) \in Rows
      BY <3>5 DEF Tree, Forest
    <3>7. Grown(v[l + 1], d)
      BY <3>2, <3>4, <3>5, <3>6 DEF Grown
    <3> QED BY <3>1, <3>7
  <2> QED BY <2>1, <2>2
<1>19. S \in SUBSET Nat
  OBVIOUS
<1>20. N \in S
  <2> HIDE DEF S
  <2> QED BY <1>17, <1>18, <1>19, Counted
<1>21. N <= N /\ N - N = 0
  OBVIOUS
<1> QED BY <1>0, <1>15, <1>20, <1>21

Roots == {n \in DOMAIN spans : ~HasParent(n)}

LEMMA VisibleIs == TreeInv => Forest(visible, 0, Roots)
<1> SUFFICES ASSUME TreeInv PROVE Forest(visible, 0, Roots)
  OBVIOUS
<1>1. Roots \in SUBSET DOMAIN spans /\ roots = byStart(Roots)
  BY DEF Roots, roots
<1>2. 0 \in 0..Len(spans)
  BY DEF TreeInv
<1> QED BY <1>1, <1>2, WalkIs, InTurnGrows DEF visible

-----------------------------------------------------------------------------
(* What is above a node: its parent, and what is above that.               *)
LEMMA AboveIs ==
  ASSUME TreeInv, NEW n \in DOMAIN spans
  PROVE  /\ ~HasParent(n) => Above(n) = {}
         /\ \A p \in DOMAIN spans : n \in Kids(p) => Above(n) = {p} \cup Above(p)
         /\ HasParent(n) => \E p \in DOMAIN spans : n \in Kids(p)
<1>1. ASSUME NEW S \in SUBSET DOMAIN spans, NEW m \in DOMAIN spans
      PROVE  Parents({m} \cup S) = Parents({m}) \cup Parents(S)
  BY DEF Parents
<1>2. ASSUME NEW m \in DOMAIN spans
      PROVE  /\ Above(m) \subseteq DOMAIN spans /\ Parents({m} \cup Above(m)) \subseteq Above(m)
             /\ \A S \in SUBSET DOMAIN spans : Parents({m} \cup S) \subseteq S => Above(m) \subseteq S
  <2>1. Above(m) \subseteq DOMAIN spans
        /\ \A S \in SUBSET DOMAIN spans : Parents({m} \cup S) \subseteq S => Above(m) \subseteq S
    BY DEF Above
  <2>2. ASSUME NEW p \in Parents({m} \cup Above(m)) PROVE p \in Above(m)
    <3>1. p \in DOMAIN spans
      BY DEF Parents
    <3>2. ASSUME NEW S \in SUBSET DOMAIN spans, Parents({m} \cup S) \subseteq S PROVE p \in S
      <4>1. Above(m) \subseteq S
        BY <2>1, <3>2
      <4>2. p \in Parents({m} \cup S)
        BY <4>1 DEF Parents
      <4> QED BY <4>2, <3>2
    <3> QED BY <3>1, <3>2, Zenon DEF Above
  <2> QED BY <2>1, <2>2
<1>3. ASSUME ~HasParent(n) PROVE Above(n) = {}
  <2>1. Parents({n} \cup {}) \subseteq {}
    BY <1>3 DEF Parents
  <2> QED BY <2>1, <1>2
<1>4. ASSUME NEW p \in DOMAIN spans, n \in Kids(p) PROVE Above(n) = {p} \cup Above(p)
  <2>1. Parents({n}) = {p}
    BY <1>4 DEF Parents, Kids, TreeInv
  <2>2. Above(n) \subseteq {p} \cup Above(p)
    <3>1. PICK S : S = {p} \cup Above(p)
      OBVIOUS
    <3>2. S \in SUBSET DOMAIN spans /\ Parents(S) \subseteq Above(p)
      BY <3>1, <1>2
    <3>3. Parents({n} \cup S) \subseteq S
      BY <3>1, <3>2, <2>1, <1>1
    <3> QED BY <3>1, <3>2, <3>3, <1>2
  <2>3. p \in Above(n) /\ Parents(Above(n)) \subseteq Above(n) /\ Above(n) \in SUBSET DOMAIN spans
    <3>1. Above(n) \in SUBSET DOMAIN spans /\ Parents({n} \cup Above(n)) \subseteq Above(n)
      BY <1>2
    <3>2. Parents({n} \cup Above(n)) = {p} \cup Parents(Above(n))
      BY <3>1, <2>1, <1>1
    <3> QED BY <3>1, <3>2
  <2>4. Parents({p} \cup Above(n)) \subseteq Above(n)
    BY <2>3 DEF Parents
  <2>5. Above(p) \subseteq Above(n)
    BY <2>3, <2>4, <1>2
  <2> QED BY <2>2, <2>3, <2>5
<1>5. HasParent(n) => \E p \in DOMAIN spans : n \in Kids(p)
  <2> SUFFICES ASSUME HasParent(n) PROVE \E p \in DOMAIN spans : n \in Kids(p)
    OBVIOUS
  <2>1. PICK p \in DOMAIN spans : spans[p].id = spans[n].parent
    BY DEF HasParent
  <2> QED BY <2>1 DEF Kids
<1> QED BY <1>3, <1>4, <1>5

LEMMA OneParent ==
  ASSUME TreeInv, NEW n, NEW p \in DOMAIN spans, NEW q \in DOMAIN spans, n \in Kids(p), n \in Kids(q)
  PROVE  p = q
BY DEF Kids, TreeInv

(* No span has two rows.                                                   *)
LEMMA DrawnOnce ==
  ASSUME TreeInv, NEW R, Forest(R, 0, Roots)
  PROVE  \A i, k \in DOMAIN R : R[i].span = R[k].span => i = k
<1>1. /\ R \in Rows /\ Placed(R, 0, Roots) /\ Ordered(R)
      /\ DOMAIN R = 1..Len(R) /\ Len(R) \in Nat
      /\ \A i \in DOMAIN R : i \in Nat /\ R[i].depth \in Nat
  BY RowsAre DEF Forest
<1>2. ASSUME NEW i \in DOMAIN R
      PROVE  /\ R[i].span \in DOMAIN spans
             /\ \/ R[i].depth = 0 /\ ~HasParent(R[i].span)
                \/ \E p \in DOMAIN R : p < i /\ Hangs(R, p, i) /\ HasParent(R[i].span)
  <2>1. \A p \in 1..(i - 1) : p \in DOMAIN R /\ p < i
    BY <1>1
  <2>2. \A p : Hangs(R, p, i) => HasParent(R[i].span)
    BY DEF Hangs, Kids
  <2> QED BY <2>1, <2>2, <1>1 DEF Placed, Roots
<1>3. ASSUME NEW i \in DOMAIN R, NEW k \in DOMAIN R, i < k, R[i].span = R[k].span,
             R[i].depth = R[k].depth, \A l \in i..k : R[l].depth >= R[i].depth
      PROVE  FALSE
  <2>1. Earlier(R[i].span, R[k].span)
    BY <1>1, <1>3 DEF Ordered
  <2> QED BY <2>1, <1>2, <1>3, EarlierIs
<1>4. ASSUME NEW p \in DOMAIN R, NEW i \in DOMAIN R, NEW k \in DOMAIN R, i < k, p < i,
             Hangs(R, p, i), Hangs(R, p, k), R[i].span = R[k].span
      PROVE  FALSE
  <2>1. R[i].depth = R[p].depth + 1 /\ R[k].depth = R[p].depth + 1
    BY <1>4 DEF Hangs
  <2>2. ASSUME NEW l \in i..k PROVE R[l].depth >= R[i].depth
    <3>1. l \in (p + 1)..(k - 1) \/ l = k
      BY <1>1, <1>4
    <3>2. l \in (p + 1)..(k - 1) => R[l].depth >= R[k].depth
      BY <1>4 DEF Hangs
    <3> QED BY <3>1, <3>2, <2>1, <1>1
  <2> QED BY <2>1, <2>2, <1>3, <1>4
<1>5. ASSUME NEW i \in DOMAIN R, NEW k \in DOMAIN R, i < k, R[i].span = R[k].span,
             ~HasParent(R[i].span)
      PROVE  FALSE
  <2>1. R[i].depth = 0 /\ R[k].depth = 0
    BY <1>2, <1>5
  <2>2. \A l \in i..k : l \in DOMAIN R
    BY <1>1
  <2> QED BY <2>1, <2>2, <1>1, <1>3, <1>5
<1> DEFINE S == {e \in Nat : \A i, k \in DOMAIN R : R[i].depth = e /\ R[i].span = R[k].span => i = k}
<1>6. ASSUME NEW i \in DOMAIN R, NEW k \in DOMAIN R, R[i].span = R[k].span, ~HasParent(R[i].span)
      PROVE  i = k
  <2>1. i < k \/ k < i \/ i = k
    BY <1>1
  <2> QED BY <2>1, <1>5, <1>6
<1>7. 0 \in S
  <2> SUFFICES ASSUME NEW i \in DOMAIN R, NEW k \in DOMAIN R, R[i].depth = 0, R[i].span = R[k].span
               PROVE  i = k
    OBVIOUS
  <2>1. \A p \in DOMAIN R : ~Hangs(R, p, i)
    BY <1>1 DEF Hangs
  <2> QED BY <2>1, <1>2, <1>6
<1>8. ASSUME NEW e \in S PROVE e + 1 \in S
  <2>0. e \in Nat /\ \A i, k \in DOMAIN R : R[i].depth = e /\ R[i].span = R[k].span => i = k
    OBVIOUS
  <2>1. ASSUME NEW i \in DOMAIN R, NEW k \in DOMAIN R, R[i].depth = e + 1, R[i].span = R[k].span
        PROVE  i = k
    <3>1. CASE ~HasParent(R[i].span)
      BY <2>1, <3>1, <1>6
    <3>2. CASE HasParent(R[i].span)
      <4>1. PICK p \in DOMAIN R : p < i /\ Hangs(R, p, i)
        BY <3>2, <1>2
      <4>2. PICK q \in DOMAIN R : q < k /\ Hangs(R, q, k)
        BY <2>1, <3>2, <1>2
      <4>3. R[p].span = R[q].span
        <5>1. R[i].span \in Kids(R[p].span) /\ R[i].span \in Kids(R[q].span)
          BY <2>1, <4>1, <4>2 DEF Hangs
        <5>2. R[p].span \in DOMAIN spans /\ R[q].span \in DOMAIN spans
          BY <1>2
        <5> QED BY <5>1, <5>2, OneParent
      <4>4. R[p].depth = e
        BY <2>0, <2>1, <4>1, <1>1 DEF Hangs
      <4>5. p = q
        BY <2>0, <4>3, <4>4
      <4>6. i < k \/ k < i \/ i = k
        BY <1>1
      <4> QED BY <2>1, <4>1, <4>2, <4>5, <4>6, <1>4
    <3> QED BY <3>1, <3>2
  <2> QED BY <2>0, <2>1
<1>9. S \in SUBSET Nat
  OBVIOUS
<1>10. \A e \in Nat : e \in S
  <2> HIDE DEF S
  <2> QED BY <1>7, <1>8, <1>9, Counted
<1> QED BY <1>1, <1>10

Circle(n) == \E a \in {n} \cup Above(n) : a \in Above(a)
Free(n) == ~Circle(n) /\ \A a \in Above(n) : ~Shut(a)

(* A span is drawn only if nothing above it is collapsed and there is no   *)
(* circle, and then it is: its depth is the number of those above it.      *)
LEMMA DrawnIsFree ==
  ASSUME TreeInv, NEW R, Forest(R, 0, Roots), NEW i \in DOMAIN R
  PROVE  Free(R[i].span)
<1>1. /\ R \in Rows /\ Placed(R, 0, Roots)
      /\ DOMAIN R = 1..Len(R) /\ \A j \in DOMAIN R : j \in Nat /\ R[j].depth \in Nat
  BY RowsAre DEF Forest
<1> DEFINE Known(j) == \A a \in Above(R[j].span) :
                         ~Shut(a) /\ \E k \in DOMAIN R : R[k].span = a /\ R[k].depth < R[j].depth
           S == {e \in Nat : \A j \in DOMAIN R : R[j].depth <= e => Known(j)}
<1>2. ASSUME NEW j \in DOMAIN R
      PROVE  /\ R[j].span \in DOMAIN spans
             /\ \/ Above(R[j].span) = {}
                \/ \E k \in DOMAIN R : /\ R[j].depth = R[k].depth + 1 /\ ~Shut(R[k].span)
                                       /\ R[k].span \in DOMAIN spans
                                       /\ Above(R[j].span) = {R[k].span} \cup Above(R[k].span)
  <2>1. \A k \in 1..(j - 1) : k \in DOMAIN R
    BY <1>1
  <2>2. R[j].span \in DOMAIN spans /\ \A k \in DOMAIN R : R[k].span \in DOMAIN spans
    BY <1>1 DEF Placed
  <2>3. CASE R[j].span \in Roots
    BY <2>2, <2>3, AboveIs DEF Roots
  <2>4. ASSUME NEW k \in 1..(j - 1), Hangs(R, k, j)
        PROVE  /\ R[j].depth = R[k].depth + 1 /\ ~Shut(R[k].span)
               /\ Above(R[j].span) = {R[k].span} \cup Above(R[k].span)
    <3>1. R[k].span \in DOMAIN spans /\ R[j].span \in Kids(R[k].span)
      BY <2>1, <2>2, <2>4 DEF Hangs
    <3> QED BY <3>1, <2>2, <2>4, AboveIs DEF Hangs
  <2> QED BY <2>1, <2>2, <2>3, <2>4, <1>1 DEF Placed
<1>3. ASSUME NEW j \in DOMAIN R, \A k \in DOMAIN R : R[k].depth < R[j].depth => Known(k) PROVE Known(j)
  <2>1. CASE Above(R[j].span) = {}
    BY <2>1
  <2>2. ASSUME NEW k \in DOMAIN R, R[j].depth = R[k].depth + 1, ~Shut(R[k].span),
               Above(R[j].span) = {R[k].span} \cup Above(R[k].span)
        PROVE  Known(j)
    <3>1. R[k].depth < R[j].depth
      BY <2>2, <1>1
    <3>2. Known(k)
      BY <3>1, <1>3
    <3>3. ASSUME NEW a \in Above(R[j].span)
          PROVE  ~Shut(a) /\ \E l \in DOMAIN R : R[l].span = a /\ R[l].depth < R[j].depth
      <4>1. CASE a = R[k].span
        BY <4>1, <2>2, <3>1
      <4>2. CASE a \in Above(R[k].span)
        <5>1. PICK l \in DOMAIN R : R[l].span = a /\ R[l].depth < R[k].depth
          BY <4>2, <3>2
        <5>2. R[l].depth < R[j].depth
          BY <5>1, <3>1, <1>1
        <5> QED BY <5>1, <5>2, <4>2, <3>2
      <4> QED BY <4>1, <4>2, <2>2
    <3> QED BY <3>3
  <2> HIDE DEF Known
  <2> QED BY <2>1, <2>2, <1>2
<1>4. 0 \in S
  <2> SUFFICES ASSUME NEW j \in DOMAIN R, R[j].depth <= 0 PROVE Known(j)
    OBVIOUS
  <2> HIDE DEF Known
  <2>1. \A k \in DOMAIN R : ~(R[k].depth < R[j].depth)
    BY <1>1
  <2> QED BY <2>1, <1>3
<1>5. ASSUME NEW e \in S PROVE e + 1 \in S
  <2> HIDE DEF Known
  <2>0. e \in Nat /\ \A j \in DOMAIN R : R[j].depth <= e => Known(j)
    OBVIOUS
  <2>1. ASSUME NEW j \in DOMAIN R, R[j].depth <= e + 1 PROVE Known(j)
    <3>1. \A k \in DOMAIN R : R[k].depth < R[j].depth => R[k].depth <= e
      BY <2>0, <2>1, <1>1
    <3> QED BY <2>0, <3>1, <1>3
  <2> QED BY <2>0, <2>1
<1>6. S \in SUBSET Nat
  OBVIOUS
<1>7. \A j \in DOMAIN R : Known(j)
  <2>1. \A e \in Nat : e \in S
    <3> HIDE DEF S
    <3> QED BY <1>4, <1>5, <1>6, Counted
  <2> HIDE DEF Known
  <2>2. ASSUME NEW j \in DOMAIN R PROVE Known(j)
    <3>1. R[j].depth \in S /\ R[j].depth <= R[j].depth
      BY <1>1, <2>1
    <3> QED BY <3>1
  <2> QED BY <2>2
<1>8. ASSUME NEW j \in DOMAIN R PROVE R[j].span \notin Above(R[j].span)
  <2> SUFFICES ASSUME R[j].span \in Above(R[j].span) PROVE FALSE
    OBVIOUS
  <2>1. PICK k \in DOMAIN R : R[k].span = R[j].span /\ R[k].depth < R[j].depth
    BY <1>7
  <2>2. k = j
    BY <2>1, DrawnOnce
  <2> QED BY <2>1, <2>2, <1>1
<1>9. ~Circle(R[i].span)
  <2>1. ASSUME NEW a \in Above(R[i].span) PROVE a \notin Above(a)
    <3>1. PICK k \in DOMAIN R : R[k].span = a
      BY <1>7
    <3> QED BY <3>1, <1>8
  <2> QED BY <2>1, <1>8 DEF Circle
<1> QED BY <1>7, <1>9 DEF Free

LEMMA FreeIsDrawn ==
  ASSUME TreeInv, NEW R, Forest(R, 0, Roots), NEW n \in DOMAIN spans, Free(n)
  PROVE  \E i \in DOMAIN R : R[i].span = n
<1>1. Complete(R, 0, Roots)
  BY DEF Forest
<1>2. PICK N \in Nat : N = Len(spans) /\ DOMAIN spans = 1..N
  BY DEF TreeInv
<1>3. IsFiniteSet(1..N) /\ Cardinality(1..N) = N
  BY FS_Interval
<1>4. ASSUME NEW m \in DOMAIN spans
      PROVE  /\ IsFiniteSet(Above(m)) /\ Cardinality(Above(m)) \in Nat
             /\ m \notin Above(m) => Cardinality(Above(m)) < N
  <2>1. Above(m) \in SUBSET (1..N)
    BY <1>2 DEF Above
  <2>2. IsFiniteSet(Above(m)) /\ Cardinality(Above(m)) <= N /\ Cardinality(Above(m)) \in Nat
    BY <2>1, <1>3, FS_Subset, FS_CardinalityType
  <2>3. m \notin Above(m) => Cardinality(Above(m)) # N
    BY <2>1, <1>2, <1>3, FS_Subset
  <2> QED BY <2>2, <2>3
<1> DEFINE S == {c \in Nat : \A m \in DOMAIN spans :
                   Free(m) /\ Cardinality(Above(m)) = c =>
                     \E i \in DOMAIN R : R[i].span = m /\ R[i].depth = c}
<1>5. 0 \in S
  <2> SUFFICES ASSUME NEW m \in DOMAIN spans, Cardinality(Above(m)) = 0
               PROVE  \E i \in DOMAIN R : R[i].span = m /\ R[i].depth = 0
    OBVIOUS
  <2>1. Above(m) = {}
    BY <1>4, FS_EmptySet
  <2>2. ~HasParent(m)
    BY <2>1, AboveIs
  <2>3. m \in Roots /\ 0 < Len(spans)
    BY <2>2, <1>2 DEF Roots
  <2> QED BY <2>3, <1>1 DEF Complete
<1>6. ASSUME NEW c \in S PROVE c + 1 \in S
  <2>0. c \in Nat /\ \A m \in DOMAIN spans : Free(m) /\ Cardinality(Above(m)) = c =>
                       \E i \in DOMAIN R : R[i].span = m /\ R[i].depth = c
    OBVIOUS
  <2>1. ASSUME NEW m \in DOMAIN spans, Free(m), Cardinality(Above(m)) = c + 1
        PROVE  \E i \in DOMAIN R : R[i].span = m /\ R[i].depth = c + 1
    <3>1. HasParent(m)
      <4>1. Cardinality(Above(m)) # 0
        BY <2>0, <2>1
      <4>2. Above(m) # {}
        BY <4>1, FS_EmptySet
      <4> QED BY <4>2, AboveIs
    <3>2. PICK p \in DOMAIN spans : m \in Kids(p)
      BY <3>1, AboveIs
    <3>3. Above(m) = {p} \cup Above(p)
      BY <3>2, AboveIs
    <3>4. Free(p) /\ p \notin Above(p) /\ m \notin Above(m) /\ ~Shut(p)
      BY <2>1, <3>3 DEF Free, Circle
    <3>5. Cardinality(Above(m)) = Cardinality(Above(p)) + 1
      <4>1. Above(m) = Above(p) \cup {p} /\ IsFiniteSet(Above(p))
        BY <3>3, <1>4
      <4> QED BY <4>1, <3>4, FS_AddElement
    <3>6. Cardinality(Above(p)) = c /\ c + 1 < Len(spans)
      BY <2>0, <2>1, <3>4, <3>5, <1>2, <1>4
    <3>7. PICK k \in DOMAIN R : R[k].span = p /\ R[k].depth = c
      BY <2>0, <3>4, <3>6
    <3>8. ~Shut(R[k].span) /\ R[k].depth + 1 < Len(spans) /\ m \in Kids(R[k].span)
      BY <3>2, <3>4, <3>6, <3>7
    <3>9. PICK i \in DOMAIN R : R[i].span = m /\ R[i].depth = R[k].depth + 1
      BY <3>8, <1>1, Zenon DEF Complete
    <3> QED BY <3>7, <3>9
  <2> QED BY <2>0, <2>1
<1>7. S \in SUBSET Nat
  OBVIOUS
<1>8. \A c \in Nat : c \in S
  <2> HIDE DEF S
  <2> QED BY <1>5, <1>6, <1>7, Counted
<1> QED BY <1>4, <1>8

(* The rows are the forest below the roots, with one row of each node that *)
(* has nothing collapsed above it and is in or below no circle.            *)
LEMMA TreeIsDrawn == TreeInv => TreeDrawn
<1> SUFFICES ASSUME TreeInv PROVE TreeDrawn
  OBVIOUS
<1>0. PICK R : R = visible
  OBVIOUS
<1>1. Forest(R, 0, Roots)
  BY <1>0, VisibleIs
<1>2. /\ R \in Rows /\ Placed(R, 0, Roots) /\ Ordered(R)
      /\ DOMAIN R = 1..Len(R) /\ Len(R) \in Nat
      /\ \A i \in DOMAIN R : i \in Nat /\ R[i].depth \in Nat
  BY <1>1, RowsAre DEF Forest
<1> DEFINE Held(n) == {i \in DOMAIN R : R[i].span = n}
           Parent(i) == {k \in 1..(i - 1) : /\ R[k].depth < R[i].depth
                                            /\ \A l \in (k + 1)..(i - 1) : R[l].depth >= R[i].depth}
<1>3. ASSUME NEW n \in DOMAIN spans
      PROVE  IF Circle(n) \/ \E a \in Above(n) : spans[a].id \in collapsed
             THEN Held(n) = {} ELSE \E i \in DOMAIN R : Held(n) = {i}
  <2>1. Free(n) <=> ~(Circle(n) \/ \E a \in Above(n) : spans[a].id \in collapsed)
    BY DEF Free, Shut
  <2>2. CASE Free(n)
    <3>1. PICK i \in DOMAIN R : R[i].span = n
      BY <1>1, <2>2, FreeIsDrawn
    <3>2. \A k \in DOMAIN R : R[k].span = n => k = i
      BY <1>1, <3>1, DrawnOnce
    <3>3. Held(n) = {i}
      BY <3>1, <3>2
    <3> QED BY <2>1, <2>2, <3>3
  <2>3. CASE ~Free(n)
    <3>1. Held(n) = {}
      BY <1>1, <2>3, DrawnIsFree
    <3> QED BY <2>1, <2>3, <3>1
  <2> QED BY <2>2, <2>3
<1>4. ASSUME NEW i \in DOMAIN R
      PROVE  /\ R[i].span \in DOMAIN spans
             /\ \/ R[i].depth = 0 /\ ~HasParent(R[i].span)
                \/ \E k \in Parent(i) : /\ R[i].depth = R[k].depth + 1 /\ HasParent(R[i].span)
                                        /\ spans[R[k].span].id = spans[R[i].span].parent
  <2>1. ASSUME NEW k \in 1..(i - 1), Hangs(R, k, i)
        PROVE  /\ k \in Parent(i) /\ R[i].depth = R[k].depth + 1 /\ HasParent(R[i].span)
               /\ spans[R[k].span].id = spans[R[i].span].parent
    <3>1. k \in DOMAIN R
      BY <1>2
    <3>2. R[k].depth < R[i].depth /\ R[i].depth = R[k].depth + 1
      BY <1>2, <2>1, <3>1 DEF Hangs
    <3> QED BY <3>2, <2>1 DEF Hangs, Kids
  <2> QED BY <2>1, <1>2 DEF Placed, Roots
<1>5. ASSUME NEW i \in DOMAIN R
      PROVE  IF HasParent(R[i].span)
             THEN \E k \in Parent(i) : /\ spans[R[k].span].id = spans[R[i].span].parent
                                       /\ R[i].depth = R[k].depth + 1
             ELSE R[i].depth = 0
  <2> HIDE DEF Parent
  <2> QED BY <1>4
<1>6. ASSUME NEW i \in DOMAIN R, NEW k \in DOMAIN R, i < k, Parent(i) = Parent(k), R[i].depth = R[k].depth
      PROVE  spans[R[i].span].start <= spans[R[k].span].start
  <2>1. \A l \in i..k : R[l].depth >= R[i].depth
    <3>1. CASE R[k].depth = 0
      <4>1. \A l \in i..k : l \in DOMAIN R
        BY <1>2
      <4> QED BY <4>1, <3>1, <1>2, <1>6
    <3>2. ASSUME NEW p \in Parent(k) PROVE \A l \in i..k : R[l].depth >= R[i].depth
      <4>1. p \in 1..(i - 1)
        BY <1>6
      <4>2. \A l \in i..k : l \in (p + 1)..(k - 1) \/ l = k
        BY <4>1, <1>2
      <4>3. \A l \in (p + 1)..(k - 1) : R[l].depth >= R[k].depth
        BY <3>2
      <4> QED BY <4>2, <4>3, <1>2, <1>6
    <3> QED BY <3>1, <3>2, <1>4
  <2>2. Earlier(R[i].span, R[k].span)
    BY <2>1, <1>2, <1>6 DEF Ordered
  <2>3. spans[R[i].span].start \in Nat /\ spans[R[k].span].start \in Nat
    BY <1>4 DEF TreeInv
  <2> QED BY <2>2, <2>3 DEF Earlier
<1> HIDE DEF Held, Parent
<1>7. /\ \A n \in DOMAIN spans :
           IF Circle(n) \/ \E a \in Above(n) : spans[a].id \in collapsed
           THEN Held(n) = {} ELSE \E i \in DOMAIN R : Held(n) = {i}
      /\ \A i \in DOMAIN R :
           IF HasParent(R[i].span)
           THEN \E k \in Parent(i) : /\ spans[R[k].span].id = spans[R[i].span].parent
                                     /\ R[i].depth = R[k].depth + 1
           ELSE R[i].depth = 0
      /\ \A i, k \in DOMAIN R :
           i < k /\ Parent(i) = Parent(k) /\ R[i].depth = R[k].depth
             => spans[R[i].span].start <= spans[R[k].span].start
  BY <1>3, <1>5, <1>6
<1> QED BY <1>0, <1>7, Zenon DEF TreeDrawn, Held, Parent, Circle

(* For any trace and whatever is collapsed, each span is drawn once, below *)
(* its parent and among its siblings in the order of their start, but for  *)
(* those below a collapsed one or in a circle (SpanWaterfall.tsx).         *)
THEOREM SpansAreDrawn == WaterfallSpec => []TreeDrawn
BY TreeTyped, TreeIsDrawn, PTL
(***************************************************************************)
(*                              Calendars                                  *)
(*                                                                         *)
(* The Gregorian rules of the engine have an inverse (DateOf), and g2d is  *)
(* their day number; d2g undoes it by centuries and years that begin in    *)
(* March.  Between the breaks of 1210 and 1635 jalCal repeats 33 years, so *)
(* that j2d and d2j are the Jalali rules.  What the walk and the picker    *)
(* show then follows from the rules alone.                                 *)
(***************************************************************************)

(***************************************************************************)
(* Gregorian dates                                                         *)
(***************************************************************************)

(* Years, those near them, and the candidates for the year of a day.       *)
Within    == 1831..2253
Near      == 1830..2255
Months == 1..12
Days1831 == YearStart(1831)..(YearStart(2254) - 1)
Around(n) == ((1970 + n \div 366) - 1)..((1970 + n \div 366) + 2)
YearLength(y) == IF GregorianLeap(y) THEN 366 ELSE 365
MonthEnd(y, m) == DaysBefore(y, m) + GregorianLengths(y)[m]

LEMMA YearsAre == Within \subseteq Near /\ Near \subseteq Int /\ Within \subseteq Int /\ Months \subseteq Int
BY DEF Within, Near, Months

LEMMA YearIs ==
  ASSUME NEW y \in Int
  PROVE  /\ YearStart(y) \in Int /\ YearLength(y) \in {365, 366}
         /\ YearStart(y + 1) = YearStart(y) + YearLength(y)
BY DEF YearStart, GregorianLeap, YearLength

LEMMA YearsGrow ==
  ASSUME NEW y \in Near, NEW z \in Near, y < z
  PROVE  YearStart(y + 1) <= YearStart(z)
BY DEF YearStart, Near

LEMMA YearNear ==
  ASSUME NEW y \in Near, NEW n \in Int, YearStart(y) <= n, n < YearStart(y + 1)
  PROVE  y \in Around(n)
BY DEF YearStart, Near, Around

LEMMA CandidatesAre ==
  ASSUME NEW y \in Within, NEW n \in Int, YearStart(y) <= n, n < YearStart(y + 1),
         NEW x \in Around(n)
  PROVE  x \in Near
BY DEF YearStart, Within, Near, Around

LEMMA YearFound ==
  ASSUME NEW n \in Days1831
  PROVE  \E y \in Near : YearStart(y) <= n /\ n < YearStart(y + 1)
<1> DEFINE f == 1970 + n \div 366
<1>0. n \in Int /\ YearStart(1831) <= n /\ n < YearStart(2254)
  <2>1. YearStart(1831) \in Int /\ YearStart(2254) \in Int
    BY YearIs
  <2> QED BY <2>1 DEF Days1831
<1>1. f \in Int /\ YearStart(f - 1) <= n /\ n < YearStart(f + 3)
  BY <1>0 DEF YearStart
<1>2. f - 1 \in Near /\ f \in Near /\ f + 1 \in Near /\ f + 2 \in Near
  BY <1>0 DEF YearStart, Near
<1>3. YearStart(f) \in Int /\ YearStart(f + 1) \in Int /\ YearStart(f + 2) \in Int
  BY <1>1 DEF YearStart
<1> HIDE DEF f
<1> QED BY <1>0, <1>1, <1>2, <1>3

(* Months as seen from the start of their year.                            *)
LEMMA MonthLengths ==
  ASSUME NEW y \in Int, NEW m \in Months
  PROVE  /\ DaysBefore(y, m) \in Nat /\ GregorianLengths(y)[m] \in 28..31
         /\ MonthEnd(y, m) \in Nat /\ MonthEnd(y, m) <= YearLength(y)
         /\ m < 12 => MonthEnd(y, m) = DaysBefore(y, m + 1)
<1>1. CASE GregorianLeap(y)
  BY <1>1 DEF Months, DaysBefore, GregorianLengths, MonthEnd, YearLength
<1>2. CASE ~GregorianLeap(y)
  BY <1>2 DEF Months, DaysBefore, GregorianLengths, MonthEnd, YearLength
<1> QED BY <1>1, <1>2

LEMMA MonthsGrow ==
  ASSUME NEW y \in Int, NEW k \in Months, NEW m \in Months, k < m
  PROVE  MonthEnd(y, k) <= DaysBefore(y, m)
<1>1. CASE GregorianLeap(y)
  BY <1>1 DEF Months, DaysBefore, GregorianLengths, MonthEnd
<1>2. CASE ~GregorianLeap(y)
  BY <1>2 DEF Months, DaysBefore, GregorianLengths, MonthEnd
<1> QED BY <1>1, <1>2

LEMMA MonthFound ==
  ASSUME NEW y \in Int, NEW k \in 0..(YearLength(y) - 1)
  PROVE  \E m \in Months : DaysBefore(y, m) <= k /\ k < MonthEnd(y, m)
<1>1. CASE GregorianLeap(y)
  BY <1>1 DEF Months, DaysBefore, GregorianLengths, MonthEnd, YearLength
<1>2. CASE ~GregorianLeap(y)
  BY <1>2 DEF Months, DaysBefore, GregorianLengths, MonthEnd, YearLength
<1> QED BY <1>1, <1>2

LEMMA NewDateIs ==
  ASSUME NEW y \in Int, NEW m \in Months, NEW d \in Int
  PROVE  NewDate(y, m, d) = YearStart(y) + DaysBefore(y, m) + d - 1
<1>1. (m - 1) \div 12 = 0 /\ (m - 1) % 12 = m - 1
  BY DEF Months
<1>2. y + 0 = y /\ (m - 1) + 1 = m
  BY DEF Months
<1> QED BY <1>1, <1>2, SMTT(30) DEF NewDate

(* What DateOf chooses.                                                    *)
LEMMA YearChosen ==
  ASSUME NEW y \in Within, NEW n \in Int, YearStart(y) <= n, n < YearStart(y + 1)
  PROVE  (CHOOSE x \in Around(n) : YearStart(x) <= n /\ n < YearStart(x + 1)) = y
<1>0. y \in Near /\ y \in Int
  BY YearsAre
<1>1. y \in Around(n)
  BY <1>0, YearNear
<1>2. ASSUME NEW x \in Around(n), YearStart(x) <= n, n < YearStart(x + 1) PROVE x = y
  <2>1. x \in Near /\ x \in Int
    BY CandidatesAre, YearsAre, Zenon
  <2>2. YearStart(x) \in Int /\ YearStart(x + 1) \in Int /\ YearStart(y) \in Int /\ YearStart(y + 1) \in Int
    BY <1>0, <2>1, YearIs
  <2>3. x < y => YearStart(x + 1) <= YearStart(y)
    BY <1>0, <2>1, YearsGrow
  <2>4. y < x => YearStart(y + 1) <= YearStart(x)
    BY <1>0, <2>1, YearsGrow
  <2> QED BY <1>0, <1>2, <2>1, <2>2, <2>3, <2>4
<1> QED BY <1>1, <1>2, Zenon

LEMMA MonthChosen ==
  ASSUME NEW y \in Int, NEW start \in Int, NEW n \in Int, NEW m \in Months,
         start + DaysBefore(y, m) <= n, n < start + MonthEnd(y, m)
  PROVE  (CHOOSE k \in 1..12 : LET b == start + DaysBefore(y, k)
                               IN  b <= n /\ n < b + GregorianLengths(y)[k]) = m
<1>1. ASSUME NEW k \in Months
      PROVE  (LET b == start + DaysBefore(y, k) IN b <= n /\ n < b + GregorianLengths(y)[k])
                <=> start + DaysBefore(y, k) <= n /\ n < start + MonthEnd(y, k)
  <2>1. DaysBefore(y, k) \in Nat /\ GregorianLengths(y)[k] \in 28..31
    BY MonthLengths
  <2> QED BY <2>1 DEF MonthEnd
<1>2. ASSUME NEW k \in Months, start + DaysBefore(y, k) <= n, n < start + MonthEnd(y, k) PROVE k = m
  <2>1. DaysBefore(y, k) \in Nat /\ MonthEnd(y, k) \in Nat /\ DaysBefore(y, m) \in Nat /\ MonthEnd(y, m) \in Nat
    BY MonthLengths
  <2>2. k < m => MonthEnd(y, k) <= DaysBefore(y, m)
    BY MonthsGrow
  <2>3. m < k => MonthEnd(y, m) <= DaysBefore(y, k)
    BY MonthsGrow
  <2> QED BY <1>2, <2>1, <2>2, <2>3, YearsAre
<1> QED BY <1>1, <1>2, Zenon DEF Months

(* The date of a day is that of which it is the day.                       *)
Gregorian(y, m, d) == y \in Within /\ m \in Months /\ d \in 1..GregorianLengths(y)[m]

LEMMA DateIs ==
  ASSUME NEW y, NEW m, NEW d, Gregorian(y, m, d), NEW n, n = NewDate(y, m, d)
  PROVE  DateOf(n) = [y |-> y, m |-> m, d |-> d] /\ n \in Int /\ YearStart(y) <= n /\ n < YearStart(y + 1)
<1>0. y \in Within /\ y \in Int /\ m \in Months
  BY YearsAre DEF Gregorian
<1>1. PICK len \in 28..31, before \in Nat, start \in Int, last \in Nat :
        len = GregorianLengths(y)[m] /\ before = DaysBefore(y, m) /\ start = YearStart(y) /\ last = MonthEnd(y, m)
  <2>1. GregorianLengths(y)[m] \in 28..31 /\ DaysBefore(y, m) \in Nat /\ MonthEnd(y, m) \in Nat
    BY <1>0, MonthLengths
  <2>2. YearStart(y) \in Int
    BY <1>0, YearIs
  <2> QED BY <2>1, <2>2
<1>2. d \in 1..len /\ d \in Int
  BY <1>1 DEF Gregorian
<1>3. n = start + before + d - 1
  BY <1>0, <1>1, <1>2, NewDateIs
<1>4. last = before + len /\ last <= YearLength(y) /\ YearStart(y + 1) = start + YearLength(y) /\ YearLength(y) \in {365, 366}
  <2>1. last = before + len
    BY <1>1 DEF MonthEnd
  <2>2. last <= YearLength(y)
    BY <1>0, <1>1, MonthLengths
  <2>3. YearStart(y + 1) = start + YearLength(y) /\ YearLength(y) \in {365, 366}
    BY <1>0, <1>1, YearIs
  <2> QED BY <2>1, <2>2, <2>3
<1>5. n \in Int /\ YearStart(y) <= n /\ n < YearStart(y + 1)
  BY <1>1, <1>2, <1>3, <1>4
<1>6. PICK Y : Y = CHOOSE x \in Around(n) : YearStart(x) <= n /\ n < YearStart(x + 1)
  OBVIOUS
<1>7. PICK M : M = CHOOSE k \in 1..12 : LET b == YearStart(Y) + DaysBefore(Y, k)
                                        IN  b <= n /\ n < b + GregorianLengths(Y)[k]
  OBVIOUS
<1>8. DateOf(n) = [y |-> Y, m |-> M, d |-> n - YearStart(Y) - DaysBefore(Y, M) + 1]
  BY <1>6, <1>7, SMTT(30) DEF DateOf, Around
<1>9. Y = y
  BY <1>0, <1>5, <1>6, YearChosen
<1>10. M = m
  <2>1. M = CHOOSE k \in 1..12 : LET b == start + DaysBefore(y, k)
                                 IN  b <= n /\ n < b + GregorianLengths(y)[k]
    BY <1>1, <1>7, <1>9
  <2>2. start + DaysBefore(y, m) <= n /\ n < start + MonthEnd(y, m)
    BY <1>1, <1>2, <1>3, <1>4
  <2> QED BY <2>1, <2>2, <1>0, <1>1, <1>5, MonthChosen
<1>11. n - start - before + 1 = d
  BY <1>1, <1>2, <1>3
<1> QED BY <1>1, <1>5, <1>8, <1>9, <1>10, <1>11

(* And every day of these centuries has one.                               *)
LEMMA DateFound ==
  ASSUME NEW n \in Days1831
  PROVE  \E y, m, d : Gregorian(y, m, d) /\ n = NewDate(y, m, d)
<1>1. PICK y \in Near : YearStart(y) <= n /\ n < YearStart(y + 1)
  BY YearFound
<1>0. n \in Int /\ YearStart(1831) <= n /\ n < YearStart(2254)
  BY YearIs DEF Days1831
<1>2. y \in Int /\ YearStart(y) \in Int /\ YearStart(y + 1) = YearStart(y) + YearLength(y) /\ YearLength(y) \in {365, 366}
  BY YearIs, YearsAre
<1>3. y \in Within
  <2>1. 1831 \in Near /\ 2254 \in Near /\ YearStart(1831) \in Int /\ YearStart(2254) \in Int
    BY YearIs DEF Near
  <2>2. y < 1831 => YearStart(y + 1) <= YearStart(1831)
    BY <2>1, YearsGrow
  <2>3. 2254 < y => YearStart(2254 + 1) <= YearStart(y)
    BY <2>1, YearsGrow
  <2>4. YearStart(2254) <= YearStart(2254 + 1) /\ YearStart(2254 + 1) \in Int
    BY DEF YearStart
  <2>5. y # 2254
    BY <1>0, <1>1, <1>2, <2>1
  <2> QED BY <1>0, <1>1, <1>2, <2>1, <2>2, <2>3, <2>4, <2>5 DEF Near, Within
<1>4. n - YearStart(y) \in 0..(YearLength(y) - 1)
  BY <1>0, <1>1, <1>2
<1>5. PICK m \in Months : DaysBefore(y, m) <= n - YearStart(y) /\ n - YearStart(y) < MonthEnd(y, m)
  BY <1>2, <1>4, MonthFound
<1>6. DaysBefore(y, m) \in Nat /\ GregorianLengths(y)[m] \in 28..31
  BY <1>2, MonthLengths
<1>7. PICK d \in Int : d = n - YearStart(y) - DaysBefore(y, m) + 1
  BY <1>0, <1>2, <1>6
<1>8. d \in 1..GregorianLengths(y)[m] /\ n = YearStart(y) + DaysBefore(y, m) + d - 1
  BY <1>0, <1>2, <1>5, <1>6, <1>7 DEF MonthEnd
<1>9. n = NewDate(y, m, d)
  BY <1>2, <1>7, <1>8, NewDateIs
<1>10. Gregorian(y, m, d)
  BY <1>3, <1>8 DEF Gregorian
<1> QED BY <1>9, <1>10, Zenon

(***************************************************************************)
(* Day numbers                                                             *)
(***************************************************************************)

(* A month beside the rules of g2d: days since March began, and the years. *)
MonthTurn(m)  == div(153 * mod(m + 9, 12) + 2, 5)
MonthShift(m) == div(m - 8, 6)

LEMMA MonthTurnIs ==
  ASSUME NEW y \in Int, NEW m \in Months
  PROVE  IF m <= 2
         THEN MonthShift(m) = -1 /\ MonthTurn(m) = DaysBefore(y, m) + 306
         ELSE MonthShift(m) = 0 /\ MonthTurn(m) = DaysBefore(y, m) - 59 - (IF GregorianLeap(y) THEN 1 ELSE 0)
<1>1. CASE GregorianLeap(y)
  BY <1>1 DEF MonthTurn, MonthShift, Months, DaysBefore, div, mod
<1>2. CASE ~GregorianLeap(y)
  BY <1>2 DEF MonthTurn, MonthShift, Months, DaysBefore, div, mod
<1> QED BY <1>1, <1>2

Cycle(z) == (z * 1461) \div 4 - ((z \div 100) * 3) \div 4

LEMMA CycleIs ==
  ASSUME NEW y \in Near
  PROVE  /\ Cycle(y + 100099) = YearStart(y) + 37279937
         /\ Cycle(y + 100100) = YearStart(y) + 37280302 + (IF GregorianLeap(y) THEN 1 ELSE 0)
BY SMTT(30) DEF Cycle, YearStart, GregorianLeap, Near

LEMMA G2dIs ==
  ASSUME NEW y \in Near, NEW m \in Months, NEW d \in Int
  PROVE  g2d(y, m, d) = NewDate(y, m, d) + 2440588
<1>0. y \in Int
  BY YearsAre
<1>1. PICK start \in Int, before \in Nat, leap \in {0, 1} :
        start = YearStart(y) /\ before = DaysBefore(y, m) /\ leap = IF GregorianLeap(y) THEN 1 ELSE 0
  <2>1. YearStart(y) \in Int /\ DaysBefore(y, m) \in Nat
    BY <1>0, YearIs, MonthLengths
  <2> QED BY <2>1
<1>2. NewDate(y, m, d) = start + before + d - 1
  BY <1>0, <1>1, NewDateIs
<1>3. ASSUME NEW z \in {100099, 100100} 
      PROVE  /\ div((y + z) * 1461, 4) - div(div(y + z, 100) * 3, 4) = Cycle(y + z)
             /\ div((y + z) * 1461, 4) \in Int /\ div(div(y + z, 100) * 3, 4) \in Int
  BY DEF div, Cycle, Near
<1>4. g2d(y, m, d) = div((y + (MonthShift(m) + 100100)) * 1461, 4) + MonthTurn(m) + d - 34840408
                     - div(div(y + (MonthShift(m) + 100100), 100) * 3, 4) + 752
  BY SMTT(30) DEF g2d, MonthShift, MonthTurn
<1>5. CASE m <= 2
  <2>1. MonthShift(m) = -1 /\ MonthTurn(m) = before + 306
    BY <1>0, <1>1, <1>5, MonthTurnIs
  <2>2. y + (MonthShift(m) + 100100) = y + 100099
    BY <2>1, <1>0
  <2>3. PICK a \in Int, b \in Int : a = div((y + 100099) * 1461, 4) /\ b = div(div(y + 100099, 100) * 3, 4) /\ a - b = start + 37279937
    BY <1>3, <1>1, CycleIs
  <2>4. g2d(y, m, d) = a + (before + 306) + d - 34840408 - b + 752
    BY <1>4, <2>1, <2>2, <2>3
  <2> QED BY <2>3, <2>4, <1>1, <1>2
<1>6. CASE ~(m <= 2)
  <2>1. MonthShift(m) = 0 /\ MonthTurn(m) = before - 59 - leap
    BY <1>0, <1>1, <1>6, MonthTurnIs
  <2>2. y + (MonthShift(m) + 100100) = y + 100100
    BY <2>1, <1>0
  <2>3. PICK a \in Int, b \in Int : a = div((y + 100100) * 1461, 4) /\ b = div(div(y + 100100, 100) * 3, 4) /\ a - b = start + 37280302 + leap
    BY <1>3, <1>1, CycleIs
  <2>4. g2d(y, m, d) = a + (before - 59 - leap) + d - 34840408 - b + 752
    BY <1>4, <2>1, <2>2, <2>3
  <2> QED BY <2>3, <2>4, <1>1, <1>2
<1> QED BY <1>5, <1>6

Zs == 101920..102360

LEMMA CycleParts ==
  ASSUME NEW z \in Zs, NEW c \in Int, NEW u \in 0..99, z = 100 * c + u
  PROVE  z \div 100 = c /\ Cycle(z) = 36525 * c + 365 * u + u \div 4 - (c * 3) \div 4
BY DEF Zs, Cycle

(* A day counted from the first of March.                                  *)
LEMMA CenturyIs ==
  ASSUME NEW z \in Zs, NEW e \in 0..365, e = 365 => GregorianLeap(z - 100099),
         NEW jdn, jdn = Cycle(z) + e - 34839655
  PROVE  /\ jdn \in Nat
         /\ div(4 * jdn + 183187720, 146097) = z \div 100 + 300
<1>1. PICK c \in Nat, u \in 0..99 : z = 100 * c + u
  BY DEF Zs
<1>2. c \in 1019..1023
  BY <1>1 DEF Zs
<1>3. PICK t \in Int, q \in 0..24 : t = (c * 3) \div 4 /\ q = u \div 4
  BY <1>1, <1>2
<1>4. jdn = 36525 * c + 365 * u + q - t + e - 34839655
  BY <1>1, <1>3, CycleParts
<1>5. jdn \in Nat
  BY <1>2, <1>3, <1>4
<1>6. e = 365 => u % 4 = 3 /\ (u = 99 => c % 4 = 0)
  BY <1>1, <1>2 DEF GregorianLeap
<1>7. PICK r \in Int : r = 4 * jdn + 183187720 - 146097 * (c + 300)
  BY <1>5
<1>8. r = 3 * c - 4 * t + 1460 * u + 4 * q + 4 * e
  BY <1>4, <1>7
<1>9. 0 <= r /\ r < 146097
  <2>1. PICK f \in 0..3 : f = 3 * c - 4 * t /\ (c % 4 = 0 => f = 0)
    BY <1>2, <1>3
  <2>2. 4 * q <= u
    BY <1>3
  <2>3. r = f + 1460 * u + 4 * q + 4 * e
    BY <1>8, <2>1, <1>2, <1>3
  <2>4. CASE e = 365
    BY <2>1, <2>2, <2>3, <2>4, <1>6
  <2>5. CASE e <= 364
    BY <2>1, <2>2, <2>3, <2>5
  <2> QED BY <2>4, <2>5
<1>10. (4 * jdn + 183187720) \div 146097 = c + 300
  <2>1. PICK a \in Nat : a = 4 * jdn + 183187720
    BY <1>5
  <2>2. PICK k \in Int : k = a \div 146097 /\ 146097 * k <= a /\ a < 146097 * k + 146097
    BY <2>1
  <2>3. a = 146097 * (c + 300) + r
    BY <2>1, <1>5, <1>7, <1>2
  <2>4. k = c + 300
    BY <2>2, <2>3, <1>9, <1>2
  <2> QED BY <2>1, <2>2, <2>4
<1>11. z \div 100 = c
  BY <1>1, CycleParts
<1> QED BY <1>5, <1>10, <1>11 DEF div

MarchDays(jdn) == 4 * jdn + 139361631 + div(div(4 * jdn + 183187720, 146097) * 3, 4) * 4 - 3908

LEMMA MarchYearIs ==
  ASSUME NEW z \in Zs, NEW e \in 0..365, e = 365 => GregorianLeap(z - 100099),
         NEW jdn, jdn = Cycle(z) + e - 34839655
  PROVE  /\ MarchDays(jdn) \in Nat /\ div(MarchDays(jdn), 1461) = z
         /\ div(mod(MarchDays(jdn), 1461), 4) = e
<1>0. PICK j : j = MarchDays(jdn)
  OBVIOUS
<1>1. jdn \in Nat /\ div(4 * jdn + 183187720, 146097) = z \div 100 + 300
  BY CenturyIs
<1>2. PICK c \in 1019..1023 : c = z \div 100
  BY DEF Zs
<1>3. div((c + 300) * 3, 4) = (c * 3) \div 4 + 225
  BY DEF div
<1>4. PICK t \in Int : t = (c * 3) \div 4
  OBVIOUS
<1>5. j = 4 * jdn + 139361631 + (t + 225) * 4 - 3908
  BY <1>0, <1>1, <1>2, <1>3, <1>4 DEF MarchDays
<1>6. PICK s \in Int : s = (z * 1461) \div 4 /\ jdn = s - t + e - 34839655
  BY <1>2, <1>4 DEF Cycle, Zs
<1>7. j = 4 * s + 4 * e + 3
  BY <1>5, <1>6
<1>8. z \in Int /\ 4 * s = 1461 * z - (z % 4) /\ z % 4 \in 0..3
  BY <1>6 DEF Zs
<1>9. e = 365 => z % 4 = 3
  BY DEF GregorianLeap, Zs
<1>10. PICK r \in 0..1460 : r = 4 * e + 3 - (z % 4)
  BY <1>8, <1>9
<1>11. j = 1461 * z + r /\ z \in Nat
  BY <1>7, <1>8, <1>10 DEF Zs
<1>12. j \in Nat /\ j \div 1461 = z
  BY <1>11, SMTT(30)
<1>13. div(j, 1461) = z /\ mod(j, 1461) = r
  BY <1>11, <1>12 DEF div, mod
<1>14. div(r, 4) = e
  BY <1>8, <1>10, SMTT(30) DEF div
<1> QED BY <1>0, <1>12, <1>13, <1>14

(* The months from March on, and what d2g makes of the days of one.        *)
Longest == <<31, 29, 31, 30, 31, 30, 31, 31, 30, 31, 30, 31>>

LEMMA MarchMonthIs ==
  ASSUME NEW m \in Months
  PROVE  \E t \in 0..337, q \in 2..13, c \in 0..4, len \in 29..31 :
           /\ t = MonthTurn(m) /\ 5 * t + 308 = 153 * q + c /\ (q % 12) + 1 = m
           /\ len = Longest[m] /\ 5 * (len - 1) + c <= 152
           /\ t + len - 1 <= 365 /\ (t + len - 1 = 365 => m = 2)
           /\ div(8 - m, 6) = - MonthShift(m)
<1>1. ASSUME NEW k \in 1..12, m = k
      PROVE  /\ MonthTurn(m) = <<306, 337, 0, 31, 61, 92, 122, 153, 184, 214, 245, 275>>[k]
             /\ div(8 - m, 6) = - MonthShift(m)
  BY <1>1 DEF MonthTurn, MonthShift, div, mod
<1>2. m \in 1..12
  BY DEF Months
<1>3. MonthTurn(m) = <<306, 337, 0, 31, 61, 92, 122, 153, 184, 214, 245, 275>>[m]
      /\ div(8 - m, 6) = - MonthShift(m)
  BY <1>1, <1>2
<1>4. PICK q \in 2..13 : q = IF m <= 2 THEN m + 11 ELSE m - 1
  BY <1>2
<1>5. PICK t \in 0..337 : t = MonthTurn(m)
  BY <1>2, <1>3
<1>6. PICK len \in 29..31 : len = Longest[m]
  BY <1>2 DEF Longest
<1>7. PICK c \in 0..4 : c = 5 * t + 308 - 153 * q
  BY <1>2, <1>3, <1>4, <1>5
<1>8. t + len - 1 <= 365 /\ (t + len - 1 = 365 => m = 2)
  BY <1>2, <1>3, <1>5, <1>6 DEF Longest
<1>9. 5 * (len - 1) + c <= 152
  <2>1. ASSUME NEW k \in 1..12, m = k PROVE 5 * (len - 1) + c <= 152
    BY <1>3, <1>4, <1>5, <1>6, <1>7, <2>1 DEF Longest
  <2> QED BY <1>2, <2>1
<1>10. (q % 12) + 1 = m
  BY <1>2, <1>4
<1>11. 5 * t + 308 = 153 * q + c
  BY <1>7
<1> QED BY <1>3, <1>5, <1>6, <1>8, <1>9, <1>10, <1>11

LEMMA MarchDayIs ==
  ASSUME NEW y, NEW m, NEW d, Gregorian(y, m, d), NEW e, e = MonthTurn(m) + d - 1
  PROVE  /\ e \in 0..365 /\ (e = 365 => m = 2 /\ GregorianLeap(y))
         /\ mod(div(e * 5 + 308, 153), 12) + 1 = m
         /\ div(mod(e * 5 + 308, 153), 5) + 1 = d
         /\ div(8 - m, 6) = - MonthShift(m)
<1>0. m \in Months /\ d \in 1..GregorianLengths(y)[m]
  BY DEF Gregorian
<1>1. PICK t \in 0..337, q \in 2..13, c \in 0..4, len \in 29..31 :
           /\ t = MonthTurn(m) /\ 5 * t + 308 = 153 * q + c /\ (q % 12) + 1 = m
           /\ len = Longest[m] /\ 5 * (len - 1) + c <= 152
           /\ t + len - 1 <= 365 /\ (t + len - 1 = 365 => m = 2)
           /\ div(8 - m, 6) = - MonthShift(m)
  BY <1>0, MarchMonthIs
<1>2. d \in 1..len /\ (m = 2 /\ ~GregorianLeap(y) => d <= 28)
  <2>1. CASE GregorianLeap(y)
    BY <1>0, <1>1, <2>1 DEF GregorianLengths, Longest, Months
  <2>2. CASE ~GregorianLeap(y)
    BY <1>0, <1>1, <2>2 DEF GregorianLengths, Longest, Months
  <2> QED BY <2>1, <2>2
<1>3. PICK r \in 0..152 : r = 5 * (d - 1) + c
  BY <1>1, <1>2
<1>4. e \in 0..365 /\ e * 5 + 308 = 153 * q + r
  BY <1>1, <1>2, <1>3
<1>5. e = 365 => m = 2 /\ GregorianLeap(y)
  <2>1. m = 2 => len = 29
    BY <1>1 DEF Longest
  <2> QED BY <1>1, <1>2, <2>1
<1>6. div(e * 5 + 308, 153) = q /\ mod(e * 5 + 308, 153) = r
  BY <1>4 DEF div, mod
<1>7. mod(q, 12) + 1 = m
  BY <1>0, <1>1 DEF div, mod, Months
<1>8. div(r, 5) + 1 = d
  BY <1>2, <1>3 DEF div
<1> QED BY <1>1, <1>4, <1>5, <1>6, <1>7, <1>8

LEMMA D2gIs ==
  ASSUME NEW y, NEW m, NEW d, Gregorian(y, m, d), NEW jdn, jdn = NewDate(y, m, d) + 2440588
  PROVE  d2g(jdn) = [y |-> y, m |-> m, d |-> d]
<1>0. y \in Within /\ y \in Near /\ y \in Int /\ m \in Months /\ d \in 1..GregorianLengths(y)[m] /\ d \in Int
  BY YearsAre, MonthLengths DEF Gregorian
<1>1. PICK e \in 0..365 : e = MonthTurn(m) + d - 1
  BY MarchDayIs
<1>2. /\ e = 365 => m = 2 /\ GregorianLeap(y)
      /\ mod(div(e * 5 + 308, 153), 12) + 1 = m
      /\ div(mod(e * 5 + 308, 153), 5) + 1 = d
      /\ div(8 - m, 6) = - MonthShift(m)
  BY <1>1, MarchDayIs
<1>3. PICK sh \in {-1, 0} : sh = MonthShift(m) /\ (m = 2 => sh = -1)
  BY <1>0, MonthTurnIs DEF Months
<1>4. PICK z \in Zs : z = y + (sh + 100100)
  BY <1>0 DEF Within, Zs
<1>5. jdn = Cycle(z) + e - 34839655
  <2>1. jdn = g2d(y, m, d)
    BY <1>0, G2dIs
  <2>2. g2d(y, m, d) = div(z * 1461, 4) + MonthTurn(m) + d - 34840408 - div(div(z, 100) * 3, 4) + 752
    BY <1>3, <1>4, SMTT(30) DEF g2d, MonthShift, MonthTurn
  <2>3. div(z * 1461, 4) - div(div(z, 100) * 3, 4) = Cycle(z) /\ div(z * 1461, 4) \in Int /\ div(div(z, 100) * 3, 4) \in Int
    BY DEF div, Cycle, Zs
  <2>4. MonthTurn(m) \in Int
    BY <1>0, MonthTurnIs, MonthLengths
  <2> QED BY <2>1, <2>2, <2>3, <2>4, <1>0, <1>1
<1>6. e = 365 => GregorianLeap(z - 100099)
  <2>1. e = 365 => z - 100099 = y
    BY <1>0, <1>2, <1>3, <1>4
  <2> QED BY <2>1, <1>2
<1>7. PICK j : j = MarchDays(jdn)
  OBVIOUS
<1>8. j \in Nat /\ div(j, 1461) = z /\ div(mod(j, 1461), 4) = e
  BY <1>5, <1>6, <1>7, MarchYearIs
<1>9. d2g(jdn) = [y |-> div(j, 1461) - 100100 + div(8 - m, 6), m |-> m, d |-> d]
  BY <1>2, <1>7, <1>8, SMTT(30) DEF d2g, MarchDays
<1>10. div(j, 1461) - 100100 + div(8 - m, 6) = y
  BY <1>8, <1>2, <1>3, <1>4, <1>0
<1> QED BY <1>9, <1>10

(***************************************************************************)
(* Jalali years                                                            *)
(***************************************************************************)

Jalalis == 1211..1629

LEMMA LeapYearIs ==
  ASSUME NEW y \in Int
  PROVE  /\ NewYear(y) \in Int
         /\ NewYear(y + 1) = NewYear(y) + (IF JalaliLeap(y) THEN 366 ELSE 365)
<1>1. NewDate(2020, 3, 20) \in Int
  BY SMTT(30) DEF NewDate, YearStart, DaysBefore, GregorianLeap
<1>2. PICK q \in Int, r \in 0..32 : y = 33 * q + r
  <2>1. y \div 33 \in Int /\ y % 33 \in 0..32 /\ y = 33 * (y \div 33) + (y % 33)
    OBVIOUS
  <2> QED BY <2>1
<1>3. y % 33 = r
  BY <1>2
<1>4. PICK a \in Int : a = (8 * r + 21) \div 33 /\ (8 * y + 21) \div 33 = 8 * q + a
  BY <1>2
<1>5. (8 * (y + 1) + 21) \div 33 = 8 * q + a + (IF r \in {1, 5, 9, 13, 17, 22, 26, 30} THEN 1 ELSE 0)
  BY <1>2, <1>4
<1> QED BY <1>1, <1>3, <1>4, <1>5 DEF NewYear, JalaliLeap

(* The leap years up to each break of the table.                           *)
LeapsTo == <<-14, 3, 10, 49, 104, 167, 184, 199, 270, 287,
             294, 397, 500, 509, 532, 549, 564, 581, 596, 771>>

LEMMA BreaksAre ==
  /\ Len(BREAKS) = 20 /\ BREAKS[11] = 1210 /\ BREAKS[12] = 1635
  /\ \A i, k \in 1..20 : i < k => BREAKS[i] < BREAKS[k]
BY DEF BREAKS

LEMMA PassedIs == passed[11] = 294
<1>1. PICK f : f = [i \in 1..20 |-> LeapsTo[i]]
  OBVIOUS
<1>2. ASSUME NEW i \in 1..Len(BREAKS)
      PROVE  f[i] = IF i = 1 THEN -14
                    ELSE LET jump == BREAKS[i] - BREAKS[i - 1]
                         IN  f[i - 1] + div(jump, 33) * 8 + div(mod(jump, 33), 4)
  <2>0. i \in 1..20
    BY BreaksAre
  <2>1. CASE i = 1
    BY <2>1, <1>1 DEF LeapsTo
  <2>2. CASE i # 1
    <3>1. i - 1 \in 1..20 /\ f[i] = LeapsTo[i] /\ f[i - 1] = LeapsTo[i - 1]
      BY <2>0, <2>2, <1>1
    <3>2. LeapsTo[i] = LeapsTo[i - 1] + div(BREAKS[i] - BREAKS[i - 1], 33) * 8 + div(mod(BREAKS[i] - BREAKS[i - 1], 33), 4)
      BY <2>0, <2>2 DEF LeapsTo, BREAKS, div, mod
    <3> QED BY <3>1, <3>2, <2>2
  <2> QED BY <2>1, <2>2
<1>3. f = [i \in 1..Len(BREAKS) |->
            IF i = 1 THEN -14
            ELSE LET jump == BREAKS[i] - BREAKS[i - 1]
                 IN  f[i - 1] + div(jump, 33) * 8 + div(mod(jump, 33), 4)]
  BY <1>1, <1>2, BreaksAre
<1>4. passed = [i \in 1..Len(BREAKS) |->
            IF i = 1 THEN -14
            ELSE LET jump == BREAKS[i] - BREAKS[i - 1]
                 IN  passed[i - 1] + div(jump, 33) * 8 + div(mod(jump, 33), 4)]
  BY <1>3, Zenon DEF passed
<1>5. ASSUME NEW i \in 1..20
      PROVE  passed[i] = IF i = 1 THEN -14
                         ELSE passed[i - 1] + div(BREAKS[i] - BREAKS[i - 1], 33) * 8
                                            + div(mod(BREAKS[i] - BREAKS[i - 1], 33), 4)
  BY <1>4, BreaksAre
<1>6. passed[1] = -14
  BY <1>5
<1>7. ASSUME NEW i \in 2..20, passed[i - 1] = LeapsTo[i - 1] PROVE passed[i] = LeapsTo[i]
  <2>1. LeapsTo[i] = LeapsTo[i - 1] + div(BREAKS[i] - BREAKS[i - 1], 33) * 8 + div(mod(BREAKS[i] - BREAKS[i - 1], 33), 4)
    BY DEF LeapsTo, BREAKS, div, mod
  <2>2. i \in 1..20 /\ i # 1
    OBVIOUS
  <2>3. passed[i] = passed[i - 1] + div(BREAKS[i] - BREAKS[i - 1], 33) * 8 + div(mod(BREAKS[i] - BREAKS[i - 1], 33), 4)
    BY <2>2, <1>5
  <2> QED BY <2>1, <2>3, <1>7
<1>8. passed[2] = LeapsTo[2] /\ passed[3] = LeapsTo[3] /\ passed[4] = LeapsTo[4]
      /\ passed[5] = LeapsTo[5] /\ passed[6] = LeapsTo[6] /\ passed[7] = LeapsTo[7]
      /\ passed[8] = LeapsTo[8] /\ passed[9] = LeapsTo[9] /\ passed[10] = LeapsTo[10]
      /\ passed[11] = LeapsTo[11]
  <2>1. passed[1] = LeapsTo[1]
    BY <1>6 DEF LeapsTo
  <2> QED BY <2>1, <1>7
<1> QED BY <1>8 DEF LeapsTo

LeapJ(n)  == 294 + (n \div 33) * 8 + ((n % 33) + 3) \div 4
LeapG(gy) == gy \div 4 - (((gy \div 100) + 1) * 3) \div 4 - 150

LEMMA BreakChosen ==
  ASSUME NEW y \in Jalalis
  PROVE  NextBreak(y) = 12
<1>1. 12 \in 2..Len(BREAKS) /\ y < BREAKS[12] /\ y >= BREAKS[12 - 1]
  BY DEF BREAKS, Jalalis
<1>2. ASSUME NEW i \in 2..Len(BREAKS), y < BREAKS[i] /\ y >= BREAKS[i - 1] PROVE i = 12
  <2>1. i \in 2..20
    BY BreaksAre
  <2> QED BY <2>1, <1>2 DEF BREAKS, Jalalis
<1> QED BY <1>1, <1>2, Zenon DEF NextBreak

LEMMA JalCalIs ==
  ASSUME NEW y \in Jalalis, NEW n, n = y - 1210
  PROVE  jalCal(y) = [leap |-> IF n % 33 = 32 THEN 4 ELSE (n % 33) % 4, gy |-> y + 621,
                      march |-> 20 + LeapJ(n) - LeapG(y + 621)]
<1>0. n \in 1..419 /\ y \in Nat
  BY DEF Jalalis
<1>1. PICK k : k = NextBreak(y)
  OBVIOUS
<1>2. k = 12 /\ k - 1 = 11
  BY <1>1, BreakChosen
<1>5. PICK jump : jump = BREAKS[k] - BREAKS[k - 1]
  OBVIOUS
<1>6. jump = 425
  BY <1>2, <1>5, BreaksAre
<1>7. BREAKS[k - 1] = 1210 /\ passed[k - 1] = 294
  BY <1>2, PassedIs, BreaksAre
<1>8. PICK leapJ : leapJ = passed[k - 1] + div(n, 33) * 8 + div(mod(n, 33) + 3, 4)
                           + (IF mod(jump, 33) = 4 /\ jump - n = 4 THEN 1 ELSE 0)
  OBVIOUS
<1>9. leapJ = LeapJ(n)
  BY <1>0, <1>6, <1>7, <1>8 DEF LeapJ, div, mod
<1>10. PICK leapG : leapG = div(y + 621, 4) - div((div(y + 621, 100) + 1) * 3, 4) - 150
  OBVIOUS
<1>11. leapG = LeapG(y + 621)
  BY <1>0, <1>10 DEF LeapG, div
<1>12. PICK m : m = IF jump - n < 6 THEN n - jump + div(jump + 4, 33) * 33 ELSE n
  OBVIOUS
<1>13. m = n
  BY <1>0, <1>6, <1>12
<1>14. PICK leap : leap = mod(mod(m + 1, 33) - 1, 4)
  OBVIOUS
<1>15. (IF leap = -1 THEN 4 ELSE leap) = IF n % 33 = 32 THEN 4 ELSE (n % 33) % 4
  BY <1>0, <1>13, <1>14 DEF div, mod
<1>16. jalCal(y) = [leap |-> IF leap = -1 THEN 4 ELSE leap, gy |-> y + 621, march |-> 20 + leapJ - leapG]
  <2>1. n = y - BREAKS[k - 1]
    BY <1>7
  <2> QED BY <2>1, <1>1, <1>5, <1>8, <1>10, <1>12, <1>14, SMTT(30) DEF jalCal
<1> QED BY <1>9, <1>11, <1>15, <1>16

LEMMA Parts33 ==
  ASSUME NEW n \in Int
  PROVE  \E q \in Int, r \in 0..32 : n = 33 * q + r /\ n \div 33 = q /\ n % 33 = r
<1>1. n \div 33 \in Int /\ n % 33 \in 0..32 /\ n = 33 * (n \div 33) + (n % 33)
  OBVIOUS
<1> QED BY <1>1

LEMMA LeapJIs ==
  ASSUME NEW n \in Nat
  PROVE  LeapJ(n) \in Int /\ LeapJ(n) = (8 * (n + 1210) + 21) \div 33 + 1
<1>2. PICK q \in Int, r \in 0..32 : n = 33 * q + r /\ n \div 33 = q /\ n % 33 = r
  BY Parts33
<1>4. (8 * (n + 1210) + 21) \div 33 = 8 * q + (8 * r + 9701) \div 33
  BY <1>2
<1>5. PICK a \in Int, b \in Int : a = (8 * r + 9701) \div 33 /\ b = (r + 3) \div 4 /\ a + 1 = 294 + b
  OBVIOUS
<1>6. LeapJ(n) = 294 + q * 8 + b
  BY <1>2, <1>5 DEF LeapJ
<1> QED BY <1>4, <1>5, <1>6

LEMMA LeapGIs ==
  ASSUME NEW g \in Near
  PROVE  LeapG(g) \in Int /\ YearStart(g) + (IF GregorianLeap(g) THEN 1 ELSE 0) - LeapG(g) = 365 * g - 719377
BY DEF LeapG, YearStart, GregorianLeap, Near

(* The first of Farvardin, as the code finds it and as the rules have it.  *)
LEMMA NewYearIs ==
  ASSUME NEW y \in Jalalis
  PROVE  /\ jalCal(y).gy = y + 621
         /\ g2d(y + 621, 3, jalCal(y).march) = NewYear(y) + 2440588
         /\ jalCal(y).leap = 0 <=> JalaliLeap(y)
         /\ jalCal(y).leap = 1 <=> JalaliLeap(y - 1)
<1>0. PICK n \in 1..419 : n = y - 1210
  BY DEF Jalalis
<1>1. jalCal(y) = [leap |-> IF n % 33 = 32 THEN 4 ELSE (n % 33) % 4, gy |-> y + 621,
                   march |-> 20 + LeapJ(n) - LeapG(y + 621)]
  BY <1>0, JalCalIs
<1>2. PICK a \in Int, b \in Int, l \in {0, 1}, s \in Int :
        /\ a = LeapJ(n) /\ b = LeapG(y + 621) /\ s = YearStart(y + 621)
        /\ l = IF GregorianLeap(y + 621) THEN 1 ELSE 0
        /\ a = (8 * y + 21) \div 33 + 1 /\ s + l - b = 365 * (y + 621) - 719377
  <2>1. y + 621 \in Near /\ y + 621 \in Int
    BY DEF Jalalis, Near
  <2>2. YearStart(y + 621) \in Int
    BY <2>1, YearIs
  <2>3. LeapJ(n) \in Int /\ LeapJ(n) = (8 * y + 21) \div 33 + 1
    <3>1. n \in Nat /\ n + 1210 = y
      BY <1>0 DEF Jalalis
    <3>2. LeapJ(n) \in Int /\ LeapJ(n) = (8 * (n + 1210) + 21) \div 33 + 1
      BY <3>1, LeapJIs
    <3> QED BY <3>1, <3>2
  <2>4. LeapG(y + 621) \in Int /\ YearStart(y + 621) + (IF GregorianLeap(y + 621) THEN 1 ELSE 0) - LeapG(y + 621) = 365 * (y + 621) - 719377
    BY <2>1, LeapGIs
  <2> QED BY <2>2, <2>3, <2>4
<1>3. jalCal(y).march = 20 + a - b
  BY <1>1, <1>2
<1>4. g2d(y + 621, 3, 20 + a - b) = NewDate(y + 621, 3, 20 + a - b) + 2440588
  <2>1. y + 621 \in Near /\ 3 \in Months /\ 20 + a - b \in Int
    BY DEF Jalalis, Near, Months
  <2> QED BY <2>1, G2dIs
<1>5. NewDate(y + 621, 3, 20 + a - b) = s + 59 + l + (20 + a - b) - 1
  <2>1. y + 621 \in Int /\ 3 \in Months /\ 20 + a - b \in Int
    BY DEF Jalalis, Months
  <2>2. DaysBefore(y + 621, 3) = 59 + l
    BY <1>2 DEF DaysBefore
  <2>3. NewDate(y + 621, 3, 20 + a - b) = YearStart(y + 621) + DaysBefore(y + 621, 3) + (20 + a - b) - 1
    BY <2>1, NewDateIs
  <2> QED BY <2>2, <2>3, <1>2
<1>6. NewYear(y) = 18341 + 365 * (y - 1399) + (a - 1) - 339
  <2>1. NewDate(2020, 3, 20) = 18341
    BY SMTT(30) DEF NewDate, YearStart, DaysBefore, GregorianLeap
  <2> QED BY <2>1, <1>2 DEF NewYear, Jalalis
<1>7. NewDate(y + 621, 3, 20 + a - b) = NewYear(y)
  BY <1>2, <1>5, <1>6 DEF Jalalis
<1>8. jalCal(y).leap = 0 <=> JalaliLeap(y)
  <2>1. jalCal(y).leap = IF n % 33 = 32 THEN 4 ELSE (n % 33) % 4
    BY <1>1
  <2>2. PICK r \in 0..32, u \in 0..32 : r = n % 33 /\ u = y % 33 /\ u = (r + 22) % 33
    BY <1>0, SMTT(40) DEF Jalalis
  <2>3. (IF r = 32 THEN 4 ELSE r % 4) = 0 <=> u \in {1, 5, 9, 13, 17, 22, 26, 30}
    BY <2>2, SMTT(40)
  <2> QED BY <2>1, <2>2, <2>3 DEF JalaliLeap
<1>9. jalCal(y).leap = 1 <=> JalaliLeap(y - 1)
  <2>1. jalCal(y).leap = IF n % 33 = 32 THEN 4 ELSE (n % 33) % 4
    BY <1>1
  <2>2. PICK r \in 0..32, u \in 0..32 : r = n % 33 /\ u = (y - 1) % 33 /\ u = (r + 21) % 33
    BY <1>0, SMTT(40) DEF Jalalis
  <2>3. (IF r = 32 THEN 4 ELSE r % 4) = 1 <=> u \in {1, 5, 9, 13, 17, 22, 26, 30}
    BY <2>2, SMTT(40)
  <2> QED BY <2>1, <2>2, <2>3 DEF JalaliLeap
<1>10. jalCal(y).gy = y + 621
  BY <1>1
<1> QED BY <1>3, <1>4, <1>7, <1>8, <1>9, <1>10

(***************************************************************************)
(* Jalali dates                                                            *)
(***************************************************************************)

JalaliBefore(m)    == 31 * (m - 1) - (IF m > 7 THEN m - 7 ELSE 0)
DayOf(y, m, d)     == NewYear(y) + JalaliBefore(m) + d - 1
Reckoned == 1211..1628
Jalali(y, m, d)    == y \in Reckoned /\ m \in Months /\ d \in 1..JalaliLength(y, m)

(* Farvardin begins in March.                                              *)
LEMMA SpringIs ==
  ASSUME NEW y \in Jalalis
  PROVE  /\ NewYear(y) \in Int /\ y \in Int /\ y + 621 \in Within
         /\ YearStart(y + 621) + 78 <= NewYear(y) /\ NewYear(y) <= YearStart(y + 621) + 80
<1>1. NewDate(2020, 3, 20) = 18341
  BY SMTT(30) DEF NewDate, YearStart, DaysBefore, GregorianLeap
<1>2. NewYear(y) = 18341 + 365 * (y - 1399) + (8 * y + 21) \div 33 - 339
  BY <1>1 DEF NewYear, Jalalis
<1> QED BY <1>2 DEF YearStart, Jalalis, Within

LEMMA JalaliMonths ==
  ASSUME NEW y \in Int, NEW m \in Months
  PROVE  /\ JalaliLength(y, m) \in 29..31 /\ JalaliBefore(m) \in 0..336
         /\ JalaliBefore(m) + JalaliLength(y, m) <= 365 + (IF JalaliLeap(y) THEN 1 ELSE 0)
         /\ IF m <= 6 THEN JalaliBefore(m) = 31 * (m - 1)
            ELSE JalaliBefore(m) = 186 + 30 * (m - 7) /\ JalaliLength(y, m) <= 30
BY DEF JalaliLength, JalaliBefore, Months

LEMMA J2dIs ==
  ASSUME NEW y \in Jalalis, NEW m \in Months, NEW d \in Int
  PROVE  j2d(y, m, d) = DayOf(y, m, d) + 2440588
<1>1. div(m, 7) * (m - 7) = IF m > 7 THEN m - 7 ELSE 0
  BY DEF div, Months
<1>2. m \in Int /\ div(m, 7) * (m - 7) \in Int
  BY <1>1 DEF Months
<1>3. j2d(y, m, d) = g2d(y + 621, 3, jalCal(y).march) + (m - 1) * 31 - div(m, 7) * (m - 7) + d - 1
  BY NewYearIs, SMTT(30) DEF j2d
<1>4. j2d(y, m, d) = (NewYear(y) + 2440588) + (m - 1) * 31 - (IF m > 7 THEN m - 7 ELSE 0) + d - 1
  BY <1>1, <1>3, NewYearIs
<1> QED BY <1>2, <1>4, SpringIs DEF DayOf, JalaliBefore

(* What d2j makes of a day of the Gregorian year 621 years on.             *)
D2jRule(y, k, l) ==
  IF 0 <= k /\ k <= 185 THEN [y |-> y, m |-> 1 + div(k, 31), d |-> mod(k, 31) + 1]
  ELSE IF k > 185 THEN [y |-> y, m |-> 7 + div(k - 186, 30), d |-> mod(k - 186, 30) + 1]
  ELSE [y |-> y - 1, m |-> 7 + div(k + 179 + l, 30), d |-> mod(k + 179 + l, 30) + 1]

LEMMA D2jIs ==
  ASSUME NEW n \in Int, NEW y \in Jalalis, d2g(n + 2440588).y = y + 621
  PROVE  d2j(n + 2440588) = D2jRule(y, n - NewYear(y), IF JalaliLeap(y - 1) THEN 1 ELSE 0)
<1>1. PICK r : r = jalCal(y)
  OBVIOUS
<1>2. PICK k \in Int : k = (n + 2440588) - g2d(y + 621, 3, r.march) /\ k = n - NewYear(y)
  <2>1. g2d(y + 621, 3, r.march) = NewYear(y) + 2440588 /\ NewYear(y) \in Int
    BY <1>1, NewYearIs, SpringIs
  <2> QED BY <2>1
<1>3. r.leap = 1 <=> JalaliLeap(y - 1)
  BY <1>1, NewYearIs
<1>4. (y + 621) - 621 = y
  BY SpringIs
<1>5. d2j(n + 2440588) =
           IF k \in 0..185
           THEN [y |-> y, m |-> 1 + div(k, 31), d |-> mod(k, 31) + 1]
           ELSE IF k > 185
           THEN [y |-> y, m |-> 7 + div(k - 186, 30), d |-> mod(k - 186, 30) + 1]
           ELSE [y |-> y - 1, m |-> 7 + div(k + 179 + (IF r.leap = 1 THEN 1 ELSE 0), 30),
                 d |-> mod(k + 179 + (IF r.leap = 1 THEN 1 ELSE 0), 30) + 1]
  BY <1>1, <1>2, <1>4, SMTT(30) DEF d2j
<1>6. k \in 0..185 <=> 0 <= k /\ k <= 185
  BY <1>2
<1>7. d2j(n + 2440588) = D2jRule(y, k, IF JalaliLeap(y - 1) THEN 1 ELSE 0)
  BY <1>3, <1>5, <1>6 DEF D2jRule
<1> QED BY <1>2, <1>7

(* A day within a Jalali year, in the Gregorian year that began before it  *)
(* or the next.                                                            *)
LEMMA JalaliDayIs ==
  ASSUME NEW y, NEW m, NEW d, Jalali(y, m, d)
  PROVE  /\ DayOf(y, m, d) \in Int /\ y \in Int /\ y \in Jalalis /\ y + 1 \in Jalalis
         /\ NewYear(y) <= DayOf(y, m, d) /\ DayOf(y, m, d) < NewYear(y + 1)
<1>1. y \in Int /\ y \in Jalalis /\ y + 1 \in Jalalis /\ m \in Months
  BY DEF Jalali, Reckoned, Jalalis
<1>2. PICK b \in 0..336, len \in 29..31, l \in {0, 1} :
        b = JalaliBefore(m) /\ len = JalaliLength(y, m) /\ b + len <= 365 + l
        /\ l = IF JalaliLeap(y) THEN 1 ELSE 0
  BY <1>1, JalaliMonths
<1>3. PICK s \in Int : s = NewYear(y) /\ NewYear(y + 1) = s + 365 + l
  BY <1>1, <1>2, LeapYearIs
<1>4. d \in 1..len
  BY <1>2 DEF Jalali
<1>5. DayOf(y, m, d) = s + b + d - 1
  BY <1>2, <1>3 DEF DayOf
<1> QED BY <1>1, <1>2, <1>3, <1>4, <1>5

LEMMA DaysWithin ==
  ASSUME NEW y \in Reckoned, NEW n \in Int, NewYear(y) <= n, n < NewYear(y + 1)
  PROVE  n \in Days1831 /\ YearStart(y + 621) + 78 <= n /\ n < YearStart(y + 622) + 80
<1>1. y \in Jalalis /\ y + 1 \in Jalalis /\ y + 621 \in Within /\ y + 622 \in Within /\ y + 1 + 621 = y + 622
  BY DEF Reckoned, Jalalis, Within
<1>2. YearStart(y + 621) + 78 <= NewYear(y) /\ NewYear(y + 1) <= YearStart(y + 622) + 80 /\ NewYear(y) \in Int /\ NewYear(y + 1) \in Int
  BY <1>1, SpringIs
<1>3. YearStart(1831) <= YearStart(y + 621) /\ YearStart(y + 622) + 80 < YearStart(2254)
      /\ YearStart(1831) \in Int /\ YearStart(y + 621) \in Int /\ YearStart(y + 622) \in Int /\ YearStart(2254) \in Int
  BY DEF YearStart, Reckoned
<1> QED BY <1>2, <1>3 DEF Days1831

LEMMA YearBetween ==
  ASSUME NEW y \in Reckoned, NEW g \in Within, NEW n \in Int, YearStart(g) <= n, n < YearStart(g + 1),
         YearStart(y + 621) + 78 <= n, n < YearStart(y + 622) + 80
  PROVE  g = y + 621 \/ (g = y + 622 /\ n >= YearStart(y + 622))
BY DEF YearStart, Reckoned, Within

(* From a Jalali date to its day: the days of the rules.                   *)
LEMMA ToDate ==
  ASSUME NEW y, NEW m, NEW d, Jalali(y, m, d)
  PROVE  jalaliToDate(y, m, d) = DayOf(y, m, d)
<1>1. y \in Reckoned /\ y \in Jalalis /\ m \in Months /\ d \in Int /\ DayOf(y, m, d) \in Int
      /\ NewYear(y) <= DayOf(y, m, d) /\ DayOf(y, m, d) < NewYear(y + 1)
  BY JalaliDayIs DEF Jalali
<1>2. PICK n \in Int : n = DayOf(y, m, d) /\ NewYear(y) <= n /\ n < NewYear(y + 1)
  BY <1>1
<1>2a. n \in Days1831 /\ YearStart(y + 621) + 78 <= n /\ n < YearStart(y + 622) + 80
  BY <1>1, <1>2, DaysWithin
<1>3. PICK gy, gm, gd : Gregorian(gy, gm, gd) /\ n = NewDate(gy, gm, gd)
  BY <1>2a, DateFound
<1>4. j2d(y, m, d) = n + 2440588
  BY <1>1, <1>2, J2dIs
<1>5. d2g(j2d(y, m, d)) = [y |-> gy, m |-> gm, d |-> gd]
  BY <1>3, <1>4, D2gIs
<1>6. jalaliToDate(y, m, d) = NewDate(gy, gm, gd)
  BY <1>5, SMTT(30) DEF jalaliToDate
<1> QED BY <1>2, <1>3, <1>6

(* And from the day to the date: what d2j makes of the day of a date, in   *)
(* the Gregorian year its year begins in or in the next.                   *)
LEMMA RuleIs ==
  ASSUME NEW y \in Int, NEW m \in Months, NEW d \in 1..JalaliLength(y, m), NEW l \in {0, 1},
         l = 1 <=> JalaliLeap(y), NEW j \in {0, 1}
  PROVE  /\ D2jRule(y, JalaliBefore(m) + d - 1, j) = [y |-> y, m |-> m, d |-> d]
         /\ JalaliBefore(m) + d - 1 >= 265 =>
              D2jRule(y + 1, JalaliBefore(m) + d - 1 - 365 - l, l) = [y |-> y, m |-> m, d |-> d]
<1>1. PICK b \in 0..336, len \in 29..31 :
        b = JalaliBefore(m) /\ len = JalaliLength(y, m) /\ b + len <= 365 + l
        /\ IF m <= 6 THEN b = 31 * (m - 1) ELSE b = 186 + 30 * (m - 7) /\ len <= 30
  BY JalaliMonths
<1>2. d \in 1..len /\ d \in Int /\ m \in 1..12
  BY <1>1 DEF Months
<1>3. PICK k \in 0..365 : k = b + d - 1 /\ k = JalaliBefore(m) + d - 1
  BY <1>1, <1>2
<1>4. D2jRule(y, k, j) = [y |-> y, m |-> m, d |-> d]
  <2>1. CASE m <= 6
    <3>1. k = 31 * (m - 1) + (d - 1) /\ d - 1 \in 0..30 /\ m - 1 \in 0..5
      BY <1>1, <1>2, <1>3, <2>1
    <3>2. 0 <= k /\ k <= 185 /\ 1 + div(k, 31) = m /\ mod(k, 31) + 1 = d
      BY <3>1, <1>2 DEF div, mod
    <3> QED BY <3>2 DEF D2jRule
  <2>2. CASE ~(m <= 6)
    <3>1. k - 186 = 30 * (m - 7) + (d - 1) /\ d - 1 \in 0..29 /\ m - 7 \in 0..5
      BY <1>1, <1>2, <1>3, <2>2
    <3>2. ~(0 <= k /\ k <= 185) /\ k > 185 /\ 7 + div(k - 186, 30) = m /\ mod(k - 186, 30) + 1 = d
      BY <3>1, <1>2, <1>3 DEF div, mod
    <3> QED BY <3>2 DEF D2jRule
  <2> QED BY <2>1, <2>2
<1>5. ASSUME k >= 265 PROVE D2jRule(y + 1, k - 365 - l, l) = [y |-> y, m |-> m, d |-> d]
  <2>1. ~(m <= 6)
    BY <1>1, <1>2, <1>3, <1>5
  <2>2. PICK h \in Int : h = k - 365 - l
    OBVIOUS
  <2>2a. h < 0
    BY <1>1, <1>2, <1>3, <2>2
  <2>3. h + 179 + l = 30 * (m - 7) + (d - 1) /\ d - 1 \in 0..29 /\ m - 7 \in 0..5
    BY <1>1, <1>2, <1>3, <2>1, <2>2
  <2>4. 7 + div(h + 179 + l, 30) = m /\ mod(h + 179 + l, 30) + 1 = d
    BY <2>3, <1>2 DEF div, mod
  <2>5. ~(0 <= h /\ h <= 185) /\ ~(h > 185) /\ (y + 1) - 1 = y
    BY <2>2a
  <2>6. D2jRule(y + 1, h, l) = [y |-> y, m |-> m, d |-> d]
    BY <2>4, <2>5 DEF D2jRule
  <2> QED BY <2>2, <2>6
<1>6. D2jRule(y, JalaliBefore(m) + d - 1, j) = [y |-> y, m |-> m, d |-> d]
  BY <1>3, <1>4
<1>7. ASSUME JalaliBefore(m) + d - 1 >= 265
      PROVE  D2jRule(y + 1, JalaliBefore(m) + d - 1 - 365 - l, l) = [y |-> y, m |-> m, d |-> d]
  <2>1. k >= 265
    BY <1>3, <1>7
  <2>2. D2jRule(y + 1, k - 365 - l, l) = [y |-> y, m |-> m, d |-> d]
    BY <1>5, <2>1
  <2>3. JalaliBefore(m) + d - 1 - 365 - l = k - 365 - l
    BY <1>1, <1>2, <1>3
  <2> QED BY <2>2, <2>3, Zenon
<1> QED BY <1>6, <1>7

LEMMA FromDate ==
  ASSUME NEW y, NEW m, NEW d, Jalali(y, m, d)
  PROVE  toJalali(DayOf(y, m, d)) = [y |-> y, m |-> m, d |-> d]
<1>1. y \in Reckoned /\ y \in Int /\ y \in Jalalis /\ y + 1 \in Jalalis /\ m \in Months
      /\ d \in 1..JalaliLength(y, m)
      /\ DayOf(y, m, d) \in Int /\ NewYear(y) <= DayOf(y, m, d) /\ DayOf(y, m, d) < NewYear(y + 1)
  BY JalaliDayIs DEF Jalali
<1>2. PICK n \in Int : n = DayOf(y, m, d) /\ NewYear(y) <= n /\ n < NewYear(y + 1)
  BY <1>1
<1>3. n \in Days1831 /\ YearStart(y + 621) + 78 <= n /\ n < YearStart(y + 622) + 80
  BY <1>1, <1>2, DaysWithin
<1>4. PICK gy, gm, gd : Gregorian(gy, gm, gd) /\ n = NewDate(gy, gm, gd)
  BY <1>3, DateFound
<1>5. gy \in Within /\ gy \in Near /\ gy \in Int /\ gm \in Months /\ gd \in Int
  BY <1>4, YearsAre, MonthLengths DEF Gregorian
<1>6. n \in Int /\ YearStart(gy) <= n /\ n < YearStart(gy + 1) /\ DateOf(n) = [y |-> gy, m |-> gm, d |-> gd]
  BY <1>4, DateIs
<1>7. g2d(gy, gm, gd) = n + 2440588
  BY <1>4, <1>5, G2dIs
<1>8. d2g(n + 2440588).y = gy
  BY <1>4, D2gIs
<1>9. toJalali(n) = d2j(n + 2440588)
  BY <1>6, <1>7, SMTT(30) DEF toJalali
<1>10. gy = y + 621 \/ (gy = y + 622 /\ n >= YearStart(y + 622))
  BY <1>1, <1>2, <1>3, <1>5, <1>6, YearBetween
<1>11. PICK l \in {0, 1} : l = IF JalaliLeap(y) THEN 1 ELSE 0
  OBVIOUS
<1>12. PICK j \in {0, 1} : j = IF JalaliLeap(y - 1) THEN 1 ELSE 0
  OBVIOUS
<1>13. NewYear(y) \in Int /\ NewYear(y + 1) \in Int /\ NewYear(y + 1) = NewYear(y) + 365 + l
  BY <1>1, <1>11, LeapYearIs, SpringIs
<1>14. JalaliBefore(m) \in 0..336 /\ d \in Int
  BY <1>1, JalaliMonths
<1>15. n - NewYear(y) = JalaliBefore(m) + d - 1
  BY <1>2, <1>13, <1>14 DEF DayOf
<1>16. CASE gy = y + 621
  <2>1. d2j(n + 2440588) = D2jRule(y, n - NewYear(y), j)
    BY <1>1, <1>2, <1>8, <1>12, <1>16, D2jIs
  <2>2. D2jRule(y, JalaliBefore(m) + d - 1, j) = [y |-> y, m |-> m, d |-> d]
    BY <1>1, <1>11, RuleIs
  <2> QED BY <1>2, <1>9, <1>15, <2>1, <2>2
<1>17. CASE gy = y + 622 /\ n >= YearStart(y + 622)
  <2>1. (y + 1) + 621 = y + 622 /\ (y + 1) - 1 = y
    BY <1>1
  <2>2. d2j(n + 2440588) = D2jRule(y + 1, n - NewYear(y + 1), l)
    BY <1>1, <1>2, <1>8, <1>11, <1>17, <2>1, D2jIs
  <2>3. NewYear(y + 1) <= YearStart(y + 622) + 80 /\ YearStart(y + 622) \in Int
    BY <1>1, <2>1, SpringIs, YearIs
  <2>4. n - NewYear(y + 1) = JalaliBefore(m) + d - 1 - 365 - l /\ JalaliBefore(m) + d - 1 >= 265
    BY <1>2, <1>13, <1>14, <1>15, <1>17, <2>3
  <2>5. D2jRule(y + 1, JalaliBefore(m) + d - 1 - 365 - l, l) = [y |-> y, m |-> m, d |-> d]
    BY <1>1, <1>11, <2>4, RuleIs
  <2> QED BY <1>2, <1>9, <2>2, <2>4, <2>5
<1> QED BY <1>10, <1>16, <1>17

Walked == 1212..1627

LEMMA ReckonedAre ==
  /\ Walked \subseteq Reckoned /\ Reckoned \subseteq Jalalis /\ Jalalis \subseteq Int
  /\ \A y \in Reckoned : y + 1 \in Jalalis
  /\ \A y \in Walked : y + 1 \in Reckoned /\ y - 1 \in Reckoned
BY DEF Walked, Reckoned, Jalalis

LEMMA NewYearForm ==
  ASSUME NEW y \in Int
  PROVE  NewYear(y) = 18341 + 365 * (y - 1399) + (8 * y + 21) \div 33 - 339
<1>1. NewDate(2020, 3, 20) = 18341
  BY SMTT(30) DEF NewDate, YearStart, DaysBefore, GregorianLeap
<1> QED BY <1>1 DEF NewYear

LEMMA NewYearsGrow ==
  ASSUME NEW y \in Jalalis, NEW z \in Jalalis, y < z
  PROVE  NewYear(y + 1) <= NewYear(z) /\ NewYear(z) \in Int /\ NewYear(y + 1) \in Int
<1>1. y \in Int /\ z \in Int /\ y + 1 \in Int
  BY DEF Jalalis
<1>2. NewYear(y + 1) = 18341 + 365 * ((y + 1) - 1399) + (8 * (y + 1) + 21) \div 33 - 339
  BY <1>1, NewYearForm
<1>3. NewYear(z) = 18341 + 365 * (z - 1399) + (8 * z + 21) \div 33 - 339
  BY <1>1, NewYearForm
<1> QED BY <1>1, <1>2, <1>3

(* The months of a year follow one another.                                *)
LEMMA JalaliMonthsFollow ==
  ASSUME NEW y \in Int, NEW m \in Months
  PROVE  /\ JalaliBefore(1) = 0
         /\ m < 12 => /\ m + 1 \in Months
                      /\ JalaliBefore(m + 1) = JalaliBefore(m) + JalaliLength(y, m)
         /\ m = 12 => JalaliBefore(m) + JalaliLength(y, m) = 365 + (IF JalaliLeap(y) THEN 1 ELSE 0)
BY DEF JalaliBefore, JalaliLength, Months

(* Every day from the first to the last of these years has a date.         *)
LEMMA JalaliYearFound ==
  ASSUME NEW n \in Int, NewYear(1211) <= n, n < NewYear(1629)
  PROVE  \E y \in Reckoned : NewYear(y) <= n /\ n < NewYear(y + 1)
<1>1. PICK f \in Int : f = 1399 + (n - 18341) \div 366
  OBVIOUS
<1>2. NewYear(1211) = 18341 + 365 * (1211 - 1399) + (8 * 1211 + 21) \div 33 - 339
  BY NewYearForm
<1>3. NewYear(1629) = 18341 + 365 * (1629 - 1399) + (8 * 1629 + 21) \div 33 - 339
  BY NewYearForm
<1>4. 1210 <= f /\ f <= 1630
  BY <1>1, <1>2, <1>3
<1>5. /\ NewYear(f - 1) = 18341 + 365 * ((f - 1) - 1399) + (8 * (f - 1) + 21) \div 33 - 339
      /\ NewYear(f) = 18341 + 365 * (f - 1399) + (8 * f + 21) \div 33 - 339
      /\ NewYear(f + 1) = 18341 + 365 * ((f + 1) - 1399) + (8 * (f + 1) + 21) \div 33 - 339
      /\ NewYear(f + 2) = 18341 + 365 * ((f + 2) - 1399) + (8 * (f + 2) + 21) \div 33 - 339
  BY NewYearForm
<1>6. NewYear(f - 1) <= n /\ n < NewYear(f + 2)
  BY <1>1, <1>4, <1>5
<1>7. NewYear(f) \in Int /\ NewYear(f + 1) \in Int
  BY <1>5
<1>8. ASSUME NEW y \in {f - 1, f, f + 1}, NewYear(y) <= n, n < NewYear(y + 1)
      PROVE  y \in Reckoned
  <2>0. y \in Int
    BY <1>8
  <2>1. NewYear(y) = 18341 + 365 * (y - 1399) + (8 * y + 21) \div 33 - 339
    BY <2>0, NewYearForm
  <2>2. NewYear(y + 1) = 18341 + 365 * ((y + 1) - 1399) + (8 * (y + 1) + 21) \div 33 - 339
    BY <2>0, NewYearForm
  <2> QED BY <2>0, <1>8, <2>1, <2>2, <1>2, <1>3 DEF Reckoned
<1>9. (f - 1) + 1 = f /\ (f + 1) + 1 = f + 2
  OBVIOUS
<1>10. CASE n < NewYear(f)
  BY <1>6, <1>8, <1>9, <1>10
<1>11. CASE NewYear(f) <= n /\ n < NewYear(f + 1)
  BY <1>8, <1>11
<1>12. CASE NewYear(f + 1) <= n
  BY <1>6, <1>8, <1>9, <1>12
<1> QED BY <1>7, <1>10, <1>11, <1>12

LEMMA JalaliMonthFound ==
  ASSUME NEW y \in Int, NEW k \in Nat, k < IF JalaliLeap(y) THEN 366 ELSE 365
  PROVE  \E m \in Months : JalaliBefore(m) <= k /\ k < JalaliBefore(m) + JalaliLength(y, m)
BY DEF JalaliBefore, JalaliLength, Months

LEMMA DayFound ==
  ASSUME NEW n \in Int, NewYear(1211) <= n, n < NewYear(1629)
  PROVE  \E y, m, d : Jalali(y, m, d) /\ n = DayOf(y, m, d)
<1>1. PICK y \in Reckoned : NewYear(y) <= n /\ n < NewYear(y + 1)
  BY JalaliYearFound
<1>2. y \in Int /\ y \in Jalalis
  BY DEF Reckoned, Jalalis
<1>4. NewYear(y) \in Int /\ NewYear(y + 1) = NewYear(y) + (IF JalaliLeap(y) THEN 366 ELSE 365)
  BY <1>2, LeapYearIs
<1>5. PICK k \in Int : k = n - NewYear(y)
  BY <1>1, <1>4
<1>5a. k \in Nat /\ k < IF JalaliLeap(y) THEN 366 ELSE 365
  BY <1>1, <1>4, <1>5
<1>6. PICK m \in Months : JalaliBefore(m) <= k /\ k < JalaliBefore(m) + JalaliLength(y, m)
  BY <1>2, <1>5a, JalaliMonthFound
<1>7. JalaliBefore(m) \in 0..336 /\ JalaliLength(y, m) \in 29..31
  BY <1>2, JalaliMonths
<1>8. PICK d \in Int : d = k - JalaliBefore(m) + 1
  BY <1>7
<1>9. d \in 1..JalaliLength(y, m) /\ n = NewYear(y) + JalaliBefore(m) + d - 1
  BY <1>4, <1>5, <1>6, <1>7, <1>8
<1> QED BY <1>9 DEF Jalali, DayOf

(***************************************************************************)
(* The walk                                                                *)
(***************************************************************************)

(* The date counted on by the rules is that of the day, within the years   *)
(* the walk may reach.                                                     *)
WalkAt(y, m, d) ==
  /\ Jalali(y, m, d) /\ 1212 <= y /\ jalali = [y |-> y, m |-> m, d |-> d] /\ today = DayOf(y, m, d)
CalendarInv ==
  /\ open \in BOOLEAN /\ left \in Nat /\ today \in Int /\ today + left < NewYear(1628)
  /\ \E y, m, d : WalkAt(y, m, d)

LEMMA LengthIs ==
  ASSUME NEW y \in Int, NEW m \in Months
  PROVE  JalaliLength(y, m) \in 29..31
BY JalaliMonths

LEMMA FirstDay ==
  ASSUME NEW y \in Jalalis
  PROVE  DayOf(y, 1, 1) = NewYear(y) /\ NewYear(y) \in Int /\ 1 \in Months /\ 1 \in 1..JalaliLength(y, 1)
<1>1. y \in Int /\ 1 \in Months /\ JalaliBefore(1) = 0 /\ JalaliLength(y, 1) = 31
  BY DEF Jalalis, Months, JalaliBefore, JalaliLength
<1>2. NewYear(y) \in Int
  BY SpringIs
<1> QED BY <1>1, <1>2 DEF DayOf

LEMMA WalkStarts == CalendarInit => CalendarInv
<1> SUFFICES ASSUME CalendarInit PROVE CalendarInv
  OBVIOUS
<1>1. PICK y \in Years : today = NewYear(y) /\ jalali = [y |-> y, m |-> 1, d |-> 1]
  BY DEF CalendarInit
<1>2. y \in Nat /\ y > 1211 /\ NewYear(y) + Days < NewYear(1628) /\ Days \in Nat
  BY CalendarAssumption
<1>3. y \in Reckoned /\ y \in Jalalis /\ 1212 <= y
  <2>1. NewYear(y) = 18341 + 365 * (y - 1399) + (8 * y + 21) \div 33 - 339
    BY <1>2, NewYearForm
  <2>2. NewYear(1628) = 18341 + 365 * (1628 - 1399) + (8 * 1628 + 21) \div 33 - 339
    BY NewYearForm
  <2> QED BY <1>2, <2>1, <2>2 DEF Reckoned, Jalalis
<1>4. today = DayOf(y, 1, 1) /\ today \in Int /\ 1 \in Months /\ 1 \in 1..JalaliLength(y, 1)
  BY <1>1, <1>3, FirstDay
<1>5. WalkAt(y, 1, 1)
  BY <1>1, <1>3, <1>4 DEF WalkAt, Jalali
<1>6. open \in BOOLEAN /\ left \in Nat /\ today \in Int /\ today + left < NewYear(1628)
  <2>1. open = FALSE /\ left = Days
    BY DEF CalendarInit
  <2>2. today = NewYear(y)
    BY <1>1
  <2>3. today + left = NewYear(y) + Days
    BY <2>1, <2>2
  <2>4. PICK a \in Int, b \in Int : a = NewYear(y) /\ b = NewYear(1628)
    BY <1>2, LeapYearIs
  <2>5. today + left < NewYear(1628)
    <3>1. a + Days < b /\ Days \in Int
      BY <1>2, <2>4
    <3> QED BY <2>3, <2>4, <3>1
  <2>6. open \in BOOLEAN
    BY <2>1
  <2>7. left \in Nat /\ today \in Int
    <3>1. Days \in Nat
      BY CalendarAssumption
    <3> QED BY <1>4, <2>1, <3>1
  <2> QED BY <2>5, <2>6, <2>7
<1> QED BY <1>5, <1>6 DEF CalendarInv

(* The day after a date, by the rules, is the date of the day after.       *)
LEMMA DayAfter ==
  ASSUME NEW y, NEW m, NEW d, Jalali(y, m, d), y + 1 \in Reckoned
  PROVE  \E yy, mm, dd :
            /\ Jalali(yy, mm, dd) /\ y <= yy /\ DayOf(yy, mm, dd) = DayOf(y, m, d) + 1
            /\ Following([y |-> y, m |-> m, d |-> d]) = [y |-> yy, m |-> mm, d |-> dd]
<1>1. y \in Reckoned /\ y \in Jalalis /\ y \in Int /\ y + 1 \in Jalalis /\ m \in Months /\ d \in 1..JalaliLength(y, m)
  BY ReckonedAre DEF Jalali
<1>2. PICK len \in 29..31 : len = JalaliLength(y, m)
  BY <1>1, LengthIs
<1>3. JalaliBefore(m) \in Int /\ NewYear(y) \in Int /\ m \in Int /\ d \in 1..len /\ d \in Int
  BY <1>1, <1>2, JalaliMonths, SpringIs DEF Months
<1>4. DayOf(y, m, d) = NewYear(y) + JalaliBefore(m) + d - 1
  BY DEF DayOf
<1>5. CASE d < len
  <2>1. Following([y |-> y, m |-> m, d |-> d]) = [y |-> y, m |-> m, d |-> d + 1]
    BY <1>2, <1>5, SMTT(30) DEF Following
  <2>2. d + 1 \in 1..JalaliLength(y, m)
    BY <1>2, <1>3, <1>5
  <2>3. Jalali(y, m, d + 1)
    BY <1>1, <2>2 DEF Jalali
  <2>4. DayOf(y, m, d + 1) = DayOf(y, m, d) + 1
    BY <1>3 DEF DayOf
  <2>5. y <= y
    BY <1>1
  <2> QED BY <2>1, <2>3, <2>4, <2>5
<1>6. CASE d = len /\ m < 12
  <2>1. Following([y |-> y, m |-> m, d |-> d]) = [y |-> y, m |-> m + 1, d |-> 1]
    BY <1>2, <1>6, SMTT(30) DEF Following
  <2>2. m + 1 \in Months /\ JalaliBefore(m + 1) = JalaliBefore(m) + len
    BY <1>1, <1>2, <1>6, JalaliMonthsFollow
  <2>3. 1 \in 1..JalaliLength(y, m + 1)
    BY <1>1, <2>2, LengthIs
  <2>4. Jalali(y, m + 1, 1)
    BY <1>1, <2>2, <2>3 DEF Jalali
  <2>5. DayOf(y, m + 1, 1) = DayOf(y, m, d) + 1
    BY <1>3, <1>6, <2>2 DEF DayOf
  <2>6. y <= y
    BY <1>1
  <2> QED BY <2>1, <2>4, <2>5, <2>6
<1>7. CASE d = len /\ m = 12
  <2>1. Following([y |-> y, m |-> m, d |-> d]) = [y |-> y + 1, m |-> 1, d |-> 1]
    BY <1>2, <1>3, <1>7, SMTT(30) DEF Following
  <2>2. JalaliBefore(m) + len = 365 + (IF JalaliLeap(y) THEN 1 ELSE 0)
    BY <1>1, <1>2, <1>7, JalaliMonthsFollow
  <2>3. NewYear(y + 1) = NewYear(y) + (IF JalaliLeap(y) THEN 366 ELSE 365)
    BY <1>1, LeapYearIs
  <2>4. DayOf(y + 1, 1, 1) = NewYear(y + 1) /\ 1 \in Months /\ 1 \in 1..JalaliLength(y + 1, 1)
    BY <1>1, FirstDay
  <2>5. Jalali(y + 1, 1, 1)
    BY <2>4 DEF Jalali
  <2>6. DayOf(y + 1, 1, 1) = DayOf(y, m, d) + 1
    BY <1>3, <1>4, <1>7, <2>2, <2>3, <2>4
  <2>7. y <= y + 1
    BY <1>1
  <2> QED BY <2>1, <2>5, <2>6, <2>7
<1>8. d < len \/ (d = len /\ m < 12) \/ (d = len /\ m = 12)
  BY <1>1, <1>3 DEF Months
<1> QED BY <1>5, <1>6, <1>7, <1>8

LEMMA WalkYear ==
  ASSUME CalendarInv, NEW y, NEW m, NEW d, WalkAt(y, m, d)
  PROVE  y \in Walked
<1>1. y \in Reckoned /\ y \in Int /\ y \in Jalalis /\ 1212 <= y /\ 1628 \in Jalalis /\ today = DayOf(y, m, d)
  BY ReckonedAre DEF WalkAt, Jalali, Jalalis
<1>2. NewYear(y) <= today
  BY <1>1, JalaliDayIs DEF WalkAt
<1>3. today < NewYear(1628) /\ today \in Int
  <2>1. NewYear(1628) \in Int
    BY LeapYearIs
  <2> QED BY <2>1 DEF CalendarInv
<1>4. y # 1628
  BY <1>1, <1>2, <1>3, SpringIs
<1> QED BY <1>1, <1>4 DEF Reckoned, Walked

LEMMA WalkGoesOn == CalendarInv /\ [CalendarNext]_cvars => CalendarInv'
<1> SUFFICES ASSUME CalendarInv, [CalendarNext]_cvars PROVE CalendarInv'
  OBVIOUS
<1>1. PICK y, m, d : WalkAt(y, m, d)
  BY DEF CalendarInv
<1>2. y \in Walked /\ y \in Int
  BY <1>1, WalkYear, ReckonedAre
<1>3. open \in BOOLEAN /\ left \in Nat /\ today \in Int /\ today + left < NewYear(1628) /\ NewYear(1628) \in Int
  BY LeapYearIs DEF CalendarInv
<1>4. ASSUME UNCHANGED <<today, jalali, left>>, open' \in BOOLEAN PROVE CalendarInv'
  <2>1. WalkAt(y, m, d)'
    BY <1>1, <1>4 DEF WalkAt
  <2> QED BY <1>3, <1>4, <2>1 DEF CalendarInv
<1>5. CASE Open
  BY <1>4, <1>5 DEF Open
<1>6. CASE NextDay
  <2>1. PICK yy, mm, dd : /\ Jalali(yy, mm, dd) /\ y <= yy /\ DayOf(yy, mm, dd) = DayOf(y, m, d) + 1
                          /\ Following([y |-> y, m |-> m, d |-> d]) = [y |-> yy, m |-> mm, d |-> dd]
    <3>1. Jalali(y, m, d) /\ y + 1 \in Reckoned
      BY <1>1, <1>2, ReckonedAre DEF WalkAt
    <3> QED BY <3>1, DayAfter
  <2>2. today' = DayOf(yy, mm, dd) /\ jalali' = [y |-> yy, m |-> mm, d |-> dd]
    BY <1>1, <1>6, <2>1 DEF NextDay, WalkAt
  <2>3. 1212 <= yy
    <3>1. yy \in Int
      BY <2>1, ReckonedAre DEF Jalali
    <3> QED BY <1>1, <1>2, <2>1, <3>1 DEF WalkAt
  <2>4. WalkAt(yy, mm, dd)'
    BY <2>1, <2>2, <2>3 DEF WalkAt
  <2>5. open' \in BOOLEAN /\ left' \in Nat /\ today' \in Int /\ today' + left' < NewYear(1628)
    BY <1>3, <1>6 DEF NextDay
  <2> QED BY <2>4, <2>5 DEF CalendarInv
<1>7. CASE UNCHANGED cvars
  BY <1>3, <1>4, <1>7 DEF cvars
<1> QED BY <1>5, <1>6, <1>7 DEF CalendarNext

(***************************************************************************)
(* The month grid                                                          *)
(***************************************************************************)

LEMMA WeekdayIs ==
  ASSUME NEW n \in Int
  PROVE  getDay(n) \in 0..6 /\ getDay(n) \in Int
BY DEF getDay

LEMMA Weeks ==
  ASSUME NEW q \in Int, NEW a \in Int
  PROVE  (7 * q + a) % 7 = a % 7
OBVIOUS

(* 42 days on from the last Saturday or Sunday before the first of a month *)
(* show the month whole, under its weekdays.                               *)
Ahead(locale) == IF locale = "fa" THEN 1 ELSE 0
Laid(grid, first, len, lead) ==
  \A i \in 1..42 : /\ grid[i].date = first - lead + i - 1
                   /\ grid[i].inMonth <=> lead < i /\ i <= lead + len
                   /\ lead < i /\ i <= lead + len => grid[i].day = i - lead

LEMMA GridLaid ==
  ASSUME NEW locale \in Locales, NEW first \in Int, NEW len \in 28..31, NEW lead, NEW grid,
         lead = (getDay(first) + Ahead(locale)) % 7,
         Laid(grid, first, len, lead), today \in first..(first + len - 1),
         len = IF locale = "fa" THEN JalaliLength(jalali.y, jalali.m)
               ELSE GregorianLengths(DateOf(today).y)[DateOf(today).m]
  PROVE  GridAgrees(grid, locale)
<1>1. PICK ahead \in {0, 1} : ahead = Ahead(locale)
  BY DEF Ahead
<1>2. lead \in 0..6 /\ getDay(first) \in 0..6
  BY <1>1, WeekdayIs
<1>3. PICK other \in {0, 6} : other = (IF locale = "fa" THEN 6 ELSE 0) /\ (other = 6 <=> ahead = 1)
  BY <1>1 DEF Ahead
<1>4. \A i \in 1..42 : getDay(grid[i].date) = (i - 1 + other) % 7
  <2> SUFFICES ASSUME NEW i \in 1..42 PROVE getDay(grid[i].date) = (i - 1 + other) % 7
    OBVIOUS
  <2>1. grid[i].date = first - lead + i - 1
    BY DEF Laid
  <2>2. lead = (((first + 4) % 7) + ahead) % 7
    BY <1>1 DEF getDay
  <2>3. ((first - lead + i - 1) + 4) % 7 = (i - 1 + other) % 7
    <3>1. PICK q \in Int, r \in 0..6 : first + 4 = 7 * q + r /\ (first + 4) % 7 = r
      <4>1. (first + 4) \div 7 \in Int /\ (first + 4) % 7 \in 0..6
            /\ first + 4 = 7 * ((first + 4) \div 7) + ((first + 4) % 7)
        OBVIOUS
      <4> QED BY <4>1
    <3>2. CASE ahead = 0
      <4>1. (first - lead + i - 1) + 4 = 7 * q + (i - 1) /\ i - 1 + other = i - 1
        BY <1>3, <2>2, <3>1, <3>2
      <4> QED BY <4>1, Weeks
    <3>3. CASE ahead = 1 /\ r < 6
      <4>1. (first - lead + i - 1) + 4 = 7 * (q - 1) + (i + 5) /\ i - 1 + other = i + 5
        BY <1>3, <2>2, <3>1, <3>3
      <4> QED BY <4>1, Weeks
    <3>4. CASE ahead = 1 /\ r = 6
      <4>1. (first - lead + i - 1) + 4 = 7 * q + (i + 5) /\ i - 1 + other = i + 5
        BY <1>3, <2>2, <3>1, <3>4
      <4> QED BY <4>1, Weeks
    <3> QED BY <3>2, <3>3, <3>4
  <2> QED BY <2>1, <2>3 DEF getDay
<1>5. \A i \in 1..41 : grid[i + 1].date = grid[i].date + 1
  <2> SUFFICES ASSUME NEW i \in 1..41 PROVE grid[i + 1].date = grid[i].date + 1
    OBVIOUS
  <2>1. i \in 1..42 /\ i + 1 \in 1..42
    OBVIOUS
  <2>2. grid[i].date = first - lead + i - 1 /\ grid[i + 1].date = first - lead + (i + 1) - 1
    BY <2>1 DEF Laid
  <2> QED BY <1>2, <2>2
<1>6. {i \in 1..42 : grid[i].inMonth} = (lead + 1)..((lead + 1) + len - 1)
  <2>1. \A i \in 1..42 : grid[i].inMonth <=> i \in (lead + 1)..((lead + 1) + len - 1)
    <3>1. \A i \in 1..42 : grid[i].inMonth <=> lead < i /\ i <= lead + len
      BY Zenon DEF Laid
    <3>2. \A i \in 1..42 : lead < i /\ i <= lead + len <=> i \in (lead + 1)..((lead + 1) + len - 1)
      BY <1>2
    <3> QED BY <3>1, <3>2, Zenon
  <2>2. (lead + 1)..((lead + 1) + len - 1) \subseteq 1..42
    BY <1>2
  <2> QED BY <2>1, <2>2, Zenon
<1>7. \A i \in (lead + 1)..((lead + 1) + len - 1) : grid[i].day = i - (lead + 1) + 1
  <2> SUFFICES ASSUME NEW i \in (lead + 1)..((lead + 1) + len - 1) PROVE grid[i].day = i - (lead + 1) + 1
    OBVIOUS
  <2>1. i \in 1..42 /\ lead < i /\ i <= lead + len /\ i - (lead + 1) + 1 = i - lead
    BY <1>2
  <2> QED BY <2>1 DEF Laid
<1>8. \E i \in (lead + 1)..((lead + 1) + len - 1) : grid[i].date = today
  <2>1. PICK i \in Int : i = today - first + lead + 1
    BY <1>2
  <2>2. i \in (lead + 1)..((lead + 1) + len - 1) /\ i \in 1..42 /\ first - lead + i - 1 = today
    BY <1>2, <2>1
  <2>3. grid[i].date = first - lead + i - 1
    BY <2>2 DEF Laid
  <2> QED BY <2>2, <2>3
<1>9. lead + 1 \in 1..7
  BY <1>2
<1>10. \E f \in 1..7 : /\ {i \in 1..42 : grid[i].inMonth} = f..(f + len - 1)
                       /\ \A i \in {i \in 1..42 : grid[i].inMonth} : grid[i].day = i - f + 1
  BY <1>6, <1>7, <1>9, Zenon
<1>11. \E i \in {i \in 1..42 : grid[i].inMonth} : grid[i].date = today
  BY <1>6, <1>8
<1>12. \A i \in 1..42 : getDay(grid[i].date) = (i - 1 + (IF locale = "fa" THEN 6 ELSE 0)) % 7
  BY <1>3, <1>4
<1> QED BY <1>5, <1>10, <1>11, <1>12, Zenon DEF GridAgrees

(* The days around a month of the walk have dates; those of the month are  *)
(* its own.                                                                *)
LEMMA JalaliAround ==
  ASSUME NEW y \in Walked, NEW m \in Months, NEW n \in Int,
         DayOf(y, m, 1) - 6 <= n, n <= DayOf(y, m, 1) + 41
  PROVE  \E yy, mm, dd : Jalali(yy, mm, dd) /\ n = DayOf(yy, mm, dd)
<1>1. y \in Int /\ y \in Jalalis
  BY ReckonedAre
<1>2. NewYear(1211) + 6 <= NewYear(y) /\ NewYear(y + 1) + 41 <= NewYear(1629)
      /\ NewYear(1211) \in Int /\ NewYear(y) \in Int /\ NewYear(y + 1) \in Int /\ NewYear(1629) \in Int
  <2>1. NewYear(1211) = 18341 + 365 * (1211 - 1399) + (8 * 1211 + 21) \div 33 - 339
    BY NewYearForm
  <2>2. NewYear(1629) = 18341 + 365 * (1629 - 1399) + (8 * 1629 + 21) \div 33 - 339
    BY NewYearForm
  <2>3. NewYear(y) = 18341 + 365 * (y - 1399) + (8 * y + 21) \div 33 - 339
    BY <1>1, NewYearForm
  <2>4. NewYear(y + 1) = 18341 + 365 * ((y + 1) - 1399) + (8 * (y + 1) + 21) \div 33 - 339
    BY <1>1, NewYearForm
  <2> QED BY <1>1, <2>1, <2>2, <2>3, <2>4 DEF Walked
<1>3. JalaliBefore(m) \in 0..336
  BY <1>1, JalaliMonths
<1>4. NewYear(y + 1) >= NewYear(y) + 365
  BY <1>1, <1>2, LeapYearIs
<1>5. DayOf(y, m, 1) = NewYear(y) + JalaliBefore(m) + 1 - 1
  BY DEF DayOf
<1>6. NewYear(1211) <= n /\ n < NewYear(1629)
  BY <1>2, <1>3, <1>4, <1>5
<1> QED BY <1>6, DayFound

LEMMA InJalaliMonth ==
  ASSUME NEW y \in Walked, NEW m \in Months, NEW n \in Int,
         DayOf(y, m, 1) - 6 <= n, n <= DayOf(y, m, 1) + 41
  PROVE  /\ toJalali(n).y = y /\ toJalali(n).m = m
              <=> DayOf(y, m, 1) <= n /\ n < DayOf(y, m, 1) + JalaliLength(y, m)
         /\ DayOf(y, m, 1) <= n /\ n < DayOf(y, m, 1) + JalaliLength(y, m)
              => toJalali(n).d = n - DayOf(y, m, 1) + 1
<1>1. y \in Int /\ y \in Jalalis /\ y \in Reckoned
  BY ReckonedAre
<1>2. JalaliBefore(m) \in 0..336 /\ NewYear(y) \in Int /\ JalaliLength(y, m) \in 29..31
  <2>1. JalaliBefore(m) \in 0..336 /\ JalaliLength(y, m) \in 29..31
    BY <1>1, JalaliMonths
  <2>2. NewYear(y) \in Int
    BY <1>1, LeapYearIs
  <2> QED BY <2>1, <2>2
<1>3. PICK first \in Int, len \in 29..31 : first = DayOf(y, m, 1) /\ len = JalaliLength(y, m)
  BY <1>2 DEF DayOf
<1>4. ASSUME NEW d \in Int PROVE DayOf(y, m, d) = first + d - 1
  BY <1>2, <1>3 DEF DayOf
<1>5. ASSUME first <= n, n < first + len
      PROVE  toJalali(n) = [y |-> y, m |-> m, d |-> n - first + 1]
  <2>1. PICK d \in Int : d = n - first + 1
    OBVIOUS
  <2>2. d \in 1..len /\ n = first + d - 1
    BY <1>5, <2>1
  <2>3. n = DayOf(y, m, d)
    BY <1>4, <2>2
  <2>4. Jalali(y, m, d)
    BY <1>1, <1>3, <2>2 DEF Jalali
  <2>5. toJalali(n) = [y |-> y, m |-> m, d |-> d]
    BY <2>3, <2>4, FromDate
  <2> QED BY <2>1, <2>5
<1>6. ASSUME toJalali(n).y = y, toJalali(n).m = m
      PROVE  first <= n /\ n < first + len
  <2>1. PICK yy, mm, dd : Jalali(yy, mm, dd) /\ n = DayOf(yy, mm, dd)
    BY JalaliAround
  <2>2. toJalali(n) = [y |-> yy, m |-> mm, d |-> dd]
    BY <2>1, FromDate
  <2>3. yy = y /\ mm = m
    BY <1>6, <2>2
  <2>4. dd \in 1..len /\ dd \in Int
    BY <1>3, <2>1, <2>3 DEF Jalali
  <2>5. n = first + dd - 1
    BY <1>4, <2>1, <2>3, <2>4
  <2> QED BY <2>4, <2>5
<1>7. first <= n /\ n < first + len => toJalali(n).y = y /\ toJalali(n).m = m /\ toJalali(n).d = n - first + 1
  BY <1>5
<1> QED BY <1>3, <1>6, <1>7

LEMMA JalaliGridAgrees ==
  ASSUME CalendarInv, NEW y, NEW m, NEW d, WalkAt(y, m, d)
  PROVE  GridAgrees(monthGrid(today, "fa"), "fa")
<1>1. y \in Walked /\ y \in Int /\ y \in Reckoned /\ y \in Jalalis /\ m \in Months /\ Jalali(y, m, d) /\ today = DayOf(y, m, d)
  BY WalkYear, ReckonedAre DEF WalkAt, Jalali
<1>2. JalaliBefore(m) \in 0..336 /\ NewYear(y) \in Int /\ JalaliLength(y, m) \in 29..31
  BY <1>1, JalaliMonths, LeapYearIs
<1>3. PICK first \in Int, len \in 29..31 : first = DayOf(y, m, 1) /\ len = JalaliLength(y, m)
  BY <1>2 DEF DayOf
<1>4. PICK lead \in 0..6 : lead = (getDay(first) + 1) % 7
  BY WeekdayIs
<1>5. toJalali(today) = [y |-> y, m |-> m, d |-> d]
  BY <1>1, FromDate
<1>6. jalaliToDate(y, m, 1) = first
  <2>1. Jalali(y, m, 1)
    BY <1>1, <1>2 DEF Jalali
  <2> QED BY <1>3, <2>1, ToDate
<1>7. PICK grid : grid = monthGrid(today, "fa")
  OBVIOUS
<1>8. ASSUME NEW i \in 1..42, NEW n, n = first - lead + i - 1
      PROVE  grid[i] = Cell(n, toJalali(n).d, toJalali(n).y = y /\ toJalali(n).m = m)
  <2> DEFINE start == jalaliToDate(toJalali(today).y, toJalali(today).m, 1)
             o(j)  == (start - ((getDay(start) + 1) % 7)) + j - 1
  <2>1. grid = [j \in 1..42 |-> Cell(o(j), toJalali(o(j)).d,
                                     toJalali(o(j)).y = toJalali(today).y /\ toJalali(o(j)).m = toJalali(today).m)]
    BY <1>7, Zenon DEF monthGrid, jalaliGrid
  <2>2. grid[i] = Cell(o(i), toJalali(o(i)).d,
                       toJalali(o(i)).y = toJalali(today).y /\ toJalali(o(i)).m = toJalali(today).m)
    BY <2>1, Zenon
  <2>3. toJalali(today).y = y /\ toJalali(today).m = m
    BY <1>5
  <2>4. start = first
    BY <1>6, <2>3
  <2>5. o(i) = n
    BY <1>4, <1>8, <2>4
  <2> HIDE DEF start, o
  <2> QED BY <2>2, <2>3, <2>5, Zenon
<1>9. Laid(grid, first, len, lead)
  <2> SUFFICES ASSUME NEW i \in 1..42
               PROVE  /\ grid[i].date = first - lead + i - 1
                      /\ grid[i].inMonth <=> lead < i /\ i <= lead + len
                      /\ lead < i /\ i <= lead + len => grid[i].day = i - lead
    BY DEF Laid
  <2>1. PICK n \in Int : n = first - lead + i - 1
    BY <1>4
  <2>2. DayOf(y, m, 1) - 6 <= n /\ n <= DayOf(y, m, 1) + 41
    BY <1>3, <1>4, <2>1
  <2>3. toJalali(n).y = y /\ toJalali(n).m = m <=> first <= n /\ n < first + len
    BY <1>1, <1>3, <2>2, InJalaliMonth
  <2>4. first <= n /\ n < first + len => toJalali(n).d = n - first + 1
    BY <1>1, <1>3, <2>2, InJalaliMonth
  <2>5. grid[i] = Cell(n, toJalali(n).d, toJalali(n).y = y /\ toJalali(n).m = m)
    BY <1>8, <2>1
  <2>6. first <= n /\ n < first + len <=> lead < i /\ i <= lead + len
    BY <1>4, <2>1
  <2>7. n - first + 1 = i - lead
    BY <1>4, <2>1
  <2>8. grid[i].date = n /\ grid[i].day = toJalali(n).d
    BY <2>5 DEF Cell
  <2>9. grid[i].inMonth <=> toJalali(n).y = y /\ toJalali(n).m = m
    <3>1. Cell(n, toJalali(n).d, toJalali(n).y = y /\ toJalali(n).m = m).inMonth
            <=> toJalali(n).y = y /\ toJalali(n).m = m
      BY Zenon DEF Cell
    <3> QED BY <2>5, <3>1, Zenon
  <2> QED BY <2>1, <2>3, <2>4, <2>6, <2>7, <2>8, <2>9, Zenon
<1>10. today \in first..(first + len - 1)
  <2>1. d \in 1..len /\ d \in Int
    BY <1>1, <1>3 DEF Jalali
  <2>2. today = first + d - 1
    BY <1>1, <1>2, <1>3, <2>1 DEF DayOf
  <2> QED BY <2>1, <2>2
<1>11. lead = (getDay(first) + Ahead("fa")) % 7
  BY <1>4 DEF Ahead
<1>12. "fa" \in Locales /\ len \in 28..31
  BY DEF Locales
<1>13. len = IF "fa" = "fa" THEN JalaliLength(jalali.y, jalali.m)
             ELSE GregorianLengths(DateOf(today).y)[DateOf(today).m]
  BY <1>3 DEF WalkAt
<1>14. GridAgrees(grid, "fa")
  BY <1>9, <1>10, <1>11, <1>12, <1>13, GridLaid
<1> QED BY <1>7, <1>14

(* The same of the Gregorian months.                                       *)
LEMMA SameMonth ==
  ASSUME NEW y \in Within, NEW yy \in Within, NEW m \in Months,
         NEW d \in 1..GregorianLengths(yy)[m],
         NewDate(y, m, 1) - 6 <= NewDate(yy, m, d), NewDate(yy, m, d) <= NewDate(y, m, 1) + 41
  PROVE  yy = y
<1>1. y \in Int /\ yy \in Int
  BY YearsAre
<1>2. GregorianLengths(yy)[m] \in 28..31
  BY <1>1, MonthLengths
<1>3. d \in 1..31 /\ d \in Int
  BY <1>2
<1>4. NewDate(y, m, 1) = YearStart(y) + DaysBefore(y, m) + 1 - 1 /\ NewDate(yy, m, d) = YearStart(yy) + DaysBefore(yy, m) + d - 1
  BY <1>1, <1>3, NewDateIs
<1>5. PICK b \in 0..334, l \in {0, 1}, k \in {0, 1} : DaysBefore(y, m) = b + l /\ DaysBefore(yy, m) = b + k
  <2>1. PICK b \in 0..334 : b = <<0, 31, 59, 90, 120, 151, 181, 212, 243, 273, 304, 334>>[m]
    BY DEF Months
  <2>2. \A z : DaysBefore(z, m) = b + (IF m > 2 /\ GregorianLeap(z) THEN 1 ELSE 0)
    BY <2>1 DEF DaysBefore
  <2>3. PICK l \in {0, 1} : l = IF m > 2 /\ GregorianLeap(y) THEN 1 ELSE 0
    OBVIOUS
  <2>4. PICK k \in {0, 1} : k = IF m > 2 /\ GregorianLeap(yy) THEN 1 ELSE 0
    OBVIOUS
  <2>5. DaysBefore(y, m) = b + l /\ DaysBefore(yy, m) = b + k
    BY <2>2, <2>3, <2>4
  <2> QED BY <2>5
<1>6. PICK s \in Int, t \in Int : s = YearStart(y) /\ t = YearStart(yy)
  BY <1>1, YearIs
<1>7. y < yy => s + 365 <= t
  <2>1. y < yy => YearStart(y + 1) <= YearStart(yy)
    BY YearsAre, YearsGrow
  <2>2. YearStart(y + 1) >= s + 365
    BY <1>1, <1>6, YearIs
  <2>3. YearStart(y + 1) \in Int
    BY <1>1, YearIs
  <2> QED BY <1>6, <2>1, <2>2, <2>3
<1>8. yy < y => t + 365 <= s
  <2>1. yy < y => YearStart(yy + 1) <= YearStart(y)
    BY YearsAre, YearsGrow
  <2>2. YearStart(yy + 1) >= t + 365
    BY <1>1, <1>6, YearIs
  <2>3. YearStart(yy + 1) \in Int
    BY <1>1, YearIs
  <2> QED BY <1>6, <2>1, <2>2, <2>3
<1>9. s + b + l - 6 <= t + b + k + d - 1 /\ t + b + k + d - 1 <= s + b + l + 41
  BY <1>3, <1>4, <1>5, <1>6
<1> QED BY <1>1, <1>3, <1>7, <1>8, <1>9

(* The years of the walk, the other calendar's.                            *)
Sprung == 1833..2249
LEMMA SprungAre ==
  /\ Sprung \subseteq Within
  /\ \A y \in Sprung : y + 1 \in Within /\ y - 1 \in Within
BY DEF Sprung, Within

LEMMA WalkedDay ==
  ASSUME CalendarInv
  PROVE  \E y, m, d : /\ Gregorian(y, m, d) /\ y \in Sprung /\ today = NewDate(y, m, d)
                      /\ DateOf(today) = [y |-> y, m |-> m, d |-> d]
<1>1. PICK jy, jm, jd : WalkAt(jy, jm, jd)
  BY DEF CalendarInv
<1>2. jy \in Walked /\ jy \in Int /\ jy \in Reckoned
  BY <1>1, WalkYear, ReckonedAre
<1>3. today \in Int /\ NewYear(jy) <= today /\ today < NewYear(jy + 1)
  BY <1>1, JalaliDayIs DEF WalkAt
<1>4. today \in Days1831 /\ YearStart(jy + 621) + 78 <= today /\ today < YearStart(jy + 622) + 80
  BY <1>2, <1>3, DaysWithin
<1>5. PICK y, m, d : Gregorian(y, m, d) /\ today = NewDate(y, m, d)
  BY <1>4, DateFound
<1>6. y \in Within
  BY <1>5 DEF Gregorian
<1>7. YearStart(y) <= today /\ today < YearStart(y + 1) /\ DateOf(today) = [y |-> y, m |-> m, d |-> d]
  BY <1>5, DateIs
<1>8. y = jy + 621 \/ y = jy + 622
  BY <1>2, <1>3, <1>4, <1>6, <1>7, YearBetween
<1>9. y \in Sprung
  BY <1>2, <1>8 DEF Walked, Sprung
<1> QED BY <1>5, <1>7, <1>9

LEMMA GregorianAround ==
  ASSUME NEW y \in Sprung, NEW m \in Months, NEW n \in Int,
         NewDate(y, m, 1) - 6 <= n, n <= NewDate(y, m, 1) + 41
  PROVE  \E yy, mm, dd : Gregorian(yy, mm, dd) /\ n = NewDate(yy, mm, dd)
<1>1. y \in Int /\ y \in Within
  BY SprungAre, YearsAre
<1>2. NewDate(y, m, 1) = YearStart(y) + DaysBefore(y, m) + 1 - 1
  BY <1>1, NewDateIs
<1>3. DaysBefore(y, m) \in Nat /\ DaysBefore(y, m) <= 366
  <2>1. DaysBefore(y, m) \in Nat /\ MonthEnd(y, m) <= YearLength(y) /\ GregorianLengths(y)[m] \in 28..31
    BY <1>1, MonthLengths
  <2>2. YearLength(y) \in {365, 366}
    BY <1>1, YearIs
  <2> QED BY <2>1, <2>2 DEF MonthEnd
<1>4. YearStart(1831) + 6 <= YearStart(y) /\ YearStart(y) + 407 < YearStart(2254)
      /\ YearStart(1831) \in Int /\ YearStart(y) \in Int /\ YearStart(2254) \in Int
  BY DEF YearStart, Sprung
<1>5. n \in Days1831
  BY <1>2, <1>3, <1>4 DEF Days1831
<1> QED BY <1>5, DateFound

LEMMA InGregorianMonth ==
  ASSUME NEW y \in Sprung, NEW m \in Months, NEW n \in Int,
         NewDate(y, m, 1) - 6 <= n, n <= NewDate(y, m, 1) + 41
  PROVE  /\ DateOf(n).m = m
              <=> NewDate(y, m, 1) <= n /\ n < NewDate(y, m, 1) + GregorianLengths(y)[m]
         /\ NewDate(y, m, 1) <= n /\ n < NewDate(y, m, 1) + GregorianLengths(y)[m]
              => DateOf(n).d = n - NewDate(y, m, 1) + 1
<1>1. y \in Int /\ y \in Within
  BY SprungAre, YearsAre
<1>2. DaysBefore(y, m) \in Nat /\ YearStart(y) \in Int /\ GregorianLengths(y)[m] \in 28..31
  <2>1. DaysBefore(y, m) \in Nat /\ GregorianLengths(y)[m] \in 28..31
    BY <1>1, MonthLengths
  <2>2. YearStart(y) \in Int
    BY <1>1, YearIs
  <2> QED BY <2>1, <2>2
<1>3. ASSUME NEW d \in Int PROVE NewDate(y, m, d) = YearStart(y) + DaysBefore(y, m) + d - 1
  BY <1>1, NewDateIs
<1>4. PICK first \in Int, len \in 28..31 : first = NewDate(y, m, 1) /\ len = GregorianLengths(y)[m]
  BY <1>2, <1>3
<1>5. ASSUME NEW d \in Int PROVE NewDate(y, m, d) = first + d - 1
  BY <1>2, <1>3, <1>4
<1>6. ASSUME first <= n, n < first + len
      PROVE  DateOf(n) = [y |-> y, m |-> m, d |-> n - first + 1]
  <2>1. PICK d \in Int : d = n - first + 1
    OBVIOUS
  <2>2. d \in 1..len /\ n = first + d - 1
    BY <1>6, <2>1
  <2>3. n = NewDate(y, m, d)
    BY <1>5, <2>2
  <2>4. Gregorian(y, m, d)
    BY <1>1, <1>4, <2>2 DEF Gregorian
  <2>5. DateOf(n) = [y |-> y, m |-> m, d |-> d]
    BY <2>3, <2>4, DateIs
  <2> QED BY <2>1, <2>5
<1>7. ASSUME DateOf(n).m = m
      PROVE  first <= n /\ n < first + len
  <2>1. PICK yy, mm, dd : Gregorian(yy, mm, dd) /\ n = NewDate(yy, mm, dd)
    BY GregorianAround
  <2>2. DateOf(n) = [y |-> yy, m |-> mm, d |-> dd]
    BY <2>1, DateIs
  <2>3. mm = m
    BY <1>7, <2>2
  <2>4. yy = y
    BY <1>1, <2>1, <2>3, SameMonth DEF Gregorian
  <2>5. dd \in 1..len /\ dd \in Int
    BY <1>4, <2>1, <2>3, <2>4 DEF Gregorian
  <2>6. n = first + dd - 1
    BY <1>5, <2>1, <2>3, <2>4, <2>5
  <2> QED BY <2>5, <2>6
<1>8. first <= n /\ n < first + len => DateOf(n).m = m /\ DateOf(n).d = n - first + 1
  BY <1>6
<1> QED BY <1>4, <1>7, <1>8

LEMMA GregorianGridAgrees ==
  ASSUME CalendarInv
  PROVE  GridAgrees(monthGrid(today, "en"), "en")
<1>1. PICK y, m, d : /\ Gregorian(y, m, d) /\ y \in Sprung /\ today = NewDate(y, m, d)
                     /\ DateOf(today) = [y |-> y, m |-> m, d |-> d]
  BY WalkedDay
<1>2. y \in Int /\ m \in Months /\ m \in Int
  BY <1>1, SprungAre, YearsAre DEF Gregorian
<1>3. DaysBefore(y, m) \in Nat /\ YearStart(y) \in Int /\ GregorianLengths(y)[m] \in 28..31
  <2>1. DaysBefore(y, m) \in Nat /\ GregorianLengths(y)[m] \in 28..31
    BY <1>2, MonthLengths
  <2>2. YearStart(y) \in Int
    BY <1>2, YearIs
  <2> QED BY <2>1, <2>2
<1>4. ASSUME NEW k \in Int PROVE NewDate(y, m, k) = YearStart(y) + DaysBefore(y, m) + k - 1
  BY <1>2, NewDateIs
<1>5. PICK first \in Int, len \in 28..31 : first = NewDate(y, m, 1) /\ len = GregorianLengths(y)[m]
  BY <1>3, <1>4
<1>6. ASSUME NEW k \in Int PROVE NewDate(y, m, k) = first + k - 1
  BY <1>3, <1>4, <1>5
<1>7. PICK lead \in 0..6 : lead = getDay(first)
  BY WeekdayIs
<1>8. PICK grid : grid = monthGrid(today, "en")
  OBVIOUS
<1>9. ASSUME NEW i \in 1..42, NEW n, n = first - lead + i - 1
      PROVE  grid[i] = Cell(n, DateOf(n).d, DateOf(n).m = m)
  <2> DEFINE gy   == DateOf(today).y
             gm   == DateOf(today).m
             o(j) == NewDate(gy, gm, 1 + (j - 1) - getDay(NewDate(gy, gm, 1)))
  <2>1. grid = [j \in 1..42 |-> Cell(o(j), DateOf(o(j)).d, DateOf(o(j)).m = gm)]
    <3>1. "en" # "fa"
      OBVIOUS
    <3> QED BY <1>8, <3>1, Zenon DEF monthGrid, gregorianGrid
  <2>2. grid[i] = Cell(o(i), DateOf(o(i)).d, DateOf(o(i)).m = gm)
    BY <2>1, Zenon
  <2>3. gy = y /\ gm = m
    BY <1>1
  <2>4. o(i) = NewDate(y, m, 1 + (i - 1) - lead)
    BY <1>5, <1>7, <2>3
  <2>5. 1 + (i - 1) - lead \in Int /\ first + (1 + (i - 1) - lead) - 1 = n
    BY <1>9
  <2>6. o(i) = n
    BY <1>6, <2>4, <2>5
  <2> HIDE DEF gm, gy, o
  <2> QED BY <2>2, <2>3, <2>6, Zenon
<1>10. Laid(grid, first, len, lead)
  <2> SUFFICES ASSUME NEW i \in 1..42
               PROVE  /\ grid[i].date = first - lead + i - 1
                      /\ grid[i].inMonth <=> lead < i /\ i <= lead + len
                      /\ lead < i /\ i <= lead + len => grid[i].day = i - lead
    BY DEF Laid
  <2>1. PICK n \in Int : n = first - lead + i - 1
    BY <1>7
  <2>2. NewDate(y, m, 1) - 6 <= n /\ n <= NewDate(y, m, 1) + 41
    BY <1>5, <1>7, <2>1
  <2>3. DateOf(n).m = m <=> first <= n /\ n < first + len
    BY <1>1, <1>2, <1>5, <2>2, InGregorianMonth
  <2>4. first <= n /\ n < first + len => DateOf(n).d = n - first + 1
    BY <1>1, <1>2, <1>5, <2>2, InGregorianMonth
  <2>5. grid[i] = Cell(n, DateOf(n).d, DateOf(n).m = m)
    BY <1>9, <2>1
  <2>6. first <= n /\ n < first + len <=> lead < i /\ i <= lead + len
    BY <1>7, <2>1
  <2>7. n - first + 1 = i - lead
    BY <1>7, <2>1
  <2>8. grid[i].date = n /\ grid[i].day = DateOf(n).d
    BY <2>5 DEF Cell
  <2>9. grid[i].inMonth <=> DateOf(n).m = m
    <3>1. Cell(n, DateOf(n).d, DateOf(n).m = m).inMonth <=> DateOf(n).m = m
      BY Zenon DEF Cell
    <3> QED BY <2>5, <3>1, Zenon
  <2> QED BY <2>1, <2>3, <2>4, <2>6, <2>7, <2>8, <2>9, Zenon
<1>11. today \in first..(first + len - 1)
  <2>1. d \in 1..len /\ d \in Int
    BY <1>1, <1>5 DEF Gregorian
  <2>2. today = first + d - 1
    BY <1>1, <1>6, <2>1
  <2> QED BY <2>1, <2>2
<1>12. lead = (getDay(first) + Ahead("en")) % 7
  BY <1>7 DEF Ahead
<1>13. "en" \in Locales
  BY DEF Locales
<1>14. len = IF "en" = "fa" THEN JalaliLength(jalali.y, jalali.m)
             ELSE GregorianLengths(DateOf(today).y)[DateOf(today).m]
  BY <1>1, <1>5
<1>15. GridAgrees(grid, "en")
  BY <1>10, <1>11, <1>12, <1>13, <1>14, GridLaid
<1> QED BY <1>8, <1>15

(***************************************************************************)
(* The arrows                                                              *)
(***************************************************************************)

(* The month beside another, months numbered through the years.            *)
LEMMA Beside ==
  ASSUME NEW y \in Int, NEW m \in Months, NEW delta \in {-1, 1}
  PROVE  \E yy \in Int, mm \in Months :
           /\ yy = y + (m + delta - 1) \div 12 /\ mm = ((m + delta - 1) % 12) + 1
           /\ 12 * yy + mm = 12 * y + m + delta /\ yy \in {y - 1, y, y + 1}
BY DEF Months

LEMMA JalaliArrow ==
  ASSUME NEW y, NEW m, NEW d, Jalali(y, m, d), NEW delta \in {-1, 1},
         NEW yy \in Reckoned, NEW mm \in Months,
         yy = y + (m + delta - 1) \div 12, mm = ((m + delta - 1) % 12) + 1
  PROVE  \E dd : Jalali(yy, mm, dd) /\ addMonth(DayOf(y, m, d), delta, "fa") = DayOf(yy, mm, dd)
<1>1. yy \in Jalalis /\ yy \in Int /\ y \in Int /\ m \in Months
  BY ReckonedAre DEF Jalali
<1>2. jalaliMonthLength(yy, mm) = JalaliLength(yy, mm)
  <2>1. jalCal(yy).leap = 0 <=> JalaliLeap(yy)
    BY <1>1, NewYearIs
  <2>2. mm \in Int /\ mm <= 12
    BY DEF Months
  <2> QED BY <2>1, <2>2 DEF jalaliMonthLength, JalaliLength
<1>3. PICK len \in 29..31 : len = JalaliLength(yy, mm)
  BY <1>1, LengthIs
<1>4. PICK dd : dd = IF d < len THEN d ELSE len
  OBVIOUS
<1>5. Jalali(yy, mm, dd)
  <2>1. d \in Int /\ 1 <= d
    <3>1. JalaliLength(y, m) \in 29..31
      BY <1>1, LengthIs
    <3> QED BY <3>1 DEF Jalali
  <2>2. dd \in 1..len
    BY <1>4, <2>1
  <2> QED BY <1>3, <2>2 DEF Jalali
<1>6. toJalali(DayOf(y, m, d)) = [y |-> y, m |-> m, d |-> d]
  BY FromDate
<1>7. addMonth(DayOf(y, m, d), delta, "fa") = jalaliToDate(yy, mm, dd)
  <2> DEFINE c == toJalali(DayOf(y, m, d))
             py == c.y + (c.m + delta - 1) \div 12
             pm == ((c.m + delta - 1) % 12) + 1
  <2>1. addMonth(DayOf(y, m, d), delta, "fa")
          = jalaliToDate(py, pm, IF c.d < jalaliMonthLength(py, pm) THEN c.d ELSE jalaliMonthLength(py, pm))
    BY Zenon DEF addMonth
  <2>2. c.y = y /\ c.m = m /\ c.d = d
    BY <1>6
  <2>3. py = yy /\ pm = mm
    BY <2>2
  <2> HIDE DEF c, py, pm
  <2>4. addMonth(DayOf(y, m, d), delta, "fa") = jalaliToDate(yy, mm, IF d < len THEN d ELSE len)
    BY <1>2, <1>3, <2>1, <2>2, <2>3
  <2> QED BY <1>4, <2>4
<1>8. jalaliToDate(yy, mm, dd) = DayOf(yy, mm, dd)
  BY <1>5, ToDate
<1> QED BY <1>5, <1>7, <1>8

LEMMA JalaliMonthOf ==
  ASSUME NEW y, NEW m, NEW d, Jalali(y, m, d)
  PROVE  MonthOf(DayOf(y, m, d), "fa") = 12 * y + m
<1>1. toJalali(DayOf(y, m, d)) = [y |-> y, m |-> m, d |-> d]
  BY FromDate
<1> QED BY <1>1, SMTT(30) DEF MonthOf

LEMMA JalaliArrows ==
  ASSUME CalendarInv, NEW y, NEW m, NEW d, WalkAt(y, m, d), NEW delta \in {-1, 1}
  PROVE  /\ MonthOf(addMonth(today, delta, "fa"), "fa") = MonthOf(today, "fa") + delta
         /\ MonthOf(addMonth(addMonth(today, delta, "fa"), -delta, "fa"), "fa") = MonthOf(today, "fa")
<1>1. y \in Walked /\ y \in Int /\ y \in Reckoned /\ m \in Months /\ m \in Int /\ Jalali(y, m, d) /\ today = DayOf(y, m, d)
  BY WalkYear, ReckonedAre, YearsAre DEF WalkAt, Jalali
<1>2. PICK yy \in Int, mm \in Months :
           /\ yy = y + (m + delta - 1) \div 12 /\ mm = ((m + delta - 1) % 12) + 1
           /\ 12 * yy + mm = 12 * y + m + delta /\ yy \in {y - 1, y, y + 1}
  BY <1>1, Beside
<1>3. yy \in Reckoned /\ mm \in Int
  BY <1>1, <1>2, ReckonedAre, YearsAre
<1>4. PICK dd : Jalali(yy, mm, dd) /\ addMonth(DayOf(y, m, d), delta, "fa") = DayOf(yy, mm, dd)
  BY <1>1, <1>2, <1>3, JalaliArrow
<1>5. PICK back \in {-1, 1} : back = -delta
  OBVIOUS
<1>6. PICK zz \in Int, nn \in Months :
           /\ zz = yy + (mm + back - 1) \div 12 /\ nn = ((mm + back - 1) % 12) + 1
           /\ 12 * zz + nn = 12 * yy + mm + back /\ zz \in {yy - 1, yy, yy + 1}
  BY Beside, ZenonT(60)
<1>7. zz = y /\ nn = m
  <2>1. 12 * zz + nn = 12 * y + m
    BY <1>1, <1>2, <1>3, <1>5, <1>6
  <2> QED BY <1>1, <2>1 DEF Months
<1>8. PICK ee : Jalali(zz, nn, ee) /\ addMonth(DayOf(yy, mm, dd), back, "fa") = DayOf(zz, nn, ee)
  <2>1. zz \in Reckoned
    BY <1>1, <1>7
  <2> QED BY <1>4, <1>6, <2>1, JalaliArrow
<1>9. MonthOf(today, "fa") = 12 * y + m
  BY <1>1, JalaliMonthOf
<1>10. MonthOf(addMonth(today, delta, "fa"), "fa") = 12 * yy + mm
  BY <1>1, <1>4, JalaliMonthOf
<1>11. MonthOf(addMonth(addMonth(today, delta, "fa"), -delta, "fa"), "fa") = 12 * zz + nn
  <2>1. MonthOf(DayOf(zz, nn, ee), "fa") = 12 * zz + nn
    BY <1>8, JalaliMonthOf
  <2>2. addMonth(addMonth(today, delta, "fa"), -delta, "fa") = DayOf(zz, nn, ee)
    BY <1>1, <1>4, <1>5, <1>8
  <2> QED BY <2>1, <2>2
<1> QED BY <1>1, <1>2, <1>7, <1>9, <1>10, <1>11

LEMMA NewDateMonth ==
  ASSUME NEW y, NEW k, NEW yy, NEW mm, yy = y + (k - 1) \div 12, mm = ((k - 1) % 12) + 1
  PROVE  NewDate(y, k, 1) = YearStart(yy) + DaysBefore(yy, mm) + 1 - 1
BY SMTT(30) DEF NewDate

LEMMA GregorianArrow ==
  ASSUME NEW y, NEW m, NEW d, Gregorian(y, m, d), NEW delta \in {-1, 1},
         NEW yy \in Within, NEW mm \in Months,
         yy = y + (m + delta - 1) \div 12, mm = ((m + delta - 1) % 12) + 1
  PROVE  Gregorian(yy, mm, 1) /\ addMonth(NewDate(y, m, d), delta, "en") = NewDate(yy, mm, 1)
<1>1. yy \in Int /\ y \in Int /\ m \in Months /\ m \in Int
  BY YearsAre DEF Gregorian
<1>2. DateOf(NewDate(y, m, d)) = [y |-> y, m |-> m, d |-> d]
  BY DateIs
<1>3. addMonth(NewDate(y, m, d), delta, "en") = NewDate(y, m + delta, 1)
  <2>1. "en" # "fa"
    OBVIOUS
  <2>2. addMonth(NewDate(y, m, d), delta, "en")
          = NewDate(DateOf(NewDate(y, m, d)).y, DateOf(NewDate(y, m, d)).m + delta, 1)
    BY <2>1, Zenon DEF addMonth
  <2> QED BY <1>2, <2>2
<1>4. NewDate(y, m + delta, 1) = YearStart(yy) + DaysBefore(yy, mm) + 1 - 1
  <2>1. PICK k \in Int : k = m + delta
    BY <1>1
  <2>2. yy = y + (k - 1) \div 12 /\ mm = ((k - 1) % 12) + 1
    BY <1>1, <2>1
  <2>3. NewDate(y, k, 1) = YearStart(yy) + DaysBefore(yy, mm) + 1 - 1
    BY <2>2, NewDateMonth
  <2> QED BY <2>1, <2>3
<1>5. NewDate(yy, mm, 1) = YearStart(yy) + DaysBefore(yy, mm) + 1 - 1
  BY <1>1, NewDateIs
<1>6. Gregorian(yy, mm, 1)
  <2>1. GregorianLengths(yy)[mm] \in 28..31
    BY <1>1, MonthLengths
  <2> QED BY <2>1 DEF Gregorian
<1> QED BY <1>3, <1>4, <1>5, <1>6

LEMMA GregorianMonthOf ==
  ASSUME NEW y, NEW m, NEW d, Gregorian(y, m, d)
  PROVE  MonthOf(NewDate(y, m, d), "en") = 12 * y + m
<1>1. DateOf(NewDate(y, m, d)) = [y |-> y, m |-> m, d |-> d]
  BY DateIs
<1>2. "en" # "fa"
  OBVIOUS
<1> QED BY <1>1, <1>2, SMTT(30) DEF MonthOf

LEMMA GregorianArrows ==
  ASSUME CalendarInv, NEW delta \in {-1, 1}
  PROVE  /\ MonthOf(addMonth(today, delta, "en"), "en") = MonthOf(today, "en") + delta
         /\ MonthOf(addMonth(addMonth(today, delta, "en"), -delta, "en"), "en") = MonthOf(today, "en")
<1>0. PICK y, m, d : Gregorian(y, m, d) /\ y \in Sprung /\ today = NewDate(y, m, d)
  BY WalkedDay
<1>1. y \in Int /\ y \in Within /\ m \in Months /\ m \in Int /\ Gregorian(y, m, d) /\ today = NewDate(y, m, d)
  BY <1>0, SprungAre, YearsAre DEF Gregorian
<1>2. PICK yy \in Int, mm \in Months :
           /\ yy = y + (m + delta - 1) \div 12 /\ mm = ((m + delta - 1) % 12) + 1
           /\ 12 * yy + mm = 12 * y + m + delta /\ yy \in {y - 1, y, y + 1}
  BY <1>1, Beside
<1>3. yy \in Within /\ mm \in Int
  BY <1>0, <1>1, <1>2, SprungAre, YearsAre
<1>4. Gregorian(yy, mm, 1) /\ addMonth(NewDate(y, m, d), delta, "en") = NewDate(yy, mm, 1)
  BY <1>1, <1>2, <1>3, GregorianArrow
<1>5. PICK back \in {-1, 1} : back = -delta
  OBVIOUS
<1>6. PICK zz \in Int, nn \in Months :
           /\ zz = yy + (mm + back - 1) \div 12 /\ nn = ((mm + back - 1) % 12) + 1
           /\ 12 * zz + nn = 12 * yy + mm + back /\ zz \in {yy - 1, yy, yy + 1}
  BY Beside, ZenonT(60)
<1>7. zz = y /\ nn = m
  <2>1. 12 * zz + nn = 12 * y + m
    BY <1>1, <1>2, <1>3, <1>5, <1>6
  <2> QED BY <1>1, <2>1 DEF Months
<1>8. Gregorian(zz, nn, 1) /\ addMonth(NewDate(yy, mm, 1), back, "en") = NewDate(zz, nn, 1)
  <2>1. zz \in Within
    BY <1>1, <1>7
  <2> QED BY <1>4, <1>6, <2>1, GregorianArrow
<1>9. MonthOf(today, "en") = 12 * y + m
  BY <1>1, GregorianMonthOf
<1>10. MonthOf(addMonth(today, delta, "en"), "en") = 12 * yy + mm
  BY <1>1, <1>4, GregorianMonthOf
<1>11. MonthOf(addMonth(addMonth(today, delta, "en"), -delta, "en"), "en") = 12 * zz + nn
  <2>1. MonthOf(NewDate(zz, nn, 1), "en") = 12 * zz + nn
    BY <1>8, GregorianMonthOf
  <2>2. addMonth(addMonth(today, delta, "en"), -delta, "en") = NewDate(zz, nn, 1)
    BY <1>1, <1>4, <1>5, <1>8
  <2> QED BY <2>1, <2>2
<1> QED BY <1>1, <1>2, <1>7, <1>9, <1>10, <1>11

LEMMA Agreed == CalendarInv => CalendarAgrees
<1> SUFFICES ASSUME CalendarInv PROVE CalendarAgrees
  OBVIOUS
<1>1. PICK y, m, d : WalkAt(y, m, d)
  BY DEF CalendarInv
<1>2. Jalali(y, m, d) /\ jalali = [y |-> y, m |-> m, d |-> d] /\ today = DayOf(y, m, d)
  BY <1>1 DEF WalkAt
<1>3. toJalali(today) = jalali
  BY <1>2, FromDate
<1>4. jalaliToDate(jalali.y, jalali.m, jalali.d) = today
  BY <1>2, ToDate
<1>5. \A locale \in Locales : GridAgrees(monthGrid(today, locale), locale)
  BY <1>1, JalaliGridAgrees, GregorianGridAgrees DEF Locales
<1>6. \A locale \in Locales : \A delta \in {-1, 1} :
        /\ MonthOf(addMonth(today, delta, locale), locale) = MonthOf(today, locale) + delta
        /\ MonthOf(addMonth(addMonth(today, delta, locale), -delta, locale), locale) = MonthOf(today, locale)
  BY <1>1, JalaliArrows, GregorianArrows DEF Locales
<1> QED BY <1>3, <1>4, <1>5, <1>6, Zenon DEF CalendarAgrees

(* On every day of a walk from 1212 to 1627, conversion leads to the date  *)
(* counted by the rules and back, the picker shows the month whole under   *)
(* its weekdays, and an arrow leads to the month beside it and the other   *)
(* back (datetime.ts, DatePicker.tsx).                                     *)
THEOREM CalendarsAgree == CalendarSpec => []CalendarAgrees
<1>1. CalendarInv /\ [CalendarNext]_cvars => CalendarInv'
  BY WalkGoesOn
<1> QED BY WalkStarts, <1>1, Agreed, PTL DEF CalendarSpec
===============================================================================
