--------------------------- MODULE StrOpt_proofs ---------------------------
(***************************************************************************)
(* What the text helpers compute, for every text, separator and number.    *)
(*                                                                         *)
(* First induction and recursion, on which everything rests, and sequences *)
(* joined to one.  Then HexFits; the splitters, field by field             *)
(* (FieldsReadBack) and by level (LevelIsNthRead); the blanks (WordsKept); *)
(* and the numbers (RealAsWritten).                                        *)
(***************************************************************************)
EXTENDS StrOpt, SequenceTheorems, FiniteSetTheorems, WellFoundedInduction, TLAPS

-----------------------------------------------------------------------------
(***************************************************************************)
(* Induction.  The helpers compute by recursion along the text, so what    *)
(* they compute is shown by induction on a position: a set that holds 0    *)
(* and with each number the next holds every number.                       *)
(***************************************************************************)
LEMMA LeastExists ==
  ASSUME NEW S \in SUBSET Nat, S # {}
  PROVE  \E m \in S : \A n \in S : m <= n
<1> DEFINE Less == {p \in Nat \X Nat : p[1] < p[2]}
<1>1. IsWellFoundedOn(Less, Nat)
  BY NatLessThanWellFounded DEF OpToRel
<1>2. \A m, n \in Nat : <<n, m>> \notin Less => m <= n
  OBVIOUS
<1> HIDE DEF Less
<1>3. PICK m \in S : \A n \in S : <<n, m>> \notin Less
  BY <1>1, WFMin
<1> QED BY <1>2, <1>3

LEMMA Induction ==
  ASSUME NEW S, 0 \in S, \A n \in Nat : n \in S => n + 1 \in S
  PROVE  Nat \subseteq S
<1> SUFFICES ASSUME Nat \ S # {} PROVE FALSE
  OBVIOUS
<1>1. PICK m \in Nat \ S : \A n \in Nat \ S : m <= n
  BY LeastExists
<1>2. m # 0
  OBVIOUS
<1>3. m - 1 \in Nat /\ m - 1 \notin Nat \ S
  BY <1>1, <1>2
<1>4. m - 1 + 1 \in S
  BY <1>3
<1> QED BY <1>1, <1>4

\* The same with all smaller numbers for a hypothesis.
LEMMA StrongInduction ==
  ASSUME NEW S, \A n \in Nat : (\A m \in 0 .. n - 1 : m \in S) => n \in S
  PROVE  Nat \subseteq S
<1> SUFFICES ASSUME Nat \ S # {} PROVE FALSE
  OBVIOUS
<1>1. PICK m \in Nat \ S : \A n \in Nat \ S : m <= n
  BY LeastExists
<1>2. \A n \in 0 .. m - 1 : n \in S
  BY <1>1
<1> QED BY <1>1, <1>2

-----------------------------------------------------------------------------
(***************************************************************************)
(* A function defined by recursion on 0 .. N exists, and there is one.     *)
(***************************************************************************)
Recursive(f, N, start, step) ==
  /\ f[0] = start
  /\ \A i \in 1 .. N : f[i] = step[i][f[i - 1]]

LEMMA RecursionExists ==
  ASSUME NEW V, NEW start \in V, NEW N \in Nat, NEW step \in [1 .. N -> [V -> V]]
  PROVE  \E f \in [0 .. N -> V] : Recursive(f, N, start, step)
<1> DEFINE P(n) == n <= N => \E f \in [0 .. n -> V] : Recursive(f, n, start, step)
           T == {n \in Nat : P(n)}
<1>1. P(0)
  <2> DEFINE f == [i \in 0 .. 0 |-> start]
  <2>1. f \in [0 .. 0 -> V] /\ Recursive(f, 0, start, step)
    BY DEF Recursive
  <2> QED BY <2>1
<1>2. ASSUME NEW n \in Nat, P(n) PROVE P(n + 1)
  <2> SUFFICES ASSUME n + 1 <= N
               PROVE  \E f \in [0 .. n + 1 -> V] : Recursive(f, n + 1, start, step)
    OBVIOUS
  <2>1. PICK f \in [0 .. n -> V] : Recursive(f, n, start, step)
    BY <1>2
  <2> DEFINE new == step[n + 1][f[n]]
             g == [i \in 0 .. n + 1 |-> IF i = n + 1 THEN new ELSE f[i]]
  <2>2. new \in V
    OBVIOUS
  <2>3. g \in [0 .. n + 1 -> V]
    BY <2>2
  <2>4. g[n + 1] = new /\ \A i \in 0 .. n : g[i] = f[i]
    OBVIOUS
  <2> HIDE DEF g
  <2>5. ASSUME NEW i \in 1 .. n + 1 PROVE g[i] = step[i][g[i - 1]]
    <3>1. CASE i = n + 1
      BY <2>4, <3>1
    <3>2. CASE i \in 1 .. n
      <4>1. g[i] = f[i] /\ g[i - 1] = f[i - 1]
        BY <2>4, <3>2
      <4> QED BY <2>1, <3>2, <4>1 DEF Recursive
    <3> QED BY <3>1, <3>2
  <2>6. g[0] = start
    BY <2>1, <2>4 DEF Recursive
  <2> QED BY <2>3, <2>5, <2>6 DEF Recursive
<1> HIDE DEF P
<1>3. 0 \in T /\ \A n \in Nat : n \in T => n + 1 \in T
  BY <1>1, <1>2
<1> HIDE DEF T
<1>4. N \in T
  BY <1>3, Induction
<1>5. P(N)
  BY <1>4 DEF T
<1> QED BY <1>5 DEF P

\* The same where a value is made of any of the earlier ones.
Backwards(f, N, start, back, step) ==
  /\ f[0] = start
  /\ \A i \in 1 .. N : f[i] = step[i][f[back[i]]]

LEMMA BackwardsExists ==
  ASSUME NEW V, NEW start \in V, NEW N \in Nat, NEW step \in [1 .. N -> [V -> V]],
         NEW back, \A i \in 1 .. N : back[i] \in 0 .. i - 1
  PROVE  \E f \in [0 .. N -> V] : Backwards(f, N, start, back, step)
<1> DEFINE P(n) == n <= N => \E f \in [0 .. n -> V] : Backwards(f, n, start, back, step)
           T == {n \in Nat : P(n)}
<1>1. P(0)
  <2> DEFINE f == [i \in 0 .. 0 |-> start]
  <2>1. f \in [0 .. 0 -> V] /\ Backwards(f, 0, start, back, step)
    BY DEF Backwards
  <2> QED BY <2>1
<1>2. ASSUME NEW n \in Nat, P(n) PROVE P(n + 1)
  <2> SUFFICES ASSUME n + 1 <= N
               PROVE  \E f \in [0 .. n + 1 -> V] : Backwards(f, n + 1, start, back, step)
    OBVIOUS
  <2>1. PICK f \in [0 .. n -> V] : Backwards(f, n, start, back, step)
    BY <1>2
  <2> DEFINE new == step[n + 1][f[back[n + 1]]]
             g == [i \in 0 .. n + 1 |-> IF i = n + 1 THEN new ELSE f[i]]
  <2>2. new \in V
    <3>1. n + 1 \in 1 .. N /\ back[n + 1] \in 0 .. n
      OBVIOUS
    <3> QED BY <3>1
  <2>3. g \in [0 .. n + 1 -> V]
    BY <2>2
  <2>4. g[n + 1] = new /\ \A i \in 0 .. n : g[i] = f[i]
    OBVIOUS
  <2> HIDE DEF g
  <2>5. ASSUME NEW i \in 1 .. n + 1 PROVE g[i] = step[i][g[back[i]]]
    <3>1. i \in 1 .. N /\ back[i] \in 0 .. i - 1
      OBVIOUS
    <3>2. g[back[i]] = f[back[i]]
      BY <2>4, <3>1
    <3>3. CASE i = n + 1
      BY <2>4, <3>2, <3>3
    <3>4. CASE i \in 1 .. n
      <4>1. g[i] = f[i] /\ f[i] = step[i][f[back[i]]]
        BY <2>1, <2>4, <3>4 DEF Backwards
      <4> QED BY <3>2, <4>1
    <3> QED BY <3>3, <3>4
  <2>6. g[0] = start
    BY <2>1, <2>4 DEF Backwards
  <2> QED BY <2>3, <2>5, <2>6 DEF Backwards
<1> HIDE DEF P
<1>3. 0 \in T /\ \A n \in Nat : n \in T => n + 1 \in T
  BY <1>1, <1>2
<1> HIDE DEF T
<1>4. N \in T
  BY <1>3, Induction
<1>5. P(N)
  BY <1>4 DEF T
<1> QED BY <1>5 DEF P

LEMMA RecursiveUpto ==
  ASSUME NEW N \in Nat, NEW n \in 0 .. N, NEW start, NEW step, NEW f,
         Recursive(f, N, start, step)
  PROVE  Recursive(f, n, start, step)
BY DEF Recursive

Alike(f, g, a, b) == \A i \in a .. b : f[i] = g[i]

\* Two that are defined alike are the same.
LEMMA RecursionUnique ==
  ASSUME NEW m \in Nat, NEW start,
         NEW step, NEW other, Alike(step, other, 1, m),
         NEW f, Recursive(f, m, start, step),
         NEW g, Recursive(g, m, start, other)
  PROVE  Alike(f, g, 0, m)
<1> DEFINE T == {n \in Nat : n <= m => f[n] = g[n]}
<1>1. 0 \in T
  BY DEF Recursive
<1>2. ASSUME NEW n \in Nat, n \in T PROVE n + 1 \in T
  <2> SUFFICES ASSUME n + 1 <= m PROVE f[n + 1] = g[n + 1]
    OBVIOUS
  <2>1. f[n + 1] = step[n + 1][f[n]] /\ g[n + 1] = other[n + 1][g[n]]
    BY DEF Recursive
  <2>2. step[n + 1] = other[n + 1]
    BY DEF Alike
  <2> QED BY <1>2, <2>1, <2>2
<1> HIDE DEF T
<1>3. Nat \subseteq T
  BY <1>1, <1>2, Induction
<1> QED BY <1>3 DEF T, Alike

-----------------------------------------------------------------------------
(***************************************************************************)
(* The first and the last position with some property.                     *)
(***************************************************************************)
LEMMA FirstOfLeast ==
  ASSUME NEW S \in SUBSET Nat, S # {}, NEW no
  PROVE  /\ FirstOf(S, no) \in S
         /\ \A q \in S : FirstOf(S, no) <= q
BY LeastExists DEF FirstOf

LEMMA FirstOfNone == \A no : FirstOf({}, no) = no
BY DEF FirstOf

LEMMA LastOfGreatest ==
  ASSUME NEW N \in Nat, NEW S \in SUBSET (0 .. N), S # {}, NEW no
  PROVE  /\ LastOf(S, no) \in S
         /\ \A q \in S : LastOf(S, no) >= q
<1> DEFINE below == {N - p : p \in S}
<1>1. below \in SUBSET Nat /\ below # {}
  <2>1. PICK q \in S : TRUE
    OBVIOUS
  <2>2. N - q \in below
    OBVIOUS
  <2>3. \A p \in S : N - p \in Nat
    OBVIOUS
  <2> QED BY <2>2, <2>3
<1>2. PICK d \in below : \A e \in below : d <= e
  BY <1>1, LeastExists
<1>3. PICK p \in S : d = N - p
  BY <1>2
<1>4. \A q \in S : p >= q
  BY <1>2, <1>3
<1> QED BY <1>3, <1>4 DEF LastOf

-----------------------------------------------------------------------------
(***************************************************************************)
(* Joining a list of sequences into one.                                   *)
(***************************************************************************)
\* The provers do better when they do not see that this is \o.
Cat(a, b) == a \o b

LEMMA CatProperties ==
  /\ \A S : \A a, b \in Seq(S) : Cat(a, b) \in Seq(S)
  /\ \A S : \A a \in Seq(S) : Cat(<<>>, a) = a /\ Cat(a, <<>>) = a
  /\ \A S : \A a, b, c \in Seq(S) : Cat(Cat(a, b), c) = Cat(a, Cat(b, c))
BY ConcatProperties, ConcatEmptySeq, ConcatAssociative DEF Cat

LEMMA CatAssociative ==
  ASSUME NEW S, NEW a \in Seq(S), NEW b \in Seq(S), NEW c \in Seq(S)
  PROVE  Cat(Cat(a, b), c) = Cat(a, Cat(b, c))
BY CatProperties

LEMMA CatIs ==
  ASSUME NEW S, NEW a \in Seq(S), NEW b \in Seq(S)
  PROVE  /\ Cat(a, b) \in Seq(S)
         /\ Len(Cat(a, b)) = Len(a) + Len(b)
         /\ \A i \in 1 .. Len(a) + Len(b) :
              Cat(a, b)[i] = IF i <= Len(a) THEN a[i] ELSE b[i - Len(a)]
BY ConcatProperties DEF Cat

\* f[i] is what the first i of ss make.
Joining(S, ss) == [i \in 1 .. Len(ss) |-> [v \in Seq(S) |-> Cat(v, ss[i])]]

LEMMA JoiningType ==
  ASSUME NEW S, NEW ss \in Seq(Seq(S))
  PROVE  /\ Joining(S, ss) \in [1 .. Len(ss) -> [Seq(S) -> Seq(S)]]
         /\ \A i \in 1 .. Len(ss) : \A v \in Seq(S) : Joining(S, ss)[i][v] = Cat(v, ss[i])
<1>1. \A i \in 1 .. Len(ss) : ss[i] \in Seq(S)
  OBVIOUS
<1>2. \A i \in 1 .. Len(ss) : \A v \in Seq(S) : Cat(v, ss[i]) \in Seq(S)
  BY <1>1, CatProperties
<1> QED BY <1>2 DEF Joining

LEMMA FlattenJoins ==
  ASSUME NEW S, NEW ss \in Seq(Seq(S))
  PROVE  \E f \in [0 .. Len(ss) -> Seq(S)] :
           /\ Recursive(f, Len(ss), <<>>, Joining(S, ss))
           /\ FlattenSeq(ss) = f[Len(ss)]
<1> DEFINE n == Len(ss)
<1>0. n \in Nat /\ <<>> \in Seq(S) /\ \A i \in 1 .. n : ss[i] \in Seq(S)
  OBVIOUS
<1> HIDE DEF n
<1>1. PICK f \in [0 .. n -> Seq(S)] : Recursive(f, n, <<>>, Joining(S, ss))
  BY <1>0, JoiningType, RecursionExists DEF n
<1>2. f[0] = <<>> /\ \A i \in 1 .. n : f[i] = Cat(f[i - 1], ss[i])
  <2>1. ASSUME NEW i \in 1 .. n PROVE f[i] = Cat(f[i - 1], ss[i])
    <3>1. f[i - 1] \in Seq(S)
      BY <1>0
    <3>2. Joining(S, ss)[i][f[i - 1]] = Cat(f[i - 1], ss[i])
      BY <3>1, JoiningType DEF n
    <3>3. f[i] = Joining(S, ss)[i][f[i - 1]]
      BY <1>1 DEF Recursive
    <3> QED BY <3>2, <3>3, Zenon
  <2> QED BY <1>1, <2>1 DEF Recursive
<1>3. CASE n = 0
  BY <1>1, <1>2, <1>3 DEF FlattenSeq, n
<1>4. CASE n > 0
  <2> DEFINE flatten[i \in 1 .. n] == IF i = 1 THEN ss[i] ELSE Cat(flatten[i - 1], ss[i])
  <2>1. FlattenSeq(ss) = flatten[n]
    BY <1>4 DEF FlattenSeq, Cat, n
  <2>2. flatten = [i \in 1 .. n |-> IF i = 1 THEN ss[i] ELSE Cat(flatten[i - 1], ss[i])]
    <3> DEFINE h == [i \in 1 .. n |-> f[i]]
    <3>1. ASSUME NEW i \in 1 .. n
          PROVE  h[i] = IF i = 1 THEN ss[i] ELSE Cat(h[i - 1], ss[i])
      <4>1. h[i] = Cat(f[i - 1], ss[i])
        BY <1>2
      <4>2. CASE i = 1
        <5>1. f[i - 1] = <<>>
          BY <1>2, <4>2
        <5>2. Cat(<<>>, ss[i]) = ss[i]
          BY <1>0, CatProperties
        <5> QED BY <4>1, <4>2, <5>1, <5>2, Zenon
      <4>3. CASE i # 1
        <5>1. h[i - 1] = f[i - 1]
          BY <1>0, <4>3
        <5> QED BY <4>1, <4>3, <5>1, Zenon
      <4> QED BY <4>2, <4>3
    <3>2. h = [i \in 1 .. n |-> h[i]]
      OBVIOUS
    <3> HIDE DEF h
    <3>3. h = [i \in 1 .. n |-> IF i = 1 THEN ss[i] ELSE Cat(h[i - 1], ss[i])]
      BY <3>1, <3>2, Zenon
    <3> QED BY <3>3, Zenon
  <2> HIDE DEF flatten
  <2>3. ASSUME NEW i \in 1 .. n
        PROVE  flatten[i] = IF i = 1 THEN ss[i] ELSE Cat(flatten[i - 1], ss[i])
    BY <2>2
  <2> DEFINE T == {m \in Nat : 1 <= m /\ m <= n => flatten[m] = f[m]}
  <2>4. 0 \in T
    OBVIOUS
  <2>5. ASSUME NEW m \in Nat, m \in T PROVE m + 1 \in T
    <3> SUFFICES ASSUME m + 1 <= n PROVE flatten[m + 1] = f[m + 1]
      OBVIOUS
    <3>1. m + 1 \in 1 .. n /\ m + 1 - 1 = m
      BY <1>0
    <3>2. f[m + 1] = Cat(f[m], ss[m + 1])
      BY <1>2, <3>1
    <3>3. CASE m = 0
      <4>1. flatten[m + 1] = ss[m + 1] /\ f[m] = <<>>
        BY <1>2, <2>3, <3>1, <3>3
      <4> QED BY <1>0, <3>1, <3>2, <4>1, CatProperties
    <3>4. CASE m # 0
      <4>1. flatten[m + 1] = Cat(flatten[m], ss[m + 1])
        BY <2>3, <3>1, <3>4
      <4> QED BY <1>0, <2>5, <3>1, <3>2, <3>4, <4>1
    <3> QED BY <3>3, <3>4
  <2> HIDE DEF T
  <2>6. n \in T
    BY <1>0, <2>4, <2>5, Induction
  <2>7. flatten[n] = f[n]
    BY <1>0, <1>4, <2>6 DEF T
  <2> QED BY <1>1, <2>1, <2>7 DEF n
<1> QED BY <1>0, <1>3, <1>4

LEMMA FlattenEmpty == FlattenSeq(<<>>) = <<>>
BY DEF FlattenSeq

LEMMA FlattenType ==
  ASSUME NEW S, NEW ss \in Seq(Seq(S))
  PROVE  FlattenSeq(ss) \in Seq(S)
<1>1. PICK f \in [0 .. Len(ss) -> Seq(S)] : FlattenSeq(ss) = f[Len(ss)]
  BY FlattenJoins, Zenon
<1>2. Len(ss) \in 0 .. Len(ss)
  OBVIOUS
<1> QED BY <1>1, <1>2, Zenon

LEMMA FlattenAppend ==
  ASSUME NEW S, NEW ss \in Seq(Seq(S)), NEW x \in Seq(S)
  PROVE  FlattenSeq(Append(ss, x)) = Cat(FlattenSeq(ss), x)
<1> DEFINE tt == Append(ss, x)
           n  == Len(ss)
<1>1. /\ tt \in Seq(Seq(S)) /\ n \in Nat /\ Len(tt) = n + 1 /\ tt[n + 1] = x
      /\ \A i \in 1 .. n : tt[i] = ss[i]
  OBVIOUS
<1>2. PICK f \in [0 .. n -> Seq(S)] :
        Recursive(f, n, <<>>, Joining(S, ss)) /\ FlattenSeq(ss) = f[n]
  BY FlattenJoins
<1> HIDE DEF tt
<1>3. PICK g \in [0 .. Len(tt) -> Seq(S)] :
        Recursive(g, Len(tt), <<>>, Joining(S, tt)) /\ FlattenSeq(tt) = g[Len(tt)]
  BY <1>1, FlattenJoins
<1> HIDE DEF n
<1>4. Alike(Joining(S, ss), Joining(S, tt), 1, n)
  BY <1>1 DEF Joining, n, Alike
<1>5. f[n] = g[n]
  <2>1. Recursive(g, n, <<>>, Joining(S, tt))
    <3>1. n \in Nat /\ n \in 0 .. Len(tt) /\ Len(tt) \in Nat
      BY <1>1
    <3> QED BY <1>3, <3>1, RecursiveUpto
  <2>2. Recursive(f, n, <<>>, Joining(S, ss)) /\ n \in Nat
    BY <1>1, <1>2
  <2>3. Alike(f, g, 0, n)
    BY <1>4, <2>1, <2>2, RecursionUnique
  <2> QED BY <1>1, <2>3 DEF Alike
<1>6. g[n + 1] = Joining(S, tt)[n + 1][g[n + 1 - 1]]
  BY <1>1, <1>3 DEF Recursive
<1>7. g[n + 1 - 1] = g[n] /\ g[n] \in Seq(S)
  BY <1>1, <1>3
<1>8. g[n + 1] = Cat(g[n], x)
  <2>1. n + 1 \in 1 .. Len(tt)
    BY <1>1
  <2>2. \A i \in 1 .. Len(tt) : \A v \in Seq(S) : Joining(S, tt)[i][v] = Cat(v, tt[i])
    BY <1>1, JoiningType
  <2>3. Joining(S, tt)[n + 1][g[n]] = Cat(g[n], tt[n + 1])
    BY <1>7, <2>1, <2>2, Zenon
  <2> QED BY <1>1, <1>6, <1>7, <2>3, Zenon
<1> QED BY <1>1, <1>2, <1>3, <1>5, <1>8 DEF tt

LEMMA FlattenOne ==
  ASSUME NEW S, NEW x \in Seq(S)
  PROVE  FlattenSeq(<<x>>) = x
<1>1. <<x>> = Append(<<>>, x) /\ <<>> \in Seq(Seq(S))
  OBVIOUS
<1>2. FlattenSeq(<<x>>) = Cat(<<>>, x)
  BY <1>1, FlattenAppend, FlattenEmpty
<1> QED BY <1>2, CatProperties

\* What two lists make, put together, is what the two lists put together make.
LEMMA FlattenConcat ==
  ASSUME NEW S, NEW ss \in Seq(Seq(S)), NEW tt \in Seq(Seq(S))
  PROVE  FlattenSeq(Cat(ss, tt)) = Cat(FlattenSeq(ss), FlattenSeq(tt))
<1> DEFINE Holds1(n) == \A uu \in Seq(Seq(S)) : Len(uu) = n =>
                         FlattenSeq(Cat(ss, uu)) = Cat(FlattenSeq(ss), FlattenSeq(uu))
           Good == {n \in Nat : Holds1(n)}
<1>1. 0 \in Good
  <2>1. FlattenSeq(ss) \in Seq(S)
    BY FlattenType
  <2>2. ASSUME NEW uu \in Seq(Seq(S)), Len(uu) = 0
        PROVE  FlattenSeq(Cat(ss, uu)) = Cat(FlattenSeq(ss), FlattenSeq(uu))
    <3>1. uu = <<>>
      BY <2>2, EmptySeq
    <3> QED BY <2>1, <3>1, FlattenEmpty, CatProperties
  <2> QED BY <2>2
<1>2. ASSUME NEW n \in Nat, n \in Good PROVE n + 1 \in Good
  <2> SUFFICES ASSUME NEW uu \in Seq(Seq(S)), Len(uu) = n + 1
               PROVE  FlattenSeq(Cat(ss, uu)) = Cat(FlattenSeq(ss), FlattenSeq(uu))
    OBVIOUS
  <2>1. PICK vv \in Seq(Seq(S)), x \in Seq(S) : uu = Append(vv, x)
    <3>1. uu # <<>>
      OBVIOUS
    <3> QED BY <3>1, SequenceEmptyOrAppend
  <2>2. Len(vv) = n
    BY <2>1
  <2>3. FlattenSeq(Cat(ss, vv)) = Cat(FlattenSeq(ss), FlattenSeq(vv))
    BY <1>2, <2>2
  <2>4. Cat(ss, uu) = Append(Cat(ss, vv), x) /\ Cat(ss, vv) \in Seq(Seq(S))
    BY <2>1 DEF Cat
  <2>5. FlattenSeq(Cat(ss, uu)) = Cat(FlattenSeq(Cat(ss, vv)), x)
    BY <2>4, FlattenAppend
  <2>6. FlattenSeq(uu) = Cat(FlattenSeq(vv), x)
    BY <2>1, FlattenAppend
  <2>7. FlattenSeq(ss) \in Seq(S) /\ FlattenSeq(vv) \in Seq(S)
    BY FlattenType
  <2>8. Cat(Cat(FlattenSeq(ss), FlattenSeq(vv)), x)
          = Cat(FlattenSeq(ss), Cat(FlattenSeq(vv), x))
    BY <2>7, CatProperties
  <2> QED BY <2>3, <2>5, <2>6, <2>8
<1> HIDE DEF Good
<1>3. Nat \subseteq Good
  BY <1>1, <1>2, Induction
<1> QED BY <1>3 DEF Good

-----------------------------------------------------------------------------
(***************************************************************************)
(* Hex.                                                                    *)
(***************************************************************************)
\* The text and the way it is split never change.
LEMMA TextStays == TextSpec => [](text \in Texts /\ way \in Ways)
<1>1. TextInit => text \in Texts /\ way \in Ways
  BY DEF TextInit
<1>2. text \in Texts /\ way \in Ways /\ [ReadField]_textVars => (text \in Texts /\ way \in Ways)'
  BY DEF ReadField, textVars
<1> QED BY <1>1, <1>2, PTL DEF TextSpec

LEMMA TextsType == \A s \in Texts : s \in Seq(Chars) /\ Len(s) \in Nat
<1>1. Texts \subseteq Seq(Chars)
  BY TextAssumption, Zenon
<1> QED BY <1>1

\* Two digits are written for each byte as long as three places are left.
LEMMA HexDigits ==
  ASSUME NEW bufLen \in Nat, NEW strLen \in Nat \ {0}
  PROVE  /\ b2str(bufLen, strLen) \in Nat
         /\ b2str(bufLen, strLen) + 1 <= strLen
         /\ b2str(bufLen, strLen) < 2 * bufLen => b2str(bufLen, strLen) + 3 > strLen
<1> DEFINE room == (strLen - 1) \div 2
           k    == IF room < bufLen THEN room ELSE bufLen
<1>1. room \in Nat /\ 2 * room \in {strLen - 1, strLen - 2}
  OBVIOUS
<1>2. \A i \in Nat : 2 * i < strLen - 2 <=> i < room
  BY <1>1
<1> HIDE DEF room
<1>3. k \in Nat /\ {i \in 0 .. bufLen - 1 : 2 * i < strLen - 2} = 0 .. k - 1
  BY <1>1, <1>2
<1>4. Cardinality(0 .. k - 1) = k
  <2> HIDE DEF k
  <2>1. 0 \in Int /\ k - 1 \in Int /\ k \in Nat
    BY <1>3
  <2>2. Cardinality(0 .. k - 1) = IF 0 > k - 1 THEN 0 ELSE k - 1 - 0 + 1
    BY <2>1, FS_Interval, Zenon
  <2> QED BY <2>1, <2>2
<1>5. b2str(bufLen, strLen) = 2 * k
  BY <1>3, <1>4 DEF b2str
<1> QED BY <1>1, <1>3, <1>5

\* b2str (t_stropt.cpp:465): for every number of bytes and every size of the
\* buffer the digits and the terminator fit, and all the room is used.
THEOREM HexFitsAlways == TextSpec => []HexFits
<1>1. text \in Texts /\ way \in Ways => HexFits
  <2> SUFFICES ASSUME text \in Texts PROVE HexFits
    OBVIOUS
  <2> DEFINE n == Len(text)
  <2>1. n \in Nat
    BY TextsType
  <2> HIDE DEF n
  <2>2. \A strLen \in 1 .. 2 * n + 3 : strLen \in Nat \ {0}
    BY <2>1
  <2>3. \A strLen \in 1 .. 2 * n + 3 :
          /\ b2str(n, strLen) + 1 <= strLen
          /\ b2str(n, strLen) < 2 * n => b2str(n, strLen) + 3 > strLen
    BY <2>1, <2>2, HexDigits
  <2> QED BY <2>3 DEF HexFits, n
<1> QED BY <1>1, TextStays, PTL

LEMMA SingleType == \A S : \A x \in S : <<x>> \in Seq(S)
OBVIOUS

LEMMA EmptyType == \A S : <<>> \in Seq(S)
OBVIOUS

\* A list of single characters makes the text of these characters.
Singles(v) == [p \in 1 .. Len(v) |-> <<v[p]>>]

LEMMA FlattenSingles ==
  ASSUME NEW S, NEW v \in Seq(S)
  PROVE  Singles(v) \in Seq(Seq(S)) /\ FlattenSeq(Singles(v)) = v
<1> DEFINE P(n) == \A u \in Seq(S) : Len(u) = n => FlattenSeq(Singles(u)) = u
           T == {n \in Nat : P(n)}
<1>0. ASSUME NEW u \in Seq(S) PROVE Singles(u) \in Seq(Seq(S))
  <2>1. \A p \in 1 .. Len(u) : <<u[p]>> \in Seq(S)
    OBVIOUS
  <2> QED BY <2>1 DEF Singles
<1>1. P(0)
  <2>1. ASSUME NEW u \in Seq(S), Len(u) = 0 PROVE u = <<>> /\ Singles(u) = <<>>
    <3>1. Len(Singles(u)) = 0 /\ Singles(u) \in Seq(Seq(S))
      BY <1>0, <2>1 DEF Singles
    <3> QED BY <2>1, <3>1, EmptySeq
  <2> QED BY <2>1, FlattenEmpty
<1>2. ASSUME NEW n \in Nat, P(n) PROVE P(n + 1)
  <2> SUFFICES ASSUME NEW u \in Seq(S), Len(u) = n + 1
               PROVE  FlattenSeq(Singles(u)) = u
    OBVIOUS
  <2>1. PICK w \in Seq(S), x \in S : u = Append(w, x)
    <3>1. u # <<>>
      OBVIOUS
    <3> QED BY <3>1, SequenceEmptyOrAppend
  <2>2. Len(w) = n
    BY <2>1
  <2>3. <<x>> \in Seq(S) /\ Append(Singles(w), <<x>>) = Singles(u)
    <3>1. /\ Len(Append(Singles(w), <<x>>)) = n + 1
          /\ Append(Singles(w), <<x>>) \in Seq(Seq(S))
          /\ \A p \in 1 .. n : Append(Singles(w), <<x>>)[p] = <<w[p]>>
          /\ Append(Singles(w), <<x>>)[n + 1] = <<x>>
      <4>1. Singles(w) \in Seq(Seq(S)) /\ Len(Singles(w)) = n /\ <<x>> \in Seq(S)
        BY <1>0, <2>2 DEF Singles
      <4>2. \A p \in 1 .. n : Singles(w)[p] = <<w[p]>>
        BY <2>2 DEF Singles
      <4> QED BY <4>1, <4>2, AppendProperties
    <3>2. /\ \A p \in 1 .. n : Singles(u)[p] = <<w[p]>>
          /\ Singles(u)[n + 1] = <<x>>
      BY <2>1, <2>2 DEF Singles
    <3>3. Singles(u) \in Seq(Seq(S)) /\ Len(Singles(u)) = n + 1
      BY <1>0 DEF Singles
    <3>4. \A p \in 1 .. n + 1 : p \in 1 .. n \/ p = n + 1
      OBVIOUS
    <3>5. \A p \in 1 .. n + 1 : Append(Singles(w), <<x>>)[p] = Singles(u)[p]
      BY <3>1, <3>2, <3>4, Zenon
    <3>6. Append(Singles(w), <<x>>) = Singles(u)
      <4> DEFINE a == Append(Singles(w), <<x>>)
                 b == Singles(u)
      <4>1. /\ a \in Seq(Seq(S)) /\ b \in Seq(Seq(S)) /\ Len(a) = Len(b)
            /\ \A p \in 1 .. Len(a) : a[p] = b[p]
        BY <3>1, <3>3, <3>5
      <4> HIDE DEF a, b
      <4>2. a = b
        BY <4>1, SeqEqual
      <4> QED BY <4>2 DEF a, b
    <3> QED BY <3>6
  <2>4. FlattenSeq(Singles(u)) = Cat(FlattenSeq(Singles(w)), <<x>>)
    BY <1>0, <2>3, FlattenAppend
  <2>5. FlattenSeq(Singles(w)) = w
    BY <1>2, <2>2
  <2>6. Cat(w, <<x>>) = u
    BY <2>1, AppendIsConcat DEF Cat
  <2> QED BY <2>4, <2>5, <2>6
<1> HIDE DEF P
<1>3. 0 \in T /\ \A n \in Nat : n \in T => n + 1 \in T
  BY <1>1, <1>2
<1> HIDE DEF T
<1>4. Len(v) \in T
  BY <1>3, Induction
<1>5. P(Len(v))
  BY <1>4 DEF T
<1> QED BY <1>0, <1>5 DEF P

\* A list of empty texts makes the empty text.
LEMMA FlattenNothing ==
  ASSUME NEW S, NEW n \in Nat
  PROVE  /\ [p \in 1 .. n |-> <<>>] \in Seq(Seq(S))
         /\ FlattenSeq([p \in 1 .. n |-> <<>>]) = <<>>
<1> DEFINE L(k) == [p \in 1 .. k |-> <<>>]
           T == {k \in Nat : FlattenSeq(L(k)) = <<>>}
<1>0. <<>> \in Seq(S) /\ \A k \in Nat : L(k) \in Seq(Seq(S)) /\ Len(L(k)) = k
  OBVIOUS
<1>1. 0 \in T
  <2>1. L(0) = <<>>
    <3> HIDE DEF L
    <3> QED BY <1>0, EmptySeq
  <2> HIDE DEF L
  <2> QED BY <2>1, FlattenEmpty
<1>2. ASSUME NEW k \in Nat, k \in T PROVE k + 1 \in T
  <2>1. L(k + 1) = Append(L(k), <<>>)
    OBVIOUS
  <2> HIDE DEF L
  <2>2. FlattenSeq(L(k + 1)) = Cat(FlattenSeq(L(k)), <<>>)
    BY <1>0, <2>1, FlattenAppend
  <2>3. Cat(<<>>, <<>>) = <<>>
    BY <1>0, CatProperties
  <2> QED BY <1>2, <2>2, <2>3
<1> HIDE DEF T
<1>3. n \in T
  BY <1>1, <1>2, Induction
<1> QED BY <1>0, <1>3 DEF T

\* A list that begins with ss and goes on with tt is the two put together.
LEMMA FlattenParts ==
  ASSUME NEW S, NEW ss \in Seq(Seq(S)), NEW tt \in Seq(Seq(S)), NEW uu \in Seq(Seq(S)),
         Len(uu) = Len(ss) + Len(tt),
         \A i \in 1 .. Len(ss) : uu[i] = ss[i],
         \A i \in 1 .. Len(tt) : uu[Len(ss) + i] = tt[i]
  PROVE  FlattenSeq(uu) = Cat(FlattenSeq(ss), FlattenSeq(tt))
<1>1. /\ Cat(ss, tt) \in Seq(Seq(S)) /\ Len(Cat(ss, tt)) = Len(ss) + Len(tt)
      /\ \A i \in 1 .. Len(ss) + Len(tt) :
           Cat(ss, tt)[i] = IF i <= Len(ss) THEN ss[i] ELSE tt[i - Len(ss)]
  BY ConcatProperties DEF Cat
<1>2. ASSUME NEW i \in 1 .. Len(uu) PROVE uu[i] = Cat(ss, tt)[i]
  <2>1. CASE i <= Len(ss)
    <3>1. i \in 1 .. Len(ss) /\ i \in 1 .. Len(ss) + Len(tt)
      BY <2>1
    <3>2. uu[i] = ss[i]
      BY <3>1
    <3>3. Cat(ss, tt)[i] = ss[i]
      BY <1>1, <2>1, <3>1
    <3> QED BY <3>2, <3>3, Zenon
  <2>2. CASE i > Len(ss)
    <3> DEFINE j == i - Len(ss)
    <3>1. j \in 1 .. Len(tt) /\ i = Len(ss) + j
      BY <2>2
    <3> HIDE DEF j
    <3>2. uu[i] = tt[j]
      BY <3>1
    <3>3. Cat(ss, tt)[i] = tt[j]
      BY <1>1, <2>2 DEF j
    <3> QED BY <3>2, <3>3, Zenon
  <2> QED BY <2>1, <2>2
<1> DEFINE cc == Cat(ss, tt)
<1>3. cc \in Seq(Seq(S)) /\ Len(cc) = Len(uu) /\ \A i \in 1 .. Len(uu) : uu[i] = cc[i]
  BY <1>1, <1>2
<1> HIDE DEF cc
<1>4. uu = cc
  BY <1>3, SeqEqual
<1> QED BY <1>4, FlattenConcat DEF cc

-----------------------------------------------------------------------------
(***************************************************************************)
(* A text with every end of line written as LF, and the pieces a text is   *)
(* read in.                                                                *)
(***************************************************************************)
LinePart(s, p) ==
  IF s[p] = "\n" /\ p > 1 /\ s[p - 1] = "\r" THEN <<>>
  ELSE IF s[p] = "\r" THEN <<"\n">> ELSE <<s[p]>>

LineParts(s) == [p \in 1 .. Len(s) |-> LinePart(s, p)]

NormalOf(w, s) == IF w.call # "strLine" THEN s ELSE FlattenSeq(LineParts(s))

BetweenOf(w) == IF w.call = "strLine" THEN <<"\n">> ELSE w.sep

LEMMA CharsNamed == "\n" \in Chars /\ "\r" \in Chars /\ " " \in Chars
<1>1. Blanks \subseteq Chars
  BY TextAssumption, Zenon
<1> QED BY <1>1 DEF Blanks

LEMMA NormalIs ==
  ASSUME NEW s \in Seq(Chars)
  PROVE  Normal(s) = NormalOf(way, s)
BY DEF Normal, NormalOf, LineParts, LinePart

LEMMA BetweenIs == Between = BetweenOf(way)
BY DEF Between, BetweenOf

LEMMA LinePartsType ==
  ASSUME NEW s \in Seq(Chars)
  PROVE  LineParts(s) \in Seq(Seq(Chars)) /\ Len(LineParts(s)) = Len(s)
<1>1. ASSUME NEW p \in 1 .. Len(s) PROVE LinePart(s, p) \in Seq(Chars)
  <2>1. s[p] \in Chars
    OBVIOUS
  <2>2. <<>> \in Seq(Chars) /\ <<s[p]>> \in Seq(Chars) /\ <<"\n">> \in Seq(Chars)
    BY <2>1, CharsNamed, SingleType, EmptyType
  <2> QED BY <2>2, Zenon DEF LinePart
<1> QED BY <1>1 DEF LineParts

\* No end of line is split between a and b.
NotInEnd(a, b) ==
  ~ (Len(a) > 0 /\ Len(b) > 0 /\ a[Len(a)] = "\r" /\ b[1] = "\n")

LEMMA NormalConcat ==
  ASSUME NEW w \in Ways, NEW a \in Seq(Chars), NEW b \in Seq(Chars),
         w.call = "strLine" => NotInEnd(a, b)
  PROVE  NormalOf(w, Cat(a, b)) = Cat(NormalOf(w, a), NormalOf(w, b))
<1> SUFFICES ASSUME w.call = "strLine"
             PROVE  FlattenSeq(LineParts(Cat(a, b)))
                      = Cat(FlattenSeq(LineParts(a)), FlattenSeq(LineParts(b)))
  BY DEF NormalOf
<1> DEFINE c == Cat(a, b)
<1>1. /\ c \in Seq(Chars) /\ Len(c) = Len(a) + Len(b)
      /\ \A i \in 1 .. Len(a) + Len(b) :
           c[i] = IF i <= Len(a) THEN a[i] ELSE b[i - Len(a)]
  BY ConcatProperties DEF Cat
<1> HIDE DEF c
<1>2. ASSUME NEW i \in 1 .. Len(a) PROVE LineParts(c)[i] = LineParts(a)[i]
  <2>1. c[i] = a[i] /\ (i > 1 => c[i - 1] = a[i - 1])
    BY <1>1
  <2>2. LinePart(c, i) = LinePart(a, i)
    BY <2>1 DEF LinePart
  <2> QED BY <1>1, <2>2 DEF LineParts
<1>3. ASSUME NEW i \in 1 .. Len(b) PROVE LineParts(c)[Len(a) + i] = LineParts(b)[i]
  <2>1. c[Len(a) + i] = b[i]
    <3>1. Len(a) + i \in 1 .. Len(a) + Len(b) /\ ~ (Len(a) + i <= Len(a)) /\ Len(a) + i - Len(a) = i
      OBVIOUS
    <3> QED BY <1>1, <3>1
  <2>2. LinePart(c, Len(a) + i) = LinePart(b, i)
    <3>1. CASE i > 1
      <4>1. c[Len(a) + i - 1] = b[i - 1] /\ Len(a) + i > 1
        BY <1>1, <3>1
      <4> QED BY <2>1, <3>1, <4>1 DEF LinePart
    <3>2. CASE i = 1 /\ Len(a) = 0
      BY <2>1, <3>2 DEF LinePart
    <3>3. CASE i = 1 /\ Len(a) > 0
      <4>1. c[Len(a) + i - 1] = a[Len(a)]
        BY <1>1, <3>3
      <4>2. ~ (b[1] = "\n" /\ a[Len(a)] = "\r")
        BY <3>3 DEF NotInEnd
      <4> QED BY <2>1, <3>3, <4>1, <4>2 DEF LinePart
    <3> QED BY <3>1, <3>2, <3>3
  <2> QED BY <1>1, <2>2 DEF LineParts
<1>4. FlattenSeq(LineParts(c)) = Cat(FlattenSeq(LineParts(a)), FlattenSeq(LineParts(b)))
  <2>1. /\ LineParts(a) \in Seq(Seq(Chars)) /\ Len(LineParts(a)) = Len(a)
        /\ LineParts(b) \in Seq(Seq(Chars)) /\ Len(LineParts(b)) = Len(b)
        /\ LineParts(c) \in Seq(Seq(Chars)) /\ Len(LineParts(c)) = Len(a) + Len(b)
    BY <1>1, LinePartsType
  <2> DEFINE aa == LineParts(a)
             bb == LineParts(b)
             cc == LineParts(c)
  <2>2. /\ aa \in Seq(Seq(Chars)) /\ bb \in Seq(Seq(Chars)) /\ cc \in Seq(Seq(Chars))
        /\ Len(cc) = Len(aa) + Len(bb)
        /\ \A i \in 1 .. Len(aa) : cc[i] = aa[i]
        /\ \A i \in 1 .. Len(bb) : cc[Len(aa) + i] = bb[i]
    BY <1>2, <1>3, <2>1
  <2> HIDE DEF aa, bb, cc
  <2>3. FlattenSeq(cc) = Cat(FlattenSeq(aa), FlattenSeq(bb))
    BY <2>2, FlattenParts
  <2> QED BY <2>3 DEF aa, bb, cc
<1> QED BY <1>4 DEF c

\* A text without an end of line is left as it is, an end of line is LF.
LEMMA NormalField ==
  ASSUME NEW w \in Ways, NEW v \in Seq(Chars),
         w.call = "strLine" => \A p \in 1 .. Len(v) : v[p] \notin {"\r", "\n"}
  PROVE  NormalOf(w, v) = v
<1> SUFFICES ASSUME w.call = "strLine" PROVE FlattenSeq(LineParts(v)) = v
  BY DEF NormalOf
<1>1. LineParts(v) = Singles(v)
  BY DEF LineParts, LinePart, Singles
<1> QED BY <1>1, FlattenSingles

LEMMA NormalEnds ==
  ASSUME NEW w \in Ways, w.call = "strLine"
  PROVE  /\ NormalOf(w, <<"\n">>) = <<"\n">>
         /\ NormalOf(w, <<"\r">>) = <<"\n">>
         /\ NormalOf(w, <<"\r", "\n">>) = <<"\n">>
<1>1. LineParts(<<"\n">>) = << <<"\n">> >>
  BY DEF LineParts, LinePart
<1>2. LineParts(<<"\r">>) = << <<"\n">> >>
  BY DEF LineParts, LinePart
<1>3. LineParts(<<"\r", "\n">>) = Append(<< <<"\n">> >>, <<>>)
  BY DEF LineParts, LinePart
<1>4. <<"\n">> \in Seq(Chars) /\ <<>> \in Seq(Chars) /\ << <<"\n">> >> \in Seq(Seq(Chars))
  BY CharsNamed, SingleType, EmptyType
<1>5. FlattenSeq(<< <<"\n">> >>) = <<"\n">>
  BY <1>4, FlattenOne
<1>6. FlattenSeq(Append(<< <<"\n">> >>, <<>>)) = Cat(<<"\n">>, <<>>)
  BY <1>4, <1>5, FlattenAppend
<1>7. Cat(<<"\n">>, <<>>) = <<"\n">>
  BY <1>4, CatProperties
<1> QED BY <1>1, <1>2, <1>3, <1>5, <1>6, <1>7 DEF NormalOf

-----------------------------------------------------------------------------
(***************************************************************************)
(* One call of a splitter.                                                 *)
(***************************************************************************)
SepSize(w, s) ==
  [p \in 1 .. Len(s) |->
    IF w.call = "strSepParse" THEN IF s[p] = w.sep[1] THEN 1 ELSE 0
    ELSE IF w.call = "strParse" THEN IF Begins(s, p, w.sep) THEN Len(w.sep) ELSE 0
    ELSE edLnSmbSz(s, p)]

Merges(w) == w.call = "strParse" /\ w.merge
NoSep(w)  == w.call = "strParse" /\ w.sep = <<>>

LEMMA WaysAre ==
  ASSUME NEW w \in Ways
  PROVE  /\ w.call \in {"strSepParse", "strParse", "strLine"}
         /\ w.sep \in Seq(Chars)
         /\ w.merge \in BOOLEAN
         /\ w.call = "strSepParse" => Len(w.sep) = 1
         /\ w.call # "strLine" /\ ~NoSep(w) => Len(w.sep) > 0
         /\ BetweenOf(w) \in Seq(Chars)
<1>1. /\ w \in [call : {"strSepParse", "strParse", "strLine"},
                sep : Seq(Chars), merge : BOOLEAN]
      /\ w.call = "strSepParse" => Len(w.sep) = 1
  BY TextAssumption, Zenon
<1>2. w.call \in {"strSepParse", "strParse", "strLine"} /\ w.sep \in Seq(Chars)
  BY <1>1
<1>3. w.call # "strLine" /\ ~NoSep(w) => Len(w.sep) > 0
  BY <1>1, <1>2, EmptySeq DEF NoSep
<1>4. BetweenOf(w) \in Seq(Chars)
  BY <1>2, CharsNamed, SingleType DEF BetweenOf
<1> QED BY <1>1, <1>3, <1>4

LEMMA FieldIsSplit ==
  ASSUME NEW w \in Ways, NEW s \in Seq(Chars), NEW level, NEW start
  PROVE  Field(w, s, level, start) =
           IF NoSep(w) THEN [val |-> <<>>, off |-> start]
           ELSE Split(s, SepSize(w, s), Merges(w), level, start)
<1>1. DOMAIN s = 1 .. Len(s)
  OBVIOUS
<1>2. CASE w.call = "strSepParse"
  <2>1. SepSize(w, s) = [p \in DOMAIN s |-> IF s[p] = w.sep[1] THEN 1 ELSE 0]
    BY <1>1, <1>2 DEF SepSize
  <2>2. Field(w, s, level, start) = strSepParse(s, level, w.sep[1], start)
    BY <1>2 DEF Field
  <2> QED BY <1>2, <2>1, <2>2, Zenon DEF strSepParse, Merges, NoSep
<1>3. CASE w.call = "strParse"
  <2>1. SepSize(w, s) = [p \in DOMAIN s |-> IF Begins(s, p, w.sep) THEN Len(w.sep) ELSE 0]
    BY <1>1, <1>3 DEF SepSize
  <2>2. Field(w, s, level, start) = strParse(s, level, w.sep, start, w.merge)
    BY <1>3 DEF Field
  <2>3. Merges(w) = w.merge
    BY <1>3, WaysAre DEF Merges
  <2> QED BY <1>3, <2>1, <2>2, <2>3, Zenon DEF strParse, NoSep
<1>4. CASE w.call = "strLine"
  <2>1. SepSize(w, s) = [p \in DOMAIN s |-> edLnSmbSz(s, p)]
    BY <1>1, <1>4 DEF SepSize
  <2>2. Field(w, s, level, start) = strLine(s, level, start)
    BY <1>4 DEF Field
  <2> QED BY <1>4, <2>1, <2>2, Zenon DEF strLine, Merges, NoSep
<1> QED BY <1>2, <1>3, <1>4, WaysAre, Zenon

\* A piece of a text.
LEMMA PieceIs ==
  ASSUME NEW S, NEW s \in Seq(S), NEW m \in 1 .. Len(s) + 1, NEW n \in m - 1 .. Len(s)
  PROVE  /\ SubSeq(s, m, n) \in Seq(S)
         /\ Len(SubSeq(s, m, n)) = n - m + 1
         /\ \A i \in 1 .. n - m + 1 : SubSeq(s, m, n)[i] = s[m + i - 1]
<1>1. Len(s) \in Nat /\ m \in Int /\ n \in Int
  OBVIOUS
<1>2. \A i \in m .. n : s[i] \in S
  OBVIOUS
<1>3. SubSeq(s, m, n) = [i \in 1 .. n - m + 1 |-> s[m + i - 1]]
  BY <1>1
<1>4. \A i \in 1 .. n - m + 1 : s[m + i - 1] \in S
  BY <1>1, <1>2
<1> QED BY <1>1, <1>3, <1>4

LEMMA SameSeq ==
  ASSUME NEW S, NEW a \in Seq(S), NEW b \in Seq(S), Len(a) = Len(b),
         \A i \in 1 .. Len(a) : a[i] = b[i]
  PROVE  a = b
BY SeqEqual

LEMMA PieceOne ==
  ASSUME NEW S, NEW s \in Seq(S), NEW p \in 1 .. Len(s)
  PROVE  SubSeq(s, p, p) = <<s[p]>>
<1> DEFINE a == SubSeq(s, p, p)
           b == <<s[p]>>
<1>1. a \in Seq(S) /\ Len(a) = 1 /\ a[1] = s[p]
  <2>1. p \in 1 .. Len(s) + 1 /\ p \in p - 1 .. Len(s) /\ p - p + 1 = 1 /\ p + 1 - 1 = p
    OBVIOUS
  <2> QED BY <2>1, PieceIs
<1>2. b \in Seq(S) /\ Len(b) = 1 /\ b[1] = s[p]
  OBVIOUS
<1> HIDE DEF a, b
<1>3. a = b
  BY <1>1, <1>2, SameSeq
<1> QED BY <1>3 DEF a, b

LEMMA PieceTwo ==
  ASSUME NEW S, NEW s \in Seq(S), NEW p \in 1 .. Len(s) - 1
  PROVE  SubSeq(s, p, p + 1) = <<s[p], s[p + 1]>>
<1> DEFINE a == SubSeq(s, p, p + 1)
           b == <<s[p], s[p + 1]>>
<1>1. a \in Seq(S) /\ Len(a) = 2 /\ a[1] = s[p] /\ a[2] = s[p + 1]
  <2>1. /\ p \in 1 .. Len(s) + 1 /\ p + 1 \in p - 1 .. Len(s) /\ p + 1 - p + 1 = 2
        /\ p + 1 - 1 = p /\ p + 2 - 1 = p + 1
    OBVIOUS
  <2> QED BY <2>1, PieceIs
<1>2. b \in Seq(S) /\ Len(b) = 2 /\ b[1] = s[p] /\ b[2] = s[p + 1]
  <2>1. s[p] \in S /\ s[p + 1] \in S
    OBVIOUS
  <2> QED BY <2>1
<1> HIDE DEF a, b
<1>3. a = b
  <2>1. \A i \in 1 .. 2 : i = 1 \/ i = 2
    OBVIOUS
  <2>2. \A i \in 1 .. Len(a) : a[i] = b[i]
    BY <1>1, <1>2, <2>1
  <2> QED BY <1>1, <1>2, <2>2, SameSeq
<1> QED BY <1>3 DEF a, b

\* A text cut in two.
LEMMA PiecesJoin ==
  ASSUME NEW S, NEW s \in Seq(S), NEW m \in 1 .. Len(s) + 1,
         NEW n \in m - 1 .. Len(s), NEW k \in n .. Len(s)
  PROVE  SubSeq(s, m, k) = Cat(SubSeq(s, m, n), SubSeq(s, n + 1, k))
<1> DEFINE a == SubSeq(s, m, n)
           b == SubSeq(s, n + 1, k)
           c == SubSeq(s, m, k)
           d == Cat(a, b)
<1>1. /\ n + 1 \in 1 .. Len(s) + 1 /\ k \in n + 1 - 1 .. Len(s) /\ k \in m - 1 .. Len(s)
      /\ m \in Int /\ n \in Int /\ k \in Int
  OBVIOUS
<1>2. /\ a \in Seq(S) /\ Len(a) = n - m + 1
      /\ \A i \in 1 .. n - m + 1 : a[i] = s[m + i - 1]
  BY PieceIs
<1>3. /\ b \in Seq(S) /\ Len(b) = k - n
      /\ \A i \in 1 .. k - n : b[i] = s[n + i]
  <2>1. k - (n + 1) + 1 = k - n /\ \A i \in Int : n + 1 + i - 1 = n + i
    BY <1>1
  <2> QED BY <1>1, <2>1, PieceIs
<1>4. /\ c \in Seq(S) /\ Len(c) = k - m + 1
      /\ \A i \in 1 .. k - m + 1 : c[i] = s[m + i - 1]
  BY <1>1, PieceIs
<1> HIDE DEF a, b, c
<1>5. /\ d \in Seq(S) /\ Len(d) = k - m + 1
      /\ \A i \in 1 .. k - m + 1 : d[i] = IF i <= n - m + 1 THEN a[i] ELSE b[i - (n - m + 1)]
  <2>1. n - m + 1 + (k - n) = k - m + 1
    BY <1>1
  <2>2. /\ d \in Seq(S) /\ Len(d) = Len(a) + Len(b)
        /\ \A i \in 1 .. Len(a) + Len(b) : d[i] = IF i <= Len(a) THEN a[i] ELSE b[i - Len(a)]
    BY <1>2, <1>3, CatIs
  <2> QED BY <1>2, <1>3, <2>1, <2>2, Zenon
<1> HIDE DEF d
<1>6. ASSUME NEW i \in 1 .. k - m + 1 PROVE c[i] = d[i]
  <2>1. CASE i <= n - m + 1
    BY <1>1, <1>2, <1>4, <1>5, <2>1
  <2>2. CASE i > n - m + 1
    <3>1. i - (n - m + 1) \in 1 .. k - n /\ n + (i - (n - m + 1)) = m + i - 1
      BY <1>1, <2>2
    <3>2. ~ (i <= n - m + 1)
      BY <1>1, <2>2
    <3> QED BY <1>3, <1>4, <1>5, <3>1, <3>2
  <2> QED BY <1>1, <2>1, <2>2
<1>7. c = d
  BY <1>4, <1>5, <1>6, SameSeq
<1> QED BY <1>7 DEF c, d, a, b

LEMMA PieceOfPiece ==
  ASSUME NEW S, NEW s \in Seq(S), NEW m \in 1 .. Len(s) + 1, NEW n \in m - 1 .. Len(s),
         NEW p \in 1 .. n - m + 2, NEW q \in p - 1 .. n - m + 1
  PROVE  SubSeq(SubSeq(s, m, n), p, q) = SubSeq(s, m + p - 1, m + q - 1)
<1> DEFINE v == SubSeq(s, m, n)
           a == SubSeq(v, p, q)
           b == SubSeq(s, m + p - 1, m + q - 1)
<1>1. /\ v \in Seq(S) /\ Len(v) = n - m + 1
      /\ \A i \in 1 .. n - m + 1 : v[i] = s[m + i - 1]
  BY PieceIs
<1> HIDE DEF v
<1>2. /\ a \in Seq(S) /\ Len(a) = q - p + 1
      /\ \A i \in 1 .. q - p + 1 : a[i] = v[p + i - 1]
  <2>1. p \in 1 .. Len(v) + 1 /\ q \in p - 1 .. Len(v)
    BY <1>1
  <2> QED BY <1>1, <2>1, PieceIs
<1> DEFINE x == m + p - 1
           y == m + q - 1
<1>3. x \in 1 .. Len(s) + 1 /\ y \in x - 1 .. Len(s) /\ y - x + 1 = q - p + 1
  OBVIOUS
<1> HIDE DEF x, y
<1>4. /\ b \in Seq(S) /\ Len(b) = q - p + 1
      /\ \A i \in 1 .. q - p + 1 : b[i] = s[x + i - 1]
  <2>1. b = SubSeq(s, x, y)
    BY DEF x, y
  <2> HIDE DEF b
  <2> QED BY <1>3, <2>1, PieceIs
<1> HIDE DEF a, b
<1>5. ASSUME NEW i \in 1 .. q - p + 1 PROVE a[i] = b[i]
  <2>1. p + i - 1 \in 1 .. n - m + 1 /\ m + (p + i - 1) - 1 = x + i - 1
    BY DEF x
  <2>2. a[i] = v[p + i - 1] /\ b[i] = s[x + i - 1]
    BY <1>2, <1>4
  <2>3. v[p + i - 1] = s[m + (p + i - 1) - 1]
    BY <1>1, <2>1
  <2> QED BY <2>1, <2>2, <2>3
<1>6. a = b
  BY <1>2, <1>4, <1>5, SameSeq
<1> QED BY <1>6 DEF a, b, v

LEMMA OneLong ==
  ASSUME NEW S, NEW x \in Seq(S), Len(x) = 1, NEW s \in Seq(S), NEW p \in 1 .. Len(s)
  PROVE  SubSeq(s, p, p) = <<s[p]>> /\ (s[p] = x[1] <=> SubSeq(s, p, p) = x)
<1>1. SubSeq(s, p, p) = <<s[p]>>
  BY PieceOne
<1>2. x = <<x[1]>>
  <2> DEFINE y == <<x[1]>>
  <2>1. x[1] \in S
    BY ElementOfSeq
  <2>2. y \in Seq(S) /\ Len(y) = 1 /\ y[1] = x[1]
    BY <2>1
  <2>3. \A i \in 1 .. 1 : i = 1
    OBVIOUS
  <2> HIDE DEF y
  <2>4. x = y
    BY <2>2, <2>3, SameSeq
  <2> QED BY <2>4 DEF y
<1>3. <<s[p]>> = <<x[1]>> <=> s[p] = x[1]
  OBVIOUS
<1> QED BY <1>1, <1>2, <1>3, Zenon

\* Where a separator begins, and how long it is.
LEMMA SizeIs ==
  ASSUME NEW w \in Ways, NEW s \in Seq(Chars), ~NoSep(w), NEW p \in 1 .. Len(s)
  PROVE  /\ SepSize(w, s)[p] \in Nat
         /\ p + SepSize(w, s)[p] - 1 <= Len(s)
         /\ w.call = "strLine" =>
              SepSize(w, s)[p] = IF s[p] = "\r" /\ p < Len(s) /\ s[p + 1] = "\n" THEN 2
                                 ELSE IF s[p] \in {"\r", "\n"} THEN 1 ELSE 0
         /\ w.call # "strLine" =>
              SepSize(w, s)[p] = IF Begins(s, p, w.sep) THEN Len(w.sep) ELSE 0
<1>1. CASE w.call = "strLine"
  <2>1. SepSize(w, s)[p] = edLnSmbSz(s, p)
    BY <1>1 DEF SepSize
  <2> QED BY <1>1, <2>1 DEF edLnSmbSz
<1>2. CASE w.call = "strParse"
  <2>1. SepSize(w, s)[p] = IF Begins(s, p, w.sep) THEN Len(w.sep) ELSE 0
    BY <1>2 DEF SepSize
  <2>2. Len(w.sep) \in Nat
    BY WaysAre
  <2>3. Begins(s, p, w.sep) => p + Len(w.sep) - 1 <= Len(s)
    BY DEF Begins
  <2> QED BY <1>2, <2>1, <2>2, <2>3
<1>3. CASE w.call = "strSepParse"
  <2>1. SepSize(w, s)[p] = IF s[p] = w.sep[1] THEN 1 ELSE 0
    BY <1>3 DEF SepSize
  <2>2. Len(w.sep) = 1 /\ w.sep \in Seq(Chars)
    BY <1>3, WaysAre
  <2>3. s[p] = w.sep[1] <=> SubSeq(s, p, p) = w.sep
    BY <2>2, OneLong
  <2>4. p + 1 - 1 = p /\ p <= Len(s)
    OBVIOUS
  <2>5. Begins(s, p, w.sep) <=> s[p] = w.sep[1]
    BY <2>2, <2>3, <2>4 DEF Begins
  <2> QED BY <1>3, <2>1, <2>2, <2>5
<1> QED BY <1>1, <1>2, <1>3, WaysAre

LEMMA SizesType ==
  ASSUME NEW w \in Ways, NEW s \in Seq(Chars), ~NoSep(w)
  PROVE  /\ SepSize(w, s) \in Seq(Nat)
         /\ Len(SepSize(w, s)) = Len(s)
         /\ DOMAIN SepSize(w, s) = 1 .. Len(s)
<1>1. \A p \in 1 .. Len(s) : SepSize(w, s)[p] \in Nat
  BY SizeIs
<1>2. DOMAIN SepSize(w, s) = 1 .. Len(s)
  BY DEF SepSize
<1>3. SepSize(w, s) = [p \in 1 .. Len(s) |-> SepSize(w, s)[p]]
  BY DEF SepSize
<1> QED BY <1>1, <1>2, <1>3

\* A separator, written as it is expected between two fields.
LEMMA SizeIsBetween ==
  ASSUME NEW w \in Ways, NEW s \in Seq(Chars), ~NoSep(w),
         NEW p \in 1 .. Len(s), SepSize(w, s)[p] > 0
  PROVE  NormalOf(w, SubSeq(s, p, p + SepSize(w, s)[p] - 1)) = BetweenOf(w)
<1> DEFINE z == SepSize(w, s)[p]
<1>1. CASE w.call # "strLine"
  <2>1. z = Len(w.sep) /\ SubSeq(s, p, p + Len(w.sep) - 1) = w.sep
    BY <1>1, SizeIs DEF Begins
  <2> QED BY <1>1, <2>1 DEF NormalOf, BetweenOf
<1>2. CASE w.call = "strLine"
  <2>1. CASE s[p] = "\r" /\ p < Len(s) /\ s[p + 1] = "\n"
    <3>1. z = 2
      BY <1>2, <2>1, SizeIs
    <3>2. SubSeq(s, p, p + 2 - 1) = <<"\r", "\n">>
      <4>1. p \in 1 .. Len(s) - 1 /\ p + 2 - 1 = p + 1
        BY <2>1
      <4> QED BY <2>1, <4>1, PieceTwo
    <3> QED BY <1>2, <3>1, <3>2, NormalEnds DEF BetweenOf
  <2>2. CASE ~ (s[p] = "\r" /\ p < Len(s) /\ s[p + 1] = "\n")
    <3>1. z = 1 /\ s[p] \in {"\r", "\n"}
      BY <1>2, <2>2, SizeIs
    <3>2. SubSeq(s, p, p + 1 - 1) = <<s[p]>>
      <4>1. p + 1 - 1 = p
        OBVIOUS
      <4> QED BY <4>1, PieceOne
    <3> QED BY <1>2, <3>1, <3>2, NormalEnds DEF BetweenOf
  <2> QED BY <2>1, <2>2
<1> QED BY <1>1, <1>2

-----------------------------------------------------------------------------
(***************************************************************************)
(* Where the fields begin.                                                 *)
(***************************************************************************)
\* What SizesType and SizeIs say of the separators of a text.
Sizes(size) == size \in Seq(Nat) /\ \A p \in 1 .. Len(size) : p + size[p] - 1 <= Len(size)

LEMMA SizesAre ==
  ASSUME NEW w \in Ways, NEW s \in Seq(Chars), ~NoSep(w)
  PROVE  Sizes(SepSize(w, s)) /\ Len(SepSize(w, s)) = Len(s)
BY SizesType, SizeIs DEF Sizes

LEMMA NextSepIs ==
  ASSUME NEW size, Sizes(size), NEW a \in Nat \ {0}
  PROVE  \/ /\ NextSep(size, a) = 0
            /\ \A p \in a .. Len(size) : size[p] = 0
         \/ /\ NextSep(size, a) \in a .. Len(size)
            /\ size[NextSep(size, a)] > 0
            /\ \A p \in a .. NextSep(size, a) - 1 : size[p] = 0
<1> DEFINE S == {p \in DOMAIN size : p >= a /\ size[p] > 0}
<1>1. size \in Seq(Nat) /\ DOMAIN size = 1 .. Len(size) /\ Len(size) \in Nat
  BY DEF Sizes
<1>2. \A p \in 1 .. Len(size) : size[p] \in Nat
  BY <1>1
<1>3. NextSep(size, a) = FirstOf(S, 0)
  BY DEF NextSep
<1>4. S \in SUBSET Nat /\ \A p : p \in S <=> p \in a .. Len(size) /\ size[p] > 0
  BY <1>1
<1> HIDE DEF S
<1>5. CASE S = {}
  BY <1>1, <1>2, <1>3, <1>4, <1>5, FirstOfNone
<1>6. CASE S # {}
  <2>1. FirstOf(S, 0) \in S /\ \A q \in S : FirstOf(S, 0) <= q
    BY <1>4, <1>6, FirstOfLeast
  <2>2. ASSUME NEW p \in a .. FirstOf(S, 0) - 1 PROVE size[p] = 0
    <3>1. p \notin S /\ p \in a .. Len(size)
      BY <1>1, <1>4, <2>1
    <3> QED BY <1>1, <1>2, <1>4, <3>1
  <2> QED BY <1>3, <1>4, <2>1, <2>2
<1> QED BY <1>5, <1>6

\* The next field begins after the separator, at the latest behind the text.
LEMMA AfterSepIs ==
  ASSUME NEW size, Sizes(size), NEW merge \in BOOLEAN, NEW t \in 1 .. Len(size), size[t] > 0
  PROVE  AfterSep(size, merge, t) \in t + 1 .. Len(size) + 1
<1>1. size \in Seq(Nat) /\ DOMAIN size = 1 .. Len(size) /\ Len(size) \in Nat /\ size[t] \in Nat
      /\ t + size[t] - 1 <= Len(size)
  BY DEF Sizes
<1>2. CASE ~ (merge /\ size[t] = 1)
  <2>1. AfterSep(size, merge, t) = t + size[t]
    BY <1>2, Zenon DEF AfterSep
  <2> DEFINE z == size[t]
  <2>2. z \in Nat /\ z > 0 /\ t + z - 1 <= Len(size)
    BY <1>1
  <2> HIDE DEF z
  <2>3. t + z \in t + 1 .. Len(size) + 1
    BY <1>1, <2>2
  <2> QED BY <2>1, <2>3 DEF z
<1>3. CASE merge /\ size[t] = 1
  <2> DEFINE S == {p \in DOMAIN size : p >= t /\ size[p] = 0}
  <2>1. AfterSep(size, merge, t) = FirstOf(S, Len(size) + 1)
    BY <1>3 DEF AfterSep
  <2>2. S \in SUBSET Nat /\ \A p \in S : p \in t .. Len(size) /\ size[p] = 0
    BY <1>1
  <2> HIDE DEF S
  <2>3. CASE S = {}
    BY <1>1, <2>1, <2>3, FirstOfNone
  <2>4. CASE S # {}
    <3>1. FirstOf(S, Len(size) + 1) \in S
      BY <2>2, <2>4, FirstOfLeast
    <3>2. FirstOf(S, Len(size) + 1) # t
      BY <2>2, <3>1
    <3> DEFINE f == FirstOf(S, Len(size) + 1)
    <3>3. f \in t .. Len(size)
      BY <2>2, <3>1
    <3> HIDE DEF f
    <3>4. f # t => f \in t + 1 .. Len(size) + 1
      BY <1>1, <3>3
    <3> QED BY <2>1, <3>2, <3>4 DEF f
  <2> QED BY <2>3, <2>4
<1> QED BY <1>2, <1>3

NextStart(size, merge, a) ==
  IF a = 0 \/ NextSep(size, a) = 0 THEN 0 ELSE AfterSep(size, merge, NextSep(size, a))

LEMMA NextStartIs ==
  ASSUME NEW size, Sizes(size), NEW merge \in BOOLEAN, NEW a \in 0 .. Len(size) + 1
  PROVE  /\ NextStart(size, merge, a) \in 0 .. Len(size) + 1
         /\ NextStart(size, merge, a) # 0 => NextStart(size, merge, a) > a
<1>1. Len(size) \in Nat
  BY DEF Sizes
<1>2. CASE a = 0 \/ NextSep(size, a) = 0
  BY <1>1, <1>2 DEF NextStart
<1>3. CASE a # 0 /\ NextSep(size, a) # 0
  <2>1. NextSep(size, a) \in a .. Len(size) /\ size[NextSep(size, a)] > 0
    BY <1>1, <1>3, NextSepIs
  <2>2. NextSep(size, a) \in 1 .. Len(size)
    BY <1>1, <1>3, <2>1
  <2>3. AfterSep(size, merge, NextSep(size, a)) \in NextSep(size, a) + 1 .. Len(size) + 1
    BY <2>1, <2>2, AfterSepIs
  <2> QED BY <1>1, <1>3, <2>1, <2>2, <2>3 DEF NextStart
<1> QED BY <1>2, <1>3

\* The levels, from one to the next.
Starting(A, size, merge, level, start) ==
  /\ A \in [0 .. level -> 0 .. Len(size) + 1]
  /\ A[0] = start + 1
  /\ \A i \in 1 .. level : A[i] = NextStart(size, merge, A[i - 1])

LEMMA StartsAre ==
  ASSUME NEW size, Sizes(size), NEW merge \in BOOLEAN, NEW level \in Nat,
         NEW start \in 0 .. Len(size)
  PROVE  Starting(LevelStarts(size, merge, level, start), size, merge, level, start)
<1> DEFINE V == 0 .. Len(size) + 1
           step == [i \in 1 .. level |-> [a \in V |-> NextStart(size, merge, a)]]
           A == LevelStarts(size, merge, level, start)
<1>1. /\ Len(size) \in Nat /\ start + 1 \in V
      /\ step \in [1 .. level -> [V -> V]]
      /\ \A i \in 1 .. level : \A a \in V : step[i][a] = NextStart(size, merge, a)
  BY NextStartIs DEF Sizes
<1> HIDE DEF step, V
<1>2. PICK f \in [0 .. level -> V] : Recursive(f, level, start + 1, step)
  BY <1>1, RecursionExists
<1>3. ASSUME NEW i \in 0 .. level
      PROVE  f[i] = IF i = 0 THEN start + 1
                    ELSE IF f[i - 1] = 0 \/ NextSep(size, f[i - 1]) = 0 THEN 0
                    ELSE AfterSep(size, merge, NextSep(size, f[i - 1]))
  <2>1. CASE i = 0
    BY <1>2, <2>1 DEF Recursive
  <2>2. CASE i # 0
    <3>1. i \in 1 .. level /\ i - 1 \in 0 .. level
      BY <2>2
    <3>2. f[i] = step[i][f[i - 1]] /\ f[i - 1] \in V
      BY <1>2, <3>1 DEF Recursive
    <3> QED BY <1>1, <2>2, <3>1, <3>2, Zenon DEF NextStart
  <2> QED BY <2>1, <2>2
<1>4. A = [i \in 0 .. level |->
             IF i = 0 THEN start + 1
             ELSE IF A[i - 1] = 0 \/ NextSep(size, A[i - 1]) = 0 THEN 0
             ELSE AfterSep(size, merge, NextSep(size, A[i - 1]))]
  <2>1. f = [i \in 0 .. level |-> f[i]]
    BY <1>2
  <2>2. f = [i \in 0 .. level |->
             IF i = 0 THEN start + 1
             ELSE IF f[i - 1] = 0 \/ NextSep(size, f[i - 1]) = 0 THEN 0
             ELSE AfterSep(size, merge, NextSep(size, f[i - 1]))]
    BY <1>3, <2>1, Zenon
  <2> QED BY <2>2, Zenon DEF LevelStarts
<1> HIDE DEF A
<1>5. A[0] = start + 1 /\ \A i \in 1 .. level : A[i] = NextStart(size, merge, A[i - 1])
  BY <1>4 DEF NextStart
<1>6. DOMAIN A = 0 .. level
  BY <1>4
<1> DEFINE T == {n \in Nat : n <= level => A[n] \in V}
<1>7. 0 \in T
  BY <1>1, <1>5
<1>8. ASSUME NEW n \in Nat, n \in T PROVE n + 1 \in T
  <2> SUFFICES ASSUME n + 1 <= level PROVE A[n + 1] \in V
    OBVIOUS
  <2>1. A[n] \in V /\ n + 1 \in 1 .. level /\ n + 1 - 1 = n
    BY <1>8
  <2>2. A[n + 1] = NextStart(size, merge, A[n])
    BY <1>5, <2>1
  <2> QED BY <2>1, <2>2, NextStartIs DEF V
<1> HIDE DEF T
<1>9. Nat \subseteq T
  BY <1>7, <1>8, Induction
<1>10. \A i \in 0 .. level : A[i] \in V
  BY <1>9 DEF T
<1>11. A = [i \in 0 .. level |-> A[i]]
  BY <1>4, <1>6
<1>12. A \in [0 .. level -> V]
  BY <1>10, <1>11
<1> QED BY <1>5, <1>12 DEF A, V, Starting

\* The field that begins at a.
FieldAt(w, s, a) ==
  LET t == NextSep(SepSize(w, s), a)
  IN IF a = 0 THEN <<>>
     ELSE IF t = 0 THEN SubSeq(s, a, Len(s)) ELSE SubSeq(s, a, t - 1)

OffAt(w, s, a) ==
  LET t == NextSep(SepSize(w, s), a)
  IN IF a = 0 \/ t = 0 THEN Len(s) ELSE t + SepSize(w, s)[t] - 1

LEMMA FieldIs ==
  ASSUME NEW w \in Ways, NEW s \in Seq(Chars), ~NoSep(w),
         NEW level \in Nat, NEW start \in 0 .. Len(s) - 1
  PROVE  LET a == LevelStarts(SepSize(w, s), Merges(w), level, start)[level]
         IN Field(w, s, level, start) = [val |-> FieldAt(w, s, a), off |-> OffAt(w, s, a)]
<1> DEFINE z == SepSize(w, s)
           a == LevelStarts(z, Merges(w), level, start)[level]
           t == NextSep(z, a)
<1>1. Field(w, s, level, start) = Split(s, z, Merges(w), level, start)
  BY FieldIsSplit, Zenon
<1>2. Sizes(z) /\ Len(z) = Len(s) /\ Len(s) \in Nat /\ Merges(w) \in BOOLEAN
  BY SizesAre DEF Merges
<1>3. a \in 0 .. Len(s) + 1
  <2>1. start \in 0 .. Len(z) /\ level \in 0 .. level
    BY <1>2
  <2>2. Starting(LevelStarts(z, Merges(w), level, start), z, Merges(w), level, start)
    BY <1>2, <2>1, StartsAre
  <2>3. LevelStarts(z, Merges(w), level, start) \in [0 .. level -> 0 .. Len(z) + 1]
    BY <2>2 DEF Starting
  <2> QED BY <1>2, <2>1, <2>3
<1> HIDE DEF a
<1>4. a # 0 => t \in Nat
  BY <1>2, <1>3, NextSepIs DEF t
<1>5. start < Len(s) /\ ~ (start >= Len(s)) /\ (a > 0 <=> a # 0) /\ (a # 0 => (t > 0 <=> t # 0))
  BY <1>2, <1>3, <1>4
<1> HIDE DEF t
<1>6. Split(s, z, Merges(w), level, start) =
        IF a = 0 THEN [val |-> <<>>, off |-> Len(s)]
        ELSE IF t = 0 THEN [val |-> From(s, a), off |-> Len(s)]
        ELSE [val |-> SubSeq(s, a, t - 1), off |-> t + z[t] - 1]
  BY <1>5 DEF Split, a, t
<1> QED BY <1>1, <1>6, Zenon DEF FieldAt, OffAt, From, a, t

LEMMA FieldOnwards ==
  ASSUME NEW w \in Ways, NEW s \in Seq(Chars), ~NoSep(w), NEW start \in 0 .. Len(s) - 1
  PROVE  Field(w, s, 0, start) =
           [val |-> FieldAt(w, s, start + 1), off |-> OffAt(w, s, start + 1)]
<1>1. Sizes(SepSize(w, s)) /\ start \in 0 .. Len(SepSize(w, s)) /\ Merges(w) \in BOOLEAN
  BY SizesAre DEF Merges
<1> DEFINE level == 0
           z == SepSize(w, s)
<1>2. LevelStarts(z, Merges(w), level, start)[0] = start + 1
  <2>1. level \in Nat
    OBVIOUS
  <2> HIDE DEF level, z
  <2>2. Starting(LevelStarts(z, Merges(w), level, start), z, Merges(w), level, start)
    BY <1>1, <2>1, StartsAre DEF z
  <2> QED BY <2>2 DEF Starting
<1> QED BY <1>2, FieldIs

\* Where the field that begins at a ends.
EndAt(w, s, a) ==
  LET t == NextSep(SepSize(w, s), a) IN IF t = 0 THEN Len(s) ELSE t - 1

\* A field has none of the positions at which a separator begins.
LEMMA FieldHasNone ==
  ASSUME NEW w \in Ways, NEW s \in Seq(Chars), ~NoSep(w), NEW a \in 1 .. Len(s) + 1
  PROVE  /\ EndAt(w, s, a) \in a - 1 .. Len(s)
         /\ FieldAt(w, s, a) = SubSeq(s, a, EndAt(w, s, a))
         /\ \A p \in a .. EndAt(w, s, a) : SepSize(w, s)[p] = 0
<1> DEFINE z == SepSize(w, s)
           t == NextSep(z, a)
<1>1. Sizes(z) /\ Len(z) = Len(s) /\ Len(s) \in Nat /\ a \in Nat \ {0} /\ a # 0
  BY SizesAre
<1> HIDE DEF z
<1>2. \/ t = 0 /\ \A p \in a .. Len(s) : z[p] = 0
      \/ t \in a .. Len(s) /\ \A p \in a .. t - 1 : z[p] = 0
  BY <1>1, NextSepIs
<1>3. EndAt(w, s, a) = IF t = 0 THEN Len(s) ELSE t - 1
  BY DEF EndAt, z
<1>4. FieldAt(w, s, a) = IF t = 0 THEN SubSeq(s, a, Len(s)) ELSE SubSeq(s, a, t - 1)
  BY <1>1 DEF FieldAt, z
<1> HIDE DEF t
<1> QED BY <1>1, <1>2, <1>3, <1>4 DEF z

LEMMA FieldHoldsNone ==
  ASSUME NEW w \in Ways, NEW s \in Seq(Chars), ~NoSep(w), NEW a \in 1 .. Len(s) + 1
  PROVE  /\ FieldAt(w, s, a) \in Seq(Chars)
         /\ ~Holds(FieldAt(w, s, a), BetweenOf(w))
         /\ NormalOf(w, FieldAt(w, s, a)) = FieldAt(w, s, a)
         /\ w.call = "strLine" =>
              \A i \in 1 .. Len(FieldAt(w, s, a)) : FieldAt(w, s, a)[i] \notin {"\r", "\n"}
<1> DEFINE v == FieldAt(w, s, a)
           e == EndAt(w, s, a)
<1>1. /\ e \in a - 1 .. Len(s) /\ v = SubSeq(s, a, e)
      /\ \A p \in a .. e : SepSize(w, s)[p] = 0
  BY FieldHasNone
<1> HIDE DEF v, e
<1>2. v \in Seq(Chars) /\ Len(v) = e - a + 1 /\ \A i \in 1 .. Len(v) : v[i] = s[a + i - 1]
  BY <1>1, PieceIs
<1>3. \A i \in 1 .. Len(v) : a + i - 1 \in 1 .. Len(s) /\ SepSize(w, s)[a + i - 1] = 0
  BY <1>1, <1>2
<1>4. CASE w.call = "strLine"
  <2>1. \A i \in 1 .. Len(v) : v[i] \notin {"\r", "\n"}
    <3> SUFFICES ASSUME NEW i \in 1 .. Len(v) PROVE v[i] \notin {"\r", "\n"}
      OBVIOUS
    <3>1. v[i] = s[a + i - 1] /\ a + i - 1 \in 1 .. Len(s) /\ SepSize(w, s)[a + i - 1] = 0
      BY <1>2, <1>3
    <3> DEFINE p == a + i - 1
    <3> HIDE DEF p
    <3>2. v[i] = s[p] /\ p \in 1 .. Len(s) /\ SepSize(w, s)[p] = 0
      BY <3>1 DEF p
    <3> QED BY <1>4, <3>2, SizeIs
  <2>2. BetweenOf(w) = <<"\n">> /\ Len(<<"\n">>) = 1
    BY <1>4 DEF BetweenOf
  <2>3. ASSUME NEW i \in 1 .. Len(v), Begins(v, i, <<"\n">>) PROVE FALSE
    <3>1. SubSeq(v, i, i + 1 - 1) = <<"\n">> /\ i + 1 - 1 = i
      BY <2>2, <2>3 DEF Begins
    <3>2. SubSeq(v, i, i) = <<v[i]>>
      BY <1>2, PieceOne
    <3>3. <<v[i]>> = <<"\n">>
      BY <3>1, <3>2, Zenon
    <3>4. v[i] = "\n"
      BY <3>3
    <3> QED BY <2>1, <3>4
  <2>4. DOMAIN v = 1 .. Len(v)
    BY <1>2
  <2>5. ~Holds(v, BetweenOf(w))
    BY <2>2, <2>3, <2>4 DEF Holds
  <2>6. NormalOf(w, v) = v
    BY <1>2, <2>1, NormalField
  <2> QED BY <1>2, <2>1, <2>5, <2>6 DEF v
<1>5. CASE w.call # "strLine"
  <2>1. BetweenOf(w) = w.sep /\ w.sep \in Seq(Chars) /\ Len(w.sep) \in Nat /\ Len(w.sep) > 0
    BY <1>5, WaysAre DEF BetweenOf
  <2> DEFINE n == Len(w.sep)
  <2>2. ASSUME NEW i \in 1 .. Len(v), Begins(v, i, w.sep) PROVE FALSE
    <3>1. i + n - 1 <= Len(v) /\ SubSeq(v, i, i + n - 1) = w.sep /\ n \in Nat /\ n > 0
      BY <2>1, <2>2 DEF Begins
    <3> HIDE DEF n
    <3>2. i \in 1 .. e - a + 2 /\ i + n - 1 \in i - 1 .. e - a + 1
      BY <1>1, <1>2, <3>1
    <3>3. SubSeq(v, i, i + n - 1) = SubSeq(s, a + i - 1, a + (i + n - 1) - 1)
      <4> DEFINE j == i + n - 1
      <4>1. i \in 1 .. e - a + 2 /\ j \in i - 1 .. e - a + 1
        BY <3>2
      <4> HIDE DEF j
      <4>2. SubSeq(SubSeq(s, a, e), i, j) = SubSeq(s, a + i - 1, a + j - 1)
        <5>1. e \in a - 1 .. Len(s)
          BY <1>1
        <5> QED BY <4>1, <5>1, PieceOfPiece
      <4>3. v = SubSeq(s, a, e)
        BY <1>1
      <4> HIDE DEF v
      <4> QED BY <4>2, <4>3, Zenon DEF j
    <3> DEFINE p == a + i - 1
    <3>4. a + (i + n - 1) - 1 = p + n - 1 /\ p + n - 1 <= Len(s) /\ p \in 1 .. Len(s)
          /\ SepSize(w, s)[p] = 0
      <4>1. a + (i + n - 1) - 1 = p + n - 1 /\ p + n - 1 <= Len(s)
        BY <1>1, <1>2, <3>1
      <4> QED BY <1>3, <4>1
    <3> HIDE DEF p
    <3>5. Begins(s, p, w.sep)
      BY <3>1, <3>3, <3>4 DEF Begins, n, p
    <3>6. SepSize(w, s)[p] = n
      BY <1>5, <3>4, <3>5, SizeIs DEF n
    <3> QED BY <3>1, <3>4, <3>6
  <2>3. DOMAIN v = 1 .. Len(v)
    BY <1>2
  <2>4. ~Holds(v, BetweenOf(w))
    BY <2>1, <2>2, <2>3 DEF Holds
  <2>5. NormalOf(w, v) = v
    BY <1>5 DEF NormalOf
  <2> QED BY <1>2, <1>5, <2>4, <2>5 DEF v
<1> QED BY <1>4, <1>5

\* Position p does not cut an end of line in two.
Uncut(w, s, p) ==
  w.call = "strLine" /\ p > 0 /\ p < Len(s) => ~ (s[p] = "\r" /\ s[p + 1] = "\n")

\* What has been read after one more field: the field, and the separator that
\* follows it unless the text ends there.
LEMMA ReadOne ==
  ASSUME NEW w \in Ways, NEW s \in Seq(Chars), ~NoSep(w),
         NEW start \in 0 .. Len(s) - 1, Uncut(w, s, start)
  PROVE  LET val == FieldAt(w, s, start + 1)
             end == OffAt(w, s, start + 1)
             old == NormalOf(w, SubSeq(s, 1, start))
             new == NormalOf(w, SubSeq(s, 1, end))
         IN /\ end \in start + 1 .. Len(s)
            /\ Uncut(w, s, end)
            /\ \/ new = Cat(Cat(old, val), BetweenOf(w))
               \/ new = Cat(old, val) /\ end = Len(s)
<1> DEFINE z == SepSize(w, s)
           a == start + 1
           e == EndAt(w, s, a)
           val == FieldAt(w, s, a)
           end == OffAt(w, s, a)
           pre == SubSeq(s, 1, start)
           t   == NextSep(z, a)
<1>1. Sizes(z) /\ Len(z) = Len(s) /\ Len(s) \in Nat /\ a \in Nat \ {0} /\ a # 0
      /\ a \in 1 .. Len(s) /\ a \in 1 .. Len(s) + 1 /\ start \in Nat /\ start + 1 = a
  BY SizesAre
<1>2. \/ t = 0
      \/ t \in a .. Len(s) /\ z[t] > 0
  <2> HIDE DEF z, a
  <2> QED BY <1>1, NextSepIs
<1> HIDE DEF a
<1>3. e \in a - 1 .. Len(s) /\ val = SubSeq(s, a, e)
  BY <1>1, FieldHasNone
<1>4. /\ val \in Seq(Chars) /\ NormalOf(w, val) = val
      /\ w.call = "strLine" => \A i \in 1 .. Len(val) : val[i] \notin {"\r", "\n"}
  BY <1>1, FieldHoldsNone
<1>5. e = IF t = 0 THEN Len(s) ELSE t - 1
  BY DEF EndAt
<1>6. end = IF t = 0 THEN Len(s) ELSE t + z[t] - 1
  BY <1>1 DEF OffAt
<1> HIDE DEF z, t, e, val, end
<1>7. pre \in Seq(Chars) /\ Len(pre) = start /\ \A i \in 1 .. start : pre[i] = s[i]
  <2>1. 1 \in 1 .. Len(s) + 1 /\ start \in 1 - 1 .. Len(s) /\ start - 1 + 1 = start
    BY <1>1
  <2> QED BY <2>1, PieceIs
\* the part before the field, and the field
<1>8. /\ SubSeq(s, 1, e) = Cat(pre, val)
      /\ NormalOf(w, SubSeq(s, 1, e)) = Cat(NormalOf(w, pre), val)
      /\ SubSeq(s, 1, e) \in Seq(Chars) /\ Len(SubSeq(s, 1, e)) = e
      /\ \A i \in 1 .. e : SubSeq(s, 1, e)[i] = s[i]
  <2>1. 1 \in 1 .. Len(s) + 1 /\ start \in 1 - 1 .. Len(s) /\ e \in start .. Len(s)
        /\ e \in 1 - 1 .. Len(s)
    BY <1>1, <1>3
  <2>2. SubSeq(s, 1, e) = Cat(pre, val)
    BY <1>1, <1>3, <2>1, PiecesJoin
  <2>3. w.call = "strLine" => NotInEnd(pre, val)
    <3> SUFFICES ASSUME w.call = "strLine", Len(pre) > 0, Len(val) > 0,
                        pre[Len(pre)] = "\r", val[1] = "\n"
                 PROVE  FALSE
      BY DEF NotInEnd
    <3>1. 1 \in 1 .. Len(val)
      BY <1>4
    <3> QED BY <1>4, <3>1
  <2>4. NormalOf(w, Cat(pre, val)) = Cat(NormalOf(w, pre), NormalOf(w, val))
    BY <1>4, <1>7, <2>3, NormalConcat
  <2>5. SubSeq(s, 1, e) \in Seq(Chars) /\ Len(SubSeq(s, 1, e)) = e
        /\ \A i \in 1 .. e : SubSeq(s, 1, e)[i] = s[i]
    <3>1. e - 1 + 1 = e /\ \A i \in 1 .. e : 1 + i - 1 = i
      BY <1>1, <1>3
    <3> QED BY <2>1, <3>1, PieceIs
  <2> QED BY <1>4, <2>2, <2>4, <2>5
<1>9. CASE t = 0
  <2>1. end = Len(s) /\ e = Len(s)
    BY <1>5, <1>6, <1>9
  <2>2. Uncut(w, s, end)
    BY <1>1, <2>1 DEF Uncut
  <2> QED BY <1>1, <1>8, <2>1, <2>2 DEF val, end, a
<1>10. CASE t # 0
  <2> DEFINE n == z[t]
             sep == SubSeq(s, t, t + n - 1)
             got == SubSeq(s, 1, e)
  <2>1. t \in a .. Len(s) /\ t \in 1 .. Len(s) /\ n \in Nat /\ n > 0 /\ t + n - 1 <= Len(s)
        /\ e = t - 1 /\ end = t + n - 1 /\ e + 1 = t
    <3>1. t \in a .. Len(s) /\ t \in 1 .. Len(s)
      BY <1>1, <1>2, <1>10
    <3>2. n \in Nat /\ t + n - 1 <= Len(s)
      BY <3>1, SizeIs DEF z
    <3> QED BY <1>2, <1>5, <1>6, <1>10, <3>1, <3>2
  <2>2. NormalOf(w, sep) = BetweenOf(w)
    BY <2>1, SizeIsBetween DEF z
  <2>3. w.call = "strLine" =>
          n = IF s[t] = "\r" /\ t < Len(s) /\ s[t + 1] = "\n" THEN 2
              ELSE IF s[t] \in {"\r", "\n"} THEN 1 ELSE 0
    BY <2>1, SizeIs DEF z
  <2> HIDE DEF n
  <2>4. 1 \in 1 .. Len(s) + 1 /\ e \in 1 - 1 .. Len(s) /\ end \in e .. Len(s)
        /\ t \in 1 .. Len(s) + 1 /\ end \in t - 1 .. Len(s) /\ end \in start + 1 .. Len(s)
    BY <1>1, <2>1
  <2>5. SubSeq(s, 1, end) = Cat(got, sep)
    BY <2>1, <2>4, PiecesJoin
  <2>6. sep \in Seq(Chars) /\ sep[1] = s[t]
    <3>1. sep = SubSeq(s, t, end) /\ 1 \in 1 .. end - t + 1 /\ t + 1 - 1 = t
      BY <2>1
    <3> HIDE DEF sep
    <3> QED BY <2>4, <3>1, PieceIs
  <2> HIDE DEF sep
  <2>7. w.call = "strLine" => NotInEnd(got, sep)
    <3> SUFFICES ASSUME w.call = "strLine", Len(got) > 0, got[Len(got)] = "\r", sep[1] = "\n"
                 PROVE  FALSE
      BY DEF NotInEnd
    <3>1. e > 0 /\ s[e] = "\r" /\ s[e + 1] = "\n" /\ e < Len(s)
      BY <1>3, <1>8, <2>1, <2>6
    <3>2. CASE e = start
      BY <3>1, <3>2 DEF Uncut
    <3>3. CASE e # start
      <4>1. e - a + 1 \in 1 .. Len(val) /\ val[e - a + 1] = s[e]
        <5>1. e - a + 1 \in 1 .. e - a + 1 /\ a + (e - a + 1) - 1 = e
          BY <1>1, <1>3, <3>3
        <5> QED BY <1>1, <1>3, <5>1, PieceIs
      <4> QED BY <1>4, <3>1, <4>1
    <3> QED BY <3>2, <3>3
  <2>8. NormalOf(w, Cat(got, sep)) = Cat(NormalOf(w, got), NormalOf(w, sep))
    BY <1>8, <2>6, <2>7, NormalConcat
  <2>9. Uncut(w, s, end)
    <3> SUFFICES ASSUME w.call = "strLine", end < Len(s), s[end] = "\r", s[end + 1] = "\n"
                 PROVE  FALSE
      BY DEF Uncut
    <3>1. CASE s[t] = "\r" /\ t < Len(s) /\ s[t + 1] = "\n"
      <4>1. end = t + 1
        BY <2>1, <2>3, <3>1
      <4> QED BY <3>1, <4>1
    <3>2. CASE ~ (s[t] = "\r" /\ t < Len(s) /\ s[t + 1] = "\n")
      <4>1. end = t
        BY <2>1, <2>3, <3>2
      <4> QED BY <3>2, <4>1
    <3> QED BY <3>1, <3>2
  <2>10. NormalOf(w, SubSeq(s, 1, end)) = Cat(Cat(NormalOf(w, pre), val), BetweenOf(w))
    BY <1>8, <2>2, <2>5, <2>8
  <2> QED BY <2>4, <2>9, <2>10 DEF val, end, a
<1> QED BY <1>9, <1>10

-----------------------------------------------------------------------------
(***************************************************************************)
(* Reading field by field.                                                 *)
(***************************************************************************)
GlueParts(list, between) ==
  [k \in 1 .. Len(list) |-> IF k = 1 THEN list[k] ELSE Cat(between, list[k])]

LEMMA GluedIs ==
  ASSUME NEW list \in Seq(Seq(Chars)), NEW between \in Seq(Chars)
  PROVE  /\ Glued(list, between) = FlattenSeq(GlueParts(list, between))
         /\ GlueParts(list, between) \in Seq(Seq(Chars))
         /\ Len(GlueParts(list, between)) = Len(list)
         /\ Glued(list, between) \in Seq(Chars)
<1>1. DOMAIN list = 1 .. Len(list)
  OBVIOUS
<1>2. Glued(list, between) = FlattenSeq(GlueParts(list, between))
  BY <1>1 DEF Glued, GlueParts, Cat
<1>3. ASSUME NEW k \in 1 .. Len(list)
      PROVE  (IF k = 1 THEN list[k] ELSE Cat(between, list[k])) \in Seq(Chars)
  <2>1. list[k] \in Seq(Chars)
    BY ElementOfSeq
  <2>2. Cat(between, list[k]) \in Seq(Chars)
    BY <2>1, CatIs
  <2> QED BY <2>1, <2>2, Zenon
<1>4. GlueParts(list, between) \in Seq(Seq(Chars)) /\ Len(GlueParts(list, between)) = Len(list)
  BY <1>3 DEF GlueParts
<1> QED BY <1>2, <1>4, FlattenType

LEMMA GluedAppend ==
  ASSUME NEW list \in Seq(Seq(Chars)), NEW between \in Seq(Chars), NEW v \in Seq(Chars)
  PROVE  Glued(Append(list, v), between) =
           IF list = <<>> THEN v ELSE Cat(Glued(list, between), Cat(between, v))
<1> DEFINE new == Append(list, v)
           n   == Len(list)
           x   == IF n = 0 THEN v ELSE Cat(between, v)
           old == GlueParts(list, between)
           a   == GlueParts(new, between)
           b   == Append(old, x)
<1>1. /\ new \in Seq(Seq(Chars)) /\ Len(new) = n + 1 /\ n \in Nat /\ new[n + 1] = v
      /\ \A k \in 1 .. n : new[k] = list[k]
  OBVIOUS
<1>2. x \in Seq(Chars)
  BY CatIs
<1>3. old \in Seq(Seq(Chars)) /\ Len(old) = n
  BY GluedIs
<1>4. a \in Seq(Seq(Chars)) /\ Len(a) = n + 1
  <2> HIDE DEF new, n
  <2> QED BY <1>1, GluedIs
<1>5. ASSUME NEW k \in 1 .. n PROVE a[k] = old[k]
  BY <1>1 DEF GlueParts
<1>6. a[n + 1] = x
  <2>1. n + 1 \in 1 .. Len(new) /\ (n + 1 = 1 <=> n = 0)
    BY <1>1
  <2>2. a[n + 1] = IF n + 1 = 1 THEN new[n + 1] ELSE Cat(between, new[n + 1])
    BY <2>1 DEF GlueParts
  <2> QED BY <1>1, <2>1, <2>2, Zenon
<1> HIDE DEF new, n, x, old, a
<1>7. b \in Seq(Seq(Chars)) /\ Len(b) = n + 1 /\ b[n + 1] = x /\ \A k \in 1 .. n : b[k] = old[k]
  BY <1>2, <1>3, AppendProperties
<1> HIDE DEF b
<1>8. a = b
  <2>1. \A k \in 1 .. n + 1 : k \in 1 .. n \/ k = n + 1
    BY <1>1
  <2>2. \A k \in 1 .. Len(a) : a[k] = b[k]
    BY <1>4, <1>5, <1>6, <1>7, <2>1
  <2> QED BY <1>4, <1>7, <2>2, SameSeq
<1>9. FlattenSeq(b) = Cat(FlattenSeq(old), x)
  BY <1>2, <1>3, FlattenAppend DEF b
<1>10. Glued(new, between) = FlattenSeq(a) /\ Glued(list, between) = FlattenSeq(old)
  BY <1>1, GluedIs DEF a, old
<1>11. CASE list = <<>>
  <2>1. x = v /\ old = <<>>
    <3>1. n = 0
      BY <1>11 DEF n
    <3> QED BY <1>3, <3>1, EmptySeq DEF x
  <2>2. FlattenSeq(old) = <<>> /\ Cat(<<>>, v) = v
    BY <2>1, FlattenEmpty, CatProperties
  <2> QED BY <1>8, <1>9, <1>10, <1>11, <2>1, <2>2 DEF new
<1>12. CASE list # <<>>
  <2>1. n # 0
    BY <1>12, EmptySeq DEF n
  <2> QED BY <1>8, <1>9, <1>10, <1>12, <2>1, Zenon DEF x, new
<1> QED BY <1>11, <1>12

\* What has been read as long as the text does not end: the fields, with a
\* separator behind each.
Heads(list, between) ==
  IF list = <<>> THEN <<>> ELSE Cat(Glued(list, between), between)

LEMMA GluedNext ==
  ASSUME NEW list \in Seq(Seq(Chars)), NEW between \in Seq(Chars), NEW v \in Seq(Chars)
  PROVE  /\ Glued(Append(list, v), between) = Cat(Heads(list, between), v)
         /\ Heads(Append(list, v), between) = Cat(Cat(Heads(list, between), v), between)
<1>1. Append(list, v) # <<>>
  OBVIOUS
<1>2. Glued(Append(list, v), between) = Cat(Heads(list, between), v)
  <2>1. CASE list = <<>>
    <3>1. Cat(<<>>, v) = v
      BY CatProperties
    <3> QED BY <2>1, <3>1, GluedAppend, Zenon DEF Heads
  <2>2. CASE list # <<>>
    <3>1. Glued(list, between) \in Seq(Chars)
      BY GluedIs
    <3>2. Cat(Glued(list, between), Cat(between, v)) = Cat(Cat(Glued(list, between), between), v)
      BY <3>1, CatProperties
    <3> QED BY <2>2, <3>2, GluedAppend, Zenon DEF Heads
  <2> QED BY <2>1, <2>2
<1> QED BY <1>1, <1>2, Zenon DEF Heads

ReadInv ==
  /\ text \in Texts /\ way \in Ways
  /\ fields \in Seq(Seq(Chars))
  /\ off \in 0 .. Len(text)
  /\ NoSep(way) => off = 0 /\ \A k \in 1 .. Len(fields) : fields[k] = <<>>
  /\ ~NoSep(way) =>
       /\ Uncut(way, text, off)
       /\ \A k \in 1 .. Len(fields) : ~Holds(fields[k], BetweenOf(way))
       /\ \/ NormalOf(way, SubSeq(text, 1, off)) = Heads(fields, BetweenOf(way))
          \/ /\ off = Len(text)
             /\ NormalOf(way, SubSeq(text, 1, off)) = Glued(fields, BetweenOf(way))

LEMMA NothingRead ==
  ASSUME NEW w \in Ways, NEW s \in Seq(Chars)
  PROVE  SubSeq(s, 1, 0) = <<>> /\ NormalOf(w, SubSeq(s, 1, 0)) = <<>>
<1>1. SubSeq(s, 1, 0) = <<>>
  BY SubSeqEmpty
<1>2. LineParts(<<>>) = <<>>
  BY DEF LineParts
<1> QED BY <1>1, <1>2, FlattenEmpty DEF NormalOf

LEMMA ReadInvInit == TextInit => ReadInv
<1> SUFFICES ASSUME TextInit PROVE ReadInv
  OBVIOUS
<1>1. /\ text \in Texts /\ way \in Ways /\ off = 0 /\ fields = <<>>
      /\ text \in Seq(Chars) /\ Len(text) \in Nat
  BY TextsType DEF TextInit
<1>2. Uncut(way, text, off)
  BY <1>1 DEF Uncut
<1>3. NormalOf(way, SubSeq(text, 1, off)) = Heads(fields, BetweenOf(way))
  BY <1>1, NothingRead DEF Heads
<1>4. fields \in Seq(Seq(Chars)) /\ Len(fields) = 0
  BY <1>1
<1> QED BY <1>1, <1>2, <1>3, <1>4 DEF ReadInv

LEMMA ReadInvStep == ReadInv /\ [ReadField]_textVars => ReadInv'
<1> SUFFICES ASSUME ReadInv, [ReadField]_textVars PROVE ReadInv'
  OBVIOUS
<1>1. CASE UNCHANGED textVars
  BY <1>1 DEF textVars, ReadInv, Uncut, NormalOf, LineParts, LinePart, Heads, Glued,
              BetweenOf, NoSep, Holds, Begins
<1>2. CASE ReadField
  <2> DEFINE f == Field(way, text, 0, off)
             B == BetweenOf(way)
             done == NormalOf(way, SubSeq(text, 1, off))
  <2>1. /\ off < Len(text) /\ fields' = Append(fields, f.val) /\ off' = f.off
        /\ text' = text /\ way' = way
    BY <1>2 DEF ReadField
  <2>2. /\ text \in Texts /\ way \in Ways /\ text \in Seq(Chars) /\ Len(text) \in Nat
        /\ fields \in Seq(Seq(Chars)) /\ off \in 0 .. Len(text) /\ off \in 0 .. Len(text) - 1
        /\ B \in Seq(Chars)
    BY <2>1, TextsType, WaysAre DEF ReadInv
  <2>3. CASE NoSep(way)
    <3>1. f = [val |-> <<>>, off |-> off]
      BY <2>2, <2>3, FieldIsSplit
    <3>2. fields' = Append(fields, <<>>) /\ off' = off /\ off = 0
          /\ \A k \in 1 .. Len(fields) : fields[k] = <<>>
      BY <2>1, <2>3, <3>1 DEF ReadInv
    <3>3. <<>> \in Seq(Chars)
      BY EmptyType
    <3>4. fields' \in Seq(Seq(Chars)) /\ \A k \in 1 .. Len(fields') : fields'[k] = <<>>
      BY <2>2, <3>2, <3>3
    <3>5. NoSep(way)'
      BY <2>1, <2>3 DEF NoSep
    <3> QED BY <2>1, <2>2, <3>2, <3>4, <3>5 DEF ReadInv
  <2>4. CASE ~NoSep(way)
    <3> DEFINE v == FieldAt(way, text, off + 1)
               e == OffAt(way, text, off + 1)
               new == NormalOf(way, SubSeq(text, 1, e))
    <3>1. f.val = v /\ f.off = e
      <4>1. f = [val |-> v, off |-> e]
        BY <2>2, <2>4, FieldOnwards
      <4> HIDE DEF f, v, e
      <4> QED BY <4>1
    <3>2. /\ e \in off + 1 .. Len(text) /\ Uncut(way, text, e)
          /\ \/ new = Cat(Cat(done, v), B)
             \/ new = Cat(done, v) /\ e = Len(text)
      <4>1. Uncut(way, text, off)
        BY <2>4 DEF ReadInv
      <4> QED BY <2>2, <2>4, <4>1, ReadOne
    <3>3. v \in Seq(Chars) /\ ~Holds(v, B)
      <4>1. off + 1 \in 1 .. Len(text) + 1
        BY <2>2
      <4> QED BY <2>2, <2>4, <4>1, FieldHoldsNone
    <3> HIDE DEF f, v
    <3>4. fields' = Append(fields, v) /\ off' = e
      BY <2>1, <3>1
    <3>5. done = Heads(fields, B)
      BY <2>1, <2>4 DEF ReadInv
    <3>6. \/ new = Heads(Append(fields, v), B)
          \/ new = Glued(Append(fields, v), B) /\ e = Len(text)
      BY <2>2, <3>2, <3>3, <3>5, GluedNext
    <3>7. /\ fields' \in Seq(Seq(Chars))
          /\ \A k \in 1 .. Len(fields') : ~Holds(fields'[k], B)
      <4>1. \A k \in 1 .. Len(fields) : ~Holds(fields[k], B)
        BY <2>4 DEF ReadInv
      <4> HIDE DEF B
      <4> QED BY <2>2, <3>3, <3>4, <4>1
    <3> HIDE DEF e
    <3>8. off' \in 0 .. Len(text)'
      BY <2>1, <2>2, <3>2, <3>4
    <3>9. ~NoSep(way)'
      BY <2>1, <2>4 DEF NoSep
    <3>10. BetweenOf(way)' = B
      BY <2>1 DEF BetweenOf
    <3>11. NormalOf(way, SubSeq(text, 1, off))' = new
      BY <2>1, <3>4 DEF NormalOf, LineParts, LinePart
    <3>12. Heads(fields, BetweenOf(way))' = Heads(Append(fields, v), B)
           /\ Glued(fields, BetweenOf(way))' = Glued(Append(fields, v), B)
      BY <3>4, <3>10 DEF Heads, Glued
    <3>13. Uncut(way, text, off)'
      BY <2>1, <3>2, <3>4 DEF Uncut
    <3>14. (\A k \in 1 .. Len(fields) : ~Holds(fields[k], BetweenOf(way)))'
      BY <3>7, <3>10 DEF Holds, Begins
    <3> HIDE DEF B, new
    <3> QED BY <2>1, <2>2, <3>4, <3>6, <3>7, <3>8, <3>9, <3>11, <3>12, <3>13, <3>14 DEF ReadInv
  <2> QED BY <2>3, <2>4
<1> QED BY <1>1, <1>2

LEMMA ReadInvAlways == TextSpec => []ReadInv
BY ReadInvInit, ReadInvStep, PTL DEF TextSpec

LEMMA ReadInvReadsBack == ReadInv => FieldsReadBack
<1> SUFFICES ASSUME ReadInv, fields # <<>> PROVE FieldsReadBack
  BY DEF FieldsReadBack
<1> DEFINE B == BetweenOf(way)
           read == SubSeq(text, 1, off)
<1>1. /\ way \in Ways /\ text \in Seq(Chars) /\ Len(text) \in Nat /\ off \in 0 .. Len(text)
      /\ fields \in Seq(Seq(Chars)) /\ DOMAIN fields = 1 .. Len(fields) /\ B \in Seq(Chars)
  BY TextsType, WaysAre DEF ReadInv
<1>2. Between = B
  BY BetweenIs
<1>3. Normal(read) = NormalOf(way, read)
  <2>1. read \in Seq(Chars)
    BY <1>1, PieceIs
  <2> QED BY <2>1, NormalIs
<1> HIDE DEF B, read
<1>4. Glued(fields, B) \in Seq(Chars)
  BY <1>1, GluedIs
<1>5. CASE NoSep(way)
  <2>1. off = 0 /\ \A k \in 1 .. Len(fields) : fields[k] = <<>>
    BY <1>5 DEF ReadInv
  <2>2. B = <<>>
    BY <1>5 DEF B, BetweenOf, NoSep
  <2>3. GlueParts(fields, B) = [k \in 1 .. Len(fields) |-> <<>>]
    <3>1. Cat(<<>>, <<>>) = <<>>
      BY EmptyType, CatProperties
    <3> QED BY <2>1, <2>2, <3>1 DEF GlueParts
  <2>4. Glued(fields, B) = <<>>
    <3>1. Len(fields) \in Nat
      BY <1>1
    <3> QED BY <1>1, <2>3, <3>1, GluedIs, FlattenNothing
  <2>5. Normal(read) = <<>>
    BY <1>1, <1>3, <2>1, NothingRead DEF read
  <2>6. \A k \in DOMAIN fields : ~Holds(fields[k], B)
    BY <1>1, <2>1 DEF Holds
  <2> QED BY <1>2, <2>4, <2>5, <2>6 DEF FieldsReadBack, read
<1>6. CASE ~NoSep(way)
  <2>1. \/ Normal(read) = Cat(Glued(fields, B), B)
        \/ Normal(read) = Glued(fields, B)
    BY <1>3, <1>6 DEF ReadInv, Heads, B, read
  <2>2. \A k \in DOMAIN fields : ~Holds(fields[k], B)
    BY <1>1, <1>6 DEF ReadInv, B
  <2> QED BY <1>2, <2>1, <2>2 DEF FieldsReadBack, read, Cat
<1> QED BY <1>5, <1>6

\* strSepParse, strParse and strLine (t_stropt.cpp:296, 341, 397): for every
\* text and every separator, the fields that are read with `off` and a
\* separator between each two are what has been read, and no field holds one.
THEOREM FieldsReadBackAlways == TextSpec => []FieldsReadBack
BY ReadInvAlways, ReadInvReadsBack, PTL

-----------------------------------------------------------------------------
(***************************************************************************)
(* The field at a level.                                                   *)
(***************************************************************************)
\* Where the field at a level begins, 0 if there is none.
StartOf(size, merge, level) == LevelStarts(size, merge, level, 0)[level]

LEMMA StartOfIs ==
  ASSUME NEW size, Sizes(size), NEW merge \in BOOLEAN
  PROVE  /\ StartOf(size, merge, 0) = 1
         /\ \A n \in Nat : StartOf(size, merge, n) \in 0 .. Len(size) + 1
         /\ \A n \in Nat : StartOf(size, merge, n + 1) = NextStart(size, merge, StartOf(size, merge, n))
<1> DEFINE A(n) == LevelStarts(size, merge, n, 0)
           step == [i \in Nat |-> [a \in 0 .. Len(size) + 1 |-> NextStart(size, merge, a)]]
<1>1. Len(size) \in Nat /\ 0 \in 0 .. Len(size)
  BY DEF Sizes
<1>2. ASSUME NEW n \in Nat
      PROVE  /\ A(n) \in [0 .. n -> 0 .. Len(size) + 1]
             /\ A(n)[0] = 1
             /\ \A i \in 1 .. n : A(n)[i] = NextStart(size, merge, A(n)[i - 1])
  <2> DEFINE start == 0
             B     == LevelStarts(size, merge, n, start)
  <2>1. start \in 0 .. Len(size) /\ start + 1 = 1
    BY <1>1
  <2> HIDE DEF start
  <2>2. Starting(B, size, merge, n, start)
    BY <2>1, StartsAre
  <2>3. A(n) = B
    BY DEF start
  <2> HIDE DEF A, B
  <2> QED BY <2>1, <2>2, <2>3 DEF Starting
<1> HIDE DEF A
<1>3. ASSUME NEW n \in Nat, NEW m \in n .. n + 1 PROVE Recursive(A(m), n, 1, step)
  <2>0. m \in Nat
    OBVIOUS
  <2>1. A(m) \in [0 .. m -> 0 .. Len(size) + 1] /\ A(m)[0] = 1
    BY <1>2, <2>0
  <2>2. ASSUME NEW i \in 1 .. n PROVE A(m)[i] = step[i][A(m)[i - 1]]
    <3>1. i \in 1 .. m /\ i - 1 \in 0 .. m
      OBVIOUS
    <3>2. A(m)[i - 1] \in 0 .. Len(size) + 1
      BY <2>1, <3>1
    <3>3. A(m)[i] = NextStart(size, merge, A(m)[i - 1])
      BY <1>2, <2>0, <3>1
    <3>4. i \in Nat
      OBVIOUS
    <3> QED BY <3>2, <3>3, <3>4
  <2> QED BY <2>1, <2>2 DEF Recursive
<1>4. ASSUME NEW n \in Nat PROVE A(n + 1)[n] = A(n)[n]
  <2>1. n \in n .. n + 1 /\ n + 1 \in n .. n + 1 /\ n \in 0 .. n
    OBVIOUS
  <2>2. Recursive(A(n), n, 1, step) /\ Recursive(A(n + 1), n, 1, step)
    BY <1>3, <2>1
  <2>3. Alike(step, step, 1, n)
    BY DEF Alike
  <2> HIDE DEF step
  <2>4. Alike(A(n + 1), A(n), 0, n)
    BY <2>2, <2>3, RecursionUnique
  <2> QED BY <2>1, <2>4 DEF Alike
<1>5. ASSUME NEW n \in Nat PROVE A(n + 1)[n + 1] = NextStart(size, merge, A(n)[n])
  <2>1. n + 1 \in 1 .. n + 1 /\ n + 1 - 1 = n /\ n + 1 \in Nat
    OBVIOUS
  <2>2. A(n + 1)[n + 1] = NextStart(size, merge, A(n + 1)[n + 1 - 1])
    BY <1>2, <2>1
  <2> QED BY <1>4, <2>1, <2>2
<1>6. ASSUME NEW n \in Nat PROVE A(n)[n] \in 0 .. Len(size) + 1
  <2>1. n \in 0 .. n /\ A(n) \in [0 .. n -> 0 .. Len(size) + 1]
    BY <1>2
  <2> QED BY <2>1
<1>7. A(0)[0] = 1
  BY <1>2
<1> QED BY <1>5, <1>6, <1>7 DEF StartOf, A

LEMMA FieldOfLevel ==
  ASSUME NEW w \in Ways, NEW s \in Seq(Chars), ~NoSep(w), Len(s) > 0, NEW level \in Nat
  PROVE  Field(w, s, level, 0).val = FieldAt(w, s, StartOf(SepSize(w, s), Merges(w), level))
<1>1. 0 \in 0 .. Len(s) - 1
  OBVIOUS
<1> DEFINE v == FieldAt(w, s, LevelStarts(SepSize(w, s), Merges(w), level, 0)[level])
           o == OffAt(w, s, LevelStarts(SepSize(w, s), Merges(w), level, 0)[level])
<1>2. Field(w, s, level, 0) = [val |-> v, off |-> o]
  BY <1>1, FieldIs
<1> HIDE DEF v, o
<1>3. Field(w, s, level, 0).val = v
  BY <1>2
<1> QED BY <1>3 DEF v, StartOf

\* A run of separators of one character is one separator.
MergesOne(w) == Merges(w) /\ Len(w.sep) = 1

\* Unless runs are merged the next level begins where reading goes on.
LEMMA LevelFollows ==
  ASSUME NEW w \in Ways, NEW s \in Seq(Chars), ~NoSep(w), ~MergesOne(w),
         NEW a \in 1 .. Len(s), OffAt(w, s, a) < Len(s)
  PROVE  NextStart(SepSize(w, s), Merges(w), a) = OffAt(w, s, a) + 1
<1> DEFINE z == SepSize(w, s)
           t == NextSep(z, a)
<1>1. Sizes(z) /\ Len(z) = Len(s) /\ Len(s) \in Nat /\ a # 0 /\ a \in Nat \ {0}
  BY SizesAre
<1>2. OffAt(w, s, a) = IF t = 0 THEN Len(s) ELSE t + z[t] - 1
  BY <1>1 DEF OffAt
<1>3. t # 0
  BY <1>1, <1>2
<1>4. t \in 1 .. Len(s) /\ z[t] > 0
  <2> HIDE DEF z
  <2>1. t \in a .. Len(z) /\ z[t] > 0
    BY <1>1, <1>3, NextSepIs
  <2> QED BY <1>1, <2>1
<1>5. z[t] \in Nat /\ ~ (Merges(w) /\ z[t] = 1)
  <2> HIDE DEF t
  <2>1. z[t] \in Nat
    BY <1>4, SizeIs
  <2>2. Merges(w) => z[t] = Len(w.sep)
    <3> SUFFICES ASSUME Merges(w) PROVE z[t] = Len(w.sep)
      OBVIOUS
    <3>1. w.call # "strLine"
      BY DEF Merges
    <3> QED BY <1>4, <3>1, SizeIs
  <2> QED BY <2>1, <2>2 DEF MergesOne
<1>6. NextStart(z, Merges(w), a) = t + z[t]
  BY <1>1, <1>3, <1>5, Zenon DEF NextStart, AfterSep
<1> HIDE DEF z, t
<1>7. t + z[t] = t + z[t] - 1 + 1
  BY <1>4, <1>5
<1> QED BY <1>2, <1>3, <1>6, <1>7 DEF z

LevelInv ==
  ~NoSep(way) /\ ~MergesOne(way) =>
    /\ fields # <<>> => Len(text) > 0
    /\ \A k \in 1 .. Len(fields) :
         fields[k] = FieldAt(way, text, StartOf(SepSize(way, text), Merges(way), k - 1))
    /\ off < Len(text) =>
         StartOf(SepSize(way, text), Merges(way), Len(fields)) = off + 1

LEMMA LevelInvInit == TextInit => LevelInv
<1> SUFFICES ASSUME TextInit, ~NoSep(way), ~MergesOne(way) PROVE LevelInv
  BY DEF LevelInv
<1>1. /\ way \in Ways /\ text \in Seq(Chars) /\ off = 0 /\ fields = <<>> /\ Len(fields) = 0
  BY TextsType DEF TextInit
<1>2. StartOf(SepSize(way, text), Merges(way), 0) = 1
  <2>1. Sizes(SepSize(way, text)) /\ Merges(way) \in BOOLEAN
    BY <1>1, SizesAre DEF Merges
  <2> QED BY <2>1, StartOfIs
<1> QED BY <1>1, <1>2 DEF LevelInv

LEMMA LevelInvStep == ReadInv /\ LevelInv /\ [ReadField]_textVars => LevelInv'
<1> SUFFICES ASSUME ReadInv, LevelInv, [ReadField]_textVars PROVE LevelInv'
  OBVIOUS
<1> DEFINE St(k) == StartOf(SepSize(way, text), Merges(way), k)
           n == Len(fields)
<1>1. text' = text /\ way' = way
  BY DEF ReadField, textVars
<1>2. /\ NoSep(way)' = NoSep(way) /\ MergesOne(way)' = MergesOne(way)
      /\ \A k : StartOf(SepSize(way, text), Merges(way), k)' = St(k)
      /\ \A k : FieldAt(way, text, St(k))' = FieldAt(way, text, St(k))
  BY <1>1 DEF NoSep, MergesOne, Merges, StartOf, SepSize, Begins, edLnSmbSz, LevelStarts,
              NextSep, AfterSep, FieldAt
<1>3. CASE UNCHANGED textVars
  BY <1>1, <1>2, <1>3 DEF textVars, LevelInv
<1>4. CASE ReadField /\ ~NoSep(way) /\ ~MergesOne(way)
  <2> DEFINE v == FieldAt(way, text, off + 1)
             e == OffAt(way, text, off + 1)
  <2>1. /\ text \in Seq(Chars) /\ way \in Ways /\ off \in 0 .. Len(text) - 1 /\ Len(text) \in Nat
        /\ fields \in Seq(Seq(Chars)) /\ n \in Nat /\ off + 1 \in 1 .. Len(text)
    BY <1>4, TextsType DEF ReadInv, ReadField
  <2>2. fields' = Append(fields, v) /\ off' = e
    <3>1. Field(way, text, 0, off) = [val |-> v, off |-> e]
      BY <1>4, <2>1, FieldOnwards
    <3> HIDE DEF v, e
    <3> QED BY <1>4, <3>1 DEF ReadField
  <2>3. v \in Seq(Chars)
    <3>1. off + 1 \in 1 .. Len(text) + 1
      BY <2>1
    <3> QED BY <1>4, <2>1, <3>1, FieldHoldsNone
  <2>4. St(n) = off + 1 /\ \A k \in 1 .. n : fields[k] = FieldAt(way, text, St(k - 1))
    BY <1>4, <2>1 DEF LevelInv
  <2>5. Sizes(SepSize(way, text)) /\ Merges(way) \in BOOLEAN
    BY <1>4, <2>1, SizesAre DEF Merges
  <2>6. e < Len(text) => St(n + 1) = e + 1
    <3> SUFFICES ASSUME e < Len(text) PROVE St(n + 1) = e + 1
      OBVIOUS
    <3>1. St(n + 1) = NextStart(SepSize(way, text), Merges(way), St(n))
      BY <2>1, <2>5, StartOfIs
    <3>2. NextStart(SepSize(way, text), Merges(way), off + 1) = e + 1
      BY <1>4, <2>1, LevelFollows
    <3> QED BY <2>4, <3>1, <3>2
  <2> HIDE DEF e
  <2>7. v = FieldAt(way, text, St(n))
    BY <2>4
  <2> HIDE DEF v, St
  <2>8. Len(fields') = n + 1 /\ fields'[n + 1] = v /\ \A k \in 1 .. n : fields'[k] = fields[k]
    BY <2>1, <2>2, <2>3, AppendProperties
  <2> HIDE DEF n
  <2>9. \A k \in 1 .. n + 1 : fields'[k] = FieldAt(way, text, St(k - 1))
    <3> SUFFICES ASSUME NEW k \in 1 .. n + 1
                 PROVE  fields'[k] = FieldAt(way, text, St(k - 1))
      OBVIOUS
    <3>1. CASE k \in 1 .. n
      <4>1. fields'[k] = fields[k]
        BY <2>8, <3>1, Zenon
      <4>2. fields[k] = FieldAt(way, text, St(k - 1))
        BY <2>4, <3>1, Zenon
      <4> QED BY <4>1, <4>2, Zenon
    <3>2. CASE k = n + 1
      <4>1. k - 1 = n
        BY <2>1, <3>2
      <4>2. fields'[k] = v
        BY <2>8, <3>2
      <4>3. St(k - 1) = St(n)
        BY <4>1
      <4> QED BY <2>7, <4>2, <4>3
    <3> QED BY <2>1, <3>1, <3>2
  <2>10. (\A k \in 1 .. Len(fields) :
            fields[k] = FieldAt(way, text, StartOf(SepSize(way, text), Merges(way), k - 1)))'
    BY <1>1, <1>2, <2>8, <2>9 DEF St
  <2>11. (off < Len(text) =>
            StartOf(SepSize(way, text), Merges(way), Len(fields)) = off + 1)'
    BY <1>1, <1>2, <2>2, <2>6, <2>8 DEF St
  <2>12. (Len(text) > 0)'
    BY <1>1, <2>1
  <2> QED BY <2>10, <2>11, <2>12 DEF LevelInv
<1>5. CASE NoSep(way) \/ MergesOne(way)
  BY <1>2, <1>5 DEF LevelInv
<1> QED BY <1>3, <1>4, <1>5

LEMMA LevelInvAlways == TextSpec => [](ReadInv /\ LevelInv)
<1>1. TextInit => ReadInv /\ LevelInv
  BY ReadInvInit, LevelInvInit
<1>2. ReadInv /\ LevelInv /\ [ReadField]_textVars => (ReadInv /\ LevelInv)'
  BY ReadInvStep, LevelInvStep
<1> QED BY <1>1, <1>2, PTL DEF TextSpec

-----------------------------------------------------------------------------
(***************************************************************************)
(* A text in which each run of a separator is one.                         *)
(***************************************************************************)
SqueezePart(s, c, p) == IF p > 1 /\ s[p] = c /\ s[p - 1] = c THEN <<>> ELSE <<s[p]>>
SqueezeParts(s, c)   == [p \in 1 .. Len(s) |-> SqueezePart(s, c, p)]

LEMMA SqueezedIs ==
  ASSUME NEW s \in Seq(Chars), NEW c \in Chars
  PROVE  /\ Squeezed(s, c) = FlattenSeq(SqueezeParts(s, c))
         /\ SqueezeParts(s, c) \in Seq(Seq(Chars))
         /\ Len(SqueezeParts(s, c)) = Len(s)
         /\ Squeezed(s, c) \in Seq(Chars)
<1>1. DOMAIN s = 1 .. Len(s)
  OBVIOUS
<1>2. Squeezed(s, c) = FlattenSeq(SqueezeParts(s, c))
  BY <1>1 DEF Squeezed, SqueezeParts, SqueezePart
<1>3. ASSUME NEW p \in 1 .. Len(s) PROVE SqueezePart(s, c, p) \in Seq(Chars)
  <2>1. s[p] \in Chars
    OBVIOUS
  <2>2. <<>> \in Seq(Chars) /\ <<s[p]>> \in Seq(Chars)
    BY <2>1, SingleType, EmptyType
  <2> QED BY <2>2, Zenon DEF SqueezePart
<1>4. SqueezeParts(s, c) \in Seq(Seq(Chars)) /\ Len(SqueezeParts(s, c)) = Len(s)
  BY <1>3 DEF SqueezeParts
<1> QED BY <1>2, <1>4, FlattenType

LEMMA SqueezedConcat ==
  ASSUME NEW c \in Chars, NEW a \in Seq(Chars), NEW b \in Seq(Chars),
         ~ (Len(a) > 0 /\ Len(b) > 0 /\ a[Len(a)] = c /\ b[1] = c)
  PROVE  Squeezed(Cat(a, b), c) = Cat(Squeezed(a, c), Squeezed(b, c))
<1> DEFINE s  == Cat(a, b)
           aa == SqueezeParts(a, c)
           bb == SqueezeParts(b, c)
           ss == SqueezeParts(s, c)
<1>1. /\ s \in Seq(Chars) /\ Len(s) = Len(a) + Len(b) /\ Len(a) \in Nat /\ Len(b) \in Nat
      /\ \A i \in 1 .. Len(a) + Len(b) :
           s[i] = IF i <= Len(a) THEN a[i] ELSE b[i - Len(a)]
  <2>1. Len(a) \in Nat /\ Len(b) \in Nat
    OBVIOUS
  <2> QED BY <2>1, CatIs
<1> HIDE DEF s
<1>2. ASSUME NEW i \in 1 .. Len(a) PROVE ss[i] = aa[i]
  <2>1. s[i] = a[i] /\ (i > 1 => s[i - 1] = a[i - 1]) /\ i \in 1 .. Len(s)
    BY <1>1
  <2>2. SqueezePart(s, c, i) = SqueezePart(a, c, i)
    BY <2>1 DEF SqueezePart
  <2> QED BY <2>1, <2>2 DEF SqueezeParts
<1>3. ASSUME NEW i \in 1 .. Len(b) PROVE ss[Len(a) + i] = bb[i]
  <2> DEFINE p == Len(a) + i
  <2>1. p \in 1 .. Len(a) + Len(b) /\ p \in 1 .. Len(s) /\ ~ (p <= Len(a)) /\ p - Len(a) = i
    BY <1>1
  <2>2. /\ i > 1 => p > 1 /\ p - 1 \in 1 .. Len(a) + Len(b) /\ ~ (p - 1 <= Len(a))
                    /\ p - 1 - Len(a) = i - 1
        /\ i = 1 => p - 1 = Len(a)
    BY <1>1
  <2> HIDE DEF p
  <2>3. s[p] = b[i]
    BY <1>1, <2>1
  <2>4. SqueezePart(s, c, p) = SqueezePart(b, c, i)
    <3>1. CASE i > 1
      <4>1. s[p - 1] = b[i - 1]
        BY <1>1, <2>2, <3>1
      <4> QED BY <2>2, <2>3, <3>1, <4>1 DEF SqueezePart
    <3>2. CASE i = 1 /\ Len(a) = 0
      BY <2>1, <2>2, <2>3, <3>2 DEF SqueezePart
    <3>3. CASE i = 1 /\ Len(a) > 0
      <4>1. s[p - 1] = a[Len(a)]
        BY <1>1, <2>2, <3>3
      <4>2. ~ (s[p] = c /\ s[p - 1] = c)
        BY <1>1, <2>3, <3>3, <4>1
      <4> QED BY <2>3, <3>3, <4>2 DEF SqueezePart
    <3> QED BY <1>1, <3>1, <3>2, <3>3
  <2> QED BY <2>1, <2>4 DEF SqueezeParts, p
<1>4. /\ aa \in Seq(Seq(Chars)) /\ Len(aa) = Len(a) /\ Squeezed(a, c) = FlattenSeq(aa)
      /\ bb \in Seq(Seq(Chars)) /\ Len(bb) = Len(b) /\ Squeezed(b, c) = FlattenSeq(bb)
      /\ ss \in Seq(Seq(Chars)) /\ Len(ss) = Len(a) + Len(b) /\ Squeezed(s, c) = FlattenSeq(ss)
  BY <1>1, SqueezedIs
<1> HIDE DEF aa, bb, ss
<1>5. FlattenSeq(ss) = Cat(FlattenSeq(aa), FlattenSeq(bb))
  <2>1. /\ aa \in Seq(Seq(Chars)) /\ bb \in Seq(Seq(Chars)) /\ ss \in Seq(Seq(Chars))
        /\ Len(ss) = Len(aa) + Len(bb)
        /\ \A i \in 1 .. Len(aa) : ss[i] = aa[i]
        /\ \A i \in 1 .. Len(bb) : ss[Len(aa) + i] = bb[i]
    BY <1>2, <1>3, <1>4
  <2> QED BY <2>1, FlattenParts
<1> QED BY <1>4, <1>5 DEF s

\* Without a separator nothing changes; of a run one separator is left.
LEMMA SqueezedNone ==
  ASSUME NEW c \in Chars, NEW a \in Seq(Chars), \A p \in 1 .. Len(a) : a[p] # c
  PROVE  Squeezed(a, c) = a
<1>1. SqueezeParts(a, c) = Singles(a)
  BY DEF SqueezeParts, SqueezePart, Singles
<1> QED BY <1>1, SqueezedIs, FlattenSingles

LEMMA SqueezedRun ==
  ASSUME NEW c \in Chars, NEW a \in Seq(Chars), Len(a) > 0, \A p \in 1 .. Len(a) : a[p] = c
  PROVE  Squeezed(a, c) = <<c>>
<1> DEFINE one  == << <<c>> >>
           n    == Len(a) - 1
           none == [p \in 1 .. n |-> <<>>]
           ss   == SqueezeParts(a, c)
<1>1. n \in Nat /\ Len(a) = 1 + n /\ <<c>> \in Seq(Chars)
  OBVIOUS
<1>2. one \in Seq(Seq(Chars)) /\ Len(one) = 1 /\ one[1] = <<c>> /\ FlattenSeq(one) = <<c>>
  <2>1. FlattenSeq(one) = <<c>>
    BY <1>1, FlattenOne
  <2> HIDE DEF one
  <2>2. one \in Seq(Seq(Chars))
    BY <1>1, SingleType DEF one
  <2> QED BY <2>1, <2>2 DEF one
<1>3. none \in Seq(Seq(Chars)) /\ FlattenSeq(none) = <<>>
  <2> HIDE DEF n
  <2> QED BY <1>1, FlattenNothing
<1>4. Len(none) = n /\ \A i \in 1 .. n : none[i] = <<>>
  BY <1>1
<1>5. ss \in Seq(Seq(Chars)) /\ Len(ss) = 1 + n /\ Squeezed(a, c) = FlattenSeq(ss)
  BY <1>1, SqueezedIs
<1>6. ss[1] = <<c>>
  BY DEF SqueezeParts, SqueezePart
<1>7. \A i \in 1 .. n : ss[1 + i] = <<>>
  <2> SUFFICES ASSUME NEW i \in 1 .. n PROVE ss[1 + i] = <<>>
    OBVIOUS
  <2>1. 1 + i \in 1 .. Len(a) /\ 1 + i > 1 /\ 1 + i - 1 \in 1 .. Len(a)
    OBVIOUS
  <2> QED BY <2>1 DEF SqueezeParts, SqueezePart
<1> HIDE DEF one, n, none, ss
<1>8. FlattenSeq(ss) = Cat(FlattenSeq(one), FlattenSeq(none))
  <2>1. \A i \in 1 .. Len(one) : ss[i] = one[i]
    <3>1. Len(one) = 1 /\ one[1] = <<c>>
      BY <1>2
    <3>2. \A i \in 1 .. Len(one) : i = 1
      BY <3>1
    <3> QED BY <1>6, <3>1, <3>2, Zenon
  <2>2. \A i \in 1 .. Len(none) : ss[Len(one) + i] = none[i]
    BY <1>2, <1>4, <1>7
  <2>3. /\ one \in Seq(Seq(Chars)) /\ none \in Seq(Seq(Chars)) /\ ss \in Seq(Seq(Chars))
        /\ Len(ss) = Len(one) + Len(none)
    BY <1>2, <1>3, <1>4, <1>5
  <2> QED BY <2>1, <2>2, <2>3, FlattenParts
<1>9. Cat(<<c>>, <<>>) = <<c>>
  BY <1>1, CatProperties
<1> QED BY <1>2, <1>3, <1>5, <1>8, <1>9

\* What does not begin with a separator does not afterwards either.
LEMMA SqueezedBegins ==
  ASSUME NEW c \in Chars, NEW a \in Seq(Chars), Len(a) > 0, a[1] # c
  PROVE  Len(Squeezed(a, c)) > 0 /\ Squeezed(a, c)[1] = a[1]
<1> DEFINE x == SubSeq(a, 1, 1)
           y == SubSeq(a, 2, Len(a))
<1>1. /\ 1 \in 1 .. Len(a) + 1 /\ 1 \in 1 - 1 .. Len(a) /\ Len(a) \in 1 .. Len(a)
      /\ 1 + 1 = 2 /\ 2 \in 1 .. Len(a) + 1 /\ Len(a) \in 2 - 1 .. Len(a) /\ 1 \in 1 .. Len(a)
  OBVIOUS
<1>2. a = SubSeq(a, 1, Len(a))
  <2> DEFINE b == SubSeq(a, 1, Len(a))
  <2>1. Len(a) \in 1 - 1 .. Len(a) /\ Len(a) - 1 + 1 = Len(a) /\ \A i \in 1 .. Len(a) : 1 + i - 1 = i
    OBVIOUS
  <2>2. b \in Seq(Chars) /\ Len(b) = Len(a) /\ \A i \in 1 .. Len(a) : b[i] = a[i]
    BY <1>1, <2>1, PieceIs
  <2> HIDE DEF b
  <2>3. a = b
    BY <2>2, SameSeq
  <2> QED BY <2>3 DEF b
<1>3. SubSeq(a, 1, Len(a)) = Cat(x, y)
  BY <1>1, PiecesJoin
<1>4. x = <<a[1]>> /\ x \in Seq(Chars) /\ y \in Seq(Chars)
  BY <1>1, PieceOne, PieceIs
<1>5. Len(x) = 1 /\ x[1] = a[1]
  <2> HIDE DEF x
  <2> QED BY <1>4
<1> HIDE DEF x, y
<1>6. Squeezed(Cat(x, y), c) = Cat(Squeezed(x, c), Squeezed(y, c))
  BY <1>4, <1>5, SqueezedConcat
<1>7. Squeezed(x, c) = x
  <2>1. \A p \in 1 .. Len(x) : x[p] # c
    BY <1>5
  <2> QED BY <1>4, <2>1, SqueezedNone
<1>8. Squeezed(y, c) \in Seq(Chars)
  BY <1>4, SqueezedIs
<1> DEFINE z == Squeezed(y, c)
           r == Cat(x, z)
<1>9. Squeezed(a, c) = r
  BY <1>2, <1>3, <1>6, <1>7
<1> HIDE DEF z
<1>10. Len(r) = 1 + Len(z) /\ Len(z) \in Nat /\ r[1] = x[1]
  <2>1. z \in Seq(Chars) /\ Len(z) \in Nat /\ 1 \in 1 .. 1 + Len(z)
    BY <1>8 DEF z
  <2>2. /\ Len(r) = Len(x) + Len(z)
        /\ \A i \in 1 .. Len(x) + Len(z) : r[i] = IF i <= Len(x) THEN x[i] ELSE z[i - Len(x)]
    <3>1. x \in Seq(Chars) /\ z \in Seq(Chars)
      BY <1>4, <2>1
    <3> QED BY <3>1, CatIs
  <2> HIDE DEF r
  <2>3. r[1] = IF 1 <= Len(x) THEN x[1] ELSE z[1 - Len(x)]
    BY <1>5, <2>1, <2>2
  <2> QED BY <1>5, <2>1, <2>2, <2>3
<1> HIDE DEF r
<1> QED BY <1>5, <1>9, <1>10

LEMMA MergedSizes ==
  ASSUME NEW w \in Ways, MergesOne(w), NEW s \in Seq(Chars)
  PROVE  /\ ~NoSep(w) /\ Merges(w) = TRUE /\ w.sep[1] \in Chars
         /\ \A p \in 1 .. Len(s) : SepSize(w, s)[p] = IF s[p] = w.sep[1] THEN 1 ELSE 0
<1>1. w.call = "strParse" /\ w.merge /\ Len(w.sep) = 1 /\ w.sep \in Seq(Chars)
  BY WaysAre DEF MergesOne, Merges
<1>2. w.merge = TRUE
  BY <1>1, WaysAre
<1>3. w.sep # <<>> /\ w.sep[1] \in Chars
  <2>1. Len(<<>>) = 0 /\ 1 \in 1 .. 1
    OBVIOUS
  <2>2. w.sep # <<>>
    <3> SUFFICES ASSUME w.sep = <<>> PROVE FALSE
      OBVIOUS
    <3>1. Len(w.sep) = 0
      BY <2>1, Zenon
    <3> QED BY <1>1, <3>1
  <2>3. w.sep[1] \in Chars
    BY <1>1, <2>1, ElementOfSeq
  <2> QED BY <2>2, <2>3
<1>4. Merges(w) = TRUE /\ ~NoSep(w)
  BY <1>1, <1>2, <1>3 DEF Merges, NoSep
<1>5. ASSUME NEW p \in 1 .. Len(s)
      PROVE  SepSize(w, s)[p] = IF s[p] = w.sep[1] THEN 1 ELSE 0
  <2>1. SepSize(w, s)[p] = IF Begins(s, p, w.sep) THEN 1 ELSE 0
    BY <1>1, <1>4, SizeIs
  <2>2. s[p] = w.sep[1] <=> SubSeq(s, p, p) = w.sep
    BY <1>1, OneLong
  <2>3. p + 1 - 1 = p /\ p <= Len(s)
    OBVIOUS
  <2>4. Begins(s, p, w.sep) <=> s[p] = w.sep[1]
    BY <1>1, <2>2, <2>3 DEF Begins
  <2> QED BY <2>1, <2>4
<1> QED BY <1>3, <1>4, <1>5

\* Where a field ends and the next begins.
MergedNext(w, s, a, t, b) ==
  /\ EndAt(w, s, a) = t - 1
  /\ NextStart(SepSize(w, s), Merges(w), a) = b
  /\ t \in a .. Len(s) /\ b \in t + 1 .. Len(s) + 1
  /\ \A p \in a .. t - 1 : s[p] # w.sep[1]
  /\ \A p \in t .. b - 1 : s[p] = w.sep[1]
  /\ b <= Len(s) => s[b] # w.sep[1]

MergedLast(w, s, a) ==
  /\ EndAt(w, s, a) = Len(s)
  /\ NextStart(SepSize(w, s), Merges(w), a) = 0
  /\ \A p \in a .. Len(s) : s[p] # w.sep[1]

LEMMA MergedNextIs ==
  ASSUME NEW w \in Ways, MergesOne(w), NEW s \in Seq(Chars), NEW a \in 1 .. Len(s) + 1
  PROVE  MergedLast(w, s, a) \/ \E t, b \in Nat : MergedNext(w, s, a, t, b)
<1> DEFINE z == SepSize(w, s)
           c == w.sep[1]
           t == NextSep(z, a)
           b == NextStart(z, Merges(w), a)
<1>1. /\ ~NoSep(w) /\ Merges(w) = TRUE
      /\ \A p \in 1 .. Len(s) : z[p] = IF s[p] = c THEN 1 ELSE 0
  BY MergedSizes
<1>2. Sizes(z) /\ Len(z) = Len(s) /\ Len(s) \in Nat /\ a # 0 /\ a \in Nat \ {0}
      /\ z \in Seq(Nat) /\ DOMAIN z = 1 .. Len(s)
  BY <1>1, SizesAre DEF Sizes
<1>3. EndAt(w, s, a) = IF t = 0 THEN Len(s) ELSE t - 1
  BY DEF EndAt
<1>4. b = IF t = 0 THEN 0 ELSE AfterSep(z, TRUE, t)
  BY <1>1, <1>2, Zenon DEF NextStart
<1> HIDE DEF z
<1>5. \/ t = 0 /\ \A p \in a .. Len(s) : z[p] = 0
      \/ t \in a .. Len(s) /\ z[t] > 0 /\ \A p \in a .. t - 1 : z[p] = 0
  BY <1>2, NextSepIs
<1> HIDE DEF c, t, b
<1>6. CASE t = 0
  <2>1. \A p \in a .. Len(s) : s[p] # c
    <3> SUFFICES ASSUME NEW p \in a .. Len(s) PROVE s[p] # c
      OBVIOUS
    <3>1. p \in 1 .. Len(s) /\ z[p] = 0
      BY <1>2, <1>5, <1>6
    <3> QED BY <1>1, <3>1
  <2> QED BY <1>3, <1>4, <1>6, <2>1 DEF MergedLast, b, z, c
<1>7. CASE t # 0
  <2> DEFINE S == {p \in DOMAIN z : p >= t /\ z[p] = 0}
  <2>1. t \in a .. Len(s) /\ t \in 1 .. Len(s) /\ z[t] > 0 /\ \A p \in a .. t - 1 : z[p] = 0
    BY <1>2, <1>5, <1>7
  <2>2. s[t] = c /\ z[t] = 1
    BY <1>1, <2>1
  <2>3. b = FirstOf(S, Len(s) + 1)
    BY <1>2, <1>4, <1>7, <2>2 DEF AfterSep
  <2>4. S \in SUBSET Nat /\ \A p : p \in S <=> p \in t .. Len(s) /\ z[p] = 0
    BY <1>2, <2>1
  <2> HIDE DEF S
  <2>5. b \in t + 1 .. Len(s) + 1 /\ (\A p \in t .. b - 1 : p \notin S) /\ (b <= Len(s) => b \in S)
    <3>1. CASE S = {}
      <4>1. b = Len(s) + 1
        BY <2>3, <3>1, FirstOfNone
      <4> QED BY <1>2, <2>1, <3>1, <4>1
    <3>2. CASE S # {}
      <4>1. b \in S /\ \A q \in S : b <= q
        BY <2>3, <2>4, <3>2, FirstOfLeast
      <4>2. b # t
        BY <2>2, <2>4, <4>1
      <4>3. b \in t .. Len(s)
        BY <2>4, <4>1
      <4>4. \A p \in t .. b - 1 : p \notin S
        BY <1>2, <2>1, <4>1, <4>3
      <4> QED BY <1>2, <2>1, <4>1, <4>2, <4>3, <4>4
    <3> QED BY <3>1, <3>2
  <2>6. \A p \in a .. t - 1 : s[p] # c
    <3> SUFFICES ASSUME NEW p \in a .. t - 1 PROVE s[p] # c
      OBVIOUS
    <3>1. p \in 1 .. Len(s) /\ z[p] = 0
      BY <1>2, <2>1
    <3> QED BY <1>1, <3>1
  <2>7. \A p \in t .. b - 1 : s[p] = c
    <3> SUFFICES ASSUME NEW p \in t .. b - 1 PROVE s[p] = c
      OBVIOUS
    <3>1. p \in t .. Len(s) /\ p \in 1 .. Len(s) /\ p \notin S
      BY <1>2, <2>1, <2>5
    <3>2. z[p] # 0
      BY <2>4, <3>1
    <3> QED BY <1>1, <3>1, <3>2
  <2>8. b <= Len(s) => s[b] # c
    <3> SUFFICES ASSUME b <= Len(s) PROVE s[b] # c
      OBVIOUS
    <3>1. b \in 1 .. Len(s) /\ z[b] = 0
      BY <1>2, <2>1, <2>4, <2>5
    <3> QED BY <1>1, <3>1
  <2>9. EndAt(w, s, a) = t - 1
    BY <1>3, <1>7
  <2>10. MergedNext(w, s, a, t, b)
    BY <2>1, <2>5, <2>6, <2>7, <2>8, <2>9 DEF MergedNext, b, c, z
  <2>11. t \in Nat /\ b \in Nat
    BY <1>2, <2>1, <2>5
  <2> QED BY <2>10, <2>11
<1> QED BY <1>6, <1>7

\* A position of the text and one of the squeezed text from which what is left
\* of the one is, squeezed, what is left of the other: the fields there are the
\* same, and so it is where the next fields begin.
LEMMA SqueezeStep ==
  ASSUME NEW w \in Ways, MergesOne(w), NEW s \in Seq(Chars), NEW q \in Seq(Chars),
         NEW a \in 1 .. Len(s) + 1, NEW b \in 1 .. Len(q) + 1,
         From(q, b) = Squeezed(From(s, a), w.sep[1])
  PROVE  LET aa == NextStart(SepSize(w, s), Merges(w), a)
             bb == NextStart(SepSize(w, q), Merges(w), b)
         IN /\ FieldAt(w, s, a) = FieldAt(w, q, b)
            /\ \/ aa = 0 /\ bb = 0
               \/ /\ aa \in 1 .. Len(s) + 1 /\ bb \in 1 .. Len(q) + 1
                  /\ From(q, bb) = Squeezed(From(s, aa), w.sep[1])
<1> DEFINE c  == w.sep[1]
           y  == From(s, a)
           yy == From(q, b)
           aa == NextStart(SepSize(w, s), Merges(w), a)
           bb == NextStart(SepSize(w, q), Merges(w), b)
<1>1. c \in Chars /\ ~NoSep(w)
  BY MergedSizes
<1>2. /\ FieldAt(w, s, a) = SubSeq(s, a, EndAt(w, s, a))
      /\ FieldAt(w, q, b) = SubSeq(q, b, EndAt(w, q, b))
  BY <1>1, FieldHasNone
<1> DEFINE m == Len(q) - b + 1
<1>3. /\ y \in Seq(Chars) /\ Len(y) = Len(s) - a + 1 /\ \A i \in 1 .. Len(y) : y[i] = s[a + i - 1]
      /\ yy \in Seq(Chars) /\ Len(yy) = m /\ \A i \in 1 .. m : yy[i] = q[b + i - 1]
      /\ Len(s) \in Nat /\ Len(q) \in Nat /\ m \in Nat
  <2>1. Len(s) \in a - 1 .. Len(s) /\ Len(q) \in b - 1 .. Len(q) /\ Len(s) \in Nat /\ Len(q) \in Nat
        /\ m \in Nat
    OBVIOUS
  <2>2. /\ y \in Seq(Chars) /\ Len(y) = Len(s) - a + 1
        /\ \A i \in 1 .. Len(s) - a + 1 : y[i] = s[a + i - 1]
    BY <2>1, PieceIs DEF From
  <2>3. yy \in Seq(Chars) /\ Len(yy) = m /\ \A i \in 1 .. m : yy[i] = q[b + i - 1]
    BY <2>1, PieceIs DEF From
  <2> HIDE DEF y, yy, m
  <2> QED BY <2>1, <2>2, <2>3
<1>4. yy = Squeezed(y, c)
  OBVIOUS
<1> HIDE DEF c, y, yy, m
<1>5. MergedLast(w, q, b) \/ \E t, d \in Nat : MergedNext(w, q, b, t, d)
  BY MergedNextIs
<1>6. CASE MergedLast(w, s, a)
  <2>1. EndAt(w, s, a) = Len(s) /\ aa = 0 /\ \A p \in a .. Len(s) : s[p] # c
    BY <1>6 DEF MergedLast, c
  <2>2. \A i \in 1 .. Len(y) : y[i] # c
    <3> SUFFICES ASSUME NEW i \in 1 .. Len(y) PROVE y[i] # c
      OBVIOUS
    <3>1. a + i - 1 \in a .. Len(s)
      BY <1>3
    <3> QED BY <1>3, <2>1, <3>1
  <2>3. yy = y
    BY <1>1, <1>3, <1>4, <2>2, SqueezedNone
  <2>4. MergedLast(w, q, b)
    <3> SUFFICES ASSUME NEW t \in Nat, NEW d \in Nat, MergedNext(w, q, b, t, d) PROVE FALSE
      BY <1>5
    <3>1. t \in b .. Len(q) /\ t \in t .. d - 1 /\ q[t] = c
      BY <1>3 DEF MergedNext, c
    <3>2. t - b + 1 \in 1 .. m /\ b + (t - b + 1) - 1 = t
      <4>1. t \in b .. Len(q) /\ Len(q) \in Nat
        BY <1>3, <3>1
      <4> QED BY <4>1 DEF m
    <3>3. yy[t - b + 1] = c
      BY <1>3, <3>1, <3>2
    <3> QED BY <1>3, <2>2, <2>3, <3>2, <3>3
  <2>5. EndAt(w, q, b) = Len(q) /\ bb = 0
    BY <2>4 DEF MergedLast
  <2>6. SubSeq(s, a, Len(s)) = SubSeq(q, b, Len(q))
    BY <2>3 DEF y, yy, From
  <2> QED BY <1>2, <2>1, <2>5, <2>6, Zenon
<1>7. ASSUME NEW t \in Nat, NEW d \in Nat, MergedNext(w, s, a, t, d)
      PROVE  /\ FieldAt(w, s, a) = FieldAt(w, q, b)
             /\ aa \in 1 .. Len(s) + 1 /\ bb \in 1 .. Len(q) + 1
             /\ From(q, bb) = Squeezed(From(s, aa), c)
  <2> DEFINE u == SubSeq(s, a, t - 1)
             r == SubSeq(s, t, d - 1)
             x == SubSeq(s, d, Len(s))
             X == Squeezed(x, c)
             k == t - a
             n == Len(X)
  <2>1. /\ EndAt(w, s, a) = t - 1 /\ aa = d
        /\ t \in a .. Len(s) /\ d \in t + 1 .. Len(s) + 1
        /\ \A p \in a .. t - 1 : s[p] # c
        /\ \A p \in t .. d - 1 : s[p] = c
        /\ d <= Len(s) => s[d] # c
    BY <1>7 DEF MergedNext, c
  <2>2. /\ t \in 1 .. Len(s) + 1 /\ d \in 1 .. Len(s) + 1 /\ t - 1 \in a - 1 .. Len(s)
        /\ d - 1 \in t - 1 .. Len(s) /\ Len(s) \in d - 1 .. Len(s) /\ Len(s) \in t - 1 .. Len(s)
        /\ t - 1 + 1 = t /\ d - 1 + 1 = d /\ k \in Nat
    BY <1>3, <2>1
  <2>3. y = Cat(u, Cat(r, x))
    <3>1. SubSeq(s, t, Len(s)) = Cat(r, x)
      <4> DEFINE e == d - 1
      <4>1. t \in 1 .. Len(s) + 1 /\ e \in t - 1 .. Len(s) /\ Len(s) \in e .. Len(s) /\ e + 1 = d
        BY <2>2
      <4> HIDE DEF e
      <4>2. SubSeq(s, t, Len(s)) = Cat(SubSeq(s, t, e), SubSeq(s, e + 1, Len(s)))
        BY <4>1, PiecesJoin
      <4> QED BY <4>1, <4>2, Zenon DEF e
    <3>2. SubSeq(s, a, Len(s)) = Cat(u, SubSeq(s, t, Len(s)))
      <4> DEFINE e == t - 1
      <4>1. e \in a - 1 .. Len(s) /\ Len(s) \in e .. Len(s) /\ e + 1 = t
        BY <2>2
      <4> HIDE DEF e
      <4>2. SubSeq(s, a, Len(s)) = Cat(SubSeq(s, a, e), SubSeq(s, e + 1, Len(s)))
        BY <4>1, PiecesJoin
      <4> QED BY <4>1, <4>2, Zenon DEF e
    <3> QED BY <3>1, <3>2, Zenon DEF y, From
  <2>4. u \in Seq(Chars) /\ Len(u) = k /\ \A i \in 1 .. k : u[i] = s[a + i - 1] /\ u[i] # c
    <3>1. t - 1 - a + 1 = k /\ \A i \in 1 .. k : a + i - 1 \in a .. t - 1
      BY <2>2
    <3>2. u \in Seq(Chars) /\ Len(u) = t - 1 - a + 1
          /\ \A i \in 1 .. t - 1 - a + 1 : u[i] = s[a + i - 1]
      BY <2>2, PieceIs
    <3> HIDE DEF u, k
    <3> QED BY <2>1, <3>1, <3>2
  <2>5. r \in Seq(Chars) /\ Len(r) > 0 /\ \A i \in 1 .. Len(r) : r[i] = c
    <3> DEFINE j == d - 1 - t + 1
    <3>1. j > 0 /\ j \in Nat /\ \A i \in 1 .. j : t + i - 1 \in t .. d - 1
      BY <1>3, <2>1
    <3>2. r \in Seq(Chars) /\ Len(r) = j /\ \A i \in 1 .. j : r[i] = s[t + i - 1]
      BY <2>2, PieceIs
    <3> HIDE DEF r, j
    <3> QED BY <2>1, <3>1, <3>2
  <2>6. x \in Seq(Chars) /\ (Len(x) > 0 => x[1] # c)
    <3> DEFINE j == Len(s) - d + 1
    <3>1. j \in Nat /\ (j > 0 => d <= Len(s) /\ 1 \in 1 .. j /\ d + 1 - 1 = d)
      BY <1>3, <2>1
    <3>2. x \in Seq(Chars) /\ Len(x) = j /\ \A i \in 1 .. j : x[i] = s[d + i - 1]
      BY <2>2, PieceIs
    <3> HIDE DEF x, j
    <3> QED BY <2>1, <3>1, <3>2
  <2> HIDE DEF u, r, x, k
  <2>7. X \in Seq(Chars) /\ n \in Nat /\ (n > 0 => X[1] # c)
    <3>1. X \in Seq(Chars)
      BY <1>1, <2>6, SqueezedIs
    <3>2. CASE Len(x) > 0
      BY <1>1, <2>6, <3>1, <3>2, SqueezedBegins
    <3>3. CASE Len(x) = 0
      <4>0. \A p \in 1 .. Len(x) : x[p] # c
        BY <3>3
      <4>1. X = x
        BY <1>1, <2>6, <4>0, SqueezedNone
      <4> QED BY <3>1, <3>3, <4>1
    <3>4. Len(x) \in Nat
      BY <2>6
    <3> QED BY <3>2, <3>3, <3>4
  <2>8. yy = Cat(u, Cat(<<c>>, X))
    <3>1. Squeezed(u, c) = u
      BY <1>1, <2>4, SqueezedNone
    <3>2. Squeezed(r, c) = <<c>>
      BY <1>1, <2>5, SqueezedRun
    <3>3. Squeezed(Cat(r, x), c) = Cat(Squeezed(r, c), X)
      BY <1>1, <2>5, <2>6, SqueezedConcat
    <3>4. Cat(r, x) \in Seq(Chars) /\ (Len(u) > 0 => u[Len(u)] # c)
      <4>1. Cat(r, x) \in Seq(Chars)
        BY <2>5, <2>6, CatIs
      <4> QED BY <2>2, <2>4, <4>1
    <3>5. Squeezed(Cat(u, Cat(r, x)), c) = Cat(Squeezed(u, c), Squeezed(Cat(r, x), c))
      BY <1>1, <2>4, <3>4, SqueezedConcat
    <3> QED BY <1>4, <2>3, <3>1, <3>2, <3>3, <3>5, Zenon
  <2> HIDE DEF X
  <2> DEFINE v == Cat(<<c>>, X)
  <2>9. v \in Seq(Chars) /\ Len(v) = n + 1 /\ v[1] = c /\ \A i \in 1 .. n : v[1 + i] = X[i]
    <3> DEFINE l == <<c>>
    <3>1. l \in Seq(Chars) /\ Len(l) = 1 /\ l[1] = c
      BY <1>1
    <3> HIDE DEF l
    <3>2. /\ Cat(l, X) \in Seq(Chars) /\ Len(Cat(l, X)) = Len(l) + n
          /\ \A i \in 1 .. Len(l) + n : Cat(l, X)[i] = IF i <= Len(l) THEN l[i] ELSE X[i - Len(l)]
      BY <2>7, <3>1, CatIs
    <3>3. \A i \in 1 .. n : 1 + i \in 1 .. 1 + n /\ ~ (1 + i <= 1) /\ 1 + i - 1 = i
      BY <2>7
    <3>4. v = Cat(l, X)
      BY DEF l
    <3> HIDE DEF v
    <3> QED BY <2>7, <3>1, <3>2, <3>3, <3>4
  <2> HIDE DEF v, n
  \* what is left of the squeezed text: the field, a separator, the rest
  <2>10. /\ m = k + (n + 1)
         /\ \A i \in 1 .. k : q[b + i - 1] = u[i]
         /\ q[b + k] = c
         /\ \A i \in 1 .. n : q[b + k + i] = X[i]
    <3>1. /\ Len(yy) = k + (n + 1)
          /\ \A i \in 1 .. k + (n + 1) : yy[i] = IF i <= k THEN u[i] ELSE v[i - k]
      <4>1. yy = Cat(u, v)
        BY <2>8 DEF v
      <4>2. /\ Len(Cat(u, v)) = Len(u) + Len(v)
            /\ \A i \in 1 .. Len(u) + Len(v) : Cat(u, v)[i] = IF i <= Len(u) THEN u[i] ELSE v[i - Len(u)]
        <5>1. u \in Seq(Chars) /\ v \in Seq(Chars)
          BY <2>4, <2>9
        <5> QED BY <5>1, CatIs
      <4>3. Len(u) = k /\ Len(v) = n + 1
        BY <2>4, <2>9
      <4> QED BY <4>1, <4>2, <4>3, Zenon
    <3>2. \A i \in 1 .. k : i \in 1 .. k + (n + 1) /\ i <= k
      BY <2>2, <2>7 DEF n
    <3>4. m = k + (n + 1)
      BY <1>3, <3>1, Zenon
    <3>3. k \in Nat /\ n \in Nat /\ b \in Nat
      BY <2>2, <2>7 DEF n
    <3>5. \A i \in 1 .. m : q[b + i - 1] = IF i <= k THEN u[i] ELSE v[i - k]
      BY <1>3, <3>1, <3>4, Zenon
    <3>6. \A i \in 1 .. k : q[b + i - 1] = u[i]
      BY <3>2, <3>4, <3>5, Zenon
    <3>7. q[b + k] = c
      <4> DEFINE j == k + 1
      <4>1. j \in 1 .. m /\ ~ (j <= k) /\ j - k = 1 /\ b + j - 1 = b + k
        BY <3>3, <3>4
      <4> HIDE DEF j
      <4>2. q[b + j - 1] = IF j <= k THEN u[j] ELSE v[j - k]
        BY <3>5, <4>1
      <4> QED BY <2>9, <4>1, <4>2, Zenon
    <3>8. ASSUME NEW i \in 1 .. n PROVE q[b + k + i] = X[i]
      <4> DEFINE j == k + 1 + i
      <4>1. j \in 1 .. m /\ ~ (j <= k) /\ j - k = 1 + i /\ b + j - 1 = b + k + i
        BY <3>3, <3>4
      <4> HIDE DEF j
      <4>2. q[b + j - 1] = IF j <= k THEN u[j] ELSE v[j - k]
        BY <3>5, <4>1
      <4> QED BY <2>9, <4>1, <4>2, Zenon
    <3> QED BY <3>4, <3>6, <3>7, <3>8
  <2>11. b + k \in b .. Len(q) /\ n \in Nat /\ k \in Nat /\ b \in Nat
         /\ Len(q) = b + k + n
    <3>1. n \in Nat /\ k \in Nat /\ b \in Nat
      BY <2>2, <2>7 DEF n
    <3> HIDE DEF n
    <3>2. Len(q) \in Nat /\ Len(q) = b + k + n
      BY <1>3, <2>10, <3>1 DEF m
    <3> QED BY <3>1, <3>2
  <2>12. PICK tt, dd \in Nat : MergedNext(w, q, b, tt, dd)
    <3>1. ~MergedLast(w, q, b)
      BY <2>10, <2>11 DEF MergedLast, c
    <3> QED BY <1>5, <3>1
  <2>13. /\ EndAt(w, q, b) = tt - 1 /\ bb = dd
         /\ tt \in b .. Len(q) /\ dd \in tt + 1 .. Len(q) + 1
         /\ \A p \in b .. tt - 1 : q[p] # c
         /\ \A p \in tt .. dd - 1 : q[p] = c
    BY <2>12 DEF MergedNext, c
  <2>14. tt = b + k
    <3>1. ~ (tt > b + k)
      <4> SUFFICES ASSUME tt > b + k PROVE FALSE
        OBVIOUS
      <4>1. b + k \in b .. tt - 1
        BY <2>11
      <4> QED BY <2>10, <2>13, <4>1
    <3>2. ~ (tt < b + k)
      <4> SUFFICES ASSUME tt < b + k PROVE FALSE
        OBVIOUS
      <4> DEFINE i == tt - b + 1
      <4>1. tt \in b .. Len(q) /\ dd \in tt + 1 .. Len(q) + 1
        BY <2>13
      <4>2. tt \in tt .. dd - 1 /\ i \in 1 .. k /\ b + i - 1 = tt
        BY <2>11, <4>1
      <4> HIDE DEF i
      <4>3. q[tt] = c
        BY <2>13, <4>2
      <4>4. q[tt] = u[i] /\ u[i] # c
        BY <2>4, <2>10, <4>2
      <4> QED BY <4>3, <4>4
    <3> QED BY <2>11, <3>1, <3>2
  <2>15. dd = b + k + 1
    <3> SUFFICES ASSUME dd # b + k + 1 PROVE FALSE
      OBVIOUS
    <3>1. b + k + 1 \in tt .. dd - 1 /\ 1 \in 1 .. n /\ n > 0
      BY <2>11, <2>13, <2>14
    <3>2. q[b + k + 1] = c /\ X[1] # c
      BY <2>7, <2>13, <3>1 DEF n
    <3> QED BY <2>10, <3>1, <3>2
  <2>16. SubSeq(q, b, tt - 1) = u
    <3> DEFINE f == SubSeq(q, b, tt - 1)
    <3>1. tt - 1 \in b - 1 .. Len(q) /\ tt - 1 - b + 1 = k
      BY <2>11, <2>14
    <3>2. f \in Seq(Chars) /\ Len(f) = k /\ \A i \in 1 .. k : f[i] = q[b + i - 1]
      BY <3>1, PieceIs
    <3> HIDE DEF f
    <3>3. u \in Seq(Chars) /\ Len(u) = Len(f) /\ \A i \in 1 .. Len(f) : f[i] = u[i]
      BY <2>4, <2>10, <3>2
    <3>4. f = u
      BY <3>2, <3>3, SameSeq
    <3> QED BY <3>4 DEF f
  <2>17. SubSeq(q, dd, Len(q)) = X
    <3> DEFINE f == SubSeq(q, dd, Len(q))
    <3>1. dd \in 1 .. Len(q) + 1 /\ Len(q) \in dd - 1 .. Len(q) /\ Len(q) - dd + 1 = n
          /\ \A i \in 1 .. n : dd + i - 1 = b + k + i
      <4> DEFINE l == Len(q)
      <4>1. l = b + k + n /\ b \in Nat /\ k \in Nat /\ n \in Nat /\ dd = b + k + 1
        BY <2>11, <2>15
      <4>2. b > 0
        OBVIOUS
      <4> HIDE DEF l
      <4>3. dd \in 1 .. l + 1 /\ l \in dd - 1 .. l /\ l - dd + 1 = n
        BY <4>1, <4>2
      <4>4. \A i \in 1 .. n : dd + i - 1 = b + k + i
        BY <4>1
      <4> QED BY <4>3, <4>4 DEF l
    <3>2. f \in Seq(Chars) /\ Len(f) = n /\ \A i \in 1 .. n : f[i] = q[dd + i - 1]
      BY <3>1, PieceIs
    <3> HIDE DEF f
    <3>3. \A i \in 1 .. n : f[i] = X[i]
      BY <2>10, <3>1, <3>2
    <3>4. X \in Seq(Chars) /\ Len(X) = n
      BY <2>7 DEF n
    <3>5. f = X
      BY <3>2, <3>3, <3>4, SameSeq
    <3> QED BY <3>5 DEF f
  <2>18. FieldAt(w, s, a) = FieldAt(w, q, b)
    BY <1>2, <2>1, <2>13, <2>16, Zenon DEF u
  <2>19. From(q, bb) = Squeezed(From(s, aa), c)
    BY <2>1, <2>13, <2>17, Zenon DEF From, X, x
  <2>20. aa \in 1 .. Len(s) + 1 /\ bb \in 1 .. Len(q) + 1
    BY <2>1, <2>2, <2>11, <2>13, <2>15
  <2> QED BY <2>18, <2>19, <2>20
<1>8. MergedLast(w, s, a) \/ \E t, d \in Nat : MergedNext(w, s, a, t, d)
  BY MergedNextIs
<1> QED BY <1>6, <1>7, <1>8 DEF c

LEMMA FromOne ==
  ASSUME NEW S, NEW s \in Seq(S)
  PROVE  From(s, 1) = s
<1> DEFINE b == SubSeq(s, 1, Len(s))
<1>1. 1 \in 1 .. Len(s) + 1 /\ Len(s) \in 1 - 1 .. Len(s) /\ Len(s) - 1 + 1 = Len(s)
      /\ \A i \in 1 .. Len(s) : 1 + i - 1 = i
  OBVIOUS
<1>2. b \in Seq(S) /\ Len(b) = Len(s) /\ \A i \in 1 .. Len(s) : b[i] = s[i]
  BY <1>1, PieceIs
<1> HIDE DEF b
<1>3. s = b
  BY <1>2, SameSeq
<1> QED BY <1>3 DEF b, From

LEMMA SqueezedNotEmpty ==
  ASSUME NEW c \in Chars, NEW s \in Seq(Chars), Len(s) > 0
  PROVE  Len(Squeezed(s, c)) > 0
<1>1. CASE s[1] # c
  BY <1>1, SqueezedBegins
<1>2. CASE s[1] = c
  <2> DEFINE ss == SqueezeParts(s, c)
             x  == << ss[1] >>
             y  == SubSeq(ss, 2, Len(ss))
  <2>1. ss \in Seq(Seq(Chars)) /\ Len(ss) = Len(s) /\ Squeezed(s, c) = FlattenSeq(ss)
    BY SqueezedIs
  <2>2. 1 \in 1 .. Len(ss) /\ 1 \in 1 .. Len(ss) + 1 /\ 1 \in 1 - 1 .. Len(ss) /\ 1 + 1 = 2
        /\ Len(ss) \in 1 .. Len(ss) /\ 2 \in 1 .. Len(ss) + 1 /\ Len(ss) \in 2 - 1 .. Len(ss)
    BY <2>1
  <2>3. ss[1] = <<c>>
    BY <1>2 DEF SqueezeParts, SqueezePart
  <2> HIDE DEF ss
  <2>4. ss = Cat(SubSeq(ss, 1, 1), y)
    <3>1. From(ss, 1) = ss
      BY <2>1, FromOne
    <3>2. SubSeq(ss, 1, Len(ss)) = Cat(SubSeq(ss, 1, 1), y)
      BY <2>1, <2>2, PiecesJoin
    <3> QED BY <3>1, <3>2, Zenon DEF From
  <2>5. SubSeq(ss, 1, 1) = x /\ x \in Seq(Seq(Chars)) /\ y \in Seq(Seq(Chars))
    BY <2>1, <2>2, PieceOne, PieceIs
  <2>6. <<c>> \in Seq(Chars) /\ Len(<<c>>) = 1
    OBVIOUS
  <2>7. FlattenSeq(x) = <<c>>
    BY <2>3, <2>6, FlattenOne
  <2> HIDE DEF x, y
  <2>8. FlattenSeq(ss) = Cat(<<c>>, FlattenSeq(y)) /\ FlattenSeq(y) \in Seq(Chars)
    BY <2>4, <2>5, <2>7, FlattenConcat, FlattenType, Zenon
  <2>9. Len(Cat(<<c>>, FlattenSeq(y))) = Len(<<c>>) + Len(FlattenSeq(y))
    BY <2>6, <2>8, CatIs
  <2>10. Len(FlattenSeq(y)) \in Nat
    BY <2>8
  <2> QED BY <2>1, <2>6, <2>8, <2>9, <2>10
<1> QED BY <1>1, <1>2

\* The field at each level of a text is the one of the squeezed text.
LEMMA LevelOfSqueezed ==
  ASSUME NEW w \in Ways, MergesOne(w), NEW s \in Seq(Chars), Len(s) > 0, NEW level \in Nat
  PROVE  Field(w, s, level, 0).val = Field(w, Squeezed(s, w.sep[1]), level, 0).val
<1> DEFINE c == w.sep[1]
           q == Squeezed(s, c)
           A(n) == StartOf(SepSize(w, s), Merges(w), n)
           B(n) == StartOf(SepSize(w, q), Merges(w), n)
           P(n) == \/ A(n) = 0 /\ B(n) = 0
                   \/ /\ A(n) \in 1 .. Len(s) + 1 /\ B(n) \in 1 .. Len(q) + 1
                      /\ From(q, B(n)) = Squeezed(From(s, A(n)), c)
           T == {n \in Nat : P(n)}
<1>1. c \in Chars /\ ~NoSep(w) /\ Merges(w) \in BOOLEAN
  BY MergedSizes
<1>2. q \in Seq(Chars) /\ Len(q) > 0
  BY <1>1, SqueezedIs, SqueezedNotEmpty
<1> HIDE DEF c, q
<1>3. Sizes(SepSize(w, s)) /\ Sizes(SepSize(w, q))
  BY <1>1, <1>2, SizesAre
<1>4. A(0) = 1 /\ \A n \in Nat : A(n + 1) = NextStart(SepSize(w, s), Merges(w), A(n))
  BY <1>1, <1>3, StartOfIs
<1>5. B(0) = 1 /\ \A n \in Nat : B(n + 1) = NextStart(SepSize(w, q), Merges(w), B(n))
  BY <1>1, <1>3, StartOfIs
<1> HIDE DEF A, B
<1>6. P(0)
  <2>1. From(s, 1) = s /\ From(q, 1) = q
    BY <1>2, FromOne
  <2>2. 1 \in 1 .. Len(s) + 1 /\ 1 \in 1 .. Len(q) + 1
    BY <1>2
  <2> QED BY <1>4, <1>5, <2>1, <2>2 DEF q
<1>7. ASSUME NEW n \in Nat, P(n)
      PROVE  P(n + 1) /\ FieldAt(w, s, A(n)) = FieldAt(w, q, B(n))
  <2>1. CASE A(n) = 0 /\ B(n) = 0
    <3>1. A(n + 1) = 0 /\ B(n + 1) = 0
      BY <1>4, <1>5, <2>1 DEF NextStart
    <3> QED BY <2>1, <3>1 DEF FieldAt
  <2>2. CASE /\ A(n) \in 1 .. Len(s) + 1 /\ B(n) \in 1 .. Len(q) + 1
             /\ From(q, B(n)) = Squeezed(From(s, A(n)), c)
    <3> DEFINE a == A(n)
               b == B(n)
    <3>1. a \in 1 .. Len(s) + 1 /\ b \in 1 .. Len(q) + 1 /\ From(q, b) = Squeezed(From(s, a), w.sep[1])
      BY <2>2 DEF c
    <3>2. /\ A(n + 1) = NextStart(SepSize(w, s), Merges(w), a)
          /\ B(n + 1) = NextStart(SepSize(w, q), Merges(w), b)
      BY <1>4, <1>5
    <3> HIDE DEF a, b
    <3>3. LET aa == NextStart(SepSize(w, s), Merges(w), a)
              bb == NextStart(SepSize(w, q), Merges(w), b)
          IN /\ FieldAt(w, s, a) = FieldAt(w, q, b)
             /\ \/ aa = 0 /\ bb = 0
                \/ /\ aa \in 1 .. Len(s) + 1 /\ bb \in 1 .. Len(q) + 1
                   /\ From(q, bb) = Squeezed(From(s, aa), w.sep[1])
      BY <1>2, <3>1, SqueezeStep
    <3> QED BY <3>2, <3>3, Zenon DEF a, b, c
  <2> QED BY <1>7, <2>1, <2>2
<1> HIDE DEF P
<1>8. 0 \in T /\ \A n \in Nat : n \in T => n + 1 \in T
  BY <1>6, <1>7
<1> HIDE DEF T
<1>9. level \in T
  BY <1>8, Induction
<1>10. P(level)
  BY <1>9 DEF T
<1>11. FieldAt(w, s, A(level)) = FieldAt(w, q, B(level))
  BY <1>7, <1>10
<1>12. Field(w, s, level, 0).val = FieldAt(w, s, A(level))
  BY <1>1, FieldOfLevel DEF A
<1>13. Field(w, q, level, 0).val = FieldAt(w, q, B(level))
  BY <1>1, <1>2, FieldOfLevel DEF B
<1> QED BY <1>11, <1>12, <1>13 DEF q, c

LEMMA LevelInvIsNthRead == ReadInv /\ LevelInv => LevelIsNthRead
<1> SUFFICES ASSUME ReadInv, LevelInv, NEW k \in DOMAIN fields
             PROVE  Field(way, text, k - 1, 0).val =
                      IF way.call = "strParse" /\ way.merge /\ Len(way.sep) = 1
                        THEN Field(way, Squeezed(text, way.sep[1]), k - 1, 0).val
                        ELSE fields[k]
  BY DEF LevelIsNthRead
<1>1. /\ way \in Ways /\ text \in Seq(Chars) /\ fields \in Seq(Seq(Chars))
      /\ k \in 1 .. Len(fields) /\ k - 1 \in Nat /\ fields # <<>>
  BY TextsType DEF ReadInv
<1>2. (way.call = "strParse" /\ way.merge /\ Len(way.sep) = 1) <=> MergesOne(way)
  BY DEF MergesOne, Merges
<1>3. CASE MergesOne(way)
  <2>1. ~NoSep(way) /\ way.sep[1] \in Chars
    BY <1>1, <1>3, MergedSizes
  <2>2. CASE Len(text) > 0
    BY <1>1, <1>2, <1>3, <2>2, LevelOfSqueezed
  <2>3. CASE Len(text) = 0
    <3>1. \A p \in 1 .. Len(text) : text[p] # way.sep[1]
      BY <2>3
    <3>2. Squeezed(text, way.sep[1]) = text
      BY <1>1, <2>1, <3>1, SqueezedNone
    <3> QED BY <1>2, <1>3, <3>2
  <2>4. Len(text) \in Nat
    BY <1>1
  <2> QED BY <2>2, <2>3, <2>4
<1>4. CASE NoSep(way)
  <2>1. fields[k] = <<>>
    BY <1>1, <1>4 DEF ReadInv
  <2>2. Field(way, text, k - 1, 0) = [val |-> <<>>, off |-> 0]
    BY <1>1, <1>4, FieldIsSplit
  <2>3. ~MergesOne(way)
    BY <1>1, <1>4, MergedSizes
  <2> QED BY <1>2, <2>1, <2>2, <2>3
<1>5. CASE ~NoSep(way) /\ ~MergesOne(way)
  <2>1. Len(text) > 0
    BY <1>1, <1>5 DEF LevelInv
  <2>2. Field(way, text, k - 1, 0).val
          = FieldAt(way, text, StartOf(SepSize(way, text), Merges(way), k - 1))
    BY <1>1, <1>5, <2>1, FieldOfLevel
  <2>3. fields[k] = FieldAt(way, text, StartOf(SepSize(way, text), Merges(way), k - 1))
    BY <1>1, <1>5 DEF LevelInv
  <2> QED BY <1>2, <1>5, <2>2, <2>3
<1> QED BY <1>3, <1>4, <1>5

\* "11.22.33.44 --> 11:0 22:1 33:2 44:3" (t_stropt.cpp:332): for every text and
\* every separator the field at level k is the k-th that is read with `off`;
\* when runs are merged (t_stropt.cpp:373), that of the text in which each run
\* is one separator.
THEOREM LevelIsNthReadAlways == TextSpec => []LevelIsNthRead
BY LevelInvAlways, LevelInvIsNthRead, PTL

-----------------------------------------------------------------------------
(***************************************************************************)
(* The words of a text.                                                    *)
(***************************************************************************)
WordPart(s, p) ==
  IF Blank(s[p]) THEN <<>>
  ELSE IF p > 1 /\ Blank(s[p - 1]) /\ \E q \in 1 .. p - 1 : ~Blank(s[q])
    THEN <<" ", s[p]>>
    ELSE <<s[p]>>

WordParts(s) == [p \in 1 .. Len(s) |-> WordPart(s, p)]

\* The words of what comes before position b, and of what is there.
WordsUpto(s, b) == FlattenSeq(SubSeq(WordParts(s), 1, b))

LEMMA WordPartsType ==
  ASSUME NEW s \in Seq(Chars)
  PROVE  /\ WordParts(s) \in Seq(Seq(Chars)) /\ Len(WordParts(s)) = Len(s)
         /\ \A p \in 1 .. Len(s) : WordPart(s, p) \in Seq(Chars) /\ WordParts(s)[p] = WordPart(s, p)
<1>1. ASSUME NEW p \in 1 .. Len(s) PROVE WordPart(s, p) \in Seq(Chars)
  <2>1. s[p] \in Chars
    OBVIOUS
  <2>2. <<>> \in Seq(Chars) /\ <<s[p]>> \in Seq(Chars)
    BY <2>1, SingleType, EmptyType
  <2>3. <<" ", s[p]>> \in Seq(Chars)
    <3> DEFINE x == s[p]
               y == " "
    <3>1. x \in Chars /\ y \in Chars
      BY <2>1, CharsNamed
    <3> HIDE DEF x, y
    <3>2. <<y, x>> \in Seq(Chars)
      BY <3>1
    <3> QED BY <3>2 DEF x, y
  <2> QED BY <2>2, <2>3, Zenon DEF WordPart
<1>2. WordParts(s) \in Seq(Seq(Chars)) /\ Len(WordParts(s)) = Len(s)
  BY <1>1 DEF WordParts
<1> QED BY <1>1, <1>2 DEF WordParts

LEMMA WordsAre ==
  ASSUME NEW s \in Seq(Chars)
  PROVE  Words(s) = FlattenSeq(WordParts(s)) /\ Words(s) = WordsUpto(s, Len(s))
<1>1. DOMAIN s = 1 .. Len(s)
  OBVIOUS
<1>2. Words(s) = FlattenSeq(WordParts(s))
  BY <1>1 DEF Words, WordParts, WordPart
<1>3. From(WordParts(s), 1) = WordParts(s) /\ Len(WordParts(s)) = Len(s)
  BY WordPartsType, FromOne
<1> QED BY <1>2, <1>3, Zenon DEF From, WordsUpto

LEMMA WordsNext ==
  ASSUME NEW s \in Seq(Chars)
  PROVE  /\ WordsUpto(s, 0) = <<>>
         /\ \A b \in 0 .. Len(s) : WordsUpto(s, b) \in Seq(Chars)
         /\ \A b \in 1 .. Len(s) : WordsUpto(s, b) = Cat(WordsUpto(s, b - 1), WordPart(s, b))
<1> DEFINE ss == WordParts(s)
<1>1. ss \in Seq(Seq(Chars)) /\ Len(ss) = Len(s) /\ Len(s) \in Nat
  BY WordPartsType
<1> HIDE DEF ss
<1>2. SubSeq(ss, 1, 0) = <<>>
  BY SubSeqEmpty
<1>3. ASSUME NEW b \in 0 .. Len(s) PROVE SubSeq(ss, 1, b) \in Seq(Seq(Chars))
  <2>1. 1 \in 1 .. Len(ss) + 1 /\ b \in 1 - 1 .. Len(ss)
    BY <1>1
  <2> QED BY <1>1, <2>1, PieceIs
<1>4. ASSUME NEW b \in 1 .. Len(s)
      PROVE  WordsUpto(s, b) = Cat(WordsUpto(s, b - 1), WordPart(s, b))
  <2> DEFINE a == b - 1
             x == WordPart(s, b)
             y == << x >>
  <2>1. 1 \in 1 .. Len(ss) + 1 /\ a \in 1 - 1 .. Len(ss) /\ b \in a .. Len(ss) /\ a + 1 = b
        /\ b \in 1 .. Len(ss) /\ a \in 0 .. Len(s)
    BY <1>1
  <2> HIDE DEF a
  <2>2. SubSeq(ss, 1, b) = Cat(SubSeq(ss, 1, a), SubSeq(ss, b, b))
    BY <1>1, <2>1, PiecesJoin
  <2>3. x \in Seq(Chars) /\ ss[b] = x
    BY WordPartsType DEF ss
  <2>4. SubSeq(ss, b, b) = y
    BY <1>1, <2>1, <2>3, PieceOne
  <2>5. y \in Seq(Seq(Chars)) /\ FlattenSeq(y) = x
    <3> HIDE DEF x
    <3> QED BY <2>3, SingleType, FlattenOne
  <2>6. SubSeq(ss, 1, a) \in Seq(Seq(Chars))
    BY <1>3, <2>1
  <2> HIDE DEF x, y
  <2>7. FlattenSeq(Cat(SubSeq(ss, 1, a), y)) = Cat(FlattenSeq(SubSeq(ss, 1, a)), FlattenSeq(y))
    BY <2>5, <2>6, FlattenConcat
  <2> QED BY <2>2, <2>4, <2>5, <2>7, Zenon DEF WordsUpto, ss, a, x
<1>5. \A b \in 0 .. Len(s) : FlattenSeq(SubSeq(ss, 1, b)) \in Seq(Chars)
  BY <1>3, FlattenType
<1> QED BY <1>2, <1>4, <1>5, FlattenEmpty DEF WordsUpto, ss

\* Blanks add nothing.
LEMMA WordsOverBlanks ==
  ASSUME NEW s \in Seq(Chars), NEW a \in 0 .. Len(s), NEW b \in a .. Len(s),
         \A p \in a + 1 .. b : Blank(s[p])
  PROVE  WordsUpto(s, b) = WordsUpto(s, a)
<1> DEFINE T == {n \in Nat : a + n <= b => WordsUpto(s, a + n) = WordsUpto(s, a)}
<1>0. a \in Nat /\ b \in Nat /\ Len(s) \in Nat
  OBVIOUS
<1>1. 0 \in T
  <2>1. a + 0 = a
    BY <1>0
  <2> QED BY <2>1
<1>2. ASSUME NEW n \in Nat, n \in T PROVE n + 1 \in T
  <2> SUFFICES ASSUME a + (n + 1) <= b PROVE WordsUpto(s, a + (n + 1)) = WordsUpto(s, a)
    OBVIOUS
  <2> DEFINE p == a + (n + 1)
  <2>1. p \in a + 1 .. b /\ p \in 1 .. Len(s) /\ p - 1 = a + n /\ a + n <= b /\ p - 1 \in 0 .. Len(s)
    BY <1>0
  <2> HIDE DEF p
  <2>2. WordPart(s, p) = <<>>
    BY <2>1 DEF WordPart
  <2>3. WordsUpto(s, p) = Cat(WordsUpto(s, p - 1), <<>>)
    BY <2>1, <2>2, WordsNext
  <2>4. WordsUpto(s, p - 1) \in Seq(Chars)
    BY <2>1, WordsNext
  <2>5. WordsUpto(s, p) = WordsUpto(s, p - 1)
    BY <2>3, <2>4, CatProperties
  <2> QED BY <1>2, <2>1, <2>5 DEF p
<1> HIDE DEF T
<1>3. b - a \in T
  <2>1. b - a \in Nat
    BY <1>0
  <2> QED BY <1>1, <1>2, <2>1, Induction
<1>4. a + (b - a) = b /\ b <= b
  BY <1>0
<1> QED BY <1>3, <1>4 DEF T

\* A word is taken over as it is.
LEMMA WordsOverInk ==
  ASSUME NEW s \in Seq(Chars), NEW a \in 1 .. Len(s), NEW b \in a .. Len(s),
         \A p \in a .. b : ~Blank(s[p])
  PROVE  WordsUpto(s, b) = Cat(WordsUpto(s, a), SubSeq(s, a + 1, b))
<1> DEFINE G(n) == WordsUpto(s, a + n) = Cat(WordsUpto(s, a), SubSeq(s, a + 1, a + n))
           T == {n \in Nat : a + n <= b => G(n)}
<1>0. a \in Nat /\ b \in Nat /\ Len(s) \in Nat /\ WordsUpto(s, a) \in Seq(Chars)
  BY WordsNext
<1>1. 0 \in T
  <2>1. a + 0 = a /\ a + 1 \in Int /\ a < a + 1
    BY <1>0
  <2>2. SubSeq(s, a + 1, a + 0) = <<>>
    BY <1>0, <2>1, SubSeqEmpty
  <2>3. Cat(WordsUpto(s, a), <<>>) = WordsUpto(s, a)
    BY <1>0, CatProperties
  <2>4. G(0)
    BY <2>1, <2>2, <2>3
  <2> QED BY <2>4
<1>2. ASSUME NEW n \in Nat, n \in T PROVE n + 1 \in T
  <2> SUFFICES ASSUME a + (n + 1) <= b PROVE G(n + 1)
    OBVIOUS
  <2> DEFINE p == a + (n + 1)
             r == a + n
             v == SubSeq(s, a + 1, r)
  <2>1. p \in a .. b /\ p \in 1 .. Len(s) /\ p - 1 = r /\ r <= b /\ r \in a .. b /\ p > 1
        /\ a + 1 \in 1 .. Len(s) + 1 /\ r \in a + 1 - 1 .. Len(s) /\ p \in r .. Len(s) /\ r + 1 = p
    BY <1>0
  <2>2. G(n)
    BY <1>2, <2>1
  <2>3. WordsUpto(s, r) = Cat(WordsUpto(s, a), v)
    BY <2>2
  <2> HIDE DEF p, r
  <2>4. WordPart(s, p) = <<s[p]>>
    BY <2>1 DEF WordPart
  <2>5. WordsUpto(s, p) = Cat(WordsUpto(s, r), <<s[p]>>)
    BY <2>1, <2>4, WordsNext
  <2>6. v \in Seq(Chars) /\ <<s[p]>> \in Seq(Chars)
    <3>1. v \in Seq(Chars)
      BY <2>1, PieceIs
    <3>2. s[p] \in Chars
      BY <2>1
    <3> QED BY <3>1, <3>2, SingleType
  <2>7. SubSeq(s, a + 1, p) = Cat(v, <<s[p]>>)
    <3>1. SubSeq(s, a + 1, p) = Cat(v, SubSeq(s, p, p))
      <4> DEFINE m == a + 1
      <4>1. m \in 1 .. Len(s) + 1 /\ r \in m - 1 .. Len(s) /\ p \in r .. Len(s)
        BY <2>1
      <4> HIDE DEF m
      <4>2. SubSeq(s, m, p) = Cat(SubSeq(s, m, r), SubSeq(s, r + 1, p))
        BY <4>1, PiecesJoin
      <4> QED BY <2>1, <4>2, Zenon DEF m
    <3>2. SubSeq(s, p, p) = <<s[p]>>
      BY <2>1, PieceOne
    <3> QED BY <3>1, <3>2
  <2> HIDE DEF v
  <2>8. Cat(Cat(WordsUpto(s, a), v), <<s[p]>>) = Cat(WordsUpto(s, a), Cat(v, <<s[p]>>))
    <3> DEFINE x == WordsUpto(s, a)
               y == <<s[p]>>
    <3>1. x \in Seq(Chars) /\ y \in Seq(Chars)
      BY <1>0, <2>6
    <3> HIDE DEF x, y
    <3>2. Cat(Cat(x, v), y) = Cat(x, Cat(v, y))
      BY <2>6, <3>1, CatAssociative
    <3> QED BY <3>2 DEF x, y
  <2>9. WordsUpto(s, p) = Cat(WordsUpto(s, a), SubSeq(s, a + 1, p))
    BY <2>3, <2>5, <2>7, <2>8, Zenon
  <2> QED BY <2>9 DEF p
<1> HIDE DEF G
<1>3. 0 \in T /\ \A n \in Nat : n \in T => n + 1 \in T
  BY <1>1, <1>2
<1> HIDE DEF T
<1>4. b - a \in T
  <2>1. b - a \in Nat
    BY <1>0
  <2> QED BY <1>3, <2>1, Induction
<1>5. a + (b - a) = b /\ b <= b
  BY <1>0
<1>6. G(b - a)
  BY <1>4, <1>5 DEF T
<1> QED BY <1>5, <1>6, Zenon DEF G

\* The first and the last character that is not blank.
Bounds(s, first, last) ==
  /\ first \in 1 .. Len(s) /\ last \in first .. Len(s)
  /\ ~Blank(s[first]) /\ ~Blank(s[last])
  /\ \A p \in 1 .. first - 1 : Blank(s[p])
  /\ \A p \in last + 1 .. Len(s) : Blank(s[p])

LEMMA BoundsAre ==
  ASSUME NEW s \in Seq(Chars), \E p \in 1 .. Len(s) : ~Blank(s[p]), NEW no, NEW none
  PROVE  LET inked == {p \in DOMAIN s : ~Blank(s[p])}
         IN Bounds(s, FirstOf(inked, no), LastOf(inked, none))
<1> DEFINE inked == {p \in DOMAIN s : ~Blank(s[p])}
           f == FirstOf(inked, no)
           l == LastOf(inked, none)
<1>1. /\ inked \in SUBSET Nat /\ inked # {} /\ inked \in SUBSET (0 .. Len(s)) /\ Len(s) \in Nat
      /\ \A p : p \in inked <=> p \in 1 .. Len(s) /\ ~Blank(s[p])
  OBVIOUS
<1> HIDE DEF inked
<1>2. f \in inked /\ \A q \in inked : f <= q
  BY <1>1, FirstOfLeast
<1>3. l \in inked /\ \A q \in inked : l >= q
  BY <1>1, LastOfGreatest
<1> HIDE DEF f, l
<1>4. f \in 1 .. Len(s) /\ l \in f .. Len(s) /\ ~Blank(s[f]) /\ ~Blank(s[l])
  BY <1>1, <1>2, <1>3
<1>5. \A p \in 1 .. f - 1 : Blank(s[p])
  BY <1>1, <1>2, <1>4
<1>6. \A p \in l + 1 .. Len(s) : Blank(s[p])
  BY <1>1, <1>3, <1>4
<1>7. Bounds(s, f, l)
  BY <1>4, <1>5, <1>6 DEF Bounds
<1> QED BY <1>7 DEF f, l, inked

Gap == <<" ">>

LEMMA PairIs ==
  ASSUME NEW S, NEW x \in S, NEW y \in S
  PROVE  Cat(<<x>>, <<y>>) = <<x, y>>
<1> DEFINE a == <<x>>
           b == <<y>>
           c == <<x, y>>
           d == Cat(a, b)
<1>1. a \in Seq(S) /\ Len(a) = 1 /\ a[1] = x
  OBVIOUS
<1>2. b \in Seq(S) /\ Len(b) = 1 /\ b[1] = y
  OBVIOUS
<1>3. c \in Seq(S) /\ Len(c) = 2 /\ c[1] = x /\ c[2] = y
  OBVIOUS
<1> HIDE DEF a, b, c
<1>4. d \in Seq(S) /\ Len(d) = 2 /\ d[1] = x /\ d[2] = y
  <2>1. /\ d \in Seq(S) /\ Len(d) = Len(a) + Len(b)
        /\ \A i \in 1 .. Len(a) + Len(b) : d[i] = IF i <= Len(a) THEN a[i] ELSE b[i - Len(a)]
    BY <1>1, <1>2, CatIs
  <2> HIDE DEF d
  <2> QED BY <1>1, <1>2, <2>1
<1> HIDE DEF d
<1>5. \A i \in 1 .. 2 : i = 1 \/ i = 2
  OBVIOUS
<1>6. d = c
  <2>1. \A i \in 1 .. Len(d) : d[i] = c[i]
    BY <1>3, <1>4, <1>5
  <2> QED BY <1>3, <1>4, <2>1, SameSeq
<1> QED BY <1>6 DEF a, b, c, d

LEMMA GapIs == Gap \in Seq(Chars) /\ \A x \in Chars : Cat(Gap, <<x>>) = <<" ", x>>
<1>1. " " \in Chars
  BY CharsNamed
<1> DEFINE c == " "
<1>2. c \in Chars
  BY <1>1
<1> HIDE DEF c
<1>3. <<c>> \in Seq(Chars) /\ \A x \in Chars : Cat(<<c>>, <<x>>) = <<c, x>>
  BY <1>2, SingleType, PairIs
<1> QED BY <1>3 DEF c, Gap

\* The blank before a word is written, however many there are.
LEMMA WordAfterBlank ==
  ASSUME NEW s \in Seq(Chars), NEW first, NEW last, Bounds(s, first, last),
         NEW f \in first .. last, Blank(s[f]),
         NEW g \in f + 1 .. last, ~Blank(s[g]), \A p \in f + 1 .. g - 1 : Blank(s[p])
  PROVE  WordsUpto(s, g) = Cat(WordsUpto(s, f), Cat(Gap, <<s[g]>>))
<1>1. /\ first \in 1 .. Len(s) /\ last \in first .. Len(s) /\ ~Blank(s[first])
      /\ Len(s) \in Nat
  BY DEF Bounds
<1> DEFINE h == g - 1
<1>2. g \in 1 .. Len(s) /\ h \in f .. Len(s) /\ f \in 0 .. Len(s) /\ h \in 1 .. g - 1 /\ g > 1
      /\ first \in 1 .. g - 1 /\ h \in f .. g - 1
  BY <1>1
<1>3. WordsUpto(s, h) = WordsUpto(s, f)
  <2> HIDE DEF h
  <2>1. \A p \in f + 1 .. h : Blank(s[p])
    BY DEF h
  <2> QED BY <1>2, <2>1, WordsOverBlanks
<1>4. Blank(s[h])
  <2>1. h = f \/ h \in f + 1 .. g - 1
    BY <1>1, <1>2
  <2> QED BY <2>1
<1>5. WordPart(s, g) = <<" ", s[g]>>
  BY <1>1, <1>2, <1>4 DEF WordPart
<1>6. WordsUpto(s, g) = Cat(WordsUpto(s, g - 1), WordPart(s, g))
  BY <1>2, WordsNext
<1>7. Cat(Gap, <<s[g]>>) = <<" ", s[g]>>
  <2>1. s[g] \in Chars
    BY <1>2
  <2> QED BY <2>1, GapIs
<1> QED BY <1>3, <1>5, <1>6, <1>7, Zenon

LEMMA WordsBegin ==
  ASSUME NEW s \in Seq(Chars), NEW first, NEW last, Bounds(s, first, last)
  PROVE  /\ WordsUpto(s, first - 1) = <<>>
         /\ WordsUpto(s, first) = <<s[first]>>
         /\ Words(s) = WordsUpto(s, last)
<1>1. /\ first \in 1 .. Len(s) /\ last \in first .. Len(s) /\ ~Blank(s[first])
      /\ \A p \in 1 .. first - 1 : Blank(s[p])
      /\ \A p \in last + 1 .. Len(s) : Blank(s[p])
      /\ Len(s) \in Nat
  BY DEF Bounds
<1>2. /\ 0 \in 0 .. Len(s) /\ first - 1 \in 0 .. Len(s) /\ 0 + 1 = 1
      /\ last \in 0 .. Len(s) /\ Len(s) \in last .. Len(s)
  BY <1>1
<1>3. WordsUpto(s, first - 1) = <<>>
  <2> DEFINE b == first - 1
  <2>1. b \in 0 .. Len(s) /\ \A p \in 0 + 1 .. b : Blank(s[p])
    BY <1>1, <1>2
  <2> HIDE DEF b
  <2>2. WordsUpto(s, b) = WordsUpto(s, 0)
    BY <1>2, <2>1, WordsOverBlanks
  <2> QED BY <2>2, WordsNext DEF b
<1>4. WordPart(s, first) = <<s[first]>>
  BY <1>1 DEF WordPart
<1>5. WordsUpto(s, first) = Cat(<<>>, <<s[first]>>)
  BY <1>1, <1>3, <1>4, WordsNext
<1>6. <<s[first]>> \in Seq(Chars)
  <2>1. s[first] \in Chars
    BY <1>1
  <2> QED BY <2>1, SingleType
<1>7. WordsUpto(s, first) = <<s[first]>>
  BY <1>5, <1>6, CatProperties
<1>8. WordsUpto(s, Len(s)) = WordsUpto(s, last)
  BY <1>1, <1>2, WordsOverBlanks
<1> QED BY <1>3, <1>7, <1>8, WordsAre

\* Trimming a text makes no difference to its words.
LEMMA WordsOfTrimmed ==
  ASSUME NEW s \in Seq(Chars), NEW first, NEW last, Bounds(s, first, last)
  PROVE  /\ SubSeq(s, first, last) \in Seq(Chars)
         /\ \E p \in 1 .. Len(SubSeq(s, first, last)) : ~Blank(SubSeq(s, first, last)[p])
         /\ Words(SubSeq(s, first, last)) = Words(s)
<1> DEFINE t  == SubSeq(s, first, last)
           ss == WordParts(s)
           tt == WordParts(t)
           n  == last - first + 1
<1>1. /\ first \in 1 .. Len(s) /\ last \in first .. Len(s) /\ ~Blank(s[first])
      /\ \A p \in 1 .. first - 1 : Blank(s[p])
      /\ Len(s) \in Nat
  BY DEF Bounds
<1>2. n \in Nat /\ n > 0 /\ first \in 1 .. Len(s) + 1 /\ last \in first - 1 .. Len(s)
  BY <1>1
<1>3. t \in Seq(Chars) /\ Len(t) = n /\ \A i \in 1 .. n : t[i] = s[first + i - 1]
  BY <1>2, PieceIs
<1>4. t[1] = s[first] /\ 1 \in 1 .. n
  <2>1. 1 \in 1 .. n /\ first + 1 - 1 = first
    BY <1>1, <1>2
  <2> QED BY <1>3, <2>1
<1> HIDE DEF t
<1>5. /\ ss \in Seq(Seq(Chars)) /\ Len(ss) = Len(s)
      /\ tt \in Seq(Seq(Chars)) /\ Len(tt) = n
      /\ \A p \in 1 .. Len(s) : ss[p] = WordPart(s, p)
      /\ \A p \in 1 .. n : tt[p] = WordPart(t, p)
  BY <1>3, WordPartsType
<1> HIDE DEF ss, tt
<1>6. ASSUME NEW i \in 1 .. n PROVE tt[i] = ss[first + i - 1]
  <2> DEFINE p == first + i - 1
  <2>1. p \in 1 .. Len(s) /\ p >= first /\ (i > 1 => p > first /\ p > 1 /\ p - 1 = first + (i - 1) - 1)
        /\ (i > 1 => i - 1 \in 1 .. n /\ first \in 1 .. p - 1 /\ 1 \in 1 .. i - 1)
        /\ (i = 1 => p = first)
    BY <1>1, <1>2
  <2> HIDE DEF p
  <2>2. t[i] = s[p]
    BY <1>3 DEF p
  <2>3. CASE i = 1
    <3>1. WordPart(t, i) = <<s[first]>>
      BY <1>1, <1>4, <2>3 DEF WordPart
    <3>2. WordPart(s, p) = <<s[first]>>
      BY <1>1, <2>1, <2>3 DEF WordPart
    <3> QED BY <1>5, <2>1, <3>1, <3>2 DEF p
  <2>4. CASE i > 1
    <3>1. t[i - 1] = s[p - 1]
      BY <1>3, <2>1, <2>4
    <3>2. (\E q \in 1 .. i - 1 : ~Blank(t[q])) /\ (\E q \in 1 .. p - 1 : ~Blank(s[q]))
      BY <1>1, <1>4, <2>1, <2>4
    <3>3. WordPart(t, i) = WordPart(s, p)
      BY <2>1, <2>2, <2>4, <3>1, <3>2 DEF WordPart
    <3> QED BY <1>5, <2>1, <3>3 DEF p
  <2> QED BY <1>2, <2>3, <2>4
<1>7. tt = SubSeq(ss, first, last)
  <2> DEFINE x == SubSeq(ss, first, last)
  <2>1. x \in Seq(Seq(Chars)) /\ Len(x) = n /\ \A i \in 1 .. n : x[i] = ss[first + i - 1]
    <3>1. ss \in Seq(Seq(Chars)) /\ first \in 1 .. Len(ss) + 1 /\ last \in first - 1 .. Len(ss)
      BY <1>2, <1>5
    <3> QED BY <3>1, PieceIs, Zenon
  <2> HIDE DEF x, n
  <2>2. tt = x
    BY <1>5, <1>6, <2>1, SameSeq
  <2> QED BY <2>2 DEF x
<1>8. WordsUpto(s, last) = Words(t)
  <2> DEFINE a == first - 1
             x == SubSeq(ss, 1, a)
  <2>1. 1 \in 1 .. Len(ss) + 1 /\ a \in 1 - 1 .. Len(ss) /\ last \in a .. Len(ss) /\ a + 1 = first
    BY <1>1, <1>5
  <2> HIDE DEF a
  <2>2. SubSeq(ss, 1, last) = Cat(x, tt)
    BY <1>5, <1>7, <2>1, PiecesJoin
  <2>3. x \in Seq(Seq(Chars)) /\ FlattenSeq(x) = <<>>
    <3>1. x \in Seq(Seq(Chars))
      BY <1>5, <2>1, PieceIs
    <3>2. WordsUpto(s, a) = <<>>
      BY WordsBegin DEF a
    <3> QED BY <3>1, <3>2 DEF WordsUpto, ss
  <2> HIDE DEF x
  <2>4. FlattenSeq(Cat(x, tt)) = Cat(FlattenSeq(x), FlattenSeq(tt))
    BY <1>5, <2>3, FlattenConcat
  <2>5. FlattenSeq(tt) = Words(t) /\ FlattenSeq(tt) \in Seq(Chars)
    BY <1>3, <1>5, WordsAre, FlattenType DEF tt
  <2>6. Cat(<<>>, FlattenSeq(tt)) = FlattenSeq(tt)
    BY <2>5, CatProperties
  <2> QED BY <2>2, <2>3, <2>4, <2>5, <2>6, Zenon DEF WordsUpto, ss
<1>9. \E p \in 1 .. Len(t) : ~Blank(t[p])
  BY <1>1, <1>3, <1>4
<1> QED BY <1>3, <1>8, <1>9, WordsBegin DEF t

-----------------------------------------------------------------------------
(***************************************************************************)
(* strSimplified.                                                          *)
(***************************************************************************)
\* The word that follows the blanks at f, and where it ends.
WordStart(s, f, last) == FirstOf({q \in f + 1 .. last : ~Blank(s[q])}, last)
WordEnd(s, g, last)   == FirstOf({q \in g + 1 .. last - 1 : Blank(s[q])}, last)

LEMMA WordStartIs ==
  ASSUME NEW s, NEW last \in Nat, NEW f \in 1 .. last
  PROVE  /\ f = last => WordStart(s, f, last) = last
         /\ f < last /\ ~Blank(s[last]) =>
              /\ WordStart(s, f, last) \in f + 1 .. last
              /\ ~Blank(s[WordStart(s, f, last)])
              /\ \A p \in f + 1 .. WordStart(s, f, last) - 1 : Blank(s[p])
         /\ f < last => WordStart(s, f, last) \in f + 1 .. last
<1> DEFINE S == {q \in f + 1 .. last : ~Blank(s[q])}
           g == FirstOf(S, last)
<1>1. WordStart(s, f, last) = g
  BY DEF WordStart
<1>2. S \in SUBSET Nat /\ \A q : q \in S <=> q \in f + 1 .. last /\ ~Blank(s[q])
  OBVIOUS
<1>3. S # {} => g \in S /\ \A q \in S : g <= q
  BY <1>2, FirstOfLeast
<1>4. S = {} => g = last
  BY FirstOfNone
<1> HIDE DEF S, g
<1>5. f = last => g = last
  <2> SUFFICES ASSUME f = last PROVE g = last
    OBVIOUS
  <2>1. S = {}
    BY <1>2
  <2> QED BY <1>4, <2>1
<1>6. f < last => g \in f + 1 .. last
  BY <1>2, <1>3, <1>4
<1>7. f < last /\ ~Blank(s[last]) => ~Blank(s[g]) /\ \A p \in f + 1 .. g - 1 : Blank(s[p])
  <2> SUFFICES ASSUME f < last, ~Blank(s[last])
               PROVE  ~Blank(s[g]) /\ \A p \in f + 1 .. g - 1 : Blank(s[p])
    OBVIOUS
  <2>1. last \in S
    BY <1>2
  <2>2. g \in S /\ (\A q \in S : g <= q) /\ g \in f + 1 .. last
    BY <1>3, <1>6, <2>1
  <2>3. \A p \in f + 1 .. g - 1 : p \in f + 1 .. last /\ ~ (g <= p)
    BY <2>2
  <2> QED BY <1>2, <2>2, <2>3
<1> QED BY <1>1, <1>5, <1>6, <1>7

LEMMA WordEndIs ==
  ASSUME NEW s, NEW last \in Nat, NEW g \in 1 .. last, ~Blank(s[g]), ~Blank(s[last])
  PROVE  LET e == WordEnd(s, g, last)
         IN \/ e = last /\ \A p \in g .. last : ~Blank(s[p])
            \/ /\ e \in g + 1 .. last - 1 /\ e # last /\ Blank(s[e])
               /\ \A p \in g .. e - 1 : ~Blank(s[p])
<1> DEFINE S == {q \in g + 1 .. last - 1 : Blank(s[q])}
           e == FirstOf(S, last)
<1>1. WordEnd(s, g, last) = e
  BY DEF WordEnd
<1>2. S \in SUBSET Nat /\ \A q : q \in S <=> q \in g + 1 .. last - 1 /\ Blank(s[q])
  OBVIOUS
<1>3. S # {} => e \in S /\ \A q \in S : e <= q
  BY <1>2, FirstOfLeast
<1>4. S = {} => e = last
  BY FirstOfNone
<1> HIDE DEF S, e
<1>5. \A p \in g .. last : p = g \/ p = last \/ p \in g + 1 .. last - 1
  OBVIOUS
<1>6. CASE S = {}
  BY <1>1, <1>2, <1>4, <1>5, <1>6
<1>7. CASE S # {}
  <2>1. e \in S /\ (\A q \in S : e <= q) /\ e \in g + 1 .. last - 1 /\ Blank(s[e])
    BY <1>2, <1>3, <1>7
  <2>2. \A p \in g .. e - 1 : p \in g .. last /\ p # last /\ ~ (e <= p)
    BY <2>1
  <2>3. \A p \in g .. e - 1 : ~Blank(s[p])
    BY <1>2, <1>5, <2>1, <2>2
  <2>4. e # last
    BY <2>1
  <2> QED BY <1>1, <2>1, <2>3, <2>4
<1> QED BY <1>6, <1>7

LEMMA WordEndRange ==
  ASSUME NEW s, NEW last \in Nat, NEW g \in 1 .. last
  PROVE  WordEnd(s, g, last) \in g + 1 .. last \/ WordEnd(s, g, last) = last
<1> DEFINE S == {q \in g + 1 .. last - 1 : Blank(s[q])}
           e == FirstOf(S, last)
<1>1. S \in SUBSET Nat /\ \A q \in S : q \in g + 1 .. last
  OBVIOUS
<1>2. S # {} => e \in S
  BY <1>1, FirstOfLeast
<1>3. S = {} => e = last
  BY FirstOfNone
<1> HIDE DEF S
<1>4. e \in g + 1 .. last \/ e = last
  BY <1>1, <1>2, <1>3
<1> QED BY <1>4 DEF WordEnd, S

\* The rest of a text, from blanks on: a blank, the next word, and so on.
WordsFrom(rest, s, from, last) ==
  \A f \in from .. last :
    LET g == WordStart(s, f, last)
        e == WordEnd(s, g, last)
    IN rest[f] = Cat(Gap, IF e = last THEN SubSeq(s, g, last)
                          ELSE Cat(SubSeq(s, g, e - 1), rest[e]))

LEMMA ShortenedIs ==
  ASSUME NEW s \in Seq(Chars), NEW last \in 1 .. Len(s), NEW from \in 1 .. last
  PROVE  \E rest : WordsFrom(rest, s, from, last) /\ Shortened(s, from, last) = rest[from]
<1> DEFINE V == Seq(Chars)
           N == last - from
           G(f) == WordStart(s, f, last)
           E(f) == WordEnd(s, G(f), last)
           Rest(f, v) == Cat(Gap, IF E(f) = last THEN SubSeq(s, G(f), last)
                                    ELSE Cat(SubSeq(s, G(f), E(f) - 1), v))
           back == [i \in 1 .. N |-> last - E(last - i)]
           step == [i \in 1 .. N |-> [v \in V |-> Rest(last - i, v)]]
           start == Rest(last, <<>>)
<1>0. last \in Nat /\ from \in Nat /\ N \in Nat /\ Gap \in V /\ <<>> \in V /\ Len(s) \in Nat
      /\ from <= last /\ last \in from .. last /\ from > 0 /\ last <= Len(s)
  <2>1. Gap \in V /\ <<>> \in V
    BY GapIs, EmptyType
  <2> HIDE DEF V
  <2> QED BY <2>1
<1>1. ASSUME NEW f \in from .. last
      PROVE  /\ G(f) \in 1 .. last /\ E(f) \in 1 .. last
             /\ f < last => E(f) \in f + 1 .. last
             /\ f = last => E(f) = last
  <2> DEFINE g == G(f)
             e == E(f)
  <2>0. f \in 1 .. last /\ last \in Nat
    <3>1. from \in Nat /\ from > 0 /\ last \in Nat
      BY <1>0
    <3> QED BY <3>1
  <2>1. (f < last => g \in f + 1 .. last) /\ (f = last => g = last)
    BY <2>0, WordStartIs
  <2>2. g \in 1 .. last
    <3> HIDE DEF g
    <3> QED BY <2>0, <2>1
  <2>3. e \in g + 1 .. last \/ e = last
    BY <2>0, <2>2, WordEndRange
  <2> HIDE DEF g, e
  <2>4. e \in 1 .. last /\ (f < last => e \in f + 1 .. last)
    BY <2>0, <2>1, <2>2, <2>3
  <2>5. f = last => e = last
    BY <2>0, <2>1, <2>3
  <2> QED BY <2>2, <2>4, <2>5 DEF g, e
<1> HIDE DEF G, E
<1>2. ASSUME NEW f \in from .. last, NEW v \in V PROVE Rest(f, v) \in V
  <2>1. G(f) \in 1 .. Len(s) + 1 /\ G(f) \in 1 .. last
        /\ (E(f) # last => E(f) \in G(f) + 1 .. last \/ E(f) \in 1 .. last)
    BY <1>0, <1>1
  <2>2. SubSeq(s, G(f), last) \in V /\ SubSeq(s, G(f), E(f) - 1) \in V
    <3>1. G(f) \in Int /\ last \in Int /\ E(f) - 1 \in Int
          /\ (\A i \in G(f) .. last : s[i] \in Chars)
          /\ (\A i \in G(f) .. E(f) - 1 : s[i] \in Chars)
      BY <1>0, <1>1
    <3> QED BY <3>1, SubSeqProperties
  <2> DEFINE a == SubSeq(s, G(f), last)
             b == SubSeq(s, G(f), E(f) - 1)
  <2> HIDE DEF a, b
  <2>3. a \in V /\ Cat(b, v) \in V
    BY <2>2, CatIs DEF a, b
  <2> DEFINE c == IF E(f) = last THEN a ELSE Cat(b, v)
  <2>4. c \in V
    BY <2>3, Zenon
  <2> HIDE DEF c
  <2>5. Cat(Gap, c) \in V
    BY <1>0, <2>4, CatIs
  <2> QED BY <2>5 DEF c, a, b
<1> HIDE DEF Rest
<1>3. start \in V
  BY <1>0, <1>2
<1>4. \A i \in 1 .. N : last - i \in from .. last /\ last - i < last /\ i \in Nat
  BY <1>0
<1>5. step \in [1 .. N -> [V -> V]] /\ \A i \in 1 .. N : \A v \in V : step[i][v] = Rest(last - i, v)
  BY <1>2, <1>4
<1>6. \A i \in 1 .. N : back[i] \in 0 .. i - 1
  <2> SUFFICES ASSUME NEW i \in 1 .. N PROVE back[i] \in 0 .. i - 1
    OBVIOUS
  <2>1. back[i] = last - E(last - i) /\ E(last - i) \in last - i + 1 .. last
    BY <1>1, <1>4
  <2> QED BY <1>0, <1>4, <2>1
<1>7. \A i \in 1 .. N : back[i] = last - E(last - i)
  OBVIOUS
<1> HIDE DEF V, N, step, back, start
<1>8. PICK h \in [0 .. N -> V] : Backwards(h, N, start, back, step)
  BY <1>0, <1>3, <1>5, <1>6, BackwardsExists
<1> DEFINE r == [f \in from .. last |-> h[last - f]]
<1>9. ASSUME NEW f \in from .. last
      PROVE  r[f] = Rest(f, r[E(f)])
  <2> DEFINE i == last - f
  <2>1. i \in 0 .. N /\ last - i = f /\ r[f] = h[i] /\ (i = 0 => f = last) /\ (i # 0 => i \in 1 .. N)
    BY <1>0 DEF N
  <2> HIDE DEF i, r
  <2>2. CASE i = 0
    <3>1. E(f) = last
      BY <1>1, <2>1, <2>2
    <3>2. r[f] = Rest(f, <<>>)
      BY <1>8, <2>1, <2>2 DEF Backwards, start
    <3> QED BY <3>1, <3>2, Zenon DEF Rest
  <2>3. CASE i # 0
    <3>1. h[i] = step[i][h[back[i]]] /\ back[i] \in 0 .. i - 1 /\ back[i] = last - E(f) /\ i \in 1 .. N
      BY <1>6, <1>7, <1>8, <2>1, <2>3 DEF Backwards
    <3>2. back[i] \in 0 .. N
      BY <1>0, <2>1, <3>1
    <3>3. h[back[i]] \in V
      BY <3>2
    <3>4. h[i] = Rest(f, h[back[i]])
      BY <1>5, <2>1, <3>1, <3>3
    <3>5. E(f) \in from .. last
      BY <1>0, <1>1, <2>1, <2>3
    <3>6. r[E(f)] = h[last - E(f)]
      BY <3>5 DEF r
    <3> QED BY <2>1, <3>1, <3>4, <3>6, Zenon
  <2> QED BY <2>2, <2>3
<1> DEFINE rest[f \in from .. last] == Rest(f, rest[E(f)])
<1>10. rest = [f \in from .. last |-> Rest(f, rest[E(f)])]
  <2>1. r = [f \in from .. last |-> r[f]]
    OBVIOUS
  <2> HIDE DEF r
  <2>2. r = [f \in from .. last |-> Rest(f, r[E(f)])]
    BY <1>9, <2>1, Zenon
  <2> QED BY <2>2, Zenon
<1>11. Shortened(s, from, last) = rest[from]
  BY Zenon DEF Shortened, Rest, E, G, WordStart, WordEnd, Gap, Cat
<1> HIDE DEF rest
<1>12. WordsFrom(rest, s, from, last)
  <2>1. \A f \in from .. last : rest[f] = Rest(f, rest[E(f)])
    BY <1>10
  <2> QED BY <2>1, Zenon DEF WordsFrom, Rest, E, G
<1> QED BY <1>11, <1>12

\* A word, with one blank before it.
LEMMA WordTaken ==
  ASSUME NEW s \in Seq(Chars), NEW first, NEW last, Bounds(s, first, last),
         NEW f \in first .. last, Blank(s[f]),
         NEW g \in f + 1 .. last, \A p \in f + 1 .. g - 1 : Blank(s[p]),
         NEW m \in g .. last, \A p \in g .. m : ~Blank(s[p])
  PROVE  WordsUpto(s, m) = Cat(WordsUpto(s, f), Cat(Gap, SubSeq(s, g, m)))
<1> DEFINE x == WordsUpto(s, f)
           c == <<s[g]>>
           v == SubSeq(s, g + 1, m)
<1>1. /\ first \in 1 .. Len(s) /\ last \in first .. Len(s) /\ Len(s) \in Nat
  BY DEF Bounds
<1>2. /\ f \in 0 .. Len(s) /\ g \in 1 .. Len(s) /\ m \in g .. Len(s) /\ g \in g .. m
      /\ g \in 1 .. Len(s) + 1 /\ g \in g - 1 .. Len(s) /\ m \in g .. Len(s)
      /\ g + 1 \in 1 .. Len(s) + 1 /\ m \in g + 1 - 1 .. Len(s)
  BY <1>1
<1>3. x \in Seq(Chars) /\ v \in Seq(Chars)
  BY <1>2, WordsNext, PieceIs
<1>4. s[g] \in Chars /\ ~Blank(s[g])
  BY <1>2
<1>5. c \in Seq(Chars) /\ Gap \in Seq(Chars)
  BY <1>4, GapIs, SingleType
<1>6. WordsUpto(s, g) = Cat(x, Cat(Gap, c))
  BY <1>4, WordAfterBlank
<1>7. WordsUpto(s, m) = Cat(WordsUpto(s, g), v)
  BY <1>2, WordsOverInk
<1>8. SubSeq(s, g, m) = Cat(c, v)
  <2>1. SubSeq(s, g, m) = Cat(SubSeq(s, g, g), v)
    BY <1>2, PiecesJoin
  <2>2. SubSeq(s, g, g) = c
    BY <1>2, PieceOne
  <2> QED BY <2>1, <2>2
<1> HIDE DEF x, c, v
<1>9. Cat(Cat(x, Cat(Gap, c)), v) = Cat(x, Cat(Gap, Cat(c, v)))
  <2>1. Cat(Gap, c) \in Seq(Chars)
    BY <1>5, CatIs
  <2>2. Cat(Cat(x, Cat(Gap, c)), v) = Cat(x, Cat(Cat(Gap, c), v))
    BY <1>3, <2>1, CatAssociative
  <2>3. Cat(Cat(Gap, c), v) = Cat(Gap, Cat(c, v))
    BY <1>3, <1>5, CatAssociative
  <2> QED BY <2>2, <2>3
<1> QED BY <1>6, <1>7, <1>8, <1>9, Zenon DEF x

\* From blanks on, what is written is the rest of the words.
LEMMA ShortenedWords ==
  ASSUME NEW s \in Seq(Chars), NEW first, NEW last, Bounds(s, first, last),
         NEW from \in first .. last, Blank(s[from])
  PROVE  Cat(WordsUpto(s, from), Shortened(s, from, last)) = Words(s)
<1> DEFINE W(b) == WordsUpto(s, b)
<1>1. /\ first \in 1 .. Len(s) /\ last \in first .. Len(s) /\ Len(s) \in Nat
      /\ ~Blank(s[last])
  BY DEF Bounds
<1>2. /\ last \in 1 .. Len(s) /\ from \in 1 .. last /\ from # last /\ last \in Nat /\ from \in Nat
  BY <1>1
<1>3. PICK rest : WordsFrom(rest, s, from, last) /\ Shortened(s, from, last) = rest[from]
  BY <1>2, ShortenedIs
<1>4. Gap \in Seq(Chars)
  BY GapIs
<1> DEFINE P(n) == n > 0 /\ n <= last - from /\ Blank(s[last - n]) =>
                     rest[last - n] \in Seq(Chars) /\ Cat(W(last - n), rest[last - n]) = W(last)
           T == {n \in Nat : P(n)}
<1> HIDE DEF W
<1>5. ASSUME NEW n \in Nat, \A i \in 0 .. n - 1 : P(i) PROVE P(n)
  <2> DEFINE f == last - n
             g == WordStart(s, f, last)
             e == WordEnd(s, g, last)
             m == e - 1
             v == SubSeq(s, g, m)
             w == SubSeq(s, g, last)
  <2> SUFFICES ASSUME n > 0, n <= last - from, Blank(s[f])
               PROVE  rest[f] \in Seq(Chars) /\ Cat(W(f), rest[f]) = W(last)
    OBVIOUS
  <2>1. f \in from .. last /\ f < last /\ f \in 1 .. last /\ f \in first .. last /\ f \in 0 .. Len(s)
        /\ n = last - f
    BY <1>1, <1>2
  <2> HIDE DEF f
  <2>2. g \in f + 1 .. last /\ ~Blank(s[g]) /\ \A p \in f + 1 .. g - 1 : Blank(s[p])
    BY <1>1, <1>2, <2>1, WordStartIs
  <2> HIDE DEF g
  <2>3. g \in 1 .. last /\ g \in 1 .. Len(s) + 1 /\ last \in g - 1 .. Len(s)
    BY <1>1, <1>2, <2>1, <2>2
  <2>4. \/ e = last /\ \A p \in g .. last : ~Blank(s[p])
        \/ /\ e \in g + 1 .. last - 1 /\ e # last /\ Blank(s[e])
           /\ \A p \in g .. e - 1 : ~Blank(s[p])
    BY <1>1, <1>2, <2>2, <2>3, WordEndIs
  <2>5. rest[f] = Cat(Gap, IF e = last THEN w ELSE Cat(v, rest[e]))
    BY <1>3, <2>1, Zenon DEF WordsFrom, g, e, m, v, w
  <2>6. W(f) \in Seq(Chars)
    BY <2>1, WordsNext DEF W
  <2>7. CASE e = last
    <3>1. \A p \in g .. last : ~Blank(s[p])
      BY <2>4, <2>7
    <3>2. last \in g .. last
      BY <1>2, <2>2, <2>3
    <3>3. W(last) = Cat(W(f), Cat(Gap, w))
      BY <2>1, <2>2, <3>1, <3>2, WordTaken DEF W
    <3>4. w \in Seq(Chars)
      BY <2>3, PieceIs
    <3> HIDE DEF w, e
    <3>5. rest[f] = Cat(Gap, w)
      BY <2>5, <2>7
    <3>6. Cat(Gap, w) \in Seq(Chars)
      BY <1>4, <3>4, CatIs
    <3> QED BY <3>3, <3>5, <3>6
  <2>8. CASE e # last
    <3>1. /\ e \in g + 1 .. last - 1 /\ Blank(s[e])
          /\ \A p \in g .. e - 1 : ~Blank(s[p])
      BY <2>4, <2>8
    <3> HIDE DEF e
    <3>2. /\ m \in g .. last /\ m \in g - 1 .. Len(s) /\ m \in 0 .. Len(s)
          /\ e \in m .. Len(s) /\ e \in 1 .. Len(s)
          /\ last - e \in 0 .. n - 1 /\ last - e > 0 /\ last - e <= last - from /\ last - (last - e) = e
      BY <1>1, <1>2, <2>1, <2>2, <2>3, <3>1
    <3>3. \A p \in m + 1 .. e : p = e
      BY <3>1
    <3>4. \A p \in g .. m : ~Blank(s[p])
      BY <3>1
    <3> HIDE DEF m
    <3>5. W(m) = Cat(W(f), Cat(Gap, v))
      BY <2>1, <2>2, <3>2, <3>4, WordTaken DEF W
    <3>6. W(e) = W(m)
      BY <3>1, <3>2, <3>3, WordsOverBlanks DEF W
    <3>7. P(last - e)
      BY <1>5, <3>2
    <3>8. rest[e] \in Seq(Chars) /\ Cat(W(e), rest[e]) = W(last)
      BY <3>1, <3>2, <3>7
    <3>9. v \in Seq(Chars)
      BY <2>3, <3>2, PieceIs
    <3> DEFINE r == rest[e]
               x == W(f)
    <3>10. rest[f] = Cat(Gap, Cat(v, r))
      BY <2>5, <2>8, Zenon
    <3> HIDE DEF v, r, x
    <3>11. r \in Seq(Chars) /\ x \in Seq(Chars) /\ Cat(v, r) \in Seq(Chars)
           /\ Cat(Gap, Cat(v, r)) \in Seq(Chars) /\ Cat(Gap, v) \in Seq(Chars)
      <4>1. r \in Seq(Chars) /\ x \in Seq(Chars)
        BY <2>6, <3>8 DEF r, x
      <4>2. Cat(v, r) \in Seq(Chars) /\ Cat(Gap, v) \in Seq(Chars)
        BY <1>4, <3>9, <4>1, CatIs
      <4>3. Cat(Gap, Cat(v, r)) \in Seq(Chars)
        BY <1>4, <4>2, CatIs
      <4> QED BY <4>1, <4>2, <4>3
    <3>12. Cat(x, Cat(Gap, Cat(v, r))) = Cat(Cat(x, Cat(Gap, v)), r)
      <4>1. Cat(Cat(x, Cat(Gap, v)), r) = Cat(x, Cat(Cat(Gap, v), r))
        BY <3>11, CatAssociative
      <4>2. Cat(Cat(Gap, v), r) = Cat(Gap, Cat(v, r))
        BY <1>4, <3>9, <3>11, CatAssociative
      <4> QED BY <4>1, <4>2
    <3>13. Cat(x, rest[f]) = Cat(W(e), r)
      BY <3>5, <3>6, <3>10, <3>12, Zenon DEF x
    <3> QED BY <3>8, <3>10, <3>11, <3>13, Zenon DEF x, r
  <2> QED BY <2>7, <2>8
<1> HIDE DEF P
<1>6. \A n \in Nat : (\A i \in 0 .. n - 1 : i \in T) => n \in T
  <2> SUFFICES ASSUME NEW n \in Nat, \A i \in 0 .. n - 1 : i \in T PROVE P(n)
    OBVIOUS
  <2>1. \A i \in 0 .. n - 1 : P(i)
    OBVIOUS
  <2> QED BY <1>5, <2>1
<1> HIDE DEF T
<1>7. last - from \in T
  <2>1. last - from \in Nat
    BY <1>2
  <2> QED BY <1>6, <2>1, StrongInduction
<1>8. P(last - from)
  BY <1>7 DEF T
<1>9. last - from > 0 /\ last - from <= last - from /\ last - (last - from) = from
  BY <1>2
<1>10. Cat(W(from), rest[from]) = W(last)
  BY <1>8, <1>9 DEF P
<1> QED BY <1>3, <1>10, WordsBegin DEF W

\* Where the text can no longer be copied: a blank other than ' ', or one that
\* another follows.
Stops(s, p) == Blank(s[p]) /\ (s[p] # " " \/ Blank(s[p + 1]))

\* Up to there the words of the text are the text itself.
LEMMA WordsCopied ==
  ASSUME NEW s \in Seq(Chars), NEW first, NEW last, Bounds(s, first, last),
         NEW b \in first .. last, ~Blank(s[b]), \A p \in first .. b : ~Stops(s, p)
  PROVE  WordsUpto(s, b) = SubSeq(s, first, b)
<1> DEFINE W(c)    == WordsUpto(s, c)
           Copy(c) == SubSeq(s, first, c)
           P(c) == (\A p \in first .. c : ~Stops(s, p)) =>
                     /\ ~Blank(s[c]) => W(c) = Copy(c)
                     /\ Blank(s[c]) => c > first /\ W(c) = Copy(c - 1)
           T == {n \in Nat : first + n <= last => P(first + n)}
<1>1. /\ first \in 1 .. Len(s) /\ last \in first .. Len(s) /\ Len(s) \in Nat
      /\ ~Blank(s[first])
  BY DEF Bounds
<1>2. W(first) = Copy(first)
  BY <1>1, WordsBegin, PieceOne
<1> HIDE DEF W, Copy
<1>3. P(first)
  BY <1>1, <1>2
<1>4. ASSUME NEW a \in first .. last, a + 1 <= last, P(a) PROVE P(a + 1)
  <2> DEFINE c == a + 1
  <2>1. /\ c \in first .. last /\ c \in 1 .. Len(s) /\ a \in 1 .. Len(s) /\ a \in 0 .. Len(s)
        /\ c \in a .. Len(s) /\ c > first /\ c - 1 = a /\ a + 1 = c /\ a \in first - 1 .. Len(s)
        /\ first \in 1 .. Len(s) + 1 /\ c \in a + 1 .. last /\ a \in first .. c
    <3> DEFINE n == Len(s)
    <3>1. first \in Nat /\ last \in Nat /\ n \in Nat /\ first >= 1 /\ last <= n
      BY <1>1
    <3>2. a \in Nat /\ first <= a /\ a <= last /\ a + 1 <= last
      BY <1>4, <3>1
    <3> HIDE DEF n
    <3> QED BY <3>1, <3>2 DEF n
  <2>2. \A p : p \in a + 1 .. c => p = c
    BY <2>1
  <2>3. \A p : p \in first .. a => p \in first .. c
    BY <1>1
  <2>4. \A p : p \notin c + 1 .. c
    BY <2>1
  <2>5. \A p : p \notin a + 1 .. c - 1
    BY <2>1
  <2> HIDE DEF c
  <2> SUFFICES ASSUME \A p \in first .. c : ~Stops(s, p)
               PROVE  /\ ~Blank(s[c]) => W(c) = Copy(c)
                      /\ Blank(s[c]) => c > first /\ W(c) = Copy(c - 1)
    BY DEF c
  <2>6. ~Stops(s, a)
    BY <2>1
  <2>7. (~Blank(s[a]) => W(a) = Copy(a)) /\ (Blank(s[a]) => a > first /\ W(a) = Copy(a - 1))
    BY <1>4, <2>3
  <2>8. s[c] \in Chars /\ Copy(c) = Cat(Copy(a), <<s[c]>>)
    <3>1. Copy(c) = Cat(Copy(a), SubSeq(s, c, c))
      BY <2>1, PiecesJoin DEF Copy
    <3>2. SubSeq(s, c, c) = <<s[c]>>
      BY <2>1, PieceOne
    <3> QED BY <2>1, <3>1, <3>2
  <2>9. CASE Blank(s[c])
    <3>1. ~Blank(s[a])
      BY <2>1, <2>6, <2>9 DEF Stops
    <3>2. W(c) = W(a)
      BY <2>1, <2>2, <2>9, WordsOverBlanks DEF W
    <3> QED BY <2>1, <2>7, <2>9, <3>1, <3>2
  <2>10. CASE ~Blank(s[c]) /\ ~Blank(s[a])
    <3>1. \A p \in a .. c : p = a \/ p = c
      BY <2>1
    <3>2. \A p \in a .. c : ~Blank(s[p])
      BY <2>10, <3>1
    <3>3. W(c) = Cat(W(a), SubSeq(s, c, c))
      BY <2>1, <3>2, WordsOverInk DEF W
    <3>4. SubSeq(s, c, c) = <<s[c]>>
      BY <2>1, PieceOne
    <3> QED BY <2>7, <2>8, <2>10, <3>3, <3>4
  <2>11. CASE ~Blank(s[c]) /\ Blank(s[a])
    <3> DEFINE d == a - 1
               x == Copy(d)
               y == <<s[c]>>
    <3>1. a > first /\ W(a) = x
      BY <2>7, <2>11
    <3>2. d \in first - 1 .. Len(s) /\ a \in d .. Len(s) /\ d + 1 = a /\ a \in first .. last
      BY <1>1, <2>1, <3>1
    <3> HIDE DEF d
    <3>3. W(c) = Cat(W(a), Cat(Gap, y))
      BY <2>1, <2>5, <2>11, WordAfterBlank DEF W
    <3>4. Copy(a) = Cat(x, SubSeq(s, a, a))
      <4>1. Copy(a) = Cat(x, SubSeq(s, d + 1, a))
        BY <2>1, <3>2, PiecesJoin, Zenon DEF Copy, x
      <4> QED BY <3>2, <4>1
    <3>5. SubSeq(s, a, a) = Gap
      <4>1. s[a] = " "
        BY <2>6, <2>11 DEF Stops
      <4>2. SubSeq(s, a, a) = <<s[a]>>
        BY <2>1, PieceOne
      <4> QED BY <4>1, <4>2 DEF Gap
    <3>6. x \in Seq(Chars) /\ y \in Seq(Chars) /\ Gap \in Seq(Chars)
      BY <2>1, <2>8, <3>2, PieceIs, SingleType, GapIs DEF Copy
    <3> HIDE DEF x, y
    <3>7. Cat(Cat(x, Gap), y) = Cat(x, Cat(Gap, y))
      BY <3>6, CatAssociative
    <3>8. Copy(c) = Cat(Cat(x, Gap), y)
      BY <2>8, <3>4, <3>5 DEF y
    <3> QED BY <2>11, <3>1, <3>3, <3>7, <3>8
  <2> QED BY <2>9, <2>10, <2>11
<1> HIDE DEF P
<1>5. 0 \in T /\ \A n \in Nat : n \in T => n + 1 \in T
  <2>1. first + 0 = first /\ 0 \in Nat
    BY <1>1
  <2>2. 0 \in T
    BY <1>3, <2>1
  <2>3. ASSUME NEW n \in Nat, n \in T, first + (n + 1) <= last PROVE P(first + (n + 1))
    <3> DEFINE a == first + n
    <3>1. a \in first .. last /\ a + 1 <= last /\ a + 1 = first + (n + 1) /\ first + n <= last
      BY <1>1, <2>3
    <3>2. P(a)
      BY <2>3, <3>1
    <3> HIDE DEF a
    <3> QED BY <1>4, <3>1, <3>2
  <2> QED BY <2>2, <2>3
<1> HIDE DEF T
<1>6. b - first \in T
  <2>1. b - first \in Nat
    BY <1>1
  <2> QED BY <1>5, <2>1, Induction
<1>7. first + (b - first) = b /\ b <= last
  BY <1>1
<1>8. P(b)
  BY <1>6, <1>7 DEF T
<1> QED BY <1>8 DEF P, W, Copy

\* strSimplified returns the words.
LEMMA SimplifiedIsWords ==
  ASSUME NEW s \in Seq(Chars), \E p \in 1 .. Len(s) : ~Blank(s[p]), ~Overruns(s)
  PROVE  strSimplified(s) = Words(s)
<1> DEFINE inked == {p \in DOMAIN s : ~Blank(s[p])}
           first == FirstOf(inked, 0)
           last  == LastOf(inked, 0)
           S     == {p \in first .. last : Blank(s[p]) /\ (s[p] # " " \/ Blank(s[p + 1]))}
           stop  == FirstOf(S, last + 1)
           from  == IF s[stop] = " " THEN stop + 1 ELSE stop
<1>0. /\ Ink(s) = inked /\ FirstInk(s) = first /\ LastInk(s) = last
      /\ Stop(s) = stop /\ StopFrom(s) = from
  BY Zenon DEF Ink, FirstInk, LastInk, Stop, StopFrom
<1>1. strSimplified(s) =
        CASE inked = {} -> s
          [] inked # {} /\ stop > last -> SubSeq(s, first, last)
          [] Overruns(s) -> Undefined
          [] inked # {} /\ stop <= last /\ ~Overruns(s) ->
               Cat(SubSeq(s, first, stop - 1), Shortened(s, from, last))
  BY <1>0, Zenon DEF strSimplified, Cat
<1>2. inked # {}
  OBVIOUS
<1>3. Bounds(s, first, last)
  BY BoundsAre
<1> HIDE DEF inked, first, last
<1> DEFINE copied == SubSeq(s, first, last)
           short  == Cat(SubSeq(s, first, stop - 1), Shortened(s, from, last))
<1>10. strSimplified(s) =
         CASE inked = {} -> s
           [] inked # {} /\ stop > last -> copied
           [] Overruns(s) -> Undefined
           [] inked # {} /\ stop <= last /\ ~Overruns(s) -> short
  BY <1>1, Zenon
<1> HIDE DEF copied, short
<1>4. /\ first \in 1 .. Len(s) /\ last \in first .. Len(s) /\ Len(s) \in Nat
      /\ ~Blank(s[first]) /\ ~Blank(s[last])
  BY <1>3 DEF Bounds
<1>5. S \in SUBSET Nat /\ \A p : p \in S <=> p \in first .. last /\ Stops(s, p)
  <2>1. S = {p \in first .. last : Stops(s, p)}
    BY Zenon DEF Stops
  <2> HIDE DEF S
  <2> QED BY <1>4, <2>1
<1>6. S # {} => stop \in S /\ \A q \in S : stop <= q
  BY <1>5, FirstOfLeast
<1>7. S = {} => stop = last + 1
  BY FirstOfNone
<1> HIDE DEF S, stop, from
<1>11. stop > last /\ last \in Nat /\ stop \in Nat => strSimplified(s) = copied
  <2> SUFFICES ASSUME stop > last, last \in Nat, stop \in Nat, Overruns(s) => FALSE
               PROVE  strSimplified(s) = copied
    OBVIOUS
  <2> QED BY <1>2, <1>10
<1>12. stop <= last /\ last \in Nat /\ stop \in Nat => strSimplified(s) = short
  BY <1>2, <1>10
<1>8. CASE S = {}
  <2>1. stop > last
    BY <1>4, <1>7, <1>8
  <2>2. last \in first .. last /\ \A p \in first .. last : ~Stops(s, p)
    BY <1>4, <1>5, <1>8
  <2>3. WordsUpto(s, last) = SubSeq(s, first, last)
    BY <1>3, <1>4, <2>2, WordsCopied
  <2>4. Words(s) = WordsUpto(s, last)
    BY <1>3, WordsBegin
  <2>5. last \in Nat /\ stop \in Nat
    BY <1>4, <1>7, <1>8
  <2> QED BY <1>11, <2>1, <2>3, <2>4, <2>5 DEF copied
<1>9. CASE S # {}
  <2> DEFINE d == stop - 1
  <2>1. stop \in first .. last /\ Stops(s, stop) /\ Blank(s[stop]) /\ \A q \in S : stop <= q
    BY <1>5, <1>6, <1>9 DEF Stops
  <2>2. stop # first /\ stop # last
    BY <1>4, <2>1
  <2>3. /\ d \in first .. last /\ d + 1 = stop /\ stop \in d .. Len(s) /\ d \in 0 .. Len(s)
        /\ stop \in 0 .. Len(s) /\ ~ (stop > last) /\ d < stop
        /\ stop + 1 \in first .. last /\ stop + 1 \in stop .. Len(s)
    BY <1>4, <2>1, <2>2
  <2>4. \A p \in first .. d : p \in first .. last /\ ~ (stop <= p)
    BY <1>4, <2>1
  <2>5. \A p \in first .. d : ~Stops(s, p)
    BY <1>5, <2>1, <2>4
  <2>6. d \in first .. d /\ (\A p : p \in d + 1 .. stop => p = stop)
        /\ (\A p : p \in stop + 1 .. stop + 1 => p = stop + 1) /\ (\A p : p \notin stop + 1 .. stop)
    BY <1>4, <2>1
  <2> HIDE DEF d
  <2>7. ~Blank(s[d])
    BY <2>1, <2>3, <2>5, <2>6 DEF Stops, Blank, Blanks
  <2>8. WordsUpto(s, d) = SubSeq(s, first, d)
    BY <1>3, <2>3, <2>5, <2>7, WordsCopied
  <2>9. WordsUpto(s, stop) = WordsUpto(s, d)
    BY <2>1, <2>3, <2>6, WordsOverBlanks
  <2>10. /\ from \in first .. last /\ Blank(s[from])
         /\ WordsUpto(s, from) = WordsUpto(s, stop)
    <3>1. CASE s[stop] = " "
      <4>1. from = stop + 1 /\ Blank(s[stop + 1])
        BY <2>1, <3>1 DEF from, Stops
      <4>2. WordsUpto(s, stop + 1) = WordsUpto(s, stop)
        BY <2>3, <2>6, <4>1, WordsOverBlanks
      <4> QED BY <2>3, <4>1, <4>2
    <3>2. CASE s[stop] # " "
      BY <2>1, <3>2 DEF from
    <3> QED BY <3>1, <3>2
  <2>11. Cat(WordsUpto(s, from), Shortened(s, from, last)) = Words(s)
    BY <1>3, <1>4, <2>10, ShortenedWords
  <2>12. strSimplified(s) = Cat(SubSeq(s, first, d), Shortened(s, from, last))
    <3>1. stop <= last /\ last \in Nat /\ stop \in Nat
      BY <1>4, <2>1
    <3> QED BY <1>12, <3>1, Zenon DEF d, short
  <2> QED BY <2>8, <2>9, <2>10, <2>11, <2>12, Zenon
<1> QED BY <1>8, <1>9

LEMMA TrimmedIs ==
  ASSUME NEW s \in Seq(Chars), \E p \in 1 .. Len(s) : ~Blank(s[p])
  PROVE  /\ strTrim(s, Blanks) \in Seq(Chars)
         /\ \E p \in 1 .. Len(strTrim(s, Blanks)) : ~Blank(strTrim(s, Blanks)[p])
         /\ Words(strTrim(s, Blanks)) = Words(s)
<1> DEFINE inked == {p \in DOMAIN s : ~Blank(s[p])}
           first == FirstOf(inked, 1)
           last  == LastOf(inked, 0)
<1>1. strTrim(s, Blanks) = SubSeq(s, first, last)
  BY Zenon DEF strTrim, Blank
<1>2. Bounds(s, first, last)
  BY BoundsAre
<1> HIDE DEF first, last
<1> QED BY <1>1, <1>2, WordsOfTrimmed

\* For every text that has a word and that does not overrun the copy: what
\* strSimplified returns (t_stropt.cpp:248) are its words with one blank between
\* each two, however the loops take it apart - the part that is copied as it is,
\* the blank it ends with, the last word - and strTrim (t_stropt.cpp:234) before
\* it makes no difference.
THEOREM WordsKeptAlways == TextSpec => []WordsKept
<1>1. text \in Texts /\ way \in Ways => WordsKept
  <2> DEFINE t == strTrim(text, Blanks)
  <2> SUFFICES ASSUME text \in Texts, Ink(text) # {}
               PROVE  /\ ~Overruns(text) => strSimplified(text) = Words(text)
                      /\ ~Overruns(t) => strSimplified(t) = Words(text)
    BY Zenon DEF WordsKept
  <2>1. text \in Seq(Chars) /\ \E p \in 1 .. Len(text) : ~Blank(text[p])
    BY TextsType DEF Ink
  <2>2. ~Overruns(text) => strSimplified(text) = Words(text)
    BY <2>1, SimplifiedIsWords
  <2>3. t \in Seq(Chars) /\ (\E p \in 1 .. Len(t) : ~Blank(t[p])) /\ Words(t) = Words(text)
    BY <2>1, TrimmedIs
  <2> HIDE DEF t
  <2>4. ~Overruns(t) => strSimplified(t) = Words(text)
    BY <2>3, SimplifiedIsWords
  <2> QED BY <2>2, <2>4
<1> QED BY <1>1, TextStays, PTL

-----------------------------------------------------------------------------
(***************************************************************************)
(* The digits of a number.                                                 *)
(***************************************************************************)
LEMMA DigitsAre == Digits = {"0", "1", "2", "3", "4", "5", "6", "7", "8", "9"}
<1>1. \A i \in 1 .. 10 : i = 1 \/ i = 2 \/ i = 3 \/ i = 4 \/ i = 5 \/ i = 6 \/ i = 7 \/ i = 8
                        \/ i = 9 \/ i = 10
  OBVIOUS
<1>2. DOMAIN Numeral = 1 .. 10
  BY DEF Numeral
<1>3. /\ Numeral[1] = "0" /\ Numeral[2] = "1" /\ Numeral[3] = "2" /\ Numeral[4] = "3"
      /\ Numeral[5] = "4" /\ Numeral[6] = "5" /\ Numeral[7] = "6" /\ Numeral[8] = "7"
      /\ Numeral[9] = "8" /\ Numeral[10] = "9"
  BY DEF Numeral
<1>4. Digits = {Numeral[x] : x \in 1 .. 10}
  BY <1>2 DEF Digits, Range
<1> QED BY <1>1, <1>3, <1>4

LEMMA NumeralApart ==
  \A d, e \in 0 .. 9 : Numeral[d + 1] = Numeral[e + 1] => d = e
<1>1. \A i \in 0 .. 9 : i = 0 \/ i = 1 \/ i = 2 \/ i = 3 \/ i = 4 \/ i = 5 \/ i = 6 \/ i = 7
                       \/ i = 8 \/ i = 9
  OBVIOUS
<1>2. /\ Numeral[0 + 1] = "0" /\ Numeral[1 + 1] = "1" /\ Numeral[2 + 1] = "2"
      /\ Numeral[3 + 1] = "3" /\ Numeral[4 + 1] = "4" /\ Numeral[5 + 1] = "5"
      /\ Numeral[6 + 1] = "6" /\ Numeral[7 + 1] = "7" /\ Numeral[8 + 1] = "8"
      /\ Numeral[9 + 1] = "9"
  BY DEF Numeral
<1> QED BY <1>1, <1>2

LEMMA NumeralIn == \A d \in 0 .. 9 : Numeral[d + 1] \in Digits
<1>1. \A d \in 0 .. 9 : d + 1 \in 1 .. 10
  OBVIOUS
<1>2. DOMAIN Numeral = 1 .. 10
  BY DEF Numeral
<1> QED BY <1>1, <1>2 DEF Digits, Range

\* A digit is no sign, no mark and no blank.
LEMMA DigitsApart ==
  /\ Digits \subseteq Chars
  /\ \A c \in Digits : /\ c \notin {" ", "\t"} /\ c \notin {"+", "-"}
                       /\ c \notin {".", ","} /\ c \notin {"e", "E"}
<1>1. Digits \subseteq Chars
  BY TextAssumption, Zenon
<1> QED BY <1>1, DigitsAre

\* What a character stands for.
LEMMA DigitAtIs ==
  /\ \A s, p : s[p] \in Digits => DigitAt(s, p) \in 0 .. 9
  /\ \A s, p : \A d \in 0 .. 9 : s[p] = Numeral[d + 1] => DigitAt(s, p) = d
<1>1. ASSUME NEW c \in Digits PROVE \E d \in 0 .. 9 : Numeral[d + 1] = c
  <2>1. PICK x \in DOMAIN Numeral : Numeral[x] = c
    BY DEF Digits, Range
  <2>2. DOMAIN Numeral = 1 .. 10
    BY DEF Numeral
  <2>3. x - 1 \in 0 .. 9 /\ x - 1 + 1 = x
    BY <2>1, <2>2
  <2> DEFINE d == x - 1
  <2> HIDE DEF d
  <2>4. d \in 0 .. 9 /\ d + 1 = x
    BY <2>3 DEF d
  <2> QED BY <2>1, <2>4
<1>2. \A s, p : s[p] \in Digits => DigitAt(s, p) \in 0 .. 9
  BY <1>1, Zenon DEF DigitAt
<1>3. ASSUME NEW s, NEW p, NEW d \in 0 .. 9, s[p] = Numeral[d + 1]
      PROVE  DigitAt(s, p) = d
  <2>1. DigitAt(s, p) \in 0 .. 9 /\ Numeral[DigitAt(s, p) + 1] = s[p]
    BY <1>3, Zenon DEF DigitAt
  <2> HIDE DEF DigitAt
  <2> QED BY <1>3, <2>1, NumeralApart
<1> QED BY <1>2, <1>3

-----------------------------------------------------------------------------
(***************************************************************************)
(* The number a run of digits continues.                                   *)
(***************************************************************************)
Keep(m, short) == IF short THEN Wrapped(m) ELSE m

LEMMA WrappedIs ==
  /\ \A m \in Int : Wrapped(m) \in Int
  /\ \A m \in 1 - ExpHalf .. ExpHalf - 1 : Wrapped(m) = m
<1>1. ExpHalf \in Nat /\ ExpHalf > 0
  <2>1. ExpHalf \in Nat \ {0}
    BY TextAssumption, Zenon
  <2> QED BY <2>1
<1>2. ASSUME NEW m \in Int PROVE Wrapped(m) \in Int
  <2> DEFINE r == (m + ExpHalf) % (2 * ExpHalf)
  <2>1. r \in Int
    BY <1>1
  <2> HIDE DEF r
  <2>2. r - ExpHalf \in Int
    BY <1>1, <2>1
  <2> QED BY <2>2 DEF Wrapped, r
<1>3. ASSUME NEW m \in 1 - ExpHalf .. ExpHalf - 1 PROVE Wrapped(m) = m
  <2> DEFINE a == m + ExpHalf
             b == 2 * ExpHalf
  <2>1. a \in 0 .. b - 1 /\ b \in Nat \ {0} /\ m \in Int
    BY <1>1
  <2> HIDE DEF a, b
  <2>2. a % b = a
    BY <2>1
  <2>3. Wrapped(m) = a - ExpHalf
    BY <2>2 DEF Wrapped, a, b
  <2> QED BY <1>1, <2>1, <2>3 DEF a
<1> QED BY <1>2, <1>3

LEMMA KeepIs ==
  /\ \A m \in Int : \A short \in BOOLEAN : Keep(m, short) \in Int
  /\ \A m \in Int : Keep(m, FALSE) = m
  /\ \A m \in Nat : m < ExpHalf => Keep(m, TRUE) = m
<1>1. ExpHalf \in Nat
  BY TextAssumption, Zenon
<1>2. \A m \in Nat : m < ExpHalf => m \in 1 - ExpHalf .. ExpHalf - 1
  BY <1>1
<1> QED BY <1>2, WrappedIs DEF Keep

\* Continued reads one digit after the other.
DigitsFrom(s, p, N) == \A i \in 1 .. N : s[p + i - 1] \in Digits

Reading(f, s, p, N, n, short) ==
  /\ f \in [0 .. N -> Int]
  /\ f[0] = n
  /\ \A i \in 1 .. N :
       f[i] = Keep(Keep(f[i - 1] * 10, short) + DigitAt(s, p + i - 1), short)
  /\ Continued(s, p, p + N, n, short) = f[N]

LEMMA ContinuedIs ==
  ASSUME NEW s, NEW p \in Nat, p > 0, NEW N \in Nat, NEW n \in Int, NEW short \in BOOLEAN,
         DigitsFrom(s, p, N)
  PROVE  \E f : Reading(f, s, p, N, n, short)
<1> DEFINE Next(i, v) == Keep(Keep(v * 10, short) + DigitAt(s, p + i - 1), short)
           step == [i \in 1 .. N |-> [v \in Int |-> Next(i, v)]]
           D == p - 1 .. (p + N) - 1
<1>1. ASSUME NEW i \in 1 .. N, NEW v \in Int PROVE Next(i, v) \in Int
  <2>1. DigitAt(s, p + i - 1) \in Int
    BY DigitAtIs DEF DigitsFrom
  <2>2. Keep(v * 10, short) \in Int
    BY KeepIs
  <2> HIDE DEF DigitAt
  <2> QED BY <2>1, <2>2, KeepIs
<1> HIDE DEF Next
<1>2. step \in [1 .. N -> [Int -> Int]] /\ \A i \in 1 .. N : \A v \in Int : step[i][v] = Next(i, v)
  BY <1>1
<1> HIDE DEF step
<1>3. PICK f \in [0 .. N -> Int] : Recursive(f, N, n, step)
  BY <1>2, RecursionExists
<1>4. f[0] = n /\ \A i \in 1 .. N : f[i] = Next(i, f[i - 1])
  <2>1. \A i \in 1 .. N : f[i] = step[i][f[i - 1]] /\ f[i - 1] \in Int
    BY <1>3 DEF Recursive
  <2> QED BY <1>2, <1>3, <2>1 DEF Recursive
<1> DEFINE h == [q \in D |-> f[q - (p - 1)]]
           value[q \in D] ==
             IF q < p THEN n
             ELSE Keep(Keep(value[q - 1] * 10, short) + DigitAt(s, q), short)
<1>5. ASSUME NEW q \in D
      PROVE  h[q] = IF q < p THEN n
                    ELSE Keep(Keep(h[q - 1] * 10, short) + DigitAt(s, q), short)
  <2> DEFINE i == q - (p - 1)
  <2>1. i \in 0 .. N /\ h[q] = f[i] /\ (q < p <=> i = 0) /\ p + i - 1 = q
        /\ (i # 0 => i \in 1 .. N /\ q - 1 \in D /\ (q - 1) - (p - 1) = i - 1)
    OBVIOUS
  <2>2. i # 0 => h[q - 1] = f[i - 1]
    BY <2>1
  <2> HIDE DEF i, h, D
  <2>3. CASE i = 0
    BY <1>4, <2>1, <2>3
  <2>4. CASE i # 0
    <3>1. f[i] = Next(i, f[i - 1])
      BY <1>4, <2>1, <2>4
    <3> QED BY <2>1, <2>2, <2>4, <3>1, Zenon DEF Next
  <2> QED BY <2>3, <2>4
<1>6. value = [q \in D |->
                IF q < p THEN n
                ELSE Keep(Keep(value[q - 1] * 10, short) + DigitAt(s, q), short)]
  <2>1. h = [q \in D |-> h[q]]
    OBVIOUS
  <2> HIDE DEF h
  <2>2. h = [q \in D |->
              IF q < p THEN n
              ELSE Keep(Keep(h[q - 1] * 10, short) + DigitAt(s, q), short)]
    BY <1>5, <2>1, Zenon
  <2> QED BY <2>2, Zenon
<1>7. Continued(s, p, p + N, n, short) = value[(p + N) - 1]
  BY Zenon DEF Continued, Keep
<1> HIDE DEF value, h
<1>8. \A q \in D :
        value[q] = IF q < p THEN n
                   ELSE Keep(Keep(value[q - 1] * 10, short) + DigitAt(s, q), short)
  BY <1>6, Zenon
<1> DEFINE T == {i \in Nat : i <= N => value[p - 1 + i] = f[i]}
<1>9. 0 \in T
  <2>1. p - 1 \in D /\ p - 1 < p /\ p - 1 + 0 = p - 1
    OBVIOUS
  <2> HIDE DEF D
  <2>2. value[p - 1] = n
    BY <1>8, <2>1
  <2> QED BY <1>4, <2>1, <2>2
<1>10. ASSUME NEW i \in Nat, i \in T PROVE i + 1 \in T
  <2> SUFFICES ASSUME i + 1 <= N PROVE value[p - 1 + (i + 1)] = f[i + 1]
    OBVIOUS
  <2> DEFINE q == p - 1 + (i + 1)
             j == i + 1
  <2>1. q \in D /\ ~ (q < p) /\ q - 1 = p - 1 + i /\ j \in 1 .. N /\ j - 1 = i /\ p + j - 1 = q
        /\ i <= N
    OBVIOUS
  <2>2. value[q - 1] = f[i]
    BY <1>10, <2>1
  <2> HIDE DEF q, j, D
  <2>3. value[q] = Keep(Keep(value[q - 1] * 10, short) + DigitAt(s, q), short)
    BY <1>8, <2>1, Zenon
  <2>4. f[j] = Keep(Keep(f[i] * 10, short) + DigitAt(s, q), short)
    BY <1>4, <2>1 DEF Next
  <2>5. value[q] = f[j]
    BY <2>2, <2>3, <2>4, Zenon
  <2> QED BY <2>5 DEF q, j
<1> HIDE DEF T, D
<1>11. N \in T
  BY <1>9, <1>10, Induction
<1>12. value[p - 1 + N] = f[N] /\ p - 1 + N = (p + N) - 1
  BY <1>11 DEF T
<1> QED BY <1>4, <1>7, <1>12, Zenon DEF Next, Reading

LEMMA ContinuedNone ==
  ASSUME NEW s, NEW p \in Nat, p > 0, NEW n \in Int, NEW short \in BOOLEAN
  PROVE  Continued(s, p, p, n, short) = n
<1> DEFINE N == 0
<1>1. N \in Nat /\ p + N = p /\ DigitsFrom(s, p, N)
  BY DEF DigitsFrom
<1> HIDE DEF N
<1>2. PICK f : Reading(f, s, p, N, n, short)
  BY <1>1, ContinuedIs
<1>3. f[0] = n /\ Continued(s, p, p + N, n, short) = f[N]
  BY <1>2, Zenon DEF Reading
<1> QED BY <1>1, <1>3 DEF N

LEMMA ContinuedNext ==
  ASSUME NEW s, NEW p \in Nat, p > 0, NEW N \in Nat, NEW n \in Int, NEW short \in BOOLEAN,
         DigitsFrom(s, p, N + 1)
  PROVE  /\ Continued(s, p, p + N, n, short) \in Int
         /\ Continued(s, p, p + (N + 1), n, short) =
              Keep(Keep(Continued(s, p, p + N, n, short) * 10, short) + DigitAt(s, p + N), short)
<1> DEFINE M == N + 1
           Next(i, v) == Keep(Keep(v * 10, short) + DigitAt(s, p + i - 1), short)
<1>1. /\ M \in Nat /\ M \in 1 .. M /\ M - 1 = N /\ p + M - 1 = p + N /\ N \in 0 .. N
      /\ DigitsFrom(s, p, N) /\ DigitsFrom(s, p, M)
  BY DEF DigitsFrom
<1> HIDE DEF M
<1>2. PICK f : Reading(f, s, p, N, n, short)
  BY <1>1, ContinuedIs
<1>3. PICK g : Reading(g, s, p, M, n, short)
  BY <1>1, ContinuedIs
<1>4. /\ f \in [0 .. N -> Int] /\ f[0] = n /\ Continued(s, p, p + N, n, short) = f[N]
      /\ g[0] = n /\ Continued(s, p, p + M, n, short) = g[M]
  BY <1>2, <1>3, Zenon DEF Reading
<1>5. (\A i \in 1 .. N : f[i] = Next(i, f[i - 1])) /\ \A i \in 1 .. M : g[i] = Next(i, g[i - 1])
  BY <1>2, <1>3, Zenon DEF Reading
<1> HIDE DEF Next
<1> DEFINE T == {i \in Nat : i <= N => f[i] = g[i]}
<1>6. 0 \in T
  BY <1>4
<1>7. ASSUME NEW i \in Nat, i \in T PROVE i + 1 \in T
  <2> SUFFICES ASSUME i + 1 <= N PROVE f[i + 1] = g[i + 1]
    OBVIOUS
  <2> DEFINE j == i + 1
  <2>1. j \in 1 .. N /\ j \in 1 .. M /\ j - 1 = i /\ i <= N
    BY DEF M
  <2>2. f[i] = g[i]
    BY <1>7, <2>1
  <2> HIDE DEF j
  <2>3. f[j] = g[j]
    BY <1>5, <2>1, <2>2
  <2> QED BY <2>3 DEF j
<1> HIDE DEF T
<1>8. N \in T
  BY <1>6, <1>7, Induction
<1>9. f[N] = g[N]
  BY <1>8 DEF T
<1>10. g[M] = Next(M, g[N])
  BY <1>1, <1>5
<1>11. f[N] \in Int
  BY <1>1, <1>4
<1> QED BY <1>1, <1>4, <1>9, <1>10, <1>11, Zenon DEF Next, M

\* The number the first j characters of u make.
Num(u, j, short) == Continued(u, 1, 1 + j, 0, short)

LEMMA NumNext ==
  ASSUME NEW u, NEW short \in BOOLEAN
  PROVE  /\ Num(u, 0, short) = 0
         /\ \A j \in Nat : (\A i \in 1 .. j + 1 : u[i] \in Digits) =>
              /\ Num(u, j, short) \in Int
              /\ Num(u, j + 1, short) =
                   Keep(Keep(Num(u, j, short) * 10, short) + DigitAt(u, j + 1), short)
<1> DEFINE one == 1
           zero == 0
<1>1. one \in Nat /\ one > 0 /\ zero \in Int /\ one + 0 = one
  OBVIOUS
<1> HIDE DEF one, zero
<1>2. Continued(u, one, one, zero, short) = zero
  BY <1>1, ContinuedNone
<1>3. ASSUME NEW j \in Nat, \A i \in 1 .. j + 1 : u[i] \in Digits
      PROVE  /\ Continued(u, one, one + j, zero, short) \in Int
             /\ Continued(u, one, one + (j + 1), zero, short) =
                  Keep(Keep(Continued(u, one, one + j, zero, short) * 10, short)
                         + DigitAt(u, one + j), short)
  <2>1. \A i \in 1 .. j + 1 : one + i - 1 = i
    BY DEF one
  <2>2. DigitsFrom(u, one, j + 1)
    BY <1>3, <2>1 DEF DigitsFrom
  <2> QED BY <1>1, <2>2, ContinuedNext
<1>4. 1 + 0 = 1 /\ \A j \in Nat : one + j = j + 1
  BY DEF one
<1>5. Num(u, 0, short) = 0
  BY <1>2, <1>4, Zenon DEF Num, one, zero
<1>6. \A j : /\ Num(u, j, short) = Continued(u, one, one + j, zero, short)
             /\ Num(u, j + 1, short) = Continued(u, one, one + (j + 1), zero, short)
  BY Zenon DEF Num, one, zero
<1> QED BY <1>3, <1>4, <1>5, <1>6, Zenon

\* Reading on from what has been read of the same digits.
Numeric(u, n) == \A i \in 1 .. n : u[i] \in Digits

LEMMA NumType ==
  ASSUME NEW u, NEW N \in Nat, Numeric(u, N), NEW short \in BOOLEAN
  PROVE  \A k \in 0 .. N : Num(u, k, short) \in Int
<1>1. ASSUME NEW k \in 0 .. N PROVE Num(u, k, short) \in Int
  <2>1. CASE k = 0
    BY <2>1, NumNext
  <2>2. CASE k # 0
    <3> DEFINE m == k - 1
    <3>1. m \in Nat /\ m + 1 = k /\ k \in 1 .. N
      BY <2>2
    <3> HIDE DEF m
    <3>2. \A i \in 1 .. m + 1 : u[i] \in Digits
      BY <3>1 DEF Numeric
    <3>3. /\ Num(u, m, short) \in Int
          /\ Num(u, m + 1, short) =
               Keep(Keep(Num(u, m, short) * 10, short) + DigitAt(u, m + 1), short)
      BY <3>1, <3>2, NumNext
    <3>4. u[k] \in Digits
      BY <3>1 DEF Numeric
    <3>5. DigitAt(u, m + 1) \in Int
      BY <3>1, <3>4, DigitAtIs
    <3> DEFINE a == Num(u, m, short) * 10
               b == DigitAt(u, m + 1)
    <3>6. a \in Int /\ b \in Int
      BY <3>3, <3>5
    <3> HIDE DEF a, b
    <3>7. Keep(a, short) + b \in Int
      BY <3>6, KeepIs
    <3>8. Keep(Keep(a, short) + b, short) \in Int
      BY <3>7, KeepIs
    <3> QED BY <3>1, <3>3, <3>8 DEF a, b
  <2> QED BY <2>1, <2>2
<1> QED BY <1>1

\* From p to q, s has the digits of u after the first j, up to e.
Goes(s, p, q, u, j, e) ==
  /\ p \in Nat /\ p > 0 /\ q - p \in Nat /\ q \in Nat
  /\ j \in Nat /\ e \in Nat /\ e - j = q - p /\ Numeric(u, e)
  /\ \A i \in 1 .. q - p : s[p + i - 1] = u[j + i]

LEMMA ReadOn ==
  ASSUME NEW s, NEW p, NEW q, NEW u, NEW j, NEW e, Goes(s, p, q, u, j, e),
         NEW short \in BOOLEAN
  PROVE  Continued(s, p, q, Num(u, j, short), short) = Num(u, e, short)
<1> DEFINE l == q - p
<1>0. /\ p \in Nat /\ p > 0 /\ l \in Nat /\ j \in Nat /\ Numeric(u, j + l)
      /\ q = p + l /\ e = j + l /\ \A i \in 1 .. l : s[p + i - 1] = u[j + i]
  <2>1. /\ p \in Nat /\ p > 0 /\ q - p \in Nat /\ q \in Nat
        /\ j \in Nat /\ e \in Nat /\ e - j = q - p /\ Numeric(u, e)
        /\ \A i \in 1 .. q - p : s[p + i - 1] = u[j + i]
    BY Zenon DEF Goes
  <2>2. e = j + l
    BY <2>1
  <2>3. Numeric(u, j + l)
    BY <2>1, <2>2, Zenon
  <2> QED BY <2>1, <2>2, <2>3
<1> HIDE DEF l
<1> DEFINE n == Num(u, j, short)
           P(k) == k <= l => Continued(s, p, p + k, n, short) = Num(u, j + k, short)
           T == {k \in Nat : P(k)}
<1>2. n \in Int
  <2>1. j + l \in Nat /\ j \in 0 .. j + l
    BY <1>0
  <2> QED BY <1>0, <2>1, NumType
<1> HIDE DEF n
<1>3. P(0)
  <2>1. Continued(s, p, p, n, short) = n
    BY <1>0, <1>2, ContinuedNone
  <2>2. p + 0 = p /\ j + 0 = j
    BY <1>0
  <2> QED BY <2>1, <2>2 DEF n
<1>4. ASSUME NEW k \in Nat, P(k) PROVE P(k + 1)
  <2> SUFFICES ASSUME k + 1 <= l
               PROVE  Continued(s, p, p + (k + 1), n, short) = Num(u, j + (k + 1), short)
    OBVIOUS
  <2> DEFINE m == j + k
  <2>1. m \in Nat /\ m + 1 = j + (k + 1) /\ k <= l /\ k + 1 \in 1 .. l
        /\ p + (k + 1) - 1 = p + k
        /\ (\A i \in 1 .. k + 1 : i \in 1 .. l /\ j + i \in 1 .. j + l)
        /\ (\A i \in 1 .. m + 1 : i \in 1 .. j + l)
    BY <1>0
  <2>2. DigitsFrom(s, p, k + 1)
    BY <1>0, <2>1 DEF DigitsFrom, Numeric
  <2>3. \A i \in 1 .. m + 1 : u[i] \in Digits
    BY <1>0, <2>1 DEF Numeric
  <2>4. Continued(s, p, p + (k + 1), n, short) =
          Keep(Keep(Continued(s, p, p + k, n, short) * 10, short) + DigitAt(s, p + k), short)
    BY <1>0, <1>2, <2>2, ContinuedNext
  <2> HIDE DEF m
  <2>5. Num(u, m + 1, short) =
          Keep(Keep(Num(u, m, short) * 10, short) + DigitAt(u, m + 1), short)
    BY <2>1, <2>3, NumNext
  <2>6. Continued(s, p, p + k, n, short) = Num(u, m, short)
    BY <1>4, <2>1 DEF m
  <2>7. s[p + k] = u[m + 1]
    BY <1>0, <2>1
  <2>8. DigitAt(s, p + k) = DigitAt(u, m + 1)
    BY <2>7, Zenon DEF DigitAt
  <2> QED BY <2>1, <2>4, <2>5, <2>6, <2>8, Zenon
<1> HIDE DEF P
<1>5. 0 \in T /\ \A k \in Nat : k \in T => k + 1 \in T
  BY <1>3, <1>4
<1> HIDE DEF T
<1>6. l \in T
  BY <1>0, <1>5, Induction
<1>7. Continued(s, p, p + l, n, short) = Num(u, j + l, short)
  BY <1>6 DEF T, P
<1> QED BY <1>0, <1>7, Zenon DEF n

-----------------------------------------------------------------------------
(***************************************************************************)
(* A function on all of Nat whose value at a number is made of the value   *)
(* at an earlier one.                                                      *)
(***************************************************************************)
LEMMA BackwardsUnique ==
  ASSUME NEW m \in Nat, NEW start, NEW step,
         NEW back, \A i \in 1 .. m : back[i] \in 0 .. i - 1,
         NEW f, Backwards(f, m, start, back, step),
         NEW g, Backwards(g, m, start, back, step)
  PROVE  Alike(f, g, 0, m)
<1> DEFINE T == {n \in Nat : n <= m => f[n] = g[n]}
<1>1. ASSUME NEW n \in Nat, \A i \in 0 .. n - 1 : i \in T PROVE n \in T
  <2> SUFFICES ASSUME n <= m PROVE f[n] = g[n]
    OBVIOUS
  <2>1. CASE n = 0
    BY <2>1 DEF Backwards
  <2>2. CASE n # 0
    <3>1. n \in 1 .. m /\ back[n] \in 0 .. n - 1 /\ back[n] <= m
      BY <2>2
    <3>2. f[back[n]] = g[back[n]]
      BY <1>1, <3>1
    <3>3. f[n] = step[n][f[back[n]]] /\ g[n] = step[n][g[back[n]]]
      BY <3>1 DEF Backwards
    <3> QED BY <3>2, <3>3
  <2> QED BY <2>1, <2>2
<1> HIDE DEF T
<1>2. Nat \subseteq T
  BY <1>1, StrongInduction
<1> QED BY <1>2 DEF T, Alike

OnNat(h, start, back, step) ==
  /\ h[0] = start
  /\ \A i \in Nat \ {0} : h[i] = step[i][h[back[i]]]

LEMMA OnNatExists ==
  ASSUME NEW V, NEW start \in V, NEW step \in [Nat -> [V -> V]],
         NEW back, \A i \in Nat \ {0} : back[i] \in 0 .. i - 1
  PROVE  \E h \in [Nat -> V] : OnNat(h, start, back, step)
<1> DEFINE F(n) == CHOOSE f \in [0 .. n -> V] : Backwards(f, n, start, back, step)
           h == [n \in Nat |-> F(n)[n]]
<1>1. ASSUME NEW n \in Nat
      PROVE  F(n) \in [0 .. n -> V] /\ Backwards(F(n), n, start, back, step)
  <2> DEFINE some == [i \in 1 .. n |-> step[i]]
  <2>1. some \in [1 .. n -> [V -> V]] /\ \A i \in 1 .. n : some[i] = step[i]
    OBVIOUS
  <2>2. \A i \in 1 .. n : back[i] \in 0 .. i - 1
    OBVIOUS
  <2> HIDE DEF some
  <2>3. PICK f \in [0 .. n -> V] : Backwards(f, n, start, back, some)
    BY <2>1, <2>2, BackwardsExists
  <2>4. Backwards(f, n, start, back, step)
    BY <2>1, <2>3 DEF Backwards
  <2> QED BY <2>4, Zenon
<1> HIDE DEF F
<1>2. ASSUME NEW n \in Nat, NEW i \in 0 .. n PROVE F(n)[i] = F(i)[i]
  <2> DEFINE f == F(n)
             g == F(i)
  <2>1. i \in Nat /\ i \in 0 .. i /\ \A j \in 1 .. i : j \in 1 .. n /\ back[j] \in 0 .. j - 1
    OBVIOUS
  <2>2. Backwards(f, n, start, back, step) /\ Backwards(g, i, start, back, step)
    BY <1>1, <2>1
  <2> HIDE DEF f, g
  <2>3. Backwards(f, i, start, back, step)
    BY <2>1, <2>2 DEF Backwards
  <2>4. Alike(f, g, 0, i)
    BY <2>1, <2>2, <2>3, BackwardsUnique
  <2>5. f[i] = g[i]
    BY <2>1, <2>4 DEF Alike
  <2> QED BY <2>5 DEF f, g
<1>3. h \in [Nat -> V]
  <2>1. \A n \in Nat : F(n)[n] \in V
    BY <1>1
  <2> QED BY <2>1
<1>4. h[0] = start
  BY <1>1 DEF Backwards
<1>5. ASSUME NEW i \in Nat \ {0} PROVE h[i] = step[i][h[back[i]]]
  <2>1. i \in Nat /\ i \in 1 .. i /\ back[i] \in 0 .. i /\ back[i] \in Nat
    <3>1. back[i] \in 0 .. i - 1
      OBVIOUS
    <3> QED BY <3>1
  <2>2. F(i)[i] = step[i][F(i)[back[i]]]
    BY <1>1, <2>1 DEF Backwards
  <2>3. F(i)[back[i]] = F(back[i])[back[i]]
    BY <1>2, <2>1
  <2> QED BY <2>1, <2>2, <2>3
<1> QED BY <1>3, <1>4, <1>5 DEF OnNat

-----------------------------------------------------------------------------
(***************************************************************************)
(* How a number is written in digits, and that reading them gives it back. *)
(***************************************************************************)
LEMMA TenIs ==
  ASSUME NEW k \in Nat
  PROVE  /\ k \div 10 \in Nat /\ k % 10 \in 0 .. 9
         /\ k = ((k \div 10) * 10) + (k % 10)
         /\ k > 0 => k \div 10 \in 0 .. k - 1
OBVIOUS

Decimal[k \in Nat] ==
  IF k < 10 THEN <<Numeral[k + 1]>> ELSE Append(Decimal[k \div 10], Numeral[(k % 10) + 1])

LEMMA DecimalIs ==
  /\ Decimal \in [Nat -> Seq(Digits)]
  /\ \A k \in Nat : k < 10 => Decimal[k] = <<Numeral[k + 1]>>
  /\ \A k \in Nat : ~ (k < 10) => Decimal[k] = Append(Decimal[k \div 10], Numeral[(k % 10) + 1])
<1> DEFINE V == Seq(Digits)
           Next(k, v) == IF k < 10 THEN <<Numeral[k + 1]>> ELSE Append(v, Numeral[(k % 10) + 1])
           step == [k \in Nat |-> [v \in V |-> Next(k, v)]]
           back == [k \in Nat |-> k \div 10]
           start == Next(0, <<>>)
<1>1. ASSUME NEW k \in Nat, NEW v \in V PROVE Next(k, v) \in V
  <2>1. k < 10 => k \in 0 .. 9
    OBVIOUS
  <2>2. k % 10 \in 0 .. 9
    BY TenIs
  <2>3. (k < 10 => Numeral[k + 1] \in Digits) /\ Numeral[(k % 10) + 1] \in Digits
    BY <2>1, <2>2, NumeralIn
  <2> DEFINE a == Numeral[k + 1]
             b == Numeral[(k % 10) + 1]
  <2> HIDE DEF a, b
  <2>4. (k < 10 => <<a>> \in V) /\ Append(v, b) \in V
    BY <2>3 DEF a, b
  <2> QED BY <2>4 DEF a, b
<1>2. <<>> \in V
  OBVIOUS
<1> HIDE DEF V, Next
<1>3. step \in [Nat -> [V -> V]] /\ \A k \in Nat : \A v \in V : step[k][v] = Next(k, v)
  BY <1>1
<1>4. \A k \in Nat \ {0} : back[k] \in 0 .. k - 1
  BY TenIs
<1>5. start \in V
  BY <1>1, <1>2
<1>6. \A k \in Nat : back[k] = k \div 10 /\ back[k] \in Nat
  BY TenIs
<1> HIDE DEF step, back, start
<1>7. PICK h \in [Nat -> V] : OnNat(h, start, back, step)
  BY <1>3, <1>4, <1>5, OnNatExists
<1>8. ASSUME NEW k \in Nat PROVE h[k] = Next(k, h[k \div 10])
  <2>1. CASE k = 0
    <3>1. h[k] = Next(0, <<>>)
      BY <1>7, <2>1 DEF OnNat, start
    <3>2. \A v : Next(0, v) = <<Numeral[0 + 1]>>
      BY DEF Next
    <3> QED BY <2>1, <3>1, <3>2, Zenon
  <2>2. CASE k # 0
    <3>1. h[k] = step[k][h[back[k]]]
      BY <1>7, <2>2 DEF OnNat
    <3>2. back[k] = k \div 10 /\ h[back[k]] \in V
      BY <1>6
    <3> QED BY <1>3, <3>1, <3>2
  <2> QED BY <2>1, <2>2
<1>9. Decimal = [k \in Nat |-> Next(k, Decimal[k \div 10])]
  <2>1. h = [k \in Nat |-> h[k]]
    OBVIOUS
  <2>2. h = [k \in Nat |-> Next(k, h[k \div 10])]
    BY <1>8, <2>1, Zenon
  <2> QED BY <2>2, Zenon DEF Decimal, Next
<1>10. \A k \in Nat : Decimal[k] = Next(k, Decimal[k \div 10])
  BY <1>9, Zenon
<1> DEFINE T == {n \in Nat : Decimal[n] \in V}
<1>11. ASSUME NEW n \in Nat, \A i \in 0 .. n - 1 : i \in T PROVE n \in T
  <2>1. CASE n = 0
    <3>1. Decimal[n] = Next(0, Decimal[n \div 10])
      BY <1>10, <2>1
    <3>2. Next(0, Decimal[n \div 10]) = Next(0, <<>>)
      BY DEF Next
    <3> QED BY <1>5, <2>1, <3>1, <3>2 DEF start
  <2>2. CASE n # 0
    <3>1. n \div 10 \in 0 .. n - 1
      BY <2>2, TenIs
    <3>2. Decimal[n \div 10] \in V
      BY <1>11, <3>1
    <3> QED BY <1>1, <1>10, <3>2
  <2> QED BY <2>1, <2>2
<1> HIDE DEF T
<1>12. Nat \subseteq T
  BY <1>11, StrongInduction
<1>13. \A n \in Nat : Decimal[n] \in V
  BY <1>12 DEF T
<1>14. Decimal = [k \in Nat |-> Decimal[k]]
  BY <1>9, <1>10, Zenon
<1>15. Decimal \in [Nat -> V]
  BY <1>13, <1>14
<1> QED BY <1>10, <1>15, Zenon DEF Next, V

LEMMA NumAlike ==
  ASSUME NEW u, NEW v, NEW l \in Nat, NEW short \in BOOLEAN,
         Numeric(v, l), \A i \in 1 .. l : u[i] = v[i]
  PROVE  Num(u, l, short) = Num(v, l, short)
<1>1. Goes(u, 1, 1 + l, v, 0, l)
  BY DEF Goes
<1>2. Num(v, 0, short) = 0
  BY NumNext
<1>3. Continued(u, 1, 1 + l, Num(v, 0, short), short) = Num(v, l, short)
  BY <1>1, ReadOn
<1>4. Num(u, l, short) = Continued(u, 1, 1 + l, 0, short)
  BY Zenon DEF Num
<1> QED BY <1>2, <1>3, <1>4, Zenon

\* What follows zeros makes the same number without them.
LEMMA NumShift ==
  ASSUME NEW d, NEW a, NEW z \in Nat, NEW l \in Nat, NEW e \in Nat, e = z + l,
         NEW short \in BOOLEAN, Numeric(a, e),
         \A i \in 1 .. l : d[i] = a[z + i], Num(a, z, short) = 0
  PROVE  Num(d, l, short) = Num(a, e, short)
<1>1. Goes(d, 1, 1 + l, a, z, e)
  BY DEF Goes
<1>2. Continued(d, 1, 1 + l, Num(a, z, short), short) = Num(a, e, short)
  BY <1>1, ReadOn
<1>3. Num(d, l, short) = Continued(d, 1, 1 + l, 0, short)
  BY Zenon DEF Num
<1> QED BY <1>2, <1>3, Zenon

LEMMA DecimalLong == \A k \in Nat : Len(Decimal[k]) \in Nat /\ Len(Decimal[k]) > 0
<1>1. ASSUME NEW k \in Nat PROVE Len(Decimal[k]) > 0
  <2>1. CASE k < 10
    <3> DEFINE c == Numeral[k + 1]
    <3>1. Decimal[k] = <<c>>
      BY <2>1, DecimalIs
    <3> HIDE DEF c
    <3> QED BY <3>1
  <2>2. CASE ~ (k < 10)
    <3> DEFINE v == Decimal[k \div 10]
               c == Numeral[(k % 10) + 1]
    <3>1. v \in Seq(Digits) /\ Decimal[k] = Append(v, c)
      BY <2>2, DecimalIs, TenIs
    <3> HIDE DEF v, c
    <3> QED BY <3>1
  <2> QED BY <2>1, <2>2
<1> QED BY <1>1, DecimalIs

\* Reading the digits of a number gives it back, in an int16_t too if it fits.
LEMMA NumOfDecimal ==
  ASSUME NEW short \in BOOLEAN, NEW k \in Nat, short => k < ExpHalf
  PROVE  Num(Decimal[k], Len(Decimal[k]), short) = k
<1> DEFINE P(n) == (short => n < ExpHalf) => Num(Decimal[n], Len(Decimal[n]), short) = n
           T == {n \in Nat : P(n)}
<1>0. ExpHalf \in Nat
  BY TextAssumption, Zenon
<1>1. ASSUME NEW n \in Nat, \A i \in 0 .. n - 1 : P(i) PROVE P(n)
  <2> SUFFICES ASSUME short => n < ExpHalf PROVE Num(Decimal[n], Len(Decimal[n]), short) = n
    OBVIOUS
  <2> DEFINE u == Decimal[n]
             l == Len(u)
             d == n % 10
             m == n \div 10
  <2>1. ASSUME NEW x \in Nat, x <= n PROVE Keep(x, short) = x
    <3>1. short => x < ExpHalf
      BY <1>0, <2>1
    <3>2. x < ExpHalf => x \in 1 - ExpHalf .. ExpHalf - 1
      BY <1>0
    <3>3. x < ExpHalf => Wrapped(x) = x
      BY <3>2, WrappedIs
    <3> QED BY <3>1, <3>3, Zenon DEF Keep
  <2>2. ASSUME NEW x \in Nat, NEW j \in Nat, x <= n, Num(u, j, short) = x, NEW c \in 0 .. 9,
               \A i \in 1 .. j + 1 : u[i] \in Digits, u[j + 1] = Numeral[c + 1],
               x * 10 + c = n
        PROVE  Num(u, j + 1, short) = n
    <3>1. Num(u, j + 1, short) =
            Keep(Keep(Num(u, j, short) * 10, short) + DigitAt(u, j + 1), short)
      BY <2>2, NumNext
    <3>2. DigitAt(u, j + 1) = c
      BY <2>2, DigitAtIs
    <3>3. x * 10 \in Nat /\ x * 10 <= n
      BY <2>2
    <3>4. Keep(x * 10, short) = x * 10
      BY <2>1, <3>3
    <3>5. Keep(n, short) = n
      BY <2>1
    <3> QED BY <2>2, <3>1, <3>2, <3>4, <3>5
  <2>3. CASE n < 10
    <3>1. u = <<Numeral[n + 1]>> /\ n \in 0 .. 9
      <4>1. n \in 0 .. 9
        BY <2>3
      <4> QED BY <2>3, <4>1, DecimalIs
    <3>2. Numeral[n + 1] \in Digits
      BY <3>1, NumeralIn
    <3> DEFINE j == 0
               x == 0
    <3>3. j \in Nat /\ x \in Nat /\ x <= n /\ x * 10 + n = n /\ j + 1 = 1
      OBVIOUS
    <3>4. Num(u, j, short) = x
      BY NumNext
    <3>5. l = 1 /\ u[1] = Numeral[n + 1] /\ \A i \in 1 .. 1 : u[i] \in Digits
      BY <3>1, <3>2
    <3> HIDE DEF u, j, x
    <3>6. \A i \in 1 .. j + 1 : u[i] \in Digits
      BY <3>3, <3>5
    <3>7. u[j + 1] = Numeral[n + 1]
      BY <3>3, <3>5
    <3>8. Num(u, j + 1, short) = n
      BY <2>2, <3>1, <3>3, <3>4, <3>6, <3>7
    <3> QED BY <3>3, <3>5, <3>8 DEF u
  <2>4. CASE ~ (n < 10)
    <3> DEFINE v == Decimal[m]
               c == Numeral[d + 1]
               j == Len(v)
    <3>1. m \in Nat /\ m \in 0 .. n - 1 /\ d \in 0 .. 9 /\ n = m * 10 + d /\ m <= n
      <4>1. n > 0
        BY <2>4
      <4> QED BY <4>1, TenIs
    <3>2. u = Append(v, c) /\ v \in Seq(Digits)
      BY <2>4, <3>1, DecimalIs
    <3>3. c \in Digits
      BY <3>1, NumeralIn
    <3> HIDE DEF m, d, v, c, u
    <3>4. /\ l = j + 1 /\ u[j + 1] = c /\ j \in Nat
          /\ (\A i \in 1 .. j : u[i] = v[i]) /\ Numeric(v, j)
          /\ (\A i \in 1 .. j + 1 : u[i] \in Digits)
      BY <3>2, <3>3 DEF Numeric
    <3>5. short => m < ExpHalf
      BY <1>0, <3>1
    <3>6. Num(v, j, short) = m
      BY <1>1, <3>1, <3>5 DEF v
    <3>7. Num(u, j, short) = Num(v, j, short)
      BY <3>4, NumAlike
    <3>8. Num(u, j + 1, short) = n
      BY <2>2, <3>1, <3>4, <3>6, <3>7 DEF c
    <3> QED BY <3>4, <3>8 DEF u
  <2> QED BY <2>3, <2>4
<1> HIDE DEF P
<1>2. \A n \in Nat : (\A i \in 0 .. n - 1 : i \in T) => n \in T
  <2> SUFFICES ASSUME NEW n \in Nat, \A i \in 0 .. n - 1 : i \in T PROVE P(n)
    OBVIOUS
  <2>1. \A i \in 0 .. n - 1 : P(i)
    OBVIOUS
  <2> QED BY <1>1, <2>1
<1> HIDE DEF T
<1>3. k \in T
  BY <1>2, StrongInduction
<1> QED BY <1>3 DEF T, P

-----------------------------------------------------------------------------
(***************************************************************************)
(* The parts of a number that is written.                                  *)
(***************************************************************************)
LEMMA MarksNamed == /\ " " \in Chars /\ "-" \in Chars /\ "." \in Chars /\ "e" \in Chars
                    /\ "0" \in Digits /\ "0" = Numeral[0 + 1]
<1>1. {".", ",", "e", "E", "+", "-"} \subseteq Chars
  BY TextAssumption, Zenon
<1>2. "0" = Numeral[0 + 1]
  BY DEF Numeral
<1> QED BY <1>1, <1>2, CharsNamed, DigitsAre

LEMMA DigitsAreChars == \A u \in Seq(Digits) : u \in Seq(Chars)
<1>1. Digits \subseteq Chars
  BY DigitsApart
<1> QED BY <1>1

Zeros(n) == [k \in 1 .. n.places |-> "0"]

AllDigits(n) ==
  IF Len(Decimal[n.mant]) <= n.places THEN Cat(Zeros(n), Decimal[n.mant])
                                      ELSE Decimal[n.mant]

Point(n) == Len(AllDigits(n)) - n.places

SignPart(n) == IF n.neg THEN <<" ", "-">> ELSE <<>>

WholePart(n) == SubSeq(AllDigits(n), 1, Point(n))

Fraction(n) == From(AllDigits(n), Point(n) + 1)

FractionPart(n) == IF n.places = 0 THEN <<>> ELSE Cat(<<".">>, Fraction(n))

ExpPart(n) ==
  IF n.exp = 0 THEN <<>>
  ELSE Cat(<<"e">>, IF n.exp < 0 THEN Cat(<<"-">>, Decimal[-n.exp]) ELSE Decimal[n.exp])

LEMMA WrittenIs ==
  \A n : Written(n) = Cat(Cat(Cat(SignPart(n), WholePart(n)), FractionPart(n)), ExpPart(n))
BY Zenon DEF Written, Decimal, Cat, SignPart, WholePart, Fraction, FractionPart, ExpPart,
             Point, AllDigits, Zeros

LEMMA NumbersAre ==
  ASSUME NEW n \in Numbers
  PROVE  /\ n.neg \in BOOLEAN /\ n.mant \in Nat /\ n.places \in 0 .. ExpHalf - 1
         /\ n.exp \in 1 - ExpHalf .. ExpHalf - 1 /\ ExpHalf \in Nat \ {0}
<1>1. /\ Numbers \subseteq [neg : BOOLEAN, mant : Nat, places : 0 .. ExpHalf - 1,
                            exp : 1 - ExpHalf .. ExpHalf - 1]
      /\ ExpHalf \in Nat \ {0}
  BY TextAssumption, Zenon
<1> QED BY <1>1

\* All its digits, with the zeros before them, make the number.
LEMMA AllDigitsAre ==
  ASSUME NEW n \in Numbers
  PROVE  /\ AllDigits(n) \in Seq(Digits) /\ Len(AllDigits(n)) \in Nat
         /\ Point(n) \in 1 .. Len(AllDigits(n)) /\ Len(AllDigits(n)) = Point(n) + n.places
         /\ Num(AllDigits(n), Len(AllDigits(n)), FALSE) = n.mant
<1> DEFINE k == n.mant
           z == n.places
           d == Decimal[k]
           o == Zeros(n)
           a == AllDigits(n)
<1>1. k \in Nat /\ z \in Nat
  BY NumbersAre
<1>2. d \in Seq(Digits) /\ Len(d) \in Nat /\ Len(d) > 0
  BY <1>1, DecimalIs, DecimalLong
<1>3. Num(d, Len(d), FALSE) = k
  BY <1>1, NumOfDecimal
<1>4. o \in Seq(Digits) /\ Len(o) = z /\ \A i \in 1 .. z : o[i] = "0"
  <2> DEFINE c == "0"
  <2>1. c \in Digits /\ o = [i \in 1 .. z |-> c]
    BY MarksNamed DEF Zeros
  <2> HIDE DEF c, o, z
  <2>2. o \in Seq(Digits) /\ Len(o) = z /\ \A i \in 1 .. z : o[i] = c
    BY <1>1, <2>1
  <2> QED BY <2>2 DEF c
<1>5. a = IF Len(d) <= z THEN Cat(o, d) ELSE d
  BY Zenon DEF AllDigits
<1> HIDE DEF k, z, d, o
<1>6. CASE Len(d) <= z
  <2> HIDE DEF a
  <2>1. a = Cat(o, d)
    BY <1>5, <1>6
  <2>2. /\ a \in Seq(Digits) /\ Len(a) = Len(o) + Len(d)
        /\ \A i \in 1 .. Len(o) + Len(d) : a[i] = IF i <= Len(o) THEN o[i] ELSE d[i - Len(o)]
    BY <1>2, <1>4, <2>1, CatIs
  <2> DEFINE l == Len(d)
  <2>3. /\ Len(a) = z + l /\ l \in Nat /\ l > 0
        /\ (\A i \in 1 .. z : a[i] = "0")
        /\ (\A i \in 1 .. l : a[z + i] = d[i])
    <3> HIDE DEF l
    <3>1. Len(a) = z + l /\ l \in Nat /\ l > 0
      BY <1>2, <1>4, <2>2 DEF l
    <3>2. \A i \in 1 .. z : i \in 1 .. z + l /\ i <= z
      BY <1>1, <3>1
    <3>3. \A i \in 1 .. l : z + i \in 1 .. z + l /\ ~ (z + i <= z) /\ (z + i) - z = i
      BY <1>1, <3>1
    <3>4. \A i \in 1 .. z + l : a[i] = IF i <= z THEN o[i] ELSE d[i - z]
      BY <1>4, <2>2 DEF l
    <3>5. \A i \in 1 .. z : a[i] = o[i]
      BY <3>2, <3>4, Zenon
    <3>6. \A i \in 1 .. l : a[z + i] = d[i]
      BY <3>3, <3>4
    <3> QED BY <1>4, <3>1, <3>5, <3>6
  <2> HIDE DEF l
  <2>4. \A i \in 1 .. z + l : a[i] \in Digits
    BY <2>2, <2>3
  <2>5. Num(a, z, FALSE) = 0
    <3> DEFINE V(i) == Num(a, i, FALSE)
               T == {i \in Nat : i <= z => V(i) = 0}
    <3>1. 0 \in T
      <4>1. V(0) = 0
        BY NumNext
      <4> HIDE DEF V
      <4> QED BY <4>1
    <3>2. ASSUME NEW i \in Nat, i \in T PROVE i + 1 \in T
      <4> HIDE DEF V
      <4> SUFFICES ASSUME i + 1 <= z PROVE V(i + 1) = 0
        OBVIOUS
      <4>1. \A j \in 1 .. i + 1 : a[j] \in Digits
        BY <1>1, <2>3, <2>4
      <4>2. V(i + 1) =
              Keep(Keep(V(i) * 10, FALSE) + DigitAt(a, i + 1), FALSE)
        BY <4>1, NumNext DEF V
      <4>3. V(i) = 0
        BY <1>1, <3>2
      <4>4. DigitAt(a, i + 1) = 0
        <5>1. i + 1 \in 1 .. z /\ 0 \in 0 .. 9
          BY <1>1
        <5>2. a[i + 1] = Numeral[0 + 1]
          BY <2>3, <5>1, MarksNamed
        <5> QED BY <5>1, <5>2, DigitAtIs
      <4>5. Keep(0 * 10, FALSE) = 0 /\ Keep(0 + 0, FALSE) = 0
        BY DEF Keep
      <4> QED BY <4>2, <4>3, <4>4, <4>5
    <3> HIDE DEF T, V
    <3>3. z \in T
      BY <1>1, <3>1, <3>2, Induction
    <3>4. V(z) = 0
      BY <3>3 DEF T
    <3> QED BY <3>4 DEF V
  <2>6. Num(d, l, FALSE) = Num(a, z + l, FALSE)
    <3> DEFINE e == z + l
    <3>1. e \in Nat /\ e = z + l /\ Numeric(a, e) /\ z \in Nat /\ l \in Nat
      BY <1>1, <2>3, <2>4 DEF Numeric
    <3>2. \A i \in 1 .. l : d[i] = a[z + i]
      BY <2>3
    <3> HIDE DEF e
    <3> DEFINE short == FALSE
    <3>3. short \in BOOLEAN
      OBVIOUS
    <3>4. Num(a, z, short) = 0
      BY <2>5
    <3> HIDE DEF short
    <3>5. Num(d, l, short) = Num(a, e, short)
      BY <3>1, <3>2, <3>3, <3>4, NumShift
    <3> QED BY <3>5, Zenon DEF e, short
  <2>7. Point(n) = l
    <3>1. Point(n) = Len(a) - z
      BY DEF Point, a, z
    <3> QED BY <1>1, <2>3, <3>1
  <2>8. Num(a, Len(a), FALSE) = k
    BY <1>3, <2>3, <2>6 DEF l
  <2>9. l \in 1 .. Len(a) /\ Len(a) = l + z /\ Len(a) \in Nat
    BY <1>1, <2>3
  <2> QED BY <2>2, <2>7, <2>8, <2>9 DEF a, k, z
<1>7. CASE ~ (Len(d) <= z)
  <2> HIDE DEF a
  <2>1. a = d
    BY <1>5, <1>7
  <2>2. Point(n) = Len(a) - z
    BY DEF Point, a, z
  <2>3. /\ a \in Seq(Digits) /\ Len(a) \in Nat /\ Num(a, Len(a), FALSE) = k
    BY <1>2, <1>3, <2>1
  <2>4. Len(a) = Len(d)
    BY <2>1
  <2>5. Point(n) \in 1 .. Len(a) /\ Len(a) = Point(n) + z
    BY <1>1, <1>2, <1>7, <2>2, <2>4
  <2> QED BY <2>3, <2>5 DEF a, k, z
<1> QED BY <1>6, <1>7

-----------------------------------------------------------------------------
(***************************************************************************)
(* Where the parts stand in the text.                                      *)
(***************************************************************************)
Stands(s, p, u) ==
  /\ p \in Nat /\ p > 0 /\ u \in Seq(Chars) /\ p + Len(u) <= Len(s) + 1
  /\ \A i \in 1 .. Len(u) : s[p + i - 1] = u[i]

LEMMA StandsWhole ==
  ASSUME NEW s \in Seq(Chars)
  PROVE  Stands(s, 1, s)
<1>1. \A i \in 1 .. Len(s) : 1 + i - 1 = i
  OBVIOUS
<1>2. Len(s) \in Nat
  OBVIOUS
<1> QED BY <1>1, <1>2 DEF Stands

LEMMA StandsSplit ==
  ASSUME NEW s \in Seq(Chars), NEW p, NEW u \in Seq(Chars), NEW v \in Seq(Chars),
         Stands(s, p, Cat(u, v))
  PROVE  Stands(s, p, u) /\ Stands(s, p + Len(u), v)
<1> DEFINE w == Cat(u, v)
           l == Len(u)
           k == Len(v)
<1>1. /\ p \in Nat /\ p > 0 /\ p + Len(w) <= Len(s) + 1
      /\ \A i \in 1 .. Len(w) : s[p + i - 1] = w[i]
  BY DEF Stands
<1>2. /\ Len(w) = l + k /\ l \in Nat /\ k \in Nat /\ Len(s) \in Nat
      /\ \A i \in 1 .. l + k : w[i] = IF i <= l THEN u[i] ELSE v[i - l]
  <2>1. l \in Nat /\ k \in Nat /\ Len(s) \in Nat
    OBVIOUS
  <2>2. /\ Len(Cat(u, v)) = Len(u) + Len(v)
        /\ \A i \in 1 .. Len(u) + Len(v) : Cat(u, v)[i] = IF i <= Len(u) THEN u[i] ELSE v[i - Len(u)]
    BY CatIs
  <2> QED BY <2>1, <2>2, Zenon
<1> HIDE DEF w
<1>3. Stands(s, p, u)
  <2>1. \A i \in 1 .. l : i \in 1 .. Len(w) /\ i <= l /\ i \in 1 .. l + k
    BY <1>2
  <2>2. \A i \in 1 .. l : s[p + i - 1] = u[i]
    BY <1>1, <1>2, <2>1
  <2>3. p + l <= Len(s) + 1
    BY <1>1, <1>2
  <2> QED BY <1>1, <2>2, <2>3 DEF Stands
<1>4. Stands(s, p + l, v)
  <2>1. \A i \in 1 .. k : /\ l + i \in 1 .. Len(w) /\ ~ (l + i <= l) /\ l + i \in 1 .. l + k
                          /\ (l + i) - l = i /\ (p + l) + i - 1 = p + (l + i) - 1
    BY <1>1, <1>2
  <2>2. ASSUME NEW i \in 1 .. k PROVE s[(p + l) + i - 1] = v[i]
    <3> DEFINE j == l + i
    <3>1. j \in 1 .. Len(w) /\ ~ (j <= l) /\ j \in 1 .. l + k /\ j - l = i
          /\ (p + l) + i - 1 = p + j - 1
      BY <2>1
    <3> HIDE DEF j
    <3>2. s[p + j - 1] = w[j]
      BY <1>1, <3>1
    <3>3. w[j] = v[j - l]
      BY <1>2, <3>1
    <3> QED BY <3>1, <3>2, <3>3
  <2>3. p + l \in Nat /\ p + l > 0 /\ (p + l) + k <= Len(s) + 1
    BY <1>1, <1>2
  <2> QED BY <2>2, <2>3 DEF Stands
<1> QED BY <1>3, <1>4

LEMMA FirstIs ==
  ASSUME NEW S \in SUBSET Nat, NEW x \in S, \A y \in S : x <= y, NEW no
  PROVE  FirstOf(S, no) = x
<1> DEFINE y == FirstOf(S, no)
<1>1. y \in S /\ y <= x
  BY FirstOfLeast
<1> HIDE DEF y
<1>2. y \in Nat /\ x \in Nat /\ x <= y
  BY <1>1
<1>3. y = x
  BY <1>1, <1>2
<1> QED BY <1>3 DEF y

LEMMA AfterDigitsIs ==
  ASSUME NEW s \in Seq(Chars), NEW p \in Nat, NEW e \in Nat, p <= e, e <= Len(s) + 1,
         \A i \in 1 .. e - p : s[p + i - 1] \in Digits,
         e <= Len(s) => s[e] \notin Digits
  PROVE  AfterDigits(s, p) = e
<1> DEFINE S == {q \in p .. Len(s) : s[q] \notin Digits}
           no == Len(s) + 1
<1>0. S \in SUBSET Nat /\ Len(s) \in Nat
  OBVIOUS
<1>1. ASSUME NEW q \in p .. Len(s), q < e PROVE s[q] \in Digits
  <2> DEFINE i == q - p + 1
  <2>1. q \in Int /\ p <= q
    BY <1>0
  <2>2. i \in 1 .. e - p /\ p + i - 1 = q
    BY <1>1, <2>1
  <2> HIDE DEF i
  <2> QED BY <2>2
<1>2. \A q \in S : e <= q
  BY <1>0, <1>1
<1>3. CASE e <= Len(s)
  <2>1. e \in S
    BY <1>3
  <2> HIDE DEF S, no
  <2>2. FirstOf(S, no) = e
    BY <1>0, <1>2, <2>1, FirstIs
  <2> QED BY <2>2, Zenon DEF AfterDigits, S, no
<1>4. CASE ~ (e <= Len(s))
  <2>1. S = {} /\ no = e
    BY <1>0, <1>2, <1>4
  <2> HIDE DEF S, no
  <2>2. FirstOf(S, no) = e
    BY <2>1, FirstOfNone
  <2> QED BY <2>2, Zenon DEF AfterDigits, S, no
<1> QED BY <1>3, <1>4

LEMMA PartsType ==
  ASSUME NEW n \in Numbers
  PROVE  /\ SignPart(n) \in Seq(Chars) /\ WholePart(n) \in Seq(Chars)
         /\ FractionPart(n) \in Seq(Chars) /\ ExpPart(n) \in Seq(Chars)
         /\ Len(WholePart(n)) = Point(n)
         /\ \A i \in 1 .. Point(n) : WholePart(n)[i] = AllDigits(n)[i]
         /\ Fraction(n) \in Seq(Chars) /\ Len(Fraction(n)) = n.places
         /\ \A i \in 1 .. n.places : Fraction(n)[i] = AllDigits(n)[Point(n) + i]
<1> DEFINE a == AllDigits(n)
           k == Point(n)
           z == n.places
           l == Len(a)
<1>1. a \in Seq(Digits) /\ l \in Nat /\ k \in 1 .. l /\ l = k + z /\ z \in Nat
  <2>1. z \in Nat
    BY NumbersAre
  <2> QED BY <2>1, AllDigitsAre
<1>2. a \in Seq(Chars)
  BY <1>1, DigitsAreChars
<1>3. SignPart(n) \in Seq(Chars)
  <2> DEFINE u == <<" ", "-">>
  <2>1. u \in Seq(Chars)
    <3> DEFINE c == " "
               d == "-"
    <3>1. c \in Chars /\ d \in Chars
      BY MarksNamed
    <3> HIDE DEF c, d
    <3>2. <<c, d>> \in Seq(Chars)
      BY <3>1
    <3> QED BY <3>2 DEF c, d
  <2> HIDE DEF u
  <2> QED BY <2>1, EmptyType, Zenon DEF SignPart, u
<1>4. WholePart(n) = SubSeq(a, 1, k) /\ Fraction(n) = SubSeq(a, k + 1, l)
  BY Zenon DEF WholePart, Fraction, From
<1> HIDE DEF a, k, z, l
<1>5. /\ SubSeq(a, 1, k) \in Seq(Chars) /\ Len(SubSeq(a, 1, k)) = k
      /\ \A i \in 1 .. k : SubSeq(a, 1, k)[i] = a[i]
  BY <1>1, <1>2 DEF l
<1>6. /\ SubSeq(a, k + 1, l) \in Seq(Chars) /\ Len(SubSeq(a, k + 1, l)) = z
      /\ \A i \in 1 .. z : SubSeq(a, k + 1, l)[i] = a[k + i]
  BY <1>1, <1>2 DEF l
<1>7. FractionPart(n) \in Seq(Chars)
  <2>1. <<".">> \in Seq(Chars) /\ <<>> \in Seq(Chars)
    BY MarksNamed, SingleType, EmptyType, Zenon
  <2>2. Cat(<<".">>, Fraction(n)) \in Seq(Chars)
    BY <1>4, <1>6, <2>1, CatProperties
  <2> QED BY <2>1, <2>2, Zenon DEF FractionPart
<1>8. ExpPart(n) \in Seq(Chars)
  <2> DEFINE x == n.exp
  <2>1. <<"e">> \in Seq(Chars) /\ <<"-">> \in Seq(Chars) /\ <<>> \in Seq(Chars)
    BY MarksNamed, SingleType, EmptyType, Zenon
  <2>2. x \in Int
    BY NumbersAre
  <2> HIDE DEF x
  <2>3. x < 0 => -x \in Nat
    BY <2>2
  <2>4. ~ (x < 0) => x \in Nat
    BY <2>2
  <2>5. \A m \in Nat : Decimal[m] \in Seq(Chars)
    BY DecimalIs, DigitsAreChars
  <2>6. \A u \in Seq(Chars) : Cat(<<"-">>, u) \in Seq(Chars) /\ Cat(<<"e">>, u) \in Seq(Chars)
    BY <2>1, CatProperties
  <2>7. (IF x < 0 THEN Cat(<<"-">>, Decimal[-x]) ELSE Decimal[x]) \in Seq(Chars)
    BY <2>3, <2>4, <2>5, <2>6, Zenon
  <2> QED BY <2>1, <2>6, <2>7, Zenon DEF ExpPart, x
<1> QED BY <1>3, <1>4, <1>5, <1>6, <1>7, <1>8, Zenon DEF a, k, z

LEMMA WrittenStands ==
  ASSUME NEW n \in Numbers, NEW s, s = Written(n),
         NEW b, b = 1 + Len(SignPart(n)), NEW r, r = b + Len(WholePart(n)),
         NEW m, m = r + Len(FractionPart(n))
  PROVE  /\ s \in Seq(Chars)
         /\ Stands(s, 1, SignPart(n)) /\ Stands(s, b, WholePart(n))
         /\ Stands(s, r, FractionPart(n)) /\ Stands(s, m, ExpPart(n))
         /\ m + Len(ExpPart(n)) = Len(s) + 1
<1> DEFINE A == SignPart(n)
           B == WholePart(n)
           C == FractionPart(n)
           D == ExpPart(n)
           one == 1
<1>1. A \in Seq(Chars) /\ B \in Seq(Chars) /\ C \in Seq(Chars) /\ D \in Seq(Chars)
  BY PartsType
<1>2. s = Cat(Cat(Cat(A, B), C), D)
  BY WrittenIs
<1>3. b = one + Len(A) /\ r = b + Len(B) /\ m = r + Len(C) /\ one = 1
  OBVIOUS
<1> HIDE DEF A, B, C, D, one
<1> DEFINE F == Cat(A, B)
           E == Cat(F, C)
<1>4. F \in Seq(Chars) /\ E \in Seq(Chars) /\ Cat(E, D) \in Seq(Chars)
      /\ Len(F) = Len(A) + Len(B) /\ Len(E) = Len(F) + Len(C) /\ Len(Cat(E, D)) = Len(E) + Len(D)
  <2>1. F \in Seq(Chars) /\ Len(F) = Len(A) + Len(B)
    BY <1>1, CatIs
  <2> HIDE DEF F
  <2>2. E \in Seq(Chars) /\ Len(E) = Len(F) + Len(C)
    BY <1>1, <2>1, CatIs
  <2> HIDE DEF E
  <2>3. Cat(E, D) \in Seq(Chars) /\ Len(Cat(E, D)) = Len(E) + Len(D)
    BY <1>1, <2>2, CatIs
  <2> QED BY <2>1, <2>2, <2>3
<1>5. s = Cat(E, D)
  BY <1>2
<1>6. Stands(s, one, E) /\ Stands(s, one + Len(E), D)
  <2> HIDE DEF E
  <2>1. s \in Seq(Chars)
    BY <1>4, <1>5
  <2>2. Stands(s, one, Cat(E, D))
    BY <1>3, <1>5, <2>1, StandsWhole
  <2> QED BY <1>1, <1>4, <2>1, <2>2, StandsSplit
<1>7. s \in Seq(Chars)
  BY <1>4, <1>5
<1>8. Stands(s, one, F) /\ Stands(s, one + Len(F), C)
  <2> HIDE DEF F
  <2> QED BY <1>1, <1>4, <1>6, <1>7, StandsSplit
<1>9. Stands(s, one, A) /\ Stands(s, one + Len(A), B)
  BY <1>1, <1>7, <1>8, StandsSplit
<1> HIDE DEF E, F
<1>10. Len(A) \in Nat /\ Len(B) \in Nat /\ Len(C) \in Nat /\ Len(D) \in Nat
  BY <1>1
<1>11. /\ one + Len(E) = m /\ one + Len(F) = r /\ m + Len(D) = Len(s) + 1
  <2> DEFINE x == Len(A)
             y == Len(B)
             z == Len(C)
             t == Len(D)
             f == Len(F)
             e == Len(E)
             l == Len(s)
  <2>1. l = e + t /\ e = f + z /\ f = x + y
    BY <1>4, <1>5
  <2>2. /\ x \in Nat /\ y \in Nat /\ z \in Nat /\ t \in Nat
        /\ b = one + x /\ r = b + y /\ m = r + z /\ one = 1
    BY <1>3, <1>10
  <2> HIDE DEF x, y, z, t, f, e, l
  <2>3. one + e = m /\ one + f = r /\ m + t = l + 1
    BY <2>1, <2>2
  <2> QED BY <2>3 DEF e, f, l, t
<1> QED BY <1>3, <1>6, <1>7, <1>8, <1>9, <1>11 DEF A, B, C, D

\* At p stands c, and what is left of w after it.
Led(s, p, c, u, w) ==
  /\ p \in Nat /\ p > 0 /\ p <= Len(s) /\ s[p] = c
  /\ Stands(s, p + 1, u)
  /\ p + Len(w) = (p + 1) + Len(u)

LEMMA StandsOne ==
  ASSUME NEW s \in Seq(Chars), NEW p, NEW c \in Chars, NEW u \in Seq(Chars),
         NEW w, w = Cat(<<c>>, u), Stands(s, p, w)
  PROVE  Led(s, p, c, u, w)
<1> DEFINE v == <<c>>
<1>1. v \in Seq(Chars) /\ Len(v) = 1 /\ v[1] = c
  OBVIOUS
<1> HIDE DEF v
<1>2. w = Cat(v, u)
  BY DEF v
<1>3. Stands(s, p, v) /\ Stands(s, p + Len(v), u)
  BY <1>1, <1>2, StandsSplit
<1>4. Len(w) = Len(v) + Len(u)
  BY <1>1, <1>2, CatIs
<1>5. p \in Nat /\ p > 0 /\ p + 1 <= Len(s) + 1 /\ s[p + 1 - 1] = c
  BY <1>1, <1>3 DEF Stands
<1>6. p + 1 - 1 = p /\ p <= Len(s) /\ Len(u) \in Nat
  BY <1>5
<1>7. p + Len(w) = (p + 1) + Len(u)
  <2> DEFINE l == Len(u)
             k == Len(w)
             j == Len(v)
  <2>1. k = j + l /\ j = 1 /\ l \in Nat /\ p \in Nat
    BY <1>1, <1>4, <1>5, <1>6
  <2> HIDE DEF l, k, j
  <2>2. p + k = (p + 1) + l
    BY <2>1
  <2> QED BY <2>2 DEF l, k
<1> QED BY <1>1, <1>3, <1>5, <1>6, <1>7 DEF Led

-----------------------------------------------------------------------------
(***************************************************************************)
(* The reading of the parts.                                               *)
(***************************************************************************)
LEMMA DecimalRead ==
  ASSUME NEW s \in Seq(Chars), NEW k \in Nat, NEW p, NEW q, q = Len(s) + 1,
         Stands(s, p, Decimal[k]), p + Len(Decimal[k]) = q, k < ExpHalf
  PROVE  /\ p <= Len(s) /\ s[p] \in Digits
         /\ AfterDigits(s, p) = q
         /\ Continued(s, p, q, 0, TRUE) = k
<1> DEFINE u == Decimal[k]
           l == Len(u)
           zero == 0
           short == TRUE
<1>1. u \in Seq(Digits) /\ l \in Nat /\ l > 0
  BY DecimalIs, DecimalLong
<1>2. p \in Nat /\ p > 0 /\ p + l = q /\ \A i \in 1 .. l : s[p + i - 1] = u[i]
  BY Zenon DEF Stands
<1>3. Len(s) \in Nat
  OBVIOUS
<1>4. /\ q \in Nat /\ q - p = l /\ p <= q /\ q <= Len(s) + 1 /\ ~ (q <= Len(s))
      /\ p <= Len(s) /\ 1 \in 1 .. l /\ p + 1 - 1 = p /\ l - zero = l /\ zero \in Nat
  <2> DEFINE n == Len(s)
  <2>1. n \in Nat /\ q = n + 1
    BY <1>3
  <2> HIDE DEF n, l
  <2>2. q \in Nat /\ q - p = l /\ p <= q /\ q <= n + 1 /\ ~ (q <= n) /\ p <= n
        /\ 1 \in 1 .. l /\ p + 1 - 1 = p /\ l - zero = l /\ zero \in Nat
    BY <1>1, <1>2, <2>1
  <2> QED BY <2>2 DEF n
<1>5. \A i \in 1 .. l : u[i] \in Digits /\ zero + i = i
  BY <1>1
<1> HIDE DEF l, u, zero
<1>6. \A i \in 1 .. l : s[p + i - 1] \in Digits
  BY <1>2, <1>5
<1>7. s[p] \in Digits
  BY <1>4, <1>6
<1>8. AfterDigits(s, p) = q
  BY <1>2, <1>4, <1>6, AfterDigitsIs
<1>9. Goes(s, p, q, u, zero, l)
  <2>1. \A i \in 1 .. q - p : s[p + i - 1] = u[zero + i]
    BY <1>2, <1>4, <1>5
  <2>2. Numeric(u, l)
    BY <1>5 DEF Numeric
  <2> QED BY <1>1, <1>2, <1>4, <2>1, <2>2, Zenon DEF Goes, l
<1>10. short \in BOOLEAN /\ (short => k < ExpHalf)
  OBVIOUS
<1> HIDE DEF short
<1>11. Continued(s, p, q, Num(u, zero, short), short) = Num(u, l, short)
  BY <1>9, <1>10, ReadOn
<1>12. Num(u, zero, short) = 0
  BY <1>10, NumNext DEF zero
<1>13. Num(u, l, short) = k
  BY <1>10, NumOfDecimal DEF u, l
<1>14. Continued(s, p, q, 0, short) = k
  BY <1>11, <1>12, <1>13, Zenon
<1> QED BY <1>4, <1>7, <1>8, <1>14, Zenon DEF short

\* The exponent is read as it was written.
LEMMA ExpRead ==
  ASSUME NEW n \in Numbers, NEW s \in Seq(Chars), NEW m,
         Stands(s, m, ExpPart(n)), m + Len(ExpPart(n)) = Len(s) + 1
  PROVE  /\ tAftRdx(s, m) = n.exp
         /\ m <= Len(s) => s[m] = "e"
<1> DEFINE x == n.exp
           q == Len(s) + 1
           a == m + 1
<1>1. x \in 1 - ExpHalf .. ExpHalf - 1 /\ ExpHalf \in Nat /\ x \in Int
  BY NumbersAre
<1>2. m \in Nat /\ m > 0 /\ Len(s) \in Nat
  BY DEF Stands
<1>3. ExpPart(n) = IF x = 0 THEN <<>>
                   ELSE Cat(<<"e">>, IF x < 0 THEN Cat(<<"-">>, Decimal[-x]) ELSE Decimal[x])
  BY Zenon DEF ExpPart
<1>4. "e" \in Chars /\ "-" \in Chars /\ "e" \in {"e", "E"} /\ "-" \in {"+", "-"} /\ "-" \in {"-"}
  BY MarksNamed, Zenon
<1>5. \A k \in Nat : Decimal[k] \in Seq(Chars)
  BY DecimalIs, DigitsAreChars
<1> HIDE DEF x
<1>6. CASE x = 0
  <2>1. ExpPart(n) = <<>>
    BY <1>3, <1>6, Zenon
  <2>2. Len(ExpPart(n)) = 0
    BY <2>1
  <2>3. ~ (m <= Len(s))
    BY <1>2, <2>2
  <2>4. tAftRdx(s, m) = 0
    BY <2>3, Zenon DEF tAftRdx, Is
  <2> QED BY <1>6, <2>3, <2>4 DEF x
<1>7. CASE x < 0
  <2> DEFINE k == -x
             d == Decimal[k]
             c == "-"
             h == "e"
  <2>1. k \in Nat /\ k < ExpHalf /\ -k = x /\ x # 0
    BY <1>1, <1>7
  <2>2. d \in Seq(Chars) /\ c \in Chars /\ h \in Chars
    BY <1>4, <1>5, <2>1
  <2>3. ExpPart(n) = Cat(<<h>>, Cat(<<c>>, d))
    BY <1>3, <1>7, <2>1, Zenon
  <2> HIDE DEF d, c, h
  <2> DEFINE v == Cat(<<c>>, d)
             w == Cat(<<h>>, v)
  <2>4. v \in Seq(Chars) /\ v = Cat(<<c>>, d) /\ w = Cat(<<h>>, v) /\ Stands(s, m, w)
        /\ m + Len(w) = q
    <3>1. v \in Seq(Chars)
      BY <2>2, SingleType, CatProperties
    <3> QED BY <2>3, <3>1, Zenon
  <2> HIDE DEF v, w
  <2>5. Led(s, m, h, v, w)
    BY <2>2, <2>4, StandsOne
  <2>6. Led(s, a, c, d, v)
    <3>1. Stands(s, a, v)
      BY <2>5 DEF Led
    <3> QED BY <2>2, <2>4, <3>1, StandsOne
  <2>7. /\ m <= Len(s) /\ s[m] = h /\ a <= Len(s) /\ s[a] = c /\ Stands(s, a + 1, d)
        /\ (a + 1) + Len(d) = q
    <3> HIDE DEF q
    <3> QED BY <2>4, <2>5, <2>6 DEF Led
  <2> DEFINE p == a + 1
  <2>8. p = a + 1 /\ Stands(s, p, d) /\ p + Len(d) = q
    BY <2>7
  <2> HIDE DEF p, q, a
  <2>9. AfterDigits(s, p) = q /\ Continued(s, p, q, 0, TRUE) = k
    <3> HIDE DEF k
    <3> QED BY <2>1, <2>8, DecimalRead DEF d, q
  <2>10. AfterSign(s, a) = p
    BY <1>4, <2>7, <2>8, Zenon DEF AfterSign, Is, c
  <2>11. Signed(s, a, k) = -k
    BY <1>4, <2>7, Zenon DEF Signed, Is, c
  <2>12. tAftRdx(s, m) = Wrapped(Signed(s, a, k))
    BY <1>4, <2>7, <2>9, <2>10, Zenon DEF tAftRdx, Is, h, a
  <2>13. Wrapped(x) = x
    BY <1>1, WrappedIs
  <2>14. tAftRdx(s, m) = x
    <3> HIDE DEF k
    <3> QED BY <2>1, <2>11, <2>12, <2>13
  <2> QED BY <2>7, <2>14 DEF h, x
<1>8. CASE x > 0
  <2> DEFINE d == Decimal[x]
             h == "e"
  <2>1. x \in Nat /\ x < ExpHalf /\ x # 0 /\ ~ (x < 0)
    BY <1>1, <1>8
  <2>2. d \in Seq(Chars) /\ h \in Chars
    BY <1>4, <1>5, <2>1
  <2>3. ExpPart(n) = Cat(<<h>>, d)
    BY <1>3, <2>1, Zenon
  <2> HIDE DEF d, h
  <2> DEFINE w == Cat(<<h>>, d)
  <2>4. w = Cat(<<h>>, d) /\ Stands(s, m, w) /\ m + Len(w) = q
    BY <2>3, Zenon
  <2> HIDE DEF w
  <2>5. Led(s, m, h, d, w)
    BY <2>2, <2>4, StandsOne
  <2>6. m <= Len(s) /\ s[m] = h /\ Stands(s, a, d) /\ a + Len(d) = q
    <3> HIDE DEF q
    <3> QED BY <2>4, <2>5 DEF Led
  <2> HIDE DEF q, a
  <2>9. s[a] \in Digits /\ AfterDigits(s, a) = q /\ Continued(s, a, q, 0, TRUE) = x
    BY <2>1, <2>6, DecimalRead DEF d, q
  <2>10. AfterSign(s, a) = a
    BY <2>9, DigitsApart, Zenon DEF AfterSign, Is
  <2>11. Signed(s, a, x) = x
    <3>1. s[a] \notin {"-"}
      BY <2>9, DigitsApart
    <3> QED BY <3>1, Zenon DEF Signed, Is
  <2>12. tAftRdx(s, m) = Wrapped(Signed(s, a, x))
    BY <1>4, <2>6, <2>9, <2>10, Zenon DEF tAftRdx, Is, h, a
  <2>13. Wrapped(x) = x
    BY <1>1, WrappedIs
  <2>14. tAftRdx(s, m) = x
    BY <2>11, <2>12, <2>13
  <2> QED BY <2>6, <2>14 DEF h, x
<1>9. x = 0 \/ x < 0 \/ x > 0
  BY <1>1
<1> QED BY <1>6, <1>7, <1>8, <1>9

\* The blank and the sign before the digits are passed over, the sign is kept.
Skipped == {" ", "\t"}

LEMMA SignRead ==
  ASSUME NEW n \in Numbers, NEW s \in Seq(Chars), NEW b, b = 1 + Len(SignPart(n)),
         Stands(s, 1, SignPart(n)), b <= Len(s), s[b] \in Digits,
         NEW start, start = FirstOf({p \in DOMAIN s : s[p] \notin Skipped}, Len(s) + 1)
  PROVE  /\ AfterSign(s, start) = b
         /\ \A x : Signed(s, start, x) = IF n.neg THEN -x ELSE x
<1> DEFINE S == {p \in DOMAIN s : s[p] \notin Skipped}
           l == Len(s)
           no == l + 1
           one == 1
           two == 2
<1>1. start = FirstOf(S, no)
  OBVIOUS
<1>2. " " \in Skipped /\ "-" \notin Skipped /\ "-" \in {"+", "-"} /\ "-" \in {"-"}
      /\ \A c \in Digits : c \notin Skipped /\ c \notin {"+", "-"} /\ c \notin {"-"}
  BY DigitsApart, Zenon DEF Skipped
<1>3. S \in SUBSET Nat /\ DOMAIN s = 1 .. l /\ l \in Nat
  OBVIOUS
<1>4. \A y \in S : one <= y /\ s[y] \notin Skipped
  BY <1>3
<1>5. \A i \in 1 .. l : s[i] \notin Skipped => i \in S
  BY <1>3
<1>6. /\ one \in Nat /\ one = 1 /\ two \in Nat /\ two = one + 1
  OBVIOUS
<1>7. /\ b = one + Len(SignPart(n)) /\ Stands(s, one, SignPart(n)) /\ b <= l
  OBVIOUS
<1> HIDE DEF S, l, no, one, two
<1>8. CASE n.neg
  <2> DEFINE u == <<" ", "-">>
  <2>1. u = SignPart(n)
    BY <1>8 DEF SignPart
  <2>2. Len(u) = two /\ u[one] = " " /\ u[two] = "-"
    BY DEF one, two
  <2> HIDE DEF u
  <2>3. b = one + two /\ Stands(s, one, u)
    BY <1>7, <2>1, <2>2
  <2>4. \A i \in 1 .. two : s[one + i - 1] = u[i]
    BY <2>2, <2>3, Zenon DEF Stands
  <2>5. /\ one \in 1 .. two /\ two \in 1 .. two /\ one + one - 1 = one /\ one + two - 1 = two
        /\ one + two = two + 1
    BY <1>6
  <2>6. s[one] = " " /\ s[two] = "-"
    BY <2>2, <2>4, <2>5
  <2>7. b = two + 1 /\ two <= l /\ two \in 1 .. l
    BY <1>3, <1>6, <1>7, <2>3, <2>5
  <2>8. two \in S /\ one \notin S
    BY <1>2, <1>4, <1>5, <2>6, <2>7
  <2>9. \A y \in S : two <= y
    <3>1. \A y \in S : y # one /\ one <= y /\ y \in Nat
      BY <1>3, <1>4, <2>8
    <3> QED BY <1>6, <3>1
  <2>10. start = two
    BY <1>1, <1>3, <2>8, <2>9, FirstIs
  <2>11. Is(s, start, {"+", "-"}) /\ Is(s, start, {"-"})
    BY <1>2, <2>6, <2>7, <2>10, Zenon DEF Is, l
  <2> QED BY <1>8, <2>7, <2>10, <2>11, Zenon DEF AfterSign, Signed
<1>9. CASE ~ n.neg
  <2>1. SignPart(n) = <<>>
    BY <1>9 DEF SignPart
  <2>2. b = one
    BY <1>6, <1>7, <2>1
  <2>3. one \in 1 .. l /\ s[one] \in Digits
    BY <1>3, <1>6, <1>7, <2>2
  <2>4. one \in S
    BY <1>2, <1>5, <2>3
  <2>5. start = one
    BY <1>1, <1>3, <1>4, <2>4, FirstIs
  <2> QED BY <1>2, <1>9, <2>2, <2>3, <2>5, Zenon DEF AfterSign, Signed, Is
<1> QED BY <1>8, <1>9, Zenon

\* The digits of the whole part end where the radix point or the exponent begins.
LEMMA WholeRead ==
  ASSUME NEW n \in Numbers, NEW s \in Seq(Chars), NEW b, NEW r,
         Stands(s, b, WholePart(n)), r = b + Point(n),
         r <= Len(s) => s[r] \notin Digits
  PROVE  /\ b <= Len(s) /\ s[b] \in Digits
         /\ AfterDigits(s, b) = r
         /\ Continued(s, b, r, 0, FALSE) = Num(AllDigits(n), Point(n), FALSE)
<1> DEFINE a == AllDigits(n)
           u == WholePart(n)
           k == Point(n)
           l == Len(s)
           zero == 0
           short == FALSE
<1>1. a \in Seq(Digits) /\ k \in 1 .. Len(a) /\ Len(a) \in Nat /\ l \in Nat
  <2>1. l \in Nat
    OBVIOUS
  <2> QED BY <2>1, AllDigitsAre
<1>2. Len(u) = k /\ \A i \in 1 .. k : u[i] = a[i]
  BY PartsType
<1>3. b \in Nat /\ b > 0 /\ b + k <= l + 1 /\ \A i \in 1 .. k : s[b + i - 1] = u[i]
  BY <1>2 DEF Stands
<1>4. zero \in Nat /\ zero = 0 /\ short \in BOOLEAN /\ r = b + k
  OBVIOUS
<1> HIDE DEF a, u, k, l, zero, short
<1>5. /\ k \in Nat /\ r \in Nat /\ r - b = k /\ b <= r /\ r <= l + 1 /\ b <= l
      /\ 1 \in 1 .. k /\ b + 1 - 1 = b /\ k - zero = k
  BY <1>1, <1>3, <1>4
<1>6. \A i \in 1 .. k : /\ s[b + i - 1] = a[i] /\ zero + i = i
                        /\ a[i] \in Digits
  BY <1>1, <1>2, <1>3, <1>4
<1>7. s[b] \in Digits
  BY <1>5, <1>6
<1>8. AfterDigits(s, b) = r
  <2>1. \A i \in 1 .. r - b : s[b + i - 1] \in Digits
    BY <1>5, <1>6
  <2> QED BY <1>3, <1>5, <2>1, AfterDigitsIs DEF l
<1>9. Goes(s, b, r, a, zero, k)
  <2>1. Numeric(a, k)
    BY <1>6 DEF Numeric
  <2>2. \A i \in 1 .. r - b : s[b + i - 1] = a[zero + i]
    BY <1>5, <1>6
  <2> QED BY <1>3, <1>4, <1>5, <2>1, <2>2, Zenon DEF Goes
<1>10. Continued(s, b, r, Num(a, zero, short), short) = Num(a, k, short)
  BY <1>4, <1>9, ReadOn
<1>11. Num(a, zero, short) = 0
  BY <1>4, NumNext DEF zero
<1>12. Continued(s, b, r, 0, short) = Num(a, k, short)
  BY <1>10, <1>11, Zenon
<1> QED BY <1>5, <1>7, <1>8, <1>12, Zenon DEF a, k, l, short

\* The digits after the radix point continue the number.
LEMMA FractionRead ==
  ASSUME NEW n \in Numbers, NEW s \in Seq(Chars), NEW p, NEW m,
         Stands(s, p, Fraction(n)), m = p + n.places,
         m <= Len(s) => s[m] \notin Digits
  PROVE  /\ AfterDigits(s, p) = m
         /\ Continued(s, p, m, Num(AllDigits(n), Point(n), FALSE), FALSE) = n.mant
<1> DEFINE a == AllDigits(n)
           u == Fraction(n)
           k == Point(n)
           z == n.places
           l == Len(s)
           e == Len(a)
           short == FALSE
<1>1. a \in Seq(Digits) /\ k \in 1 .. e /\ e \in Nat /\ e = k + z /\ Num(a, e, short) = n.mant
  BY AllDigitsAre
<1>2. Len(u) = z /\ \A i \in 1 .. z : u[i] = a[k + i]
  BY PartsType
<1>3. p \in Nat /\ p > 0 /\ p + z <= l + 1 /\ \A i \in 1 .. z : s[p + i - 1] = u[i]
  BY <1>2 DEF Stands
<1>4. z \in Nat /\ l \in Nat /\ short \in BOOLEAN /\ m = p + z
  BY NumbersAre
<1> HIDE DEF a, u, k, l, z, e, short
<1>5. /\ k \in Nat /\ m \in Nat /\ m - p = z /\ p <= m /\ m <= l + 1 /\ e - k = z
      /\ \A i \in 1 .. z : k + i \in 1 .. e
  <2>1. k \in Nat /\ k > 0 /\ e = k + z /\ m = p + z /\ p \in Nat /\ z \in Nat /\ l \in Nat
        /\ p + z <= l + 1
    BY <1>1, <1>3, <1>4
  <2> QED BY <2>1
<1>6. Numeric(a, e)
  BY <1>1 DEF Numeric, e
<1>7. \A i \in 1 .. z : s[p + i - 1] = a[k + i] /\ a[k + i] \in Digits
  BY <1>2, <1>3, <1>5, <1>6 DEF Numeric
<1>8. AfterDigits(s, p) = m
  <2>1. \A i \in 1 .. m - p : s[p + i - 1] \in Digits
    BY <1>5, <1>7
  <2> QED BY <1>3, <1>5, <2>1, AfterDigitsIs DEF l
<1>9. Goes(s, p, m, a, k, e)
  <2>1. \A i \in 1 .. m - p : s[p + i - 1] = a[k + i]
    BY <1>5, <1>7
  <2> QED BY <1>1, <1>3, <1>4, <1>5, <1>6, <2>1, Zenon DEF Goes
<1>10. Continued(s, p, m, Num(a, k, short), short) = Num(a, e, short)
  BY <1>4, <1>9, ReadOn
<1> QED BY <1>1, <1>8, <1>10, Zenon DEF a, k, short

\* What is written is read.
LEMMA RealRead ==
  ASSUME NEW n \in Numbers
  PROVE  str2real(Written(n)) = [mant |-> IF n.neg THEN -n.mant ELSE n.mant,
                                 exp  |-> n.exp - n.places]
<1> DEFINE s == Written(n)
           one == 1
           b == one + Len(SignPart(n))
           r == b + Len(WholePart(n))
           m == r + Len(FractionPart(n))
           z == n.places
           k == Point(n)
           N == Num(AllDigits(n), k, FALSE)
           start == FirstOf({p \in DOMAIN s : s[p] \notin Skipped}, Len(s) + 1)
           frac == IF Is(s, r, {".", ","}) THEN r + 1 ELSE r
           mark == IF frac = r THEN r ELSE AfterDigits(s, frac)
<1>1. /\ s \in Seq(Chars) /\ Stands(s, one, SignPart(n)) /\ Stands(s, b, WholePart(n))
      /\ Stands(s, r, FractionPart(n)) /\ Stands(s, m, ExpPart(n))
      /\ m + Len(ExpPart(n)) = Len(s) + 1
  BY WrittenStands
<1>2. /\ Len(WholePart(n)) = k /\ Fraction(n) \in Seq(Chars) /\ Len(Fraction(n)) = z
      /\ z \in 0 .. ExpHalf - 1 /\ ExpHalf \in Nat \ {0} /\ z \in Nat /\ n.exp \in Int
      /\ n.neg \in BOOLEAN /\ n.mant \in Nat
  <2>1. z \in Nat /\ n.exp \in Int
    BY NumbersAre
  <2> QED BY <2>1, PartsType, NumbersAre
<1>3. r = b + k
  BY <1>2
<1>4. r \in Nat /\ r > 0 /\ m \in Nat /\ m > 0
  BY <1>1 DEF Stands
<1> HIDE DEF s, z, k, N, b, r, m
<1>5. tAftRdx(s, m) = n.exp /\ (m <= Len(s) => s[m] = "e")
  BY <1>1, ExpRead
<1>6. "e" \notin {".", ","} /\ "e" \notin Digits /\ "." \notin Digits /\ "." \in {".", ","}
  BY DigitsApart, Zenon
<1>7. /\ r <= Len(s) => s[r] \notin Digits
      /\ mark = m /\ m - frac = z
      /\ Continued(s, frac, mark, N, FALSE) = n.mant
  <2>1. CASE z = 0
    <3>1. m = r
      <4>1. Len(FractionPart(n)) = 0
        BY <2>1 DEF FractionPart, z
      <4> QED BY <1>4, <4>1 DEF m
    <3>2. ~ Is(s, r, {".", ","})
      BY <1>5, <1>6, <3>1, Zenon DEF Is
    <3>3. frac = r /\ mark = r
      BY <3>2, Zenon
    <3>4. r <= Len(s) => s[r] \notin Digits
      BY <1>5, <1>6, <3>1
    <3>5. Continued(s, r, r, N, FALSE) = n.mant
      <4> DEFINE short == FALSE
      <4>1. Len(AllDigits(n)) = k
        <5> DEFINE l == Len(AllDigits(n))
        <5>1. k \in 1 .. l /\ l \in Nat /\ l = k + z
          BY AllDigitsAre DEF k, z
        <5> HIDE DEF l
        <5>2. l = k
          BY <2>1, <5>1
        <5> QED BY <5>2 DEF l
      <4>2. N = n.mant
        BY <4>1, AllDigitsAre DEF N
      <4>3. N \in Int /\ short \in BOOLEAN
        BY <1>2, <4>2
      <4> HIDE DEF short
      <4>4. Continued(s, r, r, N, short) = N
        BY <1>4, <4>3, ContinuedNone
      <4> QED BY <4>2, <4>4 DEF short
    <3>6. r - r = z
      BY <1>4, <2>1
    <3> QED BY <3>1, <3>3, <3>4, <3>5, <3>6
  <2>2. CASE z # 0
    <3> DEFINE point == "."
               u == Fraction(n)
               w == FractionPart(n)
               p == r + 1
    <3>1. w = Cat(<<point>>, u)
      BY <2>2, Zenon DEF FractionPart, z
    <3>2. point \in Chars /\ point \notin Digits /\ point \in {".", ","}
      BY <1>6, MarksNamed, Zenon
    <3>3. u \in Seq(Chars) /\ Len(u) = z /\ Stands(s, r, w) /\ m = r + Len(w)
      BY <1>1, <1>2 DEF m
    <3> HIDE DEF point, u, w
    <3>4. Led(s, r, point, u, w)
      BY <1>1, <3>1, <3>2, <3>3, StandsOne
    <3>5. r <= Len(s) /\ s[r] = point /\ Stands(s, p, u) /\ r + Len(w) = p + Len(u)
      BY <3>4 DEF Led
    <3>6. m = p + z
      BY <3>3, <3>5
    <3>7. Is(s, r, {".", ","})
      BY <3>2, <3>5, Zenon DEF Is
    <3>8. frac = p /\ p # r /\ p \in Nat
      <4>1. p # r /\ p \in Nat
        BY <1>4
      <4> HIDE DEF p
      <4>2. (IF Is(s, r, {".", ","}) THEN p ELSE r) = p
        BY <3>7, Zenon
      <4> QED BY <4>1, <4>2, Zenon DEF p
    <3>9. m <= Len(s) => s[m] \notin Digits
      BY <1>5, <1>6
    <3> HIDE DEF p
    <3>10. AfterDigits(s, p) = m /\ Continued(s, p, m, N, FALSE) = n.mant
      BY <1>1, <3>5, <3>6, <3>9, FractionRead DEF u, N, k, z
    <3>11. m - p = z /\ s[r] \notin Digits
      <4>1. m - p = z
        <5>1. p \in Nat /\ z \in Nat
          BY <1>2, <3>8, Zenon
        <5> QED BY <3>6, <5>1
      <4>2. s[r] \notin Digits
        BY <3>2, <3>5, Zenon
      <4> QED BY <4>1, <4>2
    <3> HIDE DEF frac
    <3>12. mark = m
      BY <3>8, <3>10, Zenon
    <3> QED BY <3>8, <3>10, <3>11, <3>12, Zenon
  <2> QED BY <1>2, <2>1, <2>2
<1> HIDE DEF frac, mark
<1>8. /\ b <= Len(s) /\ s[b] \in Digits /\ AfterDigits(s, b) = r
      /\ Continued(s, b, r, 0, FALSE) = N
  BY <1>1, <1>3, <1>7, WholeRead DEF N, k
<1>9. AfterSign(s, start) = b /\ \A x : Signed(s, start, x) = IF n.neg THEN -x ELSE x
  <2>1. b = one + Len(SignPart(n))
    BY DEF b
  <2> QED BY <1>1, <1>8, <2>1, SignRead
<1> HIDE DEF start
<1>10. Wrapped(mark - frac) = z
  <2>1. z \in 1 - ExpHalf .. ExpHalf - 1 /\ mark - frac = z
    BY <1>2, <1>7
  <2> QED BY <2>1, WrappedIs
<1>11. str2real(s) = [mant |-> Signed(s, start, Continued(s, frac, mark, N, FALSE)),
                      exp  |-> tAftRdx(s, mark) - Wrapped(mark - frac)]
  BY <1>8, <1>9, Zenon DEF str2real, start, frac, mark, Skipped
<1>12. str2real(s) = [mant |-> IF n.neg THEN -n.mant ELSE n.mant, exp |-> n.exp - z]
  <2>1. tAftRdx(s, mark) = n.exp
    BY <1>5, <1>7
  <2>2. Signed(s, start, n.mant) = IF n.neg THEN -n.mant ELSE n.mant
    BY <1>9
  <2> QED BY <1>7, <1>10, <1>11, <2>1, <2>2, Zenon
<1> QED BY <1>12 DEF s, z

(***************************************************************************)
(* str2real (t_stropt.cpp:173) reads the number that was written: its      *)
(* digits with their sign, and its exponent less the places after the      *)
(* radix point, for every number whose exponent and places fit the int16_t *)
(* they are kept in (:187).  The double it makes of the two is rounded.    *)
(***************************************************************************)
THEOREM RealAsWrittenAlways == TextSpec => []RealAsWritten
<1>1. RealAsWritten
  BY RealRead, Zenon DEF RealAsWritten
<1> QED BY <1>1, PTL
=============================================================================
