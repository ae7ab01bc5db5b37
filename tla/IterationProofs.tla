-------------------------- MODULE IterationProofs --------------------------
(***************************************************************************)
(* What the proofs of this project need to know about the loops of module   *)
(* Iteration.  Induction is stated for sets instead of predicates, so that  *)
(* it has no operator as a parameter: to show that all of S has a property, *)
(* apply it to the set of the elements that have it.                        *)
(***************************************************************************)
EXTENDS Iteration, FiniteSetTheorems, TLAPS

-----------------------------------------------------------------------------
(* Induction, for properties that are sets *)

\* Induction over the subsets of a finite set: a set of subsets that has every subset all of whose proper subsets it
\* has, has all of them.
LEMMA SubsetInduction ==
    ASSUME NEW S, IsFiniteSet(S), NEW X,
           \A T \in SUBSET S : (\A U \in SUBSET T : U # T => U \in X) => T \in X
    PROVE  \A T \in SUBSET S : T \in X
<1> DEFINE Bad == {T \in SUBSET S : T \notin X}
<1>1. SUFFICES ASSUME Bad # {} PROVE FALSE
  OBVIOUS
<1>2. IsWellFoundedOn(StrictSubsetOrdering(S), SUBSET S)
  BY FS_StrictSubsetOrderingWellFounded, FS_FiniteSubsetsOfFinite
<1>3. PICK T \in Bad : \A U \in Bad : ~ (<<U, T>> \in StrictSubsetOrdering(S))
  <2> HIDE DEF Bad
  <2>1. Bad \subseteq SUBSET S
    BY DEF Bad
  <2> QED BY <1>1, <1>2, <2>1, WFMin
<1>4. \A U \in SUBSET T : U # T => U \in X
  BY <1>3 DEF StrictSubsetOrdering
<1> QED BY <1>3, <1>4

\* Induction over the natural numbers.
LEMMA NumberInduction ==
    ASSUME NEW X, 0 \in X, \A n \in Nat : n \in X => n + 1 \in X
    PROVE  \A n \in Nat : n \in X
<1> SUFFICES ASSUME NEW m \in Nat PROVE m \in X
  OBVIOUS
<1> DEFINE Y == {T \in SUBSET (0 .. m) : \A n \in Nat : T = 0 .. n => n \in X}
<1>1. IsFiniteSet(0 .. m)
  BY FS_Interval
<1>2. ASSUME NEW T \in SUBSET (0 .. m), \A U \in SUBSET T : U # T => U \in Y
      PROVE  T \in Y
  <2>1. SUFFICES ASSUME NEW n \in Nat, T = 0 .. n, n # 0 PROVE n \in X
    OBVIOUS
  <2>2. 0 .. (n - 1) \in SUBSET T /\ 0 .. (n - 1) # T /\ n - 1 \in Nat
    BY <2>1
  <2>3. 0 .. (n - 1) \in Y
    BY <1>2, <2>2
  <2>4. n - 1 \in X
    BY <2>2, <2>3
  <2> QED BY <2>2, <2>4
<1>3. \A T \in SUBSET (0 .. m) : T \in Y
  <2> DEFINE S == 0 .. m
  <2>1. IsFiniteSet(S) /\ \A T \in SUBSET S : (\A U \in SUBSET T : U # T => U \in Y) => T \in Y
    BY <1>1, <1>2
  <2>2. \A T \in SUBSET S : T \in Y
    <3> HIDE DEF S, Y
    <3> QED BY <2>1, SubsetInduction
  <2> QED BY <2>2
<1> QED BY <1>3

-----------------------------------------------------------------------------
(* Sums *)

\* The sum of a set is that of an element and the rest.
LEMMA SumEquation ==
    ASSUME NEW f, NEW S, IsFiniteSet(S)
    PROVE  SumOver(f, S) = IF S = {} THEN 0 ELSE f[Pick(S)] + SumOver(f, S \ {Pick(S)})
<1> DEFINE Step(g, T) == IF T = {} THEN 0 ELSE f[Pick(T)] + g[T \ {Pick(T)}]
           Is(g, U) == g = [T \in SUBSET U |-> Step(g, T)]
           Sum(T) == SumOver(f, T)
           Eq(T) == Sum(T) = IF T = {} THEN 0 ELSE f[Pick(T)] + Sum(T \ {Pick(T)})
           X == {T \in SUBSET S : Eq(T)}
<1>1. \A U : Sum(U) = (CHOOSE g : Is(g, U))[U]
  BY DEF SumOver, Pick
<1>2. \A T : T # {} => Pick(T) \in T
  BY DEF Pick
<1> HIDE DEF Sum
<1>3. ASSUME NEW U \in SUBSET S, \A T \in SUBSET U : T # U => T \in X
      PROVE  U \in X
  <2> DEFINE g == [T \in SUBSET U |-> IF T = U THEN IF U = {} THEN 0 ELSE f[Pick(U)] + Sum(U \ {Pick(U)}) ELSE Sum(T)]
             h == CHOOSE g1 : Is(g1, U)
  <2>1. \A T \in SUBSET U : T # {} => T \ {Pick(T)} \in SUBSET U /\ T \ {Pick(T)} # U /\ T \ {Pick(T)} # T
    BY <1>2
  <2>2. \A T \in SUBSET U : g[T] = Step(g, T)
    BY <1>3, <2>1
  <2>3. Is(g, U)
    <3> HIDE DEF Step
    <3> QED BY <2>2
  <2>4. Is(h, U)
    <3> HIDE DEF Is, g
    <3> QED BY <2>3
  <2>5. \A T \in SUBSET U : h[T] = Step(h, T)
    <3> HIDE DEF h, Step
    <3> QED BY <2>4
  <2> HIDE DEF h, g, Is
  <2> DEFINE Y == {T \in SUBSET U : T # U => h[T] = Sum(T)}
  <2>6. ASSUME NEW T \in SUBSET U, \A V \in SUBSET T : V # T => V \in Y
        PROVE  T \in Y
    <3>1. SUFFICES ASSUME T # U PROVE h[T] = Sum(T)
      OBVIOUS
    <3>2. Eq(T) /\ h[T] = Step(h, T)
      BY <1>3, <2>5, <3>1
    <3>3. T # {} => h[T \ {Pick(T)}] = Sum(T \ {Pick(T)})
      BY <2>1, <2>6
    <3> QED BY <3>2, <3>3
  <2>7. \A T \in SUBSET U : T \in Y
    <3>1. IsFiniteSet(U)
      BY FS_Subset
    <3> HIDE DEF Y
    <3> QED BY <2>6, <3>1, SubsetInduction
  <2>8. Sum(U) = h[U]
    BY <1>1 DEF h
  <2> QED BY <2>1, <2>5, <2>7, <2>8
<1>4. \A U \in SUBSET S : U \in X
  <2> HIDE DEF X
  <2> QED BY <1>3, SubsetInduction
<1> QED BY <1>4 DEF Sum

\* Of natural numbers the sum is one.
LEMMA SumType ==
    ASSUME NEW f, NEW S, IsFiniteSet(S), \A x \in S : f[x] \in Nat
    PROVE  SumOver(f, S) \in Nat
<1> DEFINE X == {T \in SUBSET S : SumOver(f, T) \in Nat}
<1>1. ASSUME NEW T \in SUBSET S, \A U \in SUBSET T : U # T => U \in X
      PROVE  T \in X
  <2>1. SumOver(f, T) = IF T = {} THEN 0 ELSE f[Pick(T)] + SumOver(f, T \ {Pick(T)})
    BY SumEquation, FS_Subset
  <2>2. T # {} => Pick(T) \in T /\ T \ {Pick(T)} \in X
    BY <1>1 DEF Pick
  <2> QED BY <2>1, <2>2
<1>2. \A T \in SUBSET S : T \in X
  <2> HIDE DEF X
  <2> QED BY <1>1, SubsetInduction
<1> QED BY <1>2

\* The order of the loop does not matter: any element may be taken off.
LEMMA SumRemove ==
    ASSUME NEW f, NEW S, IsFiniteSet(S), \A x \in S : f[x] \in Nat, NEW x \in S
    PROVE  SumOver(f, S) = f[x] + SumOver(f, S \ {x})
<1> DEFINE Sum(T) == SumOver(f, T)
           X == {T \in SUBSET S : \A y \in T : Sum(T) = f[y] + Sum(T \ {y})}
<1>1. \A T \in SUBSET S : Sum(T) \in Nat
  BY SumType, FS_Subset
<1>2. \A T \in SUBSET S : T # {} => Pick(T) \in T /\ Sum(T) = f[Pick(T)] + Sum(T \ {Pick(T)})
  <2> TAKE T \in SUBSET S
  <2>1. Sum(T) = IF T = {} THEN 0 ELSE f[Pick(T)] + Sum(T \ {Pick(T)})
    BY SumEquation, FS_Subset
  <2> QED BY <2>1 DEF Pick
<1> HIDE DEF Sum
<1>3. ASSUME NEW T \in SUBSET S, \A U \in SUBSET T : U # T => U \in X
      PROVE  T \in X
  <2> SUFFICES ASSUME NEW y \in T, y # Pick(T) PROVE Sum(T) = f[y] + Sum(T \ {y})
    BY <1>2
  <2> DEFINE p == Pick(T)
  <2>1. p \in T /\ Sum(T) = f[p] + Sum(T \ {p})
    BY <1>2
  <2> HIDE DEF p
  <2>2. y # p
    BY DEF p
  <2>3. Sum(T \ {p}) = f[y] + Sum((T \ {p}) \ {y})
    BY <1>3, <2>1, <2>2
  <2>4. Sum(T \ {y}) = f[p] + Sum((T \ {y}) \ {p})
    BY <1>3, <2>1, <2>2
  <2>5. (T \ {p}) \ {y} = (T \ {y}) \ {p}
    OBVIOUS
  <2> DEFINE rest == Sum((T \ {y}) \ {p})
  <2>6. rest \in Nat /\ f[p] \in Nat /\ f[y] \in Nat
    BY <1>1, <2>1
  <2> QED BY <2>1, <2>3, <2>4, <2>5, <2>6
<1>4. \A T \in SUBSET S : T \in X
  <2> HIDE DEF X
  <2> QED BY <1>3, SubsetInduction
<1> QED BY <1>4 DEF Sum

\* The sum over nothing.
LEMMA SumEmpty ==
    ASSUME NEW f
    PROVE  SumOver(f, {}) = 0
BY SumEquation, FS_EmptySet

\* An element more.
LEMMA SumAdd ==
    ASSUME NEW f, NEW S, IsFiniteSet(S), NEW x, x \notin S, \A y \in S \cup {x} : f[y] \in Nat
    PROVE  SumOver(f, S \cup {x}) = f[x] + SumOver(f, S)
<1>1. IsFiniteSet(S \cup {x}) /\ (S \cup {x}) \ {x} = S
  BY FS_AddElement
<1> QED BY <1>1, SumRemove

\* The sum over two parts of a set.
LEMMA SumSplit ==
    ASSUME NEW f, NEW S, IsFiniteSet(S), \A x \in S : f[x] \in Nat, NEW T \in SUBSET S
    PROVE  SumOver(f, S) = SumOver(f, T) + SumOver(f, S \ T)
<1> DEFINE Sum(U) == SumOver(f, U)
           X == {U \in SUBSET S : Sum(S) = Sum(U) + Sum(S \ U)}
<1>1. \A U \in SUBSET S : Sum(U) \in Nat
  BY SumType, FS_Subset
<1>2. \A U \in SUBSET S : \A x \in U : Sum(U) = f[x] + Sum(U \ {x})
  <2> TAKE U \in SUBSET S
  <2> TAKE x \in U
  <2>1. IsFiniteSet(U) /\ \A y \in U : f[y] \in Nat
    BY FS_Subset
  <2> QED BY <2>1, SumRemove
<1>3. Sum({}) = 0
  BY SumEmpty
<1> HIDE DEF Sum
<1>4. ASSUME NEW U \in SUBSET S, \A V \in SUBSET U : V # U => V \in X
      PROVE  U \in X
  <2>1. CASE U = {}
    <3>1. S \ U = S
      BY <2>1
    <3> QED BY <1>1, <1>3, <2>1, <3>1
  <2>2. CASE U # {}
    <3>1. PICK x \in U : TRUE
      BY <2>2
    <3>2. Sum(U) = f[x] + Sum(U \ {x})
      BY <1>2
    <3>3. Sum(S) = Sum(U \ {x}) + Sum(S \ (U \ {x}))
      BY <1>4, <3>1
    <3>4. (S \ (U \ {x})) \ {x} = S \ U /\ S \ (U \ {x}) \in SUBSET S /\ x \in S \ (U \ {x})
      BY <3>1
    <3>5. Sum(S \ (U \ {x})) = f[x] + Sum(S \ U)
      BY <1>2, <3>4
    <3>6. Sum(S \ U) \in Nat /\ Sum(U \ {x}) \in Nat /\ f[x] \in Nat
      BY <1>1
    <3>7. \A a, b, c, d, s, y \in Nat : a = y + b /\ s = b + d /\ d = y + c => s = a + c
      OBVIOUS
    <3>8. Sum(S) = Sum(U) + Sum(S \ U)
      <4> HIDE DEF X
      <4>1. Sum(S) \in Nat /\ Sum(U) \in Nat /\ Sum(S \ (U \ {x})) \in Nat
        BY <1>1
      <4> QED BY <3>2, <3>3, <3>5, <3>6, <3>7, <4>1
    <3> QED BY <3>8
  <2> QED BY <2>1, <2>2
<1>5. \A U \in SUBSET S : U \in X
  <2> HIDE DEF X
  <2> QED BY <1>4, SubsetInduction
<1> QED BY <1>5 DEF Sum

\* A sum depends on nothing but the elements of its set.
LEMMA SumSame ==
    ASSUME NEW f, NEW g, NEW S, IsFiniteSet(S), \A x \in S : f[x] = g[x]
    PROVE  SumOver(f, S) = SumOver(g, S)
<1> DEFINE X == {T \in SUBSET S : SumOver(f, T) = SumOver(g, T)}
<1>1. ASSUME NEW T \in SUBSET S, \A U \in SUBSET T : U # T => U \in X
      PROVE  T \in X
  <2>1. \A h : SumOver(h, T) = IF T = {} THEN 0 ELSE h[Pick(T)] + SumOver(h, T \ {Pick(T)})
    BY SumEquation, FS_Subset
  <2>2. T # {} => Pick(T) \in T /\ T \ {Pick(T)} \in X
    BY <1>1 DEF Pick
  <2> QED BY <2>1, <2>2
<1>2. \A T \in SUBSET S : T \in X
  <2> HIDE DEF X
  <2> QED BY <1>1, SubsetInduction
<1> QED BY <1>2

\* A sum changes by what one of its terms does.
LEMMA SumChange ==
    ASSUME NEW f, NEW g, NEW S, IsFiniteSet(S), NEW x \in S, \A y \in S : f[y] \in Nat /\ g[y] \in Nat,
           \A y \in S : y # x => f[y] = g[y]
    PROVE  SumOver(f, S) \in Nat /\ SumOver(g, S) \in Nat /\ SumOver(g, S) + f[x] = SumOver(f, S) + g[x]
<1> DEFINE R == S \ {x}
<1>1. IsFiniteSet(R)
  BY FS_Subset
<1>2. SumOver(f, R) = SumOver(g, R) /\ SumOver(f, R) \in Nat
  BY <1>1, SumSame, SumType
<1>3. SumOver(f, S) = f[x] + SumOver(f, R) /\ SumOver(g, S) = g[x] + SumOver(g, R)
  BY SumRemove
<1>4. f[x] \in Nat /\ g[x] \in Nat
  OBVIOUS
<1> HIDE DEF R
<1> QED BY <1>2, <1>3, <1>4

-----------------------------------------------------------------------------
(* Filters *)

\* The loop of Filter: a sequence for every prefix, each made from the one before.
LEMMA FilterLoop ==
    ASSUME NEW s, Len(s) \in Nat, NEW S
    PROVE  \E kept : /\ kept[0] = <<>>
                     /\ \A i \in 1 .. Len(s) : kept[i] = IF s[i] \in S THEN Append(kept[i - 1], s[i]) ELSE kept[i - 1]
                     /\ Filter(s, S) = kept[Len(s)]
<1> DEFINE Step(g, i) == IF i = 0 THEN <<>> ELSE IF s[i] \in S THEN Append(g[i - 1], s[i]) ELSE g[i - 1]
           Is(g, n) == g = [i \in 0 .. n |-> Step(g, i)]
           X == {n \in Nat : \E g : Is(g, n)}
<1>1. Filter(s, S) = (CHOOSE g : Is(g, Len(s)))[Len(s)]
  BY DEF Filter
<1>2. 0 \in X
  <2> DEFINE g == [i \in 0 .. 0 |-> <<>>]
  <2>1. \A i \in 0 .. 0 : g[i] = Step(g, i)
    OBVIOUS
  <2>2. Is(g, 0)
    <3> HIDE DEF Step
    <3> QED BY <2>1
  <2> QED BY <2>2
<1>3. ASSUME NEW n \in Nat, n \in X PROVE n + 1 \in X
  <2>1. PICK g : Is(g, n)
    BY <1>3
  <2> DEFINE h == [i \in 0 .. n + 1 |-> IF i = n + 1 THEN Step(g, n + 1) ELSE g[i]]
  <2>2. \A i \in 0 .. n : g[i] = Step(g, i)
    <3> HIDE DEF Step
    <3> QED BY <2>1
  <2>3. \A i \in 0 .. n + 1 : h[i] = Step(h, i)
    BY <2>2
  <2>4. Is(h, n + 1)
    <3> HIDE DEF Step
    <3> QED BY <2>3
  <2> HIDE DEF Is
  <2> QED BY <2>4
<1>4. \A n \in Nat : n \in X
  <2> HIDE DEF X
  <2> QED BY <1>2, <1>3, NumberInduction
<1> DEFINE kept == CHOOSE g : Is(g, Len(s))
<1>5. Is(kept, Len(s))
  <2>1. \E g : Is(g, Len(s))
    BY <1>4
  <2> HIDE DEF Is
  <2> QED BY <2>1
<1>6. \A i \in 0 .. Len(s) : kept[i] = Step(kept, i)
  <2> HIDE DEF Step, kept
  <2> QED BY <1>5
<1>7. kept[0] = <<>>
  BY <1>6
<1>8. \A i \in 1 .. Len(s) : kept[i] = IF s[i] \in S THEN Append(kept[i - 1], s[i]) ELSE kept[i - 1]
  <2> HIDE DEF kept
  <2> QED BY <1>6
<1> HIDE DEF kept
<1>9. Filter(s, S) = kept[Len(s)]
  BY <1>1 DEF kept
<1> QED BY <1>7, <1>8, <1>9

-----------------------------------------------------------------------------
(* Sequences of numbers that follow each other *)

\* s is a + 1, a + 2, ..., b
Consecutive(s, a, b) ==
    a \in Nat /\ b \in Nat /\ a <= b /\ s \in Seq(Nat) /\ Len(s) = b - a /\ \A i \in 1 .. Len(s) : s[i] = a + i

Larger(x, y) == IF x > y THEN x ELSE y

\* The next number at the end.
LEMMA ConsecutiveAppend ==
    ASSUME NEW s, NEW a, NEW b, Consecutive(s, a, b)
    PROVE  Consecutive(Append(s, b + 1), a, b + 1)
<1> DEFINE t == Append(s, b + 1)
<1>1. a \in Nat /\ b \in Nat /\ a <= b /\ s \in Seq(Nat) /\ Len(s) = b - a /\ b + 1 \in Nat
  BY DEF Consecutive
<1>2. t \in Seq(Nat) /\ Len(t) = Len(s) + 1 /\ t[Len(s) + 1] = b + 1 /\ \A i \in 1 .. Len(s) : t[i] = s[i]
  BY <1>1
<1> HIDE DEF t
<1>3. \A i \in 1 .. Len(t) : t[i] = a + i
  <2> TAKE i \in 1 .. Len(t)
  <2>1. CASE i = Len(s) + 1
    BY <1>1, <1>2, <2>1
  <2>2. CASE i \in 1 .. Len(s)
    BY <1>2, <2>2 DEF Consecutive
  <2> QED BY <1>1, <1>2, <2>1, <2>2
<1>4. Consecutive(t, a, b + 1)
  BY <1>1, <1>2, <1>3 DEF Consecutive
<1> QED BY <1>4 DEF t

\* Without the first.
LEMMA ConsecutiveTail ==
    ASSUME NEW s, NEW a, NEW b, Consecutive(s, a, b), s # <<>>
    PROVE  Head(s) = a + 1 /\ Consecutive(Tail(s), a + 1, b)
<1>1. Len(s) # 0
  BY DEF Consecutive
<1> QED BY <1>1 DEF Consecutive

\* The last n.
LEMMA ConsecutiveEnd ==
    ASSUME NEW s, NEW a, NEW b, Consecutive(s, a, b), NEW c \in Nat, a <= c, c <= b
    PROVE  Consecutive(SubSeq(s, c - a + 1, Len(s)), c, b)
BY DEF Consecutive

\* Those after c.
LEMMA ConsecutiveFilter ==
    ASSUME NEW s, NEW a, NEW b, Consecutive(s, a, b), NEW c \in Nat
    PROVE  Consecutive(Filter(s, {n \in Nat : n > c}), Larger(c, a), Larger(c, b))
<1> DEFINE After == {n \in Nat : n > c}
<1>0. a \in Nat /\ b \in Nat /\ a <= b /\ Len(s) = b - a /\ Len(s) \in Nat
  BY DEF Consecutive
<1>1. PICK kept : /\ kept[0] = <<>>
                  /\ \A i \in 1 .. Len(s) : kept[i] = IF s[i] \in After THEN Append(kept[i - 1], s[i]) ELSE kept[i - 1]
                  /\ Filter(s, After) = kept[Len(s)]
  BY <1>0, FilterLoop
<1> DEFINE Good(i) == Consecutive(kept[i], Larger(c, a), Larger(c, a + i))
           X == {i \in Nat : i <= Len(s) => Good(i)}
<1>2. 0 \in X
  <2>1. a + 0 = a /\ Larger(c, a) \in Nat
    BY <1>0 DEF Larger
  <2>2. Consecutive(<<>>, Larger(c, a), Larger(c, a))
    BY <2>1 DEF Consecutive
  <2> QED BY <1>1, <2>1, <2>2
<1>3. ASSUME NEW i \in Nat, i \in X PROVE i + 1 \in X
  <2>1. SUFFICES ASSUME i + 1 <= Len(s) PROVE Good(i + 1)
    BY <1>0
  <2>2. Good(i)
    BY <1>0, <1>3, <2>1
  <2>3. s[i + 1] = a + i + 1 /\ i + 1 \in 1 .. Len(s)
    BY <1>0, <2>1 DEF Consecutive
  <2>4. kept[i + 1] = IF s[i + 1] \in After THEN Append(kept[i], s[i + 1]) ELSE kept[i]
    <3>1. (i + 1) - 1 = i
      OBVIOUS
    <3> QED BY <1>1, <2>3, <3>1
  <2>5. CASE a + i + 1 <= c
    <3>1. Larger(c, a + i) = Larger(c, a + (i + 1)) /\ kept[i + 1] = kept[i]
      BY <1>0, <2>3, <2>4, <2>5 DEF Larger
    <3> QED BY <2>2, <3>1
  <2>6. CASE a + i + 1 > c
    <3>1. Larger(c, a + i) = a + i /\ Larger(c, a + (i + 1)) = (a + i) + 1
      BY <1>0, <2>6 DEF Larger
    <3>2. kept[i + 1] = Append(kept[i], (a + i) + 1)
      BY <1>0, <2>3, <2>4, <2>6
    <3> QED BY <2>2, <3>1, <3>2, ConsecutiveAppend
  <2> QED BY <1>0, <2>5, <2>6
<1>4. Len(s) \in X
  <2> HIDE DEF X
  <2>1. \A i \in Nat : i \in X
    BY <1>2, <1>3, NumberInduction
  <2> QED BY <1>0, <2>1
<1>5. Good(Len(s)) /\ a + Len(s) = b
  BY <1>0, <1>4
<1> QED BY <1>1, <1>5

\* A buffer of the last numbers: n is added and the oldest goes if there are more than cap.
LEMMA KeepLast ==
    ASSUME NEW n \in Nat \ {0}, NEW r, Consecutive(r, (n - 1) - Len(r), n - 1), NEW cap \in Nat \ {0}, NEW last,
           last = SubSeq(Append(r, n), IF Len(Append(r, n)) > cap THEN Len(Append(r, n)) - cap + 1 ELSE 1, Len(Append(r, n)))
    PROVE  Consecutive(last, n - Len(last), n) /\ Len(last) > 0
<1> DEFINE a == (n - 1) - Len(r)
           t == Append(r, n)
<1>1. Consecutive(t, a, n)
  <2>1. (n - 1) + 1 = n
    OBVIOUS
  <2> QED BY <2>1, ConsecutiveAppend
<1>2. Len(t) = n - a /\ a \in Nat /\ a < n
  BY <1>1 DEF Consecutive
<1> HIDE DEF a, t
<1> DEFINE c == IF Len(t) > cap THEN n - cap ELSE a
<1>3. c \in Nat /\ a <= c /\ c < n /\ c - a + 1 = IF Len(t) > cap THEN Len(t) - cap + 1 ELSE 1
  BY <1>2
<1>4. last = SubSeq(t, c - a + 1, Len(t))
  BY <1>3 DEF t
<1> HIDE DEF c
<1>5. Consecutive(last, c, n)
  <2>1. a <= c /\ c <= n /\ c \in Nat
    BY <1>3
  <2>2. Consecutive(SubSeq(t, c - a + 1, Len(t)), c, n)
    BY <1>1, <2>1, ConsecutiveEnd
  <2> QED BY <1>4, <2>2
<1> DEFINE m == Len(last)
<1>6. m = n - c
  BY <1>5 DEF Consecutive
<1> HIDE DEF m
<1>7. c = n - m /\ m > 0
  BY <1>3, <1>6
<1> QED BY <1>5, <1>7 DEF m

-----------------------------------------------------------------------------
(* Sequences of numbers that grow *)

Elements(s) == {s[n] : n \in 1 .. Len(s)}

Rising(s) == s \in Seq(Nat) /\ \A m, n \in 1 .. Len(s) : m < n => s[m] < s[n]

LEMMA RisingEmpty == Rising(<<>>) /\ Elements(<<>>) = {}
BY DEF Rising, Elements

\* One more, larger than all.
LEMMA RisingAppend ==
    ASSUME NEW s, Rising(s), NEW x \in Nat, \A y \in Elements(s) : y < x
    PROVE  Rising(Append(s, x)) /\ Elements(Append(s, x)) = Elements(s) \cup {x}
<1> DEFINE t == Append(s, x)
           k == Len(s)
<1>1. /\ s \in Seq(Nat) /\ k \in Nat /\ t \in Seq(Nat) /\ Len(t) = k + 1 /\ t[k + 1] = x
      /\ \A n \in 1 .. k : t[n] = s[n] /\ s[n] < x
  BY DEF Rising, Elements
<1>2. \A m, n \in 1 .. k : m < n => s[m] < s[n]
  BY DEF Rising
<1> HIDE DEF t, k
<1>3. \A n \in 1 .. k + 1 : n \in 1 .. k \/ n = k + 1
  BY <1>1
<1>4. \A m, n \in 1 .. k + 1 : m < n => m \in 1 .. k
  BY <1>1
<1>5. \A m, n \in 1 .. k + 1 : m < n => t[m] < t[n]
  <2> SUFFICES ASSUME NEW m \in 1 .. k + 1, NEW n \in 1 .. k + 1, m < n PROVE t[m] < t[n]
    OBVIOUS
  <2>1. m \in 1 .. k /\ t[m] = s[m] /\ s[m] < x
    BY <1>1, <1>4
  <2>2. CASE n \in 1 .. k
    BY <1>1, <1>2, <2>1, <2>2
  <2>3. CASE n = k + 1
    BY <1>1, <2>1, <2>3
  <2> QED BY <1>3, <2>2, <2>3
<1>6. {t[n] : n \in 1 .. k + 1} = {s[n] : n \in 1 .. k} \cup {x}
  <2>1. \A n \in 1 .. k : n \in 1 .. k + 1
    BY <1>1
  <2>2. k + 1 \in 1 .. k + 1
    BY <1>1
  <2> QED BY <1>1, <1>3, <2>1, <2>2
<1>7. Elements(t) = {t[n] : n \in 1 .. k + 1} /\ Elements(s) = {s[n] : n \in 1 .. k}
  BY <1>1 DEF Elements, k
<1>8. Rising(t)
  BY <1>1, <1>5 DEF Rising
<1> QED BY <1>6, <1>7, <1>8 DEF t

\* One after the other.
LEMMA RisingConcat ==
    ASSUME NEW s, Rising(s), NEW t, Rising(t), \A x \in Elements(s), y \in Elements(t) : x < y
    PROVE  Rising(s \o t) /\ Elements(s \o t) = Elements(s) \cup Elements(t)
<1> DEFINE u == s \o t
           k == Len(s)
           l == Len(t)
<1>1. /\ s \in Seq(Nat) /\ t \in Seq(Nat) /\ k \in Nat /\ l \in Nat /\ u \in Seq(Nat) /\ Len(u) = k + l
      /\ \A n \in 1 .. k + l : u[n] = IF n <= k THEN s[n] ELSE t[n - k]
  BY DEF Rising
<1>2. /\ \A m, n \in 1 .. k : m < n => s[m] < s[n]
      /\ \A m, n \in 1 .. l : m < n => t[m] < t[n]
      /\ \A m \in 1 .. k, n \in 1 .. l : s[m] < t[n]
  BY DEF Rising, Elements
<1>3. Elements(s) = {s[n] : n \in 1 .. k} /\ Elements(t) = {t[n] : n \in 1 .. l} /\ Elements(u) = {u[n] : n \in 1 .. k + l}
  BY <1>1 DEF Elements
<1> HIDE DEF u, k, l
<1>4. \A n \in 1 .. k + l : \/ n <= k /\ n \in 1 .. k /\ u[n] = s[n]
                            \/ ~(n <= k) /\ n - k \in 1 .. l /\ u[n] = t[n - k]
  BY <1>1
<1>5. ASSUME NEW m \in 1 .. k + l, NEW n \in 1 .. k + l, m < n PROVE u[m] < u[n]
  <2>1. CASE n <= k
    <3>1. m <= k
      BY <1>1, <1>5, <2>1
    <3> QED BY <1>2, <1>4, <1>5, <2>1, <3>1
  <2>2. CASE ~(n <= k) /\ m <= k
    BY <1>2, <1>4, <2>2
  <2>3. CASE ~(n <= k) /\ ~(m <= k)
    <3>1. m - k < n - k
      BY <1>1, <1>5
    <3> QED BY <1>2, <1>4, <2>3, <3>1
  <2> QED BY <2>1, <2>2, <2>3
<1>6. {u[n] : n \in 1 .. k + l} = {s[n] : n \in 1 .. k} \cup {t[n] : n \in 1 .. l}
  <2>1. \A n \in 1 .. k : n \in 1 .. k + l /\ u[n] = s[n]
    BY <1>1
  <2>2. \A n \in 1 .. l : k + n \in 1 .. k + l /\ u[k + n] = t[n]
    <3> SUFFICES ASSUME NEW n \in 1 .. l PROVE k + n \in 1 .. k + l /\ u[k + n] = t[n]
      OBVIOUS
    <3>1. k + n \in 1 .. k + l /\ ~(k + n <= k) /\ (k + n) - k = n
      BY <1>1
    <3> QED BY <1>1, <3>1
  <2> QED BY <1>4, <2>1, <2>2
<1> QED BY <1>1, <1>3, <1>5, <1>6 DEF Rising, u

\* No number is in it twice.
LEMMA RisingOnce ==
    ASSUME NEW s, Rising(s)
    PROVE  IsFiniteSet(Elements(s)) /\ Cardinality(Elements(s)) = Len(s)
<1> DEFINE k == Len(s)
           E == Elements(s)
           f == [n \in 1 .. k |-> s[n]]
<1>1. s \in Seq(Nat) /\ k \in Nat /\ \A n \in 1 .. k : s[n] \in Nat
  BY DEF Rising
<1>2. \A m, n \in 1 .. k : s[m] = s[n] => m = n
  <2>1. \A m, n \in 1 .. k : m < n => s[m] < s[n]
    BY DEF Rising
  <2>2. \A m, n \in 1 .. k : m < n \/ m = n \/ n < m
    BY <1>1
  <2> HIDE DEF k
  <2> QED BY <1>1, <2>1, <2>2
<1>3. f \in Bijection(1 .. k, E)
  <2>1. f \in [1 .. k -> E]
    BY DEF Elements
  <2>2. \A x \in E : \E n \in 1 .. k : f[n] = x
    BY DEF Elements
  <2>3. \A m, n \in 1 .. k : f[m] = f[n] => m = n
    BY <1>2
  <2> HIDE DEF f, k, E
  <2> QED BY <2>1, <2>2, <2>3 DEF Bijection, Injection, Surjection, IsInjective
<1>4. IsFiniteSet(1 .. k) /\ Cardinality(1 .. k) = k
  BY <1>1, FS_Interval
<1>5. ExistsBijection(1 .. k, E)
  BY <1>3 DEF ExistsBijection
<1> HIDE DEF E
<1>6. IsFiniteSet(E) /\ Cardinality(E) = k
  BY <1>4, <1>5, FS_Bijection
<1> QED BY <1>6 DEF E

\* The beginning.
LEMMA RisingStart ==
    ASSUME NEW s, Rising(s), NEW k \in 1 .. Len(s)
    PROVE  LET t == SubSeq(s, 1, k) IN
           Rising(t) /\ Elements(t) = {x \in Elements(s) : x <= s[k]}
<1> DEFINE t == SubSeq(s, 1, k)
           l == Len(s)
<1>1. s \in Seq(Nat) /\ l \in Nat /\ k \in Nat /\ 1 <= k /\ k <= l
  BY DEF Rising
<1>2. t \in Seq(Nat) /\ Len(t) = k /\ \A n \in 1 .. k : t[n] = s[n]
  BY <1>1
<1>3. /\ \A m, n \in 1 .. l : m < n => s[m] < s[n]
      /\ \A n \in 1 .. l : s[n] \in Nat
  BY DEF Rising
<1>4. Elements(t) = {t[n] : n \in 1 .. k} /\ Elements(s) = {s[n] : n \in 1 .. l}
  BY <1>2 DEF Elements
<1> HIDE DEF t, l
<1>5. \A n \in 1 .. k : n \in 1 .. l
  BY <1>1
<1>6. Rising(t)
  BY <1>2, <1>3, <1>5 DEF Rising
<1>7. \A n \in 1 .. l : s[n] <= s[k] <=> n \in 1 .. k
  <2>0. k \in 1 .. l
    BY <1>1
  <2>1. \A n \in 1 .. l : n < k \/ n = k \/ k < n
    BY <1>1
  <2>2. \A n \in 1 .. l : n \in 1 .. k <=> ~(k < n)
    BY <1>1
  <2>3. \A n \in 1 .. l : n < k => s[n] <= s[k]
    BY <1>3, <2>0
  <2>4. \A n \in 1 .. l : k < n => ~(s[n] <= s[k])
    BY <1>3, <2>0
  <2>5. s[k] <= s[k]
    BY <1>3, <2>0
  <2> QED BY <2>1, <2>2, <2>3, <2>4, <2>5
<1>8. {t[n] : n \in 1 .. k} = {x \in {s[n] : n \in 1 .. l} : x <= s[k]}
  BY <1>2, <1>5, <1>7
<1> QED BY <1>4, <1>6, <1>8 DEF t

\* What a filter leaves.
LEMMA RisingFilter ==
    ASSUME NEW s, Rising(s), NEW S
    PROVE  Rising(Filter(s, S)) /\ Elements(Filter(s, S)) = Elements(s) \cap S
<1>1. s \in Seq(Nat) /\ Len(s) \in Nat /\ (\A n \in 1 .. Len(s) : s[n] \in Nat)
      /\ \A m, n \in 1 .. Len(s) : m < n => s[m] < s[n]
  BY DEF Rising
<1>2. PICK kept : /\ kept[0] = <<>>
                  /\ \A i \in 1 .. Len(s) : kept[i] = IF s[i] \in S THEN Append(kept[i - 1], s[i]) ELSE kept[i - 1]
                  /\ Filter(s, S) = kept[Len(s)]
  BY <1>1, FilterLoop
<1> DEFINE k == Len(s)
           Those(i) == {s[n] : n \in 1 .. i} \cap S
           X == {i \in Nat : i <= k => Rising(kept[i]) /\ Elements(kept[i]) = Those(i)}
<1>3. 0 \in X
  <2>1. 1 .. 0 = {}
    OBVIOUS
  <2>2. Those(0) = {}
    BY <2>1
  <2> HIDE DEF Those
  <2> QED BY <1>2, <2>2, RisingEmpty
<1>4. ASSUME NEW i \in Nat, i \in X PROVE i + 1 \in X
  <2> SUFFICES ASSUME i + 1 <= k PROVE Rising(kept[i + 1]) /\ Elements(kept[i + 1]) = Those(i + 1)
    OBVIOUS
  <2> HIDE DEF k
  <2>1. k \in Nat /\ i <= k /\ i + 1 \in 1 .. k /\ (i + 1) - 1 = i /\ \A n \in 1 .. i : n \in 1 .. k /\ n < i + 1
    BY <1>1 DEF k
  <2>2. Rising(kept[i]) /\ Elements(kept[i]) = Those(i)
    BY <1>4, <2>1
  <2>3. kept[i + 1] = IF s[i + 1] \in S THEN Append(kept[i], s[i + 1]) ELSE kept[i]
    BY <1>2, <2>1 DEF k
  <2>4. \A n \in 1 .. i + 1 : n \in 1 .. i \/ n = i + 1
    OBVIOUS
  <2>5. i + 1 \in 1 .. i + 1 /\ \A n \in 1 .. i : n \in 1 .. i + 1
    OBVIOUS
  <2>6. {s[n] : n \in 1 .. i + 1} = {s[n] : n \in 1 .. i} \cup {s[i + 1]}
    BY <2>4, <2>5
  <2>7. CASE s[i + 1] \in S
    <3>1. s[i + 1] \in Nat /\ \A y \in Elements(kept[i]) : y < s[i + 1]
      BY <1>1, <2>1, <2>2 DEF k
    <3>2. Rising(kept[i + 1]) /\ Elements(kept[i + 1]) = Those(i) \cup {s[i + 1]}
      BY <2>2, <2>3, <2>7, <3>1, RisingAppend
    <3> QED BY <2>6, <2>7, <3>2
  <2>8. CASE s[i + 1] \notin S
    BY <2>2, <2>3, <2>6, <2>8
  <2> QED BY <2>7, <2>8
<1>5. \A i \in Nat : i \in X
  <2> HIDE DEF X
  <2> QED BY <1>3, <1>4, NumberInduction
<1>6. Rising(kept[k]) /\ Elements(kept[k]) = Those(k)
  <2>1. k \in Nat /\ k <= k
    BY <1>1
  <2> QED BY <1>5, <2>1
<1> QED BY <1>2, <1>6 DEF Elements

-----------------------------------------------------------------------------
(* Finite sets in the order of a key *)

\* The place of an element in the order of a key that no two share, from 1: it grows with the key, and all places are
\* taken.
LEMMA Ranks ==
    ASSUME NEW A, IsFiniteSet(A), NEW key \in [A -> Nat], \A x, y \in A : key[x] = key[y] => x = y,
           NEW rank, DOMAIN rank = A, rank = [x \in A |-> rank[x]],
           \A x \in A : rank[x] = Cardinality({y \in A : key[y] <= key[x]})
    PROVE  /\ Cardinality(A) \in Nat
           /\ rank \in [A -> 1 .. Cardinality(A)]
           /\ \A x, y \in A : key[x] < key[y] <=> rank[x] < rank[y]
           /\ \A n \in 1 .. Cardinality(A) : \E x \in A : rank[x] = n
<1> DEFINE N == Cardinality(A)
           Upto(x) == {y \in A : key[y] <= key[x]}
<1>0. \A x \in A : key[x] \in Nat
  OBVIOUS
<1>1. N \in Nat
  BY FS_CardinalityType
<1>2. ASSUME NEW x \in A PROVE IsFiniteSet(Upto(x)) /\ rank[x] = Cardinality(Upto(x)) /\ rank[x] \in 1 .. N
  <2> DEFINE U == Upto(x)
  <2>0. key[x] <= key[x]
    BY <1>0
  <2>1. U \in SUBSET A /\ x \in U
    BY <2>0
  <2>2. rank[x] = Cardinality(U)
    OBVIOUS
  <2> HIDE DEF U
  <2>3. IsFiniteSet(U) /\ Cardinality(U) <= N /\ Cardinality(U) \in Nat
    BY <2>1, FS_Subset, FS_CardinalityType
  <2>4. Cardinality(U) # 0
    BY <2>1, <2>3, FS_EmptySet
  <2>5. IsFiniteSet(U) /\ rank[x] = Cardinality(U) /\ rank[x] \in 1 .. N
    BY <1>1, <2>2, <2>3, <2>4
  <2> QED BY <2>5 DEF U
<1>2a. \A x \in A : IsFiniteSet(Upto(x)) /\ rank[x] = Cardinality(Upto(x)) /\ rank[x] \in Nat
  <2> HIDE DEF Upto, N
  <2>1. \A n \in 1 .. N : n \in Nat
    BY <1>1
  <2> QED BY <1>2, <2>1, Zenon
<1>3. ASSUME NEW x \in A, NEW y \in A, key[x] < key[y] PROVE rank[x] < rank[y]
  <2> DEFINE U == Upto(x)
             V == Upto(y)
  <2>0. key[y] <= key[y] /\ ~(key[y] <= key[x]) /\ \A z \in A : key[z] <= key[x] => key[z] <= key[y]
    BY <1>0, <1>3
  <2>1. U \in SUBSET V /\ y \in V /\ y \notin U
    BY <2>0, Zenon
  <2>2. IsFiniteSet(V) /\ rank[x] = Cardinality(U) /\ rank[y] = Cardinality(V) /\ rank[x] \in Nat /\ rank[y] \in Nat
    BY <1>2a, Zenon
  <2> HIDE DEF U, V
  <2>3. Cardinality(U) <= Cardinality(V) /\ Cardinality(U) # Cardinality(V)
    BY <2>1, <2>2, FS_Subset
  <2> QED BY <2>2, <2>3
<1>4. \A x, y \in A : key[x] < key[y] \/ x = y \/ key[y] < key[x]
  BY <1>0
<1>5. \A x, y \in A : key[x] < key[y] <=> rank[x] < rank[y]
  <2>1. \A x \in A : rank[x] \in Nat
    BY <1>2a, Zenon
  <2>2. \A x, y \in A : rank[x] < rank[y] => ~(rank[y] < rank[x]) /\ rank[x] # rank[y]
    BY <2>1
  <2> QED BY <1>3, <1>4, <2>2
<1>6. rank \in [A -> 1 .. N]
  BY <1>2
<1> HIDE DEF N
<1>7. rank \in Injection(A, 1 .. N)
  <2>1. \A x, y \in A : rank[x] = rank[y] => x = y
    <3>1. \A x \in A : rank[x] \in Nat
      BY <1>2a, Zenon
    <3> QED BY <1>3, <1>4, <3>1
  <2> QED BY <1>6, <2>1 DEF Injection, IsInjective
<1>8. IsFiniteSet(1 .. N) /\ Cardinality(1 .. N) = N
  BY <1>1, FS_Interval
<1>9. rank \in Surjection(A, 1 .. N)
  BY <1>7, <1>8, FS_Injection DEF N
<1>10. \A n \in 1 .. N : \E x \in A : rank[x] = n
  BY <1>9 DEF Surjection
<1> QED BY <1>1, <1>5, <1>6, <1>10 DEF N

\* A finite set of numbers has a largest.
LEMMA Largest ==
    ASSUME NEW A \in SUBSET Nat, IsFiniteSet(A), A # {}
    PROVE  \E m \in A : \A x \in A : x <= m
<1> DEFINE key == [x \in A |-> x]
           rank == [x \in A |-> Cardinality({y \in A : key[y] <= key[x]})]
           N == Cardinality(A)
<1>1. key \in [A -> Nat] /\ \A x \in A : key[x] = x
  OBVIOUS
<1>2. \A x, y \in A : key[x] = key[y] => x = y
  BY <1>1
<1> HIDE DEF key
<1>3. /\ N \in Nat
      /\ rank \in [A -> 1 .. N]
      /\ \A x, y \in A : key[x] < key[y] <=> rank[x] < rank[y]
      /\ \A n \in 1 .. N : \E x \in A : rank[x] = n
  <2>1. \A x \in A : rank[x] = Cardinality({y \in A : key[y] <= key[x]})
    OBVIOUS
  <2>2. DOMAIN rank = A /\ rank = [x \in A |-> rank[x]]
    OBVIOUS
  <2> HIDE DEF rank
  <2> QED BY <1>1, <1>2, <2>1, <2>2, Ranks
<1> HIDE DEF rank
<1>4. N # 0
  BY FS_EmptySet
<1> HIDE DEF N
<1>5. PICK m \in A : rank[m] = N
  <2>1. N \in 1 .. N
    BY <1>3, <1>4
  <2> QED BY <1>3, <2>1
<1>6. ASSUME NEW x \in A PROVE x <= m
  <2>1. ~(rank[m] < rank[x])
    BY <1>3, <1>5
  <2>2. ~(m < x)
    BY <1>1, <1>3, <2>1
  <2> QED BY <2>2
<1> QED BY <1>6

\* The elements of a sequence are finitely many.
LEMMA FiniteElements ==
    ASSUME NEW s, Len(s) \in Nat
    PROVE  IsFiniteSet(Elements(s))
<1> DEFINE f == [n \in 1 .. Len(s) |-> s[n]]
           E == Elements(s)
<1>1. f \in Surjection(1 .. Len(s), E)
  BY DEF Elements, Surjection
<1>2. IsFiniteSet(1 .. Len(s))
  BY FS_Interval
<1> HIDE DEF f, E
<1>3. IsFiniteSet(E)
  BY <1>1, <1>2, FS_Surjection
<1> QED BY <1>3 DEF E
=============================================================================
