----------------------------- MODULE DataLemmas -----------------------------
(***************************************************************************)
(* Facts about the operators on data that the models are built from: what  *)
(* Append and RemoveFirst do to a sequence without duplicates, the least   *)
(* and the greatest of a set of numbers, and the sums of MapThenSumSet and *)
(* SumFunction, which are folds over a CHOOSE.                             *)
(***************************************************************************)
EXTENDS Integers, SequencesExt, SequenceTheorems, FiniteSetTheorems,
        WellFoundedInduction, TLAPS

-----------------------------------------------------------------------------
(* Numbers.                                                                 *)

\* A set of numbers that is not empty has a least element, which Min returns.
LEMMA MinOfNats ==
  ASSUME NEW I, I \subseteq Nat, I # {}
  PROVE  /\ Min(I) \in I
         /\ \A y \in I : Min(I) <= y
<1>1. PICK x \in I : \A y \in I : <<y, x>> \notin OpToRel(<, Nat)
  BY WFMin, NatLessThanWellFounded, Zenon
<1>2. \A y \in I : x <= y
  <2>1. SUFFICES ASSUME NEW y \in I PROVE ~(y < x)
    BY SMT
  <2>2. <<y, x>> \notin OpToRel(<, Nat)
    BY <1>1
  <2>3. <<y, x>> \in OpToRel(<, Nat) <=> y < x
    BY DEF OpToRel
  <2> QED BY <2>2, <2>3
<1> QED BY <1>1, <1>2 DEF Min

\* Of a set of numbers with a greatest one.
LEMMA MaxIs ==
  ASSUME NEW S, S \subseteq Int, NEW m \in S, \A y \in S : y <= m
  PROVE  Max(S) = m
<1>1. Max(S) \in S /\ \A y \in S : y <= Max(S)
  BY DEF Max
<1>2. Max(S) <= m /\ m <= Max(S) /\ m \in Int /\ Max(S) \in Int
  BY <1>1
<1> QED BY <1>2

\* Of one with a least one.
LEMMA MinIs ==
  ASSUME NEW S, S \subseteq Int, NEW m \in S, \A y \in S : m <= y
  PROVE  Min(S) = m
<1>1. Min(S) \in S /\ \A y \in S : Min(S) <= y
  BY DEF Min
<1>2. Min(S) <= m /\ m <= Min(S) /\ m \in Int /\ Min(S) \in Int
  BY <1>1
<1> QED BY <1>2

-----------------------------------------------------------------------------
(* Sequences.                                                               *)

\* Removing the entry at position i closes the gap and changes nothing else.
LEMMA RemoveAtEntries ==
  ASSUME NEW S, NEW s \in Seq(S), NEW i \in 1..Len(s)
  PROVE  /\ RemoveAt(s, i) \in Seq(S)
         /\ Len(RemoveAt(s, i)) = Len(s) - 1
         /\ \A j \in 1..(Len(s) - 1) :
              RemoveAt(s, i)[j] = IF j < i THEN s[j] ELSE s[j + 1]
<1> DEFINE head == SubSeq(s, 1, i - 1)
           tail == SubSeq(s, i + 1, Len(s))
<1>1. /\ head \in Seq(S) /\ Len(head) = i - 1
      /\ \A j \in 1..(i - 1) : head[j] = s[j]
  <2>1. \A j \in 1..(i - 1) : s[j] \in S
    OBVIOUS
  <2> QED BY <2>1, SubSeqProperties
<1>2. /\ tail \in Seq(S) /\ Len(tail) = Len(s) - i
      /\ \A j \in 1..(Len(s) - i) : tail[j] = s[i + j]
  <2>1. \A j \in (i + 1)..Len(s) : s[j] \in S
    OBVIOUS
  <2> QED BY <2>1, SubSeqProperties
<1>3. /\ head \o tail \in Seq(S)
      /\ Len(head \o tail) = Len(head) + Len(tail)
      /\ \A j \in 1..(Len(head) + Len(tail)) :
           (head \o tail)[j] = IF j <= Len(head) THEN head[j]
                                                 ELSE tail[j - Len(head)]
  BY <1>1, <1>2, ConcatProperties
<1>4. RemoveAt(s, i) = head \o tail
  BY DEF RemoveAt
<1> HIDE DEF head, tail
<1>5. \A j \in 1..(Len(s) - 1) :
        (head \o tail)[j] = IF j < i THEN s[j] ELSE s[j + 1]
  <2>1. SUFFICES ASSUME NEW j \in 1..(Len(s) - 1)
                 PROVE  (head \o tail)[j] = IF j < i THEN s[j] ELSE s[j + 1]
    OBVIOUS
  <2>2. CASE j < i
    BY <2>2, <1>1, <1>2, <1>3
  <2>3. CASE ~(j < i)
    <3>1. (head \o tail)[j] = tail[j - (i - 1)]
      BY <2>3, <1>1, <1>2, <1>3
    <3>2. tail[j - (i - 1)] = s[i + (j - (i - 1))]
      BY <2>3, <1>2
    <3> QED BY <2>3, <3>1, <3>2
  <2> QED BY <2>2, <2>3
<1>6. Len(head \o tail) = Len(s) - 1
  BY <1>1, <1>2, <1>3
<1> QED BY <1>3, <1>4, <1>5, <1>6

\* RemoveFirst keeps the type of a sequence and its being free of duplicates.
LEMMA RemoveFirstInjective ==
  ASSUME NEW S, NEW s \in Seq(S), IsInjective(s), NEW e
  PROVE  RemoveFirst(s, e) \in Seq(S) /\ IsInjective(RemoveFirst(s, e))
<1>1. CASE ~\E i \in 1..Len(s) : s[i] = e
  BY <1>1 DEF RemoveFirst
<1>2. CASE \E i \in 1..Len(s) : s[i] = e
  <2> DEFINE I == {i \in 1..Len(s) : s[i] = e}
             r == RemoveAt(s, Min(I))
  <2>1. Min(I) \in 1..Len(s)
    <3>1. I \subseteq Nat /\ I # {} /\ I \subseteq 1..Len(s)
      BY <1>2
    <3> HIDE DEF I
    <3> QED BY <3>1, MinOfNats
  <2>2. RemoveFirst(s, e) = r
    BY <1>2 DEF RemoveFirst, SelectInSeq
  <2>3. /\ r \in Seq(S) /\ Len(r) = Len(s) - 1
        /\ \A j \in 1..(Len(s) - 1) :
             r[j] = IF j < Min(I) THEN s[j] ELSE s[j + 1]
    BY <2>1, RemoveAtEntries
  <2>4. \A a, b \in 1..Len(s) : s[a] = s[b] => a = b
    BY DEF IsInjective
  <2> HIDE DEF r
  <2>5. \A a, b \in DOMAIN r : r[a] = r[b] => a = b
    BY <2>1, <2>3, <2>4
  <2> QED BY <2>2, <2>3, <2>5 DEF IsInjective
<1> QED BY <1>1, <1>2

\* Appending a new element keeps a sequence free of duplicates.
LEMMA AppendNewInjective ==
  ASSUME NEW S, NEW s \in Seq(S), IsInjective(s), NEW e \in S,
         e \notin ToSet(s)
  PROVE  Append(s, e) \in Seq(S) /\ IsInjective(Append(s, e))
<1>1. /\ Append(s, e) \in Seq(S) /\ Len(Append(s, e)) = Len(s) + 1
      /\ \A i \in 1..Len(s) : Append(s, e)[i] = s[i]
      /\ Append(s, e)[Len(s) + 1] = e
  BY AppendProperties
<1>2. \A i \in 1..Len(s) : s[i] # e
  BY DEF ToSet
<1>3. \A a, b \in 1..Len(s) : s[a] = s[b] => a = b
  BY DEF IsInjective
<1>4. \A a, b \in 1..(Len(s) + 1) :
        Append(s, e)[a] = Append(s, e)[b] => a = b
  BY <1>1, <1>2, <1>3
<1> QED BY <1>1, <1>4 DEF IsInjective

-----------------------------------------------------------------------------
(* Finite sets.                                                             *)

\* Of a family of subsets of a finite set, one has no other one of them in it:
\* what takes the place of induction on finite sets.
LEMMA SmallestSubset ==
  ASSUME NEW S, IsFiniteSet(S), NEW F, F \subseteq SUBSET S, NEW Z \in F
  PROVE  \E X \in F : \A Y \in F : Y \subseteq X => Y = X
<1> DEFINE R == StrictSubsetOrdering(S)
<1>1. IsWellFoundedOn(R, FiniteSubsetsOf(S))
  BY FS_StrictSubsetOrderingWellFounded
<1>2. F \subseteq FiniteSubsetsOf(S)
  BY FS_FiniteSubsetsOfFinite
<1>3. \A X, Y \in SUBSET S : <<X, Y>> \in R <=> X \subseteq Y /\ X # Y
  BY DEF StrictSubsetOrdering
<1> HIDE DEF R
<1>4. \E X \in F : \A Y \in F : ~ (<<Y, X>> \in R)
  BY <1>1, <1>2, WFMin, Zenon
<1> QED BY <1>3, <1>4

\* The image of a finite set is finite.
LEMMA ImageFinite ==
  ASSUME NEW S, IsFiniteSet(S), NEW f
  PROVE  IsFiniteSet({f[x] : x \in S})
<1> DEFINE I == {f[x] : x \in S}
           g == [x \in S |-> f[x]]
<1>1. g \in Surjection(S, I)
  <2>1. g \in [S -> I]
    OBVIOUS
  <2>2. \A y \in I : \E x \in S : g[x] = y
    OBVIOUS
  <2> QED BY <2>1, <2>2 DEF Surjection
<1> HIDE DEF I, g
<1>2. IsFiniteSet(I)
  BY <1>1, FS_Surjection
<1> QED BY <1>2 DEF I

\* A finite set of integers has a greatest and a least element.
LEMMA FiniteMax ==
  ASSUME NEW S, S \subseteq Int, S # {}, IsFiniteSet(S)
  PROVE  Max(S) \in S /\ \A y \in S : y <= Max(S)
<1> DEFINE HasMax(X) == \E m \in X : \A y \in X : y <= m
           F == {X \in SUBSET S : X # {} /\ ~HasMax(X)}
<1>1. HasMax(S)
  <2> SUFFICES ASSUME ~HasMax(S) PROVE FALSE
    OBVIOUS
  <2>1. S \in F /\ F \subseteq SUBSET S
    OBVIOUS
  <2>2. PICK X \in F : \A Y \in F : Y \subseteq X => Y = X
    <3>1. IsFiniteSet(S)
      OBVIOUS
    <3> HIDE DEF F, HasMax
    <3> QED BY ONLY <2>1, <3>1, SmallestSubset
  <2>3. PICK x \in X : TRUE
    OBVIOUS
  <2>4. X \ {x} \notin F
    BY <2>2, <2>3
  <2>5. CASE X \ {x} = {}
    <3>1. \A y \in X : y = x
      BY <2>5
    <3> QED BY <2>3, <3>1
  <2>6. CASE HasMax(X \ {x})
    <3>1. PICK m \in X \ {x} : \A y \in X \ {x} : y <= m
      BY <2>6
    <3>2. m \in Int /\ x \in Int
      BY <2>3
    <3>3. CASE x <= m
      <4>1. \A y \in X : y <= m
        BY <3>1, <3>3
      <4> QED BY <4>1
    <3>4. CASE m <= x
      <4>1. \A y \in X : y <= x
        <5> SUFFICES ASSUME NEW y \in X PROVE y <= x
          OBVIOUS
        <5>1. y \in Int /\ (y = x \/ y <= m)
          BY <3>1
        <5> QED BY <3>2, <3>4, <5>1
      <4> QED BY <2>3, <4>1
    <3> QED BY <3>2, <3>3, <3>4
  <2> QED BY <2>4, <2>5, <2>6
<1> QED BY <1>1 DEF Max

\* The size of two disjoint sets.
LEMMA DisjointUnion ==
  ASSUME NEW A, NEW B, IsFiniteSet(A), IsFiniteSet(B), A \cap B = {}
  PROVE  Cardinality(A \cup B) = Cardinality(A) + Cardinality(B)
<1>1. Cardinality(A \cup B)
        = Cardinality(A) + Cardinality(B) - Cardinality(A \cap B)
  BY FS_Union
<1>2. Cardinality(A \cap B) = 0
  BY FS_EmptySet
<1>3. Cardinality(A) \in Nat /\ Cardinality(B) \in Nat
  BY FS_CardinalityType
<1> QED BY <1>1, <1>2, <1>3

-----------------------------------------------------------------------------
(* Sums.                                                                    *)

First(s) == CHOOSE e \in s : TRUE

\* g is the function that MapThenSumSet defines by recursion, for the summands w.
IsSum(g, w, S) ==
  g = [s \in SUBSET S |->
         IF s = {} THEN 0 ELSE w[First(s)] + g[s \ {First(s)}]]

\* The equation that it satisfies.
LEMMA SumValue ==
  ASSUME NEW S, NEW w, NEW g, IsSum(g, w, S), NEW s \in SUBSET S
  PROVE  g[s] = IF s = {} THEN 0 ELSE w[First(s)] + g[s \ {First(s)}]
BY DEF IsSum

\* There is only one such function.
LEMMA SumsAgree ==
  ASSUME NEW A, NEW B, NEW w, NEW g, NEW h, IsSum(g, w, A), IsSum(h, w, B),
         NEW Z, IsFiniteSet(Z), Z \subseteq A, Z \subseteq B
  PROVE  g[Z] = h[Z]
<1> SUFFICES ASSUME g[Z] # h[Z] PROVE FALSE
  OBVIOUS
<1> DEFINE F == {X \in SUBSET Z : g[X] # h[X]}
<1>1. Z \in F /\ F \subseteq SUBSET Z
  OBVIOUS
<1>2. PICK X \in F : \A Y \in F : Y \subseteq X => Y = X
  <2> HIDE DEF F
  <2> QED BY <1>1, SmallestSubset
<1>3. X \in SUBSET A /\ X \in SUBSET B
  OBVIOUS
<1>4. /\ g[X] = IF X = {} THEN 0 ELSE w[First(X)] + g[X \ {First(X)}]
      /\ h[X] = IF X = {} THEN 0 ELSE w[First(X)] + h[X \ {First(X)}]
  BY <1>3, SumValue
<1>5. X # {} /\ g[X \ {First(X)}] # h[X \ {First(X)}]
  BY <1>4
<1>6. First(X) \in X
  BY <1>5 DEF First
<1>7. X \ {First(X)} \in F
  BY <1>5
<1> QED BY <1>2, <1>6, <1>7

\* And there is one for each finite set.
LEMMA SumExists ==
  ASSUME NEW S, IsFiniteSet(S), NEW w
  PROVE  \E g : IsSum(g, w, S)
<1> SUFFICES ASSUME ~ \E g : IsSum(g, w, S) PROVE FALSE
  OBVIOUS
<1> DEFINE F == {X \in SUBSET S : ~ \E g : IsSum(g, w, X)}
<1>1. S \in F /\ F \subseteq SUBSET S
  OBVIOUS
<1>2. PICK X \in F : \A Y \in F : Y \subseteq X => Y = X
  <2> HIDE DEF F
  <2> QED BY <1>1, SmallestSubset
<1> DEFINE sum(Y) == CHOOSE g : IsSum(g, w, Y)
           G == [Y \in SUBSET X |->
                   IF Y = {} THEN 0
                   ELSE w[First(Y)]
                          + sum(Y \ {First(Y)})[Y \ {First(Y)}]]
<1>3. ASSUME NEW Y \in SUBSET X, Y # X
      PROVE  IsSum(sum(Y), w, Y)
  <2>1. Y \notin F
    BY <1>2, <1>3
  <2>2. \E g : IsSum(g, w, Y)
    BY <2>1
  <2> QED BY <2>2
<1>4. ASSUME NEW Y \in SUBSET X, Y # X
      PROVE  sum(Y)[Y] = G[Y]
  <2>1. IsSum(sum(Y), w, Y)
    BY <1>3, <1>4
  <2> DEFINE g == sum(Y)
             rest == Y \ {First(Y)}
  <2>2. g[Y] = IF Y = {} THEN 0 ELSE w[First(Y)] + g[rest]
    <3> HIDE DEF g
    <3> QED BY <2>1, SumValue DEF g
  <2>3. CASE Y = {}
    BY <2>2, <2>3
  <2>4. CASE Y # {}
    <3>1. First(Y) \in Y
      BY <2>4 DEF First
    <3>2. IsSum(sum(rest), w, rest)
      BY <1>3, <3>1
    <3>3. IsFiniteSet(rest)
      BY FS_Subset
    <3>4. g[rest] = sum(rest)[rest]
      <4> DEFINE h == sum(rest)
      <4>1. rest \subseteq Y
        OBVIOUS
      <4>2. IsSum(g, w, Y) /\ IsSum(h, w, rest)
        BY <2>1, <3>2
      <4> HIDE DEF g, h, rest
      <4>3. g[rest] = h[rest]
        BY <3>3, <4>1, <4>2, SumsAgree
      <4> QED BY <4>3 DEF h
    <3> QED BY <2>2, <2>4, <3>4
  <2> QED BY <2>3, <2>4
<1>5. ASSUME NEW Y \in SUBSET X
      PROVE  G[Y] = IF Y = {} THEN 0
                    ELSE w[First(Y)] + G[Y \ {First(Y)}]
  <2>1. CASE Y = {}
    BY <2>1
  <2>2. CASE Y # {}
    <3>1. First(Y) \in Y
      BY <2>2 DEF First
    <3> DEFINE rest == Y \ {First(Y)}
    <3>2. rest \in SUBSET X /\ rest # X
      BY <3>1
    <3>3. sum(rest)[rest] = G[rest]
      BY <1>4, <3>2
    <3>4. G[Y] = w[First(Y)] + sum(rest)[rest]
      BY <2>2
    <3> HIDE DEF G, sum, rest
    <3> QED BY <2>2, <3>3, <3>4 DEF rest
  <2> QED BY <2>1, <2>2
<1>6. IsSum(G, w, X)
  <2>1. G = [Y \in SUBSET X |-> G[Y]]
    OBVIOUS
  <2> HIDE DEF G
  <2> QED BY <1>5, <2>1 DEF IsSum
<1> QED BY <1>6

Sum(w, S) == (CHOOSE g : IsSum(g, w, S))[S]

\* The equation for Sum.
LEMMA SumStep ==
  ASSUME NEW S, IsFiniteSet(S), NEW w
  PROVE  Sum(w, S) = IF S = {} THEN 0
                     ELSE w[First(S)] + Sum(w, S \ {First(S)})
<1> DEFINE sum(Y) == CHOOSE g : IsSum(g, w, Y)
           rest == S \ {First(S)}
<1>1. ASSUME NEW Y, IsFiniteSet(Y)
      PROVE  IsSum(sum(Y), w, Y) /\ Sum(w, Y) = sum(Y)[Y]
  <2>1. \E g : IsSum(g, w, Y)
    BY <1>1, SumExists
  <2> QED BY <2>1 DEF Sum
<1>2. IsFiniteSet(rest) /\ rest \subseteq S
  BY FS_Subset
<1> HIDE DEF sum, rest
<1>3. IsSum(sum(S), w, S) /\ IsSum(sum(rest), w, rest)
  BY <1>1, <1>2
<1>4. sum(S)[S] = IF S = {} THEN 0 ELSE w[First(S)] + sum(S)[rest]
  BY <1>3, SumValue DEF rest
<1>5. sum(S)[rest] = sum(rest)[rest]
  BY <1>2, <1>3, SumsAgree
<1>6. Sum(w, S) = sum(S)[S] /\ Sum(w, rest) = sum(rest)[rest]
  BY <1>1, <1>2
<1> QED BY <1>4, <1>5, <1>6 DEF rest

\* A sum of numbers is a number.
LEMMA SumIsInt ==
  ASSUME NEW S, IsFiniteSet(S), NEW w, \A e \in S : w[e] \in Int
  PROVE  Sum(w, S) \in Int
<1> SUFFICES ASSUME Sum(w, S) \notin Int PROVE FALSE
  OBVIOUS
<1> DEFINE F == {X \in SUBSET S : Sum(w, X) \notin Int}
<1>1. S \in F /\ F \subseteq SUBSET S
  OBVIOUS
<1>2. PICK X \in F : \A Y \in F : Y \subseteq X => Y = X
  <2> HIDE DEF F
  <2> QED BY <1>1, SmallestSubset
<1>3. IsFiniteSet(X)
  BY FS_Subset
<1>4. Sum(w, X) = IF X = {} THEN 0
                    ELSE w[First(X)] + Sum(w, X \ {First(X)})
  BY <1>3, SumStep
<1>5. X # {} /\ First(X) \in X
  BY <1>4 DEF First
<1>6. X \ {First(X)} \notin F
  BY <1>2, <1>5
<1>7. w[First(X)] \in Int /\ Sum(w, X \ {First(X)}) \in Int
  BY <1>5, <1>6
<1> QED BY <1>4, <1>5, <1>7

\* A sum is any one of the numbers and the sum of the others.
LEMMA SumWithout ==
  ASSUME NEW S, IsFiniteSet(S), NEW w, \A e \in S : w[e] \in Int, NEW x \in S
  PROVE  Sum(w, S) = w[x] + Sum(w, S \ {x})
<1> DEFINE Splits(X, y) == Sum(w, X) = w[y] + Sum(w, X \ {y})
           F == {X \in SUBSET S : \E y \in X : ~Splits(X, y)}
<1> SUFFICES ASSUME ~Splits(S, x) PROVE FALSE
  OBVIOUS
<1>1. S \in F /\ F \subseteq SUBSET S
  OBVIOUS
<1>2. PICK X \in F : \A Y \in F : Y \subseteq X => Y = X
  <2> HIDE DEF F
  <2> QED BY <1>1, SmallestSubset
<1>3. PICK y \in X : ~Splits(X, y)
  OBVIOUS
<1> DEFINE f == First(X)
<1>4. IsFiniteSet(X)
  BY FS_Subset
<1>5. f \in X /\ Splits(X, f)
  <2>1. f \in X
    BY DEF First
  <2> QED BY <1>4, <2>1, SumStep
<1>6. f # y
  BY <1>3, <1>5
<1>7. ASSUME NEW a \in X, NEW b \in X, a # b
      PROVE  Splits(X \ {a}, b)
  <2>1. X \ {a} \notin F
    BY <1>2, <1>7
  <2> HIDE DEF Splits
  <2> QED BY <1>7, <2>1
<1>8. Splits(X \ {f}, y) /\ Splits(X \ {y}, f)
  BY <1>5, <1>6, <1>7
<1>9. (X \ {f}) \ {y} = (X \ {y}) \ {f}
  OBVIOUS
<1> DEFINE rest == (X \ {y}) \ {f}
<1>10. /\ Sum(w, X) = w[f] + Sum(w, X \ {f})
       /\ Sum(w, X \ {f}) = w[y] + Sum(w, rest)
       /\ Sum(w, X \ {y}) = w[f] + Sum(w, rest)
  BY <1>5, <1>8, <1>9
<1>11. Sum(w, rest) \in Int
  <2>1. IsFiniteSet(rest)
    BY <1>4, FS_Subset
  <2> QED BY <2>1, SumIsInt
<1>12. w[f] \in Int /\ w[y] \in Int
  BY <1>5
<1>13. Sum(w, X) # w[y] + Sum(w, X \ {y})
  BY <1>3
<1> HIDE DEF f, rest
<1> QED BY <1>10, <1>11, <1>12, <1>13

\* A sum depends on its summands alone.
LEMMA SumSame ==
  ASSUME NEW S, IsFiniteSet(S), NEW v, NEW w, \A x \in S : v[x] = w[x]
  PROVE  Sum(v, S) = Sum(w, S)
<1> SUFFICES ASSUME Sum(v, S) # Sum(w, S) PROVE FALSE
  OBVIOUS
<1> DEFINE F == {X \in SUBSET S : Sum(v, X) # Sum(w, X)}
<1>1. S \in F /\ F \subseteq SUBSET S
  OBVIOUS
<1>2. PICK X \in F : \A Y \in F : Y \subseteq X => Y = X
  <2> HIDE DEF F
  <2> QED BY <1>1, SmallestSubset
<1>3. IsFiniteSet(X)
  BY FS_Subset
<1> DEFINE rest == X \ {First(X)}
<1>4. /\ Sum(v, X) = IF X = {} THEN 0 ELSE v[First(X)] + Sum(v, rest)
      /\ Sum(w, X) = IF X = {} THEN 0 ELSE w[First(X)] + Sum(w, rest)
  BY <1>3, SumStep
<1>5. X # {} /\ First(X) \in X
  BY <1>4 DEF First
<1>6. rest \notin F
  BY <1>2, <1>5
<1>7. Sum(v, rest) = Sum(w, rest) /\ v[First(X)] = w[First(X)]
  BY <1>5, <1>6
<1> QED BY <1>4, <1>5, <1>7

\* Sums are added by their summands.
LEMMA SumAdd ==
  ASSUME NEW S, IsFiniteSet(S), NEW u, NEW v, NEW w,
         \A x \in S : v[x] \in Int /\ w[x] \in Int /\ u[x] = v[x] + w[x]
  PROVE  Sum(u, S) = Sum(v, S) + Sum(w, S)
<1> SUFFICES ASSUME Sum(u, S) # Sum(v, S) + Sum(w, S) PROVE FALSE
  OBVIOUS
<1> DEFINE F == {X \in SUBSET S : Sum(u, X) # Sum(v, X) + Sum(w, X)}
<1>1. S \in F /\ F \subseteq SUBSET S
  OBVIOUS
<1>2. PICK X \in F : \A Y \in F : Y \subseteq X => Y = X
  <2> HIDE DEF F
  <2> QED BY <1>1, SmallestSubset
<1>3. IsFiniteSet(X)
  BY FS_Subset
<1> DEFINE rest == X \ {First(X)}
<1>4. /\ Sum(u, X) = IF X = {} THEN 0 ELSE u[First(X)] + Sum(u, rest)
      /\ Sum(v, X) = IF X = {} THEN 0 ELSE v[First(X)] + Sum(v, rest)
      /\ Sum(w, X) = IF X = {} THEN 0 ELSE w[First(X)] + Sum(w, rest)
  BY <1>3, SumStep
<1>5. X # {} /\ First(X) \in X
  BY <1>4 DEF First
<1>6. rest \notin F
  BY <1>2, <1>5
<1>7. IsFiniteSet(rest) /\ rest \subseteq S
  BY <1>3, FS_Subset
<1>8. Sum(v, rest) \in Int /\ Sum(w, rest) \in Int
  <2> HIDE DEF rest
  <2> QED BY <1>7, SumIsInt
<1>9. Sum(u, rest) = Sum(v, rest) + Sum(w, rest)
  BY <1>6, <1>7
<1>10. /\ v[First(X)] \in Int /\ w[First(X)] \in Int
       /\ u[First(X)] = v[First(X)] + w[First(X)]
  BY <1>5
<1>11. Sum(u, X) # Sum(v, X) + Sum(w, X)
  OBVIOUS
<1> HIDE DEF rest, F
<1> QED BY <1>4, <1>5, <1>8, <1>9, <1>10, <1>11

\* Summands that are 0 may be left out.
LEMMA SumFilter ==
  ASSUME NEW S, IsFiniteSet(S), NEW R, NEW v, NEW w,
         \A x \in S : w[x] \in Int /\ (x \in R => v[x] = w[x]),
         \A x \in S : x \notin R => v[x] = 0
  PROVE  Sum(v, S) = Sum(w, S \cap R)
<1> SUFFICES ASSUME Sum(v, S) # Sum(w, S \cap R) PROVE FALSE
  OBVIOUS
<1> DEFINE F == {X \in SUBSET S : Sum(v, X) # Sum(w, X \cap R)}
<1>1. S \in F /\ F \subseteq SUBSET S
  OBVIOUS
<1>2. PICK X \in F : \A Y \in F : Y \subseteq X => Y = X
  <2> HIDE DEF F
  <2> QED BY <1>1, SmallestSubset
<1>3. IsFiniteSet(X) /\ IsFiniteSet(X \cap R)
  BY FS_Subset
<1> DEFINE x == First(X)
           rest == X \ {x}
<1>4. Sum(v, X) = IF X = {} THEN 0 ELSE v[x] + Sum(v, rest)
  BY <1>3, SumStep
<1>5. X # {}
  <2> SUFFICES ASSUME X = {} PROVE FALSE
    OBVIOUS
  <2>1. X \cap R = {}
    OBVIOUS
  <2>2. Sum(w, X \cap R) = 0
    BY <1>3, <2>1, SumStep
  <2> QED BY <1>4, <2>2
<1>6. x \in X /\ x \in S
  BY <1>5 DEF First
<1>7. rest \notin F
  BY <1>2, <1>6
<1>8. Sum(v, rest) = Sum(w, rest \cap R)
  BY <1>7
<1>9. IsFiniteSet(rest \cap R) /\ \A e \in rest \cap R : w[e] \in Int
  BY <1>3, FS_Subset
<1>10. Sum(w, rest \cap R) \in Int
  <2> HIDE DEF rest
  <2> QED BY <1>9, SumIsInt
<1>11. Sum(v, X) # Sum(w, X \cap R)
  OBVIOUS
<1>12. CASE x \in R
  <2>1. /\ x \in X \cap R /\ (X \cap R) \ {x} = rest \cap R
        /\ \A e \in X \cap R : w[e] \in Int
    BY <1>6, <1>12
  <2> HIDE DEF rest, F, x
  <2>2. Sum(w, X \cap R) = w[x] + Sum(w, (X \cap R) \ {x})
    BY <1>3, <2>1, SumWithout
  <2>3. v[x] = w[x]
    BY <1>6, <1>12
  <2> QED BY <1>4, <1>5, <1>8, <1>11, <2>1, <2>2, <2>3
<1>13. CASE x \notin R
  <2>1. Sum(w, X \cap R) = Sum(w, rest \cap R)
    BY <1>13
  <2>2. v[x] = 0
    BY <1>6, <1>13
  <2> HIDE DEF rest, F, x
  <2> QED BY <1>4, <1>5, <1>8, <1>10, <1>11, <2>1, <2>2
<1> QED BY <1>12, <1>13

\* rows has the weights of what each element of P is in, columns the weight of each
\* element of T for everything in it.
RowsAre(rows, P, w, R, T) == \A p \in P : rows[p] = Sum(w, {e \in T : p \in R[e]})
ColumnsAre(columns, P, w, R, T) ==
  \A e \in T : columns[e] = w[e] * Cardinality(P \cap R[e])

\* Counting twice: both have the same sum.
LEMMA SumTwice ==
  ASSUME NEW P, IsFiniteSet(P), NEW T, IsFiniteSet(T), NEW R, NEW w, NEW rows, NEW columns,
         \A e \in T : w[e] \in Int,
         RowsAre(rows, P, w, R, T), ColumnsAre(columns, P, w, R, T)
  PROVE  Sum(rows, P) = Sum(columns, T)
<1> USE DEF RowsAre, ColumnsAre
<1> DEFINE Column(Q) == [e \in T |-> w[e] * Cardinality(Q \cap R[e])]
           Right(Q) == Sum(rows, Q) = Sum(Column(Q), T)
           F == {Q \in SUBSET P : ~Right(Q)}
<1>1. Right(P)
  <2> SUFFICES ASSUME ~Right(P) PROVE FALSE
    OBVIOUS
  <2>1. P \in F /\ F \subseteq SUBSET P
    OBVIOUS
  <2>2. PICK Q \in F : \A Y \in F : Y \subseteq Q => Y = Q
    <3> HIDE DEF F
    <3> QED BY <2>1, SmallestSubset
  <2>3. IsFiniteSet(Q) /\ Q \in SUBSET P /\ ~Right(Q)
    BY FS_Subset
  <2> DEFINE p == First(Q)
             rest == Q \ {p}
             In == {e \in T : p \in R[e]}
             once == [e \in T |-> IF e \in In THEN w[e] ELSE 0]
  <2>4. \A X \in SUBSET P, e \in T :
          IsFiniteSet(X) /\ IsFiniteSet(X \cap R[e]) /\ Cardinality(X \cap R[e]) \in Nat
    BY FS_Subset, FS_CardinalityType
  <2>5. ASSUME NEW X \in SUBSET P, NEW e \in T
        PROVE  Column(X)[e] \in Int
    <3> DEFINE k == Cardinality(X \cap R[e])
    <3>1. k \in Nat
      BY <2>4
    <3>2. Column(X)[e] = w[e] * k
      OBVIOUS
    <3>3. w[e] \in Int
      OBVIOUS
    <3> HIDE DEF k, Column
    <3> QED BY <3>1, <3>2, <3>3
  <2>6. CASE Q = {}
    <3>1. \A e \in T : Column(Q)[e] = 0
      <4> SUFFICES ASSUME NEW e \in T PROVE Column(Q)[e] = 0
        OBVIOUS
      <4>1. Q \cap R[e] = {}
        BY <2>6
      <4>2. Cardinality(Q \cap R[e]) = 0
        BY <4>1, FS_EmptySet
      <4> QED BY <4>2
    <3> DEFINE c == Column(Q)
    <3>2. Right(Q) <=> Sum(rows, Q) = Sum(c, T)
      OBVIOUS
    <3>3. PICK none : none = {}
      OBVIOUS
    <3>4. /\ \A e \in T : w[e] \in Int /\ (e \in none => c[e] = w[e])
          /\ \A e \in T : e \notin none => c[e] = 0
      BY <3>1, <3>3
    <3> HIDE DEF c, Column, Right, F, In, once, rest
    <3>5. Sum(c, T) = Sum(w, T \cap none)
      BY <3>4, SumFilter
    <3>6. T \cap none = {} /\ IsFiniteSet({})
      BY <3>3, FS_EmptySet
    <3>7. Sum(w, {}) = 0 /\ Sum(rows, {}) = 0
      BY <3>6, SumStep
    <3>8. Sum(c, T) = 0
      BY <3>5, <3>6, <3>7
    <3>9. Sum(rows, Q) = 0
      BY <2>6, <3>7
    <3> QED BY <2>3, <3>2, <3>8, <3>9
  <2>7. CASE Q # {}
    <3>1. p \in Q /\ p \in P
      BY <2>3, <2>7 DEF First
    <3>2. rest \notin F /\ rest \in SUBSET P
      BY <2>2, <3>1
    <3>3. Sum(rows, rest) = Sum(Column(rest), T)
      BY <3>2
    <3>4. Sum(rows, Q) = rows[p] + Sum(rows, rest)
      BY <2>3, <2>7, SumStep
    <3>5. Sum(once, T) = Sum(w, In)
      <4>1. /\ \A e \in T : w[e] \in Int /\ (e \in In => once[e] = w[e])
            /\ \A e \in T : e \notin In => once[e] = 0
        OBVIOUS
      <4>2. T \cap In = In
        OBVIOUS
      <4> HIDE DEF once, In, Column, Right, F, rest
      <4> QED BY <4>1, <4>2, SumFilter
    <3>6. ASSUME NEW e \in T
          PROVE  Column(Q)[e] = once[e] + Column(rest)[e]
      <4> DEFINE k == Cardinality(rest \cap R[e])
      <4>1. k \in Nat /\ IsFiniteSet(rest \cap R[e])
        BY <2>4, <3>2
      <4>2. Cardinality(Q \cap R[e]) = IF e \in In THEN k + 1 ELSE k
        <5>1. CASE p \in R[e]
          <6>1. Q \cap R[e] = (rest \cap R[e]) \cup {p} /\ p \notin rest \cap R[e]
            BY <3>1, <5>1
          <6> HIDE DEF rest, p
          <6> QED BY <4>1, <5>1, <6>1, FS_AddElement
        <5>2. CASE p \notin R[e]
          <6>1. Q \cap R[e] = rest \cap R[e]
            BY <5>2
          <6> QED BY <5>2, <6>1
        <5> QED BY <5>1, <5>2
      <4>3. Column(Q)[e] = w[e] * Cardinality(Q \cap R[e]) /\ Column(rest)[e] = w[e] * k
            /\ once[e] = IF e \in In THEN w[e] ELSE 0
        OBVIOUS
      <4>4. w[e] \in Int
        OBVIOUS
      <4> HIDE DEF k, Column, once, In, rest
      <4>5. w[e] * (k + 1) = w[e] + w[e] * k
        BY <4>1, <4>4
      <4>6. 0 + w[e] * k = w[e] * k
        BY <4>1, <4>4
      <4> QED BY <4>2, <4>3, <4>5, <4>6
    <3>7. \A e \in T : once[e] \in Int
      OBVIOUS
    <3> DEFINE c == Column(Q)
               d == Column(rest)
    <3>8. \A e \in T : once[e] \in Int /\ d[e] \in Int /\ c[e] = once[e] + d[e]
      BY <2>5, <3>2, <3>6, <3>7
    <3> HIDE DEF c, d, once
    <3>9. Sum(c, T) = Sum(once, T) + Sum(d, T)
      BY <3>8, SumAdd
    <3>10. rows[p] = Sum(w, In)
      BY <3>1
    <3>11. Right(Q)
      <4> HIDE DEF In, rest, p
      <4> QED BY <3>3, <3>4, <3>5, <3>9, <3>10 DEF c, d
    <3> QED BY <2>3, <3>11
  <2> QED BY <2>6, <2>7
<1> DEFINE c == Column(P)
<1>2. \A e \in T : columns[e] = c[e]
  OBVIOUS
<1> HIDE DEF c
<1>3. Sum(columns, T) = Sum(c, T)
  BY <1>2, SumSame
<1> QED BY <1>1, <1>3 DEF c

\* SumFunction is a sum.
LEMMA SumFunctionIs ==
  ASSUME NEW w
  PROVE  SumFunction(w) = Sum(w, DOMAIN w)
<1> DEFINE S == DOMAIN w
           Is(g) == g = [s \in SUBSET S |->
                           IF s = {} THEN 0 ELSE w[First(s)] + g[s \ {First(s)}]]
<1>1. SumFunction(w) = (CHOOSE g : Is(g))[S]
  BY DEF SumFunction, SumFunctionOnSet, FoldFunctionOnSet, MapThenFoldSet, First
<1> QED BY <1>1 DEF Sum, IsSum

=============================================================================
