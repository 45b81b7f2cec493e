------------------------------- MODULE SumProofs ------------------------------
(***************************************************************************)
(* Sums over finite sets: the folds of the community modules take out one  *)
(* element after another, and these lemmas say that the order is nothing   *)
(* to the result.                                                          *)
(***************************************************************************)
EXTENDS Integers, FiniteSets, FiniteSetTheorems, WellFoundedInduction, TLAPS

-----------------------------------------------------------------------------
(* Induction over the subsets of a finite set: what holds of a set when it *)
(* holds of every smaller one holds of all.                                *)
LEMMA SubsetInduction ==
    ASSUME NEW S, IsFiniteSet(S), NEW Good \in SUBSET SUBSET S,
           \A T \in SUBSET S : (\A U \in SUBSET T : U # T => U \in Good) => T \in Good
    PROVE  Good = SUBSET S
<1> SUFFICES ASSUME (SUBSET S) \ Good # {} PROVE FALSE
  OBVIOUS
<1>1. FiniteSubsetsOf(S) = SUBSET S
  BY FS_FiniteSubsetsOfFinite, Zenon
<1> DEFINE R == StrictSubsetOrdering(S)
           Bad == (SUBSET S) \ Good
<1>2. IsWellFoundedOn(R, FiniteSubsetsOf(S))
  BY FS_StrictSubsetOrderingWellFounded
<1>3. Bad \subseteq SUBSET S /\ Bad # {}
  OBVIOUS
<1> HIDE DEF R, Bad
<1>4. PICK T \in Bad : \A U \in Bad : ~(<<U, T>> \in R)
  <2>1. IsWellFoundedOn(R, SUBSET S)
    BY <1>1, <1>2, Zenon
  <2>2. QED
    BY <1>3, <2>1, WFMin
<1>5. ASSUME NEW U \in SUBSET T, U # T PROVE U \in Good
  <2>1. T \in SUBSET S
    BY <1>3
  <2>2. <<U, T>> \in (SUBSET S) \X (SUBSET S)
    BY <2>1
  <2>3. <<U, T>> \in R
    BY <1>5, <2>2 DEF R, StrictSubsetOrdering
  <2>4. QED
    BY <1>4, <2>1, <2>3 DEF Bad
<1>6. QED
  BY <1>4, <1>5 DEF Bad

Chosen(T) == CHOOSE x \in T : TRUE

(* g sums h over the subsets of T, taking out one element at a time.       *)
SumsUp(T, h, g) ==
    g = [s \in SUBSET T |-> IF s = {} THEN 0 ELSE h[Chosen(s)] + g[s \ {Chosen(s)}]]

SumOver(T, h) == (CHOOSE g : SumsUp(T, h, g))[T]

LEMMA ChosenIn == ASSUME NEW T, T # {} PROVE Chosen(T) \in T
  BY DEF Chosen

LEMMA SumsUpFacts ==
    ASSUME NEW T, NEW h, NEW g
    PROVE  SumsUp(T, h, g) <=>
              /\ g = [s \in SUBSET T |-> g[s]]
              /\ {} \in SUBSET T => g[{}] = 0
              /\ \A s \in SUBSET T : s # {} => g[s] = h[Chosen(s)] + g[s \ {Chosen(s)}]
  BY DEF SumsUp

(* There is one sum of a set only, whatever larger set it is taken in.     *)
LEMMA SumUnique ==
    ASSUME NEW T, IsFiniteSet(T), NEW U, NEW V, T \subseteq U, T \subseteq V,
           NEW h, NEW g1, NEW g2, SumsUp(U, h, g1), SumsUp(V, h, g2)
    PROVE  g1[T] = g2[T]
<1> DEFINE Good == {s \in SUBSET T : g1[s] = g2[s]}
<1>1. ASSUME NEW s \in SUBSET T, \A r \in SUBSET s : r # s => r \in Good
      PROVE  s \in Good
  <2>1. CASE s = {}
    BY <2>1, SumsUpFacts
  <2>2. CASE s # {}
    <3>1. Chosen(s) \in s
      BY <2>2, ChosenIn
    <3>2. g1[s \ {Chosen(s)}] = g2[s \ {Chosen(s)}]
      BY <1>1, <3>1
    <3>3. s \in SUBSET U /\ s \in SUBSET V
      OBVIOUS
    <3>4. g1[s] = h[Chosen(s)] + g1[s \ {Chosen(s)}] /\ g2[s] = h[Chosen(s)] + g2[s \ {Chosen(s)}]
      BY <2>2, <3>3, SumsUpFacts
    <3>5. QED
      BY <3>2, <3>4
  <2>3. QED
    BY <2>1, <2>2
<1>2. Good \in SUBSET SUBSET T
  OBVIOUS
<1> HIDE DEF Good
<1>3. Good = SUBSET T
  BY <1>1, <1>2, SubsetInduction
<1>4. QED
  BY <1>3 DEF Good

LEMMA SumExists ==
    ASSUME NEW T, IsFiniteSet(T), NEW h
    PROVE  \E g : SumsUp(T, h, g)
<1> DEFINE Good == {s \in SUBSET T : \E g : SumsUp(s, h, g)}
           sum(s) == (CHOOSE g : SumsUp(s, h, g))[s]
<1>1. ASSUME NEW s \in SUBSET T, \A r \in SUBSET s : r # s => r \in Good
      PROVE  s \in Good
  <2> DEFINE g == [r \in SUBSET s |->
                     IF r # s THEN sum(r)
                     ELSE IF s = {} THEN 0 ELSE h[Chosen(s)] + sum(s \ {Chosen(s)})]
  <2>1. ASSUME NEW r \in SUBSET s, r # {} PROVE g[r] = h[Chosen(r)] + g[r \ {Chosen(r)}]
    <3>1. Chosen(r) \in r
      BY <2>1, ChosenIn
    <3>2. r \ {Chosen(r)} \in SUBSET s /\ r \ {Chosen(r)} # s /\ r \ {Chosen(r)} # r
      BY <3>1
    <3>3. g[r \ {Chosen(r)}] = sum(r \ {Chosen(r)})
      BY <3>2
    <3>4. CASE r = s
      BY <2>1, <3>3, <3>4
    <3>5. CASE r # s
      <4>1. SumsUp(r, h, CHOOSE f : SumsUp(r, h, f))
        BY <1>1, <3>5
      <4>2. SumsUp(r \ {Chosen(r)}, h, CHOOSE f : SumsUp(r \ {Chosen(r)}, h, f))
        BY <1>1, <3>2
      <4>3. sum(r) = h[Chosen(r)] + (CHOOSE f : SumsUp(r, h, f))[r \ {Chosen(r)}]
        BY <2>1, <4>1, SumsUpFacts
      <4>4. IsFiniteSet(r \ {Chosen(r)})
        BY FS_Subset
      <4>5. (CHOOSE f : SumsUp(r, h, f))[r \ {Chosen(r)}] = sum(r \ {Chosen(r)})
        BY <4>1, <4>2, <4>4, SumUnique
      <4>6. QED
        BY <3>3, <3>5, <4>3, <4>5
    <3>6. QED
      BY <3>4, <3>5
  <2>2. g[{}] = 0
    <3>1. CASE s = {}
      BY <3>1
    <3>2. CASE s # {}
      <4>1. SumsUp({}, h, CHOOSE f : SumsUp({}, h, f))
        BY <1>1, <3>2
      <4>2. sum({}) = 0
        BY <4>1, SumsUpFacts
      <4>3. QED
        BY <3>2, <4>2
    <3>3. QED
      BY <3>1, <3>2
  <2>3. g = [r \in SUBSET s |-> g[r]]
    OBVIOUS
  <2> HIDE DEF g
  <2>4. SumsUp(s, h, g)
    BY <2>1, <2>2, <2>3, SumsUpFacts
  <2>5. QED
    BY <2>4
<1>2. Good \in SUBSET SUBSET T
  OBVIOUS
<1> HIDE DEF Good
<1>3. Good = SUBSET T
  BY <1>1, <1>2, SubsetInduction
<1>4. QED
  BY <1>3 DEF Good

-----------------------------------------------------------------------------
(* The sum of no numbers, and of the numbers without the chosen one.       *)
LEMMA SumEmpty == ASSUME NEW h PROVE SumOver({}, h) = 0
<1>1. SumsUp({}, h, CHOOSE g : SumsUp({}, h, g))
  BY SumExists, FS_EmptySet
<1>2. QED
  BY <1>1, SumsUpFacts DEF SumOver

LEMMA SumStep ==
    ASSUME NEW T, IsFiniteSet(T), T # {}, NEW h
    PROVE  SumOver(T, h) = h[Chosen(T)] + SumOver(T \ {Chosen(T)}, h)
<1> DEFINE rest == T \ {Chosen(T)}
<1>1. IsFiniteSet(rest) /\ rest \subseteq T
  BY FS_Subset
<1>2. SumsUp(T, h, CHOOSE g : SumsUp(T, h, g)) /\ SumsUp(rest, h, CHOOSE g : SumsUp(rest, h, g))
  BY <1>1, SumExists
<1>3. SumOver(T, h) = h[Chosen(T)] + (CHOOSE g : SumsUp(T, h, g))[rest]
  BY <1>2, SumsUpFacts DEF SumOver
<1> HIDE DEF rest
<1>4. (CHOOSE g : SumsUp(T, h, g))[rest] = SumOver(rest, h)
  BY <1>1, <1>2, SumUnique DEF SumOver
<1>5. QED
  BY <1>3, <1>4 DEF rest

LEMMA SumNat ==
    ASSUME NEW T, IsFiniteSet(T), NEW h, \A x \in T : h[x] \in Nat
    PROVE  SumOver(T, h) \in Nat
<1> DEFINE Good == {s \in SUBSET T : SumOver(s, h) \in Nat}
<1>1. ASSUME NEW s \in SUBSET T, \A r \in SUBSET s : r # s => r \in Good
      PROVE  s \in Good
  <2>1. CASE s = {}
    BY <2>1, SumEmpty
  <2>2. CASE s # {}
    <3>1. Chosen(s) \in s /\ IsFiniteSet(s)
      BY <2>2, ChosenIn, FS_Subset
    <3>2. SumOver(s, h) = h[Chosen(s)] + SumOver(s \ {Chosen(s)}, h)
      BY <2>2, <3>1, SumStep
    <3>3. s \ {Chosen(s)} \in Good
      BY <1>1, <3>1
    <3>4. QED
      BY <3>1, <3>2, <3>3
  <2>3. QED
    BY <2>1, <2>2
<1>2. Good \in SUBSET SUBSET T
  OBVIOUS
<1> HIDE DEF Good
<1>3. Good = SUBSET T
  BY <1>1, <1>2, SubsetInduction
<1>4. QED
  BY <1>3 DEF Good

(* One number changes, and the sum by as much.                             *)
LEMMA SumChange ==
    ASSUME NEW T, IsFiniteSet(T), NEW h \in [T -> Int], NEW k \in [T -> Int], NEW x0,
           \A x \in T : x # x0 => k[x] = h[x]
    PROVE  /\ SumOver(T, h) \in Int
           /\ SumOver(T, k) = SumOver(T, h) + (IF x0 \in T THEN k[x0] - h[x0] ELSE 0)
<1> DEFINE change(s) == IF x0 \in s THEN k[x0] - h[x0] ELSE 0
           Good == {s \in SUBSET T : /\ SumOver(s, h) \in Int
                                     /\ SumOver(s, k) = SumOver(s, h) + change(s)}
<1>1. ASSUME NEW s \in SUBSET T, \A r \in SUBSET s : r # s => r \in Good
      PROVE  s \in Good
  <2>1. CASE s = {}
    BY <2>1, SumEmpty
  <2>2. CASE s # {}
    <3> DEFINE c == Chosen(s)
               rest == s \ {c}
    <3>1. c \in s /\ IsFiniteSet(s) /\ h[c] \in Int /\ k[c] \in Int
      BY <2>2, ChosenIn, FS_Subset
    <3>2. SumOver(s, h) = h[c] + SumOver(rest, h) /\ SumOver(s, k) = k[c] + SumOver(rest, k)
      BY <2>2, <3>1, SumStep
    <3>3. rest \in Good
      BY <1>1, <3>1
    <3>4. CASE c = x0
      BY <3>1, <3>2, <3>3, <3>4
    <3>5. CASE c # x0
      <4>1. x0 \in s <=> x0 \in rest
        BY <3>5
      <4>2. k[c] = h[c]
        BY <3>1, <3>5
      <4>3. change(s) = change(rest) /\ change(s) \in Int
        BY <4>1
      <4>4. QED
        BY <3>1, <3>2, <3>3, <4>2, <4>3
    <3>6. QED
      BY <3>4, <3>5
  <2>3. QED
    BY <2>1, <2>2
<1>2. Good \in SUBSET SUBSET T
  OBVIOUS
<1> HIDE DEF Good
<1>3. Good = SUBSET T
  BY <1>1, <1>2, SubsetInduction
<1>4. QED
  BY <1>3 DEF Good

-----------------------------------------------------------------------------
(* The same numbers have the same sum.                                     *)
LEMMA SumSame ==
    ASSUME NEW T, IsFiniteSet(T), NEW h, NEW k, \A x \in T : h[x] = k[x]
    PROVE  SumOver(T, h) = SumOver(T, k)
<1> DEFINE Good == {s \in SUBSET T : SumOver(s, h) = SumOver(s, k)}
<1>1. ASSUME NEW s \in SUBSET T, \A r \in SUBSET s : r # s => r \in Good
      PROVE  s \in Good
  <2>1. CASE s = {}
    BY <2>1, SumEmpty
  <2>2. CASE s # {}
    <3>1. Chosen(s) \in s /\ IsFiniteSet(s)
      BY <2>2, ChosenIn, FS_Subset
    <3>2. /\ SumOver(s, h) = h[Chosen(s)] + SumOver(s \ {Chosen(s)}, h)
          /\ SumOver(s, k) = k[Chosen(s)] + SumOver(s \ {Chosen(s)}, k)
      BY <2>2, <3>1, SumStep
    <3>3. s \ {Chosen(s)} \in Good
      BY <1>1, <3>1
    <3>4. QED
      BY <3>1, <3>2, <3>3
  <2>3. QED
    BY <2>1, <2>2
<1>2. Good \in SUBSET SUBSET T
  OBVIOUS
<1> HIDE DEF Good
<1>3. Good = SUBSET T
  BY <1>1, <1>2, SubsetInduction
<1>4. QED
  BY <1>3 DEF Good

LEMMA SumInt ==
    ASSUME NEW T, IsFiniteSet(T), NEW h, \A x \in T : h[x] \in Int
    PROVE  SumOver(T, h) \in Int
<1> DEFINE Good == {s \in SUBSET T : SumOver(s, h) \in Int}
<1>1. ASSUME NEW s \in SUBSET T, \A r \in SUBSET s : r # s => r \in Good
      PROVE  s \in Good
  <2>1. CASE s = {}
    BY <2>1, SumEmpty
  <2>2. CASE s # {}
    <3>1. Chosen(s) \in s /\ IsFiniteSet(s)
      BY <2>2, ChosenIn, FS_Subset
    <3>2. SumOver(s, h) = h[Chosen(s)] + SumOver(s \ {Chosen(s)}, h)
      BY <2>2, <3>1, SumStep
    <3>3. s \ {Chosen(s)} \in Good
      BY <1>1, <3>1
    <3>4. QED
      BY <3>1, <3>2, <3>3
  <2>3. QED
    BY <2>1, <2>2
<1>2. Good \in SUBSET SUBSET T
  OBVIOUS
<1> HIDE DEF Good
<1>3. Good = SUBSET T
  BY <1>1, <1>2, SubsetInduction
<1>4. QED
  BY <1>3 DEF Good

LEMMA SumNotPositive ==
    ASSUME NEW T, IsFiniteSet(T), NEW h, \A x \in T : h[x] \in Int /\ h[x] <= 0
    PROVE  SumOver(T, h) \in Int /\ SumOver(T, h) <= 0
<1> DEFINE Good == {s \in SUBSET T : SumOver(s, h) \in Int /\ SumOver(s, h) <= 0}
<1>1. ASSUME NEW s \in SUBSET T, \A r \in SUBSET s : r # s => r \in Good
      PROVE  s \in Good
  <2>1. CASE s = {}
    BY <2>1, SumEmpty
  <2>2. CASE s # {}
    <3>1. Chosen(s) \in s /\ IsFiniteSet(s)
      BY <2>2, ChosenIn, FS_Subset
    <3>2. SumOver(s, h) = h[Chosen(s)] + SumOver(s \ {Chosen(s)}, h)
      BY <2>2, <3>1, SumStep
    <3>3. s \ {Chosen(s)} \in Good
      BY <1>1, <3>1
    <3>4. QED
      BY <3>1, <3>2, <3>3
  <2>3. QED
    BY <2>1, <2>2
<1>2. Good \in SUBSET SUBSET T
  OBVIOUS
<1> HIDE DEF Good
<1>3. Good = SUBSET T
  BY <1>1, <1>2, SubsetInduction
<1>4. QED
  BY <1>3 DEF Good

(* Any element may be taken out first.                                     *)
LEMMA SumRemove ==
    ASSUME NEW T, IsFiniteSet(T), NEW h, \A x \in T : h[x] \in Int, NEW x0 \in T
    PROVE  SumOver(T, h) = h[x0] + SumOver(T \ {x0}, h)
<1> DEFINE Good == {s \in SUBSET T : \A x \in s : SumOver(s, h) = h[x] + SumOver(s \ {x}, h)}
<1>1. ASSUME NEW s \in SUBSET T, \A r \in SUBSET s : r # s => r \in Good
      PROVE  s \in Good
  <2>1. SUFFICES ASSUME NEW x \in s PROVE SumOver(s, h) = h[x] + SumOver(s \ {x}, h)
    OBVIOUS
  <2> DEFINE c == Chosen(s)
  <2>2. c \in s /\ IsFiniteSet(s)
    BY <2>1, ChosenIn, FS_Subset
  <2>3. SumOver(s, h) = h[c] + SumOver(s \ {c}, h)
    BY <2>1, <2>2, SumStep
  <2> HIDE DEF c
  <2>4. CASE c = x
    BY <2>3, <2>4
  <2>5. CASE c # x
    <3>1. s \ {c} \in Good /\ s \ {x} \in Good
      BY <1>1, <2>1, <2>2
    <3>2. SumOver(s \ {c}, h) = h[x] + SumOver((s \ {c}) \ {x}, h)
      BY <2>1, <2>5, <3>1
    <3>3. SumOver(s \ {x}, h) = h[c] + SumOver((s \ {x}) \ {c}, h)
      BY <2>2, <2>5, <3>1
    <3>4. (s \ {c}) \ {x} = (s \ {x}) \ {c}
      OBVIOUS
    <3>5. IsFiniteSet((s \ {x}) \ {c}) /\ (s \ {x}) \ {c} \subseteq T
      BY <2>2, FS_Subset
    <3>6. SumOver((s \ {x}) \ {c}, h) \in Int
      BY <3>5, SumInt
    <3>7. h[x] \in Int /\ h[c] \in Int
      BY <2>1, <2>2
    <3>8. QED
      <4>1. SumOver(s, h) = h[c] + (h[x] + SumOver((s \ {x}) \ {c}, h))
        BY <2>3, <3>2, <3>4
      <4> DEFINE rest == SumOver((s \ {x}) \ {c}, h)
      <4>2. rest \in Int
        BY <3>6
      <4> HIDE DEF rest
      <4>3. h[c] + (h[x] + rest) = h[x] + (h[c] + rest)
        BY <3>7, <4>2
      <4>4. QED
        BY <3>3, <4>1, <4>3 DEF rest
  <2>6. QED
    BY <2>4, <2>5
<1>2. Good \in SUBSET SUBSET T
  OBVIOUS
<1> HIDE DEF Good
<1>3. Good = SUBSET T
  BY <1>1, <1>2, SubsetInduction
<1>4. QED
  BY <1>3 DEF Good

(* The sum of two sets without a common element.                           *)
LEMMA SumSplit ==
    ASSUME NEW A, NEW B, IsFiniteSet(A), IsFiniteSet(B), A \cap B = {},
           NEW h, \A x \in A \cup B : h[x] \in Int
    PROVE  SumOver(A \cup B, h) = SumOver(A, h) + SumOver(B, h)
<1> DEFINE Good == {s \in SUBSET A : SumOver(s \cup B, h) = SumOver(s, h) + SumOver(B, h)}
<1>0. SumOver(B, h) \in Int
  BY SumInt
<1>1. ASSUME NEW s \in SUBSET A, \A r \in SUBSET s : r # s => r \in Good
      PROVE  s \in Good
  <2>1. CASE s = {}
    <3>1. s \cup B = B
      BY <2>1
    <3>2. QED
      BY <1>0, <2>1, <3>1, SumEmpty
  <2>2. CASE s # {}
    <3> DEFINE c == Chosen(s)
    <3>1. c \in s /\ IsFiniteSet(s)
      BY <2>2, ChosenIn, FS_Subset
    <3>2. SumOver(s, h) = h[c] + SumOver(s \ {c}, h)
      BY <2>2, <3>1, SumStep
    <3> HIDE DEF c
    <3>3. IsFiniteSet(s \cup B) /\ \A x \in s \cup B : h[x] \in Int
      BY <3>1, FS_Union
    <3>4. SumOver(s \cup B, h) = h[c] + SumOver((s \cup B) \ {c}, h)
      BY <3>1, <3>3, SumRemove
    <3>5. (s \cup B) \ {c} = (s \ {c}) \cup B
      BY <3>1
    <3>6. s \ {c} \in Good
      BY <1>1, <3>1
    <3>7. IsFiniteSet(s \ {c})
      BY <3>1, FS_Subset
    <3>8. SumOver(s \ {c}, h) \in Int /\ h[c] \in Int
      BY <3>1, <3>7, SumInt
    <3>9. SumOver((s \ {c}) \cup B, h) = SumOver(s \ {c}, h) + SumOver(B, h)
      BY <3>6
    <3>10. SumOver(s \cup B, h) = SumOver(s, h) + SumOver(B, h)
      <4> DEFINE rest == SumOver(s \ {c}, h)
                 sumB == SumOver(B, h)
      <4>1. SumOver(s \cup B, h) = h[c] + (rest + sumB) /\ SumOver(s, h) = h[c] + rest
        BY <3>2, <3>4, <3>5, <3>9
      <4>2. rest \in Int /\ sumB \in Int
        BY <1>0, <3>8
      <4> HIDE DEF rest
      <4>3. sumB = SumOver(B, h)
        OBVIOUS
      <4> HIDE DEF sumB
      <4>4. h[c] + (rest + sumB) = (h[c] + rest) + sumB
        BY <3>8, <4>2
      <4>5. QED
        BY <4>1, <4>3, <4>4
    <3>11. QED
      BY <3>10
  <2>3. QED
    BY <2>1, <2>2
<1>2. Good \in SUBSET SUBSET A
  OBVIOUS
<1> HIDE DEF Good
<1>3. Good = SUBSET A
  BY <1>1, <1>2, SubsetInduction
<1>4. QED
  BY <1>3 DEF Good

LEMMA SumOfParts ==
    ASSUME NEW A, NEW B, IsFiniteSet(A), IsFiniteSet(B), A \cap B = {}, NEW h, NEW g, NEW k,
           \A x \in A : h[x] \in Int /\ h[x] = g[x],
           \A x \in B : h[x] \in Int /\ h[x] = k[x]
    PROVE  SumOver(A \cup B, h) = SumOver(A, g) + SumOver(B, k)
<1>1. \A x \in A \cup B : h[x] \in Int
  OBVIOUS
<1>2. SumOver(A \cup B, h) = SumOver(A, h) + SumOver(B, h)
  BY <1>1, SumSplit
<1>3. SumOver(A, h) = SumOver(A, g)
  BY SumSame
<1>4. SumOver(B, h) = SumOver(B, k)
  BY SumSame
<1>5. QED
  BY <1>2, <1>3, <1>4

LEMMA ImageFinite ==
    ASSUME NEW T, IsFiniteSet(T), NEW f
    PROVE  IsFiniteSet({f[x] : x \in T})
<1> DEFINE g == [x \in T |-> f[x]]
           S == {f[x] : x \in T}
<1>1. g \in [T -> S] /\ \A y \in S : \E x \in T : g[x] = y
  OBVIOUS
<1>2. g \in Surjection(T, S)
  BY <1>1 DEF Surjection
<1> HIDE DEF g, S
<1>3. IsFiniteSet(S)
  BY <1>2, FS_Surjection
<1>4. QED
  BY <1>3 DEF S

(* The sum of what a one-to-one function makes of a set.                   *)
LEMMA SumImage ==
    ASSUME NEW T, IsFiniteSet(T), NEW f, \A x, y \in T : f[x] = f[y] => x = y,
           NEW h, \A x \in T : h[f[x]] \in Int
    PROVE  SumOver({f[x] : x \in T}, h) = SumOver(T, [x \in T |-> h[f[x]]])
<1> DEFINE k == [x \in T |-> h[f[x]]]
           Good == {s \in SUBSET T : SumOver({f[x] : x \in s}, h) = SumOver(s, k)}
<1>1. ASSUME NEW s \in SUBSET T, \A r \in SUBSET s : r # s => r \in Good
      PROVE  s \in Good
  <2>1. CASE s = {}
    <3>1. {f[x] : x \in s} = {}
      BY <2>1
    <3>2. QED
      BY <2>1, <3>1, SumEmpty
  <2>2. CASE s # {}
    <3> DEFINE c == Chosen(s)
    <3>1. c \in s /\ IsFiniteSet(s)
      BY <2>2, ChosenIn, FS_Subset
    <3>2. SumOver(s, k) = k[c] + SumOver(s \ {c}, k)
      BY <2>2, <3>1, SumStep
    <3> HIDE DEF c
    <3>3. IsFiniteSet({f[x] : x \in s})
      BY <3>1, ImageFinite
    <3>4. f[c] \in {f[x] : x \in s} /\ \A y \in {f[x] : x \in s} : h[y] \in Int
      BY <3>1
    <3>5. SumOver({f[x] : x \in s}, h) = h[f[c]] + SumOver({f[x] : x \in s} \ {f[c]}, h)
      BY <3>3, <3>4, SumRemove
    <3>6. {f[x] : x \in s} \ {f[c]} = {f[x] : x \in s \ {c}}
      BY <3>1
    <3>7. s \ {c} \in Good
      BY <1>1, <3>1
    <3>8. k[c] = h[f[c]]
      BY <3>1
    <3>9. QED
      BY <3>2, <3>5, <3>6, <3>7, <3>8
  <2>3. QED
    BY <2>1, <2>2
<1>2. Good \in SUBSET SUBSET T
  OBVIOUS
<1> HIDE DEF Good
<1>3. Good = SUBSET T
  BY <1>1, <1>2, SubsetInduction
<1>4. QED
  BY <1>3 DEF Good

(* The sum of equal numbers is a product.                                  *)
LEMMA SumConstant ==
    ASSUME NEW T, IsFiniteSet(T), NEW b \in Int, NEW h, \A x \in T : h[x] = b
    PROVE  SumOver(T, h) = b * Cardinality(T)
<1> DEFINE Good == {s \in SUBSET T : SumOver(s, h) = b * Cardinality(s)}
<1>1. ASSUME NEW s \in SUBSET T, \A r \in SUBSET s : r # s => r \in Good
      PROVE  s \in Good
  <2>1. CASE s = {}
    <3>1. Cardinality(s) = 0
      BY <2>1, FS_EmptySet
    <3>2. QED
      BY <2>1, <3>1, SumEmpty
  <2>2. CASE s # {}
    <3> DEFINE c == Chosen(s)
               n == Cardinality(s \ {c})
    <3>1. c \in s /\ IsFiniteSet(s)
      BY <2>2, ChosenIn, FS_Subset
    <3>2. SumOver(s, h) = h[c] + SumOver(s \ {c}, h)
      BY <2>2, <3>1, SumStep
    <3>3. IsFiniteSet(s \ {c}) /\ Cardinality(s \ {c}) = Cardinality(s) - 1
      BY <3>1, FS_RemoveElement
    <3>4. n \in Nat /\ Cardinality(s) \in Nat
      BY <3>1, <3>3, FS_CardinalityType
    <3>5. s \ {c} \in Good
      BY <1>1, <3>1
    <3>6. SumOver(s \ {c}, h) = b * n
      BY <3>5
    <3>7. h[c] = b
      BY <3>1
    <3> HIDE DEF n, c
    <3>8. Cardinality(s) = n + 1
      BY <3>3, <3>4 DEF n
    <3>9. b * (n + 1) = b + b * n
      BY <3>4
    <3>10. QED
      BY <3>2, <3>6, <3>7, <3>8, <3>9
  <2>3. QED
    BY <2>1, <2>2
<1>2. Good \in SUBSET SUBSET T
  OBVIOUS
<1> HIDE DEF Good
<1>3. Good = SUBSET T
  BY <1>1, <1>2, SubsetInduction
<1>4. QED
  BY <1>3 DEF Good

(* The sum of equal numbers over what a one-to-one function makes of a set.*)
LEMMA SumEqual ==
    ASSUME NEW T, IsFiniteSet(T), NEW f, \A x, y \in T : f[x] = f[y] => x = y,
           NEW b \in Int, NEW h, \A x \in T : h[f[x]] = b
    PROVE  SumOver({f[x] : x \in T}, h) = b * Cardinality(T)
<1> DEFINE k == [x \in T |-> h[f[x]]]
<1>1. \A x \in T : h[f[x]] \in Int
  OBVIOUS
<1>2. SumOver({f[x] : x \in T}, h) = SumOver(T, k)
  BY <1>1, SumImage
<1>3. \A x \in T : k[x] = b
  OBVIOUS
<1> HIDE DEF k
<1>4. SumOver(T, k) = b * Cardinality(T)
  BY <1>3, SumConstant
<1>5. QED
  BY <1>2, <1>4
=============================================================================
