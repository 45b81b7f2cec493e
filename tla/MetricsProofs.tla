----------------------------- MODULE MetricsProofs -----------------------------
(***************************************************************************)
(* The API and the client for every set of users, every number of pages,   *)
(* every store a publisher may leave behind and every number of failures.  *)
(***************************************************************************)
EXTENDS MetricsInv, FiniteSetTheorems, WellFoundedInduction, TLAPS

-----------------------------------------------------------------------------
(* Numbers and lists.                                                      *)

(* A set of numbers from a to b that is not empty has a least one.         *)
LEMMA LeastOf ==
    ASSUME NEW S \in SUBSET Nat, S # {}
    PROVE  \E x \in S : \A y \in S : x <= y
<1>1. PICK x \in S : \A y \in S : ~(<<y, x>> \in OpToRel(<, Nat))
  BY NatLessThanWellFounded, WFMin
<1>2. \A y \in S : ~(y < x)
  BY <1>1 DEF OpToRel
<1>3. QED
  BY <1>2

(* What holds of 1 and passes from each number to the next holds up to N.  *)
LEMMA UpTo ==
    ASSUME NEW N \in Nat, NEW S, \A n \in 1 .. N : (n = 1 \/ n - 1 \in S) => n \in S
    PROVE  1 .. N \subseteq S
<1> DEFINE bad == {n \in 1 .. N : n \notin S}
<1>1. SUFFICES ASSUME bad # {} PROVE FALSE
  OBVIOUS
<1>2. bad \in SUBSET Nat
  OBVIOUS
<1> HIDE DEF bad
<1>3. PICK x \in bad : \A y \in bad : x <= y
  BY <1>1, <1>2, LeastOf
<1>4. x = 1 \/ x - 1 \in S
  BY <1>3 DEF bad
<1>5. QED
  BY <1>3, <1>4 DEF bad

LEMMA UniqueElement ==
    ASSUME NEW S, \A a, b \in S : a = b
    PROVE  /\ S = {} => SetToSeq(S) = <<>>
           /\ S # {} => \E a : S = {a} /\ SetToSeq(S) = <<a>>
<1>1. CASE S = {}
  <2>1. Cardinality(S) = 0
    BY <1>1, FS_EmptySet
  <2>2. \E f \in [1 .. 0 -> {}] : IsInjective(f)
    <3>1. [i \in 1 .. 0 |-> i] \in [1 .. 0 -> {}] /\ IsInjective([i \in 1 .. 0 |-> i])
      BY DEF IsInjective
    <3>2. QED
      BY <3>1
  <2>3. SetToSeq(S) \in [1 .. 0 -> {}]
    BY <1>1, <2>1, <2>2 DEF SetToSeq
  <2>4. QED
    BY <1>1, <2>3
<1>2. CASE S # {}
  <2>1. PICK a : S = {a}
    BY <1>2
  <2>2. Cardinality(S) = 1
    BY <2>1, FS_Singleton
  <2>3. \E f \in [1 .. 1 -> S] : IsInjective(f)
    <3>1. [i \in 1 .. 1 |-> a] \in [1 .. 1 -> S] /\ IsInjective([i \in 1 .. 1 |-> a])
      BY <2>1 DEF IsInjective
    <3>2. QED
      BY <3>1
  <2>4. SetToSeq(S) \in [1 .. 1 -> S]
    BY <2>2, <2>3 DEF SetToSeq
  <2>5. SetToSeq(S) = <<a>>
    BY <2>1, <2>4
  <2>6. QED
    BY <1>2, <2>1, <2>5
<1>3. QED
  BY <1>1, <1>2

-----------------------------------------------------------------------------
(* Flattening.                                                             *)

(* FlattenSeq puts the lists together one after the other.                 *)
LEMMA FlattenSteps ==
    ASSUME NEW T, NEW s \in Seq(Seq(T)), s # <<>>
    PROVE  \E g \in [1 .. Len(s) -> Seq(T)] :
              /\ g[1] = s[1]
              /\ \A i \in 2 .. Len(s) : g[i] = g[i - 1] \o s[i]
              /\ FlattenSeq(s) = g[Len(s)]
<1> DEFINE N == Len(s)
           Is(g, n) == g = [i \in 1 .. n |-> IF i = 1 THEN s[i] ELSE g[i - 1] \o s[i]]
           good == {n \in 1 .. N : \E g : Is(g, n)}
<1>1. N \in Nat \ {0} /\ \A i \in 1 .. N : s[i] \in Seq(T)
  OBVIOUS
<1>2. ASSUME NEW n \in 1 .. N, n = 1 \/ n - 1 \in good PROVE n \in good
  <2>1. CASE n = 1
    <3> DEFINE h == [i \in 1 .. 1 |-> s[1]]
    <3>1. Is(h, 1)
      OBVIOUS
    <3> HIDE DEF h
    <3>2. QED
      BY <2>1, <3>1
  <2>2. CASE n # 1
    <3>1. PICK g : Is(g, n - 1)
      BY <1>2, <2>2
    <3> DEFINE h == [i \in 1 .. n |-> IF i = n THEN g[n - 1] \o s[n] ELSE g[i]]
    <3>2. ASSUME NEW i \in 1 .. n
          PROVE  h[i] = IF i = 1 THEN s[i] ELSE h[i - 1] \o s[i]
      <4>1. CASE i = n
        <5>1. n - 1 \in 1 .. n /\ n - 1 # n
          BY <1>1, <2>2
        <5>2. h[n - 1] = g[n - 1]
          BY <5>1
        <5>3. QED
          BY <2>2, <4>1, <5>2
      <4>2. CASE i # n /\ i # 1
        <5>1. i \in 1 .. n - 1 /\ i - 1 \in 1 .. n /\ i - 1 # n
          BY <1>1, <4>2
        <5>2. h[i] = g[i] /\ h[i - 1] = g[i - 1]
          BY <4>2, <5>1
        <5>3. g[i] = g[i - 1] \o s[i]
          BY <3>1, <4>2, <5>1
        <5>4. QED
          BY <4>2, <5>2, <5>3
      <4>3. CASE i # n /\ i = 1
        <5>1. h[1] = g[1] /\ 1 \in 1 .. n - 1
          BY <1>1, <4>3
        <5>2. g[1] = s[1]
          BY <3>1, <5>1
        <5>3. QED
          BY <4>3, <5>1, <5>2
      <4>4. QED
        BY <4>1, <4>2, <4>3
    <3>3. DOMAIN h = 1 .. n /\ h = [i \in 1 .. n |-> h[i]]
      OBVIOUS
    <3> HIDE DEF h
    <3>4. Is(h, n)
      BY <3>2, <3>3
    <3>5. QED
      BY <3>4
  <2>3. QED
    BY <2>1, <2>2
<1> HIDE DEF good
<1>3. 1 .. N \subseteq good
  BY <1>1, <1>2, UpTo
<1>4. \E g : Is(g, N)
  <2> HIDE DEF N, Is
  <2>1. N \in 1 .. N
    BY <1>1
  <2>2. N \in good
    BY <1>3, <2>1, Zenon
  <2>3. QED
    BY <2>2, Zenon DEF good
<1>5. PICK g : Is(g, N) /\ FlattenSeq(s) = g[N]
  <2> DEFINE g == CHOOSE g : Is(g, N)
  <2>1. Is(g, N)
    BY <1>4
  <2>2. FlattenSeq(s) = g[N]
    BY <1>1 DEF FlattenSeq
  <2>3. QED
    BY <2>1, <2>2
<1>6. g[1] = s[1] /\ \A i \in 2 .. N : g[i] = g[i - 1] \o s[i]
  <2>1. \A i \in 1 .. N : g[i] = IF i = 1 THEN s[i] ELSE g[i - 1] \o s[i]
    BY <1>5
  <2>2. \A i \in 2 .. N : i \in 1 .. N /\ i # 1
    BY <1>1
  <2>3. 1 \in 1 .. N
    BY <1>1
  <2>4. QED
    BY <2>1, <2>2, <2>3, Zenon
<1>7. \A i \in 1 .. N : g[i] \in Seq(T)
  <2> DEFINE typed == {i \in 1 .. N : g[i] \in Seq(T)}
  <2>1. ASSUME NEW n \in 1 .. N, n = 1 \/ n - 1 \in typed PROVE n \in typed
    <3>1. s[n] \in Seq(T)
      BY <1>1
    <3>2. CASE n = 1
      BY <1>6, <3>1, <3>2
    <3>3. CASE n # 1
      <4>1. g[n - 1] \in Seq(T)
        BY <2>1, <3>3
      <4>2. n \in 2 .. N
        BY <1>1, <3>3
      <4> HIDE DEF N, Is
      <4>3. g[n] = g[n - 1] \o s[n]
        BY <1>6, <4>2, Zenon
      <4>4. g[n - 1] \o s[n] \in Seq(T)
        BY <3>1, <4>1
      <4>5. QED
        BY <4>3, <4>4
    <3>4. QED
      BY <3>2, <3>3
  <2> HIDE DEF typed
  <2>2. 1 .. N \subseteq typed
    BY <1>1, <2>1, UpTo
  <2>3. QED
    BY <2>2 DEF typed
<1>8. DOMAIN g = 1 .. N /\ g = [i \in 1 .. N |-> g[i]]
  BY <1>5
<1>9. QED
  BY <1>5, <1>6, <1>7, <1>8

(* The F elements of f are elements of the first n lists of s, which are   *)
(* len[1], len[2], ... long, in their order.                               *)
Laid(s, len, n, F, f) ==
    \E list, place \in [1 .. F -> Nat] :
        /\ \A p \in 1 .. F :
              /\ list[p] \in 1 .. n /\ place[p] \in 1 .. len[list[p]]
              /\ f[p] = s[list[p]][place[p]]
        /\ \A p, q \in 1 .. F :
              p < q => \/ list[p] < list[q]
                       \/ list[p] = list[q] /\ place[p] < place[q]

LEMMA LaidFirst ==
    ASSUME NEW s, NEW len, NEW F \in Nat, len[1] = F
    PROVE  Laid(s, len, 1, F, s[1])
<1> DEFINE list == [p \in 1 .. F |-> 1]
           place == [p \in 1 .. F |-> p]
<1>1. list \in [1 .. F -> Nat] /\ place \in [1 .. F -> Nat]
  OBVIOUS
<1>2. \A p \in 1 .. F : list[p] = 1 /\ place[p] = p
  OBVIOUS
<1> HIDE DEF list, place
<1>3. \A p \in 1 .. F : /\ list[p] \in 1 .. 1 /\ place[p] \in 1 .. len[list[p]]
                       /\ s[1][p] = s[list[p]][place[p]]
  BY <1>2
<1>4. \A p, q \in 1 .. F : list[p] = list[q] /\ (p < q => place[p] < place[q])
  BY <1>2
<1>5. \A p, q \in 1 .. F :
         p < q => \/ list[p] < list[q]
                  \/ list[p] = list[q] /\ place[p] < place[q]
  BY <1>4
<1>6. SUFFICES \E lists, places \in [1 .. F -> Nat] :
                  /\ \A p \in 1 .. F :
                        /\ lists[p] \in 1 .. 1 /\ places[p] \in 1 .. len[lists[p]]
                        /\ s[1][p] = s[lists[p]][places[p]]
                  /\ \A p, q \in 1 .. F :
                        p < q => \/ lists[p] < lists[q]
                                 \/ lists[p] = lists[q] /\ places[p] < places[q]
  BY Zenon DEF Laid
<1> USE <1>1
<1>7. WITNESS list \in [1 .. F -> Nat], place \in [1 .. F -> Nat]
<1>8. QED
  BY <1>3, <1>5, Zenon

LEMMA LaidNext ==
    ASSUME NEW s, NEW len, NEW n \in Nat, n > 1, NEW F \in Nat, NEW G \in Nat, len[n] = G,
           NEW f, Laid(s, len, n - 1, F, f),
           NEW g, \A p \in 1 .. F : g[p] = f[p],
           \A p \in F + 1 .. F + G : g[p] = s[n][p - F]
    PROVE  Laid(s, len, n, F + G, g)
<1>1. PICK list, place \in [1 .. F -> Nat] :
        /\ \A p \in 1 .. F :
              /\ list[p] \in 1 .. n - 1 /\ place[p] \in 1 .. len[list[p]]
              /\ f[p] = s[list[p]][place[p]]
        /\ \A p, q \in 1 .. F :
              p < q => \/ list[p] < list[q]
                       \/ list[p] = list[q] /\ place[p] < place[q]
  BY DEF Laid
<1> DEFINE list2 == [p \in 1 .. F + G |-> IF p <= F THEN list[p] ELSE n]
           place2 == [p \in 1 .. F + G |-> IF p <= F THEN place[p] ELSE p - F]
<1>2. \A p \in 1 .. F + G : \/ p \in 1 .. F /\ p <= F
                            \/ p \in F + 1 .. F + G /\ ~(p <= F) /\ p - F \in 1 .. G
  OBVIOUS
<1>3. list2 \in [1 .. F + G -> Nat] /\ place2 \in [1 .. F + G -> Nat]
  BY <1>1, <1>2
<1>4. \A p \in 1 .. F + G : /\ p <= F => list2[p] = list[p] /\ place2[p] = place[p]
                            /\ ~(p <= F) => list2[p] = n /\ place2[p] = p - F
  OBVIOUS
<1> HIDE DEF list2, place2
<1>5. ASSUME NEW p \in 1 .. F + G
      PROVE  /\ list2[p] \in 1 .. n /\ place2[p] \in 1 .. len[list2[p]]
             /\ g[p] = s[list2[p]][place2[p]]
  <2>1. CASE p <= F
    <3>1. p \in 1 .. F /\ list2[p] = list[p] /\ place2[p] = place[p]
      BY <1>2, <1>4, <2>1
    <3>2. list[p] \in 1 .. n
      BY <1>1, <3>1
    <3>3. QED
      BY <1>1, <3>1, <3>2
  <2>2. CASE ~(p <= F)
    <3>1. p \in F + 1 .. F + G /\ p - F \in 1 .. G /\ list2[p] = n /\ place2[p] = p - F
      BY <1>2, <1>4, <2>2
    <3>2. n \in 1 .. n
      OBVIOUS
    <3>3. QED
      BY <3>1, <3>2
  <2>3. QED
    BY <2>1, <2>2
<1>6. ASSUME NEW p \in 1 .. F + G, NEW q \in 1 .. F + G, p < q
      PROVE  \/ list2[p] < list2[q]
             \/ list2[p] = list2[q] /\ place2[p] < place2[q]
  <2>1. CASE q <= F
    <3>1. p \in 1 .. F /\ q \in 1 .. F /\ p <= F
      BY <1>6, <2>1
    <3>2. QED
      BY <1>1, <1>4, <1>6, <2>1, <3>1
  <2>2. CASE ~(q <= F) /\ p <= F
    <3>1. p \in 1 .. F /\ list2[p] = list[p] /\ list2[q] = n
      BY <1>4, <2>2
    <3>2. list[p] \in 1 .. n - 1
      BY <1>1, <3>1
    <3>3. QED
      BY <3>1, <3>2
  <2>3. CASE ~(q <= F) /\ ~(p <= F)
    BY <1>4, <1>6, <2>3
  <2>4. QED
    BY <2>1, <2>2, <2>3
<1> DEFINE H == F + G
<1>7. /\ \A p \in 1 .. H :
            /\ list2[p] \in 1 .. n /\ place2[p] \in 1 .. len[list2[p]]
            /\ g[p] = s[list2[p]][place2[p]]
      /\ \A p, q \in 1 .. H :
            p < q => \/ list2[p] < list2[q]
                     \/ list2[p] = list2[q] /\ place2[p] < place2[q]
  BY <1>5, <1>6
<1>8. list2 \in [1 .. H -> Nat] /\ place2 \in [1 .. H -> Nat]
  BY <1>3
<1> HIDE DEF H
<1>9. Laid(s, len, n, H, g)
  BY <1>7, <1>8 DEF Laid
<1>10. QED
  BY <1>9 DEF H

(* The F elements of f are of consecutive days from a to b.                *)
Days(F, f, a, b) ==
    a <= b /\ F = b - a + 1 /\ \A p \in 1 .. F : f[p].date = a + p - 1

(* What concatenation does to an element.                                  *)
LEMMA ConcatAt ==
    ASSUME NEW T, NEW f \in Seq(T), NEW h \in Seq(T), NEW k, k = f \o h
    PROVE  /\ Len(f) \in Nat /\ Len(h) \in Nat
           /\ Len(k) = Len(f) + Len(h)
           /\ \A p \in 1 .. Len(f) : k[p] = f[p]
           /\ \A p \in Len(f) + 1 .. Len(f) + Len(h) : k[p] = h[p - Len(f)]
  OBVIOUS

(* Every element of the flattened list is one of the lists' and comes in   *)
(* their order.                                                            *)
LEMMA FlattenLaid ==
    ASSUME NEW T, NEW s \in Seq(Seq(T)), s # <<>>
    PROVE  /\ FlattenSeq(s) \in Seq(T)
           /\ Laid(s, [i \in 1 .. Len(s) |-> Len(s[i])], Len(s), Len(FlattenSeq(s)), FlattenSeq(s))
<1>1. PICK g \in [1 .. Len(s) -> Seq(T)] :
        /\ g[1] = s[1]
        /\ \A i \in 2 .. Len(s) : g[i] = g[i - 1] \o s[i]
        /\ FlattenSeq(s) = g[Len(s)]
  BY FlattenSteps
<1> DEFINE N == Len(s)
           len == [i \in 1 .. N |-> Len(s[i])]
           laid == {i \in 1 .. N : Laid(s, len, i, Len(g[i]), g[i])}
<1>2. N \in Nat \ {0} /\ \A i \in 1 .. N : s[i] \in Seq(T) /\ len[i] = Len(s[i])
  OBVIOUS
<1> HIDE DEF len, N
<1>3. ASSUME NEW n \in 1 .. N, n = 1 \/ n - 1 \in laid PROVE n \in laid
  <2>1. CASE n = 1
    <3>1. s[1] \in Seq(T) /\ len[1] = Len(s[1])
      BY <1>2, <2>1
    <3>2. Len(s[1]) \in Nat
      BY <3>1
    <3>3. Laid(s, len, 1, Len(s[1]), s[1])
      BY <3>1, <3>2, LaidFirst
    <3>4. QED
      BY <1>1, <2>1, <3>3
  <2>2. CASE n # 1
    <3>1. n \in 2 .. N /\ n - 1 \in 1 .. N /\ n \in Nat /\ n > 1
      BY <1>2, <2>2
    <3>2. PICK f, h, k : f = g[n - 1] /\ h = s[n] /\ k = g[n]
      OBVIOUS
    <3>3. f \in Seq(T) /\ h \in Seq(T) /\ k = f \o h
      BY <1>1, <1>2, <3>1, <3>2 DEF N
    <3>4. Laid(s, len, n - 1, Len(f), f)
      BY <1>3, <2>2, <3>2
    <3>5. len[n] = Len(h)
      BY <1>2, <3>2
    <3>6. /\ Len(f) \in Nat /\ Len(h) \in Nat /\ Len(k) = Len(f) + Len(h)
          /\ \A p \in 1 .. Len(f) : k[p] = f[p]
          /\ \A p \in Len(f) + 1 .. Len(f) + Len(h) : k[p] = h[p - Len(f)]
      BY <3>3, ConcatAt
    <3>7. Laid(s, len, n, Len(f) + Len(h), k)
      <4>1. PICK F, G : F = Len(f) /\ G = Len(h)
        OBVIOUS
      <4>2. /\ F \in Nat /\ G \in Nat /\ len[n] = G /\ Laid(s, len, n - 1, F, f)
            /\ \A p \in 1 .. F : k[p] = f[p]
        BY <3>4, <3>5, <3>6, <4>1
      <4>3. \A p \in F + 1 .. F + G : k[p] = s[n][p - F]
        BY <3>2, <3>6, <4>1
      <4>4. Laid(s, len, n, F + G, k)
        BY <3>1, <4>2, <4>3, LaidNext
      <4>5. QED
        BY <4>1, <4>4
    <3>8. QED
      BY <3>2, <3>6, <3>7
  <2>3. QED
    BY <2>1, <2>2
<1> HIDE DEF laid
<1>4. 1 .. N \subseteq laid
  BY <1>2, <1>3, UpTo
<1>5. N \in 1 .. N
  BY <1>2
<1>6. Laid(s, len, N, Len(g[N]), g[N])
  BY <1>4, <1>5 DEF laid
<1>7. g[N] \in Seq(T)
  BY <1>1, <1>5 DEF N
<1>8. QED
  BY <1>1, <1>6, <1>7 DEF N, len

(* Lists of consecutive days, each from the day after the one before, make *)
(* one list of consecutive days.                                           *)
LEMMA FlattenDays ==
    ASSUME NEW T, NEW s \in Seq(Seq(T)), s # <<>>,
           NEW from \in [1 .. Len(s) -> Int], NEW to \in [1 .. Len(s) -> Int],
           \A i \in 1 .. Len(s) : Days(Len(s[i]), s[i], from[i], to[i]),
           \A i \in 2 .. Len(s) : from[i] = to[i - 1] + 1
    PROVE  Days(Len(FlattenSeq(s)), FlattenSeq(s), from[1], to[Len(s)])
<1>1. PICK g \in [1 .. Len(s) -> Seq(T)] :
        /\ g[1] = s[1]
        /\ \A i \in 2 .. Len(s) : g[i] = g[i - 1] \o s[i]
        /\ FlattenSeq(s) = g[Len(s)]
  BY FlattenSteps
<1> DEFINE N == Len(s)
           good == {i \in 1 .. N : Days(Len(g[i]), g[i], from[1], to[i])}
<1>2. N \in Nat \ {0} /\ \A i \in 1 .. N : s[i] \in Seq(T)
  OBVIOUS
<1> HIDE DEF N
<1>3. ASSUME NEW n \in 1 .. N, n = 1 \/ n - 1 \in good PROVE n \in good
  <2>1. CASE n = 1
    BY <1>1, <2>1 DEF N
  <2>2. CASE n # 1
    <3>1. n \in 2 .. N /\ n - 1 \in 1 .. N
      BY <1>2, <2>2
    <3>2. PICK f, h, k : f = g[n - 1] /\ h = s[n] /\ k = g[n]
      OBVIOUS
    <3>3. PICK a, b, c : a = from[1] /\ b = to[n - 1] /\ c = to[n]
      OBVIOUS
    <3>4. f \in Seq(T) /\ h \in Seq(T) /\ k = f \o h
      BY <1>1, <1>2, <3>1, <3>2 DEF N
    <3>5. a \in Int /\ b \in Int /\ c \in Int
      <4>1. 1 \in 1 .. N
        BY <1>2
      <4>2. QED
        BY <3>1, <3>3, <4>1 DEF N
    <3>6. Days(Len(f), f, a, b)
      BY <1>3, <2>2, <3>2, <3>3
    <3>7. Days(Len(h), h, b + 1, c)
      BY <3>1, <3>2, <3>3 DEF N
    <3>8. /\ Len(f) \in Nat /\ Len(h) \in Nat /\ Len(k) = Len(f) + Len(h)
          /\ \A p \in 1 .. Len(f) : k[p] = f[p]
          /\ \A p \in Len(f) + 1 .. Len(f) + Len(h) : k[p] = h[p - Len(f)]
      BY <3>4, ConcatAt
    <3> DEFINE F == Len(f)
               G == Len(h)
    <3> HIDE DEF F, G
    <3>9. F \in Nat /\ G \in Nat /\ a <= c /\ F + G = c - a + 1
      BY <3>5, <3>6, <3>7, <3>8 DEF Days, F, G
    <3>10. ASSUME NEW p \in 1 .. F + G PROVE k[p].date = a + p - 1
      <4>1. CASE p <= F
        <5>1. p \in 1 .. F
          BY <3>9, <4>1
        <5>2. k[p] = f[p] /\ f[p].date = a + p - 1
          BY <3>6, <3>8, <5>1 DEF Days, F
        <5>3. QED
          BY <5>2
      <4>2. CASE p > F
        <5>1. p \in F + 1 .. F + G /\ p - F \in 1 .. G
          BY <3>9, <4>2
        <5>2. k[p] = h[p - F]
          BY <3>8, <5>1 DEF F, G
        <5>3. h[p - F].date = b + 1 + (p - F) - 1
          BY <3>7, <5>1 DEF Days, G
        <5>4. F = b - a + 1
          BY <3>6 DEF Days, F
        <5>5. b + 1 + (p - F) - 1 = a + p - 1
          BY <3>5, <3>9, <5>4
        <5>6. QED
          BY <5>2, <5>3, <5>5
      <4>3. QED
        BY <3>9, <4>1, <4>2
    <3>11. Days(F + G, k, a, c)
      BY <3>9, <3>10 DEF Days
    <3>12. QED
      BY <3>2, <3>3, <3>8, <3>11 DEF F, G
  <2>3. QED
    BY <2>1, <2>2
<1> HIDE DEF good
<1>4. 1 .. N \subseteq good
  BY <1>2, <1>3, UpTo
<1>5. N \in 1 .. N
  BY <1>2
<1>6. Days(Len(g[N]), g[N], from[1], to[N])
  BY <1>4, <1>5 DEF good
<1>7. QED
  BY <1>1, <1>6 DEF N

(* The F elements of f are of days from a to b, one for each at most, in   *)
(* their order.                                                            *)
Ordered(F, f, a, b) ==
    /\ \A p \in 1 .. F : f[p].date \in a .. b
    /\ \A p, q \in 1 .. F : p < q => f[p].date < f[q].date

LEMMA Inside ==
    ASSUME NEW a \in Int, NEW b \in Int, NEW c \in Int, NEW d \in Int,
           a <= c, d <= b, NEW x \in c .. d
    PROVE  x \in a .. b
  OBVIOUS

LEMMA LaidOrdered ==
    ASSUME NEW N \in Nat, NEW s, NEW len, NEW F \in Nat, NEW f, Laid(s, len, N, F, f),
           \A i \in 1 .. N : len[i] \in Nat,
           NEW from \in [1 .. N -> Int], NEW to \in [1 .. N -> Int],
           NEW a \in Int, NEW b \in Int,
           \A i \in 1 .. N : Ordered(len[i], s[i], from[i], to[i]),
           \A i \in 1 .. N : a <= from[i] /\ to[i] <= b,
           \A i, j \in 1 .. N : i < j => to[i] < from[j]
    PROVE  Ordered(F, f, a, b)
<1>1. PICK list, place \in [1 .. F -> Nat] :
        /\ \A p \in 1 .. F :
              /\ list[p] \in 1 .. N /\ place[p] \in 1 .. len[list[p]]
              /\ f[p] = s[list[p]][place[p]]
        /\ \A p, q \in 1 .. F :
              p < q => \/ list[p] < list[q]
                       \/ list[p] = list[q] /\ place[p] < place[q]
  BY DEF Laid
<1>2. ASSUME NEW p \in 1 .. F
      PROVE  f[p].date \in from[list[p]] .. to[list[p]]
  BY <1>1 DEF Ordered
<1>3. ASSUME NEW p \in 1 .. F PROVE f[p].date \in a .. b
  <2>1. PICK i \in 1 .. N : i = list[p]
    BY <1>1
  <2>2. /\ from[i] \in Int /\ to[i] \in Int /\ a <= from[i] /\ to[i] <= b
        /\ f[p].date \in from[i] .. to[i]
    BY <1>2, <2>1
  <2>3. QED
    BY <2>2, Inside
<1>4. ASSUME NEW p \in 1 .. F, NEW q \in 1 .. F, p < q PROVE f[p].date < f[q].date
  <2>1. PICK i, j \in 1 .. N : i = list[p] /\ j = list[q]
    BY <1>1
  <2>2. /\ from[i] \in Int /\ to[i] \in Int /\ from[j] \in Int /\ to[j] \in Int
        /\ f[p].date \in from[i] .. to[i] /\ f[q].date \in from[j] .. to[j]
    BY <1>2, <2>1
  <2>3. CASE i < j
    <3>1. PICK x, y, ti, fj : x = f[p].date /\ y = f[q].date /\ ti = to[i] /\ fj = from[j]
      OBVIOUS
    <3>2. ti < fj /\ ti \in Int /\ fj \in Int /\ x \in Int /\ x <= ti /\ y \in Int /\ fj <= y
      BY <2>2, <2>3, <3>1
    <3>3. x < y
      BY <3>2
    <3>4. QED
      BY <3>1, <3>3
  <2>4. CASE ~(i < j)
    <3>1. list[p] = list[q] /\ place[p] < place[q]
      BY <1>1, <1>4, <2>1, <2>4
    <3>2. Ordered(len[i], s[i], from[i], to[i])
      OBVIOUS
    <3>3. f[p] = s[i][place[p]] /\ f[q] = s[i][place[q]]
          /\ place[p] \in 1 .. len[i] /\ place[q] \in 1 .. len[i]
      BY <1>1, <2>1, <3>1
    <3>4. QED
      BY <3>1, <3>2, <3>3 DEF Ordered
  <2>5. QED
    BY <2>3, <2>4
<1>5. QED
  BY <1>3, <1>4 DEF Ordered

(* Lists of days in order, each of later days than the one before, make    *)
(* one list of days in order.                                              *)
LEMMA FlattenOrdered ==
    ASSUME NEW T, NEW s \in Seq(Seq(T)), s # <<>>,
           NEW from \in [1 .. Len(s) -> Int], NEW to \in [1 .. Len(s) -> Int],
           NEW a \in Int, NEW b \in Int,
           \A i \in 1 .. Len(s) : Ordered(Len(s[i]), s[i], from[i], to[i]),
           \A i \in 1 .. Len(s) : a <= from[i] /\ to[i] <= b,
           \A i, j \in 1 .. Len(s) : i < j => to[i] < from[j]
    PROVE  /\ FlattenSeq(s) \in Seq(T)
           /\ Ordered(Len(FlattenSeq(s)), FlattenSeq(s), a, b)
<1> DEFINE N == Len(s)
           len == [i \in 1 .. N |-> Len(s[i])]
           f == FlattenSeq(s)
           F == Len(FlattenSeq(s))
<1>1. f \in Seq(T) /\ Laid(s, len, N, F, f)
  BY FlattenLaid
<1>2. F \in Nat
  BY <1>1
<1>3. N \in Nat /\ \A i \in 1 .. N : s[i] \in Seq(T)
  OBVIOUS
<1>4. \A i \in 1 .. N : len[i] = Len(s[i]) /\ len[i] \in Nat
  BY <1>3
<1> HIDE DEF len, f, F
<1>5. /\ \A i \in 1 .. N : Ordered(len[i], s[i], from[i], to[i])
      /\ \A i \in 1 .. N : len[i] \in Nat
  BY <1>4
<1>6. /\ from \in [1 .. N -> Int] /\ to \in [1 .. N -> Int]
      /\ \A i \in 1 .. N : a <= from[i] /\ to[i] <= b
      /\ \A i, j \in 1 .. N : i < j => to[i] < from[j]
  OBVIOUS
<1> HIDE DEF N
<1>7. Ordered(F, f, a, b)
  BY <1>1, <1>2, <1>3, <1>5, <1>6, LaidOrdered
<1>8. QED
  BY <1>1, <1>7 DEF f, F

(* Lists of one element at most, the i-th of the i-th day.                 *)
LEMMA FlattenByDay ==
    ASSUME NEW T, NEW start \in Int, NEW n \in Nat, n # 0,
           NEW s \in [1 .. n -> Seq(T)],
           \A i \in 1 .. n :
              s[i] = <<>> \/ \E e \in T : s[i] = <<e>> /\ e.date = start + i - 1
    PROVE  /\ FlattenSeq(s) \in Seq(T)
           /\ Ordered(Len(FlattenSeq(s)), FlattenSeq(s), start, start + n - 1)
<1> DEFINE day == [i \in 1 .. n |-> start + i - 1]
<1>1. s \in Seq(Seq(T)) /\ s # <<>> /\ Len(s) = n
  OBVIOUS
<1>2. ASSUME NEW i \in 1 .. n PROVE Ordered(Len(s[i]), s[i], day[i], day[i])
  <2>1. CASE s[i] = <<>>
    BY <2>1 DEF Ordered
  <2>2. CASE s[i] # <<>>
    <3>1. PICK e : s[i] = <<e>> /\ e.date = start + i - 1
      BY <2>2
    <3>2. QED
      BY <3>1 DEF Ordered
  <2>3. QED
    BY <2>1, <2>2
<1>3. day \in [1 .. n -> Int] /\ \A i \in 1 .. n : start <= day[i] /\ day[i] <= start + n - 1
  OBVIOUS
<1>4. \A i, j \in 1 .. n : i < j => day[i] < day[j]
  OBVIOUS
<1> HIDE DEF day
<1> DEFINE b == start + n - 1
<1>5. b \in Int /\ \A i \in 1 .. n : start <= day[i] /\ day[i] <= b
  BY <1>3
<1> HIDE DEF b
<1>6. FlattenSeq(s) \in Seq(T) /\ Ordered(Len(FlattenSeq(s)), FlattenSeq(s), start, b)
  BY <1>1, <1>2, <1>3, <1>4, <1>5, FlattenOrdered
<1>7. QED
  BY <1>6 DEF b

-----------------------------------------------------------------------------
(* What an answer is made of.                                              *)

(* A metric has its day, and only records of its own block.                *)
LEMMA MetricMatches ==
    ASSUME NEW x, NEW d, \A a, b \in x.rows["metrics"] : a.date = b.date => a = b
    PROVE  /\ Metric(x, d).date = d
           /\ \A r \in Metric(x, d).records : r[2] = Metric(x, d).block
<1>1. Metric(x, d).date = d
  BY DEF Metric
<1>2. ASSUME NEW r \in Metric(x, d).records PROVE r[2] = Metric(x, d).block
  <2>1. PICK k \in RecordKind : \E row :
           row \in SelectedRows(x, k) /\ row.date = d /\ r = <<k, row.block>>
    BY <1>2 DEF Metric
  <2> PICK row : row \in SelectedRows(x, k) /\ row.date = d /\ r = <<k, row.block>>
    BY <2>1
  <2>2. PICK m \in MetricRows(x, d) : m.block = row.block
    BY DEF SelectedRows, Selected
  <2>3. \A m2 \in MetricRows(x, d) : m2 = m
    BY DEF MetricRows
  <2>4. MetricRows(x, d) # {} /\ (CHOOSE m2 \in MetricRows(x, d) : TRUE) = m
    BY <2>2, <2>3
  <2>5. Metric(x, d).block = m.block
    BY <2>4 DEF Metric
  <2>6. QED
    BY <2>1, <2>2, <2>5
<1>3. QED
  BY <1>1, <1>2

(* The records of a day are those of the block of its metric: one at most. *)
LEMMA RecordListFits ==
    ASSUME NEW x, IsRange(x.range), \A a, b \in x.rows[Subject(x.request)] : a.date = b.date => a = b
    PROVE  /\ RecordList(x) \in Seq(x.rows[Subject(x.request)])
           /\ Ordered(Len(RecordList(x)), RecordList(x), x.range.start, x.range.end)
<1> DEFINE rows == x.rows[Subject(x.request)]
           start == x.range.start
           n == x.range.end - x.range.start + 1
           Of(d) == {row \in SelectedRows(x, Subject(x.request)) : row.date = d}
           s == [i \in 1 .. n |-> SetToSeq(Of(start + i - 1))]
<1>1. start \in Int /\ n \in Nat /\ n # 0 /\ start + n - 1 = x.range.end
  BY DEF IsRange, Day
<1>2. RecordList(x) = FlattenSeq(s)
  BY DEF RecordList, ByDay
<1>3. ASSUME NEW i \in 1 .. n
      PROVE  s[i] = <<>> \/ \E e \in rows : s[i] = <<e>> /\ e.date = start + i - 1
  <2> DEFINE found == Of(start + i - 1)
  <2>1. \A a, b \in found : a = b
    BY DEF SelectedRows
  <2>2. found \subseteq rows /\ \A e \in found : e.date = start + i - 1
    BY DEF SelectedRows
  <2>3. s[i] = SetToSeq(found)
    OBVIOUS
  <2> HIDE DEF found, s, start
  <2>4. QED
    BY <2>1, <2>2, <2>3, UniqueElement
<1> HIDE DEF rows, start, n, Of
<1>4. s \in [1 .. n -> Seq(rows)]
  <2>1. ASSUME NEW i \in 1 .. n PROVE s[i] \in Seq(rows)
    <3> HIDE DEF s
    <3>1. CASE s[i] = <<>>
      BY <3>1
    <3>2. ASSUME NEW e \in rows, s[i] = <<e>> PROVE s[i] \in Seq(rows)
      BY <3>2
    <3>3. QED
      BY <1>3, <3>1, <3>2
  <2>2. QED
    BY <2>1
<1> HIDE DEF s
<1>5. FlattenSeq(s) \in Seq(rows) /\ Ordered(Len(FlattenSeq(s)), FlattenSeq(s), start, start + n - 1)
  BY <1>1, <1>3, <1>4, FlattenByDay
<1>6. QED
  BY <1>1, <1>2, <1>5 DEF rows, start

Metrics(x) == {Metric(x, d) : d \in x.range.start .. x.range.end}

LEMMA CompleteFits ==
    ASSUME NEW x, IsRange(x.range)
    PROVE  /\ CompleteMetrics(x) \in Seq(Metrics(x))
           /\ Ordered(Len(CompleteMetrics(x)), CompleteMetrics(x), x.range.start, x.range.end)
<1> DEFINE start == x.range.start
           n == x.range.end - x.range.start + 1
           Of(d) == IF Metric(x, d).complete THEN <<Metric(x, d)>> ELSE <<>>
           s == [i \in 1 .. n |-> Of(start + i - 1)]
<1>1. start \in Int /\ n \in Nat /\ n # 0 /\ start + n - 1 = x.range.end
  BY DEF IsRange, Day
<1>2. CompleteMetrics(x) = FlattenSeq(s)
  BY DEF CompleteMetrics, ByDay
<1>3. ASSUME NEW i \in 1 .. n
      PROVE  s[i] = <<>> \/ \E e \in Metrics(x) : s[i] = <<e>> /\ e.date = start + i - 1
  <2> DEFINE e == Metric(x, start + i - 1)
  <2>1. start + i - 1 \in x.range.start .. x.range.end
    BY <1>1
  <2>2. e \in Metrics(x)
    BY <2>1 DEF Metrics
  <2>3. e.date = start + i - 1
    BY DEF Metric
  <2>4. s[i] = <<>> \/ s[i] = <<e>>
    OBVIOUS
  <2> HIDE DEF e, s, start
  <2>5. QED
    BY <2>2, <2>3, <2>4
<1> HIDE DEF start, n, Of
<1>4. s \in [1 .. n -> Seq(Metrics(x))]
  <2>1. ASSUME NEW i \in 1 .. n PROVE s[i] \in Seq(Metrics(x))
    <3> HIDE DEF s
    <3>1. CASE s[i] = <<>>
      BY <3>1
    <3>2. ASSUME NEW e \in Metrics(x), s[i] = <<e>> PROVE s[i] \in Seq(Metrics(x))
      BY <3>2
    <3>3. QED
      BY <1>3, <3>1, <3>2
  <2>2. QED
    BY <2>1
<1> HIDE DEF s
<1>5. FlattenSeq(s) \in Seq(Metrics(x)) /\ Ordered(Len(FlattenSeq(s)), FlattenSeq(s), start, start + n - 1)
  BY <1>1, <1>3, <1>4, FlattenByDay
<1>6. QED
  BY <1>1, <1>2, <1>5 DEF start

LEMMA DailyFits ==
    ASSUME NEW x, IsRange(x.range)
    PROVE  /\ DailyMetrics(x) \in Seq(Metrics(x))
           /\ Days(Len(DailyMetrics(x)), DailyMetrics(x), x.range.start, x.range.end)
           /\ Ordered(Len(DailyMetrics(x)), DailyMetrics(x), x.range.start, x.range.end)
<1> DEFINE start == x.range.start
           n == x.range.end - x.range.start + 1
<1>1. start \in Int /\ n \in Nat /\ n # 0 /\ start + n - 1 = x.range.end /\ start <= x.range.end
  BY DEF IsRange, Day
<1>2. DailyMetrics(x) = [i \in 1 .. n |-> Metric(x, start + i - 1)]
  BY DEF DailyMetrics
<1>3. ASSUME NEW i \in 1 .. n
      PROVE  Metric(x, start + i - 1) \in Metrics(x) /\ Metric(x, start + i - 1).date = start + i - 1
  <2>1. start + i - 1 \in x.range.start .. x.range.end
    BY <1>1
  <2>2. QED
    BY <2>1 DEF Metrics, Metric
<1> HIDE DEF start, n
<1>4. DailyMetrics(x) \in [1 .. n -> Metrics(x)]
  BY <1>2, <1>3
<1>5. DailyMetrics(x) \in Seq(Metrics(x)) /\ Len(DailyMetrics(x)) = n
  BY <1>1, <1>4
<1>6. \A i \in 1 .. n : DailyMetrics(x)[i].date = start + i - 1
  BY <1>2, <1>3
<1>7. Days(n, DailyMetrics(x), start, x.range.end)
  BY <1>1, <1>6 DEF Days
<1>8. Ordered(n, DailyMetrics(x), start, x.range.end)
  BY <1>1, <1>6 DEF Ordered
<1>9. QED
  BY <1>5, <1>7, <1>8 DEF start

(* A reversed list has its days in descending order.                       *)
LEMMA Reversed ==
    ASSUME NEW T, NEW f \in Seq(T), NEW a \in Int, NEW b \in Int, Ordered(Len(f), f, a, b)
    PROVE  /\ Reverse(f) \in Seq(T)
           /\ \A i \in DOMAIN Reverse(f) : Reverse(f)[i].date \in a .. b
           /\ \A i, j \in DOMAIN Reverse(f) : i < j => Reverse(f)[i].date > Reverse(f)[j].date
<1> DEFINE F == Len(f)
           g == [i \in 1 .. F |-> f[F - i + 1]]
<1>1. F \in Nat /\ \A i \in 1 .. F : F - i + 1 \in 1 .. F /\ f[F - i + 1] \in T
  OBVIOUS
<1>2. Reverse(f) = g
  BY DEF Reverse
<1>3. g \in Seq(T) /\ DOMAIN g = 1 .. F /\ \A i \in 1 .. F : g[i] = f[F - i + 1]
  BY <1>1
<1> HIDE DEF g, F
<1>4. ASSUME NEW i \in 1 .. F PROVE g[i].date \in a .. b
  BY <1>1, <1>3 DEF Ordered, F
<1>5. ASSUME NEW i \in 1 .. F, NEW j \in 1 .. F, i < j PROVE g[i].date > g[j].date
  <2>1. PICK p, q \in 1 .. F : p = F - j + 1 /\ q = F - i + 1
    BY <1>1
  <2>2. p < q
    BY <1>1, <1>5, <2>1
  <2>3. f[p].date < f[q].date
    BY <2>2 DEF Ordered, F
  <2>4. f[p].date \in a .. b /\ f[q].date \in a .. b
    BY DEF Ordered, F
  <2>5. g[i] = f[q] /\ g[j] = f[p]
    BY <1>3, <2>1
  <2>6. PICK v, w : v = f[p].date /\ w = f[q].date
    OBVIOUS
  <2>7. v \in Int /\ w \in Int /\ v < w
    BY <2>3, <2>4, <2>6
  <2>8. w > v
    BY <2>7
  <2>9. QED
    BY <2>5, <2>6, <2>8
<1>6. QED
  BY <1>2, <1>3, <1>4, <1>5

LEMMA LegacyClipped ==
    ASSUME NEW q, q.path \in LegacyPath, NEW m, IsManifest(m), IsRange(RequestRange(q, m))
    PROVE  m.earliest <= RequestRange(q, m).start /\ RequestRange(q, m).end <= m.latest
<1> DEFINE range == RequestRange(q, m)
<1>1. m.earliest \in Int /\ m.latest \in Int
  BY DEF IsManifest, Day
<1>2. q.path[1] \in {"latest", "earliest", "paginated"} /\ q.path \notin V2Path
  BY DEF LegacyPath, V2Path
<1>3. range = LegacyRange(q, m) /\ range # BadRange /\ range # NoRange
  BY <1>2, ApiAssumption, CalendarAssumption DEF RequestRange, IsRange, BadRange, NoRange
<1>4. CASE q.path[1] = "latest"
  <2>1. range = ResolveRange(m.latest, m.latest)
    BY <1>3, <1>4 DEF LegacyRange
  <2>2. range.start = m.latest /\ range.end = m.latest
    BY <1>3, <2>1 DEF ResolveRange
  <2>3. QED
    BY <1>1, <2>2 DEF IsManifest
<1>5. CASE q.path[1] = "earliest"
  <2>1. range = ResolveRange(m.earliest, m.earliest)
    BY <1>3, <1>5 DEF LegacyRange
  <2>2. range.start = m.earliest /\ range.end = m.earliest
    BY <1>3, <2>1 DEF ResolveRange
  <2>3. QED
    BY <1>1, <2>2 DEF IsManifest
<1>6. CASE q.path[1] = "paginated"
  <2> DEFINE asked == ResolveRange(Field(q.wg, <<"startDate", "start">>, m.earliest),
                                   Field(q.wg, <<"endDate", "end">>, m.latest))
  <2>1. range = IF asked = BadRange THEN BadRange ELSE Clip(asked, m)
    BY <1>3, <1>6 DEF LegacyRange
  <2>2. asked # BadRange /\ range = Clip(asked, m)
    BY <1>3, <2>1
  <2>3. asked.start \in Day /\ asked.end \in Day
    BY <2>2 DEF ResolveRange
  <2> HIDE DEF asked
  <2>4. range = [start |-> LaterOf(asked.start, m.earliest), end |-> EarlierOf(asked.end, m.latest)]
    BY <1>3, <2>2 DEF Clip
  <2>5. QED
    BY <1>1, <2>3, <2>4 DEF LaterOf, EarlierOf, Day
<1>7. QED
  BY <1>2, <1>4, <1>5, <1>6

(* What the lists of an exchange have in common.                           *)
LEMMA ListsFit ==
    ASSUME NEW x, Reading(x)
    PROVE  /\ x.range.start \in Int /\ x.range.end \in Int /\ x.range.start <= x.range.end
           /\ IsRecordList(x.request) =>
                 /\ RecordList(x) \in Seq(x.rows[Subject(x.request)])
                 /\ Ordered(Len(RecordList(x)), RecordList(x), x.range.start, x.range.end)
           /\ \A f \in {DailyMetrics(x), CompleteMetrics(x)} :
                 f \in Seq(Metrics(x)) /\ Ordered(Len(f), f, x.range.start, x.range.end)
<1>1. IsRange(x.range)
  BY DEF Reading
<1>2. ASSUME IsRecordList(x.request)
      PROVE  /\ RecordList(x) \in Seq(x.rows[Subject(x.request)])
             /\ Ordered(Len(RecordList(x)), RecordList(x), x.range.start, x.range.end)
  <2>1. Subject(x.request) \in Kind
    BY <1>2 DEF Reading, Routed
  <2>2. \A a, b \in x.rows[Subject(x.request)] : a.date = b.date => a = b
    BY <2>1 DEF Reading, RowsFit
  <2>3. QED
    BY <1>1, <2>2, RecordListFits
<1>3. QED
  BY <1>1, <1>2, CompleteFits, DailyFits DEF IsRange, Day

(* The metric of a first or last day for which there is none.              *)
NoMetric(x) == Metric([x EXCEPT !.rows["metrics"] = {}], x.range.start)

LEMMA NoMetricMatches ==
    ASSUME NEW x, Reading(x)
    PROVE  /\ NoMetric(x).date = x.range.start
           /\ \A r \in NoMetric(x).records : r[2] = NoMetric(x).block
<1> DEFINE y == [x EXCEPT !.rows["metrics"] = {}]
<1>1. "rows" \in DOMAIN x
  BY DEF Reading
<1>2. "metrics" \in DOMAIN x.rows
  BY ArtifactsAssumption DEF Reading
<1>3. y.rows = [x.rows EXCEPT !["metrics"] = {}]
  BY <1>1
<1>4. y.rows["metrics"] = {}
  BY <1>2, <1>3
<1> HIDE DEF y
<1>5. Metric(y, x.range.start).date = x.range.start
      /\ \A r \in Metric(y, x.range.start).records : r[2] = Metric(y, x.range.start).block
  BY <1>4, MetricMatches
<1>6. QED
  BY <1>5 DEF NoMetric, y

(* The cases of Data.                                                      *)
OneMetric(x, data) ==
    \/ \E f \in {DailyMetrics(x), CompleteMetrics(x)} : f # <<>> /\ data = <<Head(f)>>
    \/ data = <<NoMetric(x)>>

LEMMA DataCases ==
    ASSUME NEW x, Reading(x)
    PROVE  /\ x.request.path \in V2Path =>
                 Data(x) = IF IsRecordList(x.request) THEN RecordList(x) ELSE DailyMetrics(x)
           /\ x.request.path \notin V2Path =>
                 IF IsRecordList(x.request) THEN Data(x) = Reverse(RecordList(x))
                 ELSE \/ OneMetric(x, Data(x))
                      \/ \E f \in {DailyMetrics(x), CompleteMetrics(x)} : Data(x) = Reverse(f)
<1> DEFINE all == DailyMetrics(x)
           filtered == IF WantsComplete(x.request) THEN CompleteMetrics(x) ELSE all
<1>1. filtered \in {DailyMetrics(x), CompleteMetrics(x)}
  OBVIOUS
<1>2. x.request.path \in V2Path \cup LegacyPath
  BY DEF Reading, Routed
<1>3. x.request.path \in V2Path => x.request.path \notin LegacyPath
  BY DEF V2Path, LegacyPath
<1>single. x.request.path \in {<<"latest", "metrics">>, <<"earliest", "metrics">>}
          => x.request.path \notin V2Path /\ ~IsRecordList(x.request)
  BY DEF V2Path, IsRecordList, Subject
<1>4. CASE x.request.path \in V2Path
  <2>1. CASE IsRecordList(x.request)
    <3>1. Data(x) = RecordList(x)
      BY <1>3, <1>4, <2>1, <1>single DEF Data
    <3>2. QED
      BY <1>4, <2>1, <3>1
  <2>2. CASE ~IsRecordList(x.request)
    <3>1. Data(x) = DailyMetrics(x)
      BY <1>3, <1>4, <2>2, <1>single DEF Data
    <3>2. QED
      BY <1>4, <2>2, <3>1
  <2>3. QED
    BY <2>1, <2>2
<1>5. CASE x.request.path \notin V2Path
  <2>1. CASE IsRecordList(x.request)
    <3>1. x.request.path \in LegacyPath
      BY <1>2, <1>5
    <3>2. Data(x) = Reverse(RecordList(x))
      BY <1>5, <2>1, <3>1, <1>single DEF Data
    <3>3. QED
      BY <1>5, <2>1, <3>2
  <2>2. CASE ~IsRecordList(x.request)
    <3>1. CASE x.request.path \in {<<"latest", "metrics">>, <<"earliest", "metrics">>}
      <4>1. Data(x) = IF filtered # <<>> THEN <<Head(filtered)>> ELSE <<NoMetric(x)>>
        BY <1>5, <2>2, <3>1 DEF Data, NoMetric
      <4> HIDE DEF filtered
      <4>2. QED
        BY <1>1, <1>5, <2>2, <4>1 DEF OneMetric
    <3>2. CASE x.request.path \notin {<<"latest", "metrics">>, <<"earliest", "metrics">>}
      <4>1. Data(x) = Reverse(filtered)
        BY <1>5, <2>2, <3>2 DEF Data
      <4> HIDE DEF filtered
      <4>2. QED
        BY <1>1, <1>5, <2>2, <4>1
    <3>3. QED
      BY <3>1, <3>2
  <2>3. QED
    BY <2>1, <2>2
<1>6. QED
  BY <1>4, <1>5

(* A single metric of the range.                                           *)
LEMMA OneMetricFits ==
    ASSUME NEW x, Reading(x), NEW data, OneMetric(x, data)
    PROVE  \E m : data = <<m>> /\ m \in Metrics(x) \cup {NoMetric(x)}
<1>1. CASE data = <<NoMetric(x)>>
  BY <1>1
<1>2. ASSUME NEW f \in {DailyMetrics(x), CompleteMetrics(x)}, f # <<>>, data = <<Head(f)>>
      PROVE  data = <<Head(f)>> /\ Head(f) \in Metrics(x)
  <2>1. f \in Seq(Metrics(x))
    BY ListsFit
  <2>2. QED
    BY <1>2, <2>1
<1>3. QED
  BY <1>1, <1>2 DEF OneMetric

(* The metrics of an answer carry records of their own block.              *)
LEMMA MatchingData ==
    ASSUME NEW x, Reading(x), ~IsRecordList(x.request)
    PROVE  \A i \in DOMAIN Data(x) :
              \A r \in Data(x)[i].records : r[2] = Data(x)[i].block
<1> DEFINE T == Metrics(x) \cup {NoMetric(x)}
<1>1. \A a, b \in x.rows["metrics"] : a.date = b.date => a = b
  BY ArtifactsAssumption DEF Reading, RowsFit
<1>2. \A m \in T : \A r \in m.records : r[2] = m.block
  BY <1>1, MetricMatches, NoMetricMatches DEF Metrics
<1>3. Data(x) \in Seq(T)
  <2>1. \A f \in {DailyMetrics(x), CompleteMetrics(x)} : f \in Seq(Metrics(x))
    BY ListsFit
  <2>2. CASE Data(x) = DailyMetrics(x)
    BY <2>1, <2>2
  <2>3. ASSUME NEW f \in {DailyMetrics(x), CompleteMetrics(x)}, Data(x) = Reverse(f)
        PROVE  Data(x) \in Seq(T)
    <3>1. f \in Seq(Metrics(x)) /\ Ordered(Len(f), f, x.range.start, x.range.end)
          /\ x.range.start \in Int /\ x.range.end \in Int
      BY ListsFit
    <3>2. Reverse(f) \in Seq(Metrics(x))
      BY <3>1, Reversed
    <3>3. QED
      BY <2>3, <3>2
  <2>4. CASE OneMetric(x, Data(x))
    BY <2>4, OneMetricFits
  <2>5. QED
    BY <2>2, <2>3, <2>4, DataCases
<1> HIDE DEF T
<1>4. \A i \in DOMAIN Data(x) : Data(x)[i] \in T
  BY <1>3
<1>5. QED
  BY <1>2, <1>4

(* A legacy answer is inside the announced dates, the last day first.      *)
LEMMA LegacyData ==
    ASSUME NEW x, Reading(x), x.request.path \in LegacyPath
    PROVE  /\ \A i \in DOMAIN Data(x) : Data(x)[i].date \in x.manifest.earliest .. x.manifest.latest
           /\ \A i, j \in DOMAIN Data(x) : i < j => Data(x)[i].date > Data(x)[j].date
<1> DEFINE a == x.range.start
           b == x.range.end
           data == Data(x)
<1>1. a \in Int /\ b \in Int /\ a <= b
  BY ListsFit
<1>2. x.manifest.earliest <= a /\ b <= x.manifest.latest
      /\ x.manifest.earliest \in Int /\ x.manifest.latest \in Int
  BY LegacyClipped DEF Reading, IsManifest, Day
<1>3. x.request.path \notin V2Path
  BY DEF LegacyPath, V2Path
<1>4. SUFFICES /\ \A i \in DOMAIN data : data[i].date \in a .. b
               /\ \A i, j \in DOMAIN data : i < j => data[i].date > data[j].date
  BY <1>1, <1>2
<1>5. ASSUME NEW T, NEW f \in Seq(T), Ordered(Len(f), f, a, b), data = Reverse(f)
      PROVE  /\ \A i \in DOMAIN data : data[i].date \in a .. b
             /\ \A i, j \in DOMAIN data : i < j => data[i].date > data[j].date
  BY <1>1, <1>5, Reversed
<1>6. CASE IsRecordList(x.request)
  <2>1. data = Reverse(RecordList(x))
    BY <1>3, <1>6, DataCases
  <2>2. RecordList(x) \in Seq(x.rows[Subject(x.request)]) /\ Ordered(Len(RecordList(x)), RecordList(x), a, b)
    BY <1>6, ListsFit
  <2> HIDE DEF data, a, b
  <2>3. QED
    BY <1>5, <2>1, <2>2
<1>7. ASSUME NEW f \in {DailyMetrics(x), CompleteMetrics(x)}, data = Reverse(f)
      PROVE  /\ \A i \in DOMAIN data : data[i].date \in a .. b
             /\ \A i, j \in DOMAIN data : i < j => data[i].date > data[j].date
  <2>1. f \in Seq(Metrics(x)) /\ Ordered(Len(f), f, a, b)
    BY ListsFit
  <2> HIDE DEF data, a, b
  <2>2. QED
    BY <1>5, <1>7, <2>1
<1>8. CASE OneMetric(x, data)
  <2>1. PICK m : data = <<m>> /\ m \in Metrics(x) \cup {NoMetric(x)}
    BY <1>8, OneMetricFits
  <2>2. \A d : Metric(x, d).date = d
    BY DEF Metric
  <2>3. m.date \in a .. b
    BY <1>1, <2>1, <2>2, NoMetricMatches DEF Metrics
  <2> HIDE DEF data, a, b
  <2>4. DOMAIN data = {1} /\ data[1] = m
    BY <2>1
  <2>5. QED
    BY <2>3, <2>4
<1>9. QED
  BY <1>3, <1>6, <1>7, <1>8, DataCases

(* An answer of the v2 endpoints has the days of its range: all of them,   *)
(* or those with records.                                                  *)
LEMMA V2Data ==
    ASSUME NEW x, Reading(x), x.request.path \in V2Path
    PROVE  /\ \E T : Data(x) \in Seq(T)
           /\ Ordered(Len(Data(x)), Data(x), x.range.start, x.range.end)
           /\ ~IsRecordList(x.request) => Days(Len(Data(x)), Data(x), x.range.start, x.range.end)
<1>1. CASE IsRecordList(x.request)
  BY <1>1, DataCases, ListsFit
<1>2. CASE ~IsRecordList(x.request)
  <2>1. Data(x) = DailyMetrics(x)
    BY <1>2, DataCases
  <2>2. QED
    BY <1>2, <2>1, ListsFit, DailyFits DEF Reading
<1>3. QED
  BY <1>1, <1>2

-----------------------------------------------------------------------------
(* Requests.                                                               *)

(* What the tests before the store is read let through.                    *)
LEMMA EarlyZero ==
    ASSUME NEW q
    PROVE  /\ Early(q) = 0 => q.path \in V2Path \cup LegacyPath \cup {BoundsPath}
           /\ (\A i \in 1 .. 10 : ~EarlyAnswers(q)[i].if) => Early(q) = 0
           /\ Early(q) \in 0 .. 10
<1> DEFINE s == EarlyAnswers(q)
           found == {i \in 1 .. Len(s) : s[i].if}
<1>1. Len(s) = 10
  BY DEF EarlyAnswers
<1>2. Early(q) = IF found = {} THEN 0 ELSE Min(found)
  BY DEF Early, SelectInSeq
<1>3. found # {} => Min(found) \in found
  <2>1. found \in SUBSET Nat
    BY <1>1
  <2> HIDE DEF found
  <2>2. ASSUME found # {} PROVE \E x \in found : \A y \in found : x <= y
    BY <2>1, <2>2, LeastOf
  <2>3. QED
    BY <2>2 DEF Min
<1>4. found \subseteq 1 .. 10
  BY <1>1
<1>5. ASSUME Early(q) = 0 PROVE q.path \in V2Path \cup LegacyPath \cup {BoundsPath}
  <2>1. found = {}
    BY <1>2, <1>3, <1>4, <1>5
  <2>2. ~s[7].if /\ ~s[8].if /\ ~s[9].if
    BY <1>1, <2>1
  <2>3. q.path \in KnownPath /\ q.path \notin StaticPath \cup {HealthPath} /\ q.path \notin AtBlockPath
    BY <2>2 DEF EarlyAnswers
  <2>4. QED
    BY <2>3 DEF KnownPath, CheckedPath, Operations
<1>6. ASSUME \A i \in 1 .. 10 : ~s[i].if PROVE Early(q) = 0
  <2>1. found = {}
    BY <1>1, <1>6
  <2>2. QED
    BY <1>2, <2>1
<1> HIDE DEF s, found
<1>7. Early(q) \in 0 .. 10
  <2>1. Early(q) = 0 \/ Early(q) \in found
    BY <1>2, <1>3
  <2>2. 0 \in 0 .. 10 /\ 1 .. 10 \subseteq 0 .. 10
    OBVIOUS
  <2>3. QED
    BY <1>4, <2>1, <2>2, Zenon
<1>8. QED
  BY <1>5, <1>6, <1>7 DEF s

(* A request that is let through, and an answer without rows.              *)
LEMMA ArrivedFits ==
    ASSUME NEW q, Early(q) = 0 /\ q.path # BoundsPath /\ IsRecordList(q) => Subject(q) \in Kind
    PROVE  ExchangeInv(Arrived(q))
<1> DEFINE x == [stage |-> "manifest", request |-> q]
<1>1. CASE Early(q) = 0
  <2>1. Arrived(q) = x
    BY <1>1 DEF Arrived
  <2>2. Routed(q)
    BY <1>1, EarlyZero DEF Routed
  <2>3. QED
    BY <2>1, <2>2 DEF ExchangeInv
<1>2. CASE Early(q) # 0
  <2> DEFINE answer == Error(EarlyAnswers(q)[Early(q)].status, EarlyAnswers(q)[Early(q)].code)
  <2>1. Arrived(q) = Answered(x, answer)
    BY <1>2 DEF Arrived
  <2> HIDE DEF answer
  <2>2. QED
    BY <2>1 DEF ExchangeInv, Answered, MadeFrom
<1>3. QED
  BY <1>1, <1>2

LEMMA NoRowsFit ==
    ASSUME NEW x, NEW answer, answer.status # 200 \/ x.stage # "reading"
    PROVE  ExchangeInv(Answered(x, answer))
  BY DEF ExchangeInv, Answered, MadeFrom

(* The exchange that has found its manifest and range.                     *)
Opened(x, m) ==
    [stage |-> "reading", request |-> x.request, manifest |-> m,
     range |-> RequestRange(x.request, m),
     left |-> [k \in Kind |-> IF k \in KindsRead(x.request)
                              THEN MonthKeys(RequestRange(x.request, m).start, RequestRange(x.request, m).end)
                              ELSE {}],
     rows |-> [k \in Kind |-> {}]]

LEMMA LocatedCases ==
    ASSUME NEW x
    PROVE  \/ manifest = None /\ Located(x) = Answered(x, Error(503, "manifest_not_published"))
           \/ /\ manifest # None /\ x.request.path = BoundsPath
              /\ Located(x) = Answered(x, Success(Bounds(manifest)))
           \/ /\ manifest # None /\ x.request.path # BoundsPath
              /\ RequestRange(x.request, manifest) = BadRange
              /\ Located(x) = Answered(x, Error(400, BadRangeCode(x.request)))
           \/ /\ manifest # None /\ x.request.path # BoundsPath
              /\ RequestRange(x.request, manifest) = NoRange
              /\ Located(x) = Answered(x, Success(<<>>))
           \/ /\ manifest # None /\ x.request.path # BoundsPath
              /\ RequestRange(x.request, manifest) \notin {BadRange, NoRange}
              /\ Located(x) = Opened(x, manifest)
<1>1. CASE manifest = None
  BY <1>1 DEF Located
<1>2. CASE manifest # None /\ x.request.path = BoundsPath
  BY <1>2 DEF Located
<1> DEFINE range == RequestRange(x.request, manifest)
<1>3. BadRange # NoRange
  BY CalendarAssumption, ApiAssumption DEF BadRange, NoRange
<1>4. CASE manifest # None /\ x.request.path # BoundsPath
  <2>1. CASE range = BadRange
    BY <1>3, <1>4, <2>1 DEF Located
  <2>2. CASE range = NoRange
    BY <1>3, <1>4, <2>2 DEF Located
  <2>3. CASE range \notin {BadRange, NoRange}
    BY <1>4, <2>3 DEF Located, Opened
  <2>4. QED
    BY <2>1, <2>2, <2>3, <1>4
<1>5. QED
  BY <1>1, <1>2, <1>4

LEMMA Resolved ==
    ASSUME NEW start, NEW end, ResolveRange(start, end) # BadRange
    PROVE  /\ ResolveRange(start, end) = [start |-> start, end |-> end]
           /\ start \in Day /\ end \in Day /\ start <= end
           /\ IsRange(ResolveRange(start, end))
<1>1. start \in Day /\ end \in Day /\ ~(end < start)
      /\ ResolveRange(start, end) = [start |-> start, end |-> end]
  BY DEF ResolveRange
<1>2. start <= end
  BY <1>1 DEF Day
<1>3. QED
  BY <1>1, <1>2 DEF IsRange

(* A range that is read is one.                                            *)
LEMMA RangeFits ==
    ASSUME NEW q, q.path \in V2Path \cup LegacyPath, NEW m, IsManifest(m),
           RequestRange(q, m) \notin {BadRange, NoRange}
    PROVE  IsRange(RequestRange(q, m))
<1>1. CASE q.path \in V2Path
  <2>1. RequestRange(q, m) = V2Range(q, m)
    BY <1>1 DEF RequestRange
  <2> DEFINE end == IF q.end = NoDate THEN m.latest ELSE q.end
  <2>2. RequestRange(q, m) = ResolveRange(q.start, end)
    BY <2>1 DEF V2Range
  <2> HIDE DEF end
  <2>3. QED
    BY <2>2, Resolved
<1>2. CASE q.path \notin V2Path
  <2>1. q.path[1] \in {"latest", "earliest", "paginated"}
    BY <1>2 DEF LegacyPath
  <2>2. RequestRange(q, m) = LegacyRange(q, m)
    BY <1>2 DEF RequestRange
  <2>3. CASE q.path[1] = "latest"
    <3>1. RequestRange(q, m) = ResolveRange(m.latest, m.latest)
      BY <2>2, <2>3 DEF LegacyRange
    <3>2. QED
      BY <3>1, Resolved
  <2>4. CASE q.path[1] = "earliest"
    <3>1. RequestRange(q, m) = ResolveRange(m.earliest, m.earliest)
      BY <2>2, <2>4 DEF LegacyRange
    <3>2. QED
      BY <3>1, Resolved
  <2>5. CASE q.path[1] = "paginated"
    <3> DEFINE first == Field(q.wg, <<"startDate", "start">>, m.earliest)
               last == Field(q.wg, <<"endDate", "end">>, m.latest)
               asked == ResolveRange(first, last)
    <3>1. RequestRange(q, m) = IF asked = BadRange THEN BadRange ELSE Clip(asked, m)
      BY <2>2, <2>5 DEF LegacyRange
    <3> HIDE DEF first, last
    <3>2. asked # BadRange /\ RequestRange(q, m) = Clip(asked, m)
      BY <3>1
    <3>3. asked.start \in Day /\ asked.end \in Day /\ asked.start <= asked.end
      BY <3>2, Resolved DEF IsRange
    <3> HIDE DEF asked
    <3>4. /\ ~(asked.end < m.earliest) /\ ~(asked.start > m.latest)
          /\ RequestRange(q, m) = [start |-> LaterOf(asked.start, m.earliest),
                                   end   |-> EarlierOf(asked.end, m.latest)]
      BY <3>2 DEF Clip
    <3> DEFINE s == LaterOf(asked.start, m.earliest)
               e == EarlierOf(asked.end, m.latest)
    <3>5. s \in Day /\ e \in Day /\ s <= e
      BY <3>3, <3>4 DEF LaterOf, EarlierOf, IsManifest, Day
    <3> HIDE DEF s, e
    <3>6. QED
      BY <3>4, <3>5 DEF IsRange, s, e
  <2>6. QED
    BY <2>1, <2>3, <2>4, <2>5
<1>3. QED
  BY <1>1, <1>2

LEMMA LocatedFits ==
    ASSUME NEW x, x.stage = "manifest", Routed(x.request), manifest # None => IsManifest(manifest)
    PROVE  ExchangeInv(Located(x))
<1>1. ASSUME manifest # None, x.request.path # BoundsPath,
             RequestRange(x.request, manifest) \notin {BadRange, NoRange}
      PROVE  ExchangeInv(Opened(x, manifest))
  <2> DEFINE y == Opened(x, manifest)
             range == RequestRange(x.request, manifest)
  <2>1. x.request.path \in V2Path \cup LegacyPath
    BY <1>1 DEF Routed
  <2>2. IsManifest(manifest) /\ IsRange(range)
    BY <1>1, <2>1, RangeFits
  <2>3. MonthKeys(range.start, range.end) \in SUBSET Month
    <3>1. MonthOf[range.start] \in Month /\ MonthOf[range.end] \in Month
      BY <2>2, CalendarAssumption DEF IsRange
    <3>2. QED
      BY <3>1, CalendarAssumption DEF MonthKeys, Month
  <2> HIDE DEF range
  <2>4. /\ y = [stage |-> "reading", request |-> x.request, manifest |-> manifest,
                range |-> range, left |-> y.left, rows |-> y.rows]
        /\ y.left = [k \in Kind |-> IF k \in KindsRead(x.request)
                                    THEN MonthKeys(range.start, range.end) ELSE {}]
        /\ y.rows = [k \in Kind |-> {}]
    BY DEF Opened, range
  <2> HIDE DEF y
  <2>5. y.left \in [Kind -> SUBSET Month]
    BY <2>3, <2>4
  <2>6. /\ y.stage = "reading" /\ y.request = x.request /\ y.manifest = manifest /\ y.range = range
    BY <2>4
  <2>7. DOMAIN y.rows = Kind /\ \A k \in Kind : RowsFit(y, k)
    BY <2>4 DEF RowsFit
  <2>8. Reading(y)
    BY <1>1, <2>2, <2>4, <2>5, <2>6, <2>7 DEF Reading, range
  <2>9. ExchangeInv(y)
    BY <2>6, <2>8 DEF ExchangeInv
  <2>10. QED
    BY <2>9 DEF y
<1>2. \A answer : ExchangeInv(Answered(x, answer))
  BY NoRowsFit
<1>3. QED
  BY <1>1, <1>2, LocatedCases

-----------------------------------------------------------------------------
(* A shard is read.                                                        *)

StoreFits == \A key \in DOMAIN bucket : key \in Keys /\ IsShard(key, bucket[key])

AfterRead(x, k, month) ==
    [x EXCEPT !.left[k] = @ \ {month},
              !.rows[k] = @ \cup MonthRows(x.manifest, k, month, x.range)]

LEMMA KeyOfMonth ==
    ASSUME NEW m, NEW k, NEW month
    PROVE  ArtifactKey(m, k, month)[3] = month
<1> DEFINE others == {key \in m.listed :
                          key[1] \in Deployment /\ key[2] = k /\ key[3] = month}
<1>1. others # {} => (CHOOSE key \in others : TRUE) \in others
  OBVIOUS
<1>2. QED
  BY <1>1 DEF ArtifactKey

LEMMA MonthRowsFit ==
    ASSUME StoreFits, NEW m, NEW k, NEW month, NEW range
    PROVE  /\ \A row \in MonthRows(m, k, month, range) :
                 /\ row.date \in range.start .. range.end /\ row.date \in Day
                 /\ MonthOf[row.date] = month /\ row.block \in Version
           /\ \A a, b \in MonthRows(m, k, month, range) : a.date = b.date => a = b
<1> DEFINE key == ArtifactKey(m, k, month)
           days == bucket[key].days \cap (range.start .. range.end)
<1>1. CASE key \notin DOMAIN bucket
  BY <1>1 DEF MonthRows
<1>2. CASE key \in DOMAIN bucket
  <2>1. bucket[key].days \subseteq MonthDays(month) /\ bucket[key].version \in Version
    BY <1>2, KeyOfMonth DEF StoreFits, IsShard
  <2>2. MonthRows(m, k, month, range) = {[date |-> d, block |-> bucket[key].version] : d \in days}
    BY <1>2 DEF MonthRows
  <2>3. \A d \in days : d \in Day /\ MonthOf[d] = month /\ d \in range.start .. range.end
    BY <2>1 DEF MonthDays
  <2> HIDE DEF days, key
  <2>4. QED
    BY <2>1, <2>2, <2>3
<1>3. QED
  BY <1>1, <1>2

LEMMA ReadParts ==
    ASSUME NEW x, Reading(x), NEW k \in Kind, NEW month
    PROVE  LET y == AfterRead(x, k, month)
           IN  /\ y = [stage |-> "reading", request |-> x.request, manifest |-> x.manifest,
                       range |-> x.range, left |-> y.left, rows |-> y.rows]
               /\ y.left = [x.left EXCEPT ![k] = @ \ {month}]
               /\ y.rows = [x.rows EXCEPT ![k] = @ \cup MonthRows(x.manifest, k, month, x.range)]
<1> DEFINE left == [x.left EXCEPT ![k] = @ \ {month}]
           rows == [x.rows EXCEPT ![k] = @ \cup MonthRows(x.manifest, k, month, x.range)]
           z == [x EXCEPT !.left[k] = @ \ {month}]
<1>1. x = [stage |-> "reading", request |-> x.request, manifest |-> x.manifest,
           range |-> x.range, left |-> x.left, rows |-> x.rows]
  BY DEF Reading
<1>2. z = [stage |-> "reading", request |-> x.request, manifest |-> x.manifest,
           range |-> x.range, left |-> left, rows |-> x.rows]
  BY <1>1
<1>3. AfterRead(x, k, month) = [z EXCEPT !.rows = rows]
  BY <1>1, <1>2 DEF AfterRead
<1> HIDE DEF left, rows, z
<1>4. AfterRead(x, k, month) =
         [stage |-> "reading", request |-> x.request, manifest |-> x.manifest,
          range |-> x.range, left |-> left, rows |-> rows]
  BY <1>2, <1>3
<1>5. QED
  BY <1>4 DEF left, rows

LEMMA ReadKeeps ==
    ASSUME NEW x, Reading(x), NEW k \in Kind, NEW month
    PROVE  /\ AfterRead(x, k, month).stage = "reading"
           /\ AfterRead(x, k, month).request = x.request
           /\ AfterRead(x, k, month).manifest = x.manifest
           /\ AfterRead(x, k, month).range = x.range
<1> DEFINE y == AfterRead(x, k, month)
<1>1. y = [stage |-> "reading", request |-> x.request, manifest |-> x.manifest,
           range |-> x.range, left |-> y.left, rows |-> y.rows]
  BY ReadParts
<1> HIDE DEF y
<1>2. /\ y.stage = "reading" /\ y.request = x.request
      /\ y.manifest = x.manifest /\ y.range = x.range
  BY <1>1
<1>3. QED
  BY <1>2 DEF y

LEMMA ReadFits ==
    ASSUME StoreFits, NEW x, Reading(x), NEW k \in Kind, NEW month \in x.left[k]
    PROVE  Reading(AfterRead(x, k, month))
<1> DEFINE y == AfterRead(x, k, month)
           new == MonthRows(x.manifest, k, month, x.range)
<1>1. /\ y = [stage |-> "reading", request |-> x.request, manifest |-> x.manifest,
              range |-> x.range, left |-> y.left, rows |-> y.rows]
      /\ y.left = [x.left EXCEPT ![k] = @ \ {month}]
      /\ y.rows = [x.rows EXCEPT ![k] = @ \cup new]
  BY ReadParts
<1> HIDE DEF y
<1>2. y.request = x.request /\ y.manifest = x.manifest /\ y.range = x.range
  BY <1>1
<1>3. x.left \in [Kind -> SUBSET Month] /\ DOMAIN x.rows = Kind
  BY DEF Reading
<1>4. y.left \in [Kind -> SUBSET Month] /\ DOMAIN y.rows = Kind
  BY <1>1, <1>3
<1>5. ASSUME NEW j \in Kind PROVE RowsFit(y, j)
  <2>1. RowsFit(x, j)
    BY DEF Reading
  <2>2. CASE j # k
    <3>1. y.rows[j] = x.rows[j] /\ y.left[j] = x.left[j]
      BY <1>1, <1>3, <2>2
    <3>2. QED
      BY <1>2, <2>1, <3>1 DEF RowsFit
  <2>3. CASE j = k
    <3>1. y.rows[k] = x.rows[k] \cup new /\ y.left[k] = x.left[k] \ {month}
      BY <1>1, <1>3
    <3>2. /\ \A row \in new : /\ row.date \in x.range.start .. x.range.end
                              /\ MonthOf[row.date] = month /\ row.block \in Version
          /\ \A a, b \in new : a.date = b.date => a = b
      BY MonthRowsFit
    <3> HIDE DEF new
    <3>3. \A row \in x.rows[k] : MonthOf[row.date] # month
      BY <2>1, <2>3 DEF RowsFit
    <3>4. ASSUME NEW row \in y.rows[k]
          PROVE  /\ row.date \in y.range.start .. y.range.end
                 /\ MonthOf[row.date] \notin y.left[k]
                 /\ row.block \in Version
      BY <1>2, <2>1, <2>3, <3>1, <3>2 DEF RowsFit
    <3>5. ASSUME NEW a \in y.rows[k], NEW b \in y.rows[k], a.date = b.date PROVE a = b
      <4>1. CASE a \in new /\ b \in new
        BY <3>2, <3>5, <4>1
      <4>2. CASE a \in x.rows[k] /\ b \in x.rows[k]
        BY <2>1, <2>3, <3>5, <4>2 DEF RowsFit
      <4>3. QED
        BY <3>1, <3>2, <3>3, <3>5, <4>1, <4>2
    <3>6. QED
      BY <2>3, <3>4, <3>5 DEF RowsFit
  <2>4. QED
    BY <2>2, <2>3
<1>6. Reading(y)
  BY <1>1, <1>2, <1>4, <1>5 DEF Reading
<1>7. QED
  BY <1>6 DEF y

-----------------------------------------------------------------------------
(* The store and the exchanges.                                            *)

LEMMA DaysInMonths ==
    ASSUME NEW start \in Day, NEW end \in Day, NEW d \in start .. end
    PROVE  d \in Day /\ MonthOf[d] \in MonthKeys(start, end)
<1>1. d \in Day /\ start <= d /\ d <= end
  BY CalendarAssumption DEF Day
<1>2. MonthOf[start] \in Month /\ MonthOf[end] \in Month /\ MonthOf[d] \in Month
  BY <1>1, CalendarAssumption
<1>3. ASSUME NEW a \in Day, NEW b \in Day, a <= b PROVE MonthOf[a] <= MonthOf[b]
  <2>1. MonthOf[a] \in Month /\ MonthStart[MonthOf[a]] \in Day
    BY CalendarAssumption
  <2>2. MonthOf[a] <= MonthOf[a]
    BY <2>1, CalendarAssumption DEF Month
  <2>3. MonthStart[MonthOf[a]] <= a
    BY <2>1, <2>2, CalendarAssumption
  <2>4. MonthStart[MonthOf[a]] <= b
    BY <1>3, <2>1, <2>3, CalendarAssumption DEF Day
  <2>5. QED
    BY <2>1, <2>4, CalendarAssumption
<1>4. MonthOf[start] <= MonthOf[d] /\ MonthOf[d] <= MonthOf[end]
  BY <1>1, <1>3
<1>5. QED
  BY <1>1, <1>2, <1>4, CalendarAssumption DEF MonthKeys, Month

LEMMA AnnouncedListed ==
    ASSUME NEW m, IsManifest(m), NEW d \in m.earliest .. m.latest
    PROVE  d \in Day /\ <<m.deployment, "metrics", MonthOf[d]>> \in m.listed
<1>1. d \in Day /\ MonthOf[d] \in MonthKeys(m.earliest, m.latest)
  BY DaysInMonths DEF IsManifest
<1>2. QED
  BY <1>1, ArtifactsAssumption DEF IsManifest, KeysOf

LEMMA StoreKeepsInv ==
    ASSUME ArtifactsInv, (\E k \in OwnedKeys : StoreShard(k) \/ RemoveShard(k)) \/ Announce \/ GiveUp
    PROVE  ArtifactsInv'
<1>1. ASSUME NEW k \in OwnedKeys, StoreShard(k) PROVE ArtifactsInv'
  <2>1. \A key \in DOMAIN bucket' : key \in Keys /\ IsShard(key, bucket'[key])
    BY <1>1 DEF ArtifactsInv, StoreShard, OwnedKeys, Keys, Prefix
  <2>2. Consistent(bucket, manifest)' /\ manifest' = manifest /\ reliable' = reliable
    BY <1>1 DEF StoreShard, Consistent, ServedIn
  <2>3. QED
    BY <2>1, <2>2 DEF ArtifactsInv
<1>2. ASSUME NEW k \in OwnedKeys, RemoveShard(k) PROVE ArtifactsInv'
  <2>1. /\ DOMAIN bucket' = DOMAIN bucket \ {k} /\ ListedIn(bucket', manifest)
        /\ \A other \in DOMAIN bucket' : bucket'[other] = bucket[other]
        /\ manifest' = manifest /\ reliable' = reliable
    BY <1>2 DEF RemoveShard
  <2>2. \A key \in DOMAIN bucket' : key \in Keys /\ IsShard(key, bucket'[key])
    BY <2>1 DEF ArtifactsInv
  <2>3. ASSUME reliable PROVE ServedIn(bucket', manifest)
    <3>1. SUFFICES ASSUME manifest # None, NEW d \in manifest.earliest .. manifest.latest
          PROVE  LET key == <<manifest.deployment, "metrics", MonthOf[d]>>
                 IN  key \in DOMAIN bucket' /\ d \in bucket'[key].days
      BY DEF ServedIn
    <3> DEFINE key == <<manifest.deployment, "metrics", MonthOf[d]>>
    <3>2. key \in manifest.listed
      BY <3>1, AnnouncedListed DEF ArtifactsInv
    <3>3. key \in DOMAIN bucket'
      BY <2>1, <3>1, <3>2 DEF ListedIn
    <3>4. d \in bucket[key].days
      BY <2>3, <3>1 DEF ArtifactsInv, Consistent, ServedIn
    <3>5. QED
      BY <2>1, <3>3, <3>4
  <2>4. Consistent(bucket, manifest)'
    BY <2>1, <2>3 DEF Consistent
  <2>5. QED
    BY <2>1, <2>2, <2>4 DEF ArtifactsInv
<1>3. ASSUME Announce PROVE ArtifactsInv'
  BY <1>3 DEF ArtifactsInv, Announce, Consistent
<1>4. ASSUME GiveUp PROVE ArtifactsInv'
  BY <1>4 DEF ArtifactsInv, GiveUp, Consistent
<1>5. QED
  BY <1>1, <1>2, <1>3, <1>4

LEMMA CarryFits ==
    ASSUME ExchangesInv, NEW c \in Conn, NEW y, ExchangeInv(y), Carry(c, y), readFaults' \in Nat
    PROVE  ExchangesInv'
<1>1. exchange' = [exchange EXCEPT ![c] = y] /\ DOMAIN exchange = Conn
  BY DEF Carry, ExchangesInv
<1>2. exchange' = [d \in Conn |-> exchange'[d]]
  BY <1>1
<1>3. ASSUME NEW d \in Conn PROVE ExchangeInv(exchange'[d])
  BY <1>1 DEF ExchangesInv
<1>4. QED
  BY <1>2, <1>3 DEF ExchangesInv

LEMMA FreeFits == ExchangeInv(Free)
  BY DEF ExchangeInv, Free

LEMMA HangUpFits ==
    ASSUME ExchangesInv, NEW u, HangUp(u), readFaults' = readFaults
    PROVE  ExchangesInv'
<1>1. exchange' = [c \in Conn |-> IF c[1] = u THEN Free ELSE exchange[c]]
  BY DEF HangUp
<1>2. exchange' = [d \in Conn |-> exchange'[d]]
  BY <1>1
<1>3. ASSUME NEW d \in Conn PROVE ExchangeInv(exchange'[d])
  BY <1>1, FreeFits DEF ExchangesInv
<1>4. QED
  BY <1>2, <1>3 DEF ExchangesInv

LEMMA Connections ==
    /\ BoundsConn \in Conn /\ DirectConn \in Conn
    /\ \A u \in User, i \in 1 .. MaxPages : <<u, i>> \in Conn
    /\ BoundsConn[1] \notin User /\ DirectConn[1] \notin User /\ BoundsConn # DirectConn
  BY ClientAssumption DEF BoundsConn, DirectConn

LEMMA BoundsArrives ==
    /\ ExchangeInv(Arrived(BoundsRequest))
    /\ BoundsRequest.path = BoundsPath
<1>1. BoundsRequest.path = BoundsPath
  BY DEF BoundsRequest, Get
<1>2. QED
  BY <1>1, ArrivedFits

(* The two outcomes of SplitPages.                                         *)
LastOf(u) == IF call[u].input.end = NoDate THEN boundsPromise.bounds.latest ELSE call[u].input.end
Cut(u)    == SplitRange(call[u].input.start, LastOf(u), boundsPromise.bounds.maxRange)

TurnedDown(u) ==
    /\ LastOf(u) < call[u].input.start
    /\ call' = [call EXCEPT ![u] = Failed(u)]
    /\ UNCHANGED exchange

PagesCall(u) ==
    [stage |-> "pages", before |-> call[u].before, published |-> call[u].published,
     subject |-> call[u].input.subject,
     range |-> [start |-> call[u].input.start, end |-> LastOf(u)],
     count |-> Len(Cut(u))]

AsksPages(u) ==
    /\ LastOf(u) >= call[u].input.start
    /\ Len(Cut(u)) <= MaxPages
    /\ call' = [call EXCEPT ![u] = PagesCall(u)]
    /\ exchange' = [c \in Conn |->
                       IF c[1] = u /\ c[2] <= Len(Cut(u))
                       THEN Arrived(Get(<<"v2", call[u].input.subject>>, Cut(u)[c[2]],
                                        call[u].input.records))
                       ELSE exchange[c]]

LEMMA SplitCases ==
    ASSUME NEW u, SplitPages(u)
    PROVE  /\ call[u].stage = "bounds" /\ boundsPromise.state = "value"
           /\ TurnedDown(u) \/ AsksPages(u)
           /\ UNCHANGED <<artifactVars, readFaults, boundsPromise, calls, drops, changes>>
  BY DEF SplitPages, TurnedDown, AsksPages, PagesCall, LastOf, Cut

LEMMA PageFits ==
    ASSUME NEW subject \in Kind, NEW page, NEW records
    PROVE  ExchangeInv(Arrived(Get(<<"v2", subject>>, page, records)))
<1> DEFINE q == Get(<<"v2", subject>>, page, records)
<1>1. q.path = <<"v2", subject>>
  BY DEF Get
<1> HIDE DEF q
<1>2. Subject(q) \in Kind
  BY <1>1 DEF Subject
<1>3. ExchangeInv(Arrived(q))
  BY <1>2, ArrivedFits
<1>4. QED
  BY <1>3 DEF q

(* Every step keeps the exchanges in order.                                *)
LEMMA ApiStep ==
    ASSUME ApiInv, [Next]_vars
    PROVE  ApiInv'
<1> USE DEF ApiInv
<1>1. StoreFits /\ readFaults \in Nat /\ ExchangeInv(Free)
  BY FreeFits DEF ArtifactsInv, StoreFits, ExchangesInv
<1>2. ASSUME UNCHANGED artifactVars PROVE ArtifactsInv'
  BY <1>2 DEF artifactVars, ArtifactsInv, Consistent, ListedIn, ServedIn
<1>3. ASSUME UNCHANGED apiVars PROVE ExchangesInv'
  BY <1>3 DEF apiVars, ExchangesInv
<1>4. ASSUME UNCHANGED call PROVE InputsInv'
  BY <1>4 DEF InputsInv
<1>5. ASSUME NEW u \in User, NEW v, call' = [call EXCEPT ![u] = v],
             v.stage = "bounds" => v.input \in Inputs
      PROVE  InputsInv'
  BY <1>5 DEF InputsInv
<1>6. ASSUME NEW u \in User PROVE Failed(u).stage # "bounds"
  BY DEF Failed
<1>7. ASSUME Rejected PROVE InputsInv'
  BY <1>6, <1>7 DEF InputsInv, Rejected
<1>8. ASSUME NEW c \in Conn, NEW y, ExchangeInv(y), Carry(c, y), readFaults' = readFaults
      PROVE  ExchangesInv'
  BY <1>1, <1>8, CarryFits
<1>10. ASSUME NEW u \in User, NEW input \in Inputs, BeginCall(u, input) PROVE ApiInv'
  <2>1. UNCHANGED artifactVars /\ UNCHANGED readFaults
    BY <1>10 DEF BeginCall
  <2>2. ExchangesInv'
    <3>1. CASE boundsPromise = NoPromise
      BY <1>8, <1>10, <2>1, <3>1, BoundsArrives, Connections DEF BeginCall
    <3>2. CASE boundsPromise # NoPromise
      BY <1>3, <1>10, <2>1, <3>2 DEF BeginCall, apiVars
    <3>3. QED
      BY <3>1, <3>2
  <2>3. InputsInv'
    BY <1>5, <1>10 DEF BeginCall
  <2>4. QED
    BY <1>2, <2>1, <2>2, <2>3
<1>11. ASSUME NEW q \in Requests, Send(q) PROVE ApiInv'
  <2>1. UNCHANGED artifactVars /\ UNCHANGED readFaults /\ UNCHANGED call
    BY <1>11 DEF Send
  <2>2. ExchangeInv(Arrived(q))
    BY EarlyZero, ArrivedFits, ClientAssumption
  <2>3. ExchangesInv'
    BY <1>8, <1>11, <2>1, <2>2, Connections DEF Send
  <2>4. QED
    BY <1>2, <1>4, <2>1, <2>3
<1>12. ASSUME BoundsArrive PROVE ApiInv'
  <2>1. UNCHANGED artifactVars /\ UNCHANGED readFaults /\ Carry(BoundsConn, Free)
    BY <1>12 DEF BoundsArrive
  <2>2. ExchangesInv'
    BY <1>1, <1>8, <2>1, Connections
  <2>3. InputsInv'
    BY <1>4, <1>7, <1>12 DEF BoundsArrive
  <2>4. QED
    BY <1>2, <2>1, <2>2, <2>3
<1>13. ASSUME NEW u \in User, SplitPages(u) PROVE ApiInv'
  <2>1. UNCHANGED artifactVars /\ UNCHANGED readFaults /\ call[u].stage = "bounds"
    BY <1>13, SplitCases
  <2>2. CASE TurnedDown(u)
    BY <1>2, <1>3, <1>5, <1>6, <2>1, <2>2 DEF apiVars, TurnedDown
  <2>3. CASE AsksPages(u)
    <3>1. call[u].input.subject \in Kind
      BY <2>1, ClientAssumption DEF InputsInv
    <3>2. ASSUME NEW c \in Conn PROVE ExchangeInv(exchange'[c])
      BY <2>3, <3>1, PageFits DEF ExchangesInv, AsksPages
    <3>3. exchange' = [c \in Conn |-> exchange'[c]]
      BY <2>3 DEF AsksPages
    <3>4. ExchangesInv'
      BY <1>1, <2>1, <3>2, <3>3 DEF ExchangesInv
    <3>5. PagesCall(u).stage # "bounds"
      BY DEF PagesCall
    <3>6. InputsInv'
      BY <1>5, <2>3, <3>5 DEF AsksPages
    <3>7. QED
      BY <1>2, <2>1, <3>4, <3>6
  <2>4. QED
    BY <1>13, <2>2, <2>3, SplitCases
<1>14. ASSUME NEW u \in User, JoinPages(u) PROVE ApiInv'
  <2>1. UNCHANGED artifactVars /\ UNCHANGED readFaults /\ HangUp(u)
    BY <1>14 DEF JoinPages
  <2>2. InputsInv'
    BY <1>5, <1>14 DEF JoinPages
  <2>3. QED
    BY <1>2, <2>1, <2>2, HangUpFits
<1>15. ASSUME NEW u \in User, PageRefused(u) PROVE ApiInv'
  <2>1. UNCHANGED artifactVars /\ UNCHANGED readFaults /\ HangUp(u)
    BY <1>15 DEF PageRefused
  <2>2. InputsInv'
    BY <1>5, <1>6, <1>15 DEF PageRefused
  <2>3. QED
    BY <1>2, <2>1, <2>2, HangUpFits
<1>16. ASSUME FetchFails PROVE ApiInv'
  <2>1. UNCHANGED artifactVars /\ UNCHANGED readFaults
    BY <1>16 DEF FetchFails
  <2>2. CASE Rejected /\ Carry(BoundsConn, Free)
    BY <1>1, <1>2, <1>7, <1>8, <2>1, <2>2, Connections
  <2>3. ASSUME NEW u \in User, call' = [call EXCEPT ![u] = Failed(u)], HangUp(u) PROVE ApiInv'
    BY <1>2, <1>5, <1>6, <2>1, <2>3, HangUpFits
  <2>4. QED
    BY <1>16, <2>2, <2>3 DEF FetchFails
<1>17. ASSUME Server PROVE ApiInv'
  <2>1. UNCHANGED artifactVars /\ UNCHANGED call
    BY <1>17 DEF Server, clientVars
  <2>2. SUFFICES ExchangesInv'
    BY <1>2, <1>4, <2>1
  <2>3. PICK c \in Conn : ServeStep(c) \/ ReadFails(c)
    BY <1>17 DEF Server
  <2> DEFINE x == exchange[c]
  <2>4. ExchangeInv(x)
    BY DEF ExchangesInv
  <2>5. CASE ReadManifest(c)
    <3>1. ExchangeInv(Located(x))
      BY <2>4, <2>5, LocatedFits DEF ReadManifest, ExchangeInv, ArtifactsInv
    <3>2. QED
      BY <1>8, <2>5, <3>1 DEF ReadManifest
  <2>6. ASSUME NEW k \in Kind, ReadShard(c, k) PROVE ExchangesInv'
    <3> DEFINE month == CHOOSE m \in x.left[k] : \A other \in x.left[k] : m <= other
    <3>1. Reading(x) /\ x.left[k] # {} /\ Carry(c, AfterRead(x, k, month)) /\ readFaults' = readFaults
      BY <2>4, <2>6 DEF ReadShard, ExchangeInv, MayRead, AfterRead
    <3>2. month \in x.left[k]
      <4>1. x.left[k] \in SUBSET Nat
        BY <3>1, CalendarAssumption DEF Reading, Month
      <4>2. \E m \in x.left[k] : \A other \in x.left[k] : m <= other
        BY <3>1, <4>1, LeastOf
      <4>3. QED
        BY <4>2
    <3> HIDE DEF month
    <3>3. Reading(AfterRead(x, k, month))
      BY <1>1, <3>1, <3>2, ReadFits
    <3>4. AfterRead(x, k, month).stage = "reading"
      BY <3>3 DEF Reading
    <3>5. ExchangeInv(AfterRead(x, k, month))
      BY <3>3, <3>4 DEF ExchangeInv
    <3>6. QED
      BY <1>8, <3>1, <3>5
  <2>7. CASE Respond(c)
    <3>1. Reading(x) /\ (\A k \in Kind : x.left[k] = {})
          /\ Carry(c, Answered(x, Success(Data(x)))) /\ readFaults' = readFaults
      BY <2>4, <2>7 DEF Respond, ExchangeInv
    <3>2. Success(Data(x)).data = Data(x)
      BY DEF Success
    <3> DEFINE answer == Success(Data(x))
    <3> HIDE DEF x, answer
    <3>3. ExchangeInv(Answered(x, answer))
      BY <3>1, <3>2 DEF ExchangeInv, Answered, MadeFrom, answer
    <3>4. QED
      BY <1>8, <3>1, <3>3 DEF answer
  <2>8. CASE ReadFails(c)
    <3>1. readFaults' \in Nat
      BY <1>1, <2>8 DEF ReadFails
    <3>2. \E answer : answer.status # 200 /\ Carry(c, Answered(x, answer))
      BY <2>8 DEF ReadFails, Error
    <3>3. QED
      BY <3>1, <3>2, NoRowsFit, CarryFits
  <2>9. QED
    BY <2>3, <2>5, <2>6, <2>7, <2>8 DEF ServeStep
<1>18. ASSUME Publishing PROVE ApiInv'
  <2>1. UNCHANGED apiVars /\ UNCHANGED call
    BY <1>18 DEF Publishing, Change
  <2>2. (\E k \in OwnedKeys : StoreShard(k) \/ RemoveShard(k)) \/ Announce \/ GiveUp
    BY <1>18 DEF Publishing, Change, Rewrite, CleanUp, NewManifest
  <2>3. QED
    BY <1>3, <1>4, <2>1, <2>2, StoreKeepsInv
<1>19. ASSUME UNCHANGED vars PROVE ApiInv'
  BY <1>2, <1>3, <1>4, <1>19 DEF vars, clientVars
<1>20. QED
  BY <1>10, <1>11, <1>12, <1>13, <1>14, <1>15, <1>16, <1>17, <1>18, <1>19 DEF Next, Client

LEMMA ApiInitial ==
    ASSUME Init
    PROVE  ApiInv
<1>1. ArtifactsInv
  BY DEF Init, ArtifactsInit, ArtifactsInv
<1>2. ExchangesInv
  BY FreeFits DEF Init, ApiInit, ExchangesInv
<1>3. InputsInv
  BY DEF Init, InputsInv
<1>4. QED
  BY <1>1, <1>2, <1>3 DEF ApiInv

(* What an exchange has read fits its request, its manifest and the days   *)
(* it still has to read, and an answer is made from all months of its      *)
(* range (readArtifactRows, readLegacyOperation and the v2 handlers).      *)
THEOREM ApiInvariant == Spec => []ApiInv
<1>1. Init => ApiInv
  BY ApiInitial
<1>2. ApiInv /\ [Next]_vars => ApiInv'
  BY ApiStep
<1>3. QED
  BY <1>1, <1>2, PTL DEF Spec

(* RecordsMatchMetrics: the records attached to a metric are of its own    *)
(* block, whatever a publisher rewrites between the reads of a request     *)
(* (isSelectedMetricBlock, attachMetricRecords).                           *)
THEOREM RecordsAlwaysMatch == Spec => []RecordsMatchMetrics
<1>1. ASSUME ApiInv PROVE RecordsMatchMetrics
  <2>1. SUFFICES ASSUME NEW c \in Conn, GoodAnswer(c), exchange[c].of.stage = "reading",
                        ~IsRecordList(exchange[c].of.request)
                 PROVE  \A i \in DOMAIN exchange[c].answer.data :
                           LET m == exchange[c].answer.data[i]
                           IN  \A r \in m.records : r[2] = m.block
    BY DEF RecordsMatchMetrics
  <2> DEFINE x == exchange[c]
  <2>2. Reading(x.of) /\ x.answer.data = Data(x.of)
    BY <1>1, <2>1 DEF ApiInv, ExchangesInv, ExchangeInv, GoodAnswer, HasAnswer, Refused, MadeFrom
  <2>3. QED
    BY <2>1, <2>2, MatchingData
<1>2. QED
  BY <1>1, ApiInvariant, PTL

(* LegacyInsideBounds: a legacy answer stays within the announced dates of *)
(* its manifest, its days in descending order (resolveLegacyRange,         *)
(* legacyRowsDescending).                                                  *)
THEOREM LegacyAlwaysInside == Spec => []LegacyInsideBounds
<1>1. ASSUME ApiInv PROVE LegacyInsideBounds
  <2>1. SUFFICES ASSUME NEW c \in Conn, GoodAnswer(c), exchange[c].of.stage = "reading",
                        exchange[c].of.request.path \in LegacyPath
                 PROVE  LET data == exchange[c].answer.data
                            m    == exchange[c].of.manifest
                        IN  /\ \A i \in DOMAIN data : data[i].date \in m.earliest .. m.latest
                            /\ \A i, j \in DOMAIN data : i < j => data[i].date > data[j].date
    BY DEF LegacyInsideBounds
  <2> DEFINE x == exchange[c]
  <2>2. Reading(x.of) /\ x.answer.data = Data(x.of)
    BY <1>1, <2>1 DEF ApiInv, ExchangesInv, ExchangeInv, GoodAnswer, HasAnswer, Refused, MadeFrom
  <2>3. QED
    BY <2>1, <2>2, LegacyData
<1>2. QED
  BY <1>1, ApiInvariant, PTL

-----------------------------------------------------------------------------
(* Pages.                                                                  *)

(* Pages follow each other from the first day to the last, none longer     *)
(* than the API accepts.                                                   *)
CutUp(pages, start, end) ==
    LET N == Len(pages)
    IN  /\ N \in Nat \ {0} /\ DOMAIN pages = 1 .. N
        /\ \A i \in 1 .. N :
              /\ pages[i] = [start |-> pages[i].start, end |-> pages[i].end]
              /\ pages[i].start \in Day /\ pages[i].end \in Day
              /\ pages[i].start <= pages[i].end
              /\ pages[i].end - pages[i].start + 1 <= MaxRange
              /\ start <= pages[i].start /\ pages[i].end <= end
        /\ pages[1].start = start /\ pages[N].end = end
        /\ \A i \in 2 .. N : pages[i].start = pages[i - 1].end + 1
        /\ \A i, j \in 1 .. N : i < j => pages[i].end < pages[j].start

LEMMA SplitCovers ==
    ASSUME NEW start \in Day, NEW end \in Day, start <= end
    PROVE  CutUp(SplitRange(start, end, MaxRange), start, end)
<1> DEFINE m == MaxRange
           N == (end - start) \div m + 1
           pages == SplitRange(start, end, MaxRange)
<1>1. m \in Nat \ {0} /\ start \in Nat /\ end \in Nat /\ end <= LastDay /\ LastDay \in Nat
  BY ApiAssumption, CalendarAssumption DEF Day
<1>2. N \in Nat \ {0} /\ (N - 1) * m <= end - start /\ end - start < N * m
  BY <1>1
<1>3. pages = [i \in 1 .. N |-> [start |-> start + (i - 1) * m, end |-> EarlierOf(end, start + i * m - 1)]]
  BY DEF SplitRange
<1> HIDE DEF N, pages, m
<1>4. Len(pages) = N /\ DOMAIN pages = 1 .. N
  BY <1>2, <1>3
<1>5. ASSUME NEW i \in 1 .. N
      PROVE  /\ pages[i] = [start |-> pages[i].start, end |-> pages[i].end]
             /\ pages[i].start = start + (i - 1) * m
             /\ pages[i].end = EarlierOf(end, start + i * m - 1)
  BY <1>3
<1>6. ASSUME NEW i \in 1 .. N
      PROVE  (i - 1) * m \in Nat /\ (i - 1) * m <= end - start /\ i * m = (i - 1) * m + m
  <2>1. i \in Nat /\ N - i \in Nat /\ i - 1 \in Nat
    BY <1>2
  <2>2. (i - 1) * m \in Nat /\ i * m = (i - 1) * m + m
    BY <1>1, <2>1
  <2>3. (N - i) * m \in Nat
    BY <1>1, <2>1
  <2>4. (N - 1) * m = (i - 1) * m + (N - i) * m
    BY <1>1, <1>2, <2>1
  <2>5. QED
    BY <1>1, <1>2, <2>2, <2>3, <2>4
<1>7. ASSUME NEW i \in 1 .. N
      PROVE  /\ pages[i].start \in Day /\ pages[i].end \in Day
             /\ pages[i].start <= pages[i].end
             /\ pages[i].end - pages[i].start + 1 <= m
             /\ start <= pages[i].start /\ pages[i].end <= end
  <2> DEFINE a == (i - 1) * m
  <2>1. a \in Nat /\ a <= end - start /\ pages[i].start = start + a
        /\ pages[i].end = EarlierOf(end, start + a + m - 1)
    <3>1. a \in Nat /\ a <= end - start /\ i * m = a + m
      BY <1>6
    <3>2. pages[i].start = start + a /\ pages[i].end = EarlierOf(end, start + i * m - 1)
      BY <1>5
    <3> DEFINE b == i * m
    <3>3. b = a + m /\ pages[i].end = EarlierOf(end, start + b - 1)
      BY <3>1, <3>2
    <3> HIDE DEF a, b
    <3>4. start + b - 1 = start + a + m - 1
      BY <1>1, <3>1, <3>3
    <3>5. QED
      BY <3>1, <3>2, <3>3, <3>4
  <2> HIDE DEF a
  <2>2. QED
    BY <1>1, <2>1 DEF EarlierOf, Day
<1>8. pages[1].start = start
  <2>1. 1 \in 1 .. N /\ (1 - 1) * m = 0
    BY <1>1, <1>2
  <2>2. pages[1].start = start + (1 - 1) * m
    BY <1>5, <2>1
  <2>3. QED
    BY <1>1, <2>1, <2>2
<1>9. pages[N].end = end
  <2> DEFINE b == N * m
  <2>1. N \in 1 .. N /\ b \in Int
    BY <1>1, <1>2
  <2>2. pages[N].end = EarlierOf(end, start + b - 1) /\ end - start < b
    BY <1>2, <1>5, <2>1
  <2> HIDE DEF b
  <2>3. end <= start + b - 1
    BY <1>1, <2>1, <2>2
  <2>4. QED
    BY <1>1, <2>1, <2>2, <2>3 DEF EarlierOf
<1>10. ASSUME NEW i \in 1 .. N, NEW j \in 1 .. N, i < j
       PROVE  /\ pages[i].end < pages[j].start
              /\ j = i + 1 => pages[j].start = pages[i].end + 1
  <2>1. j - 1 - i \in Nat /\ i \in Nat /\ j \in Nat
    BY <1>2, <1>10
  <2>2. (j - 1 - i) * m \in Nat
    BY <1>1, <2>1
  <2>3. (j - 1) * m = i * m + (j - 1 - i) * m
    BY <1>1, <2>1
  <2>4. (j - 1) * m <= end - start
    BY <1>6
  <2> DEFINE b == i * m
             c == (j - 1 - i) * m
  <2>5. b \in Int /\ c \in Nat /\ b + c <= end - start
        /\ pages[i].end = EarlierOf(end, start + b - 1) /\ pages[j].start = start + (b + c)
    <3>1. b \in Int /\ c \in Nat /\ b + c <= end - start /\ (j - 1) * m = b + c
      BY <1>1, <2>1, <2>2, <2>3, <2>4
    <3>2. pages[i].end = EarlierOf(end, start + b - 1) /\ pages[j].start = start + (j - 1) * m
      BY <1>5
    <3> HIDE DEF b, c
    <3>3. QED
      BY <3>1, <3>2
  <2>6. j = i + 1 => c = 0
    BY <1>1, <2>1
  <2> HIDE DEF b, c
  <2>7. QED
    BY <1>1, <2>5, <2>6 DEF EarlierOf
<1>11. \A i \in 2 .. N : pages[i].start = pages[i - 1].end + 1
  <2>1. ASSUME NEW i \in 2 .. N PROVE pages[i].start = pages[i - 1].end + 1
    <3>1. i - 1 \in 1 .. N /\ i \in 1 .. N /\ i - 1 < i /\ i = i - 1 + 1
      BY <1>2
    <3>2. QED
      BY <1>10, <3>1
  <2>2. QED
    BY <2>1
<1>12. CutUp(pages, start, end)
  BY <1>2, <1>4, <1>5, <1>7, <1>8, <1>9, <1>10, <1>11 DEF CutUp, m
<1>13. QED
  BY <1>12 DEF pages

(* The API lets the request of a page through.                             *)
LEMMA PageArrives ==
    ASSUME NEW subject \in {"metrics", "assets", "supply"}, NEW page, NEW records,
           records => subject = "metrics"
    PROVE  LET q == Get(<<"v2", subject>>, page, records)
           IN  /\ Arrived(q) = [stage |-> "manifest", request |-> q]
               /\ PageRequest(q, subject, page)
<1> DEFINE path == <<"v2", subject>>
           q == Get(path, page, records)
           params == <<"start", "end">> \o (IF records THEN <<"includeRecords">> ELSE <<>>)
<1>1. /\ q.method = "GET" /\ q.body = FALSE /\ q.validUrl = TRUE /\ q.path = path
      /\ q.params = params /\ q.start = page.start /\ q.end = page.end
  BY DEF Get
<1>2. (params = <<"start", "end", "includeRecords">> /\ records) \/ params = <<"start", "end">>
  <2>1. CASE records
    <3>1. <<"start", "end">> \o <<"includeRecords">> = <<"start", "end", "includeRecords">>
      <4> DEFINE f == <<"start", "end">>
                 h == <<"includeRecords">>
                 k == f \o h
                 T == {"start", "end", "includeRecords"}
      <4>1. f \in Seq(T) /\ h \in Seq(T) /\ Len(f) = 2 /\ Len(h) = 1
        OBVIOUS
      <4>2. k \in Seq(T) /\ Len(k) = 3
        BY <4>1
      <4>3. k[1] = f[1] /\ k[2] = f[2] /\ k[3] = h[1]
        BY <4>1
      <4>4. f[1] = "start" /\ f[2] = "end" /\ h[1] = "includeRecords"
        OBVIOUS
      <4> HIDE DEF f, h, k
      <4>5. k = <<"start", "end", "includeRecords">>
        BY <4>2, <4>3, <4>4
      <4>6. QED
        BY <4>5 DEF f, h, k
    <3>2. QED
      BY <2>1, <3>1, Zenon
  <2>2. CASE ~records
    <3>1. <<"start", "end">> \o <<>> = <<"start", "end">>
      OBVIOUS
    <3>2. QED
      BY <2>2, <3>1, Zenon
  <2>3. QED
    BY <2>1, <2>2
<1>3. path \in V2Path /\ path \notin StaticPath \cup {HealthPath} /\ path \notin AtBlockPath
      /\ path \notin LegacyPath /\ path \notin Operations /\ path # BoundsPath
  BY DEF V2Path, StaticPath, HealthPath, AtBlockPath, LegacyPath, Operations, UnknownOperation,
         BoundsPath
<1>4. path \in KnownPath
  BY <1>3 DEF KnownPath, CheckedPath, V2Path, UnknownOperation
<1>5. {"start", "end"} \subseteq SupportedParams(path)
      /\ (subject = "metrics" => "includeRecords" \in SupportedParams(path))
  <2>1. CASE subject = "metrics"
    <3>1. SupportedParams(path) = {"start", "end", "includeRecords"}
      BY <1>3, <2>1 DEF SupportedParams
    <3>2. QED
      BY <3>1
  <2>2. CASE subject # "metrics"
    <3>1. SupportedParams(path) = {"start", "end"}
      BY <1>3, <2>2 DEF SupportedParams
    <3>2. QED
      BY <2>2, <3>1
  <2>3. QED
    BY <2>1, <2>2
<1> HIDE DEF q, params, path
<1>6. ToSet(params) \subseteq SupportedParams(path) /\ IsInjective(params)
  <2>1. CASE params = <<"start", "end">>
    BY <1>5, <2>1 DEF ToSet, IsInjective
  <2>2. CASE params = <<"start", "end", "includeRecords">> /\ records
    BY <1>5, <2>2 DEF ToSet, IsInjective
  <2>3. QED
    BY <1>2, <2>1, <2>2
<1>7. ~UnsupportedParam(q) /\ ~DuplicateParam(q)
  BY <1>1, <1>6 DEF UnsupportedParam, DuplicateParam
<1>8. /\ ~EarlyAnswers(q)[1].if /\ ~EarlyAnswers(q)[2].if /\ ~EarlyAnswers(q)[3].if
      /\ ~EarlyAnswers(q)[4].if /\ ~EarlyAnswers(q)[5].if /\ ~EarlyAnswers(q)[6].if
      /\ ~EarlyAnswers(q)[7].if /\ ~EarlyAnswers(q)[8].if /\ ~EarlyAnswers(q)[9].if
      /\ ~EarlyAnswers(q)[10].if
  BY <1>1, <1>3, <1>4, <1>7 DEF EarlyAnswers
<1>9. \A i \in 1 .. 10 : ~EarlyAnswers(q)[i].if
  <2>1. \A i \in 1 .. 10 : i \in {1, 2, 3, 4, 5, 6, 7, 8, 9, 10}
    OBVIOUS
  <2>2. QED
    BY <1>8, <2>1
<1>10. Early(q) = 0
  BY <1>9, EarlyZero
<1>11. Arrived(q) = [stage |-> "manifest", request |-> q] /\ PageRequest(q, subject, page)
  BY <1>1, <1>10 DEF Arrived, PageRequest, path
<1>12. QED
  BY <1>11 DEF q, path

(* The API reads a page as it was asked for.                               *)
LEMMA PageLocated ==
    ASSUME NEW x, NEW subject \in {"metrics", "assets", "supply"}, NEW page,
           PageRequest(x.request, subject, page), manifest # None,
           page = [start |-> page.start, end |-> page.end],
           page.start \in Day, page.end \in Day, page.start <= page.end,
           page.end - page.start + 1 <= MaxRange
    PROVE  /\ \A m : RequestRange(x.request, m) = page
           /\ Located(x) = Opened(x, manifest)
<1>1. x.request.path \in V2Path /\ x.request.path # BoundsPath
  BY DEF PageRequest, V2Path, BoundsPath
<1>2. ASSUME NEW m PROVE RequestRange(x.request, m) = page
  <2>1. RequestRange(x.request, m) = V2Range(x.request, m)
    BY <1>1 DEF RequestRange
  <2>2. V2Range(x.request, m) = ResolveRange(page.start, page.end)
    BY CalendarAssumption DEF V2Range, PageRequest
  <2>3. ~(page.end < page.start) /\ ~(page.end - page.start + 1 > MaxRange)
    BY ApiAssumption DEF Day
  <2>4. QED
    BY <2>1, <2>2, <2>3 DEF ResolveRange
<1>3. page # BadRange /\ page # NoRange
  BY CalendarAssumption, ApiAssumption DEF BadRange, NoRange
<1>4. QED
  BY <1>1, <1>2, <1>3, LocatedCases

-----------------------------------------------------------------------------
(* The bounds of the client.                                               *)

LEMMA BoundsLetThrough ==
    Arrived(BoundsRequest) = [stage |-> "manifest", request |-> BoundsRequest]
<1> DEFINE q == BoundsRequest
<1>1. /\ q.method = "GET" /\ q.body = FALSE /\ q.validUrl = TRUE /\ q.path = BoundsPath
      /\ q.params = <<>>
  BY DEF BoundsRequest, Get
<1>2. BoundsPath \in KnownPath /\ BoundsPath \notin StaticPath \cup {HealthPath}
      /\ BoundsPath \notin AtBlockPath /\ BoundsPath \notin LegacyPath
  BY DEF KnownPath, CheckedPath, UnknownOperation, BoundsPath, StaticPath, HealthPath, AtBlockPath, LegacyPath
<1> HIDE DEF q
<1>3. ToSet(<<>>) = {} /\ IsInjective(<<>>)
  BY DEF ToSet, IsInjective
<1>4. ~UnsupportedParam(q) /\ ~DuplicateParam(q)
  BY <1>1, <1>3 DEF UnsupportedParam, DuplicateParam
<1>5. /\ ~EarlyAnswers(q)[1].if /\ ~EarlyAnswers(q)[2].if /\ ~EarlyAnswers(q)[3].if
      /\ ~EarlyAnswers(q)[4].if /\ ~EarlyAnswers(q)[5].if /\ ~EarlyAnswers(q)[6].if
      /\ ~EarlyAnswers(q)[7].if /\ ~EarlyAnswers(q)[8].if /\ ~EarlyAnswers(q)[9].if
      /\ ~EarlyAnswers(q)[10].if
  BY <1>1, <1>2, <1>4 DEF EarlyAnswers
<1>6. \A i \in 1 .. 10 : ~EarlyAnswers(q)[i].if
  <2>1. \A i \in 1 .. 10 : i \in {1, 2, 3, 4, 5, 6, 7, 8, 9, 10}
    OBVIOUS
  <2>2. QED
    BY <1>5, <2>1
<1>7. Early(q) = 0
  BY <1>6, EarlyZero
<1>8. QED
  BY <1>7 DEF Arrived, q

(* Where the manifest's latest day comes from, and that it stays.          *)
ManifestHeads == manifest # None => manifest.latest \in Heads \cup {InitialHead}

LEMMA ManifestStays ==
    ASSUME ManifestHeads, Next
    PROVE  ManifestHeads' /\ (manifest # None => manifest' # None)
<1>1. CASE UNCHANGED manifest
  BY <1>1 DEF ManifestHeads
<1>2. CASE NewManifest
  <2>1. PICK d \in Deployment, latest \in Heads :
            manifest' = [ManifestOf(d, latest) EXCEPT !.listed = @ \cup StableKept(latest)]
    BY <1>2 DEF NewManifest
  <2>2. manifest'.latest = latest /\ manifest' # None
    BY <1>2, <2>1 DEF ManifestOf, NewManifest, Announce
  <2>3. QED
    BY <2>1, <2>2 DEF ManifestHeads
<1>3. CASE Publishing
  <2>1. UNCHANGED manifest \/ NewManifest
    BY <1>3 DEF Publishing, Change, Rewrite, CleanUp, GiveUp, StoreShard, RemoveShard
  <2>2. QED
    BY <1>1, <1>2, <2>1
<1>4. CASE ~Publishing
  <2>1. UNCHANGED artifactVars
    BY <1>4 DEF Next, BeginCall, Send, Client, BoundsArrive, SplitPages, JoinPages,
                PageRefused, FetchFails, Server
  <2>2. QED
    BY <1>1, <2>1 DEF artifactVars
<1>5. QED
  BY <1>3, <1>4

(* What a step does to the exchange of the bounds.                         *)
LEMMA BoundsKept ==
    ASSUME BoundsInv, ManifestHeads', manifest # None => manifest' # None,
           UNCHANGED boundsPromise, exchange'[BoundsConn] = exchange[BoundsConn]
    PROVE  BoundsInv'
  BY DEF BoundsInv, ManifestHeads, IsBounds

LEMMA BoundsFreed ==
    ASSUME ManifestHeads', boundsPromise' = NoPromise, exchange'[BoundsConn] = Free
    PROVE  BoundsInv'
  BY DEF BoundsInv, ManifestHeads, NoPromise, Pending

LEMMA HungUpOthers ==
    ASSUME ExchangesInv, NEW u \in User, HangUp(u)
    PROVE  /\ exchange'[BoundsConn] = exchange[BoundsConn]
           /\ \A i \in 1 .. MaxPages : exchange'[<<u, i>>] = Free
           /\ \A v \in User \ {u}, i \in 1 .. MaxPages : exchange'[<<v, i>>] = exchange[<<v, i>>]
  BY Connections DEF HangUp

LEMMA CarriedOthers ==
    ASSUME ExchangesInv, NEW c \in Conn, NEW y, Carry(c, y)
    PROVE  /\ exchange'[c] = y
           /\ \A d \in Conn \ {c} : exchange'[d] = exchange[d]
  BY DEF Carry, ExchangesInv

LEMMA AskedOthers ==
    ASSUME NEW u \in User, AsksPages(u)
    PROVE  /\ exchange'[BoundsConn] = exchange[BoundsConn]
           /\ exchange'[DirectConn] = exchange[DirectConn]
           /\ \A i \in 1 .. MaxPages :
                 exchange'[<<u, i>>] =
                    IF i <= Len(Cut(u))
                    THEN Arrived(Get(<<"v2", call[u].input.subject>>, Cut(u)[i], call[u].input.records))
                    ELSE exchange[<<u, i>>]
           /\ \A v \in User \ {u}, i \in 1 .. MaxPages : exchange'[<<v, i>>] = exchange[<<v, i>>]
<1> DEFINE N == Len(Cut(u))
           Page(i) == Arrived(Get(<<"v2", call[u].input.subject>>, Cut(u)[i], call[u].input.records))
<1>1. exchange' = [c \in Conn |-> IF c[1] = u /\ c[2] <= N THEN Page(c[2]) ELSE exchange[c]]
  BY DEF AsksPages
<1> HIDE DEF N, Page
<1>2. /\ exchange'[BoundsConn] = exchange[BoundsConn]
      /\ exchange'[DirectConn] = exchange[DirectConn]
  BY <1>1, Connections
<1>3. ASSUME NEW i \in 1 .. MaxPages
      PROVE  exchange'[<<u, i>>] = IF i <= N THEN Page(i) ELSE exchange[<<u, i>>]
  <2>1. <<u, i>> \in Conn /\ <<u, i>>[1] = u /\ <<u, i>>[2] = i
    BY Connections
  <2>2. QED
    BY <1>1, <2>1
<1>4. ASSUME NEW v \in User \ {u}, NEW i \in 1 .. MaxPages
      PROVE  exchange'[<<v, i>>] = exchange[<<v, i>>]
  <2>1. <<v, i>> \in Conn /\ <<v, i>>[1] # u
    BY Connections
  <2>2. QED
    BY <1>1, <2>1
<1>5. QED
  BY <1>2, <1>3, <1>4 DEF N, Page

LEMMA BoundsStep ==
    ASSUME ApiInv, BoundsInv, Next
    PROVE  BoundsInv'
<1>1. ManifestHeads' /\ (manifest # None => manifest' # None)
  BY ManifestStays DEF BoundsInv, ManifestHeads
<1>2. ExchangesInv
  BY DEF ApiInv
<1>3. ASSUME NEW u \in User, NEW input \in Inputs, BeginCall(u, input) PROVE BoundsInv'
  <2>1. CASE boundsPromise = NoPromise
    <3>1. boundsPromise' = Pending /\ exchange'[BoundsConn] = Arrived(BoundsRequest)
      BY <1>2, <1>3, <2>1, CarriedOthers, Connections DEF BeginCall
    <3>2. exchange'[BoundsConn] = [stage |-> "manifest", request |-> BoundsRequest]
      BY <3>1, BoundsLetThrough
    <3>3. QED
      BY <1>1, <3>1, <3>2 DEF BoundsInv, ManifestHeads, Pending
  <2>2. CASE boundsPromise # NoPromise
    BY <1>1, <1>3, <2>2, BoundsKept DEF BeginCall
  <2>3. QED
    BY <2>1, <2>2
<1>4. ASSUME NEW q \in Requests, Send(q) PROVE BoundsInv'
  <2>1. exchange'[BoundsConn] = exchange[BoundsConn] /\ UNCHANGED boundsPromise
    BY <1>2, <1>4, CarriedOthers, Connections DEF Send
  <2>2. QED
    BY <1>1, <2>1, BoundsKept
<1>5. ASSUME BoundsArrive PROVE BoundsInv'
  <2>1. exchange'[BoundsConn] = Free /\ boundsPromise = Pending /\ HasAnswer(BoundsConn)
    BY <1>2, <1>5, CarriedOthers, Connections DEF BoundsArrive
  <2>2. CASE Refused(BoundsConn)
    BY <1>1, <1>5, <2>1, <2>2, BoundsFreed DEF BoundsArrive, Rejected
  <2>3. CASE ~Refused(BoundsConn)
    <3> DEFINE b == exchange[BoundsConn].answer.data
    <3>1. boundsPromise' = [state |-> "value", bounds |-> b]
      BY <1>5, <2>3 DEF BoundsArrive
    <3>2. IsBounds(b) /\ manifest # None
      BY <2>1, <2>3 DEF BoundsInv, HasAnswer, Refused
    <3> HIDE DEF b
    <3>3. QED
      BY <1>1, <2>1, <3>1, <3>2 DEF BoundsInv, ManifestHeads, Pending, IsBounds
  <2>4. QED
    BY <2>2, <2>3
<1>6. ASSUME NEW u \in User, SplitPages(u) PROVE BoundsInv'
  <2>1. UNCHANGED boundsPromise
    BY <1>6, SplitCases
  <2>2. exchange'[BoundsConn] = exchange[BoundsConn]
    BY <1>6, SplitCases, AskedOthers DEF TurnedDown
  <2>3. QED
    BY <1>1, <2>1, <2>2, BoundsKept
<1>7. ASSUME NEW u \in User, JoinPages(u) \/ PageRefused(u) PROVE BoundsInv'
  <2>1. exchange'[BoundsConn] = exchange[BoundsConn] /\ UNCHANGED boundsPromise
    BY <1>2, <1>7, HungUpOthers DEF JoinPages, PageRefused
  <2>2. QED
    BY <1>1, <2>1, BoundsKept
<1>8. ASSUME FetchFails PROVE BoundsInv'
  <2>1. CASE Rejected /\ Carry(BoundsConn, Free)
    BY <1>1, <1>2, <2>1, CarriedOthers, BoundsFreed, Connections DEF Rejected
  <2>2. ASSUME NEW u \in User, HangUp(u), UNCHANGED boundsPromise PROVE BoundsInv'
    BY <1>1, <1>2, <2>2, HungUpOthers, BoundsKept
  <2>3. QED
    BY <1>8, <2>1, <2>2 DEF FetchFails
<1>9. ASSUME Server PROVE BoundsInv'
  <2>1. UNCHANGED boundsPromise /\ UNCHANGED manifest
    BY <1>9 DEF Server, clientVars, artifactVars
  <2>2. PICK c \in Conn : ServeStep(c) \/ ReadFails(c)
    BY <1>9 DEF Server
  <2>3. \E y : Carry(c, y)
    BY <2>2 DEF ServeStep, ReadManifest, ReadShard, Respond, ReadFails
  <2>4. CASE c # BoundsConn
    <3>1. exchange'[BoundsConn] = exchange[BoundsConn]
      BY <1>2, <2>3, <2>4, CarriedOthers, Connections
    <3>2. QED
      BY <1>1, <2>1, <3>1, BoundsKept
  <2>5. CASE c = BoundsConn
    <3> DEFINE x == exchange[BoundsConn]
    <3>1. x.stage \in {"manifest", "reading"}
      BY <2>2, <2>5 DEF ServeStep, ReadManifest, ReadShard, Respond, ReadFails
    <3>2. boundsPromise = Pending /\ x = [stage |-> "manifest", request |-> BoundsRequest]
      BY <3>1 DEF BoundsInv, Free
    <3>3. CASE ReadManifest(c)
      <4>1. exchange'[BoundsConn] = Located(x)
        BY <1>2, <2>5, <3>3, CarriedOthers, Connections DEF ReadManifest
      <4>2. x.request.path = BoundsPath
        BY <3>2, BoundsArrives
      <4>3. CASE manifest = None
        <5>1. exchange'[BoundsConn] = Answered(x, Error(503, "manifest_not_published"))
          BY <4>1, <4>3, LocatedCases
        <5>2. exchange'[BoundsConn].stage = "answered" /\ exchange'[BoundsConn].answer.status # 200
          BY <5>1 DEF Answered, Error
        <5>3. QED
          BY <1>1, <2>1, <3>2, <5>2 DEF BoundsInv, ManifestHeads, Pending
      <4>4. CASE manifest # None
        <5>1. exchange'[BoundsConn] = Answered(x, Success(Bounds(manifest)))
          BY <4>1, <4>2, <4>4, LocatedCases
        <5>2. /\ exchange'[BoundsConn].stage = "answered" /\ exchange'[BoundsConn].answer.status = 200
              /\ exchange'[BoundsConn].answer.data = Bounds(manifest)
          BY <5>1 DEF Answered, Success
        <5>3. IsBounds(Bounds(manifest))
          BY <4>4 DEF BoundsInv, IsBounds, Bounds
        <5>4. QED
          BY <1>1, <2>1, <3>2, <4>4, <5>2, <5>3 DEF BoundsInv, ManifestHeads, Pending
      <4>5. QED
        BY <4>3, <4>4
    <3>4. CASE ReadFails(c)
      <4>1. exchange'[BoundsConn] = Answered(x, Error(503, "manifest_unavailable"))
        BY <1>2, <2>5, <3>2, <3>4, CarriedOthers, Connections DEF ReadFails
      <4>2. exchange'[BoundsConn].stage = "answered" /\ exchange'[BoundsConn].answer.status # 200
        BY <4>1 DEF Answered, Error
      <4>3. QED
        BY <1>1, <2>1, <3>2, <4>2 DEF BoundsInv, ManifestHeads, Pending
    <3>5. QED
      BY <2>2, <2>5, <3>2, <3>3, <3>4 DEF ServeStep, ReadShard, Respond
  <2>6. QED
    BY <2>4, <2>5
<1>10. ASSUME Publishing PROVE BoundsInv'
  <2>1. UNCHANGED boundsPromise /\ exchange'[BoundsConn] = exchange[BoundsConn]
    BY <1>10 DEF Publishing, Change, apiVars
  <2>2. QED
    BY <1>1, <2>1, BoundsKept
<1>11. QED
  BY <1>3, <1>4, <1>5, <1>6, <1>7, <1>8, <1>9, <1>10 DEF Next, Client

-----------------------------------------------------------------------------
(* The calls.                                                              *)

(* A call that a step leaves alone.                                        *)
LEMMA UserKept ==
    ASSUME NEW u, UserInv(u), call'[u] = call[u],
           \A i \in 1 .. MaxPages : exchange'[<<u, i>>] = exchange[<<u, i>>],
           readFaults \in Nat, readFaults' \in Nat, readFaults' >= readFaults,
           manifest # None => manifest' # None
    PROVE  UserInv(u)'
<1>1. Pages(u)' = Pages(u)
  BY DEF Pages
<1>2. IsCall(u)'
  BY <1>1 DEF UserInv, IsCall
<1>3. readFaults > 0 => readFaults' > 0
  OBVIOUS
<1>4. PagesInv(u)'
  <2>1. SUFFICES ASSUME NEW i \in 1 .. MaxPages
        PROVE  IF call'[u].stage = "pages" /\ i <= call'[u].count
               THEN PageExchange(exchange[<<u, i>>], call[u].subject, Pages(u)[i])'
               ELSE exchange'[<<u, i>>] = Free
    BY DEF PagesInv
  <2>2. CASE call[u].stage = "pages" /\ i <= call[u].count
    <3>1. PageExchange(exchange[<<u, i>>], call[u].subject, Pages(u)[i])
      BY <2>2 DEF UserInv, PagesInv
    <3>2. PageExchange(exchange[<<u, i>>], call[u].subject, Pages(u)[i])'
      BY <1>1, <1>3, <3>1 DEF PageExchange, PageRequest
    <3>3. QED
      BY <2>2, <3>2
  <2>3. CASE ~(call[u].stage = "pages" /\ i <= call[u].count)
    BY <2>3 DEF UserInv, PagesInv
  <2>4. QED
    BY <2>2, <2>3
<1>5. QED
  BY <1>2, <1>4 DEF UserInv

(* A call that ends.                                                       *)
LEMMA UserEnded ==
    ASSUME NEW u, call'[u].stage \in {"done", "failed"},
           \A i \in 1 .. MaxPages : exchange'[<<u, i>>] = Free
    PROVE  UserInv(u)'
  BY DEF UserInv, IsCall, PagesInv

(* A call that has no pages yet.                                           *)
LEMMA UserWaits ==
    ASSUME NEW u, UserInv(u), call[u].stage # "pages", call'[u].stage # "pages", IsCall(u)',
           \A i \in 1 .. MaxPages : exchange'[<<u, i>>] = exchange[<<u, i>>]
    PROVE  UserInv(u)'
  BY DEF UserInv, PagesInv

(* The API reads a page as the call has cut it.                            *)
LEMMA PageRead ==
    ASSUME ApiInv, NEW u \in User, UserInv(u), NEW i \in 1 .. MaxPages,
           exchange[<<u, i>>].stage \in {"manifest", "reading"}
    PROVE  /\ call[u].stage = "pages" /\ i <= call[u].count
           /\ PageRequest(exchange[<<u, i>>].request, call[u].subject, Pages(u)[i])
           /\ Located(exchange[<<u, i>>]) = Opened(exchange[<<u, i>>], manifest)
<1> DEFINE x == exchange[<<u, i>>]
           subject == call[u].subject
           page == Pages(u)[i]
<1>1. /\ call[u].stage = "pages" /\ i <= call[u].count
      /\ PageRequest(x.request, subject, page)
  <2>1. x # Free
    BY DEF Free
  <2>2. call[u].stage = "pages" /\ i <= call[u].count /\ PageExchange(x, subject, page)
    BY <2>1 DEF UserInv, PagesInv
  <2>3. QED
    BY <2>2 DEF PageExchange
<1>2. subject \in {"metrics", "assets", "supply"} /\ IsRange(call[u].range) /\ manifest # None
      /\ call[u].count = Len(Pages(u))
  BY <1>1 DEF UserInv, IsCall
<1>3. /\ page = [start |-> page.start, end |-> page.end]
      /\ page.start \in Day /\ page.end \in Day /\ page.start <= page.end
      /\ page.end - page.start + 1 <= MaxRange
  <2>1. i \in 1 .. Len(Pages(u))
    BY <1>1, <1>2, ClientAssumption
  <2>2. call[u].range.start \in Day /\ call[u].range.end \in Day
        /\ call[u].range.start <= call[u].range.end
    BY <1>2 DEF IsRange
  <2>3. QED
    BY <2>1, <2>2, SplitCovers DEF CutUp, Pages
<1>4. Located(x) = Opened(x, manifest)
  BY <1>1, <1>2, <1>3, PageLocated
<1>5. QED
  BY <1>1, <1>4

(* A step of the server on a page.                                         *)
LEMMA PageServed ==
    ASSUME ApiInv, NEW u \in User, UserInv(u), NEW i \in 1 .. MaxPages,
           ServeStep(<<u, i>>) \/ ReadFails(<<u, i>>), UNCHANGED <<artifactVars, clientVars>>,
           readFaults' \in Nat
    PROVE  UserInv(u)'
<1> DEFINE c == <<u, i>>
           x == exchange[c]
           subject == call[u].subject
           page == Pages(u)[i]
<1>1. c \in Conn /\ ExchangesInv /\ readFaults \in Nat
  BY Connections DEF ApiInv, ExchangesInv
<1>2. x.stage \in {"manifest", "reading"}
  BY DEF ServeStep, ReadManifest, ReadShard, Respond, ReadFails
<1>3. /\ call[u].stage = "pages" /\ i <= call[u].count
      /\ PageRequest(x.request, subject, page)
      /\ Located(x) = Opened(x, manifest)
  BY <1>2, PageRead
<1>4. manifest # None
  BY <1>3 DEF UserInv
<1>5. UNCHANGED manifest /\ UNCHANGED call
  BY DEF artifactVars, clientVars
<1> HIDE DEF x
<1>6. PageExchange(exchange[c], subject, page)' /\ (\A d \in Conn \ {c} : exchange'[d] = exchange[d])
      /\ readFaults' >= readFaults
  <2>1. CASE ReadManifest(c)
    <3>2. exchange'[c] = Opened(x, manifest) /\ (\A d \in Conn \ {c} : exchange'[d] = exchange[d])
          /\ readFaults' = readFaults
      BY <1>1, <1>3, <2>1, CarriedOthers DEF ReadManifest, x
    <3>3. exchange'[c].stage = "reading" /\ exchange'[c].request = x.request
      BY <3>2 DEF Opened
    <3>4. QED
      BY <1>1, <1>3, <1>5, <3>2, <3>3 DEF PageExchange, PageRequest, Pages
  <2>2. ASSUME NEW k \in Kind, ReadShard(c, k)
        PROVE  PageExchange(exchange[c], subject, page)' /\ (\A d \in Conn \ {c} : exchange'[d] = exchange[d])
               /\ readFaults' >= readFaults
    <3>1. \E month : Carry(c, AfterRead(x, k, month))
      BY <2>2 DEF ReadShard, AfterRead, x
    <3>2. Reading(x) /\ readFaults' = readFaults
      BY <1>1, <2>2 DEF ReadShard, x, ExchangesInv, ExchangeInv
    <3>3. PICK month : exchange'[c] = AfterRead(x, k, month) /\ \A d \in Conn \ {c} : exchange'[d] = exchange[d]
      BY <1>1, <3>1, CarriedOthers
    <3>4. AfterRead(x, k, month).stage = "reading" /\ AfterRead(x, k, month).request = x.request
      BY <3>2, ReadKeeps, Zenon
    <3>6. exchange'[c].stage = "reading" /\ exchange'[c].request = x.request
      BY <3>3, <3>4
    <3>7. QED
      BY <1>1, <1>3, <1>5, <3>2, <3>3, <3>6 DEF PageExchange, PageRequest, Pages
  <2>3. CASE Respond(c)
    <3>1. x.stage = "reading" /\ readFaults' = readFaults
          /\ exchange'[c] = Answered(x, Success(Data(x))) /\ \A d \in Conn \ {c} : exchange'[d] = exchange[d]
      BY <1>1, <2>3, CarriedOthers DEF Respond, x
    <3>2. exchange'[c].stage = "answered" /\ exchange'[c].answer.status = 200 /\ exchange'[c].of = x
      BY <3>1 DEF Answered, Success
    <3>3. QED
      BY <1>1, <1>3, <1>5, <3>1, <3>2 DEF PageExchange, PageRequest, Pages
  <2>4. CASE ReadFails(c)
    <3>1. \E answer : answer.status # 200 /\ Carry(c, Answered(x, answer))
      BY <2>4 DEF ReadFails, Error, x
    <3>2. readFaults' = readFaults + 1
      BY <2>4 DEF ReadFails
    <3>3. PICK answer : answer.status # 200 /\ exchange'[c] = Answered(x, answer)
                        /\ \A d \in Conn \ {c} : exchange'[d] = exchange[d]
      BY <1>1, <3>1, CarriedOthers
    <3>4. exchange'[c].stage = "answered" /\ exchange'[c].answer.status # 200 /\ readFaults' > 0
      BY <1>1, <3>2, <3>3 DEF Answered
    <3>5. QED
      BY <1>1, <1>5, <3>2, <3>3, <3>4 DEF PageExchange
  <2>5. QED
    BY <2>1, <2>2, <2>3, <2>4 DEF ServeStep
<1>7. Pages(u)' = Pages(u) /\ IsCall(u)'
  BY <1>5 DEF Pages, UserInv, IsCall
<1>8. ASSUME NEW j \in 1 .. MaxPages
      PROVE  IF call'[u].stage = "pages" /\ j <= call'[u].count
             THEN PageExchange(exchange[<<u, j>>], call[u].subject, Pages(u)[j])'
             ELSE exchange'[<<u, j>>] = Free
  <2>1. CASE j = i
    BY <1>3, <1>5, <1>6, <1>7, <2>1
  <2>2. CASE j # i
    <3>1. exchange'[<<u, j>>] = exchange[<<u, j>>]
      BY <1>6, <2>2, Connections
    <3>2. readFaults > 0 => readFaults' > 0
      BY <1>1, <1>6
    <3>3. IF call[u].stage = "pages" /\ j <= call[u].count
          THEN PageExchange(exchange[<<u, j>>], call[u].subject, Pages(u)[j])
          ELSE exchange[<<u, j>>] = Free
      BY DEF UserInv, PagesInv
    <3>4. QED
      BY <1>5, <1>7, <3>1, <3>2, <3>3 DEF PageExchange
  <2>3. QED
    BY <2>1, <2>2
<1>9. QED
  BY <1>4, <1>5, <1>7, <1>8 DEF UserInv, PagesInv

LEMMA UsersStep ==
    ASSUME ApiInv, ApiInv', BoundsInv, Next, NEW u \in User, UserInv(u)
    PROVE  UserInv(u)'
<1>1. manifest # None => manifest' # None
  BY ManifestStays DEF BoundsInv, ManifestHeads
<1>2. ExchangesInv /\ readFaults \in Nat /\ readFaults' \in Nat /\ DOMAIN call = User
  BY DEF ApiInv, ExchangesInv, InputsInv
<1>3. BoundsConn \in Conn /\ DirectConn \in Conn
      /\ \A i \in 1 .. MaxPages : <<u, i>> \in Conn /\ <<u, i>> # BoundsConn /\ <<u, i>> # DirectConn
  BY Connections
<1>4. ASSUME call'[u] = call[u], readFaults' = readFaults,
             \A i \in 1 .. MaxPages : exchange'[<<u, i>>] = exchange[<<u, i>>]
      PROVE  UserInv(u)'
  BY <1>1, <1>2, <1>4, UserKept
<1>5. ASSUME NEW y, Carry(BoundsConn, y) \/ Carry(DirectConn, y)
      PROVE  \A i \in 1 .. MaxPages : exchange'[<<u, i>>] = exchange[<<u, i>>]
  BY <1>2, <1>3, <1>5, CarriedOthers
<1>6. ASSUME Rejected, readFaults' = readFaults,
             \A i \in 1 .. MaxPages : exchange'[<<u, i>>] = exchange[<<u, i>>]
      PROVE  UserInv(u)'
  <2>1. CASE u \in Waiting
    <3>1. call'[u] = Failed(u) /\ call[u].stage = "bounds"
      BY <1>6, <2>1 DEF Rejected, Waiting
    <3>2. call'[u].stage = "failed"
      BY <3>1 DEF Failed
    <3>3. \A i \in 1 .. MaxPages : exchange'[<<u, i>>] = Free
      BY <1>6, <3>1 DEF UserInv, PagesInv
    <3>4. QED
      BY <3>2, <3>3, UserEnded
  <2>2. CASE u \notin Waiting
    <3>1. call'[u] = call[u]
      BY <1>6, <2>2 DEF Rejected
    <3>2. QED
      BY <1>4, <1>6, <3>1
  <2>3. QED
    BY <2>1, <2>2
<1>7. ASSUME NEW v \in User, NEW w, call' = [call EXCEPT ![v] = w], w.stage \in {"done", "failed"},
             HangUp(v), readFaults' = readFaults
      PROVE  UserInv(u)'
  <2>1. CASE v = u
    <3>1. call'[u].stage \in {"done", "failed"}
      BY <1>2, <1>7, <2>1
    <3>2. \A i \in 1 .. MaxPages : exchange'[<<u, i>>] = Free
      BY <1>2, <1>7, <2>1, HungUpOthers
    <3>3. QED
      BY <3>1, <3>2, UserEnded
  <2>2. CASE v # u
    <3>1. call'[u] = call[u]
      BY <1>2, <1>7, <2>2
    <3>2. \A i \in 1 .. MaxPages : exchange'[<<u, i>>] = exchange[<<u, i>>]
      BY <1>2, <1>7, <2>2, HungUpOthers
    <3>3. QED
      BY <1>4, <1>7, <3>1, <3>2
  <2>3. QED
    BY <2>1, <2>2
<1>8. \A v : Failed(v).stage = "failed"
  BY DEF Failed
<1>9. ASSUME NEW v \in User, NEW input \in Inputs, BeginCall(v, input) PROVE UserInv(u)'
  <2>1. readFaults' = readFaults /\ \A i \in 1 .. MaxPages : exchange'[<<u, i>>] = exchange[<<u, i>>]
    BY <1>5, <1>9 DEF BeginCall
  <2>2. CASE v # u
    <3>1. call'[u] = call[u]
      BY <1>2, <1>9, <2>2 DEF BeginCall
    <3>2. QED
      BY <1>4, <2>1, <3>1
  <2>3. CASE v = u
    <3>1. PICK p, b : call' = [call EXCEPT ![u] =
                                 [stage |-> "bounds", input |-> input, published |-> p, before |-> b]]
      BY <1>9, <2>3 DEF BeginCall
    <3>2. call'[u] = [stage |-> "bounds", input |-> input, published |-> p, before |-> b]
      BY <1>2, <3>1
    <3>3. IsCall(u)'
      BY <3>2 DEF IsCall
    <3>4. call[u].stage # "pages" /\ call'[u].stage # "pages"
      BY <1>9, <2>3, <3>2 DEF BeginCall
    <3>5. QED
      BY <2>1, <3>3, <3>4, UserWaits
  <2>4. QED
    BY <2>2, <2>3
<1>10. ASSUME NEW q \in Requests, Send(q) PROVE UserInv(u)'
  BY <1>4, <1>5, <1>10 DEF Send
<1>11. ASSUME BoundsArrive PROVE UserInv(u)'
  <2>1. readFaults' = readFaults /\ \A i \in 1 .. MaxPages : exchange'[<<u, i>>] = exchange[<<u, i>>]
    BY <1>5, <1>11 DEF BoundsArrive
  <2>2. Rejected \/ UNCHANGED call
    BY <1>11 DEF BoundsArrive
  <2>3. QED
    BY <1>4, <1>6, <2>1, <2>2
<1>12. ASSUME NEW v \in User, SplitPages(v) PROVE UserInv(u)'
  <2>1. call[v].stage = "bounds" /\ boundsPromise.state = "value" /\ readFaults' = readFaults
        /\ manifest' = manifest
    BY <1>12, SplitCases DEF artifactVars
  <2>2. CASE TurnedDown(v) /\ v # u
    BY <1>2, <1>4, <2>1, <2>2 DEF TurnedDown
  <2>3. CASE AsksPages(v) /\ v # u
    <3>1. call'[u] = call[u]
      BY <1>2, <2>3 DEF AsksPages
    <3>2. \A i \in 1 .. MaxPages : exchange'[<<u, i>>] = exchange[<<u, i>>]
      BY <2>3, AskedOthers
    <3>3. QED
      BY <1>4, <2>1, <3>1, <3>2
  <2>4. CASE TurnedDown(v) /\ v = u
    <3>1. call'[u].stage = "failed"
      BY <1>2, <1>8, <2>4 DEF TurnedDown
    <3>2. \A i \in 1 .. MaxPages : exchange'[<<u, i>>] = Free
      BY <2>1, <2>4 DEF TurnedDown, UserInv, PagesInv
    <3>3. QED
      BY <3>1, <3>2, UserEnded
  <2>5. CASE AsksPages(v) /\ v = u
    <3> DEFINE input == call[u].input
               last == LastOf(u)
               cut == Cut(u)
    <3>1. input \in Inputs
      BY <1>12, <2>1, <2>5 DEF ApiInv, InputsInv
    <3>input. /\ input.subject \in {"metrics", "assets", "supply"} \cap Kind /\ input.start \in Day
              /\ input.end \in Day \cup {NoDate} /\ (input.records => input.subject = "metrics")
      BY <3>1, ClientAssumption
    <3>2. /\ input.subject \in {"metrics", "assets", "supply"} \cap Kind /\ input.start \in Day
          /\ input.end \in Day \cup {NoDate}
      BY <3>input
    <3>3. IsBounds(boundsPromise.bounds) /\ manifest # None
      BY <2>1 DEF BoundsInv
    <3>4. boundsPromise.bounds.latest \in Day /\ boundsPromise.bounds.maxRange = MaxRange
      <4>1. PublicStart .. LastDay \subseteq Day
        BY CalendarAssumption DEF Day
      <4>2. QED
        BY <3>3, <4>1, ClientAssumption DEF IsBounds
    <3>5. last \in Day
      <4>1. CASE input.end = NoDate
        BY <3>4, <4>1 DEF LastOf
      <4>2. CASE input.end # NoDate
        <5>1. last = input.end
          BY <4>2 DEF LastOf
        <5>2. QED
          BY <3>2, <4>2, <5>1
      <4>3. QED
        BY <4>1, <4>2
    <3>6. input.start <= last
      BY <2>5, <3>2, <3>5 DEF AsksPages, Day
    <3>7. cut = SplitRange(input.start, last, MaxRange)
      BY <3>4 DEF Cut
    <3>8. call'[u] = PagesCall(u)
      BY <1>2, <2>5 DEF AsksPages
    <3>9. PagesCall(u) = [stage |-> "pages", before |-> call[u].before, published |-> call[u].published,
                         subject |-> input.subject, range |-> [start |-> input.start, end |-> last],
                         count |-> Len(cut)]
      BY DEF PagesCall
    <3>10. Len(cut) <= MaxPages
      BY <2>5 DEF AsksPages
    <3>11. \A i \in 1 .. MaxPages :
             exchange'[<<u, i>>] = IF i <= Len(cut)
                                  THEN Arrived(Get(<<"v2", input.subject>>, cut[i], input.records))
                                  ELSE exchange[<<u, i>>]
      BY <2>5, AskedOthers
    <3> HIDE DEF input, last, cut
    <3>12. /\ call'[u].stage = "pages" /\ call'[u].subject = input.subject
           /\ call'[u].range = [start |-> input.start, end |-> last] /\ call'[u].count = Len(cut)
      BY <3>8, <3>9
    <3>13. Pages(u)' = cut
      BY <3>7, <3>12 DEF Pages
    <3>14. IsRange(call'[u].range)
      BY <3>2, <3>5, <3>6, <3>12 DEF IsRange
    <3>15. IsCall(u)'
      BY <3>2, <3>8, <3>9, <3>10, <3>12, <3>13, <3>14 DEF IsCall
    <3>16. ASSUME NEW i \in 1 .. MaxPages
           PROVE  IF i <= Len(cut) THEN PageExchange(exchange[<<u, i>>], call[u].subject, Pages(u)[i])'
                  ELSE exchange'[<<u, i>>] = Free
      <4>1. CASE i <= Len(cut)
        <5> DEFINE q == Get(<<"v2", input.subject>>, cut[i], input.records)
        <5>1. Arrived(q) = [stage |-> "manifest", request |-> q] /\ PageRequest(q, input.subject, cut[i])
          <6>1. PICK s, r : /\ s \in {"metrics", "assets", "supply"}
                            /\ s = input.subject /\ r = input.records
            BY <3>2
          <6>2. r => s = "metrics"
            BY <3>input, <6>1, Zenon
          <6>3. \A page : /\ Arrived(Get(<<"v2", s>>, page, r))
                                = [stage |-> "manifest", request |-> Get(<<"v2", s>>, page, r)]
                          /\ PageRequest(Get(<<"v2", s>>, page, r), s, page)
            <7>1. s \in {"metrics", "assets", "supply"}
              BY <6>1
            <7>2. QED
              BY <6>2, <7>1, PageArrives, Zenon
          <6>4. QED
            BY <6>1, <6>3, Zenon
        <5> HIDE DEF q
        <5>2. exchange'[<<u, i>>] = [stage |-> "manifest", request |-> q]
          BY <3>11, <4>1, <5>1 DEF q
        <5>3. PageExchange(exchange[<<u, i>>], call[u].subject, Pages(u)[i])'
          BY <3>12, <3>13, <5>1, <5>2 DEF PageExchange
        <5>4. QED
          BY <4>1, <5>3
      <4>2. CASE ~(i <= Len(cut))
        <5>1. exchange[<<u, i>>] = Free
          BY <2>1, <2>5 DEF UserInv, PagesInv
        <5>2. QED
          BY <3>11, <4>2, <5>1
      <4>3. QED
        BY <4>1, <4>2
    <3>17. PagesInv(u)'
      BY <3>12, <3>16 DEF PagesInv
    <3>18. QED
      BY <2>1, <3>3, <3>15, <3>17 DEF UserInv
  <2>6. QED
    BY <1>12, <2>2, <2>3, <2>4, <2>5, SplitCases
<1>13. ASSUME NEW v \in User, JoinPages(v) PROVE UserInv(u)'
  <2> DEFINE w == [stage |-> "done", subject |-> call[v].subject, range |-> call[v].range,
                   result |-> FlattenSeq([i \in 1 .. call[v].count |-> exchange[<<v, i>>].answer.data])]
  <2>1. call' = [call EXCEPT ![v] = w] /\ HangUp(v) /\ readFaults' = readFaults
    BY <1>13 DEF JoinPages
  <2>2. w.stage = "done"
    OBVIOUS
  <2> HIDE DEF w
  <2>3. QED
    BY <1>7, <2>1, <2>2
<1>14. ASSUME NEW v \in User, PageRefused(v) PROVE UserInv(u)'
  BY <1>7, <1>8, <1>14 DEF PageRefused
<1>15. ASSUME FetchFails PROVE UserInv(u)'
  <2>1. readFaults' = readFaults
    BY <1>15 DEF FetchFails
  <2>2. CASE Rejected /\ Carry(BoundsConn, Free)
    BY <1>5, <1>6, <2>1, <2>2
  <2>3. ASSUME NEW v \in User, call' = [call EXCEPT ![v] = Failed(v)], HangUp(v) PROVE UserInv(u)'
    BY <1>7, <1>8, <2>1, <2>3
  <2>4. QED
    BY <1>15, <2>2, <2>3 DEF FetchFails
<1>16. ASSUME Server PROVE UserInv(u)'
  <2>1. PICK c \in Conn : ServeStep(c) \/ ReadFails(c)
    BY <1>16 DEF Server
  <2>2. UNCHANGED <<artifactVars, clientVars>>
    BY <1>16 DEF Server
  <2>3. CASE \E i \in 1 .. MaxPages : c = <<u, i>>
    BY <1>2, <2>1, <2>2, <2>3, PageServed
  <2>4. CASE ~\E i \in 1 .. MaxPages : c = <<u, i>>
    <3>1. \E y : Carry(c, y)
      BY <2>1 DEF ServeStep, ReadManifest, ReadShard, Respond, ReadFails
    <3>2. \A i \in 1 .. MaxPages : exchange'[<<u, i>>] = exchange[<<u, i>>]
      BY <1>2, <1>3, <2>4, <3>1, CarriedOthers
    <3>3. readFaults' >= readFaults
      <4>1. readFaults' = readFaults \/ readFaults' = readFaults + 1
        BY <2>1 DEF ServeStep, ReadManifest, ReadShard, Respond, ReadFails
      <4>2. QED
        BY <1>2, <4>1
    <3>4. call' = call
      BY <2>2 DEF clientVars
    <3>5. QED
      BY <1>1, <1>2, <3>2, <3>3, <3>4, UserKept
  <2>5. QED
    BY <2>3, <2>4
<1>17. ASSUME Publishing PROVE UserInv(u)'
  BY <1>4, <1>17 DEF Publishing, Change, apiVars
<1>18. QED
  BY <1>9, <1>10, <1>11, <1>12, <1>13, <1>14, <1>15, <1>16, <1>17 DEF Next, Client

LEMMA ClientInitial ==
    ASSUME Init
    PROVE  ClientInv
<1>1. exchange[BoundsConn] = Free /\ boundsPromise = NoPromise /\ drops = 0
  BY Connections DEF Init, ApiInit
<1>2. manifest # None => manifest.latest \in Heads \cup {InitialHead}
  BY DEF Init, ManifestOf
<1>3. BoundsInv
  BY <1>1, <1>2 DEF BoundsInv, NoPromise, Pending
<1>4. ASSUME NEW u \in User PROVE UserInv(u)
  <2>1. call[u] = [stage |-> "idle"] /\ \A i \in 1 .. MaxPages : exchange[<<u, i>>] = Free
    BY Connections DEF Init, ApiInit
  <2>2. QED
    BY <2>1 DEF UserInv, IsCall, PagesInv
<1>5. QED
  BY <1>1, <1>3, <1>4 DEF ClientInv

LEMMA ClientStays ==
    ASSUME ClientInv, UNCHANGED vars
    PROVE  ClientInv'
<1>1. UNCHANGED <<manifest, exchange, readFaults, call, boundsPromise, drops>>
  BY DEF vars, artifactVars, apiVars, clientVars
<1>2. BoundsInv'
  BY <1>1 DEF ClientInv, BoundsInv, IsBounds
<1>3. ASSUME NEW u \in User PROVE UserInv(u)'
  BY <1>1 DEF ClientInv, UserInv, IsCall, PagesInv, PageExchange, Pages
<1>4. QED
  BY <1>1, <1>2, <1>3 DEF ClientInv

LEMMA DropsStep ==
    ASSUME drops \in Nat, Next
    PROVE  drops' \in Nat
<1>1. drops' = drops \/ drops' = drops + 1
  BY SplitCases DEF Next, Client, BeginCall, Send, BoundsArrive, JoinPages, PageRefused,
                    FetchFails, Server, clientVars, Publishing, Change
<1>2. QED
  BY <1>1

(* The client has bounds the API answered with, and the exchange of each   *)
(* page is that of its call (getCachedBounds, fetchAutoPaginated).         *)
THEOREM ClientInvariant == Spec => []ClientInv
<1>1. Init => ApiInv /\ ClientInv
  BY ApiInitial, ClientInitial
<1>2. (ApiInv /\ ClientInv) /\ [Next]_vars => (ApiInv /\ ClientInv)'
  <2>1. SUFFICES ASSUME ApiInv, ClientInv, [Next]_vars PROVE ApiInv' /\ ClientInv'
    OBVIOUS
  <2>2. ApiInv'
    BY <2>1, ApiStep
  <2>3. CASE Next
    BY <2>1, <2>2, <2>3, BoundsStep, UsersStep, DropsStep DEF ClientInv
  <2>4. CASE UNCHANGED vars
    BY <2>1, <2>2, <2>4, ClientStays
  <2>5. QED
    BY <2>1, <2>3, <2>4
<1>3. QED
  BY <1>1, <1>2, PTL DEF Spec

(* PagesNotRefused: the client cuts ranges the way the API accepts them: a *)
(* page is refused only when a read of the store failed (splitRange,       *)
(* resolveV2Range).                                                        *)
THEOREM PagesNeverRefused == Spec => []PagesNotRefused
<1>1. ASSUME ApiInv, ClientInv PROVE PagesNotRefused
  <2>1. SUFFICES ASSUME NEW c \in Conn, c[1] \in User, HasAnswer(c), exchange[c].answer.status = 400
                 PROVE  readFaults > 0
    BY DEF PagesNotRefused
  <2>2. PICK u \in User, i \in 1 .. MaxPages : c = <<u, i>>
    <3>1. c # BoundsConn /\ c # DirectConn
      BY <2>1, Connections
    <3>2. c \in User \X (1 .. MaxPages)
      BY <3>1, ClientAssumption
    <3>3. QED
      BY <3>2
  <2>3. UserInv(u)
    BY <1>1 DEF ClientInv
  <2>4. exchange[c] # Free
    BY <2>1 DEF HasAnswer, Free
  <2>5. PageExchange(exchange[c], call[u].subject, Pages(u)[i])
    BY <2>2, <2>3, <2>4 DEF UserInv, PagesInv
  <2>6. QED
    BY <2>1, <2>5 DEF PageExchange, HasAnswer
<1>2. QED
  BY <1>1, ApiInvariant, ClientInvariant, PTL

-----------------------------------------------------------------------------
(* The pages of a call, joined.                                            *)

(* What PagesCoverRange says of one call.                                  *)
Covered(subject, range, result) ==
    LET dates == [i \in DOMAIN result |-> result[i].date]
    IN  IF subject = "metrics"
        THEN dates = [i \in 1 .. range.end - range.start + 1 |-> range.start + i - 1]
        ELSE /\ \A i \in DOMAIN dates : dates[i] \in range.start .. range.end
             /\ \A i, j \in DOMAIN dates : i < j => dates[i] < dates[j]

Joined(u) == FlattenSeq([i \in 1 .. call[u].count |-> exchange[<<u, i>>].answer.data])

(* The answer to one page.                                                 *)
LEMMA PageAnswer ==
    ASSUME ApiInv, NEW u \in User, UserInv(u), call[u].stage = "pages",
           NEW i \in 1 .. call[u].count, HasAnswer(<<u, i>>), ~Refused(<<u, i>>)
    PROVE  LET data == exchange[<<u, i>>].answer.data
               page == Pages(u)[i]
           IN  /\ \E T : data \in Seq(T)
               /\ Ordered(Len(data), data, page.start, page.end)
               /\ call[u].subject = "metrics" => Days(Len(data), data, page.start, page.end)
<1> DEFINE c == <<u, i>>
           x == exchange[c].of
           data == exchange[c].answer.data
           page == Pages(u)[i]
           subject == call[u].subject
<1>1. /\ subject \in {"metrics", "assets", "supply"} /\ IsRange(call[u].range)
      /\ call[u].count = Len(Pages(u)) /\ call[u].count <= MaxPages
  BY DEF UserInv, IsCall
<1>2. /\ call[u].range.start \in Day /\ call[u].range.end \in Day
      /\ call[u].range.start <= call[u].range.end
  BY <1>1 DEF IsRange
<1>3. Len(Pages(u)) \in Nat
      /\ page = [start |-> page.start, end |-> page.end]
      /\ page.start \in Day /\ page.end \in Day /\ page.start <= page.end
      /\ page.end - page.start + 1 <= MaxRange
  BY <1>1, <1>2, SplitCovers DEF CutUp, Pages
<1>4. i \in 1 .. MaxPages /\ i <= call[u].count
  BY <1>1, <1>3, ClientAssumption
<1>5. c \in Conn /\ exchange[c].answer.status = 200 /\ exchange[c].stage = "answered"
  BY <1>4, Connections DEF HasAnswer, Refused
<1>6. x.stage = "reading" /\ PageRequest(x.request, subject, page)
  BY <1>4, <1>5 DEF UserInv, PagesInv, PageExchange
<1>7. Reading(x) /\ data = Data(x)
  BY <1>5, <1>6 DEF ApiInv, ExchangesInv, ExchangeInv, MadeFrom
<1>8. manifest # None
  BY DEF UserInv
<1> HIDE DEF x, page, subject
<1>9. x.range = page
  <2>1. RequestRange(x.request, x.manifest) = page
    BY <1>1, <1>3, <1>6, <1>8, PageLocated
  <2>2. QED
    BY <1>7, <2>1 DEF Reading
<1>10. x.request.path \in V2Path /\ (subject = "metrics" => ~IsRecordList(x.request))
  BY <1>1, <1>6 DEF PageRequest, V2Path, IsRecordList, Subject
<1>11. QED
  BY <1>7, <1>9, <1>10, V2Data DEF page, subject

LEMMA JoinedCovers ==
    ASSUME ApiInv, NEW u \in User, UserInv(u), call[u].stage = "pages",
           \A c \in PageConns(u) : HasAnswer(c) /\ ~Refused(c)
    PROVE  Covered(call[u].subject, call[u].range, Joined(u))
<1> DEFINE N == call[u].count
           range == call[u].range
           pages == Pages(u)
           data(i) == exchange[<<u, i>>].answer.data
           s == [i \in 1 .. N |-> data(i)]
           from == [i \in 1 .. N |-> pages[i].start]
           to == [i \in 1 .. N |-> pages[i].end]
           T == UNION {{data(i)[p] : p \in DOMAIN data(i)} : i \in 1 .. N}
<1>1. IsRange(range) /\ N = Len(pages)
  BY DEF UserInv, IsCall
<1>2. range.start \in Day /\ range.end \in Day /\ range.start <= range.end
      /\ range.start \in Int /\ range.end \in Int
  BY <1>1 DEF IsRange, Day
<1>3. N \in Nat \ {0}
      /\ (\A i \in 1 .. N : /\ pages[i].start \in Day /\ pages[i].end \in Day
                            /\ range.start <= pages[i].start /\ pages[i].end <= range.end)
      /\ pages[1].start = range.start /\ pages[N].end = range.end
      /\ (\A i \in 2 .. N : pages[i].start = pages[i - 1].end + 1)
      /\ (\A i, j \in 1 .. N : i < j => pages[i].end < pages[j].start)
  <2>1. pages = SplitRange(range.start, range.end, MaxRange)
    BY DEF Pages
  <2>2. N = Len(pages)
    BY <1>1
  <2> HIDE DEF N, range, pages
  <2>3. CutUp(pages, range.start, range.end)
    BY <1>2, <2>1, SplitCovers
  <2>4. QED
    BY <2>2, <2>3 DEF CutUp
<1>4. ASSUME NEW i \in 1 .. N
      PROVE  /\ \E S : data(i) \in Seq(S)
             /\ Ordered(Len(data(i)), data(i), pages[i].start, pages[i].end)
             /\ call[u].subject = "metrics" => Days(Len(data(i)), data(i), pages[i].start, pages[i].end)
  <2>1. <<u, i>> \in PageConns(u)
    BY DEF PageConns
  <2>2. HasAnswer(<<u, i>>) /\ ~Refused(<<u, i>>)
    BY <2>1
  <2>3. QED
    BY <2>2, PageAnswer
<1> HIDE DEF N, range, pages, data
<1>5. ASSUME NEW i \in 1 .. N PROVE s[i] \in Seq(T)
  <2>1. PICK S : data(i) \in Seq(S)
    BY <1>4
  <2>2. \A p \in 1 .. Len(data(i)) : data(i)[p] \in T
    BY <2>1
  <2> HIDE DEF T
  <2>3. data(i) \in [1 .. Len(data(i)) -> T] /\ Len(data(i)) \in Nat
    BY <2>1, <2>2
  <2>4. data(i) \in Seq(T)
    BY <2>3
  <2>5. QED
    BY <2>4
<1> HIDE DEF T
<1>6. s \in Seq(Seq(T)) /\ Len(s) = N /\ s # <<>>
  <2>1. s \in [1 .. N -> Seq(T)]
    BY <1>5
  <2> HIDE DEF s
  <2>2. QED
    BY <1>3, <2>1
<1>7. from \in [1 .. N -> Int] /\ to \in [1 .. N -> Int]
      /\ from[1] = range.start /\ to[N] = range.end
      /\ (\A i \in 1 .. N : range.start <= from[i] /\ to[i] <= range.end)
      /\ (\A i \in 2 .. N : from[i] = to[i - 1] + 1)
      /\ (\A i, j \in 1 .. N : i < j => to[i] < from[j])
  <2>1. from \in [1 .. N -> Int] /\ to \in [1 .. N -> Int]
    BY <1>3 DEF Day
  <2>2. from[1] = range.start /\ to[N] = range.end
    BY <1>3
  <2>3. \A i \in 1 .. N : range.start <= from[i] /\ to[i] <= range.end
    BY <1>3
  <2>4. ASSUME NEW i \in 2 .. N PROVE from[i] = to[i - 1] + 1
    <3>1. i \in 1 .. N /\ i - 1 \in 1 .. N
      BY <1>3
    <3>2. QED
      BY <1>3, <3>1
  <2>5. \A i, j \in 1 .. N : i < j => to[i] < from[j]
    BY <1>3
  <2>6. QED
    BY <2>1, <2>2, <2>3, <2>4, <2>5
<1>8. \A i \in 1 .. N : Ordered(Len(s[i]), s[i], from[i], to[i])
  BY <1>4
<1>9. call[u].subject = "metrics" => \A i \in 1 .. N : Days(Len(s[i]), s[i], from[i], to[i])
  BY <1>4
<1> DEFINE f == FlattenSeq(s)
<1>10. f = Joined(u)
  BY DEF Joined, N, data
<1> HIDE DEF s, from, to
<1>11. f \in Seq(T) /\ Ordered(Len(f), f, range.start, range.end)
  BY <1>2, <1>6, <1>7, <1>8, FlattenOrdered
<1>12. call[u].subject = "metrics" => Days(Len(f), f, range.start, range.end)
  BY <1>6, <1>7, <1>9, FlattenDays
<1> HIDE DEF f
<1>13. DOMAIN f = 1 .. Len(f)
  BY <1>11
<1>14. CASE call[u].subject = "metrics"
  <2>1. Len(f) = range.end - range.start + 1 /\ \A i \in 1 .. Len(f) : f[i].date = range.start + i - 1
    BY <1>12, <1>14 DEF Days
  <2>2. [i \in DOMAIN f |-> f[i].date] = [i \in 1 .. range.end - range.start + 1 |-> range.start + i - 1]
    BY <1>13, <2>1
  <2>3. QED
    BY <1>10, <1>14, <2>2 DEF Covered, range
<1>15. CASE call[u].subject # "metrics"
  BY <1>10, <1>11, <1>13, <1>15 DEF Covered, Ordered, range
<1>16. QED
  BY <1>14, <1>15

(* PagesCoverRange: the pages of a call, cut by bounds that may be stale   *)
(* and answered in any order, join to every day of its range exactly once  *)
(* and in order (splitRange, fetchAutoPaginated).                          *)
THEOREM PagesAlwaysCover == Spec => []PagesCoverRange
<1> DEFINE Done(u) == call[u].stage = "done" => Covered(call[u].subject, call[u].range, call[u].result)
<1>1. PagesCoverRange <=> \A u \in User : Done(u)
  BY DEF PagesCoverRange, Covered
<1>2. Init => PagesCoverRange
  BY DEF Init, PagesCoverRange
<1>3. ASSUME ApiInv, ClientInv, PagesCoverRange, [Next]_vars
      PROVE  PagesCoverRange'
  <2>1. SUFFICES ASSUME NEW u \in User, call'[u].stage = "done"
                 PROVE  Covered(call'[u].subject, call'[u].range, call'[u].result)
    BY DEF PagesCoverRange, Covered
  <2>2. Done(u) /\ DOMAIN call = User
    BY <1>1, <1>3 DEF ApiInv, InputsInv
  <2>3. CASE call'[u] = call[u]
    BY <2>1, <2>2, <2>3
  <2>4. ASSUME NEW v \in User, JoinPages(v) PROVE Covered(call'[u].subject, call'[u].range, call'[u].result)
    <3>1. call' = [call EXCEPT ![v] = [stage |-> "done", subject |-> call[v].subject,
                                       range |-> call[v].range, result |-> Joined(v)]]
      BY <2>4 DEF JoinPages, Joined
    <3>2. CASE v # u
      BY <2>2, <2>3, <3>1, <3>2
    <3>3. CASE v = u
      <4>1. /\ call'[u].subject = call[u].subject /\ call'[u].range = call[u].range
            /\ call'[u].result = Joined(u)
        BY <2>2, <3>1, <3>3
      <4>2. Covered(call[u].subject, call[u].range, Joined(u))
        BY <1>3, <2>4, <3>3, JoinedCovers DEF JoinPages, ClientInv
      <4>3. QED
        BY <4>1, <4>2
    <3>4. QED
      BY <3>2, <3>3
  <2>5. CASE ~\E v \in User : JoinPages(v)
    <3>1. call'[u] = call[u]
      <4>1. \A v : Failed(v).stage # "done" /\ PagesCall(v).stage # "done"
        BY DEF Failed, PagesCall
      <4>2. ASSUME Rejected PROVE call'[u] = call[u]
        BY <2>1, <4>1, <4>2 DEF Rejected
      <4>3. ASSUME NEW v \in User, NEW w, call' = [call EXCEPT ![v] = w], w.stage # "done"
            PROVE  call'[u] = call[u]
        BY <2>1, <2>2, <4>3
      <4>4. ASSUME NEW v \in User, NEW input \in Inputs, BeginCall(v, input) PROVE call'[u] = call[u]
        <5>1. \E w : call' = [call EXCEPT ![v] = w] /\ w.stage # "done"
          <6>1. PICK p, b : call' = [call EXCEPT ![v] = [stage |-> "bounds", input |-> input,
                                                        published |-> p, before |-> b]]
            BY <4>4 DEF BeginCall
          <6> DEFINE w == [stage |-> "bounds", input |-> input, published |-> p, before |-> b]
          <6>2. w.stage # "done"
            OBVIOUS
          <6> HIDE DEF w
          <6>3. call' = [call EXCEPT ![v] = w]
            BY <6>1 DEF w
          <6>4. QED
            BY <6>2, <6>3
        <5>2. QED
          BY <4>3, <5>1
      <4>5. ASSUME NEW v \in User, SplitPages(v) PROVE call'[u] = call[u]
        <5>1. call' = [call EXCEPT ![v] = Failed(v)] \/ call' = [call EXCEPT ![v] = PagesCall(v)]
          BY <4>5, SplitCases DEF TurnedDown, AsksPages
        <5>2. QED
          BY <4>1, <4>3, <5>1
      <4>6. ASSUME NEW v \in User, PageRefused(v) PROVE call'[u] = call[u]
        BY <4>1, <4>3, <4>6 DEF PageRefused
      <4>7. ASSUME FetchFails PROVE call'[u] = call[u]
        BY <4>1, <4>2, <4>3, <4>7 DEF FetchFails
      <4>8. ASSUME BoundsArrive PROVE call'[u] = call[u]
        BY <4>2, <4>8 DEF BoundsArrive
      <4>9. CASE UNCHANGED call
        BY <4>9
      <4>10. ASSUME (\E q \in Requests : Send(q)) \/ Server \/ Publishing \/ UNCHANGED vars
             PROVE  UNCHANGED call
        BY <4>10 DEF Send, Server, clientVars, Publishing, Change, vars
      <4>11. QED
        BY <1>3, <2>5, <4>4, <4>5, <4>6, <4>7, <4>8, <4>9, <4>10 DEF Next, Client
    <3>2. QED
      BY <2>3, <3>1
  <2>6. QED
    BY <2>4, <2>5
<1>4. QED
  BY <1>2, <1>3, ApiInvariant, ClientInvariant, PTL DEF Spec

-----------------------------------------------------------------------------
(* Why a call fails.                                                       *)

LEMMA FaultsGrow ==
    ASSUME ApiInv, drops \in Nat, Next
    PROVE  /\ Faults \in Nat /\ Faults' \in Nat /\ Faults <= Faults'
           /\ FetchFails => Faults < Faults'
<1>1. readFaults \in Nat
  BY DEF ApiInv, ExchangesInv
<1>2. CASE FetchFails
  <2>1. readFaults' = readFaults /\ drops' = drops + 1
    BY <1>2 DEF FetchFails
  <2>2. QED
    BY <1>1, <2>1 DEF Faults
<1>3. CASE Server
  <2>1. PICK c \in Conn : ServeStep(c) \/ ReadFails(c)
    BY <1>3 DEF Server
  <2>2. readFaults' = readFaults \/ readFaults' = readFaults + 1
    BY <2>1 DEF ServeStep, ReadManifest, ReadShard, Respond, ReadFails
  <2>3. drops' = drops
    BY <1>3 DEF Server, clientVars
  <2>4. ~FetchFails
    BY <2>3 DEF FetchFails
  <2>5. QED
    BY <1>1, <2>2, <2>3, <2>4 DEF Faults
<1>4. CASE ~FetchFails /\ ~Server
  <2>1. readFaults' = readFaults /\ drops' = drops
    BY <1>4, SplitCases DEF Next, Client, BeginCall, Send, BoundsArrive, JoinPages, PageRefused,
                            Publishing, Change, apiVars
  <2>2. QED
    BY <1>1, <1>4, <2>1 DEF Faults
<1>5. QED
  BY <1>2, <1>3, <1>4

(* A call that a step leaves alone.                                        *)
LEMMA CauseKept ==
    ASSUME NEW u, CauseOf(u), call'[u] = call[u],
           Faults \in Nat, Faults' \in Nat, Faults <= Faults',
           manifest # None => manifest' # None,
           Fails(u)' /\ call[u].published => Fails(u) \/ Faults < Faults'
    PROVE  CauseOf(u)'
<1>1. /\ call[u].stage \in {"bounds", "pages", "failed"}
            => call[u].before \in Int /\ call[u].before <= Faults
      /\ call[u].stage \in {"bounds", "pages"} /\ call[u].published => manifest # None
      /\ Fails(u) /\ call[u].published => call[u].before < Faults
  BY DEF CauseOf
<1>2. Fails(u)' => call[u].stage \in {"bounds", "pages", "failed"}
  BY DEF Fails
<1> DEFINE F == Faults
           G == Faults'
           b == call[u].before
<1>3. F \in Nat /\ G \in Nat /\ F <= G
  OBVIOUS
<1> HIDE DEF F, G, b
<1>4. b \in Int /\ b <= F => b <= G
  BY <1>3
<1>5. b \in Int /\ b <= F /\ F < G => b < G
  BY <1>3
<1>6. b \in Int /\ b < F => b < G
  BY <1>3
<1>7. /\ call[u].stage \in {"bounds", "pages", "failed"} => b \in Int /\ b <= G
      /\ call[u].stage \in {"bounds", "pages"} /\ call[u].published => manifest' # None
  BY <1>1, <1>4 DEF b, F
<1>8. Fails(u)' /\ call[u].published => b < G
  <2>1. SUFFICES ASSUME Fails(u)', call[u].published PROVE b < G
    OBVIOUS
  <2>2. b \in Int /\ b <= F
    BY <1>1, <1>2, <2>1 DEF b, F
  <2>3. CASE Fails(u)
    BY <1>1, <1>6, <2>1, <2>2, <2>3 DEF b, F
  <2>4. CASE F < G
    BY <1>5, <2>2, <2>4
  <2>5. QED
    BY <2>1, <2>3, <2>4 DEF F, G
<1>9. QED
  BY <1>7, <1>8 DEF CauseOf, b, G

(* A call that fails.                                                      *)
LEMMA CauseMet ==
    ASSUME NEW u, CauseOf(u), call[u].stage \in {"bounds", "pages"}, call'[u] = Failed(u),
           Faults \in Nat, Faults' \in Nat, Faults <= Faults',
           call[u].published => Fails(u) \/ Faults < Faults'
    PROVE  CauseOf(u)'
<1>1. /\ call'[u].stage = "failed" /\ call'[u].before = call[u].before
      /\ call'[u].published = call[u].published
  BY DEF Failed
<1>2. call[u].before \in Int /\ call[u].before <= Faults
  BY DEF CauseOf
<1>3. Fails(u) /\ call[u].published => call[u].before < Faults
  BY DEF CauseOf
<1> DEFINE F == Faults
           G == Faults'
           b == call[u].before
<1>4. F \in Nat /\ G \in Nat /\ F <= G /\ b \in Int /\ b <= F
  BY <1>2
<1> HIDE DEF F, G, b
<1>5. b <= G /\ (b < F => b < G) /\ (F < G => b < G)
  BY <1>4
<1>6. call[u].published => b < G
  BY <1>3, <1>5 DEF b, F, G
<1>7. QED
  BY <1>1, <1>4, <1>5, <1>6 DEF CauseOf, b, G

(* Nothing but a refusal brings a call closer to failing.                  *)
LEMMA FailsKept ==
    ASSUME NEW u, call'[u] = call[u],
           call[u].stage = "bounds" => (Refused(BoundsConn)' => Refused(BoundsConn)),
           call[u].stage = "pages" =>
               \A i \in 1 .. call[u].count : Refused(<<u, i>>)' => Refused(<<u, i>>)
    PROVE  Fails(u)' => Fails(u)
<1>1. PageConns(u)' = PageConns(u)
  BY DEF PageConns
<1>2. ASSUME call[u].stage = "pages", NEW c \in PageConns(u), Refused(c)' PROVE Refused(c)
  BY <1>2 DEF PageConns
<1>3. QED
  BY <1>1, <1>2 DEF Fails

LEMMA RefusedKept ==
    ASSUME NEW c, exchange'[c] = exchange[c] \/ exchange'[c].stage # "answered"
    PROVE  Refused(c)' => Refused(c)
  BY DEF Refused, HasAnswer

(* The server turns down no page, and no request for published bounds,     *)
(* without a failed read.                                                  *)
LEMMA PageLetThrough ==
    ASSUME ApiInv, NEW u \in User, UserInv(u), NEW i \in 1 .. MaxPages, ServeStep(<<u, i>>)
    PROVE  ~Refused(<<u, i>>)'
<1> DEFINE c == <<u, i>>
           x == exchange[c]
<1>1. c \in Conn /\ ExchangesInv
  BY Connections DEF ApiInv
<1>2. CASE ReadManifest(c)
  <2>1. x.stage = "manifest" /\ Located(x) = Opened(x, manifest)
    BY <1>2, PageRead DEF ReadManifest
  <2>2. exchange'[c] = Opened(x, manifest)
    BY <1>1, <1>2, <2>1, CarriedOthers DEF ReadManifest
  <2>3. exchange'[c].stage = "reading"
    BY <2>2 DEF Opened
  <2>4. QED
    BY <2>3 DEF Refused, HasAnswer
<1>3. ASSUME NEW k \in Kind, ReadShard(c, k) PROVE ~Refused(c)'
  <2>1. \E month : Carry(c, AfterRead(x, k, month))
    BY <1>3 DEF ReadShard, AfterRead
  <2>2. Reading(x)
    BY <1>1, <1>3 DEF ReadShard, ExchangesInv, ExchangeInv
  <2>3. PICK month : exchange'[c] = AfterRead(x, k, month)
    BY <1>1, <2>1, CarriedOthers
  <2> HIDE DEF x
  <2>4. AfterRead(x, k, month).stage = "reading"
    BY <2>2, ReadKeeps, Zenon
  <2>5. exchange'[c].stage = "reading"
    BY <2>3, <2>4
  <2>6. QED
    BY <2>5 DEF Refused, HasAnswer
<1>4. CASE Respond(c)
  <2>1. exchange'[c] = Answered(x, Success(Data(x)))
    BY <1>1, <1>4, CarriedOthers DEF Respond
  <2>2. exchange'[c].answer.status = 200
    BY <2>1 DEF Answered, Success
  <2>3. QED
    BY <2>2 DEF Refused
<1>5. QED
  BY <1>2, <1>3, <1>4 DEF ServeStep

LEMMA BoundsLetIn ==
    ASSUME ApiInv, BoundsInv, manifest # None, ServeStep(BoundsConn)
    PROVE  ~Refused(BoundsConn)'
<1> DEFINE x == exchange[BoundsConn]
<1>1. BoundsConn \in Conn /\ ExchangesInv
  BY Connections DEF ApiInv
<1>2. x = [stage |-> "manifest", request |-> BoundsRequest]
  <2>1. x.stage \in {"manifest", "reading"}
    BY DEF ServeStep, ReadManifest, ReadShard, Respond
  <2>2. QED
    BY <2>1 DEF BoundsInv, Free
<1>3. ReadManifest(BoundsConn)
  BY <1>2 DEF ServeStep, ReadShard, Respond
<1>4. exchange'[BoundsConn] = Answered(x, Success(Bounds(manifest)))
  <2>1. x.request.path = BoundsPath
    BY <1>2, BoundsArrives
  <2>2. QED
    BY <1>1, <1>3, <2>1, CarriedOthers, LocatedCases DEF ReadManifest
<1>5. exchange'[BoundsConn].answer.status = 200
  BY <1>4 DEF Answered, Success
<1>6. QED
  BY <1>5 DEF Refused

(* The exchanges of a call's pages when it asks for them.                  *)
LEMMA PagesSent ==
    ASSUME NEW u \in User, AsksPages(u), call[u].input \in Inputs,
           NEW i \in 1 .. MaxPages, i <= Len(Cut(u))
    PROVE  exchange'[<<u, i>>].stage = "manifest"
<1> DEFINE input == call[u].input
<1>1. /\ input.subject \in {"metrics", "assets", "supply"} \cap Kind
      /\ (input.records => input.subject = "metrics")
  BY ClientAssumption
<1>2. exchange'[<<u, i>>] = Arrived(Get(<<"v2", input.subject>>, Cut(u)[i], input.records))
  BY AskedOthers
<1> HIDE DEF input
<1>3. PICK s, r : /\ s \in {"metrics", "assets", "supply"}
                  /\ s = input.subject /\ r = input.records
  BY <1>1
<1>4. r => s = "metrics"
  BY <1>1, <1>3, Zenon
<1>5. \A page : Arrived(Get(<<"v2", s>>, page, r))
                  = [stage |-> "manifest", request |-> Get(<<"v2", s>>, page, r)]
  <2>1. s \in {"metrics", "assets", "supply"}
    BY <1>3
  <2>2. QED
    BY <1>4, <2>1, PageArrives, Zenon
<1>6. exchange'[<<u, i>>] = [stage |-> "manifest", request |-> Get(<<"v2", s>>, Cut(u)[i], r)]
  <2>1. exchange'[<<u, i>>] = Arrived(Get(<<"v2", s>>, Cut(u)[i], r))
    BY <1>2, <1>3, Zenon
  <2>2. QED
    BY <1>5, <2>1, Zenon
<1>7. QED
  BY <1>6

LEMMA PendingStep ==
    ASSUME ApiInv, BoundsInv, PendingInv, Next
    PROVE  PendingInv'
<1>1. DOMAIN call = User
  BY DEF ApiInv, InputsInv
<1>2. ASSUME boundsPromise' = boundsPromise,
             \A u \in User : call'[u].stage = "bounds" <=> call[u].stage = "bounds"
      PROVE  PendingInv'
  <2>1. Waiting' = Waiting
    BY <1>2 DEF Waiting
  <2>2. QED
    BY <1>2, <2>1 DEF PendingInv
<1>3. ASSUME NEW v \in User, NEW w, call' = [call EXCEPT ![v] = w],
             w.stage # "bounds", call[v].stage # "bounds", boundsPromise' = boundsPromise
      PROVE  PendingInv'
  BY <1>1, <1>2, <1>3
<1>4. \A v : Failed(v).stage = "failed" /\ PagesCall(v).stage = "pages"
  BY DEF Failed, PagesCall
<1>5. ASSUME Rejected PROVE PendingInv'
  <2>1. Waiting' = {}
    BY <1>4, <1>5 DEF Rejected, Waiting
  <2>2. boundsPromise' # Pending
    BY <1>5 DEF Rejected, NoPromise, Pending
  <2>3. QED
    BY <2>1, <2>2 DEF PendingInv
<1>6. ASSUME boundsPromise'.state = "value" PROVE PendingInv'
  BY <1>6 DEF PendingInv, Pending
<1>7. ASSUME NEW v \in User, NEW input \in Inputs, BeginCall(v, input) PROVE PendingInv'
  <2>1. call'[v].stage = "bounds"
    <3>1. PICK p, b : call' = [call EXCEPT ![v] =
                                 [stage |-> "bounds", input |-> input, published |-> p, before |-> b]]
      BY <1>7 DEF BeginCall
    <3>2. QED
      BY <1>1, <3>1
  <2>2. v \in Waiting'
    BY <2>1 DEF Waiting
  <2>3. boundsPromise' = Pending \/ boundsPromise'.state = "value"
    <3>1. CASE boundsPromise = NoPromise
      BY <1>7, <3>1 DEF BeginCall
    <3>2. CASE boundsPromise # NoPromise
      <4>1. boundsPromise' = boundsPromise
        BY <1>7, <3>2 DEF BeginCall
      <4>2. boundsPromise = Pending \/ boundsPromise.state = "value"
        BY <3>2 DEF BoundsInv
      <4>3. QED
        BY <4>1, <4>2
    <3>3. QED
      BY <3>1, <3>2
  <2>4. CASE boundsPromise' = Pending
    BY <2>2, <2>4 DEF PendingInv, Pending
  <2>5. QED
    BY <1>6, <2>3, <2>4
<1>8. ASSUME BoundsArrive PROVE PendingInv'
  <2>1. CASE Refused(BoundsConn)
    BY <1>5, <1>8, <2>1 DEF BoundsArrive
  <2>2. CASE ~Refused(BoundsConn)
    <3>1. boundsPromise' = [state |-> "value", bounds |-> exchange[BoundsConn].answer.data]
      BY <1>8, <2>2 DEF BoundsArrive
    <3>2. QED
      BY <1>6, <3>1
  <2>3. QED
    BY <2>1, <2>2
<1>9. ASSUME NEW v \in User, SplitPages(v) PROVE PendingInv'
  <2>1. boundsPromise'.state = "value"
    BY <1>9, SplitCases
  <2>2. QED
    BY <1>6, <2>1
<1>10. ASSUME NEW v \in User, JoinPages(v) PROVE PendingInv'
  <2> DEFINE w == [stage |-> "done", subject |-> call[v].subject, range |-> call[v].range,
                   result |-> FlattenSeq([i \in 1 .. call[v].count |-> exchange[<<v, i>>].answer.data])]
  <2>1. call' = [call EXCEPT ![v] = w] /\ call[v].stage # "bounds" /\ boundsPromise' = boundsPromise
    BY <1>10 DEF JoinPages
  <2>2. w.stage # "bounds"
    OBVIOUS
  <2> HIDE DEF w
  <2>3. QED
    BY <1>3, <2>1, <2>2
<1>11. ASSUME NEW v \in User, PageRefused(v) PROVE PendingInv'
  BY <1>3, <1>4, <1>11 DEF PageRefused
<1>12. ASSUME FetchFails PROVE PendingInv'
  BY <1>3, <1>4, <1>5, <1>12 DEF FetchFails
<1>13. ASSUME (\E q \in Requests : Send(q)) \/ Server \/ Publishing PROVE PendingInv'
  <2>1. UNCHANGED call /\ UNCHANGED boundsPromise
    BY <1>13 DEF Send, Server, clientVars, Publishing, Change
  <2>2. QED
    BY <1>2, <2>1
<1>14. QED
  BY <1>7, <1>8, <1>9, <1>10, <1>11, <1>12, <1>13 DEF Next, Client

LEMMA CauseStep ==
    ASSUME ApiInv, ClientInv, PendingInv, RangesNotEmpty, Next, NEW u \in User, CauseOf(u)
    PROVE  CauseOf(u)'
<1>1. /\ Faults \in Nat /\ Faults' \in Nat /\ Faults <= Faults'
      /\ FetchFails => Faults < Faults'
  BY FaultsGrow DEF ClientInv
<1>2. manifest # None => manifest' # None
  BY ManifestStays DEF ClientInv, BoundsInv, ManifestHeads
<1>3. BoundsInv /\ UserInv(u) /\ ExchangesInv /\ DOMAIN call = User
  BY DEF ClientInv, ApiInv, InputsInv
<1>4. /\ BoundsConn \in Conn /\ DirectConn \in Conn
      /\ \A i \in 1 .. MaxPages : <<u, i>> \in Conn /\ <<u, i>> # BoundsConn /\ <<u, i>> # DirectConn
      /\ call[u].stage = "pages" => \A i \in 1 .. call[u].count : i \in 1 .. MaxPages
  <2>1. call[u].stage = "pages" => call[u].count = Len(Pages(u)) /\ call[u].count <= MaxPages
    BY <1>3 DEF UserInv, IsCall
  <2>2. call[u].stage = "pages" => Len(Pages(u)) \in Nat
    <3>1. call[u].stage = "pages" => IsRange(call[u].range)
      BY <1>3 DEF UserInv, IsCall
    <3>2. QED
      BY <3>1, SplitCovers DEF CutUp, Pages, IsRange
  <2>3. QED
    BY <2>1, <2>2, Connections, ClientAssumption
(* The step brings a fault, or refuses nothing.                            *)
<1>5. ASSUME call'[u] = call[u], Faults < Faults' PROVE CauseOf(u)'
  BY <1>1, <1>2, <1>5, CauseKept
<1>6. ASSUME call'[u] = call[u],
             call[u].stage = "bounds" /\ call[u].published
                 => (Refused(BoundsConn)' => Refused(BoundsConn)),
             call[u].stage = "pages" =>
                 \A i \in 1 .. MaxPages : Refused(<<u, i>>)' => Refused(<<u, i>>)
      PROVE  CauseOf(u)'
  <2>1. CASE call[u].published
    <3>1. Fails(u)' => Fails(u)
      BY <1>4, <1>6, <2>1, FailsKept
    <3>2. QED
      BY <1>1, <1>2, <1>6, <3>1, CauseKept
  <2>2. CASE ~call[u].published
    BY <1>1, <1>2, <1>6, <2>2, CauseKept
  <2>3. QED
    BY <2>1, <2>2
<1>7. ASSUME call'[u] = call[u],
             exchange'[BoundsConn] = exchange[BoundsConn] \/ exchange'[BoundsConn].stage # "answered",
             \A i \in 1 .. MaxPages : exchange'[<<u, i>>] = exchange[<<u, i>>]
      PROVE  CauseOf(u)'
  <2>1. Refused(BoundsConn)' => Refused(BoundsConn)
    BY <1>7, RefusedKept
  <2>2. \A i \in 1 .. MaxPages : Refused(<<u, i>>)' => Refused(<<u, i>>)
    BY <1>7, RefusedKept
  <2>3. QED
    BY <1>6, <1>7, <2>1, <2>2
<1>8. ASSUME NEW y, Carry(BoundsConn, y) \/ Carry(DirectConn, y)
      PROVE  /\ \A i \in 1 .. MaxPages : exchange'[<<u, i>>] = exchange[<<u, i>>]
             /\ Carry(BoundsConn, y) => exchange'[BoundsConn] = y
             /\ Carry(DirectConn, y) => exchange'[BoundsConn] = exchange[BoundsConn]
  <2>1. CASE Carry(BoundsConn, y)
    BY <1>3, <1>4, <2>1, CarriedOthers, Connections DEF Carry, ExchangesInv
  <2>2. CASE Carry(DirectConn, y)
    BY <1>3, <1>4, <2>2, CarriedOthers, Connections DEF Carry, ExchangesInv
  <2>3. QED
    BY <1>8, <2>1, <2>2
<1>9. Free.stage # "answered" /\ Arrived(BoundsRequest).stage # "answered"
  BY BoundsLetThrough DEF Free
<1>10. ASSUME NEW v \in User, NEW input \in Inputs, BeginCall(v, input) PROVE CauseOf(u)'
  <2>1. /\ \A i \in 1 .. MaxPages : exchange'[<<u, i>>] = exchange[<<u, i>>]
        /\ \/ boundsPromise = NoPromise /\ exchange'[BoundsConn].stage # "answered"
           \/ boundsPromise # NoPromise /\ exchange' = exchange
    BY <1>8, <1>9, <1>10 DEF BeginCall
  <2>2. CASE v # u
    <3>1. call'[u] = call[u]
      BY <1>3, <1>10, <2>2 DEF BeginCall
    <3>2. QED
      BY <1>7, <2>1, <3>1
  <2>3. CASE v = u
    <3> DEFINE before == IF JoinsFailure THEN Faults - 1 ELSE Faults
    <3>1. PICK p : /\ p = (manifest # None)
                   /\ call' = [call EXCEPT ![u] = [stage |-> "bounds", input |-> input,
                                                   published |-> p, before |-> before]]
      BY <1>10, <2>3 DEF BeginCall
    <3> HIDE DEF before
    <3>2. call'[u] = [stage |-> "bounds", input |-> input, published |-> p, before |-> before]
      BY <1>3, <3>1
    <3>3. call'[u].stage = "bounds" /\ call'[u].published = p /\ call'[u].before = before
      BY <3>2
    <3>4. before \in Int /\ before <= Faults'
      BY <1>1 DEF before
    <3>5. Refused(BoundsConn)' => before < Faults'
      <4>1. CASE JoinsFailure
        BY <1>1, <4>1 DEF before
      <4>2. CASE ~JoinsFailure
        <5>1. CASE boundsPromise = NoPromise
          BY <2>1, <5>1 DEF Refused, HasAnswer
        <5>2. CASE boundsPromise # NoPromise
          <6>1. Refused(BoundsConn)' => Refused(BoundsConn)
            BY <2>1, <5>2, RefusedKept
          <6>2. Refused(BoundsConn) => Waiting # {}
            <7>1. Refused(BoundsConn) => exchange[BoundsConn] # Free
              BY <1>9 DEF Refused, HasAnswer
            <7>2. QED
              BY <1>3, <7>1 DEF BoundsInv, PendingInv
          <6>3. QED
            BY <4>2, <6>1, <6>2 DEF JoinsFailure
        <5>3. QED
          BY <5>1, <5>2
      <4>3. QED
        BY <4>1, <4>2
    <3>6. manifest' = manifest
      BY <1>10 DEF BeginCall, artifactVars
    <3>7. call'[u].published => manifest' # None
      BY <3>1, <3>3, <3>6
    <3>8. Fails(u)' => Refused(BoundsConn)'
      BY <3>3 DEF Fails
    <3>9. QED
      BY <3>3, <3>4, <3>5, <3>7, <3>8 DEF CauseOf
  <2>4. QED
    BY <2>2, <2>3
<1>11. ASSUME NEW q \in Requests, Send(q) PROVE CauseOf(u)'
  BY <1>7, <1>8, <1>11 DEF Send
<1>12. ASSUME BoundsArrive PROVE CauseOf(u)'
  <2>1. /\ exchange'[BoundsConn].stage # "answered"
        /\ \A i \in 1 .. MaxPages : exchange'[<<u, i>>] = exchange[<<u, i>>]
    BY <1>8, <1>9, <1>12 DEF BoundsArrive
  <2>2. CASE call'[u] = call[u]
    BY <1>7, <2>1, <2>2
  <2>3. CASE call'[u] # call[u]
    <3>1. Refused(BoundsConn) /\ call[u].stage = "bounds" /\ call'[u] = Failed(u)
      BY <1>12, <2>3 DEF BoundsArrive, Rejected, Waiting
    <3>2. Fails(u)
      BY <3>1 DEF Fails
    <3>3. QED
      BY <1>1, <3>1, <3>2, CauseMet
  <2>4. QED
    BY <2>2, <2>3
<1>13. ASSUME NEW v \in User, SplitPages(v) PROVE CauseOf(u)'
  <2>1. call[v].stage = "bounds" /\ boundsPromise.state = "value" /\ manifest' = manifest
    BY <1>13, SplitCases DEF artifactVars
  <2>2. call[v].input \in Inputs
    BY <2>1 DEF ApiInv, InputsInv
  <2>3. /\ ~TurnedDown(v)
        /\ Len(Cut(v)) \in Nat
    <3> DEFINE input == call[v].input
               head == boundsPromise.bounds.latest
    <3>1. head \in Heads \cup {InitialHead} /\ boundsPromise.bounds.maxRange = MaxRange
      BY <1>3, <2>1 DEF BoundsInv, IsBounds
    <3>2. LastOf(v) = IF input.end = NoDate THEN head ELSE input.end
      BY DEF LastOf
    <3>3. Cut(v) = SplitRange(input.start, LastOf(v), MaxRange)
      BY <3>1 DEF Cut
    <3> HIDE DEF input, head
    <3>4. input.start <= LastOf(v)
      BY <2>2, <3>1, <3>2 DEF RangesNotEmpty, input
    <3>5. input.start \in Day /\ LastOf(v) \in Day
      <4>1. PublicStart .. LastDay \subseteq Day
        BY CalendarAssumption DEF Day
      <4>2. head \in Day
        BY <3>1, <4>1, ClientAssumption
      <4>3. input.start \in Day /\ input.end \in Day \cup {NoDate}
        BY <2>2, ClientAssumption DEF input
      <4>4. QED
        BY <3>2, <4>2, <4>3
    <3>6. ~(LastOf(v) < input.start)
      BY <3>4, <3>5 DEF Day
    <3>7. Len(Cut(v)) \in Nat
      BY <3>3, <3>4, <3>5, SplitCovers DEF CutUp
    <3>8. QED
      BY <3>6, <3>7 DEF TurnedDown, input
  <2>4. AsksPages(v)
    BY <1>13, <2>3, SplitCases
  <2>5. CASE v # u
    <3>1. call'[u] = call[u]
      BY <1>3, <2>4, <2>5 DEF AsksPages
    <3>2. QED
      BY <1>7, <2>4, <2>5, <3>1, AskedOthers
  <2>6. CASE v = u
    <3>1. call' = [call EXCEPT ![u] = PagesCall(u)] /\ Len(Cut(u)) <= MaxPages
      BY <2>4, <2>6 DEF AsksPages
    <3>2. call'[u] = PagesCall(u)
      BY <1>3, <3>1
    <3>3. /\ call'[u].stage = "pages" /\ call'[u].count = Len(Cut(u))
          /\ call'[u].before = call[u].before /\ call'[u].published = call[u].published
      BY <3>2 DEF PagesCall
    <3>4. Len(Cut(u)) \in Nat
      BY <2>3, <2>6
    <3>5. ASSUME NEW i \in 1 .. Len(Cut(u)) PROVE ~Refused(<<u, i>>)'
      <4>1. i \in 1 .. MaxPages /\ i <= Len(Cut(u))
        BY <3>1, <3>4, ClientAssumption
      <4>2. exchange'[<<u, i>>].stage = "manifest"
        BY <2>2, <2>4, <2>6, <4>1, PagesSent
      <4>3. QED
        BY <4>2 DEF Refused, HasAnswer
    <3>6. ~Fails(u)'
      BY <3>3, <3>5 DEF Fails, PageConns
    <3>7. /\ call[u].before \in Int /\ call[u].before <= Faults
          /\ call[u].published => manifest # None
      BY <2>1, <2>6 DEF CauseOf
    <3>8. call'[u].before \in Int /\ call'[u].before <= Faults'
      BY <1>1, <3>3, <3>7
    <3>9. call'[u].published => manifest' # None
      BY <2>1, <3>3, <3>7
    <3>10. QED
      BY <3>6, <3>8, <3>9 DEF CauseOf
  <2>7. QED
    BY <2>5, <2>6
<1>14. ASSUME NEW v \in User \ {u}, HangUp(v), call'[u] = call[u] PROVE CauseOf(u)'
  BY <1>3, <1>7, <1>14, HungUpOthers
<1>15. ASSUME NEW v \in User, JoinPages(v) PROVE CauseOf(u)'
  <2>1. CASE v # u
    <3>1. call'[u] = call[u] /\ HangUp(v)
      BY <1>3, <1>15, <2>1 DEF JoinPages
    <3>2. QED
      BY <1>14, <2>1, <3>1
  <2>2. CASE v = u
    <3>1. call'[u].stage = "done"
      BY <1>3, <1>15, <2>2 DEF JoinPages
    <3>2. QED
      BY <3>1 DEF CauseOf, Fails
  <2>3. QED
    BY <2>1, <2>2
<1>16. ASSUME NEW v \in User, PageRefused(v) PROVE CauseOf(u)'
  <2>1. CASE v # u
    <3>1. call'[u] = call[u] /\ HangUp(v)
      BY <1>3, <1>16, <2>1 DEF PageRefused
    <3>2. QED
      BY <1>14, <2>1, <3>1
  <2>2. CASE v = u
    <3>1. call'[u] = Failed(u) /\ call[u].stage = "pages" /\ Fails(u)
      BY <1>3, <1>16, <2>2 DEF PageRefused, Fails
    <3>2. QED
      BY <1>1, <3>1, CauseMet
  <2>3. QED
    BY <2>1, <2>2
<1>17. ASSUME FetchFails PROVE CauseOf(u)'
  <2>1. Faults < Faults'
    BY <1>1, <1>17
  <2>2. call'[u] = call[u] \/ (call'[u] = Failed(u) /\ call[u].stage \in {"bounds", "pages"})
    BY <1>3, <1>17 DEF FetchFails, Rejected, Waiting
  <2>3. CASE call'[u] = call[u]
    BY <1>5, <2>1, <2>3
  <2>4. CASE call'[u] = Failed(u) /\ call[u].stage \in {"bounds", "pages"}
    BY <1>1, <2>1, <2>4, CauseMet
  <2>5. QED
    BY <2>2, <2>3, <2>4
<1>18. ASSUME Server PROVE CauseOf(u)'
  <2>1. PICK c \in Conn : ServeStep(c) \/ ReadFails(c)
    BY <1>18 DEF Server
  <2>2. call' = call /\ drops' = drops /\ manifest' = manifest
    BY <1>18 DEF Server, clientVars, artifactVars
  <2>3. CASE ReadFails(c)
    <3>1. readFaults' = readFaults + 1 /\ readFaults \in Nat /\ drops \in Nat
      BY <1>3, <2>3 DEF ReadFails, ExchangesInv, ClientInv
    <3>2. Faults < Faults'
      BY <2>2, <3>1 DEF Faults
    <3>3. QED
      BY <1>5, <2>2, <3>2
  <2>4. CASE ServeStep(c)
    <3>1. \A d \in Conn \ {c} : exchange'[d] = exchange[d]
      <4>1. \E y : Carry(c, y)
        BY <2>4 DEF ServeStep, ReadManifest, ReadShard, Respond
      <4>2. QED
        BY <1>3, <4>1, CarriedOthers
    <3>2. ASSUME call[u].stage = "bounds", call[u].published
          PROVE  Refused(BoundsConn)' => Refused(BoundsConn)
      <4>1. manifest # None
        BY <3>2 DEF CauseOf
      <4>2. CASE c = BoundsConn
        BY <1>3, <2>4, <4>1, <4>2, BoundsLetIn
      <4>3. CASE c # BoundsConn
        BY <1>4, <3>1, <4>3, RefusedKept
      <4>4. QED
        BY <4>2, <4>3
    <3>3. ASSUME NEW i \in 1 .. MaxPages PROVE Refused(<<u, i>>)' => Refused(<<u, i>>)
      <4>1. CASE c = <<u, i>>
        BY <1>3, <2>4, <4>1, PageLetThrough
      <4>2. CASE c # <<u, i>>
        BY <1>4, <3>1, <4>2, RefusedKept
      <4>3. QED
        BY <4>1, <4>2
    <3>4. QED
      BY <1>6, <2>2, <3>2, <3>3
  <2>5. QED
    BY <2>1, <2>3, <2>4
<1>19. ASSUME Publishing PROVE CauseOf(u)'
  <2>1. call' = call /\ exchange' = exchange
    BY <1>19 DEF Publishing, Change, apiVars
  <2>2. QED
    BY <1>7, <2>1
<1>20. QED
  BY <1>10, <1>11, <1>12, <1>13, <1>15, <1>16, <1>17, <1>18, <1>19 DEF Next, Client

(* FailsForCause: a call for a range with a day, made while a manifest is  *)
(* published, fails only because of a fault that it met: a failed fetch of *)
(* the bounds is not kept for later calls (getCachedBounds).               *)
THEOREM FailuresHaveCause ==
    ASSUME RangesNotEmpty
    PROVE  Spec => []FailsForCause
<1>1. Init => CauseInv
  <2>1. SUFFICES ASSUME Init PROVE CauseInv
    OBVIOUS
  <2>2. \A u \in User : call[u].stage = "idle"
    BY <2>1 DEF Init
  <2>3. PendingInv
    BY <2>1, <2>2 DEF Init, PendingInv, Waiting, NoPromise, Pending
  <2>4. \A u \in User : CauseOf(u)
    BY <2>2 DEF CauseOf, Fails
  <2>5. QED
    BY <2>3, <2>4 DEF CauseInv
<1>2. ApiInv /\ ClientInv /\ CauseInv /\ [Next]_vars => CauseInv'
  <2>1. SUFFICES ASSUME ApiInv, ClientInv, CauseInv, [Next]_vars PROVE CauseInv'
    OBVIOUS
  <2>2. CASE Next
    BY <2>1, <2>2, PendingStep, CauseStep DEF CauseInv, ClientInv
  <2>3. CASE UNCHANGED vars
    <3>1. UNCHANGED <<call, exchange, boundsPromise, manifest, readFaults, drops>>
      BY <2>3 DEF vars, artifactVars, apiVars, clientVars
    <3>2. PendingInv'
      BY <2>1, <3>1 DEF CauseInv, PendingInv, Waiting
    <3>3. \A u \in User : CauseOf(u)'
      BY <2>1, <3>1 DEF CauseInv, CauseOf, Fails, Refused, HasAnswer, PageConns, Faults
    <3>4. QED
      BY <3>2, <3>3 DEF CauseInv
  <2>4. QED
    BY <2>1, <2>2, <2>3
<1>3. ASSUME ApiInv, ClientInv, CauseInv PROVE FailsForCause
  <2>1. SUFFICES ASSUME NEW u \in User, call[u].stage = "failed", call[u].published
                 PROVE  Faults > call[u].before
    BY DEF FailsForCause
  <2>2. call[u].before \in Int /\ call[u].before < Faults
    BY <1>3, <2>1 DEF CauseInv, CauseOf, Fails
  <2>3. Faults \in Nat
    BY <1>3 DEF Faults, ApiInv, ExchangesInv, ClientInv
  <2>4. QED
    BY <2>2, <2>3
<1>4. QED
  BY <1>1, <1>2, <1>3, ApiInvariant, ClientInvariant, PTL DEF Spec

-----------------------------------------------------------------------------
(* The announced days of an answer.                                        *)

(* A shard that is read has the announced days of its month.               *)
LEMMA ReadServes ==
    ASSUME ArtifactsInv, reliable, NEW x, Reading(x), NEW k \in Kind, NEW month,
           manifest # None, manifest.deployment = x.manifest.deployment,
           Extends(manifest, x.manifest), HasDays(x)
    PROVE  HasDays(AfterRead(x, k, month))
<1> DEFINE y == AfterRead(x, k, month)
           new == MonthRows(x.manifest, k, month, x.range)
<1>1. /\ y = [stage |-> "reading", request |-> x.request, manifest |-> x.manifest,
              range |-> x.range, left |-> y.left, rows |-> y.rows]
      /\ y.left = [x.left EXCEPT ![k] = @ \ {month}]
      /\ y.rows = [x.rows EXCEPT ![k] = @ \cup new]
  BY ReadParts
<1> HIDE DEF y, new
<1>2. y.manifest = x.manifest /\ y.range = x.range
  BY <1>1
<1>3. "metrics" \in Kind /\ DOMAIN x.left = Kind /\ DOMAIN x.rows = Kind
  BY ArtifactsAssumption DEF Reading
<1>4. IsManifest(x.manifest) /\ IsManifest(manifest) /\ ServedIn(bucket, manifest)
  BY DEF Reading, ArtifactsInv, Consistent
<1>5. ASSUME NEW d \in x.range.start .. x.range.end, d \in x.manifest.earliest .. x.manifest.latest
      PROVE  MonthOf[d] \in y.left["metrics"] \/ MetricRows(y, d) # {}
  <2>1. MonthOf[d] \in x.left["metrics"] \/ MetricRows(x, d) # {}
    BY <1>5 DEF HasDays
  <2>2. x.rows["metrics"] \subseteq y.rows["metrics"]
    BY <1>1, <1>3
  <2>3. MetricRows(x, d) \subseteq MetricRows(y, d)
    BY <2>2 DEF MetricRows
  <2>4. CASE k = "metrics" /\ MonthOf[d] = month
    <3> DEFINE key == <<x.manifest.deployment, "metrics", month>>
               row == [date |-> d, block |-> bucket[key].version]
    <3>1. key \in x.manifest.listed
      BY <1>4, <1>5, <2>4, AnnouncedListed
    <3>2. ArtifactKey(x.manifest, "metrics", month) = key
      BY <3>1 DEF ArtifactKey
    <3>3. d \in manifest.earliest .. manifest.latest
      BY <1>4, <1>5 DEF Extends, IsManifest, Day
    <3>4. key \in DOMAIN bucket /\ d \in bucket[key].days
      BY <1>4, <2>4, <3>3 DEF ServedIn
    <3>5. row \in new
      BY <1>5, <2>4, <3>2, <3>4 DEF new, MonthRows
    <3>6. row \in y.rows["metrics"] /\ row.date = d
      BY <1>1, <1>3, <2>4, <3>5
    <3> HIDE DEF row
    <3>7. QED
      BY <3>6 DEF MetricRows
  <2>5. CASE k # "metrics" \/ MonthOf[d] # month
    <3>1. MonthOf[d] \in x.left["metrics"] => MonthOf[d] \in y.left["metrics"]
      BY <1>1, <1>3, <2>5
    <3>2. QED
      BY <2>1, <2>3, <3>1
  <2>6. QED
    BY <2>4, <2>5
<1>6. HasDays(y)
  BY <1>2, <1>5 DEF HasDays
<1>7. QED
  BY <1>6 DEF y

(* A request that has just found its manifest has all months to read.      *)
LEMMA OpenedServes ==
    ASSUME NEW x, IsManifest(manifest), IsRange(RequestRange(x.request, manifest))
    PROVE  HasDays(Opened(x, manifest)) /\ Extends(manifest, manifest)
<1> DEFINE y == Opened(x, manifest)
           range == RequestRange(x.request, manifest)
<1>1. y.range = range /\ "metrics" \in Kind
      /\ y.left = [k \in Kind |-> IF k \in KindsRead(x.request)
                                   THEN MonthKeys(range.start, range.end) ELSE {}]
  BY ArtifactsAssumption DEF Opened
<1>2. y.left["metrics"] = MonthKeys(range.start, range.end)
  BY <1>1 DEF KindsRead
<1> HIDE DEF y, range
<1>3. range.start \in Day /\ range.end \in Day
  BY DEF IsRange, range
<1>4. ASSUME NEW d \in range.start .. range.end PROVE MonthOf[d] \in MonthKeys(range.start, range.end)
  BY <1>3, DaysInMonths
<1>5. HasDays(y)
  BY <1>1, <1>2, <1>4 DEF HasDays
<1>6. Extends(manifest, manifest)
  BY DEF Extends, IsManifest, Day
<1>7. QED
  BY <1>5, <1>6 DEF y

(* An answer made of all days, from an exchange that has them.             *)
LEMMA FullData ==
    ASSUME NEW x, Reading(x), ~IsRecordList(x.request), ~WantsComplete(x.request)
    PROVE  Data(x) \in Seq(Metrics(x))
<1> DEFINE all == DailyMetrics(x)
<1>1. /\ all \in Seq(Metrics(x)) /\ Ordered(Len(all), all, x.range.start, x.range.end)
      /\ x.range.start \in Int /\ x.range.end \in Int /\ x.range.start <= x.range.end
  BY ListsFit
<1>2. all # <<>>
  <2>1. Days(Len(all), all, x.range.start, x.range.end)
    BY DailyFits DEF Reading
  <2>2. Len(all) = x.range.end - x.range.start + 1
    BY <2>1 DEF Days
  <2> HIDE DEF all
  <2>3. QED
    BY <1>1, <2>2
<1>3. Reverse(all) \in Seq(Metrics(x))
  BY <1>1, Reversed
<1>4. <<Head(all)>> \in Seq(Metrics(x))
  <2> HIDE DEF all
  <2>1. QED
    BY <1>1, <1>2
<1>5. Data(x) = all \/ Data(x) = Reverse(all) \/ Data(x) = <<Head(all)>>
  <2>1. CASE x.request.path \in V2Path
    BY <2>1, DataCases
  <2>2. CASE x.request.path \in {<<"latest", "metrics">>, <<"earliest", "metrics">>}
    <3>1. x.request.path \notin V2Path
      BY <2>2 DEF V2Path
    <3>2. Data(x) = IF all # <<>> THEN <<Head(all)>> ELSE <<NoMetric(x)>>
      BY <2>2, <3>1 DEF Data, NoMetric
    <3> HIDE DEF all
    <3>3. QED
      BY <1>2, <3>2
  <2>3. CASE x.request.path \notin V2Path \cup {<<"latest", "metrics">>, <<"earliest", "metrics">>}
    BY <2>3 DEF Data
  <2>4. QED
    BY <2>1, <2>2, <2>3
<1> HIDE DEF all
<1>6. QED
  BY <1>1, <1>3, <1>4, <1>5

LEMMA ServedData ==
    ASSUME NEW x, Reading(x), ~IsRecordList(x.request), ~WantsComplete(x.request),
           HasDays(x), x.left["metrics"] = {}
    PROVE  AnsweredInFull(x)
<1>1. ASSUME NEW m \in Metrics(x), m.date \in x.manifest.earliest .. x.manifest.latest
      PROVE  m.block # 0
  <2>1. PICK d \in x.range.start .. x.range.end : m = Metric(x, d)
    BY DEF Metrics
  <2>2. m.date = d
    BY <2>1 DEF Metric
  <2> DEFINE found == MetricRows(x, d)
  <2>3. found # {}
    BY <1>1, <2>2 DEF HasDays
  <2>4. m.block = (CHOOSE row \in found : TRUE).block
    BY <2>1, <2>3 DEF Metric
  <2>5. (CHOOSE row \in found : TRUE) \in x.rows["metrics"]
    BY <2>3 DEF MetricRows
  <2>6. RowsFit(x, "metrics")
    BY ArtifactsAssumption DEF Reading
  <2> HIDE DEF found
  <2>7. m.block \in Version
    BY <2>4, <2>5, <2>6 DEF RowsFit
  <2>8. QED
    BY <2>7, ApiAssumption
<1>2. Data(x) \in Seq(Metrics(x))
  BY FullData
<1>3. QED
  BY <1>1, <1>2 DEF AnsweredInFull

(* What the client does to the exchanges.                                  *)
LEMMA ClientExchanges ==
    ASSUME ApiInv, DirectInv, Next, ~Server, NEW c \in Conn
    PROVE  \/ exchange'[c] = exchange[c]
           \/ exchange'[c].stage \in {"free", "manifest"}
           \/ exchange[c] = Free /\ exchange'[c].stage # "reading"
<1>1. ExchangesInv /\ BoundsConn \in Conn /\ DirectConn \in Conn
  BY Connections DEF ApiInv
<1>2. Free.stage = "free" /\ Arrived(BoundsRequest).stage = "manifest"
  BY BoundsLetThrough DEF Free
<1>3. \A q : Arrived(q).stage \in {"manifest", "answered"}
  BY DEF Arrived, Answered
<1>4. ASSUME NEW d \in Conn, NEW y, Carry(d, y)
      PROVE  exchange'[c] = IF c = d THEN y ELSE exchange[c]
  BY <1>1, <1>4, CarriedOthers
<1>5. ASSUME NEW v \in User, HangUp(v) PROVE exchange'[c] = exchange[c] \/ exchange'[c] = Free
  BY <1>5 DEF HangUp
<1>6. ASSUME NEW v \in User, NEW input \in Inputs, BeginCall(v, input)
      PROVE  exchange'[c] = exchange[c] \/ exchange'[c].stage = "manifest"
  BY <1>1, <1>2, <1>4, <1>6 DEF BeginCall
<1>7. ASSUME NEW q \in Requests, Send(q)
      PROVE  exchange'[c] = exchange[c] \/ (exchange[c] = Free /\ exchange'[c].stage # "reading")
  <2>1. exchange[DirectConn] = Free
    BY <1>7 DEF Send, DirectInv
  <2>2. exchange'[c] = IF c = DirectConn THEN Arrived(q) ELSE exchange[c]
    BY <1>1, <1>4, <1>7 DEF Send
  <2>3. Arrived(q).stage # "reading"
    BY <1>3
  <2>4. QED
    BY <2>1, <2>2, <2>3
<1>8. ASSUME BoundsArrive PROVE exchange'[c] = exchange[c] \/ exchange'[c] = Free
  BY <1>1, <1>4, <1>8 DEF BoundsArrive
<1>9. ASSUME NEW v \in User, SplitPages(v)
      PROVE  exchange'[c] = exchange[c] \/ exchange'[c].stage = "manifest"
  <2>1. CASE TurnedDown(v)
    BY <2>1 DEF TurnedDown
  <2>2. CASE AsksPages(v)
    <3>1. call[v].input \in Inputs
      BY <1>9, SplitCases DEF ApiInv, InputsInv
    <3>2. CASE c[1] = v
      <4>1. PICK i \in 1 .. MaxPages : c = <<v, i>>
        BY <3>2, ClientAssumption DEF BoundsConn, DirectConn
      <4>2. CASE i <= Len(Cut(v))
        BY <2>2, <3>1, <4>1, <4>2, PagesSent
      <4>3. CASE ~(i <= Len(Cut(v)))
        BY <2>2, <4>1, <4>3, AskedOthers
      <4>4. QED
        BY <4>2, <4>3
    <3>3. CASE c[1] # v
      BY <2>2, <3>3 DEF AsksPages
    <3>4. QED
      BY <3>2, <3>3
  <2>3. QED
    BY <1>9, <2>1, <2>2, SplitCases
<1>10. ASSUME NEW v \in User, JoinPages(v) \/ PageRefused(v)
       PROVE  exchange'[c] = exchange[c] \/ exchange'[c] = Free
  BY <1>5, <1>10 DEF JoinPages, PageRefused
<1>11. ASSUME FetchFails PROVE exchange'[c] = exchange[c] \/ exchange'[c] = Free
  BY <1>1, <1>4, <1>5, <1>11 DEF FetchFails
<1>12. ASSUME Publishing PROVE exchange'[c] = exchange[c]
  BY <1>12 DEF Publishing, Change, apiVars
<1>13. QED
  BY <1>2, <1>6, <1>7, <1>8, <1>9, <1>10, <1>11, <1>12 DEF Next, Client

LEMMA DirectStep ==
    ASSUME ApiInv, DirectInv, Next
    PROVE  DirectInv'
<1>1. calls \in Nat /\ ExchangesInv /\ DirectConn \in Conn /\ BoundsConn \in Conn
  BY Connections DEF DirectInv, ApiInv
<1>2. CASE \E v \in User, input \in Inputs : BeginCall(v, input)
  <2>1. calls' = calls + 1
    BY <1>2 DEF BeginCall
  <2>2. QED
    BY <1>1, <2>1 DEF DirectInv
<1>3. CASE \E q \in Requests : Send(q)
  <2>1. calls' = 1
    BY <1>3 DEF Send
  <2>2. QED
    BY <2>1 DEF DirectInv
<1>4. ASSUME calls' = calls, exchange'[DirectConn] = exchange[DirectConn] \/ exchange'[DirectConn] = Free
      PROVE  DirectInv'
  BY <1>1, <1>4 DEF DirectInv
<1>5. CASE Server
  <2>1. PICK c \in Conn : ServeStep(c) \/ ReadFails(c)
    BY <1>5 DEF Server
  <2>2. calls' = calls
    BY <1>5 DEF Server, clientVars
  <2>3. CASE c = DirectConn
    <3>1. exchange[c].stage \in {"manifest", "reading"}
      BY <2>1 DEF ServeStep, ReadManifest, ReadShard, Respond, ReadFails
    <3>2. calls > 0
      BY <2>3, <3>1 DEF DirectInv, Free
    <3>3. QED
      BY <1>1, <2>2, <3>2 DEF DirectInv
  <2>4. CASE c # DirectConn
    <3>1. \E y : Carry(c, y)
      BY <2>1 DEF ServeStep, ReadManifest, ReadShard, Respond, ReadFails
    <3>2. exchange'[DirectConn] = exchange[DirectConn]
      BY <1>1, <2>4, <3>1, CarriedOthers
    <3>3. QED
      BY <1>4, <2>2, <3>2
  <2>5. QED
    BY <2>3, <2>4
<1>6. CASE Publishing
  BY <1>4, <1>6 DEF Publishing, Change, apiVars
<1>7. ASSUME NEW v \in User, HangUp(v)
      PROVE  exchange'[DirectConn] = exchange[DirectConn]
  BY <1>7, Connections DEF HangUp
<1>8. ASSUME Carry(BoundsConn, Free) PROVE exchange'[DirectConn] = exchange[DirectConn]
  BY <1>1, <1>8, CarriedOthers, Connections
<1>9. CASE BoundsArrive
  BY <1>4, <1>8, <1>9 DEF BoundsArrive
<1>10. ASSUME NEW v \in User, SplitPages(v) PROVE DirectInv'
  <2>1. calls' = calls
    BY <1>10, SplitCases
  <2>2. exchange'[DirectConn] = exchange[DirectConn]
    BY <1>10, SplitCases, AskedOthers DEF TurnedDown
  <2>3. QED
    BY <1>4, <2>1, <2>2
<1>11. ASSUME NEW v \in User, JoinPages(v) \/ PageRefused(v) PROVE DirectInv'
  BY <1>4, <1>7, <1>11 DEF JoinPages, PageRefused
<1>12. CASE FetchFails
  BY <1>4, <1>7, <1>8, <1>12 DEF FetchFails
<1>13. QED
  BY <1>2, <1>3, <1>5, <1>6, <1>9, <1>10, <1>11, <1>12 DEF Next, Client

(* The two invariants of an exchange, in one.                              *)
Serving(x, rank) ==
    x.stage = "reading" =>
        /\ manifest # None
        /\ rank[x.manifest.deployment] <= rank[manifest.deployment]
        /\ Current(x) => Extends(manifest, x.manifest) /\ HasDays(x)

LEMMA ServingAll ==
    ASSUME NEW rank
    PROVE  ServedInv /\ RankInv(rank) <=> \A c \in Conn : Serving(exchange[c], rank)
  BY DEF ServedInv, RankInv, Serving

(* An exchange waits while the store changes.                              *)
LEMMA ServingWaits ==
    ASSUME NEW CONSTANT rank \in [Prefix -> Nat], ArtifactsInv, ArtifactsInv',
           (\E k \in OwnedKeys : StoreShard(k) \/ RemoveShard(k)) \/ Announce \/ GiveUp,
           ForwardOnly(rank), NEW x, Reading(x), Serving(x, rank)
    PROVE  /\ manifest' # None
           /\ rank[x.manifest.deployment] <= rank[manifest'.deployment]
           /\ (reliable' /\ manifest'.deployment = x.manifest.deployment)
                 => Extends(manifest', x.manifest) /\ HasDays(x)
<1>1. /\ manifest # None /\ x.stage = "reading"
      /\ rank[x.manifest.deployment] <= rank[manifest.deployment]
      /\ Current(x) => Extends(manifest, x.manifest) /\ HasDays(x)
  BY DEF Serving, Reading
<1>2. CASE manifest' = manifest
  <2>1. reliable' => reliable
    BY <1>2 DEF StoreShard, RemoveShard, Announce, GiveUp
  <2>2. QED
    BY <1>1, <1>2, <2>1 DEF Current
<1>3. CASE Announce
  <2>1. /\ manifest' # None /\ reliable' = reliable
        /\ reliable => Extends(manifest', manifest)
    BY <1>1, <1>3 DEF Announce
  <2>2. IsManifest(manifest) /\ IsManifest(manifest') /\ IsManifest(x.manifest)
    BY <1>1, <2>1 DEF ArtifactsInv, Reading
  <2> DEFINE a == rank[x.manifest.deployment]
             b == rank[manifest.deployment]
             e == rank[manifest'.deployment]
  <2>3. a \in Nat /\ b \in Nat /\ e \in Nat /\ a <= b
    BY <1>1, <2>2 DEF IsManifest
  <2>4. manifest'.deployment # manifest.deployment => b < e
    BY <1>1, <2>1 DEF ForwardOnly
  <2>5. CASE manifest'.deployment = manifest.deployment
    <3>1. ASSUME reliable', manifest'.deployment = x.manifest.deployment
          PROVE  Extends(manifest', x.manifest) /\ HasDays(x)
      <4>1. Current(x)
        BY <2>1, <2>5, <3>1 DEF Current
      <4>2. Extends(manifest, x.manifest) /\ HasDays(x) /\ Extends(manifest', manifest)
        BY <1>1, <2>1, <3>1, <4>1
      <4>3. Extends(manifest', x.manifest)
        BY <2>2, <2>5, <3>1, <4>2 DEF Extends, IsManifest, Day
      <4>4. QED
        BY <4>2, <4>3
    <3>2. QED
      BY <1>1, <2>1, <2>5, <3>1
  <2>6. CASE manifest'.deployment # manifest.deployment
    <3> HIDE DEF a, b, e
    <3>1. a < e
      BY <2>3, <2>4, <2>6
    <3>2. a # e /\ a <= e
      BY <2>3, <3>1
    <3>3. QED
      BY <2>1, <3>2 DEF a, e
  <2>7. QED
    BY <2>5, <2>6
<1>4. QED
  BY <1>2, <1>3 DEF StoreShard, RemoveShard, GiveUp

(* A request finds its manifest, or reads one shard.                       *)
LEMMA ServedLocated ==
    ASSUME NEW CONSTANT rank \in [Prefix -> Nat], ArtifactsInv, ExchangesInv, NEW c \in Conn,
           ReadManifest(c), UNCHANGED artifactVars
    PROVE  Serving(exchange[c], rank)'
<1> DEFINE x == exchange[c]
<1>1. x.stage = "manifest" /\ Routed(x.request)
  BY DEF ReadManifest, ExchangesInv, ExchangeInv
<1>2. exchange'[c] = Located(x) /\ manifest' = manifest
  BY CarriedOthers DEF ReadManifest, artifactVars
<1> HIDE DEF x
<1>3. CASE \E a : Located(x) = Answered(x, a)
  BY <1>2, <1>3 DEF Serving, Answered
<1>4. CASE /\ manifest # None /\ x.request.path # BoundsPath
           /\ RequestRange(x.request, manifest) \notin {BadRange, NoRange}
           /\ Located(x) = Opened(x, manifest)
  <2>1. IsManifest(manifest)
    BY <1>4 DEF ArtifactsInv
  <2>2. IsRange(RequestRange(x.request, manifest))
    BY <1>1, <1>4, <2>1, RangeFits DEF Routed
  <2> DEFINE y == Opened(x, manifest)
  <2>3. HasDays(y) /\ Extends(manifest, manifest)
    BY <2>1, <2>2, OpenedServes
  <2>4. y.manifest = manifest
    BY DEF Opened
  <2>5. exchange'[c] = y
    BY <1>2, <1>4
  <2> HIDE DEF y
  <2>6. rank[manifest.deployment] \in Nat
    BY <2>1 DEF IsManifest
  <2>7. QED
    BY <1>2, <1>4, <2>3, <2>4, <2>5, <2>6 DEF Serving
<1>5. QED
  BY <1>3, <1>4, LocatedCases

LEMMA ServedRead ==
    ASSUME NEW CONSTANT rank \in [Prefix -> Nat], ArtifactsInv, ExchangesInv, NEW c \in Conn,
           NEW k \in Kind, ReadShard(c, k), UNCHANGED artifactVars, Serving(exchange[c], rank)
    PROVE  Serving(exchange[c], rank)'
<1> DEFINE x == exchange[c]
           month == CHOOSE m \in x.left[k] : \A other \in x.left[k] : m <= other
           y == AfterRead(x, k, month)
<1>1. x.stage = "reading" /\ Reading(x)
  BY DEF ReadShard, ExchangesInv, ExchangeInv
<1>2. exchange'[c] = y
  BY CarriedOthers DEF ReadShard, AfterRead
<1>3. manifest' = manifest /\ reliable' = reliable
  BY DEF artifactVars
<1>4. Serving(x, rank)
  OBVIOUS
<1> HIDE DEF x, month
<1>5. y.manifest = x.manifest
  BY <1>1, ReadKeeps, Zenon
<1>6. /\ manifest # None
      /\ rank[x.manifest.deployment] <= rank[manifest.deployment]
      /\ Current(x) => Extends(manifest, x.manifest) /\ HasDays(x)
  BY <1>1, <1>4 DEF Serving
<1>7. Current(x) => HasDays(y)
  BY <1>1, <1>6, ReadServes DEF Current
<1> HIDE DEF y
<1>8. QED
  BY <1>2, <1>3, <1>5, <1>6, <1>7 DEF Serving, Current

LEMMA ServedStep ==
    ASSUME NEW CONSTANT rank \in [Prefix -> Nat], ApiInv, ApiInv', DirectInv, Next,
           ForwardOnly(rank), \A c \in Conn : Serving(exchange[c], rank)
    PROVE  \A c \in Conn : Serving(exchange[c], rank)'
<1>1. ArtifactsInv /\ ArtifactsInv' /\ ExchangesInv
  BY DEF ApiInv
<1>2. SUFFICES ASSUME NEW c \in Conn PROVE Serving(exchange[c], rank)'
  OBVIOUS
<1>3. Serving(exchange[c], rank)
  OBVIOUS
<1>4. exchange'[c].stage # "reading" => Serving(exchange[c], rank)'
  BY DEF Serving
<1>5. ASSUME exchange'[c] = exchange[c], UNCHANGED artifactVars
      PROVE  Serving(exchange[c], rank)'
  <2>1. manifest' = manifest /\ reliable' = reliable
    BY <1>5 DEF artifactVars
  <2>2. QED
    BY <1>3, <1>5, <2>1 DEF Serving, Current
<1>6. CASE Publishing
  <2>1. exchange' = exchange
    BY <1>6 DEF Publishing, Change, apiVars
  <2>2. (\E k \in OwnedKeys : StoreShard(k) \/ RemoveShard(k)) \/ Announce \/ GiveUp
    BY <1>6 DEF Publishing, Change, Rewrite, CleanUp, NewManifest
  <2>3. CASE exchange[c].stage = "reading"
    <3> DEFINE x == exchange[c]
    <3>1. Reading(x)
      BY <1>1, <2>3 DEF ExchangesInv, ExchangeInv
    <3>2. /\ manifest' # None
          /\ rank[x.manifest.deployment] <= rank[manifest'.deployment]
          /\ (reliable' /\ manifest'.deployment = x.manifest.deployment)
                => Extends(manifest', x.manifest) /\ HasDays(x)
      <4> HIDE DEF x
      <4>1. Serving(x, rank)
        BY <1>3 DEF x
      <4>2. QED
        BY <1>1, <2>2, <3>1, <4>1, ServingWaits
    <3>3. QED
      BY <2>1, <3>2 DEF Serving, Current
  <2>4. QED
    BY <1>4, <2>1, <2>3
<1>7. CASE ~Server /\ ~Publishing
  <2>1. UNCHANGED artifactVars
    BY <1>7 DEF Next, BeginCall, Send, Client, BoundsArrive, SplitPages, JoinPages,
                PageRefused, FetchFails
  <2>2. exchange'[c] = exchange[c] \/ exchange'[c].stage # "reading"
    BY <1>7, ClientExchanges
  <2>3. QED
    BY <1>4, <1>5, <2>1, <2>2
<1>8. CASE Server
  <2>1. PICK d \in Conn : ServeStep(d) \/ ReadFails(d)
    BY <1>8 DEF Server
  <2>2. UNCHANGED artifactVars
    BY <1>8 DEF Server
  <2>3. CASE c # d
    <3>1. \E y : Carry(d, y)
      BY <2>1 DEF ServeStep, ReadManifest, ReadShard, Respond, ReadFails
    <3>2. exchange'[c] = exchange[c]
      BY <1>1, <2>3, <3>1, CarriedOthers
    <3>3. QED
      BY <1>5, <2>2, <3>2
  <2>4. CASE c = d
    <3>1. CASE Respond(c) \/ ReadFails(c)
      <4>1. \E x, a : Carry(c, Answered(x, a))
        BY <3>1 DEF Respond, ReadFails
      <4>2. exchange'[c].stage = "answered"
        BY <1>1, <4>1, CarriedOthers DEF Answered
      <4>3. QED
        BY <1>4, <4>2
    <3>2. CASE ReadManifest(c)
      BY <1>1, <1>4, <2>2, <3>2, ServedLocated
    <3>3. ASSUME NEW k \in Kind, ReadShard(c, k) PROVE Serving(exchange[c], rank)'
      BY <1>1, <1>3, <2>2, <3>3, ServedRead
    <3>4. QED
      BY <2>1, <2>4, <3>1, <3>2, <3>3 DEF ServeStep
  <2>5. QED
    BY <2>3, <2>4
<1>9. QED
  BY <1>6, <1>7, <1>8

(* An answer in time has every announced day.                              *)
LEMMA DaysServedStep ==
    ASSUME NEW CONSTANT rank \in [Prefix -> Nat], ApiInv, DirectInv, Next,
           \A c \in Conn : Serving(exchange[c], rank)
    PROVE  DaysServed
<1>1. ExchangesInv
  BY DEF ApiInv
<1>2. SUFFICES ASSUME NEW c \in Conn,
                      exchange[c].stage = "reading", exchange'[c].stage = "answered",
                      ~IsRecordList(exchange[c].request), ~WantsComplete(exchange[c].request),
                      exchange'[c].answer.status = 200,
                      reliable, manifest.deployment = exchange[c].manifest.deployment
               PROVE  AnsweredInFull(exchange[c])
  BY DEF DaysServed
<1> DEFINE x == exchange[c]
<1>3. Reading(x) /\ Serving(x, rank)
  BY <1>1, <1>2 DEF ExchangesInv, ExchangeInv
<1>4. HasDays(x)
  BY <1>2, <1>3 DEF Serving, Current
<1>5. CASE ~Server
  <2>1. exchange'[c] # exchange[c] /\ x # Free /\ exchange'[c].stage \notin {"free", "manifest"}
    BY <1>2 DEF Free
  <2>2. QED
    BY <1>5, <2>1, ClientExchanges
<1>6. CASE Server
  <2>1. PICK d \in Conn : ServeStep(d) \/ ReadFails(d)
    BY <1>6 DEF Server
  <2>2. d = c
    <3>1. \E y : Carry(d, y)
      BY <2>1 DEF ServeStep, ReadManifest, ReadShard, Respond, ReadFails
    <3>2. exchange'[c] # exchange[c]
      BY <1>2
    <3>3. QED
      BY <1>1, <3>1, <3>2, CarriedOthers
  <2>3. CASE ReadManifest(c)
    BY <1>2, <2>3 DEF ReadManifest
  <2>4. ASSUME NEW k \in Kind, ReadShard(c, k) PROVE FALSE
    <3> DEFINE month == CHOOSE m \in x.left[k] : \A other \in x.left[k] : m <= other
               y == AfterRead(x, k, month)
    <3>1. exchange'[c] = y
      BY <1>1, <2>4, CarriedOthers DEF ReadShard, AfterRead
    <3>3. y.stage = "reading"
      <4> HIDE DEF month, x
      <4>1. QED
        BY <1>3, ReadKeeps, Zenon
    <3> HIDE DEF y
    <3>4. QED
      BY <1>2, <3>1, <3>3
  <2>5. CASE Respond(c)
    <3>1. x.left["metrics"] = {}
      BY <2>5, ArtifactsAssumption DEF Respond
    <3> HIDE DEF x
    <3>2. ~IsRecordList(x.request) /\ ~WantsComplete(x.request)
      BY <1>2 DEF x
    <3>3. AnsweredInFull(x)
      BY <1>3, <1>4, <3>1, <3>2, ServedData
    <3>4. QED
      BY <3>3 DEF x
  <2>6. CASE ReadFails(c)
    <3>1. exchange'[c] = Answered(x, Error(400, BadRangeCode(x.request)))
      BY <1>1, <1>2, <2>6, CarriedOthers DEF ReadFails
    <3>2. exchange'[c].answer.status = 400
      BY <3>1 DEF Answered, Error
    <3>3. QED
      BY <1>2, <3>2
  <2>7. QED
    BY <2>1, <2>2, <2>3, <2>4, <2>5, <2>6 DEF ServeStep
<1>7. QED
  BY <1>5, <1>6

(* AnnouncedDaysServed: a list of metrics that is read while writes arrive *)
(* in time has every day that its manifest announced, however many shards  *)
(* and manifests are published between its reads (readArtifactRows,        *)
(* buildDailyMetrics), when the published deployment does not return to    *)
(* one that it has left: a request that spans such a return reads shards   *)
(* that were cleaned up or rewritten while another deployment was served.  *)
THEOREM AnnouncedDaysAlwaysServed ==
    ASSUME NEW CONSTANT rank \in [Prefix -> Nat]
    PROVE  Spec /\ [][ForwardOnly(rank)]_vars => AnnouncedDaysServed
<1> DEFINE Inv == ServedInv /\ RankInv(rank) /\ DirectInv
<1>1. Init => Inv
  <2>1. SUFFICES ASSUME Init PROVE Inv
    OBVIOUS
  <2>2. \A c \in Conn : exchange[c] = Free
    BY <2>1 DEF Init, ApiInit
  <2>3. Free.stage # "reading" /\ calls = 0
    BY <2>1 DEF Free, Init
  <2>4. QED
    BY <2>2, <2>3, Connections DEF ServedInv, RankInv, DirectInv
<1>2. ApiInv /\ ApiInv' /\ Inv /\ [Next]_vars /\ [ForwardOnly(rank)]_vars => Inv'
  <2>1. SUFFICES ASSUME ApiInv, ApiInv', Inv, [Next]_vars, [ForwardOnly(rank)]_vars PROVE Inv'
    OBVIOUS
  <2>2. CASE UNCHANGED vars
    BY <2>1, <2>2 DEF vars, artifactVars, apiVars, clientVars, ServedInv, RankInv, DirectInv,
                      Current
  <2>3. CASE Next /\ ForwardOnly(rank)
    <3>1. \A c \in Conn : Serving(exchange[c], rank)
      BY <2>1, ServingAll
    <3>2. \A c \in Conn : Serving(exchange[c], rank)'
      BY <2>1, <2>3, <3>1, ServedStep
    <3>3. ServedInv' /\ RankInv(rank)'
      BY <3>2 DEF ServedInv, RankInv, Serving
    <3>4. DirectInv'
      BY <2>1, <2>3, DirectStep
    <3>5. QED
      BY <3>3, <3>4
  <2>4. QED
    BY <2>1, <2>2, <2>3
<1>3. ApiInv /\ Inv /\ [Next]_vars => [DaysServed]_vars
  <2>1. SUFFICES ASSUME ApiInv, Inv, Next PROVE DaysServed
    OBVIOUS
  <2>2. \A c \in Conn : Serving(exchange[c], rank)
    BY <2>1, ServingAll
  <2>3. QED
    BY <2>1, <2>2, DaysServedStep
<1> HIDE DEF Inv
<1>4. QED
  BY <1>1, <1>2, <1>3, ApiInvariant, PTL DEF Spec, AnnouncedDaysServed
=============================================================================
