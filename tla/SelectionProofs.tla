---------------------------- MODULE SelectionProofs ----------------------------
(***************************************************************************)
(* What the loop of Selection does, for every list.  Induction is over     *)
(* sets: a set of numbers that has 0 and the successor of each of its      *)
(* members has them all, since what it lacked would have a least element.  *)
(***************************************************************************)
EXTENDS Selection, SequencesExt, WellFoundedInduction, NaturalsInduction, SequenceTheorems, TLAPS

LEMMA LeastElement ==
  ASSUME NEW R, IsWellFoundedOn(R, Nat), NEW T, T \subseteq Nat, T # {}
  PROVE  \E x \in T : \A y \in T : ~(<<y, x>> \in R)
  BY WFMin

LEMMA LessThanIsWellFounded ==
  \E R : IsWellFoundedOn(R, Nat) /\ \A m, n \in Nat : <<m, n>> \in R <=> m < n
<1> DEFINE R == OpToRel(<, Nat)
<1>1. IsWellFoundedOn(R, Nat)
  BY NatLessThanWellFounded, Zenon
<1>2. \A m, n \in Nat : <<m, n>> \in R <=> m < n
  BY DEF OpToRel
<1> QED
  BY <1>1, <1>2

LEMMA LeastNumber ==
  ASSUME NEW T, T \subseteq Nat, T # {}
  PROVE  \E x \in T : \A y \in T : ~(y < x)
<1>1. PICK R : IsWellFoundedOn(R, Nat) /\ \A m, n \in Nat : <<m, n>> \in R <=> m < n
  BY LessThanIsWellFounded
<1>2. IsWellFoundedOn(R, Nat)
  BY <1>1
<1>3. \E x \in T : \A y \in T : ~(<<y, x>> \in R)
  BY <1>2, LeastElement
<1> QED
  BY <1>1, <1>3

\* Induction: a set with 0 and with each successor has every number.
LEMMA SetInduction ==
  ASSUME NEW N, 0 \in N, \A n \in Nat : n \in N => n + 1 \in N
  PROVE  Nat \subseteq N
<1> DEFINE T == Nat \ N
<1>1. SUFFICES ASSUME T # {} PROVE FALSE
  OBVIOUS
<1>2. PICK x \in T : \A y \in T : ~(y < x)
  BY <1>1, LeastNumber
<1>3. x # 0 /\ x \in Nat
  OBVIOUS
<1>4. x - 1 \in Nat /\ x - 1 < x /\ (x - 1) + 1 = x
  BY <1>3
<1>5. x - 1 \in N
  BY <1>2, <1>4
<1> QED
  BY <1>4, <1>5

\* Induction over the elements of a list, from the first to the last.
LEMMA SeqSetInduction ==
  ASSUME NEW S, NEW P, <<>> \in P,
         \A s \in Seq(S) : \A x \in S : s \in P => Append(s, x) \in P
  PROVE  Seq(S) \subseteq P
<1> DEFINE N == {n \in Nat : \A s \in Seq(S) : Len(s) = n => s \in P}
<1>1. 0 \in N
  <2>1. \A s \in Seq(S) : Len(s) = 0 => s = <<>>
    BY EmptySeq
  <2> QED
    BY <2>1
<1>2. ASSUME NEW n \in Nat, n \in N PROVE n + 1 \in N
  <2>1. SUFFICES ASSUME NEW s \in Seq(S), Len(s) = n + 1 PROVE s \in P
    BY <1>2
  <2> DEFINE front == [i \in 1 .. n |-> s[i]]
  <2>2. front \in Seq(S) /\ Len(front) = n /\ s[n + 1] \in S
    BY <2>1
  <2>3. front \in P
    BY <1>2, <2>2
  <2>4. Append(front, s[n + 1]) = s
    <3>1. Append(front, s[n + 1]) \in Seq(S) /\ Len(Append(front, s[n + 1])) = Len(s)
      BY <2>1, <2>2
    <3>2. \A i \in 1 .. Len(s) : Append(front, s[n + 1])[i] = s[i]
      BY <2>1, <2>2
    <3> QED
      BY <3>1, <3>2, SeqEqual
  <2> QED
    BY <2>2, <2>3, <2>4
<1>3. Nat \subseteq N
  <2> HIDE DEF N
  <2> QED
    BY <1>1, <1>2, SetInduction
<1>4. SUFFICES ASSUME NEW s \in Seq(S) PROVE s \in P
  OBVIOUS
<1>5. Len(s) \in N
  BY <1>3
<1> QED
  BY <1>5

----------------------------------------------------------------------------
(* The loop, element by element.                                           *)

\* g satisfies the recursive definition, as far as the n-th element.
IsSelecting(g, s, T, n) ==
  g = [i \in 0 .. n |-> IF i = 0 THEN <<>>
                        ELSE IF s[i] \in T THEN Append(g[i - 1], s[i])
                        ELSE g[i - 1]]

\* There is such a function, for every list and every set to keep.
LEMMA SelectingExists ==
  ASSUME NEW S, NEW s \in Seq(S), NEW T, NEW n \in Nat, n <= Len(s)
  PROVE  \E g : IsSelecting(g, s, T, n)
<1> DEFINE Is(g, k) == IsSelecting(g, s, T, k)
           N == {k \in Nat : k <= Len(s) => \E g : Is(g, k)}
<1>1. 0 \in N
  <2> DEFINE g == [i \in 0 .. 0 |-> <<>>]
  <2>1. Is(g, 0)
    BY DEF IsSelecting
  <2> QED
    BY <2>1
<1>2. ASSUME NEW k \in Nat, k \in N PROVE k + 1 \in N
  <2>1. SUFFICES ASSUME k + 1 <= Len(s) PROVE \E g : Is(g, k + 1)
    OBVIOUS
  <2>2. PICK g : Is(g, k)
    BY <1>2, <2>1
  <2>3. \A i \in 0 .. k : g[i] = IF i = 0 THEN <<>>
                                  ELSE IF s[i] \in T THEN Append(g[i - 1], s[i])
                                  ELSE g[i - 1]
    BY <2>2 DEF IsSelecting
  <2> DEFINE h == [i \in 0 .. k + 1 |-> IF i <= k THEN g[i]
                                        ELSE IF s[i] \in T THEN Append(g[i - 1], s[i])
                                        ELSE g[i - 1]]
  <2>4. ASSUME NEW i \in 0 .. k + 1
        PROVE  h[i] = IF i = 0 THEN <<>>
                      ELSE IF s[i] \in T THEN Append(h[i - 1], s[i])
                      ELSE h[i - 1]
    <3>1. CASE i = 0
      BY <2>3, <3>1
    <3>2. CASE i # 0
      <4>1. i - 1 \in 0 .. k /\ h[i - 1] = g[i - 1]
        BY <3>2
      <4>2. CASE i <= k
        BY <2>3, <3>2, <4>1, <4>2
      <4>3. CASE ~(i <= k)
        BY <3>2, <4>1, <4>3
      <4> QED
        BY <4>2, <4>3
    <3> QED
      BY <3>1, <3>2
  <2>5. Is(h, k + 1)
    BY <2>4 DEF IsSelecting
  <2> QED
    BY <2>5
<1>3. Nat \subseteq N
  <2> HIDE DEF N
  <2> QED
    BY <1>1, <1>2, SetInduction
<1> QED
  BY <1>3

LEMMA SelectingStep ==
  ASSUME NEW S, NEW s \in Seq(S), NEW T
  PROVE  /\ Selecting(s, T)[0] = <<>>
         /\ \A i \in 1 .. Len(s) :
              Selecting(s, T)[i] = IF s[i] \in T THEN Append(Selecting(s, T)[i - 1], s[i])
                                                 ELSE Selecting(s, T)[i - 1]
<1> DEFINE Is(g) == IsSelecting(g, s, T, Len(s))
<1>1. Len(s) \in Nat /\ Len(s) <= Len(s)
  OBVIOUS
<1>2. \E g : Is(g)
  BY <1>1, SelectingExists
<1>3. Is(CHOOSE g : Is(g))
  BY <1>2
<1>4. Selecting(s, T) = CHOOSE g : Is(g)
  BY DEF Selecting, IsSelecting
<1>5. Is(Selecting(s, T))
  BY <1>3, <1>4
<1>6. \A i \in 0 .. Len(s) :
        Selecting(s, T)[i] = IF i = 0 THEN <<>>
                             ELSE IF s[i] \in T THEN Append(Selecting(s, T)[i - 1], s[i])
                             ELSE Selecting(s, T)[i - 1]
  BY <1>5 DEF IsSelecting
<1>7. 0 \in 0 .. Len(s) /\ \A i \in 1 .. Len(s) : i \in 0 .. Len(s) /\ i # 0
  OBVIOUS
<1> QED
  BY <1>6, <1>7

\* The first elements are selected whatever comes after them.
LEMMA SelectingPrefix ==
  ASSUME NEW S, NEW s \in Seq(S), NEW x \in S, NEW T, NEW i \in 0 .. Len(s)
  PROVE  Selecting(Append(s, x), T)[i] = Selecting(s, T)[i]
<1> DEFINE t == Append(s, x)
           N == {k \in Nat : k <= Len(s) => Selecting(t, T)[k] = Selecting(s, T)[k]}
<1>1. t \in Seq(S) /\ Len(t) = Len(s) + 1 /\ \A k \in 1 .. Len(s) : t[k] = s[k]
  OBVIOUS
<1> HIDE DEF t
<1>2. 0 \in N
  <2>1. Selecting(t, T)[0] = <<>> /\ Selecting(s, T)[0] = <<>>
    BY <1>1, SelectingStep
  <2> QED
    BY <2>1
<1>3. ASSUME NEW k \in Nat, k \in N PROVE k + 1 \in N
  <2>1. SUFFICES ASSUME k + 1 <= Len(s) PROVE Selecting(t, T)[k + 1] = Selecting(s, T)[k + 1]
    OBVIOUS
  <2>2. k + 1 \in 1 .. Len(s) /\ k + 1 \in 1 .. Len(t) /\ (k + 1) - 1 = k /\ t[k + 1] = s[k + 1]
    BY <1>1, <2>1
  <2>3. Selecting(t, T)[k] = Selecting(s, T)[k]
    BY <1>3, <2>1
  <2>4. k + 1 \in 1 .. Len(t) => Selecting(t, T)[k + 1] = IF t[k + 1] \in T THEN Append(Selecting(t, T)[k], t[k + 1]) ELSE Selecting(t, T)[k]
    <3>1. k + 1 \in 1 .. Len(t) =>
            Selecting(t, T)[k + 1] = IF t[k + 1] \in T THEN Append(Selecting(t, T)[(k + 1) - 1], t[k + 1])
                                                       ELSE Selecting(t, T)[(k + 1) - 1]
      BY <1>1, SelectingStep
    <3> QED
      BY <2>2, <3>1
  <2>5. Selecting(s, T)[k + 1] = IF s[k + 1] \in T THEN Append(Selecting(s, T)[k], s[k + 1]) ELSE Selecting(s, T)[k]
    BY <2>2, SelectingStep
  <2> QED
    BY <2>2, <2>3, <2>4, <2>5
<1>4. Nat \subseteq N
  <2> HIDE DEF N
  <2> QED
    BY <1>2, <1>3, SetInduction
<1> QED
  BY <1>4 DEF t

LEMMA SelectedEmpty ==
  ASSUME NEW T
  PROVE  Selected(<<>>, T) = <<>>
<1>1. <<>> \in Seq({}) /\ Len(<<>>) = 0
  OBVIOUS
<1> QED
  BY <1>1, SelectingStep DEF Selected

LEMMA SelectedAppend ==
  ASSUME NEW S, NEW s \in Seq(S), NEW x \in S, NEW T
  PROVE  Selected(Append(s, x), T) = IF x \in T THEN Append(Selected(s, T), x) ELSE Selected(s, T)
<1> DEFINE t == Append(s, x)
<1>1. t \in Seq(S) /\ Len(t) = Len(s) + 1 /\ t[Len(t)] = x /\ Len(t) \in 1 .. Len(t) /\ Len(t) - 1 = Len(s)
  OBVIOUS
<1>2. Len(s) \in 0 .. Len(s)
  OBVIOUS
<1>3. Selecting(t, T)[Len(s)] = Selecting(s, T)[Len(s)]
  BY <1>2, SelectingPrefix
<1> HIDE DEF t
<1>4. Selecting(t, T)[Len(t)] = IF x \in T THEN Append(Selecting(t, T)[Len(s)], x) ELSE Selecting(t, T)[Len(s)]
  BY <1>1, SelectingStep
<1> QED
  BY <1>3, <1>4 DEF Selected, t

----------------------------------------------------------------------------
(* What is selected.                                                       *)

LEMMA SeqOfItsElements ==
  ASSUME NEW S, NEW s \in Seq(S)
  PROVE  s \in Seq(ToSet(s)) /\ ToSet(s) \subseteq S
  BY DEF ToSet

LEMMA ToSetAppend ==
  ASSUME NEW S, NEW s \in Seq(S), NEW x \in S
  PROVE  ToSet(Append(s, x)) = ToSet(s) \cup {x}
<1>1. ASSUME NEW y \in ToSet(Append(s, x)) PROVE y \in ToSet(s) \cup {x}
  BY DEF ToSet
<1>2. ASSUME NEW y \in ToSet(s) PROVE y \in ToSet(Append(s, x))
  <2>1. PICK i \in DOMAIN s : s[i] = y
    BY DEF ToSet
  <2>2. i \in DOMAIN Append(s, x) /\ Append(s, x)[i] = y
    BY <2>1
  <2> QED
    BY <2>2 DEF ToSet
<1>3. x \in ToSet(Append(s, x))
  <2>1. Len(s) + 1 \in DOMAIN Append(s, x) /\ Append(s, x)[Len(s) + 1] = x
    OBVIOUS
  <2> QED
    BY <2>1 DEF ToSet
<1> QED
  BY <1>1, <1>2, <1>3

\* Only what is to be kept is selected.
LEMMA SelectedType ==
  ASSUME NEW S, NEW s \in Seq(S), NEW T
  PROVE  /\ Selected(s, T) \in Seq(S \cap T)
         /\ Selected(s, T) \in Seq(S)
<1> DEFINE P == {r \in Seq(S) : Selected(r, T) \in Seq(S \cap T)}
<1>1. <<>> \in P
  <2>1. <<>> \in Seq(S) /\ <<>> \in Seq(S \cap T)
    OBVIOUS
  <2> QED
    BY <2>1, SelectedEmpty
<1>2. ASSUME NEW r \in Seq(S), NEW x \in S, r \in P PROVE Append(r, x) \in P
  <2>1. Selected(Append(r, x), T) = IF x \in T THEN Append(Selected(r, T), x) ELSE Selected(r, T)
    BY SelectedAppend
  <2>2. Selected(r, T) \in Seq(S \cap T) /\ Append(r, x) \in Seq(S)
    BY <1>2
  <2>3. Selected(Append(r, x), T) \in Seq(S \cap T)
    <3>1. CASE x \in T
      <4>1. x \in S \cap T
        BY <3>1
      <4>2. Append(Selected(r, T), x) \in Seq(S \cap T)
        BY <4>1, <2>2
      <4> QED BY <2>1, <3>1, <4>2
    <3>2. CASE x \notin T
      BY <2>1, <2>2, <3>2
    <3> QED BY <3>1, <3>2
  <2> QED
    BY <2>2, <2>3
<1> HIDE DEF P
<1>3. Seq(S) \subseteq P
  BY <1>1, <1>2, SeqSetInduction
<1>4. Selected(s, T) \in Seq(S \cap T)
  BY <1>3 DEF P
<1> QED
  BY <1>4

\* All that is to be kept is selected, and nothing else.
LEMMA SelectedElements ==
  ASSUME NEW S, NEW s \in Seq(S), NEW T
  PROVE  ToSet(Selected(s, T)) = ToSet(s) \cap T
<1> DEFINE P == {r \in Seq(S) : ToSet(Selected(r, T)) = ToSet(r) \cap T}
<1>1. <<>> \in P
  BY SelectedEmpty DEF ToSet
<1>2. ASSUME NEW r \in Seq(S), NEW x \in S, r \in P PROVE Append(r, x) \in P
  <2>1. Selected(Append(r, x), T) = IF x \in T THEN Append(Selected(r, T), x) ELSE Selected(r, T)
    BY SelectedAppend
  <2>2. ToSet(Append(r, x)) = ToSet(r) \cup {x}
    BY ToSetAppend
  <2>3. Selected(r, T) \in Seq(S)
    BY SelectedType
  <2>4. ToSet(Append(Selected(r, T), x)) = ToSet(Selected(r, T)) \cup {x}
    BY <2>3, ToSetAppend
  <2>5. Append(r, x) \in Seq(S)
    OBVIOUS
  <2> QED
    BY <1>2, <2>1, <2>2, <2>4, <2>5
<1> HIDE DEF P
<1>3. Seq(S) \subseteq P
  BY <1>1, <1>2, SeqSetInduction
<1> QED
  BY <1>3 DEF P

\* What is kept is in the order it came in.
LEMMA SelectedInOrder ==
  ASSUME NEW S, NEW s \in Seq(S), NEW T
  PROVE  \A i, j \in DOMAIN Selected(s, T) : i < j =>
           \E k, l \in DOMAIN s : k < l /\ s[k] = Selected(s, T)[i] /\ s[l] = Selected(s, T)[j]
<1> DEFINE Ordered(q) ==
             \A i, j \in DOMAIN Selected(q, T) : i < j =>
               \E k, l \in DOMAIN q : k < l /\ q[k] = Selected(q, T)[i] /\ q[l] = Selected(q, T)[j]
           P == {q \in Seq(S) : Ordered(q)}
<1>1. <<>> \in P
  <2>1. Selected(<<>>, T) = <<>>
    BY SelectedEmpty
  <2>2. DOMAIN Selected(<<>>, T) = {}
    BY <2>1
  <2> QED BY <2>2
<1>2. ASSUME NEW q \in Seq(S), NEW x \in S, q \in P
      PROVE  Append(q, x) \in P
  <2> DEFINE r == Append(q, x)
             a == Selected(q, T)
             b == Selected(r, T)
  <2>1. r \in Seq(S) /\ Len(r) = Len(q) + 1 /\ r[Len(q) + 1] = x /\ \A i \in 1 .. Len(q) : r[i] = q[i]
    BY AppendProperties
  <2>2. a \in Seq(S) /\ b = IF x \in T THEN Append(a, x) ELSE a
    BY SelectedType, SelectedAppend
  <2>3. ToSet(a) \subseteq ToSet(q)
    BY SelectedElements
  <2>4. \A i, j \in DOMAIN a : i < j => \E k, l \in DOMAIN q : k < l /\ q[k] = a[i] /\ q[l] = a[j]
    BY <1>2
  <2>5. \A i \in DOMAIN a : \E k \in DOMAIN q : q[k] = a[i]
    BY <2>3 DEF ToSet
  <2>6. DOMAIN a = 1 .. Len(a) /\ DOMAIN q = 1 .. Len(q) /\ DOMAIN r = 1 .. Len(q) + 1 /\ Len(q) \in Nat /\ Len(a) \in Nat
    BY <2>1, <2>2
  <2> HIDE DEF r, a, b
  <2>7. \A i, j \in DOMAIN a : i < j => \E k, l \in DOMAIN r : k < l /\ r[k] = a[i] /\ r[l] = a[j]
    <3>1. \A k \in DOMAIN q : k \in DOMAIN r /\ r[k] = q[k]
      BY <2>1, <2>6
    <3> QED BY <2>4, <3>1
  <2>8. CASE x \notin T
    <3>1. b = a
      BY <2>2, <2>8
    <3>2. \A i, j \in DOMAIN b : i < j => \E k, l \in DOMAIN r : k < l /\ r[k] = b[i] /\ r[l] = b[j]
      BY <2>7, <3>1
    <3> QED BY <2>1, <3>2 DEF b, r
  <2>9. CASE x \in T
    <3>1. Len(b) = Len(a) + 1 /\ b[Len(a) + 1] = x /\ (\A i \in 1 .. Len(a) : b[i] = a[i]) /\ b \in Seq(S)
      BY <2>2, <2>9, AppendProperties
    <3>2. ASSUME NEW i \in DOMAIN b, NEW j \in DOMAIN b, i < j
          PROVE  \E k, l \in DOMAIN r : k < l /\ r[k] = b[i] /\ r[l] = b[j]
      <4>1. i \in DOMAIN a /\ (j \in DOMAIN a \/ j = Len(a) + 1)
        BY <2>6, <3>1, <3>2
      <4>2. b[i] = a[i]
        BY <2>6, <3>1, <4>1
      <4>3. CASE j \in DOMAIN a
        <5>1. b[j] = a[j]
          BY <2>6, <3>1, <4>3
        <5> QED BY <2>7, <3>2, <4>1, <4>2, <4>3, <5>1
      <4>4. CASE j = Len(a) + 1
        <5>1. PICK k \in DOMAIN q : q[k] = a[i]
          BY <2>5, <4>1
        <5>2. k \in DOMAIN r /\ Len(q) + 1 \in DOMAIN r /\ k < Len(q) + 1 /\ r[k] = q[k]
          BY <2>1, <2>6, <5>1
        <5>3. r[Len(q) + 1] = b[j]
          BY <2>1, <3>1, <4>4
        <5> QED BY <4>2, <5>1, <5>2, <5>3
      <4> QED BY <4>1, <4>3, <4>4
    <3> QED BY <2>1, <3>2 DEF b, r
  <2> QED BY <2>8, <2>9 DEF r
<1>3. Seq(S) \subseteq P
  <2> HIDE DEF P
  <2> QED BY <1>1, <1>2, SeqSetInduction
<1> QED BY <1>3

\* It matters only which elements of the list are to be kept.
LEMMA SelectedSame ==
  ASSUME NEW S, NEW s \in Seq(S), NEW T, NEW U, S \cap T = S \cap U
  PROVE  Selected(s, T) = Selected(s, U)
<1> DEFINE P == {r \in Seq(S) : Selected(r, T) = Selected(r, U)}
<1>1. <<>> \in P
  BY SelectedEmpty
<1>2. ASSUME NEW r \in Seq(S), NEW x \in S, r \in P PROVE Append(r, x) \in P
  <2>1. Selected(Append(r, x), T) = IF x \in T THEN Append(Selected(r, T), x) ELSE Selected(r, T)
    BY SelectedAppend
  <2>2. Selected(Append(r, x), U) = IF x \in U THEN Append(Selected(r, U), x) ELSE Selected(r, U)
    BY SelectedAppend
  <2>3. x \in T <=> x \in U
    OBVIOUS
  <2>4. Append(r, x) \in Seq(S)
    OBVIOUS
  <2> QED
    BY <1>2, <2>1, <2>2, <2>3, <2>4
<1> HIDE DEF P
<1>3. Seq(S) \subseteq P
  BY <1>1, <1>2, SeqSetInduction
<1> QED
  BY <1>3 DEF P

\* A list of what is to be kept is selected as it is.
LEMMA SelectedAll ==
  ASSUME NEW S, NEW s \in Seq(S), NEW T, S \subseteq T
  PROVE  Selected(s, T) = s
<1> DEFINE P == {r \in Seq(S) : Selected(r, T) = r}
<1>1. <<>> \in P
  BY SelectedEmpty
<1>2. ASSUME NEW r \in Seq(S), NEW x \in S, r \in P PROVE Append(r, x) \in P
  <2>1. Selected(Append(r, x), T) = IF x \in T THEN Append(Selected(r, T), x) ELSE Selected(r, T)
    BY SelectedAppend
  <2> QED
    BY <1>2, <2>1
<1> HIDE DEF P
<1>3. Seq(S) \subseteq P
  BY <1>1, <1>2, SeqSetInduction
<1> QED
  BY <1>3 DEF P

\* To select from what has been selected is to select what both keep.
LEMMA SelectedTwice ==
  ASSUME NEW S, NEW s \in Seq(S), NEW T, NEW U
  PROVE  Selected(Selected(s, T), U) = Selected(s, T \cap U)
<1> DEFINE P == {r \in Seq(S) : Selected(Selected(r, T), U) = Selected(r, T \cap U)}
<1>1. <<>> \in P
  BY SelectedEmpty
<1>2. ASSUME NEW r \in Seq(S), NEW x \in S, r \in P PROVE Append(r, x) \in P
  <2>1. Selected(Append(r, x), T) = IF x \in T THEN Append(Selected(r, T), x) ELSE Selected(r, T)
    BY SelectedAppend
  <2>2. Selected(Append(r, x), T \cap U)
          = IF x \in T \cap U THEN Append(Selected(r, T \cap U), x) ELSE Selected(r, T \cap U)
    BY SelectedAppend
  <2>3. Selected(r, T) \in Seq(S)
    BY SelectedType
  <2>4. Selected(Append(Selected(r, T), x), U)
          = IF x \in U THEN Append(Selected(Selected(r, T), U), x) ELSE Selected(Selected(r, T), U)
    BY <2>3, SelectedAppend
  <2>5. Append(r, x) \in Seq(S)
    OBVIOUS
  <2>6. Selected(Selected(r, T), U) = Selected(r, T \cap U)
    BY <1>2
  <2>7. Selected(Selected(Append(r, x), T), U) = Selected(Append(r, x), T \cap U)
    <3>1. CASE x \in T
      <4>1. Selected(Append(r, x), T) = Append(Selected(r, T), x)
        BY <2>1, <3>1
      <4>2. CASE x \in U
        BY <2>2, <2>4, <2>6, <3>1, <4>1, <4>2
      <4>3. CASE x \notin U
        BY <2>2, <2>4, <2>6, <3>1, <4>1, <4>3
      <4> QED
        BY <4>2, <4>3
    <3>2. CASE x \notin T
      BY <2>1, <2>2, <2>6, <3>2
    <3> QED
      BY <3>1, <3>2
  <2> QED
    BY <2>5, <2>7
<1> HIDE DEF P
<1>3. Seq(S) \subseteq P
  BY <1>1, <1>2, SeqSetInduction
<1> QED
  BY <1>3 DEF P

\* What is selected of two lists is selected of each.
LEMMA SelectedConcat ==
  ASSUME NEW S, NEW s \in Seq(S), NEW t \in Seq(S), NEW T
  PROVE  Selected(s \o t, T) = Selected(s, T) \o Selected(t, T)
<1> DEFINE P == {r \in Seq(S) : Selected(s \o r, T) = Selected(s, T) \o Selected(r, T)}
<1>0. Selected(s, T) \in Seq(S)
  BY SelectedType
<1>1. <<>> \in P
  <2>1. s \o <<>> = s /\ Selected(s, T) \o <<>> = Selected(s, T) /\ <<>> \in Seq(S)
    BY <1>0
  <2>2. Selected(<<>>, T) = <<>>
    BY SelectedEmpty
  <2>3. Selected(s \o <<>>, T) = Selected(s, T) \o Selected(<<>>, T)
    BY <2>1, <2>2
  <2> QED
    BY <2>1, <2>3
<1>2. ASSUME NEW r \in Seq(S), NEW x \in S, r \in P PROVE Append(r, x) \in P
  <2>1. Selected(Append(r, x), T) = IF x \in T THEN Append(Selected(r, T), x) ELSE Selected(r, T)
    BY SelectedAppend
  <2>2. s \o Append(r, x) = Append(s \o r, x) /\ s \o r \in Seq(S)
    OBVIOUS
  <2>3. Selected(Append(s \o r, x), T) = IF x \in T THEN Append(Selected(s \o r, T), x) ELSE Selected(s \o r, T)
    BY <2>2, SelectedAppend
  <2>4. Selected(r, T) \in Seq(S)
    BY SelectedType
  <2>5. Selected(s, T) \o Append(Selected(r, T), x) = Append(Selected(s, T) \o Selected(r, T), x)
    BY <1>0, <2>4
  <2>6. Append(r, x) \in Seq(S)
    OBVIOUS
  <2> QED
    BY <1>2, <2>1, <2>2, <2>3, <2>5, <2>6
<1> HIDE DEF P
<1>3. Seq(S) \subseteq P
  BY <1>1, <1>2, SeqSetInduction
<1> QED
  BY <1>3 DEF P

=============================================================================
