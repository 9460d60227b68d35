--------------------------- MODULE SequenceLemmas ---------------------------
(***************************************************************************)
(* Facts about natural numbers, about the operators of SequencesExt and    *)
(* about the sums of Functions that the proofs of several components rest  *)
(* on.                                                                     *)
(***************************************************************************)
EXTENDS Integers, SequencesExt, FiniteSetTheorems, WellFoundedInduction, TLAPS

-----------------------------------------------------------------------------
(* Induction, as the existence of least elements *)

\* Every set of natural numbers that is not empty has a least element.
LEMMA NatLeast ==
    ASSUME NEW T, T \subseteq Nat, T # {}
    PROVE  \E n \in T : \A m \in T : n <= m
<1> DEFINE U == {0..n : n \in T}
<1>1. U \subseteq FiniteSubsetsOf(Nat)
  <2> SUFFICES ASSUME NEW n \in T PROVE 0..n \in FiniteSubsetsOf(Nat)
    OBVIOUS
  <2>1. IsFiniteSet(0..n) /\ 0..n \subseteq Nat
    BY FS_Interval
  <2> QED BY <2>1 DEF FiniteSubsetsOf
<1>2. U # {}
  OBVIOUS
<1> HIDE DEF U
<1>3. PICK x \in U : \A y \in U : ~ (<<y, x>> \in StrictSubsetOrdering(Nat))
  BY <1>1, <1>2, FS_StrictSubsetOrderingWellFounded, WFMin
<1>4. PICK n \in T : x = 0..n
  BY DEF U
<1>5. ASSUME NEW m \in T, m < n PROVE FALSE
  <2>1. 0..m \in U
    BY DEF U
  <2>2. 0..m \subseteq 0..n /\ 0..m # 0..n
    <3>1. n \in 0..n /\ n \notin 0..m
      BY <1>5
    <3> QED BY <1>5, <3>1
  <2>3. <<0..m, 0..n>> \in StrictSubsetOrdering(Nat)
    BY <2>2 DEF StrictSubsetOrdering
  <2> QED BY <1>3, <1>4, <2>1, <2>3
<1>6. \A m \in T : n <= m
  BY <1>5
<1> QED BY <1>6

\* Min of FiniteSetsExt is that element.
LEMMA MinIsLeast ==
    ASSUME NEW T, T \subseteq Nat, T # {}
    PROVE  Min(T) \in T /\ \A m \in T : Min(T) <= m
<1>1. \E n \in T : \A m \in T : n <= m
  BY NatLeast
<1> QED BY <1>1 DEF Min

\* Max of a set of positions in 1..n is its greatest element.
LEMMA MaxIsGreatest ==
    ASSUME NEW n \in Nat, NEW T, T \subseteq 1..n, T # {}
    PROVE  Max(T) \in T /\ \A m \in T : m <= Max(T)
<1> DEFINE U == {n - m : m \in T}
<1>1. U \subseteq Nat /\ U # {}
  <2>1. \A m \in T : m \in 1..n /\ n - m \in Nat
    OBVIOUS
  <2> QED BY <2>1
<1>2. PICK d \in U : \A u \in U : d <= u
  BY <1>1, NatLeast
<1>3. PICK x \in T : d = n - x
  BY <1>2
<1>4. \A m \in T : m <= x
  <2> SUFFICES ASSUME NEW m \in T PROVE m <= x
    OBVIOUS
  <2>1. d <= n - m
    BY <1>2
  <2> QED BY <1>3, <2>1
<1> QED BY <1>4 DEF Max

-----------------------------------------------------------------------------
(* Sequences *)

\* What InsertAt returns, position by position.
LEMMA InsertAtFacts ==
    ASSUME NEW S, NEW s \in Seq(S), NEW e \in S, NEW i \in 1..(Len(s) + 1)
    PROVE  LET t == InsertAt(s, i, e)
           IN  /\ t \in Seq(S)
               /\ Len(t) = Len(s) + 1
               /\ DOMAIN t = 1..(Len(s) + 1)
               /\ \A j \in 1..(i - 1) : t[j] = s[j]
               /\ t[i] = e
               /\ \A j \in (i + 1)..(Len(s) + 1) : t[j] = s[j - 1]
<1> DEFINE n == Len(s)
           a == SubSeq(s, 1, i - 1)
           b == SubSeq(s, i, n)
<1>1. n \in Nat /\ i \in 1..(n + 1)
  OBVIOUS
<1>2. /\ a \in Seq(S) /\ Len(a) = i - 1
      /\ \A j \in 1..(i - 1) : a[j] = s[j]
  BY <1>1
<1>3. /\ b \in Seq(S) /\ Len(b) = n + 1 - i
      /\ \A j \in 1..(n + 1 - i) : b[j] = s[i + j - 1]
  BY <1>1
<1> HIDE DEF a, b, n
<1> DEFINE c == a \o <<e>>
<1>4. /\ c \in Seq(S) /\ Len(c) = i
      /\ \A j \in 1..(i - 1) : c[j] = s[j]
      /\ c[i] = e
  BY <1>1, <1>2
<1> HIDE DEF c
<1> DEFINE t == c \o b
<1>5. /\ t \in Seq(S) /\ Len(t) = n + 1
      /\ DOMAIN t = 1..(n + 1)
      /\ \A j \in 1..i : t[j] = c[j]
      /\ \A j \in (i + 1)..(n + 1) : t[j] = b[j - i]
  BY <1>1, <1>3, <1>4
<1> HIDE DEF t
<1>6. \A j \in (i + 1)..(n + 1) : t[j] = s[j - 1]
  <2> SUFFICES ASSUME NEW j \in (i + 1)..(n + 1) PROVE t[j] = s[j - 1]
    OBVIOUS
  <2>1. j - i \in 1..(n + 1 - i) /\ i + (j - i) - 1 = j - 1
    BY <1>1
  <2> QED BY <1>3, <1>5, <2>1
<1>7. \A j \in 1..(i - 1) : t[j] = s[j]
  BY <1>1, <1>4, <1>5
<1>8. t[i] = e
  BY <1>1, <1>4, <1>5
<1>9. InsertAt(s, i, e) = t
  BY DEF InsertAt, t, c, a, b, n
<1> QED BY <1>5, <1>6, <1>7, <1>8, <1>9 DEF n

\* What RemoveAt returns, position by position.
LEMMA RemoveAtFacts ==
    ASSUME NEW S, NEW s \in Seq(S), NEW i \in 1..Len(s)
    PROVE  LET t == RemoveAt(s, i)
           IN  /\ t \in Seq(S)
               /\ Len(t) = Len(s) - 1
               /\ DOMAIN t = 1..(Len(s) - 1)
               /\ \A j \in 1..(i - 1) : t[j] = s[j]
               /\ \A j \in i..(Len(s) - 1) : t[j] = s[j + 1]
<1> DEFINE n == Len(s)
           a == SubSeq(s, 1, i - 1)
           b == SubSeq(s, i + 1, n)
<1>1. n \in Nat /\ i \in 1..n
  OBVIOUS
<1>2. /\ a \in Seq(S) /\ Len(a) = i - 1
      /\ \A j \in 1..(i - 1) : a[j] = s[j]
  BY <1>1
<1>3. /\ b \in Seq(S) /\ Len(b) = n - i
      /\ \A j \in 1..(n - i) : b[j] = s[i + j]
  BY <1>1
<1> HIDE DEF a, b, n
<1> DEFINE t == a \o b
<1>4. /\ t \in Seq(S) /\ Len(t) = n - 1
      /\ DOMAIN t = 1..(n - 1)
      /\ \A j \in 1..(i - 1) : t[j] = a[j]
      /\ \A j \in i..(n - 1) : t[j] = b[j - (i - 1)]
  <2>1. t \in Seq(S) /\ Len(t) = Len(a) + Len(b)
    <3>1. a \in Seq(S) /\ b \in Seq(S)
      BY <1>2, <1>3
    <3> QED BY <3>1
  <2>2. Len(t) = n - 1
    BY <1>1, <1>2, <1>3, <2>1
  <2>3. \A j \in 1..(Len(a) + Len(b)) :
            t[j] = IF j <= Len(a) THEN a[j] ELSE b[j - Len(a)]
    <3>1. a \in Seq(S) /\ b \in Seq(S)
      BY <1>2, <1>3
    <3> QED BY <3>1
  <2>4. DOMAIN t = 1..(n - 1)
    BY <2>1, <2>2
  <2>5. Len(a) + Len(b) = n - 1
    BY <1>1, <1>2, <1>3
  <2> HIDE DEF t
  <2>6. \A j \in 1..(i - 1) : t[j] = a[j]
    <3> SUFFICES ASSUME NEW j \in 1..(i - 1) PROVE t[j] = a[j]
      OBVIOUS
    <3>1. j \in 1..(Len(a) + Len(b)) /\ j <= Len(a)
      BY <1>1, <1>2, <2>5
    <3> QED BY <2>3, <3>1
  <2>7. \A j \in i..(n - 1) : t[j] = b[j - (i - 1)]
    <3> SUFFICES ASSUME NEW j \in i..(n - 1) PROVE t[j] = b[j - (i - 1)]
      OBVIOUS
    <3>1. j \in 1..(Len(a) + Len(b)) /\ ~(j <= Len(a)) /\ Len(a) = i - 1
      BY <1>1, <1>2, <2>5
    <3> QED BY <2>3, <3>1
  <2> QED BY <2>1, <2>2, <2>4, <2>6, <2>7
<1> HIDE DEF t
<1>5. \A j \in i..(n - 1) : t[j] = s[j + 1]
  <2> SUFFICES ASSUME NEW j \in i..(n - 1) PROVE t[j] = s[j + 1]
    OBVIOUS
  <2>1. j - (i - 1) \in 1..(n - i) /\ i + (j - (i - 1)) = j + 1
    BY <1>1
  <2> QED BY <1>3, <1>4, <2>1
<1>6. \A j \in 1..(i - 1) : t[j] = s[j]
  BY <1>2, <1>4
<1>7. RemoveAt(s, i) = t
  BY DEF RemoveAt, t, a, b, n
<1> QED BY <1>4, <1>5, <1>6, <1>7 DEF n

\* Inserting adds an element to a sequence's range, and keeps a sequence
\* without duplicates so when the element is new.
LEMMA InsertAtRange ==
    ASSUME NEW S, NEW s \in Seq(S), NEW e \in S, NEW i \in 1..(Len(s) + 1)
    PROVE  /\ Range(InsertAt(s, i, e)) = Range(s) \cup {e}
           /\ IsInjective(s) /\ e \notin Range(s) => IsInjective(InsertAt(s, i, e))
<1> DEFINE n == Len(s)
           t == InsertAt(s, i, e)
<1>1. /\ n \in Nat /\ i \in 1..(n + 1)
      /\ DOMAIN s = 1..n
      /\ DOMAIN t = 1..(n + 1)
      /\ \A j \in 1..(i - 1) : t[j] = s[j]
      /\ t[i] = e
      /\ \A j \in (i + 1)..(n + 1) : t[j] = s[j - 1]
  BY InsertAtFacts
<1> HIDE DEF n, t
<1>2. \A j \in 1..(n + 1) : j # i =>
          \E k \in 1..n : t[j] = s[k] /\ k = IF j < i THEN j ELSE j - 1
  <2> SUFFICES ASSUME NEW j \in 1..(n + 1), j # i
               PROVE  \E k \in 1..n : t[j] = s[k] /\ k = IF j < i THEN j ELSE j - 1
    OBVIOUS
  <2>1. CASE j < i
    <3>1. j \in 1..n /\ t[j] = s[j]
      BY <1>1, <2>1
    <3> QED BY <2>1, <3>1
  <2>2. CASE j > i
    <3>1. j - 1 \in 1..n /\ t[j] = s[j - 1] /\ ~(j < i)
      BY <1>1, <2>2
    <3> QED BY <3>1
  <2> QED BY <1>1, <2>1, <2>2
<1>3. \A k \in 1..n : \E j \in 1..(n + 1) : t[j] = s[k]
  <2> SUFFICES ASSUME NEW k \in 1..n PROVE \E j \in 1..(n + 1) : t[j] = s[k]
    OBVIOUS
  <2>1. CASE k < i
    <3>1. k \in 1..(n + 1) /\ t[k] = s[k]
      BY <1>1, <2>1
    <3> QED BY <3>1
  <2>2. CASE k >= i
    <3>1. k + 1 \in 1..(n + 1) /\ t[k + 1] = s[k]
      BY <1>1, <2>2
    <3> QED BY <3>1
  <2> QED BY <1>1, <2>1, <2>2
<1>4. Range(t) = Range(s) \cup {e}
  <2>1. \A j \in DOMAIN t : t[j] \in Range(s) \cup {e}
    BY <1>1, <1>2 DEF Range
  <2>2. \A k \in DOMAIN s : s[k] \in Range(t)
    BY <1>1, <1>3 DEF Range
  <2>3. e \in Range(t)
    BY <1>1 DEF Range
  <2> QED BY <2>1, <2>2, <2>3 DEF Range
<1>5. ASSUME IsInjective(s), e \notin Range(s) PROVE IsInjective(t)
  <2> SUFFICES ASSUME NEW j \in 1..(n + 1), NEW k \in 1..(n + 1), t[j] = t[k]
               PROVE  j = k
    BY <1>1 DEF IsInjective
  <2>1. \A m \in 1..n : s[m] # e
    BY <1>1, <1>5 DEF Range
  <2>2. \A l, m \in 1..n : s[l] = s[m] => l = m
    BY <1>1, <1>5 DEF IsInjective
  <2>3. CASE j = i \/ k = i
    BY <1>1, <1>2, <2>1, <2>3
  <2>4. CASE j # i /\ k # i
    <3>1. PICK l \in 1..n : t[j] = s[l] /\ l = IF j < i THEN j ELSE j - 1
      BY <1>2, <2>4
    <3>2. PICK m \in 1..n : t[k] = s[m] /\ m = IF k < i THEN k ELSE k - 1
      BY <1>2, <2>4
    <3>3. l = m
      BY <2>2, <3>1, <3>2
    <3> QED BY <1>1, <2>4, <3>1, <3>2, <3>3
  <2> QED BY <2>3, <2>4
<1> QED BY <1>4, <1>5 DEF t

\* t is s with e behind the k-th element.
IsInserted(t, s, k, e) ==
    /\ Len(t) = Len(s) + 1
    /\ \A j \in 1..k : t[j] = s[j]
    /\ t[k + 1] = e
    /\ \A j \in (k + 2)..(Len(s) + 1) : t[j] = s[j - 1]
    /\ Range(t) = Range(s) \cup {e}
    /\ IsInjective(s) /\ e \notin Range(s) => IsInjective(t)

\* InsertAt returns it.
LEMMA InsertBehind ==
    ASSUME NEW S, NEW s \in Seq(S), NEW e \in S, NEW k \in 0..Len(s)
    PROVE  /\ InsertAt(s, k + 1, e) \in Seq(S)
           /\ IsInserted(InsertAt(s, k + 1, e), s, k, e)
<1>1. k + 1 \in 1..(Len(s) + 1) /\ (k + 1) - 1 = k /\ (k + 1) + 1 = k + 2
  OBVIOUS
<1> DEFINE t == InsertAt(s, k + 1, e)
<1>2. /\ t \in Seq(S)
      /\ Len(t) = Len(s) + 1
      /\ \A j \in 1..((k + 1) - 1) : t[j] = s[j]
      /\ t[k + 1] = e
      /\ \A j \in ((k + 1) + 1)..(Len(s) + 1) : t[j] = s[j - 1]
  BY <1>1, InsertAtFacts
<1>3. /\ Range(t) = Range(s) \cup {e}
      /\ IsInjective(s) /\ e \notin Range(s) => IsInjective(t)
  BY <1>1, InsertAtRange
<1> HIDE DEF t
<1>4. /\ \A j \in 1..k : t[j] = s[j]
      /\ \A j \in (k + 2)..(Len(s) + 1) : t[j] = s[j - 1]
  BY <1>1, <1>2, Zenon
<1> QED BY <1>2, <1>3, <1>4 DEF t, IsInserted

\* Removing takes an element out of the range of a sequence without
\* duplicates.
LEMMA RemoveAtRange ==
    ASSUME NEW S, NEW s \in Seq(S), NEW i \in 1..Len(s), IsInjective(s)
    PROVE  /\ Range(RemoveAt(s, i)) = Range(s) \ {s[i]}
           /\ IsInjective(RemoveAt(s, i))
<1> DEFINE n == Len(s)
           t == RemoveAt(s, i)
<1>1. /\ n \in Nat /\ i \in 1..n
      /\ DOMAIN s = 1..n
      /\ DOMAIN t = 1..(n - 1)
      /\ \A j \in 1..(i - 1) : t[j] = s[j]
      /\ \A j \in i..(n - 1) : t[j] = s[j + 1]
  <2>1. n \in Nat /\ i \in 1..n /\ DOMAIN s = 1..n
    OBVIOUS
  <2> HIDE DEF t
  <2>2. /\ DOMAIN t = 1..(Len(s) - 1)
        /\ \A j \in 1..(i - 1) : t[j] = s[j]
        /\ \A j \in i..(Len(s) - 1) : t[j] = s[j + 1]
    BY RemoveAtFacts, Zenon DEF t
  <2> QED BY <2>1, <2>2
<1> HIDE DEF n, t
<1>2. \A l, m \in 1..n : s[l] = s[m] => l = m
  BY <1>1 DEF IsInjective
<1>3. \A j \in 1..(n - 1) :
          \E k \in 1..n : t[j] = s[k] /\ k # i /\ k = IF j < i THEN j ELSE j + 1
  <2> SUFFICES ASSUME NEW j \in 1..(n - 1)
               PROVE  \E k \in 1..n : t[j] = s[k] /\ k # i
                                      /\ k = IF j < i THEN j ELSE j + 1
    OBVIOUS
  <2>1. CASE j < i
    <3>1. j \in 1..n /\ t[j] = s[j] /\ j # i
      BY <1>1, <2>1
    <3> QED BY <2>1, <3>1
  <2>2. CASE j >= i
    <3>1. j + 1 \in 1..n /\ t[j] = s[j + 1] /\ ~(j < i) /\ j + 1 # i
      BY <1>1, <2>2
    <3> QED BY <3>1
  <2> QED BY <1>1, <2>1, <2>2
<1>4. \A k \in 1..n : k # i => \E j \in 1..(n - 1) : t[j] = s[k]
  <2> SUFFICES ASSUME NEW k \in 1..n, k # i PROVE \E j \in 1..(n - 1) : t[j] = s[k]
    OBVIOUS
  <2>1. CASE k < i
    <3>1. k \in 1..(n - 1) /\ t[k] = s[k]
      BY <1>1, <2>1
    <3> QED BY <3>1
  <2>2. CASE k > i
    <3>1. k - 1 \in 1..(n - 1) /\ t[k - 1] = s[k]
      BY <1>1, <2>2
    <3> QED BY <3>1
  <2> QED BY <1>1, <2>1, <2>2
<1>5. Range(t) = Range(s) \ {s[i]}
  <2>1. \A j \in DOMAIN t : t[j] \in Range(s) \ {s[i]}
    <3> SUFFICES ASSUME NEW j \in 1..(n - 1) PROVE t[j] \in Range(s) \ {s[i]}
      BY <1>1
    <3>1. PICK k \in 1..n : t[j] = s[k] /\ k # i
      BY <1>3
    <3> QED BY <1>1, <1>2, <3>1 DEF Range
  <2>2. \A k \in DOMAIN s : s[k] # s[i] => s[k] \in Range(t)
    <3> SUFFICES ASSUME NEW k \in 1..n, s[k] # s[i] PROVE s[k] \in Range(t)
      BY <1>1
    <3>1. PICK j \in 1..(n - 1) : t[j] = s[k]
      BY <1>4
    <3> QED BY <1>1, <3>1 DEF Range
  <2> QED BY <2>1, <2>2 DEF Range
<1>6. IsInjective(t)
  <2> SUFFICES ASSUME NEW j \in 1..(n - 1), NEW k \in 1..(n - 1), t[j] = t[k]
               PROVE  j = k
    BY <1>1 DEF IsInjective
  <2>1. PICK l \in 1..n : t[j] = s[l] /\ l = IF j < i THEN j ELSE j + 1
    BY <1>3
  <2>2. PICK m \in 1..n : t[k] = s[m] /\ m = IF k < i THEN k ELSE k + 1
    BY <1>3
  <2>3. l = m
    BY <1>2, <2>1, <2>2
  <2> QED BY <1>1, <2>1, <2>2, <2>3
<1> QED BY <1>5, <1>6 DEF t

\* t is s without its k-th element.
IsRemoved(t, s, k) ==
    /\ Len(t) = Len(s) - 1
    /\ \A j \in 1..(k - 1) : t[j] = s[j]
    /\ \A j \in k..(Len(s) - 1) : t[j] = s[j + 1]
    /\ IsInjective(s) => /\ Range(t) = Range(s) \ {s[k]}
                         /\ IsInjective(t)

\* RemoveAt returns it.
LEMMA RemoveOne ==
    ASSUME NEW S, NEW s \in Seq(S), NEW k \in 1..Len(s)
    PROVE  RemoveAt(s, k) \in Seq(S) /\ IsRemoved(RemoveAt(s, k), s, k)
<1> DEFINE t == RemoveAt(s, k)
<1>1. t \in Seq(S)
  BY RemoveAtFacts
<1>2. Len(t) = Len(s) - 1
  BY RemoveAtFacts
<1>3. \A j \in 1..(k - 1) : t[j] = s[j]
  BY RemoveAtFacts
<1>4. \A j \in k..(Len(s) - 1) : t[j] = s[j + 1]
  BY RemoveAtFacts
<1>5. IsInjective(s) => Range(t) = Range(s) \ {s[k]} /\ IsInjective(t)
  BY RemoveAtRange
<1> HIDE DEF t
<1>6. IsRemoved(t, s, k)
  BY <1>2, <1>3, <1>4, <1>5 DEF IsRemoved
<1> QED BY <1>1, <1>6 DEF t

\* t is s with e in place of its k-th element.
IsReplaced(t, s, k, e) ==
    /\ Len(t) = Len(s)
    /\ t[k] = e
    /\ \A j \in 1..Len(s) : j # k => t[j] = s[j]
    /\ IsInjective(s) /\ e \notin Range(s) =>
           /\ Range(t) = (Range(s) \ {s[k]}) \cup {e}
           /\ IsInjective(t)

\* ReplaceAt returns it.
LEMMA ReplaceOne ==
    ASSUME NEW S, NEW s \in Seq(S), NEW k \in 1..Len(s), NEW e \in S
    PROVE  ReplaceAt(s, k, e) \in Seq(S) /\ IsReplaced(ReplaceAt(s, k, e), s, k, e)
<1> DEFINE t == ReplaceAt(s, k, e)
           n == Len(s)
<1>1. n \in Nat /\ DOMAIN s = 1..n /\ k \in 1..n
  OBVIOUS
<1>2. /\ t \in Seq(S) /\ Len(t) = n /\ DOMAIN t = 1..n /\ t[k] = e
      /\ \A j \in 1..n : j # k => t[j] = s[j]
  BY DEF ReplaceAt
<1> HIDE DEF t, n
<1>3. ASSUME IsInjective(s), e \notin Range(s)
      PROVE  Range(t) = (Range(s) \ {s[k]}) \cup {e}
  <2>1. \A i, j \in 1..n : s[i] = s[j] => i = j
    BY <1>1, <1>3 DEF IsInjective
  <2>2. \A j \in DOMAIN t : t[j] \in (Range(s) \ {s[k]}) \cup {e}
    BY <1>1, <1>2, <2>1 DEF Range
  <2>3. \A j \in DOMAIN s : s[j] # s[k] => s[j] \in Range(t)
    <3> SUFFICES ASSUME NEW j \in 1..n, s[j] # s[k] PROVE s[j] \in Range(t)
      BY <1>1
    <3>1. j \in DOMAIN t /\ t[j] = s[j]
      BY <1>2
    <3> QED BY <3>1 DEF Range
  <2>4. e \in Range(t)
    BY <1>1, <1>2 DEF Range
  <2> QED BY <2>2, <2>3, <2>4 DEF Range
<1>4. ASSUME IsInjective(s), e \notin Range(s) PROVE IsInjective(t)
  <2>1. \A i, j \in 1..n : s[i] = s[j] => i = j
    BY <1>1, <1>4 DEF IsInjective
  <2>2. \A j \in 1..n : s[j] # e
    BY <1>1, <1>4 DEF Range
  <2>3. \A i, j \in 1..n : t[i] = t[j] => i = j
    BY <1>2, <2>1, <2>2
  <2> QED BY <1>2, <2>3 DEF IsInjective
<1>5. IsReplaced(t, s, k, e)
  BY <1>2, <1>3, <1>4 DEF IsReplaced, n
<1> QED BY <1>2, <1>5 DEF t

\* t is a followed by b.
IsJoined(t, a, b) ==
    /\ Len(t) = Len(a) + Len(b)
    /\ \A j \in 1..Len(a) : t[j] = a[j]
    /\ \A j \in 1..Len(b) : t[Len(a) + j] = b[j]
    /\ Range(t) = Range(a) \cup Range(b)
    /\ IsInjective(a) /\ IsInjective(b) /\ Range(a) \cap Range(b) = {} =>
           IsInjective(t)

\* Concatenation returns it.
LEMMA JoinTwo ==
    ASSUME NEW S, NEW a \in Seq(S), NEW b \in Seq(S)
    PROVE  a \o b \in Seq(S) /\ IsJoined(a \o b, a, b)
<1> DEFINE t == a \o b
           m == Len(a)
           n == Len(b)
<1>1. /\ m \in Nat /\ n \in Nat /\ DOMAIN a = 1..m /\ DOMAIN b = 1..n
      /\ t \in Seq(S) /\ Len(t) = m + n /\ DOMAIN t = 1..(m + n)
      /\ \A j \in 1..m : t[j] = a[j]
  OBVIOUS
<1>2. \A j \in 1..n : t[m + j] = b[j]
  OBVIOUS
<1> HIDE DEF t, m, n
<1>3. \A i \in 1..(m + n) : \/ i \in 1..m
                            \/ i - m \in 1..n /\ t[i] = b[i - m]
  <2> SUFFICES ASSUME NEW i \in 1..(m + n), i \notin 1..m
               PROVE  i - m \in 1..n /\ t[i] = b[i - m]
    OBVIOUS
  <2>1. i - m \in 1..n /\ m + (i - m) = i
    BY <1>1
  <2> QED BY <1>2, <2>1
<1>4. Range(t) = Range(a) \cup Range(b)
  <2>1. \A i \in DOMAIN t : t[i] \in Range(a) \cup Range(b)
    BY <1>1, <1>3 DEF Range
  <2>2. \A i \in DOMAIN a : a[i] \in Range(t)
    <3> SUFFICES ASSUME NEW i \in 1..m PROVE a[i] \in Range(t)
      BY <1>1
    <3>1. i \in DOMAIN t /\ t[i] = a[i]
      BY <1>1
    <3> QED BY <3>1 DEF Range
  <2>3. \A i \in DOMAIN b : b[i] \in Range(t)
    <3> SUFFICES ASSUME NEW i \in 1..n PROVE b[i] \in Range(t)
      BY <1>1
    <3>1. m + i \in DOMAIN t /\ t[m + i] = b[i]
      BY <1>1, <1>2
    <3> QED BY <3>1 DEF Range
  <2> QED BY <2>1, <2>2, <2>3 DEF Range
<1>5. ASSUME IsInjective(a), IsInjective(b), Range(a) \cap Range(b) = {}
      PROVE  IsInjective(t)
  <2>1. /\ \A i, j \in 1..m : a[i] = a[j] => i = j
        /\ \A i, j \in 1..n : b[i] = b[j] => i = j
    BY <1>1, <1>5 DEF IsInjective
  <2>2. \A i \in 1..m, j \in 1..n : a[i] # b[j]
    BY <1>1, <1>5 DEF Range
  <2> SUFFICES ASSUME NEW i \in 1..(m + n), NEW j \in 1..(m + n), t[i] = t[j]
               PROVE  i = j
    BY <1>1 DEF IsInjective
  <2>3. CASE i \in 1..m /\ j \in 1..m
    BY <1>1, <2>1, <2>3
  <2>4. CASE i \notin 1..m /\ j \notin 1..m
    <3>1. i - m = j - m
      BY <1>3, <2>1, <2>4
    <3> QED BY <1>1, <3>1
  <2>5. CASE (i \in 1..m) # (j \in 1..m)
    BY <1>1, <1>3, <2>2, <2>5
  <2> QED BY <2>3, <2>4, <2>5
<1>6. IsJoined(t, a, b)
  BY <1>1, <1>2, <1>4, <1>5 DEF IsJoined, m, n
<1> QED BY <1>1, <1>6 DEF t

\* Sequences of the same length with the same elements are the same.
LEMMA SeqEqual ==
    ASSUME NEW S, NEW t \in Seq(S), NEW u \in Seq(S), NEW m \in Nat,
           Len(t) = m, Len(u) = m, \A j \in 1..m : t[j] = u[j]
    PROVE  t = u
<1>1. t = [j \in 1..m |-> t[j]] /\ u = [j \in 1..m |-> u[j]]
  OBVIOUS
<1> QED BY <1>1

\* Inserting at either end.
LEMMA InsertAtEnds ==
    ASSUME NEW S, NEW s \in Seq(S), NEW e \in S
    PROVE  /\ InsertAt(s, 1, e) = <<e>> \o s
           /\ InsertAt(s, Len(s) + 1, e) = Append(s, e)
<1> DEFINE n == Len(s)
<1>1. n \in Nat /\ 0 + 1 = 1 /\ 0 \in 0..n /\ n \in 0..n
  OBVIOUS
<1>2. InsertAt(s, 1, e) = <<e>> \o s
  <2> DEFINE t == InsertAt(s, 1, e)
             u == <<e>> \o s
  <2>1. t \in Seq(S) /\ IsInserted(t, s, 0, e)
    BY <1>1, InsertBehind
  <2>2. /\ u \in Seq(S) /\ Len(u) = n + 1 /\ u[1] = e
        /\ \A j \in 2..(n + 1) : u[j] = s[j - 1]
    OBVIOUS
  <2> HIDE DEF t, u
  <2>3. /\ Len(t) = n + 1 /\ t[1] = e
        /\ \A j \in 2..(n + 1) : t[j] = s[j - 1]
    BY <1>1, <2>1 DEF IsInserted
  <2> HIDE DEF n
  <2>4. \A j \in 1..(n + 1) : t[j] = u[j]
    <3> SUFFICES ASSUME NEW j \in 1..(n + 1) PROVE t[j] = u[j]
      OBVIOUS
    <3>1. j = 1 \/ j \in 2..(n + 1)
      BY <1>1
    <3> QED BY <2>2, <2>3, <3>1
  <2>5. t = u
    BY <1>1, <2>1, <2>2, <2>3, <2>4, SeqEqual
  <2> QED BY <2>5 DEF t, u
<1>3. InsertAt(s, n + 1, e) = Append(s, e)
  <2> DEFINE t == InsertAt(s, n + 1, e)
             u == Append(s, e)
  <2>1. t \in Seq(S) /\ IsInserted(t, s, n, e)
    BY <1>1, InsertBehind
  <2>2. /\ u \in Seq(S) /\ Len(u) = n + 1 /\ u[n + 1] = e
        /\ \A j \in 1..n : u[j] = s[j]
    OBVIOUS
  <2> HIDE DEF t, u
  <2>3. /\ Len(t) = n + 1 /\ t[n + 1] = e
        /\ \A j \in 1..n : t[j] = s[j]
    BY <1>1, <2>1 DEF IsInserted
  <2> HIDE DEF n
  <2>4. \A j \in 1..(n + 1) : t[j] = u[j]
    <3> SUFFICES ASSUME NEW j \in 1..(n + 1) PROVE t[j] = u[j]
      OBVIOUS
    <3>1. j = n + 1 \/ j \in 1..n
      BY <1>1
    <3> QED BY <2>2, <2>3, <3>1
  <2>5. t = u
    BY <1>1, <2>1, <2>2, <2>3, <2>4, SeqEqual
  <2> QED BY <2>5 DEF t, u
<1> QED BY <1>2, <1>3

-----------------------------------------------------------------------------
(* Sums over finite sets *)

\* A set of subsets of a finite set has an element of least size.
LEMMA LeastSubset ==
    ASSUME NEW S, IsFiniteSet(S), NEW T, T \subseteq SUBSET S, T # {}
    PROVE  \E t \in T : \A u \in T : Cardinality(t) <= Cardinality(u)
<1> DEFINE N == {Cardinality(t) : t \in T}
<1>1. N \subseteq Nat
  BY FS_Subset, FS_CardinalityType
<1>2. N # {}
  OBVIOUS
<1>3. PICK n \in N : \A m \in N : n <= m
  BY <1>1, <1>2, NatLeast
<1> QED BY <1>3

\* The element a fold takes first.
One(s) == CHOOSE x \in s : TRUE

\* The rest is smaller.
LEMMA Rest ==
    ASSUME NEW S, IsFiniteSet(S), NEW s, s \subseteq S, NEW x \in s
    PROVE  /\ s \ {x} \subseteq S /\ IsFiniteSet(s) /\ Cardinality(s) \in Nat
           /\ Cardinality(s \ {x}) = Cardinality(s) - 1
           /\ Cardinality(s \ {x}) \in Nat
<1>1. IsFiniteSet(s) /\ IsFiniteSet(s \ {x})
  BY FS_Subset
<1>2. Cardinality(s) \in Nat /\ Cardinality(s \ {x}) \in Nat
  BY <1>1, FS_CardinalityType
<1> QED BY <1>1, <1>2, FS_RemoveElement

\* It is an element.
LEMMA OneIn ==
    ASSUME NEW s, s # {}
    PROVE  One(s) \in s
BY DEF One

\* g sums w over the sets of D.
Sums(g, w, D) ==
    g = [s \in D |-> IF s = {} THEN 0 ELSE w[One(s)] + g[s \ {One(s)}]]

\* The function it is computed with.
Totals(w, S) == CHOOSE g : Sums(g, w, SUBSET S)

\* It is computed with this function.
LEMMA SumIsTotal ==
    ASSUME NEW w, NEW S
    PROVE  /\ SumFunctionOnSet(w, S) = Totals(w, S)[S]
           /\ SumFunction(w) = SumFunctionOnSet(w, DOMAIN w)
<1>1. SumFunctionOnSet(w, S) = Totals(w, S)[S]
  BY DEF SumFunctionOnSet, FoldFunctionOnSet, MapThenFoldSet, Totals, Sums, One
<1>2. SumFunction(w) = SumFunctionOnSet(w, DOMAIN w)
  BY DEF SumFunction
<1> QED BY <1>1, <1>2

\* There is such a function.
LEMMA TotalsExist ==
    ASSUME NEW S, IsFiniteSet(S), NEW w
    PROVE  Sums(Totals(w, S), w, SUBSET S)
<1> DEFINE Upto(n) == {s \in SUBSET S : Cardinality(s) <= n}
           T == {n \in Nat : ~ \E g : Sums(g, w, Upto(n))}
<1>1. T = {}
  <2> SUFFICES ASSUME T # {} PROVE FALSE
    OBVIOUS
  <2>1. PICK n \in T : \A m \in T : n <= m
    BY NatLeast
  <2>2. n \in Nat
    OBVIOUS
  <2>3. CASE n = 0
    <3> DEFINE g == [s \in Upto(0) |-> 0]
    <3>1. Upto(0) \subseteq {{}}
      BY FS_Subset, FS_CardinalityType, FS_EmptySet
    <3>2. Sums(g, w, Upto(0))
      BY <3>1 DEF Sums
    <3> QED BY <2>3, <3>2
  <2>4. CASE n # 0
    <3>1. n - 1 \in Nat /\ n - 1 \notin T
      BY <2>1, <2>2, <2>4
    <3>2. PICK g : Sums(g, w, Upto(n - 1))
      BY <3>1
    <3> DEFINE h == [s \in Upto(n) |-> IF s = {} THEN 0 ELSE w[One(s)] + g[s \ {One(s)}]]
    <3>3. ASSUME NEW s \in Upto(n), s # {} PROVE g[s \ {One(s)}] = h[s \ {One(s)}]
      <4> DEFINE u == s \ {One(s)}
      <4>1. One(s) \in s
        BY <3>3, OneIn
      <4>2. /\ u \subseteq S /\ Cardinality(s) \in Nat
            /\ Cardinality(u) = Cardinality(s) - 1 /\ Cardinality(u) \in Nat
        BY <4>1, Rest
      <4>3. u \in Upto(n - 1) /\ u \in Upto(n)
        BY <2>2, <4>2
      <4> HIDE DEF u
      <4>4. g[u] = IF u = {} THEN 0 ELSE w[One(u)] + g[u \ {One(u)}]
        BY <3>2, <4>3 DEF Sums
      <4>5. h[u] = IF u = {} THEN 0 ELSE w[One(u)] + g[u \ {One(u)}]
        BY <4>3
      <4>6. g[u] = h[u]
        BY <4>4, <4>5
      <4> QED BY <4>6 DEF u
    <3>4. \A s \in Upto(n) : h[s] = IF s = {} THEN 0 ELSE w[One(s)] + h[s \ {One(s)}]
      BY <3>3
    <3>5. h = [s \in Upto(n) |-> h[s]]
      OBVIOUS
    <3> HIDE DEF h
    <3>6. Sums(h, w, Upto(n))
      BY <3>4, <3>5 DEF Sums
    <3> QED BY <3>6
  <2> QED BY <2>3, <2>4
<1>2. Cardinality(S) \in Nat
  BY FS_CardinalityType
<1>3. PICK g : Sums(g, w, Upto(Cardinality(S)))
  BY <1>1, <1>2
<1>4. Upto(Cardinality(S)) = SUBSET S
  BY FS_Subset
<1>5. Sums(g, w, SUBSET S)
  BY <1>3, <1>4
<1> QED BY <1>5 DEF Totals

\* What it gives.
LEMMA TotalsAre ==
    ASSUME NEW S, IsFiniteSet(S), NEW w
    PROVE  /\ Totals(w, S)[{}] = 0
           /\ \A s \in SUBSET S : s # {} =>
                 Totals(w, S)[s] = w[One(s)] + Totals(w, S)[s \ {One(s)}]
<1>1. Sums(Totals(w, S), w, SUBSET S)
  BY TotalsExist
<1> DEFINE g == Totals(w, S)
<1> HIDE DEF g
<1>2. g = [s \in SUBSET S |-> IF s = {} THEN 0 ELSE w[One(s)] + g[s \ {One(s)}]]
  BY <1>1 DEF Sums, g
<1>3. \A s \in SUBSET S : g[s] = IF s = {} THEN 0 ELSE w[One(s)] + g[s \ {One(s)}]
  BY <1>2
<1>4. {} \in SUBSET S
  OBVIOUS
<1> QED BY <1>3, <1>4 DEF g

\* w and v have the same values in R.
AgreeOn(w, v, R) == \A x \in R : w[x] = v[x]

\* It depends on the values in the set only.
LEMMA TotalsAgree ==
    ASSUME NEW S, IsFiniteSet(S), NEW R, R \subseteq S, NEW w, NEW v,
           AgreeOn(w, v, R)
    PROVE  \A s \in SUBSET R : Totals(w, R)[s] = Totals(v, S)[s]
<1> DEFINE T == {s \in SUBSET R : Totals(w, R)[s] # Totals(v, S)[s]}
<1> SUFFICES ASSUME T # {} PROVE FALSE
  OBVIOUS
<1>1. IsFiniteSet(R)
  BY FS_Subset
<1>2. PICK s \in T : \A u \in T : Cardinality(s) <= Cardinality(u)
  BY <1>1, LeastSubset
<1>3. s # {}
  BY <1>1, TotalsAre
<1>4. One(s) \in s
  BY <1>3, OneIn
<1>5. /\ s \ {One(s)} \subseteq R /\ Cardinality(s) \in Nat
      /\ Cardinality(s \ {One(s)}) = Cardinality(s) - 1
  BY <1>1, <1>4, Rest
<1>6. s \ {One(s)} \notin T
  BY <1>2, <1>5
<1>7. Totals(w, R)[s \ {One(s)}] = Totals(v, S)[s \ {One(s)}]
  BY <1>5, <1>6
<1>8. Totals(w, R)[s] = w[One(s)] + Totals(w, R)[s \ {One(s)}]
  BY <1>1, <1>3, TotalsAre
<1>9. Totals(v, S)[s] = v[One(s)] + Totals(v, S)[s \ {One(s)}]
  BY <1>3, TotalsAre
<1>10. w[One(s)] = v[One(s)]
  BY <1>4 DEF AgreeOn
<1> QED BY <1>7, <1>8, <1>9, <1>10

\* Sums of integers are integers.
LEMMA TotalsTyped ==
    ASSUME NEW S, IsFiniteSet(S), NEW w, \A x \in S : w[x] \in Int
    PROVE  \A s \in SUBSET S : Totals(w, S)[s] \in Int
<1> DEFINE T == {s \in SUBSET S : Totals(w, S)[s] \notin Int}
<1> SUFFICES ASSUME T # {} PROVE FALSE
  OBVIOUS
<1>1. PICK s \in T : \A u \in T : Cardinality(s) <= Cardinality(u)
  BY LeastSubset
<1>2. s # {}
  <2>1. Totals(w, S)[{}] \in Int
    BY TotalsAre
  <2> QED BY <2>1
<1>3. One(s) \in s
  BY <1>2, OneIn
<1>4. /\ s \ {One(s)} \subseteq S /\ Cardinality(s) \in Nat
      /\ Cardinality(s \ {One(s)}) = Cardinality(s) - 1
  BY <1>3, Rest
<1>5. s \ {One(s)} \notin T
  BY <1>1, <1>4
<1>6. Totals(w, S)[s \ {One(s)}] \in Int
  BY <1>4, <1>5
<1>7. Totals(w, S)[s] = w[One(s)] + Totals(w, S)[s \ {One(s)}]
  BY <1>2, TotalsAre
<1> QED BY <1>3, <1>6, <1>7

\* Any element may be taken first.
LEMMA TotalsAny ==
    ASSUME NEW S, IsFiniteSet(S), NEW w, \A x \in S : w[x] \in Int
    PROVE  \A s \in SUBSET S : \A x \in s :
               Totals(w, S)[s] = w[x] + Totals(w, S)[s \ {x}]
<1> DEFINE g == Totals(w, S)
           T == {s \in SUBSET S : \E x \in s : g[s] # w[x] + g[s \ {x}]}
<1> SUFFICES ASSUME T # {} PROVE FALSE
  OBVIOUS
<1>1. PICK s \in T : \A u \in T : Cardinality(s) <= Cardinality(u)
  BY LeastSubset
<1>2. PICK x \in s : g[s] # w[x] + g[s \ {x}]
  OBVIOUS
<1> DEFINE y == One(s)
           both == (s \ {x}) \ {y}
<1>3. s # {} /\ y \in s
  BY OneIn
<1>4. g[s] = w[y] + g[s \ {y}]
  BY <1>3, TotalsAre
<1>5. x # y
  BY <1>2, <1>4
<1>6. /\ s \ {x} \subseteq S /\ s \ {y} \subseteq S /\ Cardinality(s) \in Nat
      /\ Cardinality(s \ {x}) = Cardinality(s) - 1
      /\ Cardinality(s \ {y}) = Cardinality(s) - 1
  BY <1>3, Rest
<1>7. s \ {x} \notin T /\ s \ {y} \notin T
  <2>1. \A u \in T : ~(Cardinality(u) = Cardinality(s) - 1)
    BY <1>1, <1>6
  <2> QED BY <1>6, <2>1
<1>8. y \in s \ {x} /\ x \in s \ {y}
  BY <1>3, <1>5
<1>9. g[s \ {x}] = w[y] + g[both]
  BY <1>6, <1>7, <1>8
<1>10. (s \ {y}) \ {x} = both
  OBVIOUS
<1>11. g[s \ {y}] = w[x] + g[both]
  BY <1>6, <1>7, <1>8, <1>10
<1>12. w[x] \in Int /\ w[y] \in Int /\ g[both] \in Int
  BY <1>3, TotalsTyped
<1> HIDE DEF g, y, both
<1> QED BY <1>2, <1>4, <1>9, <1>11, <1>12

\* The sum over no element.
LEMMA SumEmpty ==
    ASSUME NEW w
    PROVE  SumFunctionOnSet(w, {}) = 0
BY SumIsTotal, TotalsAre, FS_EmptySet

\* Sums of integers are integers and depend on the values in the set only.
LEMMA SumAgrees ==
    ASSUME NEW S, IsFiniteSet(S), NEW w, NEW v, AgreeOn(w, v, S)
    PROVE  /\ SumFunctionOnSet(w, S) = SumFunctionOnSet(v, S)
           /\ (\A x \in S : w[x] \in Int) => SumFunctionOnSet(w, S) \in Int
<1>1. S \in SUBSET S /\ S \subseteq S
  OBVIOUS
<1>2. SumFunctionOnSet(w, S) = Totals(w, S)[S] /\ SumFunctionOnSet(v, S) = Totals(v, S)[S]
  BY SumIsTotal
<1>3. \A s \in SUBSET S : Totals(w, S)[s] = Totals(v, S)[s]
  BY <1>1, TotalsAgree
<1>4. (\A x \in S : w[x] \in Int) => Totals(w, S)[S] \in Int
  BY <1>1, TotalsTyped
<1> QED BY <1>1, <1>2, <1>3, <1>4

\* One element more adds its value.
LEMMA SumAdds ==
    ASSUME NEW S, IsFiniteSet(S), NEW x, x \notin S, NEW w,
           \A y \in S \cup {x} : w[y] \in Int
    PROVE  SumFunctionOnSet(w, S \cup {x}) = w[x] + SumFunctionOnSet(w, S)
<1> DEFINE U == S \cup {x}
<1>1. IsFiniteSet(U)
  BY FS_AddElement
<1>2. U \in SUBSET U /\ x \in U /\ U \ {x} = S /\ S \subseteq U /\ S \in SUBSET S
  OBVIOUS
<1>3. SumFunctionOnSet(w, U) = Totals(w, U)[U]
  BY SumIsTotal
<1> HIDE DEF U
<1>4. \A y \in U : w[y] \in Int
  BY DEF U
<1>5. Totals(w, U)[U] = w[x] + Totals(w, U)[S]
  BY <1>1, <1>2, <1>4, TotalsAny
<1>6. Totals(w, S)[S] = Totals(w, U)[S]
  <2>1. \A s \in SUBSET S : Totals(w, S)[s] = Totals(w, U)[s]
    BY <1>1, <1>2, TotalsAgree DEF AgreeOn
  <2> QED BY <1>2, <2>1
<1>7. SumFunctionOnSet(w, S) = Totals(w, S)[S]
  BY SumIsTotal
<1> QED BY <1>3, <1>5, <1>6, <1>7 DEF U
=============================================================================
