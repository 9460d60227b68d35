---------------------------- MODULE NsList_proofs ----------------------------
(***************************************************************************)
(* The lists of ns_list.h are well linked after any operations in any      *)
(* order, also while a loop runs, for every set of lists and entries, and  *)
(* they implement AbstractList.                                            *)
(***************************************************************************)
EXTENDS NsList, SequenceLemmas

-----------------------------------------------------------------------------
(* Chains of links, as facts about functions *)

\* Links n and p lead from the head l through s to NULL, and back.
Chained(n, p, l, s) ==
    /\ \A i \in 1..Len(s) : /\ n[CellAt(l, s, i - 1)] = s[i]
                            /\ p[s[i]] = CellAt(l, s, i - 1)
    /\ n[CellAt(l, s, Len(s))] = NULL

\* The cells of a list without duplicates are all different.
LEMMA CellsDiffer ==
    ASSUME NEW l \in List, NEW s \in Seq(Entry), IsInjective(s)
    PROVE  /\ Len(s) \in Nat /\ DOMAIN s = 1..Len(s)
           /\ CellAt(l, s, 0) = l
           /\ \A i \in 1..Len(s) : CellAt(l, s, i) = s[i] /\ s[i] \in Entry
           /\ \A i \in 0..Len(s) : CellAt(l, s, i) \in Cell
           /\ \A i, j \in 0..Len(s) : CellAt(l, s, i) = CellAt(l, s, j) => i = j
           /\ \A i \in 0..Len(s) :
                 CellAt(l, s, i) = l \/ CellAt(l, s, i) \in Range(s)
           /\ l \notin Entry
<1>1. /\ Len(s) \in Nat /\ DOMAIN s = 1..Len(s)
      /\ \A i \in 1..Len(s) : s[i] \in Entry
  OBVIOUS
<1>2. CellAt(l, s, 0) = l
  BY DEF CellAt
<1>3. \A i \in 1..Len(s) : CellAt(l, s, i) = s[i]
  BY <1>1 DEF CellAt
<1>4. l \notin Entry
  BY ListAssumption
<1>5. \A i, j \in 1..Len(s) : s[i] = s[j] => i = j
  BY <1>1 DEF IsInjective
<1>6. \A i \in 0..Len(s) : i = 0 \/ i \in 1..Len(s)
  BY <1>1
<1>7. \A i, j \in 0..Len(s) : CellAt(l, s, i) = CellAt(l, s, j) => i = j
  BY <1>1, <1>2, <1>3, <1>4, <1>5, <1>6
<1>8. \A i \in 0..Len(s) : CellAt(l, s, i) \in Cell
  BY <1>1, <1>2, <1>3, <1>6 DEF Cell
<1>9. \A i \in 0..Len(s) : CellAt(l, s, i) = l \/ CellAt(l, s, i) \in Range(s)
  BY <1>1, <1>2, <1>3, <1>6 DEF Range
<1> QED BY <1>1, <1>2, <1>3, <1>4, <1>7, <1>8, <1>9

\* They do, and the last of its m + 1 cells is c.
ChainedTo(n, p, l, s, m, c) == Chained(n, p, l, s) /\ CellAt(l, s, m) = c

\* The last cell is a when position k is the last of m, and b otherwise.
AtEnd(k, m, a, b) == IF k = m THEN a ELSE b

\* n2 and p2 are n and p with e linked in behind cell c, the k-th of s.
LinksIn(n, p, s, k, c, e, n2, p2) ==
    /\ n2 = [n EXCEPT ![e] = n[c], ![c] = e]
    /\ p2[e] = c
    /\ k # Len(s) => p2[n[c]] = e
    /\ \A x \in Entry : x # e /\ (k = Len(s) \/ x # n[c]) => p2[x] = p[x]

\* n2 and p2 are n and p with the k-th entry of s, e, linked out from behind c.
LinksOut(n, p, s, k, c, e, n2, p2) ==
    /\ n2 = [n EXCEPT ![c] = n[e], ![e] = NS_LIST_POISON]
    /\ k # Len(s) => p2[n[e]] = c
    /\ \A x \in Entry : x # e /\ (k = Len(s) \/ x # n[e]) => p2[x] = p[x]

\* n2 and p2 are n and p with e linked in for the k-th entry of s, o.
LinksOver(n, p, s, k, c, o, e, n2, p2) ==
    /\ n2 = [n EXCEPT ![e] = n[o], ![c] = e, ![o] = NS_LIST_POISON]
    /\ p2[e] = c
    /\ k # Len(s) => p2[n[o]] = e
    /\ \A x \in Entry : x # e /\ x # o /\ (k = Len(s) \/ x # n[o]) => p2[x] = p[x]

\* An entry that is linked behind the k-th cell is at position k + 1.
LEMMA ChainInsert ==
    ASSUME NEW l \in List, NEW s \in Seq(Entry), IsInjective(s),
           NEW n \in [Cell -> Entry \cup {NULL, NS_LIST_POISON}],
           NEW p \in [Entry -> Cell \cup {NS_LIST_POISON}],
           Chained(n, p, l, s),
           NEW e \in Entry, e \notin Range(s),
           NEW k \in 0..Len(s),
           NEW c, c = CellAt(l, s, k),
           NEW n2, NEW p2, LinksIn(n, p, s, k, c, e, n2, p2)
    PROVE  ChainedTo(n2, p2, l, InsertAt(s, k + 1, e), Len(s) + 1,
                     AtEnd(k, Len(s), e, CellAt(l, s, Len(s))))
<1> DEFINE t == InsertAt(s, k + 1, e)
           m == Len(s)
<1>1. /\ m \in Nat /\ k \in 0..m /\ CellAt(l, s, 0) = l /\ l \notin Entry
      /\ \A i \in 1..m : CellAt(l, s, i) = s[i] /\ s[i] \in Entry
      /\ \A i \in 0..m : CellAt(l, s, i) \in Cell
      /\ \A i, j \in 0..m : CellAt(l, s, i) = CellAt(l, s, j) => i = j
      /\ DOMAIN s = 1..m
  BY CellsDiffer, Zenon
<1>3. /\ t \in Seq(Entry) /\ Len(t) = m + 1
      /\ \A j \in 1..k : t[j] = s[j]
      /\ t[k + 1] = e
      /\ \A j \in (k + 2)..(m + 1) : t[j] = s[j - 1]
  BY InsertBehind DEF IsInserted
<1>4. \A i \in 0..m : CellAt(l, s, i) # e
  <2>1. \A i \in 0..m : i = 0 \/ i \in 1..m
    BY <1>1
  <2>2. \A i \in 1..m : s[i] \in Range(s)
    BY <1>1, Zenon DEF Range
  <2> QED BY <1>1, <2>1, <2>2
<1> USE DEF LinksIn
<1>5. /\ n2[e] = n[c] /\ n2[c] = e
      /\ \A x \in Cell : x # e /\ x # c => n2[x] = n[x]
  <2>1. c \in Cell /\ e \in Cell /\ c # e
    BY <1>1, <1>4 DEF Cell
  <2> QED BY <2>1
<1> HIDE DEF t, m
<1>6. /\ \A i \in 0..k : CellAt(l, t, i) = CellAt(l, s, i)
      /\ CellAt(l, t, k + 1) = e
      /\ \A i \in (k + 2)..(m + 1) : CellAt(l, t, i) = CellAt(l, s, i - 1)
  <2>1. \A i \in 0..k : CellAt(l, t, i) = CellAt(l, s, i)
    BY <1>1, <1>3 DEF CellAt
  <2>2. CellAt(l, t, k + 1) = e
    BY <1>1, <1>3 DEF CellAt
  <2>3. \A i \in (k + 2)..(m + 1) : CellAt(l, t, i) = CellAt(l, s, i - 1)
    BY <1>1, <1>3 DEF CellAt
  <2> QED BY <2>1, <2>2, <2>3
<1>7. /\ \A i \in 1..m : n[CellAt(l, s, i - 1)] = s[i] /\ p[s[i]] = CellAt(l, s, i - 1)
      /\ n[CellAt(l, s, m)] = NULL
  BY DEF Chained, m
<1>8. k # m => n[c] = s[k + 1]
  <2> SUFFICES ASSUME k # m PROVE n[c] = s[k + 1]
    OBVIOUS
  <2>1. k + 1 \in 1..m /\ (k + 1) - 1 = k
    BY <1>1
  <2> QED BY <1>7, <2>1
<1>9. \A j \in 1..(m + 1) : n2[CellAt(l, t, j - 1)] = t[j] /\ p2[t[j]] = CellAt(l, t, j - 1)
  <2> SUFFICES ASSUME NEW j \in 1..(m + 1)
               PROVE  n2[CellAt(l, t, j - 1)] = t[j] /\ p2[t[j]] = CellAt(l, t, j - 1)
    OBVIOUS
  <2>1. CASE j <= k
    <3>1. /\ j \in 1..m /\ j - 1 \in 0..m /\ j - 1 \in 0..k /\ j - 1 # k /\ j \in 1..k
          /\ j # k + 1
      BY <1>1, <2>1
    <3>2. CellAt(l, t, j - 1) = CellAt(l, s, j - 1) /\ t[j] = s[j]
      BY <1>3, <1>6, <3>1
    <3>3. CellAt(l, s, j - 1) # c /\ CellAt(l, s, j - 1) # e
      BY <1>1, <1>4, <3>1
    <3>4. n2[CellAt(l, s, j - 1)] = s[j]
      BY <1>1, <1>5, <1>7, <3>1, <3>3
    <3>5. s[j] # e /\ s[j] \in Entry /\ p[s[j]] = CellAt(l, s, j - 1)
      BY <1>1, <1>4, <1>7, <3>1
    <3>6. k # m => s[j] # n[c]
      <4> SUFFICES ASSUME k # m PROVE s[j] # n[c]
        OBVIOUS
      <4>1. k + 1 \in 1..m /\ k + 1 \in 0..m /\ j \in 0..m
        BY <1>1, <3>1
      <4> QED BY <1>1, <1>8, <3>1, <4>1
    <3> QED BY <3>2, <3>4, <3>5, <3>6 DEF m
  <2>2. CASE j = k + 1
    <3>1. j - 1 = k /\ j - 1 \in 0..k
      BY <1>1, <2>2
    <3>2. CellAt(l, t, j - 1) = c /\ t[j] = e
      BY <1>3, <1>6, <2>2, <3>1
    <3> QED BY <1>5, <3>2
  <2>3. CASE j = k + 2
    <3>1. /\ j - 1 = k + 1 /\ j \in (k + 2)..(m + 1) /\ k + 1 \in 1..m /\ k # m
      BY <1>1, <2>3
    <3>2. CellAt(l, t, j - 1) = e /\ t[j] = s[k + 1]
      BY <1>3, <1>6, <3>1
    <3>3. n[c] = s[k + 1]
      BY <1>8, <3>1
    <3> QED BY <1>5, <3>1, <3>2, <3>3 DEF m
  <2>4. CASE j > k + 2
    <3>1. /\ j - 1 \in (k + 2)..(m + 1) /\ j \in (k + 2)..(m + 1)
          /\ (j - 1) - 1 = j - 2 /\ j - 2 \in 0..m /\ j - 2 # k
          /\ j - 1 \in 1..m /\ j - 1 \in 0..m /\ j - 1 # k + 1
      BY <1>1, <2>4
    <3>2. CellAt(l, t, j - 1) = CellAt(l, s, j - 2) /\ t[j] = s[j - 1]
      BY <1>3, <1>6, <3>1
    <3>3. CellAt(l, s, j - 2) # c /\ CellAt(l, s, j - 2) # e
      BY <1>1, <1>4, <3>1
    <3>4. n2[CellAt(l, s, j - 2)] = s[j - 1]
      BY <1>1, <1>5, <1>7, <3>1, <3>3
    <3>5. s[j - 1] # e /\ s[j - 1] \in Entry /\ p[s[j - 1]] = CellAt(l, s, j - 2)
      BY <1>1, <1>4, <1>7, <3>1
    <3>6. k # m => s[j - 1] # n[c]
      <4> SUFFICES ASSUME k # m PROVE s[j - 1] # n[c]
        OBVIOUS
      <4>1. k + 1 \in 1..m /\ k + 1 \in 0..m
        BY <1>1
      <4> QED BY <1>1, <1>8, <3>1, <4>1
    <3> QED BY <3>2, <3>4, <3>5, <3>6 DEF m
  <2> QED BY <1>1, <2>1, <2>2, <2>3, <2>4
<1>10. CellAt(l, t, m + 1) = IF k = m THEN e ELSE CellAt(l, s, m)
  <2>1. CASE k = m
    BY <1>6, <2>1
  <2>2. CASE k # m
    <3>1. m + 1 \in (k + 2)..(m + 1) /\ (m + 1) - 1 = m
      BY <1>1, <2>2
    <3> QED BY <1>6, <2>2, <3>1
  <2> QED BY <2>1, <2>2
<1>11. n2[CellAt(l, t, m + 1)] = NULL
  <2>1. CASE k = m
    BY <1>5, <1>7, <1>10, <2>1
  <2>2. CASE k # m
    <3>1. CellAt(l, s, m) # c /\ CellAt(l, s, m) # e /\ CellAt(l, s, m) \in Cell
      BY <1>1, <1>4, <2>2
    <3> QED BY <1>5, <1>7, <1>10, <2>2, <3>1
  <2> QED BY <2>1, <2>2
<1>12. Chained(n2, p2, l, t)
  BY <1>3, <1>9, <1>11 DEF Chained
<1> QED BY <1>10, <1>12 DEF t, m, AtEnd, ChainedTo

\* Links that are the same on a list's cells still spell it out.
LEMMA ChainFrame ==
    ASSUME NEW l \in List, NEW s \in Seq(Entry), IsInjective(s),
           NEW n, NEW p, Chained(n, p, l, s),
           NEW n2, n2[l] = n[l], \A x \in Range(s) : n2[x] = n[x],
           NEW p2, \A x \in Range(s) : p2[x] = p[x]
    PROVE  Chained(n2, p2, l, s)
<1> DEFINE m == Len(s)
<1>1. /\ m \in Nat /\ DOMAIN s = 1..m
      /\ \A i \in 0..m : CellAt(l, s, i) = l \/ CellAt(l, s, i) \in Range(s)
  BY CellsDiffer, Zenon
<1> HIDE DEF m
<1>2. \A i \in 0..m : n2[CellAt(l, s, i)] = n[CellAt(l, s, i)]
  BY <1>1
<1>3. \A i \in 1..m : i - 1 \in 0..m /\ s[i] \in Range(s)
  BY <1>1 DEF Range
<1>4. m \in 0..m
  BY <1>1
<1>5. \A i \in 1..m : n2[CellAt(l, s, i - 1)] = s[i] /\ p2[s[i]] = CellAt(l, s, i - 1)
  BY <1>2, <1>3 DEF Chained, m
<1>6. n2[CellAt(l, s, m)] = NULL
  BY <1>2, <1>4 DEF Chained, m
<1> QED BY <1>5, <1>6 DEF Chained, m

\* The k-th entry and the cell before it are at two positions of a list.
LEMMA CellBefore ==
    ASSUME NEW m \in Nat, NEW k \in 1..m
    PROVE  k \in 0..m /\ k - 1 \in 0..m /\ k - 1 # k
OBVIOUS

\* Behind every cell but the last one is an entry.
LEMMA EntryBehind ==
    ASSUME NEW m \in Nat, NEW k \in 0..m, k # m
    PROVE  k + 1 \in 1..m /\ (k + 1) - 1 = k
OBVIOUS

\* When the cell before the k-th entry is linked to what follows that entry,
\* the entry is off the list.
LEMMA ChainRemove ==
    ASSUME NEW l \in List, NEW s \in Seq(Entry), IsInjective(s),
           NEW n \in [Cell -> Entry \cup {NULL, NS_LIST_POISON}],
           NEW p \in [Entry -> Cell \cup {NS_LIST_POISON}],
           Chained(n, p, l, s),
           NEW k \in 1..Len(s),
           NEW e, e = s[k],
           NEW c, c = CellAt(l, s, k - 1),
           NEW n2, NEW p2, LinksOut(n, p, s, k, c, e, n2, p2)
    PROVE  ChainedTo(n2, p2, l, RemoveAt(s, k), Len(s) - 1,
                     AtEnd(k, Len(s), c, CellAt(l, s, Len(s))))
<1> DEFINE t == RemoveAt(s, k)
           m == Len(s)
<1>1. /\ m \in Nat /\ k \in 1..m /\ CellAt(l, s, 0) = l /\ l \notin Entry
      /\ \A i \in 1..m : CellAt(l, s, i) = s[i] /\ s[i] \in Entry
      /\ \A i \in 0..m : CellAt(l, s, i) \in Cell
      /\ \A i, j \in 0..m : CellAt(l, s, i) = CellAt(l, s, j) => i = j
      /\ DOMAIN s = 1..m
  BY CellsDiffer, Zenon
<1>2. k \in 0..m /\ k - 1 \in 0..m /\ k - 1 # k
  BY <1>1, CellBefore, Zenon
<1>3. /\ t \in Seq(Entry) /\ Len(t) = m - 1
      /\ \A j \in 1..(k - 1) : t[j] = s[j]
      /\ \A j \in k..(m - 1) : t[j] = s[j + 1]
  BY RemoveOne DEF IsRemoved
<1>4. e = CellAt(l, s, k) /\ e \in Entry /\ e \in Cell /\ c \in Cell /\ c # e
  BY <1>1, <1>2 DEF Cell
<1> USE DEF LinksOut
<1>5. /\ n2[c] = n[e]
      /\ \A x \in Cell : x # e /\ x # c => n2[x] = n[x]
  BY <1>4
<1> HIDE DEF t, m
<1>6. /\ \A i \in 0..(k - 1) : CellAt(l, t, i) = CellAt(l, s, i)
      /\ \A i \in k..(m - 1) : CellAt(l, t, i) = CellAt(l, s, i + 1)
  <2>1. \A i \in 0..(k - 1) : CellAt(l, t, i) = CellAt(l, s, i)
    BY <1>1, <1>3 DEF CellAt
  <2>2. \A i \in k..(m - 1) : CellAt(l, t, i) = CellAt(l, s, i + 1)
    BY <1>1, <1>3 DEF CellAt
  <2> QED BY <2>1, <2>2
<1>7. /\ \A i \in 1..m : n[CellAt(l, s, i - 1)] = s[i] /\ p[s[i]] = CellAt(l, s, i - 1)
      /\ n[CellAt(l, s, m)] = NULL
  BY DEF Chained, m
<1>8. k # m => n[e] = s[k + 1]
  <2> SUFFICES ASSUME k # m PROVE n[e] = s[k + 1]
    OBVIOUS
  <2>1. k + 1 \in 1..m /\ (k + 1) - 1 = k
    BY <1>1
  <2> QED BY <1>4, <1>7, <2>1
<1>9. \A j \in 1..m : j # k /\ (k = m \/ j # k + 1) => p2[s[j]] = p[s[j]]
  <2> SUFFICES ASSUME NEW j \in 1..m, j # k, k = m \/ j # k + 1
               PROVE  p2[s[j]] = p[s[j]]
    OBVIOUS
  <2>1. s[j] \in Entry /\ s[j] # e
    BY <1>1, <1>2, <1>4
  <2>2. k # m => s[j] # n[e]
    <3> SUFFICES ASSUME k # m PROVE s[j] # n[e]
      OBVIOUS
    <3>1. k + 1 \in 1..m /\ k + 1 \in 0..m /\ j \in 0..m
      BY <1>1
    <3> QED BY <1>1, <1>8, <3>1
  <2> QED BY <2>1, <2>2 DEF m
<1>10. \A j \in 1..(m - 1) : n2[CellAt(l, t, j - 1)] = t[j] /\ p2[t[j]] = CellAt(l, t, j - 1)
  <2> SUFFICES ASSUME NEW j \in 1..(m - 1)
               PROVE  n2[CellAt(l, t, j - 1)] = t[j] /\ p2[t[j]] = CellAt(l, t, j - 1)
    OBVIOUS
  <2>1. CASE j < k
    <3>1. /\ j \in 1..m /\ j - 1 \in 0..m /\ j - 1 \in 0..(k - 1) /\ j - 1 # k - 1
          /\ j - 1 # k /\ j \in 1..(k - 1) /\ j # k + 1
      BY <1>1, <2>1
    <3>2. CellAt(l, t, j - 1) = CellAt(l, s, j - 1) /\ t[j] = s[j]
      BY <1>3, <1>6, <3>1
    <3>3. CellAt(l, s, j - 1) # c /\ CellAt(l, s, j - 1) # e
      BY <1>1, <1>2, <1>4, <3>1
    <3>4. n2[CellAt(l, s, j - 1)] = s[j]
      BY <1>1, <1>5, <1>7, <3>1, <3>3
    <3>5. p2[s[j]] = CellAt(l, s, j - 1)
      BY <1>7, <1>9, <2>1, <3>1
    <3> QED BY <3>2, <3>4, <3>5
  <2>2. CASE j = k
    <3>1. j - 1 \in 0..(k - 1) /\ j \in k..(m - 1) /\ k # m
      BY <1>1, <2>2
    <3>2. CellAt(l, t, j - 1) = c /\ t[j] = s[k + 1]
      BY <1>3, <1>6, <2>2, <3>1
    <3> QED BY <1>5, <1>8, <3>1, <3>2 DEF m
  <2>3. CASE j > k
    <3>1. /\ j - 1 \in k..(m - 1) /\ j \in k..(m - 1) /\ (j - 1) + 1 = j
          /\ j \in 0..m /\ j # k - 1 /\ j + 1 \in 1..m /\ (j + 1) - 1 = j
          /\ j + 1 # k /\ j + 1 # k + 1 /\ j # k
      BY <1>1, <2>3
    <3>2. CellAt(l, t, j - 1) = CellAt(l, s, j) /\ t[j] = s[j + 1]
      BY <1>3, <1>6, <3>1
    <3>3. CellAt(l, s, j) # c /\ CellAt(l, s, j) # e
      BY <1>1, <1>2, <1>4, <3>1
    <3>4. n2[CellAt(l, s, j)] = s[j + 1]
      BY <1>1, <1>5, <1>7, <3>1, <3>3
    <3>5. p2[s[j + 1]] = CellAt(l, s, j)
      BY <1>7, <1>9, <3>1
    <3> QED BY <3>2, <3>4, <3>5
  <2> QED BY <1>1, <2>1, <2>2, <2>3
<1>11. CellAt(l, t, m - 1) = IF k = m THEN c ELSE CellAt(l, s, m)
  <2>1. CASE k = m
    <3>1. m - 1 \in 0..(k - 1)
      BY <1>1, <2>1
    <3> QED BY <1>6, <2>1, <3>1
  <2>2. CASE k # m
    <3>1. m - 1 \in k..(m - 1) /\ (m - 1) + 1 = m
      BY <1>1, <2>2
    <3> QED BY <1>6, <2>2, <3>1
  <2> QED BY <2>1, <2>2
<1>12. n2[CellAt(l, t, m - 1)] = NULL
  <2>1. CASE k = m
    BY <1>4, <1>5, <1>7, <1>11, <2>1
  <2>2. CASE k # m
    <3>1. m \in 0..m /\ m # k /\ m # k - 1
      BY <1>1, <2>2
    <3>2. CellAt(l, s, m) # c /\ CellAt(l, s, m) # e /\ CellAt(l, s, m) \in Cell
      BY <1>1, <1>2, <1>4, <3>1
    <3> QED BY <1>5, <1>7, <1>11, <2>2, <3>2
  <2> QED BY <2>1, <2>2
<1>13. Chained(n2, p2, l, t)
  BY <1>3, <1>10, <1>12 DEF Chained
<1> QED BY <1>11, <1>13 DEF t, m, AtEnd, ChainedTo

\* An entry that takes over the links of the k-th one takes its position.
LEMMA ChainReplace ==
    ASSUME NEW l \in List, NEW s \in Seq(Entry), IsInjective(s),
           NEW n \in [Cell -> Entry \cup {NULL, NS_LIST_POISON}],
           NEW p \in [Entry -> Cell \cup {NS_LIST_POISON}],
           Chained(n, p, l, s),
           NEW e \in Entry, e \notin Range(s),
           NEW k \in 1..Len(s),
           NEW o, o = s[k],
           NEW c, c = CellAt(l, s, k - 1),
           NEW n2, NEW p2, LinksOver(n, p, s, k, c, o, e, n2, p2)
    PROVE  ChainedTo(n2, p2, l, ReplaceAt(s, k, e), Len(s),
                     AtEnd(k, Len(s), e, CellAt(l, s, Len(s))))
<1> DEFINE t == ReplaceAt(s, k, e)
           m == Len(s)
<1>1. /\ m \in Nat /\ k \in 1..m /\ CellAt(l, s, 0) = l /\ l \notin Entry
      /\ \A i \in 1..m : CellAt(l, s, i) = s[i] /\ s[i] \in Entry
      /\ \A i \in 0..m : CellAt(l, s, i) \in Cell
      /\ \A i, j \in 0..m : CellAt(l, s, i) = CellAt(l, s, j) => i = j
      /\ DOMAIN s = 1..m
  BY CellsDiffer, Zenon
<1>2. k \in 0..m /\ k - 1 \in 0..m /\ k - 1 # k
  BY <1>1, CellBefore, Zenon
<1>3. /\ t \in Seq(Entry) /\ Len(t) = m /\ t[k] = e
      /\ \A j \in 1..m : j # k => t[j] = s[j]
  BY ReplaceOne DEF IsReplaced
<1>4. /\ o = CellAt(l, s, k) /\ o \in Entry /\ o \in Cell /\ c \in Cell /\ c # o
      /\ e \in Cell
  BY <1>1, <1>2 DEF Cell
<1>x. \A i \in 0..m : CellAt(l, s, i) # e
  BY <1>1 DEF Range
<1> USE DEF LinksOver
<1>5. /\ n2[c] = e /\ n2[e] = n[o]
      /\ \A x \in Cell : x # e /\ x # c /\ x # o => n2[x] = n[x]
  <2>1. e # c /\ e # o
    BY <1>2, <1>4, <1>x
  <2> QED BY <1>4, <2>1
<1> HIDE DEF t, m
<1>6. /\ \A i \in 0..m : i # k => CellAt(l, t, i) = CellAt(l, s, i)
      /\ CellAt(l, t, k) = e
  <2>1. \A i \in 0..m : i # k => CellAt(l, t, i) = CellAt(l, s, i)
    BY <1>1, <1>3 DEF CellAt
  <2>2. CellAt(l, t, k) = e
    BY <1>1, <1>3 DEF CellAt
  <2> QED BY <2>1, <2>2
<1>7. /\ \A i \in 1..m : n[CellAt(l, s, i - 1)] = s[i] /\ p[s[i]] = CellAt(l, s, i - 1)
      /\ n[CellAt(l, s, m)] = NULL
  BY DEF Chained, m
<1>8. k # m => n[o] = s[k + 1]
  <2> SUFFICES ASSUME k # m PROVE n[o] = s[k + 1]
    OBVIOUS
  <2>1. k + 1 \in 1..m /\ (k + 1) - 1 = k
    BY <1>1
  <2> QED BY <1>4, <1>7, <2>1
<1>9. \A j \in 1..m : j # k /\ (k = m \/ j # k + 1) => p2[s[j]] = p[s[j]]
  <2> SUFFICES ASSUME NEW j \in 1..m, j # k, k = m \/ j # k + 1
               PROVE  p2[s[j]] = p[s[j]]
    OBVIOUS
  <2>1. j \in 0..m
    BY <1>1
  <2>2. s[j] \in Entry /\ s[j] # o /\ s[j] # e
    BY <1>1, <1>2, <1>4, <1>x, <2>1
  <2>3. k # m => s[j] # n[o]
    <3> SUFFICES ASSUME k # m PROVE s[j] # n[o]
      OBVIOUS
    <3>1. k + 1 \in 1..m /\ k + 1 \in 0..m
      BY <1>1
    <3> QED BY <1>1, <1>8, <2>1, <3>1
  <2> QED BY <2>2, <2>3 DEF m
<1>10. \A j \in 1..m : n2[CellAt(l, t, j - 1)] = t[j] /\ p2[t[j]] = CellAt(l, t, j - 1)
  <2> SUFFICES ASSUME NEW j \in 1..m
               PROVE  n2[CellAt(l, t, j - 1)] = t[j] /\ p2[t[j]] = CellAt(l, t, j - 1)
    OBVIOUS
  <2>0. j - 1 \in 0..m /\ j \in 0..m
    BY <1>1
  <2>1. CASE j # k /\ j # k + 1
    <3>1. j - 1 # k - 1 /\ j - 1 # k
      BY <1>1, <2>1
    <3>2. CellAt(l, t, j - 1) = CellAt(l, s, j - 1) /\ t[j] = s[j]
      BY <1>3, <1>6, <2>0, <2>1, <3>1
    <3>3. CellAt(l, s, j - 1) # c /\ CellAt(l, s, j - 1) # o /\ CellAt(l, s, j - 1) # e
      BY <1>1, <1>2, <1>4, <1>x, <2>0, <3>1
    <3>4. n2[CellAt(l, s, j - 1)] = s[j]
      BY <1>1, <1>5, <1>7, <2>0, <3>3
    <3>5. p2[s[j]] = CellAt(l, s, j - 1)
      BY <1>7, <1>9, <2>1
    <3> QED BY <3>2, <3>4, <3>5
  <2>2. CASE j = k
    <3>1. CellAt(l, t, j - 1) = c /\ t[j] = e
      BY <1>2, <1>3, <1>6, <2>2
    <3> QED BY <1>5, <3>1
  <2>3. CASE j = k + 1
    <3>1. j - 1 = k /\ k # m /\ j # k
      BY <1>1, <2>3
    <3>2. CellAt(l, t, j - 1) = e /\ t[j] = s[j]
      BY <1>3, <1>6, <3>1
    <3> QED BY <1>5, <1>8, <2>3, <3>1, <3>2 DEF m
  <2> QED BY <2>1, <2>2, <2>3
<1>11. CellAt(l, t, m) = IF k = m THEN e ELSE CellAt(l, s, m)
  <2>1. m \in 0..m
    BY <1>1
  <2> QED BY <1>6, <2>1
<1>12. n2[CellAt(l, t, m)] = NULL
  <2>1. CASE k = m
    BY <1>4, <1>5, <1>7, <1>11, <2>1
  <2>2. CASE k # m
    <3>1. m \in 0..m /\ m # k /\ m # k - 1
      BY <1>1, <2>2
    <3>2. /\ CellAt(l, s, m) # c /\ CellAt(l, s, m) # o /\ CellAt(l, s, m) # e
          /\ CellAt(l, s, m) \in Cell
      BY <1>1, <1>2, <1>4, <1>x, <3>1
    <3> QED BY <1>5, <1>7, <1>11, <2>2, <3>2
  <2> QED BY <2>1, <2>2
<1>13. Chained(n2, p2, l, t)
  BY <1>3, <1>10, <1>12 DEF Chained
<1> QED BY <1>11, <1>13 DEF t, m, AtEnd, ChainedTo

\* Linking the last cell of list d to the first entry of list r joins them.
LEMMA ChainJoin ==
    ASSUME NEW d \in List, NEW r \in List, d # r,
           NEW s \in Seq(Entry), IsInjective(s),
           NEW u \in Seq(Entry), IsInjective(u), Len(u) # 0,
           Range(s) \cap Range(u) = {},
           NEW n \in [Cell -> Entry \cup {NULL, NS_LIST_POISON}],
           NEW p \in [Entry -> Cell \cup {NS_LIST_POISON}],
           Chained(n, p, d, s), Chained(n, p, r, u),
           NEW c, c = CellAt(d, s, Len(s)),
           NEW n2, n2 = [n EXCEPT ![c] = n[r], ![r] = NULL],
           NEW p2, p2 = [p EXCEPT ![n[r]] = c]
    PROVE  /\ ChainedTo(n2, p2, d, s \o u, Len(s) + Len(u), CellAt(r, u, Len(u)))
           /\ Chained(n2, p2, r, << >>)
<1> DEFINE t == s \o u
           m == Len(s)
           q == Len(u)
<1>1. /\ m \in Nat /\ CellAt(d, s, 0) = d /\ d \notin Entry
      /\ \A i \in 1..m : CellAt(d, s, i) = s[i] /\ s[i] \in Entry
      /\ \A i \in 0..m : CellAt(d, s, i) \in Cell
      /\ \A i, j \in 0..m : CellAt(d, s, i) = CellAt(d, s, j) => i = j
      /\ DOMAIN s = 1..m
  BY CellsDiffer, Zenon
<1>2. /\ q \in Nat /\ CellAt(r, u, 0) = r /\ r \notin Entry
      /\ \A i \in 1..q : CellAt(r, u, i) = u[i] /\ u[i] \in Entry
      /\ \A i \in 0..q : CellAt(r, u, i) \in Cell
      /\ \A i, j \in 0..q : CellAt(r, u, i) = CellAt(r, u, j) => i = j
      /\ DOMAIN u = 1..q
  BY CellsDiffer, Zenon
<1>3. /\ t \in Seq(Entry) /\ Len(t) = m + q
      /\ \A j \in 1..m : t[j] = s[j]
      /\ \A j \in 1..q : t[m + j] = u[j]
  BY JoinTwo DEF IsJoined
<1>4. /\ \A i \in 0..m : CellAt(d, s, i) # r
      /\ \A i \in 1..m, j \in 1..q : s[i] # u[j]
      /\ q # 0
  <2>1. \A i \in 0..m : i = 0 \/ i \in 1..m
    BY <1>1
  <2>2. \A i \in 0..m : CellAt(d, s, i) # r
    BY <1>1, <1>2, <2>1
  <2>3. \A i \in 1..m, j \in 1..q : s[i] # u[j]
    <3>1. /\ \A i \in 1..m : s[i] \in Range(s)
          /\ \A j \in 1..q : u[j] \in Range(u)
      BY <1>1, <1>2, Zenon DEF Range
    <3> QED BY <3>1
  <2> QED BY <2>2, <2>3
<1>5. /\ \A i \in 1..m : n[CellAt(d, s, i - 1)] = s[i] /\ p[s[i]] = CellAt(d, s, i - 1)
      /\ n[CellAt(d, s, m)] = NULL
  BY DEF Chained, m
<1>6. /\ \A i \in 1..q : n[CellAt(r, u, i - 1)] = u[i] /\ p[u[i]] = CellAt(r, u, i - 1)
      /\ n[CellAt(r, u, q)] = NULL
  BY DEF Chained, q
<1>7. 1 \in 1..q /\ 1 - 1 = 0 /\ m \in 0..m
  BY <1>1, <1>2, <1>4
<1>8. n[r] = u[1] /\ u[1] \in Entry /\ c \in Cell /\ c # r
  BY <1>1, <1>2, <1>4, <1>6, <1>7
<1>9. /\ n2[c] = u[1] /\ n2[r] = NULL
      /\ \A x \in Cell : x # c /\ x # r => n2[x] = n[x]
  <2>1. r \in Cell
    BY DEF Cell
  <2> QED BY <1>8, <2>1
<1>10. /\ p2[u[1]] = c
       /\ \A x \in Entry : x # u[1] => p2[x] = p[x]
  BY <1>8
<1> HIDE DEF t, m, q
<1>11. /\ \A i \in 0..m : CellAt(d, t, i) = CellAt(d, s, i)
       /\ \A i \in 1..q : CellAt(d, t, m + i) = u[i]
  <2>1. \A i \in 0..m : CellAt(d, t, i) = CellAt(d, s, i)
    BY <1>1, <1>3 DEF CellAt
  <2>2. \A i \in 1..q : CellAt(d, t, m + i) = u[i]
    BY <1>1, <1>2, <1>3 DEF CellAt
  <2> QED BY <2>1, <2>2
<1>12. \A j \in 1..m : n2[CellAt(d, t, j - 1)] = t[j] /\ p2[t[j]] = CellAt(d, t, j - 1)
  <2> SUFFICES ASSUME NEW j \in 1..m
               PROVE  n2[CellAt(d, t, j - 1)] = t[j] /\ p2[t[j]] = CellAt(d, t, j - 1)
    OBVIOUS
  <2>1. j - 1 \in 0..m /\ j - 1 # m
    BY <1>1
  <2>2. CellAt(d, t, j - 1) = CellAt(d, s, j - 1) /\ t[j] = s[j]
    BY <1>3, <1>11, <2>1
  <2>3. CellAt(d, s, j - 1) # c /\ CellAt(d, s, j - 1) # r
    BY <1>1, <1>4, <1>7, <2>1 DEF m
  <2>4. n2[CellAt(d, s, j - 1)] = s[j]
    BY <1>1, <1>5, <1>9, <2>1, <2>3
  <2>5. p2[s[j]] = CellAt(d, s, j - 1)
    BY <1>1, <1>4, <1>5, <1>7, <1>10
  <2> QED BY <2>2, <2>4, <2>5
<1>13. \A j \in 1..q : /\ n2[CellAt(d, t, m + j - 1)] = t[m + j]
                       /\ p2[t[m + j]] = CellAt(d, t, m + j - 1)
  <2> SUFFICES ASSUME NEW j \in 1..q
               PROVE  /\ n2[CellAt(d, t, m + j - 1)] = t[m + j]
                      /\ p2[t[m + j]] = CellAt(d, t, m + j - 1)
    OBVIOUS
  <2>1. CASE j = 1
    <3>1. m + j - 1 = m
      BY <1>1, <2>1
    <3>2. CellAt(d, t, m + j - 1) = c
      BY <1>7, <1>11, <3>1 DEF m
    <3>3. t[m + j] = u[1]
      BY <1>3, <2>1
    <3> QED BY <1>9, <1>10, <3>2, <3>3
  <2>2. CASE j # 1
    <3>1. /\ j - 1 \in 1..q /\ j - 1 \in 0..q /\ j - 1 # 0 /\ m + j - 1 = m + (j - 1)
          /\ 0 \in 0..q /\ 1 \in 0..q /\ j \in 0..q
      BY <1>1, <1>2, <2>2
    <3>2. CellAt(d, t, m + j - 1) = u[j - 1] /\ t[m + j] = u[j]
      BY <1>3, <1>11, <3>1
    <3>3. u[j - 1] # r /\ u[j - 1] \in Entry /\ u[j - 1] \in Cell
      BY <1>2, <3>1 DEF Cell
    <3>4. u[j - 1] # c
      <4>1. m = 0 \/ m \in 1..m
        BY <1>1
      <4>2. CASE m = 0
        BY <1>1, <3>3, <4>2 DEF m
      <4>3. CASE m \in 1..m
        BY <1>1, <1>4, <3>1, <4>3 DEF m
      <4> QED BY <4>1, <4>2, <4>3
    <3>5. n2[u[j - 1]] = u[j]
      BY <1>2, <1>6, <1>9, <3>1, <3>3, <3>4
    <3>6. u[j] # u[1] /\ u[j] \in Entry
      BY <1>2, <1>7, <2>2, <3>1
    <3>7. p2[u[j]] = u[j - 1]
      BY <1>2, <1>6, <1>10, <3>1, <3>6
    <3> QED BY <3>2, <3>5, <3>7
  <2> QED BY <2>1, <2>2
<1>14. \A j \in 1..(m + q) : n2[CellAt(d, t, j - 1)] = t[j] /\ p2[t[j]] = CellAt(d, t, j - 1)
  <2> SUFFICES ASSUME NEW j \in 1..(m + q)
               PROVE  n2[CellAt(d, t, j - 1)] = t[j] /\ p2[t[j]] = CellAt(d, t, j - 1)
    OBVIOUS
  <2>1. CASE j \in 1..m
    BY <1>12, <2>1
  <2>2. CASE j \notin 1..m
    <3>1. j - m \in 1..q /\ m + (j - m) = j /\ m + (j - m) - 1 = j - 1
      BY <1>1, <1>2, <2>2
    <3>2. /\ n2[CellAt(d, t, m + (j - m) - 1)] = t[m + (j - m)]
          /\ p2[t[m + (j - m)]] = CellAt(d, t, m + (j - m) - 1)
      BY <1>13, <3>1, Zenon
    <3> QED BY <3>1, <3>2, Zenon
  <2> QED BY <2>1, <2>2
<1>15. CellAt(d, t, m + q) = CellAt(r, u, q) /\ CellAt(r, u, q) = u[q]
  <2>1. q \in 1..q
    BY <1>2, <1>4
  <2> QED BY <1>2, <1>11, <2>1
<1>16. n2[CellAt(d, t, m + q)] = NULL
  <2>1. q \in 1..q
    BY <1>2, <1>4
  <2>2. u[q] # c /\ u[q] # r /\ u[q] \in Cell
    <3>1. u[q] # r /\ u[q] \in Entry /\ u[q] \in Cell
      BY <1>2, <2>1 DEF Cell
    <3>2. m = 0 \/ m \in 1..m
      BY <1>1
    <3>3. CASE m = 0
      BY <1>1, <3>1, <3>3 DEF m
    <3>4. CASE m \in 1..m
      <4>1. c = s[m]
        BY <1>1, <3>4 DEF m
      <4> QED BY <1>4, <2>1, <3>1, <3>4, <4>1
    <3> QED BY <3>1, <3>2, <3>3, <3>4
  <2> QED BY <1>6, <1>9, <1>15, <2>2
<1>17. Chained(n2, p2, d, t)
  BY <1>3, <1>14, <1>16 DEF Chained
<1>18. Chained(n2, p2, r, << >>)
  <2>1. Len(<< >>) = 0 /\ 1..0 = {}
    OBVIOUS
  <2> QED BY <1>9, <2>1 DEF Chained, CellAt
<1> QED BY <1>15, <1>17, <1>18 DEF t, m, q, ChainedTo

-----------------------------------------------------------------------------
(* Walks *)

\* A list has no more entries than there are.
LEMMA ListsAreShort ==
    ASSUME NEW s \in Seq(Entry), IsInjective(s)
    PROVE  Cardinality(Entry) \in Nat /\ Len(s) <= Cardinality(Entry)
<1>1. IsFiniteSet(Entry)
  BY ListAssumption
<1>2. s \in Injection(1..Len(s), Entry)
  BY DEF Injection
<1>3. Cardinality(1..Len(s)) = Len(s)
  <2>1. 1 \in Int /\ Len(s) \in Int /\ Len(s) >= 0
    OBVIOUS
  <2>2. Cardinality(1..Len(s)) = IF 1 > Len(s) THEN 0 ELSE Len(s) - 1 + 1
    BY <2>1, FS_Interval, Zenon
  <2> QED BY <2>1, <2>2
<1>4. Cardinality(1..Len(s)) <= Cardinality(Entry)
  BY <1>1, <1>2, FS_Injection
<1> QED BY <1>1, <1>3, <1>4, FS_CardinalityType

\* The walk of ns_list_count meets exactly what the links spell out: a
\* recursively defined walk that differed would differ at a least step.
LEMMA ContentsOf ==
    ASSUME NEW l \in List, NEW s \in Seq(Entry), IsInjective(s),
           Chained(next, prev, l, s)
    PROVE  Contents(l) = s
<1> DEFINE bound == Cardinality(Entry) + 1
           m == Len(s)
           Walk(g) == [n \in 1..bound |->
                          IF n = 1 THEN next[l]
                          ELSE IF g[n - 1] \in Entry THEN next[g[n - 1]] ELSE NULL]
           f == [n \in 1..bound |-> IF n <= m THEN s[n] ELSE NULL]
           at[n \in 1..bound] ==
               IF n = 1 THEN ns_list_get_first(l)
               ELSE IF at[n - 1] \in Entry THEN ns_list_get_next(at[n - 1]) ELSE NULL
           met == {n \in 1..bound : at[n] # NULL}
<1>1. /\ m \in Nat /\ DOMAIN s = 1..m
      /\ CellAt(l, s, 0) = l
      /\ \A i \in 1..m : CellAt(l, s, i) = s[i] /\ s[i] \in Entry
  BY CellsDiffer, Zenon
<1>2. bound \in Nat /\ m + 1 <= bound
  BY <1>1, ListsAreShort
<1>3. NULL \notin Entry
  BY ListAssumption DEF Cell
<1>4. /\ \A i \in 1..m : next[CellAt(l, s, i - 1)] = s[i]
      /\ next[CellAt(l, s, m)] = NULL
  BY DEF Chained
<1>5. Contents(l) = [n \in 1..Cardinality(met) |-> at[n]]
  BY DEF Contents
<1>6. at = CHOOSE g : g = Walk(g)
  BY DEF ns_list_get_first, ns_list_get_next
<1> HIDE DEF bound, m, at
<1>7. f = Walk(f)
  <2> SUFFICES ASSUME NEW n \in 1..bound PROVE f[n] = Walk(f)[n]
    OBVIOUS
  <2>1. CASE n = 1
    <3>1. CASE m = 0
      BY <1>1, <1>2, <1>4, <2>1, <3>1
    <3>2. CASE m # 0
      <4>1. 1 \in 1..m /\ 1 - 1 = 0
        BY <1>1, <3>2
      <4>2. next[l] = s[1]
        BY <1>1, <1>4, <4>1
      <4> QED BY <1>1, <2>1, <3>2, <4>2
    <3> QED BY <3>1, <3>2
  <2>2. CASE n # 1
    <3>1. n - 1 \in 1..bound
      BY <1>2, <2>2
    <3>2. CASE n <= m
      <4>1. n \in 1..m /\ n - 1 \in 1..m /\ n - 1 <= m
        BY <1>1, <1>2, <2>2, <3>2
      <4>2. f[n - 1] = s[n - 1] /\ s[n - 1] \in Entry /\ CellAt(l, s, n - 1) = s[n - 1]
        BY <1>1, <3>1, <4>1
      <4>3. next[s[n - 1]] = s[n]
        BY <1>4, <4>1, <4>2
      <4> QED BY <2>2, <3>2, <4>2, <4>3
    <3>3. CASE n = m + 1
      <4>1. m \in 1..m /\ n - 1 = m /\ ~(n <= m)
        BY <1>1, <1>2, <2>2, <3>3
      <4>2. f[n - 1] = s[m] /\ s[m] \in Entry /\ CellAt(l, s, m) = s[m]
        BY <1>1, <3>1, <4>1
      <4> QED BY <1>4, <2>2, <4>1, <4>2
    <3>4. CASE n > m + 1
      <4>1. ~(n - 1 <= m) /\ ~(n <= m)
        BY <1>1, <1>2, <3>4
      <4>2. f[n - 1] = NULL
        BY <3>1, <4>1
      <4> QED BY <1>3, <2>2, <4>1, <4>2
    <3> QED BY <1>1, <1>2, <3>2, <3>3, <3>4
  <2> QED BY <2>1, <2>2
<1> HIDE DEF f, Walk
<1>8. at = Walk(at)
  BY <1>6, <1>7, Zenon
<1>9. \A n \in 1..bound : at[n] = f[n]
  <2> DEFINE T == {n \in 1..bound : at[n] # f[n]}
  <2>1. SUFFICES ASSUME T # {} PROVE FALSE
    OBVIOUS
  <2>2. T \subseteq Nat
    BY <1>2
  <2>3. PICK n \in T : \A k \in T : n <= k
    BY <2>1, <2>2, NatLeast
  <2>4. at[n] = Walk(at)[n] /\ f[n] = Walk(f)[n]
    BY <1>7, <1>8
  <2>5. CASE n = 1
    BY <2>4, <2>5 DEF Walk
  <2>6. CASE n # 1
    <3>1. n - 1 \in 1..bound /\ n - 1 \notin T
      BY <1>2, <2>3, <2>6
    <3>2. at[n - 1] = f[n - 1]
      BY <3>1
    <3> QED BY <2>4, <2>6, <3>2 DEF Walk
  <2> QED BY <2>5, <2>6
<1>10. met = 1..m
  <2>1. \A n \in 1..bound : at[n] # NULL <=> n \in 1..m
    BY <1>1, <1>2, <1>3, <1>9 DEF f
  <2>2. 1..m \subseteq 1..bound
    BY <1>1, <1>2
  <2> QED BY <2>1, <2>2
<1> HIDE DEF met
<1>11. Cardinality(met) = m
  BY <1>1, <1>10, FS_Interval
<1>12. \A n \in 1..m : at[n] = s[n]
  <2>1. \A n \in 1..m : n \in 1..bound /\ n <= m
    BY <1>1, <1>2
  <2> QED BY <1>9, <2>1 DEF f
<1>13. s = [n \in 1..m |-> s[n]]
  BY <1>1
<1> QED BY <1>5, <1>11, <1>12, <1>13

-----------------------------------------------------------------------------
(* Lists laid out in memory, still as facts about functions *)

Nexts == [Cell -> Entry \cup {NULL, NS_LIST_POISON}]
Prevs == [Entry -> Cell \cup {NS_LIST_POISON}]
Lasts == [List -> Cell]
Owners == [Entry -> List \cup {NULL}]

\* With next n, prev p, last_nextptr q and owner o, list l has the entries s.
Laid(n, p, q, o, l, s) ==
    /\ s \in Seq(Entry) /\ IsInjective(s)
    /\ Range(s) = {e \in Entry : o[e] = l}
    /\ Chained(n, p, l, s)
    /\ q[l] = CellAt(l, s, Len(s))

\* What is around the k-th cell of a list that has the entries s.
Around(n, p, o, l, s, k) ==
    /\ CellAt(l, s, k) \in Cell
    /\ CellAt(l, s, k) = l \/ (CellAt(l, s, k) \in Entry /\ o[CellAt(l, s, k)] = l)
    /\ k = Len(s) => n[CellAt(l, s, k)] = NULL
    /\ k # Len(s) => /\ n[CellAt(l, s, k)] = s[k + 1]
                     /\ s[k + 1] \in Entry /\ s[k + 1] # NULL
                     /\ o[s[k + 1]] = l
    /\ k = 0 => CellAt(l, s, k) = l
    /\ k # 0 => /\ CellAt(l, s, k) = s[k] /\ s[k] \in Entry /\ o[s[k]] = l
                /\ p[s[k]] = CellAt(l, s, k - 1)

\* The cells of a list point to the entries behind them, and back.
LEMMA Follows ==
    ASSUME NEW n, NEW p, NEW q, NEW o, NEW l \in List, NEW s,
           Laid(n, p, q, o, l, s), NEW k \in 0..Len(s)
    PROVE  Around(n, p, o, l, s, k)
<1>1. s \in Seq(Entry) /\ IsInjective(s) /\ Chained(n, p, l, s)
  BY DEF Laid
<1>2. /\ Len(s) \in Nat /\ DOMAIN s = 1..Len(s)
      /\ \A i \in 1..Len(s) : CellAt(l, s, i) = s[i] /\ s[i] \in Entry
      /\ \A i \in 0..Len(s) : CellAt(l, s, i) \in Cell
  BY <1>1, CellsDiffer, Zenon
<1>3. \A i \in 1..Len(s) : o[s[i]] = l
  <2>1. \A i \in 1..Len(s) : s[i] \in Range(s)
    BY <1>2, Zenon DEF Range
  <2> QED BY <2>1 DEF Laid
<1>4. NULL \notin Entry
  BY ListAssumption DEF Cell
<1>5. ASSUME k # Len(s)
      PROVE  n[CellAt(l, s, k)] = s[k + 1] /\ k + 1 \in 1..Len(s)
  <2>1. k + 1 \in 1..Len(s) /\ (k + 1) - 1 = k
    BY <1>2, <1>5, EntryBehind, Zenon
  <2> QED BY <1>1, <2>1 DEF Chained
<1>6. k = Len(s) => n[CellAt(l, s, k)] = NULL
  BY <1>1 DEF Chained
<1>7. ASSUME k # 0 PROVE k \in 1..Len(s)
  BY <1>2, <1>7
<1>8. \A i \in 1..Len(s) : p[s[i]] = CellAt(l, s, i - 1)
  BY <1>1 DEF Chained
<1>9. k = 0 => CellAt(l, s, k) = l
  BY DEF CellAt
<1>10. CellAt(l, s, k) = l \/ (CellAt(l, s, k) \in Entry /\ o[CellAt(l, s, k)] = l)
  <2>1. CASE k = 0
    <3>1. CellAt(l, s, k) = l
      BY <1>9, <2>1
    <3> QED BY <3>1
  <2>2. CASE k # 0
    <3>1. CellAt(l, s, k) = s[k] /\ s[k] \in Entry /\ o[s[k]] = l
      BY <1>2, <1>3, <1>7, <2>2
    <3> QED BY <3>1
  <2> QED BY <2>1, <2>2
<1>11. k # 0 => /\ CellAt(l, s, k) = s[k] /\ s[k] \in Entry /\ o[s[k]] = l
                /\ p[s[k]] = CellAt(l, s, k - 1)
  BY <1>2, <1>3, <1>7, <1>8
<1>12. k # Len(s) => /\ n[CellAt(l, s, k)] = s[k + 1]
                     /\ s[k + 1] \in Entry /\ s[k + 1] # NULL
                     /\ o[s[k + 1]] = l
  BY <1>2, <1>3, <1>4, <1>5
<1>13. CellAt(l, s, k) \in Cell
  BY <1>2
<1> QED BY <1>6, <1>9, <1>10, <1>11, <1>12, <1>13 DEF Around

\* The cells and the entries of list l are as before.
Untouched(n, p, q, o, l, n2, p2, q2, o2) ==
    /\ n2[l] = n[l] /\ q2[l] = q[l]
    /\ \A x \in Entry : o[x] = l => n2[x] = n[x] /\ p2[x] = p[x]
    /\ \A x \in Entry : o2[x] = l <=> o[x] = l

\* A list whose cells and entries no one touched is as it was.
LEMMA LaidFrame ==
    ASSUME NEW n, NEW p, NEW q, NEW o, NEW l \in List, NEW s,
           Laid(n, p, q, o, l, s),
           NEW n2, NEW p2, NEW q2, NEW o2, Untouched(n, p, q, o, l, n2, p2, q2, o2)
    PROVE  Laid(n2, p2, q2, o2, l, s)
<1> USE DEF Untouched
<1>1. s \in Seq(Entry) /\ IsInjective(s) /\ Chained(n, p, l, s)
  BY DEF Laid
<1>2. Range(s) = {e \in Entry : o[e] = l} /\ q[l] = CellAt(l, s, Len(s))
  BY DEF Laid
<1>3. \A x \in Range(s) : n2[x] = n[x] /\ p2[x] = p[x]
  BY <1>2
<1>4. Chained(n2, p2, l, s)
  BY <1>1, <1>3, ChainFrame
<1>5. Range(s) = {e \in Entry : o2[e] = l}
  BY <1>2
<1> QED BY <1>1, <1>2, <1>4, <1>5 DEF Laid

\* n2, p2, q2 and o2 are n, p, q and o but for list l, which has the entries t
\* now.
Reshaped(n, p, q, o, n2, p2, q2, o2, l, t) ==
    /\ n2 \in Nexts /\ p2 \in Prevs /\ q2 \in Lasts /\ o2 \in Owners
    /\ Laid(n2, p2, q2, o2, l, t)
    /\ \A m \in List : \A u : m # l /\ Laid(n, p, q, o, m, u) =>
           Laid(n2, p2, q2, o2, m, u)

\* The same, with list r empty as well.
ReshapedTwo(n, p, q, o, n2, p2, q2, o2, d, t, r) ==
    /\ n2 \in Nexts /\ p2 \in Prevs /\ q2 \in Lasts /\ o2 \in Owners
    /\ Laid(n2, p2, q2, o2, d, t)
    /\ Laid(n2, p2, q2, o2, r, << >>)
    /\ \A m \in List : \A u : m # d /\ m # r /\ Laid(n, p, q, o, m, u) =>
           Laid(n2, p2, q2, o2, m, u)

\* e is linked behind the cell c of list l.
PutBehind(n, p, q, o, l, c, e, n2, p2, q2, o2) ==
    /\ n2 = [n EXCEPT ![e] = n[c], ![c] = e]
    /\ p2 = IF n[c] # NULL THEN [[p EXCEPT ![e] = c] EXCEPT ![n[c]] = e]
            ELSE [p EXCEPT ![e] = c]
    /\ q2 = IF n[c] # NULL THEN q ELSE [q EXCEPT ![l] = e]
    /\ o2 = [o EXCEPT ![e] = l]

\* Linking a detached entry behind the k-th cell.
LEMMA LaidInsert ==
    ASSUME NEW n \in Nexts, NEW p \in Prevs, NEW q \in Lasts, NEW o \in Owners,
           NEW l \in List, NEW s, Laid(n, p, q, o, l, s),
           NEW e \in Entry, o[e] = NULL,
           NEW k \in 0..Len(s), NEW c, c = CellAt(l, s, k),
           NEW n2, NEW p2, NEW q2, NEW o2,
           PutBehind(n, p, q, o, l, c, e, n2, p2, q2, o2)
    PROVE  Reshaped(n, p, q, o, n2, p2, q2, o2, l, InsertAt(s, k + 1, e))
<1> DEFINE t == InsertAt(s, k + 1, e)
<1>1. /\ c \in Cell
      /\ k = Len(s) => n[c] = NULL
      /\ k # Len(s) => n[c] \in Entry /\ n[c] # NULL /\ o[n[c]] = l
      /\ k # 0 => c \in Entry /\ o[c] = l
      /\ k = 0 => c = l
  <2>1. Around(n, p, o, l, s, k)
    BY Follows, Zenon
  <2> QED BY <2>1, Zenon DEF Around
<1>2. /\ s \in Seq(Entry) /\ IsInjective(s) /\ Chained(n, p, l, s)
      /\ Range(s) = {x \in Entry : o[x] = l} /\ q[l] = CellAt(l, s, Len(s))
  BY DEF Laid
<1>3. /\ e \in Cell /\ l \in Cell /\ l # NULL /\ l \notin Entry
      /\ e \notin Range(s) /\ c # e
  <2>1. e \in Cell /\ l \in Cell /\ l # NULL /\ l \notin Entry
    BY ListAssumption DEF Cell
  <2> QED BY <1>1, <1>2, <2>1
<1>4. n2 \in Nexts /\ p2 \in Prevs /\ q2 \in Lasts /\ o2 \in Owners
  <2>1. n2 \in Nexts
    BY <1>1, <1>3 DEF Nexts, PutBehind
  <2>2. p2 \in Prevs
    BY <1>1, <1>3 DEF Prevs, PutBehind
  <2>3. q2 \in Lasts
    BY <1>3 DEF Lasts, PutBehind
  <2>4. o2 \in Owners
    BY DEF Owners, PutBehind
  <2> QED BY <2>1, <2>2, <2>3, <2>4
<1>5. /\ p2[e] = c
      /\ k # Len(s) => p2[n[c]] = e
      /\ \A x \in Entry : x # e /\ (k = Len(s) \/ x # n[c]) => p2[x] = p[x]
  <2>1. CASE k = Len(s)
    BY <1>1, <2>1 DEF Prevs, PutBehind
  <2>2. CASE k # Len(s)
    <3>1. n[c] # e
      BY <1>1, <1>3, <2>2
    <3> QED BY <1>1, <2>2, <3>1 DEF Prevs, PutBehind
  <2> QED BY <2>1, <2>2
<1>6. /\ Chained(n2, p2, l, t)
      /\ CellAt(l, t, Len(s) + 1) = IF k = Len(s) THEN e ELSE CellAt(l, s, Len(s))
  <2>1. LinksIn(n, p, s, k, c, e, n2, p2)
    BY <1>5 DEF PutBehind, LinksIn
  <2>2. ChainedTo(n2, p2, l, t, Len(s) + 1, AtEnd(k, Len(s), e, CellAt(l, s, Len(s))))
    BY <1>2, <1>3, <2>1, ChainInsert, Zenon DEF Nexts, Prevs
  <2> QED BY <2>2 DEF AtEnd, ChainedTo
<1>7. /\ t \in Seq(Entry) /\ Len(t) = Len(s) + 1 /\ IsInjective(t)
      /\ Range(t) = Range(s) \cup {e}
  <2>1. t \in Seq(Entry) /\ IsInserted(t, s, k, e)
    BY <1>2, InsertBehind
  <2> QED BY <1>2, <1>3, <2>1 DEF IsInserted
<1>8. \A x \in Entry : o2[x] = IF x = e THEN l ELSE o[x]
  BY DEF Owners, PutBehind
<1>9. q2[l] = CellAt(l, t, Len(t))
  <2>1. CASE k = Len(s)
    BY <1>1, <1>6, <1>7, <2>1 DEF Lasts, PutBehind
  <2>2. CASE k # Len(s)
    BY <1>1, <1>2, <1>6, <1>7, <2>2 DEF Lasts, PutBehind
  <2> QED BY <2>1, <2>2
<1>10. Range(t) = {x \in Entry : o2[x] = l}
  BY <1>2, <1>7, <1>8
<1>11. Laid(n2, p2, q2, o2, l, t)
  BY <1>6, <1>7, <1>9, <1>10 DEF Laid
<1>12. ASSUME NEW m \in List, NEW u, m # l, Laid(n, p, q, o, m, u)
       PROVE  Laid(n2, p2, q2, o2, m, u)
  <2>1. m # NULL /\ m # e /\ m # c /\ m \in Cell
    BY <1>1, <1>12, ListAssumption DEF Cell
  <2>2. n2[m] = n[m] /\ q2[m] = q[m]
    BY <1>12, <2>1 DEF Nexts, Lasts, PutBehind
  <2>3. ASSUME NEW x \in Entry, o[x] = m PROVE n2[x] = n[x] /\ p2[x] = p[x]
    <3>1. x # e /\ x # c /\ x \in Cell
      BY <1>1, <1>3, <1>12, <2>1, <2>3 DEF Cell
    <3>2. k = Len(s) \/ x # n[c]
      BY <1>1, <1>12, <2>3
    <3>3. n2[x] = n[x]
      BY <3>1 DEF Nexts, PutBehind
    <3> QED BY <1>5, <3>1, <3>2, <3>3
  <2>4. \A x \in Entry : o2[x] = m <=> o[x] = m
    BY <1>8, <1>12, <2>1
  <2> HIDE DEF t
  <2>5. Untouched(n, p, q, o, m, n2, p2, q2, o2)
    BY <2>2, <2>3, <2>4 DEF Untouched
  <2> QED BY <1>12, <2>5, LaidFrame, Zenon
<1> QED BY <1>4, <1>11, <1>12 DEF Reshaped

\* e is linked out of list l.
TakeOut(n, p, q, o, l, e, n2, p2, q2, o2) ==
    /\ n2 = [n EXCEPT ![p[e]] = n[e], ![e] = NS_LIST_POISON]
    /\ p2 = IF n[e] # NULL
            THEN [[p EXCEPT ![e] = NS_LIST_POISON] EXCEPT ![n[e]] = p[e]]
            ELSE [p EXCEPT ![e] = NS_LIST_POISON]
    /\ q2 = IF n[e] # NULL THEN q ELSE [q EXCEPT ![l] = p[e]]
    /\ o2 = [o EXCEPT ![e] = NULL]

\* Linking out the k-th entry.
LEMMA LaidRemove ==
    ASSUME NEW n \in Nexts, NEW p \in Prevs, NEW q \in Lasts, NEW o \in Owners,
           NEW l \in List, NEW s, Laid(n, p, q, o, l, s),
           NEW k \in 1..Len(s), NEW e, e = s[k],
           NEW n2, NEW p2, NEW q2, NEW o2,
           TakeOut(n, p, q, o, l, e, n2, p2, q2, o2)
    PROVE  Reshaped(n, p, q, o, n2, p2, q2, o2, l, RemoveAt(s, k))
<1> DEFINE t == RemoveAt(s, k)
           c == CellAt(l, s, k - 1)
<1>1. /\ s \in Seq(Entry) /\ IsInjective(s) /\ Chained(n, p, l, s)
      /\ Range(s) = {x \in Entry : o[x] = l} /\ q[l] = CellAt(l, s, Len(s))
  BY DEF Laid
<1>2. /\ Len(s) \in Nat /\ k \in 0..Len(s) /\ k - 1 \in 0..Len(s) /\ k # 0 /\ k - 1 # k
      /\ k - 1 = Len(s) <=> FALSE
      /\ Len(s) \in 0..Len(s)
  <2>1. Len(s) \in Nat
    BY <1>1
  <2>2. k \in 0..Len(s) /\ k - 1 \in 0..Len(s) /\ k - 1 # k
    BY <2>1, CellBefore, Zenon
  <2> QED BY <2>1, <2>2
<1>3. /\ e = CellAt(l, s, k) /\ e \in Entry /\ o[e] = l /\ p[e] = c
      /\ k = Len(s) => n[e] = NULL
      /\ k # Len(s) => n[e] \in Entry /\ n[e] # NULL /\ o[n[e]] = l
  <2>1. Around(n, p, o, l, s, k)
    BY <1>2, Follows, Zenon
  <2> QED BY <1>2, <2>1, Zenon DEF Around
<1>4. /\ c \in Cell
      /\ c = l \/ (c \in Entry /\ o[c] = l)
  <2>1. Around(n, p, o, l, s, k - 1)
    BY <1>2, Follows, Zenon
  <2> QED BY <2>1, Zenon DEF Around
<1>5. c # e
  <2>1. \A i, j \in 0..Len(s) : CellAt(l, s, i) = CellAt(l, s, j) => i = j
    BY <1>1, CellsDiffer, Zenon
  <2> QED BY <1>2, <1>3, <2>1
<1>6. /\ e \in Cell /\ l \in Cell /\ l # NULL /\ l \notin Entry
      /\ NULL \notin Entry /\ NULL \notin List
  BY <1>3, ListAssumption DEF Cell
<1> HIDE DEF c
<1>7. /\ n2 = [n EXCEPT ![c] = n[e], ![e] = NS_LIST_POISON]
      /\ p2 = IF n[e] # NULL
              THEN [[p EXCEPT ![e] = NS_LIST_POISON] EXCEPT ![n[e]] = c]
              ELSE [p EXCEPT ![e] = NS_LIST_POISON]
      /\ q2 = IF n[e] # NULL THEN q ELSE [q EXCEPT ![l] = c]
      /\ o2 = [o EXCEPT ![e] = NULL]
  BY <1>3 DEF TakeOut
<1>8. n2 \in Nexts /\ p2 \in Prevs /\ q2 \in Lasts /\ o2 \in Owners
  <2>1. n2 \in Nexts
    BY <1>3, <1>4, <1>6, <1>7 DEF Nexts
  <2>2. p2 \in Prevs
    BY <1>3, <1>4, <1>7 DEF Prevs
  <2>3. q2 \in Lasts
    BY <1>4, <1>7 DEF Lasts
  <2>4. o2 \in Owners
    BY <1>7 DEF Owners
  <2> QED BY <2>1, <2>2, <2>3, <2>4
<1>9. /\ k # Len(s) => p2[n[e]] = c
      /\ \A x \in Entry : x # e /\ (k = Len(s) \/ x # n[e]) => p2[x] = p[x]
  <2>1. CASE k = Len(s)
    BY <1>3, <1>7, <2>1 DEF Prevs
  <2>2. CASE k # Len(s)
    BY <1>3, <1>7, <2>2 DEF Prevs
  <2> QED BY <2>1, <2>2
<1>10. /\ Chained(n2, p2, l, t)
       /\ CellAt(l, t, Len(s) - 1) = IF k = Len(s) THEN c ELSE CellAt(l, s, Len(s))
  <2>1. LinksOut(n, p, s, k, c, e, n2, p2)
    BY <1>7, <1>9 DEF LinksOut
  <2>2. ChainedTo(n2, p2, l, t, Len(s) - 1, AtEnd(k, Len(s), c, CellAt(l, s, Len(s))))
    BY <1>1, <2>1, ChainRemove, Zenon DEF Nexts, Prevs, c
  <2> QED BY <2>2 DEF AtEnd, ChainedTo
<1>11. /\ t \in Seq(Entry) /\ Len(t) = Len(s) - 1 /\ IsInjective(t)
       /\ Range(t) = Range(s) \ {e}
  <2>1. t \in Seq(Entry) /\ IsRemoved(t, s, k)
    BY <1>1, RemoveOne, Zenon
  <2> QED BY <1>1, <2>1, Zenon DEF IsRemoved
<1>12. \A x \in Entry : o2[x] = IF x = e THEN NULL ELSE o[x]
  BY <1>7 DEF Owners
<1> HIDE DEF t
<1>13. q2[l] = CellAt(l, t, Len(t))
  <2>1. CASE k = Len(s)
    BY <1>3, <1>7, <1>10, <1>11, <2>1 DEF Lasts
  <2>2. CASE k # Len(s)
    BY <1>1, <1>3, <1>7, <1>10, <1>11, <2>2 DEF Lasts
  <2> QED BY <2>1, <2>2
<1>14. Range(t) = {x \in Entry : o2[x] = l}
  BY <1>1, <1>6, <1>11, <1>12
<1>15. Laid(n2, p2, q2, o2, l, t)
  BY <1>10, <1>11, <1>13, <1>14, Zenon DEF Laid
<1>16. ASSUME NEW m \in List, NEW u, m # l, Laid(n, p, q, o, m, u)
       PROVE  Laid(n2, p2, q2, o2, m, u)
  <2>1. m # NULL /\ m # e /\ m # c /\ m \in Cell
    BY <1>3, <1>4, <1>16, ListAssumption DEF Cell
  <2>2. n2[m] = n[m] /\ q2[m] = q[m]
    BY <1>7, <1>16, <2>1 DEF Nexts, Lasts
  <2>3. ASSUME NEW x \in Entry, o[x] = m PROVE n2[x] = n[x] /\ p2[x] = p[x]
    <3>1. x # e /\ x # c /\ x \in Cell
      BY <1>3, <1>4, <1>6, <1>16, <2>1, <2>3 DEF Cell
    <3>2. k = Len(s) \/ x # n[e]
      BY <1>3, <1>16, <2>3
    <3>3. n2[x] = n[x]
      BY <1>7, <3>1 DEF Nexts
    <3> QED BY <1>9, <3>1, <3>2, <3>3
  <2>4. \A x \in Entry : o2[x] = m <=> o[x] = m
    BY <1>3, <1>12, <1>16, <2>1
  <2>5. Untouched(n, p, q, o, m, n2, p2, q2, o2)
    BY <2>2, <2>3, <2>4 DEF Untouched
  <2> QED BY <1>16, <2>5, LaidFrame, Zenon
<1> QED BY <1>8, <1>15, <1>16 DEF t, Reshaped

\* e takes the place of the entry b of list l.
TakeOver(n, p, q, o, l, b, e, n2, p2, q2, o2) ==
    /\ n2 = [n EXCEPT ![e] = n[b], ![p[b]] = e, ![b] = NS_LIST_POISON]
    /\ p2 = IF n[b] # NULL
            THEN [[p EXCEPT ![e] = p[b], ![b] = NS_LIST_POISON] EXCEPT ![n[b]] = e]
            ELSE [p EXCEPT ![e] = p[b], ![b] = NS_LIST_POISON]
    /\ q2 = IF n[b] # NULL THEN q ELSE [q EXCEPT ![l] = e]
    /\ o2 = [o EXCEPT ![e] = l, ![b] = NULL]

\* Linking a detached entry in for the k-th one.
LEMMA LaidReplace ==
    ASSUME NEW n \in Nexts, NEW p \in Prevs, NEW q \in Lasts, NEW o \in Owners,
           NEW l \in List, NEW s, Laid(n, p, q, o, l, s),
           NEW k \in 1..Len(s), NEW b, b = s[k],
           NEW e \in Entry, o[e] = NULL,
           NEW n2, NEW p2, NEW q2, NEW o2,
           TakeOver(n, p, q, o, l, b, e, n2, p2, q2, o2)
    PROVE  Reshaped(n, p, q, o, n2, p2, q2, o2, l, ReplaceAt(s, k, e))
<1> DEFINE t == ReplaceAt(s, k, e)
           c == CellAt(l, s, k - 1)
<1>1. /\ s \in Seq(Entry) /\ IsInjective(s) /\ Chained(n, p, l, s)
      /\ Range(s) = {x \in Entry : o[x] = l} /\ q[l] = CellAt(l, s, Len(s))
  BY DEF Laid
<1>2. /\ Len(s) \in Nat /\ k \in 0..Len(s) /\ k - 1 \in 0..Len(s) /\ k # 0 /\ k - 1 # k
      /\ Len(s) \in 0..Len(s)
  <2>1. Len(s) \in Nat
    BY <1>1
  <2>2. k \in 0..Len(s) /\ k - 1 \in 0..Len(s) /\ k - 1 # k
    BY <2>1, CellBefore, Zenon
  <2> QED BY <2>1, <2>2
<1>3. /\ b = CellAt(l, s, k) /\ b \in Entry /\ o[b] = l /\ p[b] = c
      /\ k = Len(s) => n[b] = NULL
      /\ k # Len(s) => n[b] \in Entry /\ n[b] # NULL /\ o[n[b]] = l
  <2>1. Around(n, p, o, l, s, k)
    BY <1>2, Follows, Zenon
  <2> QED BY <1>2, <2>1, Zenon DEF Around
<1>4. /\ c \in Cell
      /\ c = l \/ (c \in Entry /\ o[c] = l)
  <2>1. Around(n, p, o, l, s, k - 1)
    BY <1>2, Follows, Zenon
  <2> QED BY <2>1, Zenon DEF Around
<1>5. c # b
  <2>1. \A i, j \in 0..Len(s) : CellAt(l, s, i) = CellAt(l, s, j) => i = j
    BY <1>1, CellsDiffer, Zenon
  <2> QED BY <1>2, <1>3, <2>1
<1>6. /\ e \in Cell /\ b \in Cell /\ l \in Cell /\ l # NULL /\ l \notin Entry
      /\ NULL \notin Entry /\ NULL \notin List
  BY <1>3, ListAssumption DEF Cell
<1>x. e # b /\ e # c /\ n[b] # e /\ e \notin Range(s)
  <2>1. k = Len(s) \/ k # Len(s)
    OBVIOUS
  <2> QED BY <1>1, <1>3, <1>4, <1>6, <2>1
<1>y. k # Len(s) => n[b] # b
  <2> SUFFICES ASSUME k # Len(s), n[b] = b PROVE FALSE
    OBVIOUS
  <2>1. k + 1 \in 1..Len(s) /\ (k + 1) - 1 = k /\ k \in 1..Len(s)
    BY <1>2, EntryBehind, Zenon
  <2>2. n[b] = s[k + 1]
    BY <1>1, <1>3, <2>1 DEF Chained
  <2>3. \A i, j \in 1..Len(s) : s[i] = s[j] => i = j
    BY <1>1 DEF IsInjective
  <2>4. k = k + 1
    BY <2>1, <2>2, <2>3
  <2> QED BY <1>2, <2>4
<1> HIDE DEF c
<1>7. /\ n2 = [n EXCEPT ![e] = n[b], ![c] = e, ![b] = NS_LIST_POISON]
      /\ p2 = IF n[b] # NULL
              THEN [[p EXCEPT ![e] = c, ![b] = NS_LIST_POISON] EXCEPT ![n[b]] = e]
              ELSE [p EXCEPT ![e] = c, ![b] = NS_LIST_POISON]
      /\ q2 = IF n[b] # NULL THEN q ELSE [q EXCEPT ![l] = e]
      /\ o2 = [o EXCEPT ![e] = l, ![b] = NULL]
  BY <1>3 DEF TakeOver
<1>8. n2 \in Nexts /\ p2 \in Prevs /\ q2 \in Lasts /\ o2 \in Owners
  <2>1. n2 \in Nexts
    BY <1>3, <1>4, <1>6, <1>7 DEF Nexts
  <2>2. p2 \in Prevs
    BY <1>3, <1>4, <1>6, <1>7 DEF Prevs
  <2>3. q2 \in Lasts
    BY <1>4, <1>6, <1>7 DEF Lasts
  <2>4. o2 \in Owners
    BY <1>7 DEF Owners
  <2> QED BY <2>1, <2>2, <2>3, <2>4
<1>9. /\ p2[e] = c
      /\ k # Len(s) => p2[n[b]] = e
      /\ \A x \in Entry : x # e /\ x # b /\ (k = Len(s) \/ x # n[b]) => p2[x] = p[x]
  <2>1. CASE k = Len(s)
    BY <1>3, <1>7, <1>x, <2>1 DEF Prevs
  <2>2. CASE k # Len(s)
    BY <1>3, <1>7, <1>x, <1>y, <2>2 DEF Prevs
  <2> QED BY <2>1, <2>2
<1>10. /\ Chained(n2, p2, l, t)
       /\ CellAt(l, t, Len(s)) = IF k = Len(s) THEN e ELSE CellAt(l, s, Len(s))
  <2>1. LinksOver(n, p, s, k, c, b, e, n2, p2)
    BY <1>7, <1>9 DEF LinksOver
  <2>2. ChainedTo(n2, p2, l, t, Len(s), AtEnd(k, Len(s), e, CellAt(l, s, Len(s))))
    BY <1>1, <1>x, <2>1, ChainReplace, Zenon DEF Nexts, Prevs, c
  <2> QED BY <2>2 DEF AtEnd, ChainedTo
<1>11. /\ t \in Seq(Entry) /\ Len(t) = Len(s) /\ IsInjective(t)
       /\ Range(t) = (Range(s) \ {b}) \cup {e}
  <2>1. t \in Seq(Entry) /\ IsReplaced(t, s, k, e)
    BY <1>1, ReplaceOne, Zenon
  <2> QED BY <1>1, <1>x, <2>1, Zenon DEF IsReplaced
<1>12. \A x \in Entry : o2[x] = IF x = b THEN NULL ELSE IF x = e THEN l ELSE o[x]
  BY <1>3, <1>7 DEF Owners
<1> HIDE DEF t
<1>13. q2[l] = CellAt(l, t, Len(t))
  <2>1. CASE k = Len(s)
    BY <1>3, <1>7, <1>10, <1>11, <2>1 DEF Lasts
  <2>2. CASE k # Len(s)
    BY <1>1, <1>3, <1>7, <1>10, <1>11, <2>2 DEF Lasts
  <2> QED BY <2>1, <2>2
<1>14. Range(t) = {x \in Entry : o2[x] = l}
  BY <1>1, <1>6, <1>11, <1>12, <1>x
<1>15. Laid(n2, p2, q2, o2, l, t)
  BY <1>10, <1>11, <1>13, <1>14, Zenon DEF Laid
<1>16. ASSUME NEW m \in List, NEW u, m # l, Laid(n, p, q, o, m, u)
       PROVE  Laid(n2, p2, q2, o2, m, u)
  <2>1. m # NULL /\ m # e /\ m # b /\ m # c /\ m \in Cell
    BY <1>3, <1>4, <1>16, ListAssumption DEF Cell
  <2>2. n2[m] = n[m] /\ q2[m] = q[m]
    BY <1>7, <1>16, <2>1 DEF Nexts, Lasts
  <2>3. ASSUME NEW x \in Entry, o[x] = m PROVE n2[x] = n[x] /\ p2[x] = p[x]
    <3>1. x # e /\ x # b /\ x # c /\ x \in Cell
      BY <1>3, <1>4, <1>6, <1>16, <2>1, <2>3 DEF Cell
    <3>2. k = Len(s) \/ x # n[b]
      BY <1>3, <1>16, <2>3
    <3>3. n2[x] = n[x]
      BY <1>7, <3>1 DEF Nexts
    <3> QED BY <1>9, <3>1, <3>2, <3>3
  <2>4. \A x \in Entry : o2[x] = m <=> o[x] = m
    BY <1>3, <1>12, <1>16, <2>1
  <2>5. Untouched(n, p, q, o, m, n2, p2, q2, o2)
    BY <2>2, <2>3, <2>4 DEF Untouched
  <2> QED BY <1>16, <2>5, LaidFrame, Zenon
<1> QED BY <1>8, <1>15, <1>16 DEF t, Reshaped

\* A list that was cleared, with the owner of its entries forgotten.
LEMMA LaidClear ==
    ASSUME NEW n \in Nexts, NEW p \in Prevs, NEW q \in Lasts, NEW o \in Owners,
           NEW l \in List,
           NEW n2, n2 = [n EXCEPT ![l] = NULL],
           NEW q2, q2 = [q EXCEPT ![l] = l],
           NEW o2, o2 = [x \in Entry |-> IF o[x] = l THEN NULL ELSE o[x]]
    PROVE  Reshaped(n, p, q, o, n2, p, q2, o2, l, << >>)
<1>1. l \in Cell /\ l # NULL /\ l \notin Entry
  BY ListAssumption DEF Cell
<1>2. n2 \in Nexts /\ q2 \in Lasts /\ o2 \in Owners
  <2>1. n2 \in Nexts
    BY <1>1 DEF Nexts
  <2>2. q2 \in Lasts
    BY <1>1 DEF Lasts
  <2>3. o2 \in Owners
    BY DEF Owners
  <2> QED BY <2>1, <2>2, <2>3
<1>3. n2[l] = NULL /\ q2[l] = l
  BY <1>1 DEF Nexts, Lasts
<1>4. << >> \in Seq(Entry) /\ Len(<< >>) = 0 /\ 1..0 = {} /\ DOMAIN << >> = {}
  OBVIOUS
<1>5. IsInjective(<< >>) /\ Range(<< >>) = {}
  BY <1>4 DEF IsInjective, Range
<1>6. {x \in Entry : o2[x] = l} = {}
  BY <1>1
<1>7. CellAt(l, << >>, Len(<< >>)) = l
  BY <1>4 DEF CellAt
<1>8. Chained(n2, p, l, << >>)
  BY <1>3, <1>4, <1>7 DEF Chained
<1>9. Laid(n2, p, q2, o2, l, << >>)
  BY <1>3, <1>4, <1>5, <1>6, <1>7, <1>8 DEF Laid
<1>10. ASSUME NEW m \in List, NEW u, m # l, Laid(n, p, q, o, m, u)
       PROVE  Laid(n2, p, q2, o2, m, u)
  <2>1. m # NULL /\ m \notin Entry /\ m \in Cell
    BY ListAssumption DEF Cell
  <2>2. n2[m] = n[m] /\ q2[m] = q[m]
    BY <1>10, <2>1 DEF Nexts, Lasts
  <2>3. \A x \in Entry : n2[x] = n[x]
    <3>1. \A x \in Entry : x # l /\ x \in Cell
      BY <1>1 DEF Cell
    <3> QED BY <3>1 DEF Nexts
  <2>4. \A x \in Entry : o2[x] = m <=> o[x] = m
    BY <1>10, <2>1
  <2>5. Untouched(n, p, q, o, m, n2, p, q2, o2)
    BY <2>2, <2>3, <2>4 DEF Untouched
  <2> HIDE DEF Untouched
  <2> QED BY <1>10, <2>5, LaidFrame, Zenon
<1> QED BY <1>2, <1>9, <1>10 DEF Reshaped

\* The entries of list r follow those of list d.
Splices(n, p, q, o, d, r, n2, p2, q2, o2) ==
    /\ n2 = [n EXCEPT ![q[d]] = n[r], ![r] = NULL]
    /\ p2 = [p EXCEPT ![n[r]] = q[d]]
    /\ q2 = [q EXCEPT ![d] = q[r], ![r] = r]
    /\ o2 = [x \in Entry |-> IF o[x] = r THEN d ELSE o[x]]

\* Splicing a list that is not empty.
LEMMA LaidJoin ==
    ASSUME NEW n \in Nexts, NEW p \in Prevs, NEW q \in Lasts, NEW o \in Owners,
           NEW d \in List, NEW r \in List, d # r,
           NEW s, Laid(n, p, q, o, d, s),
           NEW u, Laid(n, p, q, o, r, u), n[r] # NULL,
           NEW n2, NEW p2, NEW q2, NEW o2,
           Splices(n, p, q, o, d, r, n2, p2, q2, o2)
    PROVE  ReshapedTwo(n, p, q, o, n2, p2, q2, o2, d, s \o u, r)
<1> DEFINE t == s \o u
           c == CellAt(d, s, Len(s))
<1>1. /\ s \in Seq(Entry) /\ IsInjective(s) /\ Chained(n, p, d, s)
      /\ Range(s) = {x \in Entry : o[x] = d} /\ q[d] = c
  BY DEF Laid
<1>2. /\ u \in Seq(Entry) /\ IsInjective(u) /\ Chained(n, p, r, u)
      /\ Range(u) = {x \in Entry : o[x] = r} /\ q[r] = CellAt(r, u, Len(u))
  BY DEF Laid
<1>3. Len(s) \in Nat /\ Len(s) \in 0..Len(s) /\ Len(u) \in Nat /\ 0 \in 0..Len(u)
      /\ Len(u) \in 0..Len(u)
  <2>1. Len(s) \in Nat /\ Len(u) \in Nat
    BY <1>1, <1>2
  <2> QED BY <2>1
<1>4. /\ c \in Cell
      /\ c = d \/ (c \in Entry /\ o[c] = d)
  <2>1. Around(n, p, o, d, s, Len(s))
    BY <1>3, Follows, Zenon
  <2> QED BY <2>1 DEF Around
<1>5. /\ CellAt(r, u, 0) = r /\ Len(u) # 0
      /\ n[r] \in Entry /\ o[n[r]] = r
  <2>1. Around(n, p, o, r, u, 0)
    BY <1>3, Follows, Zenon
  <2> QED BY <2>1 DEF Around
<1>6. /\ q[r] \in Cell
      /\ q[r] = r \/ q[r] \in Entry
  <2>1. Around(n, p, o, r, u, Len(u))
    BY <1>3, Follows, Zenon
  <2> QED BY <1>2, <2>1 DEF Around
<1>7. /\ d \in Cell /\ r \in Cell /\ d # NULL /\ r # NULL /\ d \notin Entry
      /\ r \notin Entry /\ c # r
  BY <1>4, ListAssumption DEF Cell
<1>8. Range(s) \cap Range(u) = {}
  BY <1>1, <1>2
<1> HIDE DEF c
<1>9. /\ n2 = [n EXCEPT ![c] = n[r], ![r] = NULL]
      /\ p2 = [p EXCEPT ![n[r]] = c]
      /\ q2 = [q EXCEPT ![d] = q[r], ![r] = r]
      /\ o2 = [x \in Entry |-> IF o[x] = r THEN d ELSE o[x]]
  BY <1>1 DEF Splices
<1>10. n2 \in Nexts /\ p2 \in Prevs /\ q2 \in Lasts /\ o2 \in Owners
  <2>1. n2 \in Nexts
    BY <1>4, <1>5, <1>7, <1>9 DEF Nexts
  <2>2. p2 \in Prevs
    BY <1>4, <1>5, <1>9 DEF Prevs
  <2>3. q2 \in Lasts
    BY <1>6, <1>7, <1>9 DEF Lasts
  <2>4. o2 \in Owners
    BY <1>9 DEF Owners
  <2> QED BY <2>1, <2>2, <2>3, <2>4
<1>11. /\ ChainedTo(n2, p2, d, t, Len(s) + Len(u), CellAt(r, u, Len(u)))
       /\ Chained(n2, p2, r, << >>)
  <2>1. ChainedTo(n2, p2, d, t, Len(s) + Len(u), CellAt(r, u, Len(u)))
    BY <1>1, <1>2, <1>5, <1>8, <1>9, ChainJoin, Zenon DEF Nexts, Prevs, c
  <2>2. Chained(n2, p2, r, << >>)
    BY <1>1, <1>2, <1>5, <1>8, <1>9, ChainJoin, Zenon DEF Nexts, Prevs, c
  <2> QED BY <2>1, <2>2
<1>12. /\ t \in Seq(Entry) /\ Len(t) = Len(s) + Len(u) /\ IsInjective(t)
       /\ Range(t) = Range(s) \cup Range(u)
  <2>1. t \in Seq(Entry) /\ IsJoined(t, s, u)
    BY <1>1, <1>2, JoinTwo, Zenon
  <2> QED BY <1>1, <1>2, <1>8, <2>1 DEF IsJoined
<1> HIDE DEF t
<1>13. q2[d] = q[r] /\ q2[r] = r /\ n2[r] = NULL
  BY <1>7, <1>9 DEF Lasts, Nexts
<1>14. Laid(n2, p2, q2, o2, d, t)
  <2>1. Range(t) = {x \in Entry : o2[x] = d}
    BY <1>1, <1>2, <1>9, <1>12
  <2>2. q2[d] = CellAt(d, t, Len(t))
    BY <1>2, <1>11, <1>12, <1>13 DEF ChainedTo
  <2>3. Chained(n2, p2, d, t)
    BY <1>11 DEF ChainedTo
  <2> QED BY <1>12, <2>1, <2>2, <2>3 DEF Laid
<1>15. Laid(n2, p2, q2, o2, r, << >>)
  <2>1. << >> \in Seq(Entry) /\ Len(<< >>) = 0 /\ DOMAIN << >> = {}
    OBVIOUS
  <2>2. IsInjective(<< >>) /\ Range(<< >>) = {}
    BY <2>1 DEF IsInjective, Range
  <2>3. {x \in Entry : o2[x] = r} = {}
    BY <1>9
  <2>4. q2[r] = CellAt(r, << >>, Len(<< >>))
    BY <1>13, <2>1 DEF CellAt
  <2> QED BY <1>11, <2>1, <2>2, <2>3, <2>4 DEF Laid
<1>16. ASSUME NEW m \in List, NEW v, m # d, m # r, Laid(n, p, q, o, m, v)
       PROVE  Laid(n2, p2, q2, o2, m, v)
  <2>1. m # c /\ m \in Cell /\ m # NULL
    BY <1>4, <1>16, ListAssumption DEF Cell
  <2>2. n2[m] = n[m] /\ q2[m] = q[m]
    BY <1>9, <1>16, <2>1 DEF Nexts, Lasts
  <2>3. ASSUME NEW x \in Entry, o[x] = m PROVE n2[x] = n[x] /\ p2[x] = p[x]
    <3>1. x # c /\ x # r /\ x # n[r] /\ x \in Cell
      BY <1>4, <1>5, <1>7, <1>16, <2>3 DEF Cell
    <3>2. n2[x] = n[x]
      BY <1>9, <3>1 DEF Nexts
    <3>3. p2[x] = p[x]
      BY <1>9, <3>1 DEF Prevs
    <3> QED BY <3>2, <3>3
  <2>4. \A x \in Entry : o2[x] = m <=> o[x] = m
    BY <1>9, <1>16, <2>1
  <2>5. Untouched(n, p, q, o, m, n2, p2, q2, o2)
    BY <2>2, <2>3, <2>4 DEF Untouched
  <2> QED BY <1>16, <2>5, LaidFrame, Zenon
<1> QED BY <1>10, <1>14, <1>15, <1>16 DEF t, ReshapedTwo

-----------------------------------------------------------------------------
(* The lists of a state *)

LaidOut(l, s) == Laid(next, prev, last_nextptr, owner, l, s)

\* The lists are laid out as Contents says.
ReadsRight ==
    \A l \in List : \A s : LaidOut(l, s) => Contents(l) = s /\ Spells(l, s)

\* ReadsRight holds in every state.
LEMMA Reads == ReadsRight
<1> SUFFICES ASSUME NEW l \in List, NEW s, LaidOut(l, s)
             PROVE  Contents(l) = s /\ Spells(l, s)
  BY DEF ReadsRight
<1>1. /\ s \in Seq(Entry) /\ IsInjective(s) /\ Chained(next, prev, l, s)
      /\ Range(s) = On(l) /\ last_nextptr[l] = CellAt(l, s, Len(s))
  BY DEF LaidOut, Laid, On
<1>2. Contents(l) = s
  BY <1>1, ContentsOf
<1>3. DOMAIN s = 1..Len(s)
  BY <1>1
<1>4. Spells(l, s)
  BY <1>1, <1>3 DEF Spells, Chained
<1> QED BY <1>2, <1>4

\* The same in the next state.
LEMMA ReadsNext == ReadsRight'
BY Reads, PTL

\* Links that are right lay out the contents of every list.
LEMMA WellLinkedIsLaidOut ==
    ASSUME WellLinked
    PROVE  \A l \in List : LaidOut(l, Contents(l))
<1> SUFFICES ASSUME NEW l \in List PROVE LaidOut(l, Contents(l))
  OBVIOUS
<1> DEFINE s == Contents(l)
<1>1. Spells(l, s)
  BY DEF WellLinked
<1>2. PICK m \in Nat : DOMAIN s = 1..m /\ s = [i \in 1..m |-> s[i]]
  <2> DEFINE bound == Cardinality(Entry) + 1
             at[n \in 1..bound] ==
                 IF n = 1 THEN ns_list_get_first(l)
                 ELSE IF at[n - 1] \in Entry THEN ns_list_get_next(at[n - 1]) ELSE NULL
             met == {n \in 1..bound : at[n] # NULL}
  <2>1. s = [n \in 1..Cardinality(met) |-> at[n]]
    BY DEF Contents
  <2>2. bound \in Nat
    BY ListAssumption, FS_CardinalityType
  <2> HIDE DEF bound, at
  <2>3. IsFiniteSet(1..bound)
    BY <2>2, FS_Interval
  <2>4. met \in SUBSET (1..bound)
    OBVIOUS
  <2> HIDE DEF met
  <2>5. IsFiniteSet(met)
    BY <2>3, <2>4, FS_Subset, Zenon
  <2>6. Cardinality(met) \in Nat
    BY <2>5, FS_CardinalityType
  <2> HIDE DEF s
  <2> QED BY <2>1, <2>6
<1> HIDE DEF s
<1>3. IsInjective(s) /\ Range(s) = On(l) /\ last_nextptr[l] = CellAt(l, s, Len(s))
  BY <1>1 DEF Spells
<1>4. s \in Seq(Entry) /\ Len(s) = m
  <2>1. \A i \in 1..m : s[i] \in Entry
    BY <1>2, <1>3 DEF Range, On
  <2>2. s \in [1..m -> Entry]
    BY <1>2, <2>1
  <2> QED BY <2>2
<1>5. Chained(next, prev, l, s)
  BY <1>1, <1>2, <1>4 DEF Spells, Chained
<1> QED BY <1>3, <1>4, <1>5 DEF LaidOut, Laid, On, s

-----------------------------------------------------------------------------
(* One step *)

LinkTypes == /\ next \in Nexts /\ prev \in Prevs
             /\ last_nextptr \in Lasts /\ owner \in Owners

\* After the step, list l has the entries t and the others have what they had.
Gives(l, t) ==
    /\ LinkTypes' /\ WellLinked'
    /\ Contents(l)' = t
    /\ \A m \in List : m # l => Contents(m)' = Contents(m)

\* Reshaping a list is such a step.
LEMMA ReshapedGives ==
    ASSUME WellLinked, NEW l \in List, NEW t,
           Reshaped(next, prev, last_nextptr, owner,
                    next', prev', last_nextptr', owner', l, t)
    PROVE  Gives(l, t)
<1>1. LinkTypes'
  BY DEF Reshaped, LinkTypes
<1>2. LaidOut(l, t)'
  BY DEF Reshaped, LaidOut
<1>3. \A m \in List : m # l => LaidOut(m, Contents(m))
  BY WellLinkedIsLaidOut
<1>4. ASSUME NEW m \in List, m # l, NEW u, LaidOut(m, u) PROVE LaidOut(m, u)'
  BY <1>4 DEF Reshaped, LaidOut
<1>5. Contents(l)' = t /\ Spells(l, t)'
  BY <1>2, ReadsNext DEF ReadsRight
<1>6. ASSUME NEW m \in List, m # l
      PROVE  Contents(m)' = Contents(m) /\ Spells(m, Contents(m))'
  <2>1. PICK u : u = Contents(m)
    OBVIOUS
  <2>2. LaidOut(m, u)'
    BY <1>3, <1>4, <1>6, <2>1
  <2>3. Contents(m)' = u /\ Spells(m, u)'
    BY <2>2, ReadsNext DEF ReadsRight
  <2> QED BY <2>1, <2>3 DEF Spells, On
<1>7. Spells(l, Contents(l))'
  BY <1>5 DEF Spells, On
<1>8. WellLinked'
  BY <1>6, <1>7 DEF WellLinked
<1> QED BY <1>1, <1>5, <1>6, <1>8 DEF Gives

\* A loop goes on over its list while entries it does not need leave it, and
\* others join.
LEMMA LoopKept ==
    ASSUME TypeOK, LoopOnList,
           NEW S, Needed \notin S, stayed' = stayed \ S, loop' = loop,
           \A x \in Entry : x \notin S /\ owner[x] # NULL => owner'[x] = owner[x]
    PROVE  LoopOnList'
<1>1. CASE loop.kind = "none"
  BY <1>1 DEF LoopOnList
<1>2. CASE loop.kind # "none"
  <2>1. loop.list \in List /\ loop.list # NULL
    BY <1>2, ListAssumption DEF LoopOnList, Cell
  <2>2. Needed' = Needed
    BY DEF Needed
  <2>3. \A x \in On(loop.list) : x \notin S => x \in On(loop.list)'
    BY <2>1 DEF On
  <2>4. Needed' \in On(loop.list)' \cup {NULL}
    BY <1>2, <2>2, <2>3 DEF LoopOnList
  <2>5. stayed' \subseteq On(loop.list)'
    BY <1>2, <2>3 DEF LoopOnList
  <2> QED BY <1>2, <2>1, <2>4, <2>5 DEF LoopOnList
<1> QED BY <1>1, <1>2

\* The parts of the invariant, put together after an operation.
LEMMA StepInv ==
    ASSUME TypeOK, LinkTypes', WellLinked', LoopOnList',
           loop' = loop, visited' = visited, NEW S, stayed' = stayed \ S
    PROVE  LinkInv'
<1>1. TypeOK'
  BY DEF TypeOK, LinkTypes, Nexts, Prevs, Lasts, Owners
<1> QED BY <1>1 DEF LinkInv

\* The type invariant covers the links.
LEMMA Typed ==
    ASSUME TypeOK
    PROVE  LinkTypes
BY DEF TypeOK, LinkTypes, Nexts, Prevs, Lasts, Owners

\* An entry of a list is at one position of its contents.
LEMMA PositionOf ==
    ASSUME WellLinked, NEW l \in List, NEW e \in On(l)
    PROVE  \E k \in 1..Len(Contents(l)) : Contents(l)[k] = e
<1>1. LaidOut(l, Contents(l))
  BY WellLinkedIsLaidOut
<1>2. Contents(l) \in Seq(Entry) /\ Range(Contents(l)) = On(l)
  BY <1>1 DEF LaidOut, Laid, On
<1>3. DOMAIN Contents(l) = 1..Len(Contents(l))
  BY <1>2
<1> QED BY <1>2, <1>3 DEF Range

\* Adding behind the k-th cell: ns_list_add_to_start and add_after, and, as
\* the next lemmas show, the other two.
LEMMA AddBehindStep ==
    ASSUME LinkInv, NEW l \in List, NEW e \in Entry,
           NEW k \in 0..Len(Contents(l)),
           NEW c, c = CellAt(l, Contents(l), k), AddBehind(l, c, e)
    PROVE  LinkInv' /\ Gives(l, InsertAt(Contents(l), k + 1, e))
<1>1. TypeOK /\ WellLinked /\ LoopOnList /\ owner[e] = NULL
  BY DEF LinkInv, AddBehind, Detached
<1>2. /\ next \in Nexts /\ prev \in Prevs /\ last_nextptr \in Lasts /\ owner \in Owners
      /\ Laid(next, prev, last_nextptr, owner, l, Contents(l))
  BY <1>1, Typed, WellLinkedIsLaidOut DEF LinkTypes, LaidOut
<1>3. PutBehind(next, prev, last_nextptr, owner, l, c, e,
                next', prev', last_nextptr', owner')
  BY DEF AddBehind, PrecededBy, Joins, PutBehind
<1>4. Reshaped(next, prev, last_nextptr, owner, next', prev', last_nextptr', owner',
               l, InsertAt(Contents(l), k + 1, e))
  BY <1>1, <1>2, <1>3, LaidInsert, Zenon
<1>5. Gives(l, InsertAt(Contents(l), k + 1, e))
  BY <1>1, <1>4, ReshapedGives, Zenon
<1>6. /\ loop' = loop /\ stayed' = stayed \ {} /\ visited' = visited
      /\ owner' = [owner EXCEPT ![e] = l]
  BY DEF AddBehind, Joins, iteration
<1>7. LoopOnList'
  <2>1. \A x \in Entry : x \notin {} /\ owner[x] # NULL => owner'[x] = owner[x]
    BY <1>1, <1>2, <1>6 DEF Owners
  <2> QED BY <1>1, <1>6, <2>1, LoopKept
<1>8. LinkInv'
  BY <1>1, <1>5, <1>6, <1>7, StepInv DEF Gives
<1> QED BY <1>5, <1>8

\* ns_list_add_before adds behind the cell before current.
LEMMA AddBeforeStep ==
    ASSUME LinkInv, NEW l \in List, NEW e \in Entry, NEW current \in Entry,
           NEW k \in 1..Len(Contents(l)), Contents(l)[k] = current,
           ns_list_add_before(l, current, e)
    PROVE  LinkInv' /\ Gives(l, InsertAt(Contents(l), k, e))
<1> DEFINE s == Contents(l)
           c == CellAt(l, s, k - 1)
<1>1. /\ TypeOK /\ WellLinked /\ LaidOut(l, s)
      /\ next \in Nexts /\ prev \in Prevs
  BY Typed, WellLinkedIsLaidOut DEF LinkInv, LinkTypes
<1>2. s \in Seq(Entry) /\ Len(s) \in Nat
  BY <1>1 DEF LaidOut, Laid
<1> HIDE DEF s
<1>3. /\ k \in 1..Len(s) /\ k - 1 \in 0..Len(s) /\ k - 1 # Len(s)
      /\ (k - 1) + 1 = k /\ k \in 0..Len(s) /\ k # 0
  <2>1. k \in 1..Len(s)
    BY DEF s
  <2> QED BY <1>2, <2>1
<1>4. c \in Cell /\ next[c] = current /\ current # NULL
  <2>1. Around(next, prev, owner, l, s, k - 1)
    BY <1>1, <1>3, Follows, Zenon DEF LaidOut
  <2> QED BY <1>3, <2>1 DEF Around, s
<1>5. prev[current] = c
  <2>1. Around(next, prev, owner, l, s, k)
    BY <1>1, <1>3, Follows, Zenon DEF LaidOut
  <2> QED BY <1>3, <2>1 DEF Around, s
<1> HIDE DEF c
<1>6. AddBehind(l, c, e)
  <2>1. e # current
    <3>1. current \in Range(s)
      BY <1>2, <1>3 DEF Range, s
    <3>2. owner[current] = l
      BY <1>1, <3>1 DEF LaidOut, Laid
    <3> QED BY <3>2, ListAssumption DEF ns_list_add_before, Detached, Cell
  <2>2. prev' = [[prev EXCEPT ![e] = c] EXCEPT ![current] = e]
    BY <1>5 DEF ns_list_add_before
  <2>3. next' = [next EXCEPT ![e] = current, ![c] = e]
    BY <1>5 DEF ns_list_add_before
  <2> QED BY <1>4, <2>2, <2>3 DEF ns_list_add_before, AddBehind, PrecededBy
<1>7. LinkInv' /\ Gives(l, InsertAt(s, (k - 1) + 1, e))
  BY <1>3, <1>6, AddBehindStep DEF s, c
<1> QED BY <1>3, <1>7 DEF s

\* ns_list_add_to_end adds behind the last cell.
LEMMA AddToEndStep ==
    ASSUME LinkInv, NEW l \in List, NEW e \in Entry, ns_list_add_to_end(l, e)
    PROVE  LinkInv' /\ Gives(l, InsertAt(Contents(l), Len(Contents(l)) + 1, e))
<1> DEFINE s == Contents(l)
           c == CellAt(l, s, Len(s))
<1>1. WellLinked /\ LaidOut(l, s)
  BY WellLinkedIsLaidOut DEF LinkInv
<1>2. s \in Seq(Entry) /\ last_nextptr[l] = c /\ next[c] = NULL
  BY <1>1 DEF LaidOut, Laid, Chained
<1>3. Len(s) \in 0..Len(s)
  BY <1>2
<1> HIDE DEF s, c
<1>4. AddBehind(l, c, e)
  BY <1>2 DEF ns_list_add_to_end, AddBehind, PrecededBy
<1> QED BY <1>3, <1>4, AddBehindStep DEF s, c

\* ns_list_remove takes the entry out of the sequence.
LEMMA RemoveStep ==
    ASSUME LinkInv, NEW l \in List, NEW e \in Entry,
           NEW k \in 1..Len(Contents(l)), Contents(l)[k] = e,
           ns_list_remove(l, e)
    PROVE  LinkInv' /\ Gives(l, RemoveAt(Contents(l), k))
<1>1. TypeOK /\ WellLinked /\ LoopOnList
  BY DEF LinkInv
<1>2. /\ next \in Nexts /\ prev \in Prevs /\ last_nextptr \in Lasts /\ owner \in Owners
      /\ Laid(next, prev, last_nextptr, owner, l, Contents(l))
  BY <1>1, Typed, WellLinkedIsLaidOut DEF LinkTypes, LaidOut
<1>3. TakeOut(next, prev, last_nextptr, owner, l, e,
              next', prev', last_nextptr', owner')
  BY DEF ns_list_remove, PrecededBy, TakeOut
<1>4. Reshaped(next, prev, last_nextptr, owner, next', prev', last_nextptr', owner',
               l, RemoveAt(Contents(l), k))
  BY <1>2, <1>3, LaidRemove, Zenon
<1>5. Gives(l, RemoveAt(Contents(l), k))
  BY <1>1, <1>4, ReshapedGives, Zenon
<1>6. /\ loop' = loop /\ stayed' = stayed \ {e} /\ visited' = visited
      /\ owner' = [owner EXCEPT ![e] = NULL] /\ Needed \notin {e}
  BY DEF ns_list_remove, Forgets, Leaves
<1>7. LoopOnList'
  <2>1. \A x \in Entry : x \notin {e} /\ owner[x] # NULL => owner'[x] = owner[x]
    BY <1>2, <1>6 DEF Owners
  <2> QED BY <1>1, <1>6, <2>1, LoopKept
<1>8. LinkInv'
  BY <1>1, <1>5, <1>6, <1>7, StepInv DEF Gives
<1> QED BY <1>5, <1>8

\* ns_list_replace exchanges one entry of the sequence.
LEMMA ReplaceStep ==
    ASSUME LinkInv, NEW l \in List, NEW e \in Entry, NEW current \in Entry,
           NEW k \in 1..Len(Contents(l)), Contents(l)[k] = current,
           ns_list_replace(l, current, e)
    PROVE  LinkInv' /\ Gives(l, ReplaceAt(Contents(l), k, e))
<1>1. TypeOK /\ WellLinked /\ LoopOnList /\ owner[e] = NULL
  BY DEF LinkInv, ns_list_replace, Detached
<1>2. /\ next \in Nexts /\ prev \in Prevs /\ last_nextptr \in Lasts /\ owner \in Owners
      /\ Laid(next, prev, last_nextptr, owner, l, Contents(l))
  BY <1>1, Typed, WellLinkedIsLaidOut DEF LinkTypes, LaidOut
<1>3. TakeOver(next, prev, last_nextptr, owner, l, current, e,
               next', prev', last_nextptr', owner')
  BY DEF ns_list_replace, PrecededBy, TakeOver
<1>4. Reshaped(next, prev, last_nextptr, owner, next', prev', last_nextptr', owner',
               l, ReplaceAt(Contents(l), k, e))
  BY <1>1, <1>2, <1>3, LaidReplace, Zenon
<1>5. Gives(l, ReplaceAt(Contents(l), k, e))
  BY <1>1, <1>4, ReshapedGives, Zenon
<1>6. /\ loop' = loop /\ stayed' = stayed \ {current} /\ visited' = visited
      /\ owner' = [owner EXCEPT ![e] = l, ![current] = NULL]
      /\ Needed \notin {current}
  BY DEF ns_list_replace, Forgets, Leaves
<1>7. LoopOnList'
  <2>1. \A x \in Entry : x \notin {current} /\ owner[x] # NULL => owner'[x] = owner[x]
    BY <1>1, <1>2, <1>6 DEF Owners
  <2> QED BY <1>1, <1>6, <2>1, LoopKept
<1>8. LinkInv'
  BY <1>1, <1>5, <1>6, <1>7, StepInv DEF Gives
<1> QED BY <1>5, <1>8

\* ns_list_init forgets the sequence.
LEMMA InitStep ==
    ASSUME LinkInv, NEW l \in List, ns_list_init(l)
    PROVE  LinkInv' /\ Gives(l, << >>)
<1>1. TypeOK /\ WellLinked /\ LoopOnList
  BY DEF LinkInv
<1>2. /\ next \in Nexts /\ prev \in Prevs /\ last_nextptr \in Lasts /\ owner \in Owners
  BY <1>1, Typed DEF LinkTypes
<1>3. /\ next' = [next EXCEPT ![l] = NULL] /\ prev' = prev
      /\ last_nextptr' = [last_nextptr EXCEPT ![l] = l]
      /\ owner' = [x \in Entry |-> IF owner[x] = l THEN NULL ELSE owner[x]]
  BY DEF ns_list_init
<1>4. Reshaped(next, prev, last_nextptr, owner, next', prev', last_nextptr', owner',
               l, << >>)
  <2>1. Reshaped(next, prev, last_nextptr, owner, next', prev, last_nextptr', owner',
                 l, << >>)
    BY <1>2, <1>3, LaidClear
  <2> QED BY <1>3, <2>1
<1>5. Gives(l, << >>)
  BY <1>1, <1>4, ReshapedGives, Zenon
<1>6. /\ loop' = loop /\ stayed' = stayed \ On(l) /\ visited' = visited
      /\ Needed \notin On(l)
  BY DEF ns_list_init, Forgets, Leaves
<1>7. LoopOnList'
  <2>1. \A x \in Entry : x \notin On(l) /\ owner[x] # NULL => owner'[x] = owner[x]
    BY <1>3 DEF On
  <2> QED BY <1>1, <1>6, <2>1, LoopKept
<1>8. LinkInv'
  BY <1>1, <1>5, <1>6, <1>7, StepInv DEF Gives
<1> QED BY <1>5, <1>8

\* All lists have what they had.
GivesSame == LinkTypes' /\ WellLinked' /\ \A m \in List : Contents(m)' = Contents(m)

\* A step that touches no list leaves all of them.
LEMMA UntouchedGives ==
    ASSUME WellLinked, LinkTypes',
           \A m \in List : Untouched(next, prev, last_nextptr, owner, m,
                                     next', prev', last_nextptr', owner')
    PROVE  GivesSame
<1>1. ASSUME NEW m \in List
      PROVE  Contents(m)' = Contents(m) /\ Spells(m, Contents(m))'
  <2>1. PICK u : u = Contents(m)
    OBVIOUS
  <2>2. LaidOut(m, u)
    BY <2>1, WellLinkedIsLaidOut
  <2>3. LaidOut(m, u)'
    BY <2>2, LaidFrame, Zenon DEF LaidOut
  <2>4. Contents(m)' = u /\ Spells(m, u)'
    BY <2>3, ReadsNext DEF ReadsRight
  <2> QED BY <2>1, <2>4 DEF Spells, On
<1> QED BY <1>1 DEF WellLinked, GivesSame

\* ns_list_link_init writes to a detached entry only.
LEMMA LinkInitStep ==
    ASSUME LinkInv, NEW e \in Entry, ns_list_link_init(e)
    PROVE  LinkInv' /\ GivesSame
<1>1. TypeOK /\ WellLinked /\ LoopOnList /\ LinkTypes
  BY Typed DEF LinkInv
<1>2. /\ owner[e] = NULL
      /\ next' = [next EXCEPT ![e] = NS_LIST_POISON]
      /\ prev' = [prev EXCEPT ![e] = NS_LIST_POISON]
      /\ last_nextptr' = last_nextptr /\ owner' = owner
      /\ loop' = loop /\ visited' = visited /\ stayed' = stayed
  BY DEF ns_list_link_init, Detached, iteration
<1>3. LinkTypes'
  <2>1. next' \in Nexts
    BY <1>1, <1>2 DEF LinkTypes, Nexts
  <2>2. prev' \in Prevs
    BY <1>1, <1>2 DEF LinkTypes, Prevs
  <2> QED BY <1>1, <1>2, <2>1, <2>2 DEF LinkTypes
<1>4. ASSUME NEW m \in List
      PROVE  Untouched(next, prev, last_nextptr, owner, m,
                       next', prev', last_nextptr', owner')
  <2>1. m # NULL /\ m # e /\ m \in Cell
    BY ListAssumption DEF Cell
  <2>2. next'[m] = next[m]
    BY <1>1, <1>2, <2>1 DEF LinkTypes, Nexts
  <2>3. \A x \in Entry : owner[x] = m => next'[x] = next[x] /\ prev'[x] = prev[x]
    <3>1. \A x \in Entry : x \in Cell
      BY DEF Cell
    <3> QED BY <1>1, <1>2, <2>1, <3>1 DEF LinkTypes, Nexts, Prevs
  <2> QED BY <1>2, <2>2, <2>3 DEF Untouched
<1>5. GivesSame
  BY <1>1, <1>3, <1>4, UntouchedGives
<1>6. LoopOnList'
  BY <1>1, <1>2 DEF LoopOnList, Needed, On
<1>7. stayed' = stayed \ {}
  BY <1>2
<1>8. LinkInv'
  BY <1>1, <1>2, <1>5, <1>6, <1>7, StepInv DEF GivesSame
<1> QED BY <1>5, <1>8

\* After the step, the entries of list r follow those of list d.
GivesJoined(d, r) ==
    /\ LinkTypes' /\ WellLinked'
    /\ Contents(d)' = Contents(d) \o Contents(r)
    /\ Contents(r)' = << >>
    /\ \A m \in List : m # d /\ m # r => Contents(m)' = Contents(m)

\* Splicing a list that is not empty is such a step.
LEMMA ReshapedTwoGives ==
    ASSUME WellLinked, NEW d \in List, NEW r \in List, NEW t,
           t = Contents(d) \o Contents(r),
           ReshapedTwo(next, prev, last_nextptr, owner,
                       next', prev', last_nextptr', owner', d, t, r)
    PROVE  GivesJoined(d, r)
<1>1. LinkTypes' /\ LaidOut(d, t)' /\ LaidOut(r, << >>)'
  BY DEF ReshapedTwo, LinkTypes, LaidOut
<1>2. Contents(d)' = t /\ Spells(d, t)' /\ Contents(r)' = << >> /\ Spells(r, << >>)'
  BY <1>1, ReadsNext DEF ReadsRight
<1>3. ASSUME NEW m \in List, m # d, m # r
      PROVE  Contents(m)' = Contents(m) /\ Spells(m, Contents(m))'
  <2>1. PICK u : u = Contents(m)
    OBVIOUS
  <2>2. LaidOut(m, u)
    BY <2>1, WellLinkedIsLaidOut
  <2>3. LaidOut(m, u)'
    BY <1>3, <2>2 DEF ReshapedTwo, LaidOut
  <2>4. Contents(m)' = u /\ Spells(m, u)'
    BY <2>3, ReadsNext DEF ReadsRight
  <2> QED BY <2>1, <2>4 DEF Spells, On
<1>4. Spells(d, Contents(d))' /\ Spells(r, Contents(r))'
  BY <1>2 DEF Spells, On
<1>5. WellLinked'
  BY <1>3, <1>4 DEF WellLinked
<1> QED BY <1>1, <1>2, <1>3, <1>5 DEF GivesJoined

\* ns_list_concatenate appends one sequence to the other and empties it.
LEMMA ConcatenateStep ==
    ASSUME LinkInv, NEW dst \in List, NEW src \in List, ns_list_concatenate(dst, src)
    PROVE  LinkInv' /\ GivesJoined(dst, src)
<1>1. TypeOK /\ WellLinked /\ LoopOnList /\ dst # src
  BY DEF LinkInv, ns_list_concatenate
<1>2. /\ next \in Nexts /\ prev \in Prevs /\ last_nextptr \in Lasts /\ owner \in Owners
      /\ LaidOut(dst, Contents(dst)) /\ LaidOut(src, Contents(src))
  BY <1>1, Typed, WellLinkedIsLaidOut DEF LinkTypes
<1>3. owner' = [x \in Entry |-> IF owner[x] = src THEN dst ELSE owner[x]]
  BY DEF ns_list_concatenate
<1>4. GivesJoined(dst, src)
  <2>1. CASE next[src] = NULL
    <3>1. next' = next /\ prev' = prev /\ last_nextptr' = last_nextptr
      BY <2>1 DEF ns_list_concatenate, ns_list_is_empty, links
    <3>2. Contents(src) = << >>
      <4> DEFINE s == Contents(src)
      <4>1. s \in Seq(Entry) /\ Chained(next, prev, src, s)
        BY <1>2 DEF LaidOut, Laid
      <4> HIDE DEF s
      <4>2. ASSUME Len(s) # 0 PROVE FALSE
        <5>1. 1 \in 1..Len(s) /\ 1 - 1 = 0 /\ s[1] \in Entry
          BY <4>1, <4>2
        <5>2. next[CellAt(src, s, 0)] = s[1]
          BY <4>1, <5>1 DEF Chained
        <5> QED BY <2>1, <5>1, <5>2, ListAssumption DEF CellAt, Cell
      <4> QED BY <4>1, <4>2 DEF s
    <3>3. \A x \in Entry : owner[x] # src
      <4>1. Range(<< >>) = {}
        BY DEF Range
      <4> QED BY <1>2, <3>2, <4>1 DEF LaidOut, Laid
    <3>4. owner' = owner
      <4>1. owner = [x \in Entry |-> owner[x]]
        BY <1>2 DEF Owners
      <4> QED BY <1>3, <3>3, <4>1
    <3>5. GivesSame
      <4>1. \A m \in List : Untouched(next, prev, last_nextptr, owner, m,
                                      next', prev', last_nextptr', owner')
        BY <3>1, <3>4 DEF Untouched
      <4> QED BY <1>1, <1>2, <3>1, <3>4, <4>1, UntouchedGives DEF LinkTypes
    <3>6. Contents(dst) \o << >> = Contents(dst)
      <4>1. Contents(dst) \in Seq(Entry)
        BY <1>2 DEF LaidOut, Laid
      <4> QED BY <4>1
    <3> QED BY <3>2, <3>5, <3>6 DEF GivesSame, GivesJoined
  <2>2. CASE next[src] # NULL
    <3>1. Splices(next, prev, last_nextptr, owner, dst, src,
                  next', prev', last_nextptr', owner')
      BY <1>3, <2>2 DEF ns_list_concatenate, ns_list_is_empty, Splice, Splices
    <3>2. ReshapedTwo(next, prev, last_nextptr, owner,
                      next', prev', last_nextptr', owner',
                      dst, Contents(dst) \o Contents(src), src)
      BY <1>1, <1>2, <2>2, <3>1, LaidJoin, Zenon DEF LaidOut
    <3> QED BY <1>1, <3>2, ReshapedTwoGives, Zenon
  <2> QED BY <2>1, <2>2
<1>5. /\ loop' = loop /\ stayed' = stayed \ On(src) /\ visited' = visited
      /\ Needed \notin On(src)
  BY DEF ns_list_concatenate, Forgets, Leaves
<1>6. LoopOnList'
  <2>1. \A x \in Entry : x \notin On(src) /\ owner[x] # NULL => owner'[x] = owner[x]
    BY <1>3 DEF On
  <2> QED BY <1>1, <1>5, <2>1, LoopKept
<1>7. LinkInv'
  BY <1>1, <1>4, <1>5, <1>6, StepInv DEF GivesJoined
<1> QED BY <1>4, <1>7

-----------------------------------------------------------------------------
(* The loops *)

\* Where a loop begins, and where it gets from an entry of its list, is on
\* the list or NULL.
LEMMA Navigation ==
    ASSUME TypeOK, WellLinked, NEW l \in List
    PROVE  /\ ns_list_get_first(l) \in On(l) \cup {NULL}
           /\ ns_list_get_last(l) \in On(l) \cup {NULL}
           /\ \A e \in On(l), kind \in Loops : Step(kind, l, e) \in On(l) \cup {NULL}
<1> DEFINE s == Contents(l)
           m == Len(s)
<1>1. Laid(next, prev, last_nextptr, owner, l, s) /\ s \in Seq(Entry) /\ m \in Nat
  BY WellLinkedIsLaidOut DEF LaidOut, Laid
<1>2. last_nextptr[l] = CellAt(l, s, m)
  BY <1>1 DEF Laid
<1>3. \A e \in On(l) : \E k \in 1..m : s[k] = e
  BY PositionOf
<1> HIDE DEF s
<1>4. \A k \in 0..m : Around(next, prev, owner, l, s, k)
  BY <1>1, Follows, Zenon DEF m
<1> HIDE DEF m
<1>5. \A k \in 1..m : s[k] \in On(l) /\ prev[s[k]] = CellAt(l, s, k - 1)
  <2> SUFFICES ASSUME NEW k \in 1..m
               PROVE  s[k] \in On(l) /\ prev[s[k]] = CellAt(l, s, k - 1)
    OBVIOUS
  <2>1. k \in 0..m /\ k # 0
    BY <1>1
  <2>2. Around(next, prev, owner, l, s, k)
    BY <1>4, <2>1
  <2> QED BY <2>1, <2>2 DEF Around, On
<1>6. \A k \in 0..m : next[CellAt(l, s, k)] \in On(l) \cup {NULL}
  <2> SUFFICES ASSUME NEW k \in 0..m PROVE next[CellAt(l, s, k)] \in On(l) \cup {NULL}
    OBVIOUS
  <2>1. Around(next, prev, owner, l, s, k)
    BY <1>4
  <2> QED BY <2>1 DEF Around, On
<1>7. CellAt(l, s, 0) = l /\ 0 \in 0..m /\ m \in 0..m
  BY <1>1 DEF CellAt
<1>8. \A k \in 1..m : CellAt(l, s, k) = s[k] /\ k \in 0..m
  BY <1>1 DEF CellAt
<1>9. ns_list_get_first(l) \in On(l) \cup {NULL}
  BY <1>6, <1>7 DEF ns_list_get_first
<1>10. ns_list_get_last(l) \in On(l) \cup {NULL}
  <2>1. CASE m = 0
    <3>1. Around(next, prev, owner, l, s, 0)
      BY <1>4, <1>7
    <3>2. next[l] = NULL
      BY <1>7, <2>1, <3>1 DEF Around, m
    <3> QED BY <3>2 DEF ns_list_get_last
  <2>2. CASE m # 0
    <3>1. m \in 1..m
      BY <1>1, <2>2
    <3>2. last_nextptr[l] \in On(l)
      BY <1>2, <1>5, <1>8, <3>1
    <3> QED BY <3>2 DEF ns_list_get_last
  <2> QED BY <2>1, <2>2
<1>11. ASSUME NEW e \in On(l), NEW kind \in Loops
       PROVE  Step(kind, l, e) \in On(l) \cup {NULL}
  <2>1. PICK k \in 1..m : s[k] = e
    BY <1>3
  <2>2. ns_list_get_next(e) \in On(l) \cup {NULL}
    BY <1>6, <1>8, <2>1 DEF ns_list_get_next
  <2>3. ns_list_get_previous(l, e) \in On(l) \cup {NULL}
    <3>1. CASE k = 1
      <4>1. Around(next, prev, owner, l, s, 0) /\ 0 # m
        BY <1>1, <1>4, <1>7, <3>1
      <4>2. next[l] = s[1]
        BY <1>7, <4>1 DEF Around, m
      <4> QED BY <2>1, <3>1, <4>2 DEF ns_list_get_previous
    <3>2. CASE k # 1
      <4>1. k - 1 \in 1..m
        BY <1>1, <3>2
      <4>2. prev[e] \in On(l)
        BY <1>5, <1>8, <2>1, <4>1
      <4> QED BY <4>2 DEF ns_list_get_previous
    <3> QED BY <3>1, <3>2
  <2> QED BY <2>2, <2>3 DEF Step
<1> QED BY <1>9, <1>10, <1>11

\* A loop that has come to an entry of its list, or to NULL, may go on.
LEMMA ComeToStep ==
    ASSUME LinkInv, NEW l \in List, NEW kind \in Loops,
           NEW e, e \in On(l) \cup {NULL},
           ComeTo(kind, l, e), UNCHANGED <<links, owner>>,
           stayed' \subseteq On(l), visited' \in Seq(Entry)
    PROVE  LinkInv' /\ GivesSame
<1>1. TypeOK /\ WellLinked /\ LinkTypes
  BY Typed DEF LinkInv
<1>2. /\ next' = next /\ prev' = prev /\ last_nextptr' = last_nextptr
      /\ owner' = owner
  BY DEF links
<1>3. GivesSame
  <2>1. \A m \in List : Untouched(next, prev, last_nextptr, owner, m,
                                  next', prev', last_nextptr', owner')
    BY <1>2 DEF Untouched
  <2>2. LinkTypes'
    BY <1>1, <1>2 DEF LinkTypes
  <2> QED BY <1>1, <2>1, <2>2, UntouchedGives
<1>4. On(l) \subseteq Entry /\ On(l)' = On(l)
  BY <1>2 DEF On
<1>5. PICK w \in On(l) \cup {NULL} :
          loop' = [kind |-> kind, list |-> l, e |-> e, saved |-> w]
  <2>1. CASE kind \in Safe /\ e # NULL
    <3>1. Step(kind, l, e) \in On(l) \cup {NULL}
      BY <1>1, <2>1, Navigation
    <3> QED BY <2>1, <3>1 DEF ComeTo
  <2>2. CASE ~(kind \in Safe /\ e # NULL)
    BY <2>2 DEF ComeTo
  <2> QED BY <2>1, <2>2
<1>6. /\ loop'.kind = kind /\ loop'.list = l /\ loop'.e = e /\ loop'.saved = w
  BY <1>5
<1>7. TypeOK'
  <2>1. loop' \in [kind : Loops \cup {"none"}, list : List \cup {NULL},
                   e : Entry \cup {NULL}, saved : Entry \cup {NULL}]
    BY <1>4, <1>5
  <2> QED BY <1>1, <1>2, <1>4, <2>1 DEF TypeOK
<1>8. LoopOnList'
  <2>1. kind # "none"
    BY DEF Loops
  <2>2. Needed' \in On(l)' \cup {NULL}
    BY <1>4, <1>6 DEF Needed
  <2> QED BY <1>4, <1>6, <2>1, <2>2 DEF LoopOnList
<1> QED BY <1>3, <1>7, <1>8 DEF LinkInv, GivesSame

\* A loop comes to the end of the list it starts at.
LEMMA LoopBeginsStep ==
    ASSUME LinkInv, NEW kind \in Loops, NEW l \in List, LoopBegins(kind, l)
    PROVE  LinkInv' /\ GivesSame
<1>1. PICK e : e = IF kind \in Forward THEN ns_list_get_first(l) ELSE ns_list_get_last(l)
  OBVIOUS
<1>2. /\ ComeTo(kind, l, e) /\ stayed' = On(l)
      /\ visited' = (IF e = NULL THEN << >> ELSE <<e>>)
      /\ UNCHANGED <<links, owner>>
  BY <1>1 DEF LoopBegins
<1>3. e \in On(l) \cup {NULL}
  BY <1>1, Navigation DEF LinkInv
<1>4. visited' \in Seq(Entry)
  BY <1>2, <1>3 DEF On
<1> QED BY <1>2, <1>3, <1>4, ComeToStep

\* A loop goes on to a neighbour, or to the entry it saved.
LEMMA LoopGoesOnStep ==
    ASSUME LinkInv, LoopGoesOn
    PROVE  LinkInv' /\ GivesSame
<1>1. PICK e : e = Following(loop)
  OBVIOUS
<1>2. /\ loop.e # NULL /\ ComeTo(loop.kind, loop.list, e)
      /\ visited' = (IF e \in stayed THEN Append(visited, e) ELSE visited)
      /\ UNCHANGED <<links, owner>> /\ stayed' = stayed
  BY <1>1 DEF LoopGoesOn
<1>3. loop.kind # "none"
  BY <1>2 DEF LinkInv, LoopOnList, NoLoop
<1>4. /\ loop.list \in List /\ stayed \subseteq On(loop.list)
      /\ Needed \in On(loop.list) \cup {NULL}
  BY <1>3 DEF LinkInv, LoopOnList
<1>5. loop.kind \in Loops
  BY <1>3 DEF LinkInv, TypeOK
<1>6. e \in On(loop.list) \cup {NULL}
  <2>1. CASE loop.kind \in Safe
    BY <1>1, <1>4, <2>1 DEF Following, Needed
  <2>2. CASE loop.kind \notin Safe
    <3>1. loop.e \in On(loop.list)
      BY <1>2, <1>4, <2>2 DEF Needed
    <3> QED BY <1>1, <1>4, <1>5, <2>2, <3>1, Navigation DEF Following, LinkInv
  <2> QED BY <2>1, <2>2
<1>7. visited' \in Seq(Entry)
  <2>1. visited \in Seq(Entry) /\ stayed \subseteq Entry
    BY DEF LinkInv, TypeOK
  <2> QED BY <1>2, <2>1
<1> QED BY <1>2, <1>4, <1>5, <1>6, <1>7, ComeToStep

\* A loop that is done leaves the lists alone.
LEMMA LoopEndsStep ==
    ASSUME LinkInv, LoopEnds
    PROVE  LinkInv' /\ GivesSame
<1>1. TypeOK /\ WellLinked /\ LinkTypes
  BY Typed DEF LinkInv
<1>2. /\ next' = next /\ prev' = prev /\ last_nextptr' = last_nextptr
      /\ owner' = owner
      /\ loop' = NoLoop /\ stayed' = {} /\ visited' = << >>
  BY DEF LoopEnds, links
<1>3. GivesSame
  <2>1. \A m \in List : Untouched(next, prev, last_nextptr, owner, m,
                                  next', prev', last_nextptr', owner')
    BY <1>2 DEF Untouched
  <2>2. LinkTypes'
    BY <1>1, <1>2 DEF LinkTypes
  <2> QED BY <1>1, <2>1, <2>2, UntouchedGives
<1>4. TypeOK'
  <2>1. visited' \in Seq(Entry) /\ stayed' \subseteq Entry
    BY <1>2
  <2>2. loop' \in [kind : Loops \cup {"none"}, list : List \cup {NULL},
                   e : Entry \cup {NULL}, saved : Entry \cup {NULL}]
    BY <1>2 DEF NoLoop
  <2> QED BY <1>1, <1>2, <2>1, <2>2 DEF TypeOK
<1>5. LoopOnList'
  BY <1>2 DEF LoopOnList, NoLoop
<1> QED BY <1>3, <1>4, <1>5 DEF LinkInv, GivesSame

-----------------------------------------------------------------------------
(* Invariance *)

\* In the initial state every list is empty.
LEMMA InitContents ==
    ASSUME Init
    PROVE  LinkInv /\ \A l \in List : Contents(l) = << >>
<1>1. ASSUME NEW l \in List PROVE LaidOut(l, << >>)
  <2>1. /\ << >> \in Seq(Entry) /\ Len(<< >>) = 0 /\ 1..0 = {} /\ DOMAIN << >> = {}
    OBVIOUS
  <2>2. IsInjective(<< >>) /\ Range(<< >>) = {}
    BY <2>1 DEF IsInjective, Range
  <2>3. CellAt(l, << >>, Len(<< >>)) = l
    BY <2>1 DEF CellAt
  <2>4. next[l] = NULL /\ last_nextptr[l] = l
    BY DEF Init, Cell
  <2>5. {e \in Entry : owner[e] = l} = {}
    BY ListAssumption DEF Init, Cell
  <2>6. Chained(next, prev, l, << >>)
    BY <2>1, <2>3, <2>4 DEF Chained
  <2> QED BY <2>1, <2>2, <2>3, <2>4, <2>5, <2>6 DEF LaidOut, Laid
<1>2. \A l \in List : Contents(l) = << >> /\ Spells(l, << >>)
  BY <1>1, Reads DEF ReadsRight
<1>3. WellLinked
  BY <1>2 DEF WellLinked
<1>4. TypeOK
  <2>1. next \in [Cell -> Entry \cup {NULL, NS_LIST_POISON}]
    BY DEF Init
  <2>2. last_nextptr \in [List -> Cell]
    BY DEF Init, Cell
  <2>3. loop \in [kind : Loops \cup {"none"}, list : List \cup {NULL},
                  e : Entry \cup {NULL}, saved : Entry \cup {NULL}]
    BY DEF Init, NoLoop
  <2> QED BY <2>1, <2>2, <2>3 DEF Init, TypeOK
<1>5. LoopOnList
  BY DEF Init, LoopOnList, NoLoop
<1> QED BY <1>2, <1>3, <1>4, <1>5 DEF LinkInv

\* Every step keeps the invariant.
LEMMA NextInv ==
    ASSUME LinkInv, [Next]_vars
    PROVE  LinkInv'
<1>1. ASSUME NEW l \in List, ns_list_init(l) PROVE LinkInv'
  BY <1>1, InitStep
<1>2. ASSUME NEW e \in Entry, ns_list_link_init(e) PROVE LinkInv'
  BY <1>2, LinkInitStep
<1>3. ASSUME NEW l \in List, NEW e \in Entry, ns_list_add_to_start(l, e) PROVE LinkInv'
  <2>1. AddBehind(l, l, e) /\ l = CellAt(l, Contents(l), 0)
    BY <1>3 DEF ns_list_add_to_start, CellAt
  <2>2. 0 \in 0..Len(Contents(l))
    <3>1. Contents(l) \in Seq(Entry)
      BY WellLinkedIsLaidOut DEF LinkInv, LaidOut, Laid
    <3> QED BY <3>1
  <2> QED BY <2>1, <2>2, AddBehindStep
<1>4. ASSUME NEW l \in List, NEW e \in Entry, ns_list_add_to_end(l, e) PROVE LinkInv'
  BY <1>4, AddToEndStep
<1>5. ASSUME NEW l \in List, NEW e \in Entry, ns_list_remove(l, e) PROVE LinkInv'
  <2>1. \E k \in 1..Len(Contents(l)) : Contents(l)[k] = e
    BY <1>5, PositionOf DEF ns_list_remove, LinkInv
  <2> QED BY <1>5, <2>1, RemoveStep
<1>6. ASSUME NEW l \in List, NEW e \in Entry, NEW current \in Entry,
             ns_list_add_before(l, current, e)
      PROVE  LinkInv'
  <2>1. \E k \in 1..Len(Contents(l)) : Contents(l)[k] = current
    BY <1>6, PositionOf DEF ns_list_add_before, LinkInv
  <2> QED BY <1>6, <2>1, AddBeforeStep
<1>7. ASSUME NEW l \in List, NEW e \in Entry, NEW current \in Entry,
             ns_list_add_after(l, current, e)
      PROVE  LinkInv'
  <2>1. PICK k \in 1..Len(Contents(l)) : Contents(l)[k] = current
    BY <1>7, PositionOf DEF ns_list_add_after, LinkInv
  <2>2. k \in 0..Len(Contents(l)) /\ current = CellAt(l, Contents(l), k)
    <3>1. Contents(l) \in Seq(Entry)
      BY WellLinkedIsLaidOut DEF LinkInv, LaidOut, Laid
    <3> QED BY <2>1, <3>1 DEF CellAt
  <2> QED BY <1>7, <2>2, AddBehindStep DEF ns_list_add_after
<1>8. ASSUME NEW l \in List, NEW e \in Entry, NEW current \in Entry,
             ns_list_replace(l, current, e)
      PROVE  LinkInv'
  <2>1. \E k \in 1..Len(Contents(l)) : Contents(l)[k] = current
    BY <1>8, PositionOf DEF ns_list_replace, LinkInv
  <2> QED BY <1>8, <2>1, ReplaceStep
<1>9. ASSUME NEW dst \in List, NEW src \in List, ns_list_concatenate(dst, src)
      PROVE  LinkInv'
  BY <1>9, ConcatenateStep
<1>10. ASSUME NEW kind \in Loops, NEW l \in List, LoopBegins(kind, l) PROVE LinkInv'
  BY <1>10, LoopBeginsStep
<1>11. ASSUME LoopGoesOn PROVE LinkInv'
  BY <1>11, LoopGoesOnStep
<1>12. ASSUME LoopEnds PROVE LinkInv'
  BY <1>12, LoopEndsStep
<1>13. ASSUME UNCHANGED vars PROVE LinkInv'
  <2>1. /\ next' = next /\ prev' = prev /\ last_nextptr' = last_nextptr
        /\ owner' = owner /\ loop' = loop /\ stayed' = stayed /\ visited' = visited
    BY <1>13 DEF vars, links, iteration
  <2>2. GivesSame
    <3>1. \A m \in List : Untouched(next, prev, last_nextptr, owner, m,
                                    next', prev', last_nextptr', owner')
      BY <2>1 DEF Untouched
    <3>2. LinkTypes'
      BY <2>1, Typed DEF LinkInv, LinkTypes
    <3> QED BY <3>1, <3>2, UntouchedGives DEF LinkInv
  <2>3. TypeOK' /\ LoopOnList'
    BY <2>1 DEF LinkInv, TypeOK, LoopOnList, Needed, On
  <2> QED BY <2>2, <2>3 DEF LinkInv, GivesSame
<1> QED BY <1>1, <1>2, <1>3, <1>4, <1>5, <1>6, <1>7, <1>8, <1>9, <1>10, <1>11, <1>12,
           <1>13 DEF Next, Operation, Iterate

\* Whatever operations come in whatever order, inside loops and outside, the
\* types, the links of every list and the loop's hold on its list are kept,
\* for every set of lists and every finite set of entries.
THEOREM LinksInvariant == Spec => []LinkInv
<1>1. Init => LinkInv
  BY InitContents
<1>2. LinkInv /\ [Next]_vars => LinkInv'
  BY NextInv
<1> QED BY <1>1, <1>2, PTL DEF Spec

\* No link is ever wild: a link is an entry, a list head, NULL or the poison,
\* and a loop never holds the poison.
THEOREM TypeCorrect == Spec => []TypeOK
<1>1. LinkInv => TypeOK
  BY DEF LinkInv
<1> QED BY <1>1, LinksInvariant, PTL

\* Every list can be walked both ways and holds exactly the entries that were
\* put on it and not taken off.
THEOREM AlwaysWellLinked == Spec => []WellLinked
<1>1. LinkInv => WellLinked
  BY DEF LinkInv
<1> QED BY <1>1, LinksInvariant, PTL

-----------------------------------------------------------------------------
(* Refinement *)

content == [l \in List |-> Contents(l)]

\* What a list holds, as AbstractList sees it.
LEMMA ContentFacts ==
    ASSUME LinkInv, NEW l \in List
    PROVE  /\ content[l] = Contents(l) /\ content[l] \in Seq(Entry)
           /\ DOMAIN content[l] = 1..Len(Contents(l))
           /\ Range(content[l]) = On(l) /\ IsInjective(content[l])
<1>1. LaidOut(l, Contents(l))
  BY WellLinkedIsLaidOut DEF LinkInv
<1>2. Contents(l) \in Seq(Entry) /\ IsInjective(Contents(l)) /\ Range(Contents(l)) = On(l)
  BY <1>1 DEF LaidOut, Laid, On
<1>3. content[l] = Contents(l)
  BY DEF content
<1> QED BY <1>2, <1>3

\* One list changed.
LEMMA ContentBecomes ==
    ASSUME NEW l \in List, NEW t, Gives(l, t)
    PROVE  Abstract!Becomes(l, t)
<1>1. content' = [content EXCEPT ![l] = t]
  BY DEF content, Gives
<1> QED BY <1>1 DEF content, Abstract!Becomes

\* A detached entry is on no list.
LEMMA DetachedOnNone ==
    ASSUME LinkInv, NEW e \in Entry, e \in Detached
    PROVE  Abstract!Detached(e)
<1>1. ASSUME NEW l \in List PROVE e \notin Range(content[l])
  BY ContentFacts, ListAssumption DEF On, Detached, Cell
<1> QED BY <1>1 DEF Abstract!Detached, Abstract!Range, Range, content

\* The position AbstractList chooses for an entry is the only one.
LEMMA PositionIs ==
    ASSUME LinkInv, NEW l \in List, NEW k \in 1..Len(Contents(l)), NEW e,
           Contents(l)[k] = e
    PROVE  /\ Abstract!Position(l, e) = k
           /\ e \in Abstract!Range(content[l])
<1>1. /\ DOMAIN content[l] = 1..Len(Contents(l)) /\ content[l][k] = e
      /\ IsInjective(content[l])
  BY ContentFacts
<1>2. \A i \in DOMAIN content[l] : content[l][i] = e => i = k
  BY <1>1 DEF IsInjective
<1>3. (CHOOSE i \in DOMAIN content[l] : content[l][i] = e) = k
  BY <1>1, <1>2
<1>4. Abstract!Position(l, e) = CHOOSE i \in DOMAIN content[l] : content[l][i] = e
  BY DEF Abstract!Position, content
<1>5. e \in Abstract!Range(content[l])
  BY <1>1 DEF Abstract!Range
<1> QED BY <1>3, <1>4, <1>5

\* AbstractList edits sequences with the same operators.
LEMMA SameEdits ==
    /\ \A s, i, e : Abstract!InsertAt(s, i, e) = InsertAt(s, i, e)
    /\ \A s, i : Abstract!RemoveAt(s, i) = RemoveAt(s, i)
    /\ \A s, i, e : Abstract!ReplaceAt(s, i, e) = ReplaceAt(s, i, e)
BY DEF InsertAt, Abstract!InsertAt, RemoveAt, Abstract!RemoveAt,
       ReplaceAt, Abstract!ReplaceAt

\* The operation that both modules note.
LEMMA SameDid ==
    ASSUME NEW name, NEW l, NEW at, NEW e, Did(name, l, at, e)
    PROVE  Abstract!Did(name, l, at, e)
BY DEF Did, Abstract!Did

\* An entry that joins next to the entry at, in the terms of AbstractList.
LEMMA AddsNextTo ==
    ASSUME LinkInv, NEW l \in List, NEW e \in Entry, e \in Detached,
           NEW at \in Entry, NEW k \in 1..Len(Contents(l)), Contents(l)[k] = at,
           \/ /\ Did("add_before", l, at, e)
              /\ Gives(l, InsertAt(Contents(l), k, e))
           \/ /\ Did("add_after", l, at, e)
              /\ Gives(l, InsertAt(Contents(l), k + 1, e))
           \/ /\ Did("replace", l, at, e)
              /\ Gives(l, ReplaceAt(Contents(l), k, e))
    PROVE  Abstract!AddAt(l, at, e)
<1>1. Abstract!Position(l, at) = k /\ at \in Abstract!Range(content[l])
  BY PositionIs
<1>2. Abstract!Fits(l, at, e)
  BY <1>1, DetachedOnNone DEF Abstract!Fits, content
<1>3. content[l] = Contents(l)
  BY ContentFacts
<1>4. \/ /\ Abstract!Did("add_before", l, at, e)
         /\ Abstract!Becomes(l, Abstract!InsertAt(content[l], k, e))
      \/ /\ Abstract!Did("add_after", l, at, e)
         /\ Abstract!Becomes(l, Abstract!InsertAt(content[l], k + 1, e))
      \/ /\ Abstract!Did("replace", l, at, e)
         /\ Abstract!Becomes(l, Abstract!ReplaceAt(content[l], k, e))
  <2>1. CASE Did("add_before", l, at, e) /\ Gives(l, InsertAt(Contents(l), k, e))
    BY <1>3, <2>1, SameDid, SameEdits, ContentBecomes
  <2>2. CASE Did("add_after", l, at, e) /\ Gives(l, InsertAt(Contents(l), k + 1, e))
    BY <1>3, <2>2, SameDid, SameEdits, ContentBecomes
  <2>3. CASE Did("replace", l, at, e) /\ Gives(l, ReplaceAt(Contents(l), k, e))
    BY <1>3, <2>3, SameDid, SameEdits, ContentBecomes
  <2> QED BY <2>1, <2>2, <2>3
<1> QED BY <1>1, <1>2, <1>4 DEF Abstract!AddAt, content

\* Steps that leave every list, and the operation noted, leave AbstractList.
LEMMA SameIsStutter ==
    ASSUME GivesSame, op' = op
    PROVE  UNCHANGED Abstract!listVars
<1>1. content' = content
  BY DEF content, GivesSame
<1> QED BY <1>1 DEF content, Abstract!listVars

\* Every step of the linked lists is a step of AbstractList or leaves it.
LEMMA NextRefines ==
    ASSUME LinkInv, [Next]_vars
    PROVE  [Abstract!ListNext]_(Abstract!listVars)
<1> SUFFICES \/ \E l \in List : Abstract!Clear(l)
             \/ \E l \in List, e \in Entry :
                   \/ Abstract!Add(l, e)
                   \/ \E at \in Entry : Abstract!AddAt(l, at, e)
                   \/ Abstract!Drop(l, e)
             \/ \E dst, src \in List : Abstract!Concatenate(dst, src)
             \/ UNCHANGED Abstract!listVars
  BY DEF Abstract!ListNext
<1>1. ASSUME NEW l \in List, ns_list_init(l) PROVE Abstract!Clear(l)
  <2>1. Gives(l, << >>) /\ Did("init", l, NULL, NULL)
    BY <1>1, InitStep DEF ns_list_init
  <2> QED BY <2>1, SameDid, ContentBecomes DEF Abstract!Clear
<1>2. ASSUME NEW e \in Entry, ns_list_link_init(e) PROVE UNCHANGED Abstract!listVars
  BY <1>2, LinkInitStep, SameIsStutter DEF ns_list_link_init
<1>3. ASSUME NEW l \in List, NEW e \in Entry, ns_list_add_to_start(l, e)
      PROVE  Abstract!Add(l, e)
  <2>1. AddBehind(l, l, e) /\ l = CellAt(l, Contents(l), 0) /\ e \in Detached
    BY <1>3 DEF ns_list_add_to_start, AddBehind, CellAt
  <2>2. Contents(l) \in Seq(Entry) /\ content[l] = Contents(l)
    BY ContentFacts
  <2>3. 0 \in 0..Len(Contents(l)) /\ 0 + 1 = 1
    BY <2>2
  <2>4. Gives(l, InsertAt(Contents(l), 0 + 1, e))
    BY <2>1, <2>3, AddBehindStep
  <2>5. InsertAt(Contents(l), 0 + 1, e) = <<e>> \o content[l]
    BY <2>2, <2>3, InsertAtEnds
  <2>6. Abstract!Becomes(l, <<e>> \o content[l])
    BY <2>4, <2>5, ContentBecomes
  <2>7. Abstract!Did("add_to_start", l, NULL, e) /\ Abstract!Detached(e)
    BY <1>3, <2>1, SameDid, DetachedOnNone DEF ns_list_add_to_start
  <2> QED BY <2>6, <2>7 DEF Abstract!Add, content
<1>4. ASSUME NEW l \in List, NEW e \in Entry, ns_list_add_to_end(l, e)
      PROVE  Abstract!Add(l, e)
  <2>1. Contents(l) \in Seq(Entry) /\ content[l] = Contents(l)
    BY ContentFacts
  <2>2. Gives(l, InsertAt(Contents(l), Len(Contents(l)) + 1, e))
    BY <1>4, AddToEndStep
  <2>3. InsertAt(Contents(l), Len(Contents(l)) + 1, e) = Append(content[l], e)
    BY <2>1, InsertAtEnds
  <2>4. Abstract!Becomes(l, Append(content[l], e))
    BY <2>2, <2>3, ContentBecomes
  <2>5. Abstract!Did("add_to_end", l, NULL, e) /\ Abstract!Detached(e)
    BY <1>4, SameDid, DetachedOnNone DEF ns_list_add_to_end
  <2> QED BY <2>4, <2>5 DEF Abstract!Add, content
<1>5. ASSUME NEW l \in List, NEW e \in Entry, ns_list_remove(l, e)
      PROVE  Abstract!Drop(l, e)
  <2>1. PICK k \in 1..Len(Contents(l)) : Contents(l)[k] = e
    BY <1>5, PositionOf DEF ns_list_remove, LinkInv
  <2>2. Gives(l, RemoveAt(Contents(l), k))
    BY <1>5, <2>1, RemoveStep
  <2>3. Abstract!Position(l, e) = k /\ e \in Abstract!Range(content[l])
    BY <2>1, PositionIs
  <2>4. content[l] = Contents(l)
    BY ContentFacts
  <2>5. Abstract!Becomes(l, Abstract!RemoveAt(content[l], k))
    BY <2>2, <2>4, SameEdits, ContentBecomes
  <2>6. Abstract!Did("remove", l, NULL, e)
    BY <1>5, SameDid DEF ns_list_remove
  <2> QED BY <2>3, <2>5, <2>6 DEF Abstract!Drop, content
<1>6. ASSUME NEW l \in List, NEW e \in Entry, NEW current \in Entry,
             ns_list_add_before(l, current, e)
      PROVE  Abstract!AddAt(l, current, e)
  <2>1. PICK k \in 1..Len(Contents(l)) : Contents(l)[k] = current
    BY <1>6, PositionOf DEF ns_list_add_before, LinkInv
  <2>2. Gives(l, InsertAt(Contents(l), k, e))
    BY <1>6, <2>1, AddBeforeStep
  <2>3. Did("add_before", l, current, e) /\ e \in Detached
    BY <1>6 DEF ns_list_add_before
  <2> QED BY <2>1, <2>2, <2>3, AddsNextTo
<1>7. ASSUME NEW l \in List, NEW e \in Entry, NEW current \in Entry,
             ns_list_add_after(l, current, e)
      PROVE  Abstract!AddAt(l, current, e)
  <2>1. PICK k \in 1..Len(Contents(l)) : Contents(l)[k] = current
    BY <1>7, PositionOf DEF ns_list_add_after, LinkInv
  <2>2. k \in 0..Len(Contents(l)) /\ current = CellAt(l, Contents(l), k)
    <3>1. Contents(l) \in Seq(Entry)
      BY ContentFacts
    <3> QED BY <2>1, <3>1 DEF CellAt
  <2>3. Gives(l, InsertAt(Contents(l), k + 1, e))
    BY <1>7, <2>2, AddBehindStep DEF ns_list_add_after
  <2>4. Did("add_after", l, current, e) /\ e \in Detached
    BY <1>7 DEF ns_list_add_after, AddBehind
  <2> QED BY <2>1, <2>3, <2>4, AddsNextTo
<1>8. ASSUME NEW l \in List, NEW e \in Entry, NEW current \in Entry,
             ns_list_replace(l, current, e)
      PROVE  Abstract!AddAt(l, current, e)
  <2>1. PICK k \in 1..Len(Contents(l)) : Contents(l)[k] = current
    BY <1>8, PositionOf DEF ns_list_replace, LinkInv
  <2>2. Gives(l, ReplaceAt(Contents(l), k, e))
    BY <1>8, <2>1, ReplaceStep
  <2>3. Did("replace", l, current, e) /\ e \in Detached
    BY <1>8 DEF ns_list_replace
  <2> QED BY <2>1, <2>2, <2>3, AddsNextTo
<1>9. ASSUME NEW dst \in List, NEW src \in List, ns_list_concatenate(dst, src)
      PROVE  Abstract!Concatenate(dst, src)
  <2>1. GivesJoined(dst, src) /\ dst # src /\ Did("concatenate", dst, src, NULL)
    BY <1>9, ConcatenateStep DEF ns_list_concatenate
  <2>2. content' = [content EXCEPT ![dst] = content[dst] \o content[src], ![src] = << >>]
    BY <2>1 DEF content, GivesJoined
  <2>3. Abstract!Did("concatenate", dst, src, NULL)
    BY <2>1, SameDid
  <2> QED BY <2>1, <2>2, <2>3 DEF Abstract!Concatenate, content
<1>10. ASSUME NEW kind \in Loops, NEW l \in List, LoopBegins(kind, l)
       PROVE  UNCHANGED Abstract!listVars
  BY <1>10, LoopBeginsStep, SameIsStutter DEF LoopBegins
<1>11. ASSUME LoopGoesOn PROVE UNCHANGED Abstract!listVars
  BY <1>11, LoopGoesOnStep, SameIsStutter DEF LoopGoesOn
<1>12. ASSUME LoopEnds PROVE UNCHANGED Abstract!listVars
  BY <1>12, LoopEndsStep, SameIsStutter DEF LoopEnds
<1>13. ASSUME UNCHANGED vars PROVE UNCHANGED Abstract!listVars
  <2>1. /\ next' = next /\ prev' = prev /\ last_nextptr' = last_nextptr
        /\ owner' = owner /\ op' = op
    BY <1>13 DEF vars, links
  <2>2. GivesSame
    <3>1. \A m \in List : Untouched(next, prev, last_nextptr, owner, m,
                                    next', prev', last_nextptr', owner')
      BY <2>1 DEF Untouched
    <3>2. LinkTypes'
      BY <2>1, Typed DEF LinkInv, LinkTypes
    <3> QED BY <3>1, <3>2, UntouchedGives DEF LinkInv
  <2> QED BY <2>1, <2>2, SameIsStutter
<1> QED BY <1>1, <1>2, <1>3, <1>4, <1>5, <1>6, <1>7, <1>8, <1>9, <1>10, <1>11, <1>12,
           <1>13 DEF Next, Operation, Iterate

\* The links, followed from the heads, go through the sequences that ns_list.h
\* documents: the linked lists implement AbstractList, for every set of lists
\* and every finite set of entries.
THEOREM ListsRefine == Spec => ImplementsList
<1>1. Init => Abstract!ListInit
  <2> SUFFICES ASSUME Init PROVE Abstract!ListInit
    OBVIOUS
  <2>1. content = [l \in List |-> << >>]
    BY InitContents DEF content
  <2> QED BY <2>1 DEF Init, Abstract!ListInit, content
<1>2. LinkInv /\ [Next]_vars => [Abstract!ListNext]_(Abstract!listVars)
  BY NextRefines
<1> QED BY <1>1, <1>2, LinksInvariant, PTL DEF Spec, ImplementsList, Abstract!ListSpec
=============================================================================
