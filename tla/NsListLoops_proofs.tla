------------------------- MODULE NsListLoops_proofs -------------------------
(***************************************************************************)
(* The four loops of ns_list.h come to the entries that stay on their list *)
(* in list order, each once and none left out, whatever their bodies add   *)
(* and remove, for every set of lists and every finite set of entries.     *)
(***************************************************************************)
EXTENDS NsList_proofs

-----------------------------------------------------------------------------
(* The order of a list's entries *)

\* Entries that are both in s and in t have the same order in both.
Keeps(s, t) ==
    \A i, j \in DOMAIN s, a, b \in DOMAIN t :
        s[i] = t[a] /\ s[j] = t[b] => (i < j <=> a < b)

\* An insertion keeps the order.
LEMMA InsertKeeps ==
    ASSUME NEW s \in Seq(Entry), IsInjective(s), NEW e \in Entry, e \notin Range(s),
           NEW k \in 0..Len(s)
    PROVE  Keeps(s, InsertAt(s, k + 1, e))
<1> DEFINE t == InsertAt(s, k + 1, e)
           n == Len(s)
<1>1. n \in Nat /\ DOMAIN s = 1..n /\ k \in 0..n
  OBVIOUS
<1>2. t \in Seq(Entry) /\ IsInserted(t, s, k, e)
  BY InsertBehind
<1> HIDE DEF t
<1>3. DOMAIN t = 1..(n + 1)
  BY <1>1, <1>2 DEF IsInserted
<1>4. ASSUME NEW i \in 1..n, NEW a \in 1..(n + 1), s[i] = t[a]
      PROVE  (a <= k /\ i = a) \/ (a >= k + 2 /\ i = a - 1)
  <2>1. s[i] # e
    BY <1>1 DEF Range
  <2>2. CASE a <= k
    <3>1. a \in 1..k /\ a \in 1..n
      BY <1>1, <2>2
    <3>2. s[i] = s[a]
      BY <1>2, <1>4, <3>1 DEF IsInserted
    <3> QED BY <1>1, <2>2, <3>1, <3>2 DEF IsInjective
  <2>3. CASE a = k + 1
    BY <1>2, <1>4, <2>1, <2>3 DEF IsInserted
  <2>4. CASE a >= k + 2
    <3>1. a \in (k + 2)..(n + 1) /\ a - 1 \in 1..n
      BY <1>1, <2>4
    <3>2. s[i] = s[a - 1]
      BY <1>2, <1>4, <3>1 DEF IsInserted
    <3> QED BY <1>1, <2>4, <3>1, <3>2 DEF IsInjective
  <2> QED BY <1>1, <2>2, <2>3, <2>4
<1> HIDE DEF n
<1>5. ASSUME NEW i \in 1..n, NEW j \in 1..n, NEW a \in 1..(n + 1), NEW b \in 1..(n + 1),
             s[i] = t[a], s[j] = t[b]
      PROVE  i < j <=> a < b
  <2>1. /\ (a <= k /\ i = a) \/ (a >= k + 2 /\ i = a - 1)
        /\ (b <= k /\ j = b) \/ (b >= k + 2 /\ j = b - 1)
    BY <1>4, <1>5
  <2> QED BY <1>1, <2>1
<1> QED BY <1>1, <1>3, <1>5 DEF Keeps, t

\* A removal keeps the order.
LEMMA RemoveKeeps ==
    ASSUME NEW s \in Seq(Entry), IsInjective(s), NEW k \in 1..Len(s)
    PROVE  Keeps(s, RemoveAt(s, k))
<1> DEFINE t == RemoveAt(s, k)
           n == Len(s)
<1>1. n \in Nat /\ DOMAIN s = 1..n /\ k \in 1..n
  OBVIOUS
<1>2. t \in Seq(Entry) /\ IsRemoved(t, s, k)
  BY RemoveOne
<1> HIDE DEF t
<1>3. DOMAIN t = 1..(n - 1)
  BY <1>1, <1>2 DEF IsRemoved
<1>4. ASSUME NEW i \in 1..n, NEW a \in 1..(n - 1), s[i] = t[a]
      PROVE  (a < k /\ i = a) \/ (a >= k /\ i = a + 1)
  <2>2. CASE a < k
    <3>1. a \in 1..(k - 1) /\ a \in 1..n
      BY <1>1, <2>2
    <3>2. s[i] = s[a]
      BY <1>2, <1>4, <3>1 DEF IsRemoved
    <3> QED BY <1>1, <2>2, <3>1, <3>2 DEF IsInjective
  <2>4. CASE a >= k
    <3>1. a \in k..(n - 1) /\ a + 1 \in 1..n
      BY <1>1, <2>4
    <3>2. s[i] = s[a + 1]
      BY <1>2, <1>4, <3>1 DEF IsRemoved
    <3> QED BY <1>1, <2>4, <3>1, <3>2 DEF IsInjective
  <2> QED BY <1>1, <2>2, <2>4
<1> HIDE DEF n
<1>5. ASSUME NEW i \in 1..n, NEW j \in 1..n, NEW a \in 1..(n - 1), NEW b \in 1..(n - 1),
             s[i] = t[a], s[j] = t[b]
      PROVE  i < j <=> a < b
  <2>1. /\ (a < k /\ i = a) \/ (a >= k /\ i = a + 1)
        /\ (b < k /\ j = b) \/ (b >= k /\ j = b + 1)
    BY <1>4, <1>5
  <2> QED BY <1>1, <2>1
<1> QED BY <1>1, <1>3, <1>5 DEF Keeps, t

\* So does putting a new entry in the place of another.
LEMMA ReplaceKeeps ==
    ASSUME NEW s \in Seq(Entry), IsInjective(s), NEW e \in Entry, e \notin Range(s),
           NEW k \in 1..Len(s)
    PROVE  Keeps(s, ReplaceAt(s, k, e))
<1> DEFINE t == ReplaceAt(s, k, e)
           n == Len(s)
<1>1. n \in Nat /\ DOMAIN s = 1..n /\ k \in 1..n
  OBVIOUS
<1>2. t \in Seq(Entry) /\ IsReplaced(t, s, k, e)
  BY ReplaceOne
<1> HIDE DEF t
<1>3. DOMAIN t = 1..n
  BY <1>1, <1>2 DEF IsReplaced
<1>4. ASSUME NEW i \in 1..n, NEW a \in 1..n, s[i] = t[a] PROVE i = a
  <2>1. s[i] # e
    BY <1>1 DEF Range
  <2>2. a # k
    BY <1>2, <1>4, <2>1 DEF IsReplaced
  <2>3. s[i] = s[a]
    BY <1>2, <1>4, <2>2 DEF IsReplaced
  <2> QED BY <1>1, <2>3 DEF IsInjective
<1> QED BY <1>1, <1>3, <1>4 DEF Keeps, t

\* So does appending other entries.
LEMMA JoinKeeps ==
    ASSUME NEW s \in Seq(Entry), NEW u \in Seq(Entry), IsInjective(s),
           Range(s) \cap Range(u) = {}
    PROVE  Keeps(s, s \o u)
<1> DEFINE t == s \o u
           n == Len(s)
           m == Len(u)
<1>1. n \in Nat /\ m \in Nat /\ DOMAIN s = 1..n /\ DOMAIN u = 1..m
  OBVIOUS
<1>2. t \in Seq(Entry) /\ IsJoined(t, s, u)
  BY JoinTwo
<1> HIDE DEF t
<1>3. DOMAIN t = 1..(n + m)
  BY <1>1, <1>2 DEF IsJoined
<1>4. ASSUME NEW i \in 1..n, NEW a \in 1..(n + m), s[i] = t[a] PROVE i = a
  <2>1. CASE a <= n
    <3>1. a \in 1..n
      BY <1>1, <2>1
    <3>2. s[i] = s[a]
      BY <1>2, <1>4, <3>1 DEF IsJoined
    <3> QED BY <1>1, <3>1, <3>2 DEF IsInjective
  <2>2. CASE a > n
    <3>1. a - n \in 1..m /\ n + (a - n) = a
      BY <1>1, <2>2
    <3>2. s[i] = u[a - n]
      BY <1>2, <1>4, <3>1 DEF IsJoined
    <3> QED BY <1>1, <3>1, <3>2 DEF Range
  <2> QED BY <1>1, <2>1, <2>2
<1> QED BY <1>1, <1>3, <1>4 DEF Keeps, t

\* Every order is kept by the empty list and by the list itself.
LEMMA TriviallyKeeps ==
    ASSUME NEW s \in Seq(Entry), IsInjective(s)
    PROVE  Keeps(s, << >>) /\ Keeps(s, s)
BY DEF Keeps, IsInjective

\* Where the order is kept, a loop leads the same way.
LEMMA SameLead ==
    ASSUME NEW s \in Seq(Entry), NEW t \in Seq(Entry), Keeps(s, t), NEW kind,
           NEW a \in Range(s) \cap Range(t), NEW b \in Range(s) \cap Range(t)
    PROVE  Leads(kind, s, a, b) <=> Leads(kind, t, a, b)
<1>1. DOMAIN s \subseteq Int /\ DOMAIN t \subseteq Int
  OBVIOUS
<1>2. /\ \E i \in DOMAIN s : s[i] = a
      /\ \E i \in DOMAIN s : s[i] = b
      /\ \E i \in DOMAIN t : t[i] = a
      /\ \E i \in DOMAIN t : t[i] = b
  BY DEF Range
<1>3. CASE kind \in Forward
  BY <1>2, <1>3 DEF Leads, Keeps
<1>4. CASE kind \notin Forward
  BY <1>2, <1>4 DEF Leads, Keeps
<1> QED BY <1>3, <1>4

\* The way of a loop between two positions.
LEMMA LeadsAt ==
    ASSUME NEW s \in Seq(Entry), IsInjective(s), NEW kind,
           NEW i \in 1..Len(s), NEW j \in 1..Len(s)
    PROVE  Leads(kind, s, s[i], s[j]) <=> IF kind \in Forward THEN i < j ELSE j < i
<1>1. DOMAIN s = 1..Len(s)
  OBVIOUS
<1> QED BY <1>1 DEF Leads, IsInjective

\* A loop leads from entry to entry in a strict order.
LEMMA LeadsOrders ==
    ASSUME NEW s \in Seq(Entry), IsInjective(s), NEW kind
    PROVE  /\ \A a : ~Leads(kind, s, a, a)
           /\ \A a, b, c : Leads(kind, s, a, b) /\ Leads(kind, s, b, c)
                              => Leads(kind, s, a, c)
<1>1. DOMAIN s = 1..Len(s)
  OBVIOUS
<1>2. CASE kind \in Forward
  BY <1>1, <1>2 DEF Leads, IsInjective
<1>3. CASE kind \notin Forward
  BY <1>1, <1>3 DEF Leads, IsInjective
<1> QED BY <1>2, <1>3

-----------------------------------------------------------------------------
(* Operations *)

OrderKept == \A l \in List : Keeps(Contents(l), Contents(l)')

\* What WellLinked says of the contents.
LEMMA ContentsShape ==
    ASSUME WellLinked, NEW l \in List
    PROVE  /\ Contents(l) \in Seq(Entry) /\ IsInjective(Contents(l))
           /\ Range(Contents(l)) = On(l)
BY WellLinkedIsLaidOut DEF LaidOut, Laid, On

Shaped ==
    WellLinked => \A l \in List : /\ Contents(l) \in Seq(Entry) /\ IsInjective(Contents(l))
                                  /\ Range(Contents(l)) = On(l)

\* The contents keep that shape in the next state.
LEMMA ShapedNext == Shaped'
<1>1. Shaped
  BY ContentsShape DEF Shaped
<1> QED BY <1>1, PTL

\* While the lists keep their order and the loop its place, the loop's visits
\* are as they should be.
LEMMA VisitsKept ==
    ASSUME LinkInv, VisitInv, LinkInv', OrderKept,
           loop' = loop, visited' = visited, stayed' \subseteq stayed
    PROVE  VisitInv'
<1> SUFFICES ASSUME loop.kind # "none" PROVE VisitInv'
  BY DEF VisitInv
<1> DEFINE kind == loop.kind
           l == loop.list
<1>1. /\ l \in List /\ Needed \in On(l) \cup {NULL} /\ stayed \subseteq On(l)
      /\ Needed' = Needed
  BY DEF LinkInv, LoopOnList, Needed
<1>2. /\ Needed \in On(l)' \cup {NULL} /\ stayed' \subseteq On(l)'
  BY <1>1 DEF LinkInv, LoopOnList
<1>3. PICK s : s = Contents(l)
  OBVIOUS
<1>4. PICK t : t = Contents(l)'
  OBVIOUS
<1>5. s \in Seq(Entry) /\ Range(s) = On(l)
  BY <1>1, <1>3, ContentsShape DEF LinkInv
<1>6. t \in Seq(Entry) /\ Range(t) = On(l)'
  BY <1>1, <1>4, ShapedNext DEF LinkInv, Shaped
<1>7. Keeps(s, t)
  BY <1>1, <1>3, <1>4 DEF OrderKept
<1>8. \A a, b \in Range(s) \cap Range(t) : Leads(kind, s, a, b) <=> Leads(kind, t, a, b)
  BY <1>5, <1>6, <1>7, SameLead
<1>9. /\ \A j, k \in Seen : j < k => Leads(kind, s, visited[j], visited[k])
      /\ \A e \in stayed : e \in Range(visited) <=> Passed(s, e)
      /\ loop.e = NULL => Needed = NULL
  BY <1>3 DEF VisitInv
<1>10. ASSUME NEW j \in Seen', NEW k \in Seen', j < k
       PROVE  Leads(kind, t, visited[j], visited[k])
  <2>1. /\ j \in Seen /\ k \in Seen
        /\ visited[j] \in Range(s) \cap Range(t) /\ visited[k] \in Range(s) \cap Range(t)
    BY <1>1, <1>2, <1>5, <1>6 DEF Seen
  <2> QED BY <1>8, <1>9, <1>10, <2>1
<1>11. ASSUME NEW e \in stayed'
       PROVE  e \in Range(visited) <=> Passed(t, e)'
  <2>1. e \in stayed /\ e \in Range(s) \cap Range(t)
    BY <1>1, <1>2, <1>5, <1>6
  <2>2. Passed(s, e) <=> Passed(t, e)'
    <3>1. CASE Needed = NULL
      BY <1>1, <3>1 DEF Passed
    <3>2. CASE Needed # NULL
      <4>1. Leads(kind, s, e, Needed) <=> Leads(kind, t, e, Needed)
        BY <1>1, <1>2, <1>5, <1>6, <1>8, <2>1, <3>2
      <4> QED BY <1>1, <4>1 DEF Passed
    <3> QED BY <3>1, <3>2
  <2> QED BY <1>9, <2>1, <2>2
<1> QED BY <1>1, <1>4, <1>9, <1>10, <1>11 DEF VisitInv

\* One list changed, in a way that keeps its order.
LEMMA GivesKeeps ==
    ASSUME LinkInv, NEW l \in List, NEW t, Gives(l, t), Keeps(Contents(l), t)
    PROVE  OrderKept
<1>1. ASSUME NEW m \in List, m # l PROVE Keeps(Contents(m), Contents(m)')
  BY <1>1, ContentsShape, TriviallyKeeps DEF Gives, LinkInv
<1> QED BY <1>1 DEF Gives, OrderKept

\* No list changed.
LEMMA SameKeeps ==
    ASSUME LinkInv, GivesSame
    PROVE  OrderKept
BY ContentsShape, TriviallyKeeps DEF GivesSame, OrderKept, LinkInv

\* An entry that is on no list joins one.
LEMMA AddKeeps ==
    ASSUME LinkInv, NEW l \in List, NEW e \in Detached,
           NEW k \in 0..Len(Contents(l)),
           Gives(l, InsertAt(Contents(l), k + 1, e))
    PROVE  OrderKept
<1>1. /\ Contents(l) \in Seq(Entry) /\ IsInjective(Contents(l))
      /\ Range(Contents(l)) = On(l)
  BY ContentsShape DEF LinkInv
<1>2. e \in Entry /\ e \notin On(l)
  BY ListAssumption DEF Detached, On, Cell
<1> QED BY <1>1, <1>2, InsertKeeps, GivesKeeps

\* The step keeps the links, the order of the entries and the loop's place.
PlaceKept ==
    /\ LinkInv' /\ OrderKept
    /\ loop' = loop /\ visited' = visited /\ stayed' \subseteq stayed

\* Every operation keeps the order of the entries that stay, and the loop its
\* place.
LEMMA OperationStep ==
    ASSUME LinkInv, Operation
    PROVE  PlaceKept
<1>1. ASSUME NEW l \in List, ns_list_init(l)
      PROVE  PlaceKept
  <2>1. LinkInv' /\ Gives(l, << >>)
    BY <1>1, InitStep
  <2>2. Keeps(Contents(l), << >>)
    BY ContentsShape, TriviallyKeeps DEF LinkInv
  <2>3. OrderKept
    BY <2>1, <2>2, GivesKeeps
  <2> QED BY <1>1, <2>1, <2>3 DEF PlaceKept, ns_list_init, Forgets
<1>2. ASSUME NEW e \in Entry, ns_list_link_init(e)
      PROVE  PlaceKept
  BY <1>2, LinkInitStep, SameKeeps DEF PlaceKept, ns_list_link_init, iteration
<1>3. ASSUME NEW l \in List, NEW e \in Entry, ns_list_add_to_start(l, e)
      PROVE  PlaceKept
  <2>1. AddBehind(l, l, e) /\ l = CellAt(l, Contents(l), 0) /\ e \in Detached
    BY <1>3 DEF ns_list_add_to_start, AddBehind, CellAt
  <2>2. 0 \in 0..Len(Contents(l))
    <3>1. Contents(l) \in Seq(Entry)
      BY ContentsShape DEF LinkInv
    <3> QED BY <3>1
  <2>3. LinkInv' /\ Gives(l, InsertAt(Contents(l), 0 + 1, e))
    BY <2>1, <2>2, AddBehindStep
  <2>4. OrderKept
    BY <2>1, <2>2, <2>3, AddKeeps
  <2> QED BY <2>1, <2>3, <2>4 DEF PlaceKept, AddBehind, Joins, iteration
<1>4. ASSUME NEW l \in List, NEW e \in Entry, ns_list_add_to_end(l, e)
      PROVE  PlaceKept
  <2>1. Len(Contents(l)) \in 0..Len(Contents(l))
    <3>1. Contents(l) \in Seq(Entry)
      BY ContentsShape DEF LinkInv
    <3> QED BY <3>1
  <2>2. LinkInv' /\ Gives(l, InsertAt(Contents(l), Len(Contents(l)) + 1, e))
    BY <1>4, AddToEndStep
  <2>3. e \in Detached
    BY <1>4 DEF ns_list_add_to_end
  <2>4. OrderKept
    BY <2>1, <2>2, <2>3, AddKeeps
  <2> QED BY <1>4, <2>2, <2>4 DEF PlaceKept, ns_list_add_to_end, Joins, iteration
<1>5. ASSUME NEW l \in List, NEW e \in Entry, ns_list_remove(l, e)
      PROVE  PlaceKept
  <2>1. PICK k \in 1..Len(Contents(l)) : Contents(l)[k] = e
    BY <1>5, PositionOf DEF ns_list_remove, LinkInv
  <2>2. LinkInv' /\ Gives(l, RemoveAt(Contents(l), k))
    BY <1>5, <2>1, RemoveStep
  <2>3. Keeps(Contents(l), RemoveAt(Contents(l), k))
    BY ContentsShape, RemoveKeeps DEF LinkInv
  <2>4. OrderKept
    BY <2>2, <2>3, GivesKeeps
  <2> QED BY <1>5, <2>2, <2>4 DEF PlaceKept, ns_list_remove, Forgets
<1>6. ASSUME NEW l \in List, NEW e \in Entry, NEW current \in Entry,
             ns_list_add_before(l, current, e)
      PROVE  PlaceKept
  <2>1. PICK k \in 1..Len(Contents(l)) : Contents(l)[k] = current
    BY <1>6, PositionOf DEF ns_list_add_before, LinkInv
  <2>2. LinkInv' /\ Gives(l, InsertAt(Contents(l), k, e))
    BY <1>6, <2>1, AddBeforeStep
  <2>3. k - 1 \in 0..Len(Contents(l)) /\ (k - 1) + 1 = k
    <3>1. Contents(l) \in Seq(Entry)
      BY ContentsShape DEF LinkInv
    <3> QED BY <3>1
  <2>4. e \in Detached
    BY <1>6 DEF ns_list_add_before
  <2>5. OrderKept
    BY <2>2, <2>3, <2>4, AddKeeps
  <2> QED BY <1>6, <2>2, <2>5 DEF PlaceKept, ns_list_add_before, Joins, iteration
<1>7. ASSUME NEW l \in List, NEW e \in Entry, NEW current \in Entry,
             ns_list_add_after(l, current, e)
      PROVE  PlaceKept
  <2>1. PICK k \in 1..Len(Contents(l)) : Contents(l)[k] = current
    BY <1>7, PositionOf DEF ns_list_add_after, LinkInv
  <2>2. k \in 0..Len(Contents(l)) /\ current = CellAt(l, Contents(l), k)
    <3>1. Contents(l) \in Seq(Entry)
      BY ContentsShape DEF LinkInv
    <3> QED BY <2>1, <3>1 DEF CellAt
  <2>3. AddBehind(l, current, e) /\ e \in Detached
    BY <1>7 DEF ns_list_add_after, AddBehind
  <2>4. LinkInv' /\ Gives(l, InsertAt(Contents(l), k + 1, e))
    BY <2>2, <2>3, AddBehindStep
  <2>5. OrderKept
    BY <2>2, <2>3, <2>4, AddKeeps
  <2> QED BY <2>3, <2>4, <2>5 DEF PlaceKept, AddBehind, Joins, iteration
<1>8. ASSUME NEW l \in List, NEW e \in Entry, NEW current \in Entry,
             ns_list_replace(l, current, e)
      PROVE  PlaceKept
  <2>1. PICK k \in 1..Len(Contents(l)) : Contents(l)[k] = current
    BY <1>8, PositionOf DEF ns_list_replace, LinkInv
  <2>2. LinkInv' /\ Gives(l, ReplaceAt(Contents(l), k, e))
    BY <1>8, <2>1, ReplaceStep
  <2>3. e \notin On(l)
    BY <1>8, ListAssumption DEF ns_list_replace, Detached, On, Cell
  <2>4. Keeps(Contents(l), ReplaceAt(Contents(l), k, e))
    BY <2>3, ContentsShape, ReplaceKeeps DEF LinkInv
  <2>5. OrderKept
    BY <2>2, <2>4, GivesKeeps
  <2> QED BY <1>8, <2>2, <2>5 DEF PlaceKept, ns_list_replace, Forgets
<1>9. ASSUME NEW dst \in List, NEW src \in List, ns_list_concatenate(dst, src)
      PROVE  PlaceKept
  <2>1. LinkInv' /\ GivesJoined(dst, src) /\ dst # src
    BY <1>9, ConcatenateStep DEF ns_list_concatenate
  <2>2. On(dst) \cap On(src) = {}
    BY <2>1 DEF On
  <2>3. Keeps(Contents(dst), Contents(dst) \o Contents(src))
    BY <2>2, ContentsShape, JoinKeeps DEF LinkInv
  <2>4. Keeps(Contents(src), << >>)
    BY ContentsShape, TriviallyKeeps DEF LinkInv
  <2>5. \A m \in List : Keeps(Contents(m), Contents(m))
    BY ContentsShape, TriviallyKeeps DEF LinkInv
  <2>6. OrderKept
    BY <2>1, <2>3, <2>4, <2>5 DEF GivesJoined, OrderKept
  <2> QED BY <1>9, <2>1, <2>6 DEF PlaceKept, ns_list_concatenate, Forgets
<1> QED BY <1>1, <1>2, <1>3, <1>4, <1>5, <1>6, <1>7, <1>8, <1>9 DEF Operation

-----------------------------------------------------------------------------
(* The loops *)

\* Arithmetic on positions.
LEMMA Places ==
    ASSUME NEW n \in Nat, NEW k \in 1..n
    PROVE  /\ k # n => k + 1 \in 1..n
           /\ k # 1 => k - 1 \in 1..n
           /\ (k + 1) - 1 = k /\ k # 0 /\ n # 0 /\ 1 \in 1..n
           /\ \A i \in 1..n : i < n \/ i = n
OBVIOUS

\* An entry's position in its list, and the links around it.
LEMMA PlaceOf ==
    ASSUME LinkInv, NEW l \in List, NEW e \in On(l)
    PROVE  \E k \in 1..Len(Contents(l)) :
               /\ Contents(l)[k] = e
               /\ next[e] = IF k = Len(Contents(l)) THEN NULL ELSE Contents(l)[k + 1]
               /\ prev[e] = IF k = 1 THEN l ELSE Contents(l)[k - 1]
<1>1. PICK k \in 1..Len(Contents(l)) : Contents(l)[k] = e
  BY PositionOf DEF LinkInv
<1>2. PICK s : s = Contents(l)
  OBVIOUS
<1>3. Spells(l, s)
  BY <1>2 DEF LinkInv, WellLinked
<1>4. s \in Seq(Entry) /\ DOMAIN s = 1..Len(s) /\ Len(s) \in Nat
  BY <1>2, ContentsShape DEF LinkInv
<1>5. k \in 1..Len(s) /\ s[k] = e
  BY <1>1, <1>2
<1>6. prev[e] = IF k = 1 THEN l ELSE s[k - 1]
  BY <1>3, <1>4, <1>5 DEF Spells, CellAt
<1>7. CASE k = Len(s)
  BY <1>1, <1>2, <1>3, <1>5, <1>6, <1>7 DEF Spells, CellAt
<1>8. CASE k # Len(s)
  <2>1. k + 1 \in 1..Len(s) /\ (k + 1) - 1 = k /\ k # 0
    BY <1>4, <1>5, <1>8, Places, Zenon
  <2>2. next[CellAt(l, s, k)] = s[k + 1]
    BY <1>3, <1>4, <2>1 DEF Spells
  <2> QED BY <1>1, <1>2, <1>5, <1>6, <1>8, <2>1, <2>2 DEF CellAt
<1> QED BY <1>7, <1>8

\* The ends of a list.
LEMMA EndsOf ==
    ASSUME LinkInv, NEW l \in List
    PROVE  LET s == Contents(l)
           IN  /\ next[l] = IF s = << >> THEN NULL ELSE s[1]
               /\ s # << >> => /\ last_nextptr[l] = s[Len(s)]
                              /\ 1 \in 1..Len(s) /\ Len(s) \in 1..Len(s)
                              /\ s[1] \in On(l)
<1>1. PICK s : s = Contents(l)
  OBVIOUS
<1>2. Spells(l, s)
  BY <1>1 DEF LinkInv, WellLinked
<1>3. s \in Seq(Entry) /\ DOMAIN s = 1..Len(s) /\ Len(s) \in Nat /\ Range(s) = On(l)
  BY <1>1, ContentsShape DEF LinkInv
<1>4. CASE s = << >>
  BY <1>1, <1>2, <1>4 DEF Spells, CellAt
<1>5. CASE s # << >>
  <2>1. 1 \in 1..Len(s) /\ Len(s) \in 1..Len(s) /\ 1 - 1 = 0 /\ Len(s) # 0
    BY <1>3, <1>5
  <2>2. next[l] = s[1]
    BY <1>2, <1>3, <2>1 DEF Spells, CellAt
  <2>3. last_nextptr[l] = s[Len(s)]
    BY <1>2, <2>1 DEF Spells, CellAt
  <2>4. s[1] \in On(l)
    BY <1>3, <2>1 DEF Range
  <2> QED BY <1>1, <1>5, <2>1, <2>2, <2>3, <2>4
<1> QED BY <1>4, <1>5

\* Where a loop gets from an entry is the next one its direction leads to, or
\* NULL behind the last.
LEMMA StepLeads ==
    ASSUME LinkInv, NEW l \in List, NEW e \in On(l), NEW kind \in Loops
    PROVE  LET s == Contents(l)
               nx == Step(kind, l, e)
           IN  \A x \in On(l) :
                   (nx = NULL \/ Leads(kind, s, x, nx)) <=> (x = e \/ Leads(kind, s, x, e))
<1> DEFINE nx == Step(kind, l, e)
<1>1. PICK s : s = Contents(l)
  OBVIOUS
<1>2. /\ s \in Seq(Entry) /\ DOMAIN s = 1..Len(s) /\ Len(s) \in Nat
      /\ Range(s) = On(l) /\ IsInjective(s) /\ On(l) \subseteq Entry
  BY <1>1, ContentsShape DEF LinkInv, On
<1>3. NULL \notin On(l) /\ l \notin On(l)
  BY ListAssumption DEF On, Cell
<1>4. PICK k \in 1..Len(s) :
          /\ s[k] = e
          /\ next[e] = IF k = Len(s) THEN NULL ELSE s[k + 1]
          /\ prev[e] = IF k = 1 THEN l ELSE s[k - 1]
  BY <1>1, PlaceOf
<1>5. next[l] = s[1] /\ 1 \in 1..Len(s)
  <2>1. Len(s) # 0 /\ 1 \in 1..Len(s)
    BY <1>2, Places, Zenon
  <2>2. s # << >>
    BY <2>1
  <2> QED BY <1>1, <2>1, <2>2, EndsOf
<1>6. ASSUME NEW x \in On(l)
      PROVE  (nx = NULL \/ Leads(kind, s, x, nx)) <=> (x = e \/ Leads(kind, s, x, e))
  <2>1. PICK i \in 1..Len(s) : s[i] = x
    BY <1>2 DEF Range
  <2>2. x = e <=> i = k
    BY <1>2, <1>4, <2>1 DEF IsInjective
  <2>3. Leads(kind, s, x, e) <=> IF kind \in Forward THEN i < k ELSE k < i
    BY <1>2, <1>4, <2>1, LeadsAt
  <2>4. CASE kind \in Forward
    <3>1. nx = IF k = Len(s) THEN NULL ELSE s[k + 1]
      BY <1>4, <2>4 DEF Step, ns_list_get_next
    <3>2. CASE k = Len(s)
      <4>1. i < k \/ i = k
        BY <1>2, <3>2, Places, Zenon
      <4> QED BY <2>2, <2>3, <2>4, <3>1, <3>2, <4>1
    <3>3. CASE k # Len(s)
      <4>1. k + 1 \in 1..Len(s)
        BY <1>2, <3>3, Places, Zenon
      <4>2. nx = s[k + 1] /\ nx # NULL
        BY <1>2, <1>3, <3>1, <3>3, <4>1 DEF Range
      <4>3. Leads(kind, s, x, nx) <=> i < k + 1
        BY <1>2, <2>1, <2>4, <4>1, <4>2, LeadsAt
      <4> QED BY <1>2, <2>2, <2>3, <2>4, <4>2, <4>3
    <3> QED BY <3>2, <3>3
  <2>5. CASE kind \notin Forward
    <3>1. nx = IF e = s[1] THEN NULL ELSE prev[e]
      BY <1>5, <2>5 DEF Step, ns_list_get_previous
    <3>2. CASE k = 1
      BY <1>2, <1>4, <2>2, <2>3, <2>5, <3>1, <3>2
    <3>3. CASE k # 1
      <4>1. k - 1 \in 1..Len(s)
        BY <1>2, <3>3, Places, Zenon
      <4>2. e # s[1]
        BY <1>2, <1>4, <1>5, <3>3 DEF IsInjective
      <4>3. nx = s[k - 1] /\ nx # NULL
        BY <1>2, <1>3, <1>4, <3>1, <3>3, <4>1, <4>2 DEF Range
      <4>4. Leads(kind, s, x, nx) <=> k - 1 < i
        BY <1>2, <2>1, <2>5, <4>1, <4>3, LeadsAt
      <4> QED BY <1>2, <2>2, <2>3, <2>5, <4>3, <4>4
    <3> QED BY <3>2, <3>3
  <2> QED BY <2>4, <2>5
<1> QED BY <1>1, <1>6

\* When a loop has come to c, it is past c and what leads to it, and past
\* everything when c is NULL.
LEMMA Comes ==
    ASSUME LinkInv, NEW l \in List, NEW kind \in Loops,
           NEW c \in On(l) \cup {NULL}, NEW s, s = Contents(l), ComeTo(kind, l, c)
    PROVE  /\ loop'.kind = kind /\ loop'.list = l /\ loop'.e = c
           /\ c = NULL => Needed' = NULL
           /\ \A x \in On(l) :
                  Passed(s, x)' <=> (c = NULL \/ x = c \/ Leads(kind, s, x, c))
<1>1. loop'.kind = kind /\ loop'.list = l /\ loop'.e = c
  BY DEF ComeTo
<1>2. CASE c = NULL
  <2>1. Needed' = NULL
    BY <1>2 DEF ComeTo, Needed
  <2> QED BY <1>1, <1>2, <2>1 DEF Passed
<1>3. CASE c # NULL /\ kind \in Safe
  <2>1. Needed' = Step(kind, l, c)
    BY <1>3 DEF ComeTo, Needed
  <2>2. \A x \in On(l) : (Step(kind, l, c) = NULL \/ Leads(kind, s, x, Step(kind, l, c)))
                             <=> (x = c \/ Leads(kind, s, x, c))
    BY <1>3, StepLeads
  <2> QED BY <1>1, <1>3, <2>1, <2>2 DEF Passed
<1>4. CASE c # NULL /\ kind \notin Safe
  <2>1. Needed' = c
    BY <1>1, <1>4 DEF Needed
  <2> QED BY <1>1, <1>4, <2>1 DEF Passed
<1> QED BY <1>2, <1>3, <1>4

\* The visits v to entries of S are in the order in which the loop leads.
InOrder(kind, s, S, v) ==
    \A j, k \in DOMAIN v :
        v[j] \in S /\ v[k] \in S /\ j < k => Leads(kind, s, v[j], v[k])

\* Of the entries of S, the visits v are to those from which the loop leads to c.
UpTo(kind, s, S, v, c) == \A x \in S : x \in Range(v) <=> Leads(kind, s, x, c)

\* The visits once the loop has come to c.
Visiting(S, v, c) == IF c \in S THEN Append(v, c) ELSE v

\* One more visit, to the entry to which all those visited lead.
LEMMA VisitOne ==
    ASSUME NEW kind, NEW s, NEW S, NEW v \in Seq(Entry), NEW c \in Entry,
           InOrder(kind, s, S, v), UpTo(kind, s, S, v, c)
    PROVE  /\ InOrder(kind, s, S, Visiting(S, v, c))
           /\ \A x \in S : x \in Range(Visiting(S, v, c))
                              <=> (x = c \/ Leads(kind, s, x, c))
<1> DEFINE w == Visiting(S, v, c)
<1>1. CASE c \notin S
  BY <1>1 DEF UpTo, Visiting
<1>2. CASE c \in S
  <2>1. w = Append(v, c) /\ DOMAIN v = 1..Len(v) /\ Len(v) \in Nat
    BY <1>2 DEF Visiting
  <2> HIDE DEF w
  <2>2. /\ DOMAIN w = 1..(Len(v) + 1)
        /\ \A j \in 1..Len(v) : w[j] = v[j]
        /\ w[Len(v) + 1] = c
    BY <2>1
  <2>3. Range(w) = Range(v) \cup {c}
    <3>1. \A j \in 1..(Len(v) + 1) : j \in 1..Len(v) \/ j = Len(v) + 1
      BY <2>1
    <3>2. 1..Len(v) \subseteq 1..(Len(v) + 1) /\ Len(v) + 1 \in 1..(Len(v) + 1)
      BY <2>1
    <3> QED BY <2>1, <2>2, <3>1, <3>2 DEF Range
  <2>4. ASSUME NEW j \in DOMAIN w, NEW k \in DOMAIN w,
               w[j] \in S, w[k] \in S, j < k
        PROVE  Leads(kind, s, w[j], w[k])
    <3>1. j \in 1..Len(v) /\ (k \in 1..Len(v) \/ k = Len(v) + 1)
      BY <2>1, <2>2, <2>4
    <3>2. CASE k \in 1..Len(v)
      BY <2>1, <2>2, <2>4, <3>1, <3>2 DEF InOrder
    <3>3. CASE k = Len(v) + 1
      <4>1. w[j] \in Range(v) /\ w[k] = c
        BY <2>1, <2>2, <3>1, <3>3 DEF Range
      <4> QED BY <2>4, <4>1 DEF UpTo
    <3> QED BY <3>1, <3>2, <3>3
  <2> QED BY <2>3, <2>4 DEF InOrder, UpTo, w
<1> QED BY <1>1, <1>2

\* The visits are right again once the loop has come to c.
LEMMA VisitInvAt ==
    ASSUME LinkInv, NEW l \in List, NEW kind \in Loops, NEW c \in On(l) \cup {NULL},
           NEW s, s = Contents(l), Contents(l)' = s, ComeTo(kind, l, c),
           stayed' \subseteq On(l),
           InOrder(kind, s, stayed', visited'),
           \A x \in stayed' : x \in Range(visited')
                                <=> (c = NULL \/ x = c \/ Leads(kind, s, x, c))
    PROVE  VisitInv'
<1>1. /\ loop'.kind = kind /\ loop'.list = l /\ loop'.e = c
      /\ c = NULL => Needed' = NULL
      /\ \A x \in On(l) :
             Passed(s, x)' <=> (c = NULL \/ x = c \/ Leads(kind, s, x, c))
  BY Comes
<1>2. \A x \in stayed' : x \in Range(visited') <=> Passed(s, x)'
  BY <1>1
<1>3. \A j, k \in Seen' : j < k => Leads(kind, s, visited'[j], visited'[k])
  BY DEF Seen, InOrder
<1> QED BY <1>1, <1>2, <1>3 DEF VisitInv

\* A loop begins at the entry to which none leads.
LEMMA LoopBeginsVisits ==
    ASSUME LinkInv, NEW kind \in Loops, NEW l \in List, LoopBegins(kind, l)
    PROVE  VisitInv'
<1>1. PICK s : s = Contents(l)
  OBVIOUS
<1>2. PICK c : c = IF kind \in Forward THEN ns_list_get_first(l) ELSE ns_list_get_last(l)
  OBVIOUS
<1>3. /\ ComeTo(kind, l, c) /\ stayed' = On(l)
      /\ visited' = IF c = NULL THEN << >> ELSE <<c>>
  BY <1>2 DEF LoopBegins
<1>4. Contents(l)' = s
  BY <1>1, LoopBeginsStep DEF GivesSame
<1>5. /\ s \in Seq(Entry) /\ IsInjective(s) /\ Range(s) = On(l) /\ On(l) \subseteq Entry
      /\ DOMAIN s = 1..Len(s) /\ Len(s) \in Nat /\ NULL \notin On(l)
  BY <1>1, ContentsShape, ListAssumption DEF LinkInv, On, Cell
<1>6. c \in On(l) \cup {NULL}
  BY <1>2, Navigation DEF LinkInv
<1>7. /\ InOrder(kind, s, On(l), visited')
      /\ \A x \in On(l) : x \in Range(visited')
                             <=> (c = NULL \/ x = c \/ Leads(kind, s, x, c))
  <2>1. CASE s = << >>
    <3>1. On(l) = {}
      BY <1>5, <2>1 DEF Range
    <3> QED BY <3>1 DEF InOrder
  <2>2. CASE s # << >>
    <3>1. /\ next[l] = s[1] /\ last_nextptr[l] = s[Len(s)]
          /\ 1 \in 1..Len(s) /\ Len(s) \in 1..Len(s) /\ s[1] # NULL
      BY <1>1, <1>5, <2>2, EndsOf
    <3>2. PICK p \in 1..Len(s) :
              c = s[p] /\ p = IF kind \in Forward THEN 1 ELSE Len(s)
      BY <1>2, <3>1 DEF ns_list_get_first, ns_list_get_last
    <3>3. c \in On(l) /\ c # NULL
      BY <1>5, <3>2 DEF Range
    <3>4. \A x \in On(l) : ~Leads(kind, s, x, c)
      <4> SUFFICES ASSUME NEW x \in On(l) PROVE ~Leads(kind, s, x, c)
        OBVIOUS
      <4>1. PICK i \in 1..Len(s) : s[i] = x
        BY <1>5 DEF Range
      <4>2. Leads(kind, s, x, c) <=> IF kind \in Forward THEN i < p ELSE p < i
        BY <1>5, <3>2, <4>1, LeadsAt
      <4>3. i \in Int /\ ~(i < 1) /\ ~(Len(s) < i)
        BY <1>5
      <4> QED BY <3>2, <4>2, <4>3
    <3>5. /\ InOrder(kind, s, On(l), << >>) /\ Range(<< >>) = {}
          /\ << >> \in Seq(Entry) /\ Append(<< >>, c) = <<c>>
      BY DEF InOrder, Range
    <3>6. visited' = Visiting(On(l), << >>, c) /\ c \in Entry
      BY <1>3, <1>5, <3>3, <3>5 DEF Visiting
    <3>7. UpTo(kind, s, On(l), << >>, c)
      BY <3>4, <3>5 DEF UpTo
    <3>8. /\ InOrder(kind, s, On(l), Visiting(On(l), << >>, c))
          /\ \A x \in On(l) : x \in Range(Visiting(On(l), << >>, c))
                                 <=> (x = c \/ Leads(kind, s, x, c))
      BY <3>5, <3>6, <3>7, VisitOne, Zenon
    <3> QED BY <3>3, <3>6, <3>8
  <2> QED BY <2>1, <2>2
<1> QED BY <1>1, <1>3, <1>4, <1>6, <1>7, VisitInvAt

\* A loop goes on to the next entry of its order, also when the body has
\* removed the entry it was at.
LEMMA LoopGoesOnVisits ==
    ASSUME LinkInv, VisitInv, LoopGoesOn
    PROVE  VisitInv'
<1>0. PICK l, kind : l = loop.list /\ kind = loop.kind
  OBVIOUS
<1>1. PICK s : s = Contents(l)
  OBVIOUS
<1>2. PICK c : c = Following(loop)
  OBVIOUS
<1>3. /\ loop.e # NULL /\ ComeTo(kind, l, c) /\ stayed' = stayed
      /\ visited' = IF c \in stayed THEN Append(visited, c) ELSE visited
  BY <1>0, <1>2 DEF LoopGoesOn
<1>4. kind # "none" /\ kind \in Loops
  BY <1>0, <1>3 DEF LinkInv, TypeOK, LoopOnList, NoLoop
<1>5. l \in List /\ stayed \subseteq On(l) /\ Needed \in On(l) \cup {NULL}
  BY <1>0, <1>4 DEF LinkInv, LoopOnList
<1>6. Contents(l)' = s
  BY <1>1, <1>5, LoopGoesOnStep DEF GivesSame
<1>7. /\ visited \in Seq(Entry) /\ On(l) \subseteq Entry /\ NULL \notin On(l)
  BY ListAssumption DEF LinkInv, TypeOK, On, Cell
<1>8. /\ InOrder(kind, s, stayed, visited)
      /\ \A x \in stayed : x \in Range(visited) <=> Passed(s, x)
  BY <1>0, <1>1, <1>4 DEF VisitInv, Seen, InOrder
<1>9. /\ c \in On(l) \cup {NULL}
      /\ \A x \in stayed : x \in Range(visited) <=> (c = NULL \/ Leads(kind, s, x, c))
  <2>1. CASE kind \in Safe
    <3>1. c = Needed
      BY <1>0, <1>2, <2>1 DEF Following, Needed
    <3> QED BY <1>5, <1>8, <2>1, <1>0, <3>1 DEF Passed
  <2>2. CASE kind \notin Safe
    <3>1. Needed = loop.e /\ Needed \in On(l) /\ Needed # NULL
      BY <1>0, <1>3, <1>5, <2>2 DEF Needed
    <3>2. c = Step(kind, l, Needed)
      BY <1>0, <1>2, <2>2, <3>1 DEF Following
    <3>3. \A x \in On(l) : (c = NULL \/ Leads(kind, s, x, c))
                               <=> (x = Needed \/ Leads(kind, s, x, Needed))
      BY <1>1, <1>4, <1>5, <3>1, <3>2, StepLeads
    <3>4. c \in On(l) \cup {NULL}
      BY <1>4, <1>5, <3>1, <3>2, Navigation DEF LinkInv
    <3> QED BY <1>0, <1>5, <1>8, <2>2, <3>1, <3>3, <3>4 DEF Passed
  <2> QED BY <2>1, <2>2
<1>10. /\ InOrder(kind, s, stayed, visited')
       /\ \A x \in stayed : x \in Range(visited')
                              <=> (c = NULL \/ x = c \/ Leads(kind, s, x, c))
  <2>1. CASE c = NULL
    <3>1. visited' = visited
      BY <1>3, <1>5, <1>7, <2>1
    <3> QED BY <1>8, <1>9, <2>1, <3>1
  <2>2. CASE c # NULL
    <3>1. c \in Entry
      BY <1>7, <1>9, <2>2
    <3>2. visited' = Visiting(stayed, visited, c)
      BY <1>3 DEF Visiting
    <3>3. UpTo(kind, s, stayed, visited, c)
      BY <1>9, <2>2 DEF UpTo
    <3>4. /\ InOrder(kind, s, stayed, Visiting(stayed, visited, c))
          /\ \A x \in stayed : x \in Range(Visiting(stayed, visited, c))
                                 <=> (x = c \/ Leads(kind, s, x, c))
      BY <1>7, <1>8, <3>1, <3>3, VisitOne, Zenon
    <3> QED BY <2>2, <3>2, <3>4
  <2> QED BY <2>1, <2>2
<1> QED BY <1>1, <1>3, <1>4, <1>5, <1>6, <1>9, <1>10, VisitInvAt

-----------------------------------------------------------------------------
(* Invariance *)

\* Every step keeps the whole invariant.
LEMMA NextKeeps ==
    ASSUME IInv, [Next]_vars
    PROVE  IInv'
<1>1. LinkInv /\ VisitInv /\ LinkInv'
  BY NextInv DEF IInv
<1>2. CASE Operation
  <2>1. PlaceKept
    BY <1>1, <1>2, OperationStep
  <2> QED BY <1>1, <2>1, VisitsKept DEF PlaceKept, IInv
<1>3. ASSUME NEW kind \in Loops, NEW l \in List, LoopBegins(kind, l) PROVE IInv'
  BY <1>1, <1>3, LoopBeginsVisits DEF IInv
<1>4. CASE LoopGoesOn
  BY <1>1, <1>4, LoopGoesOnVisits DEF IInv
<1>5. CASE LoopEnds
  <2>1. loop'.kind = "none"
    BY <1>5 DEF LoopEnds, NoLoop
  <2> QED BY <1>1, <2>1 DEF VisitInv, IInv
<1>6. CASE UNCHANGED vars
  <2>1. /\ next' = next /\ prev' = prev /\ last_nextptr' = last_nextptr
        /\ owner' = owner /\ loop' = loop /\ stayed' = stayed /\ visited' = visited
    BY <1>6 DEF vars, links, iteration
  <2>2. GivesSame
    <3>1. \A m \in List : Untouched(next, prev, last_nextptr, owner, m,
                                    next', prev', last_nextptr', owner')
      BY <2>1 DEF Untouched
    <3>2. LinkTypes'
      BY <1>1, <2>1, Typed DEF LinkInv, LinkTypes
    <3> QED BY <1>1, <3>1, <3>2, UntouchedGives DEF LinkInv
  <2>3. OrderKept
    BY <1>1, <2>2, SameKeeps
  <2> QED BY <1>1, <2>1, <2>3, VisitsKept DEF IInv
<1> QED BY <1>2, <1>3, <1>4, <1>5, <1>6 DEF Next, Iterate

\* Whatever the bodies of the loops do, as their kinds of loop permit, the
\* links of every list hold together, the loop keeps hold of its list, and it
\* has visited exactly those of the entries that stayed which it is past.
THEOREM Invariance == Spec => []IInv
<1>1. Init => IInv
  BY InitContents DEF IInv, VisitInv, Init, NoLoop
<1>2. IInv /\ [Next]_vars => IInv'
  BY NextKeeps
<1> QED BY <1>1, <1>2, PTL DEF Spec

\* A loop that came to every entry of its list, each once, made as many visits
\* as the list has entries.
LEMMA CountsVisits ==
    ASSUME LinkInv, VisitInv, loop.kind # "none",
           stayed = On(loop.list), stayed \subseteq Range(visited)
    PROVE  /\ Cardinality(Seen) = Len(Contents(loop.list))
           /\ Seen = {} <=> next[loop.list] = NULL
<1> DEFINE l == loop.list
           s == Contents(l)
           n == Len(s)
<1>1. l \in List /\ visited \in Seq(Entry) /\ DOMAIN visited = 1..Len(visited)
  BY DEF LinkInv, LoopOnList, TypeOK
<1>2. /\ s \in Seq(Entry) /\ DOMAIN s = 1..n /\ n \in Nat
      /\ IsInjective(s) /\ Range(s) = stayed
  BY <1>1, ContentsShape DEF LinkInv
<1>3. \A j, k \in Seen : j < k => Leads(loop.kind, s, visited[j], visited[k])
  BY DEF VisitInv
<1>4. next[l] = IF s = << >> THEN NULL ELSE s[1]
  BY <1>1, EndsOf
<1> HIDE DEF s
<1>5. Seen \subseteq 1..Len(visited) /\ Seen \subseteq Int
  BY <1>1 DEF Seen
<1>6. \A j, k \in Seen : visited[j] = visited[k] => j = k
  <2>1. \A x : ~Leads(loop.kind, s, x, x)
    BY <1>2, LeadsOrders
  <2> QED BY <1>3, <1>5, <2>1
<1>7. \A x \in stayed : \E k \in Seen : visited[k] = x
  BY DEF Seen, Range
<1>8. \A k \in Seen : visited[k] \in stayed
  BY DEF Seen
<1>9. ExistsBijection(1..n, Seen)
  <2> DEFINE f == [i \in 1..n |-> CHOOSE k \in Seen : visited[k] = s[i]]
  <2>1. \A i \in 1..n : s[i] \in stayed
    BY <1>2 DEF Range
  <2>2. \A i \in 1..n : f[i] \in Seen /\ visited[f[i]] = s[i]
    BY <1>7, <2>1
  <2>3. DOMAIN f = 1..n /\ f \in [1..n -> Seen]
    BY <2>2
  <2> HIDE DEF f
  <2>4. IsInjective(f)
    BY <1>2, <2>2, <2>3 DEF IsInjective
  <2>5. ASSUME NEW k \in Seen PROVE \E i \in 1..n : f[i] = k
    <3>1. PICK i \in 1..n : s[i] = visited[k]
      BY <1>2, <1>8 DEF Range
    <3> QED BY <1>6, <2>2, <3>1
  <2> QED BY <2>3, <2>4, <2>5 DEF ExistsBijection, Bijection, Injection, Surjection
<1>10. Cardinality(Seen) = n
  BY <1>2, <1>9, FS_CountingElements
<1>11. Seen = {} <=> s = << >>
  <2>1. CASE s = << >>
    <3>1. stayed = {}
      BY <1>2, <2>1 DEF Range
    <3> QED BY <1>8, <2>1, <3>1
  <2>2. CASE s # << >>
    <3>1. 1 \in 1..n
      BY <1>2, <2>2
    <3>2. s[1] \in stayed
      BY <1>2, <3>1 DEF Range
    <3> QED BY <1>7, <2>2, <3>2
  <2> QED BY <2>1, <2>2
<1>12. s # << >> => s[1] # NULL
  <2>1. s # << >> => 1 \in 1..n
    BY <1>2
  <2> QED BY <1>2, <2>1, ListAssumption DEF Cell
<1> QED BY <1>4, <1>10, <1>11, <1>12 DEF s

\* While the body of a loop adds and removes entries, as its kind of loop
\* permits, the loop comes to the entries that stay on the list in list order,
\* each once and none left out, and to all of them before it ends; when nothing
\* joined the list, their number is what ns_list_count tells.
THEOREM LoopsVisitInOrder == Spec => []VisitsInOrder
<1>1. IInv => VisitsInOrder
  <2> SUFFICES ASSUME IInv, loop.kind # "none" PROVE VisitsInOrder
    BY DEF VisitsInOrder
  <2>1. LinkInv /\ VisitInv
    BY DEF IInv
  <2>2. PICK s : s = Contents(loop.list)
    OBVIOUS
  <2>3. /\ \A j, k \in Seen : j < k => Leads(loop.kind, s, visited[j], visited[k])
        /\ \A e \in stayed : e \in Range(visited) <=> Passed(s, e)
        /\ loop.e = NULL => Needed = NULL
    BY <2>1, <2>2 DEF VisitInv
  <2>4. s \in Seq(Entry) /\ IsInjective(s)
    BY <2>1, <2>2, ContentsShape DEF LinkInv, LoopOnList
  <2>5. ASSUME NEW k \in Seen, NEW e \in stayed, Leads(loop.kind, s, e, visited[k])
        PROVE  e \in Range(visited)
    <3>1. visited[k] \in stayed /\ visited[k] \in Range(visited)
      BY DEF Seen, Range
    <3>2. Passed(s, visited[k])
      BY <2>3, <3>1
    <3>3. \A a, b, c : Leads(loop.kind, s, a, b) /\ Leads(loop.kind, s, b, c)
                          => Leads(loop.kind, s, a, c)
      BY <2>4, LeadsOrders
    <3>4. Passed(s, e)
      BY <2>5, <3>2, <3>3 DEF Passed
    <3> QED BY <2>3, <3>4
  <2>6. loop.e = NULL => stayed \subseteq Range(visited)
    BY <2>3 DEF Passed
  <2>7. loop.e = NULL /\ stayed = On(loop.list) =>
            /\ Cardinality(Seen) = ns_list_count(loop.list)
            /\ Seen = {} <=> ns_list_is_empty(loop.list)
    BY <2>1, <2>6, CountsVisits DEF ns_list_count, ns_list_is_empty
  <2> QED BY <2>2, <2>3, <2>5, <2>6, <2>7 DEF VisitsInOrder
<1> QED BY <1>1, Invariance, PTL
=============================================================================
